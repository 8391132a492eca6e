---- MODULE FeeSchedule ----
(***************************************************************************)
(* The pure arithmetic of the Polygon contracts: the tariff of             *)
(* EscrowFactory.sol, the dispute fine and the dispute split of            *)
(* EscrowImplementation.sol.  Amounts are integers in token units (uint256 *)
(* in the code, where an overflow reverts; the amounts of a USDT deal are  *)
(* far below it), division truncates, and percentages keep the scale the   *)
(* code uses: basis points of 10000 and shares of 100.                     *)
(***************************************************************************)
EXTENDS Integers

BPS_DENOMINATOR == 10000
SHARE_DENOMINATOR == 100
DISPUTE_FEE_BPS == 5000
MAX_PERCENT_FEE_BPS == 1000

\* The part of x that `part' out of `whole' stands for, rounded down.
Portion(x, part, whole) == (x * part) \div whole

AtMost(x, cap) == IF x > cap THEN cap ELSE x

TariffConfig == [threshold : Nat, flatFee : Nat, percentFeeBps : 0 .. MAX_PERCENT_FEE_BPS]
FineConfig   == [fineMin : Nat, fineMax : Nat, fineBps : Nat]
FeeModel     == {"SPLIT_50_50", "BUYER_100", "SELLER_100"}

computeTotalFee(tariff, amount) ==
  IF amount < tariff.threshold
  THEN tariff.flatFee
  ELSE Portion(amount, tariff.percentFeeBps, BPS_DENOMINATOR)

\* What the buyer adds to the deposit; the seller bears the rest.
BuyerFee(totalFee, model) ==
  CASE model = "SPLIT_50_50" -> totalFee \div 2
    [] model = "BUYER_100"   -> totalFee
    [] model = "SELLER_100"  -> 0

SellerFee(totalFee, model) == totalFee - BuyerFee(totalFee, model)

computeFine(fine, amount) ==
  LET percentFine == Portion(amount, fine.fineBps, BPS_DENOMINATOR)
  IN  IF percentFine < fine.fineMin THEN fine.fineMin
      ELSE AtMost(percentFine, fine.fineMax)

(***************************************************************************)
(* The distribution of everything a disputed clone holds.  Principal is    *)
(* divided by the award alone; the fine and the reduced fee can only eat   *)
(* the rest of the balance (`ancillary'), what is left of it goes back to  *)
(* the buyer, and the part of the fine it cannot cover is left to the      *)
(* treasury's reserve.                                                     *)
(***************************************************************************)
computeResolveSplit(t, escrowBalance, buyerSharePct, sellerSharePct) ==
  LET fine            == computeFine(t.fine, t.amount)
      buyerPrincipal  == Portion(t.amount, buyerSharePct, SHARE_DENOMINATOR)
      ancillary       == escrowBalance - t.amount
      fineFromEscrow  == AtMost(Portion(fine, sellerSharePct, SHARE_DENOMINATOR), ancillary)
      disputeFee      == Portion(t.buyerFee + t.sellerFee, DISPUTE_FEE_BPS, BPS_DENOMINATOR)
      feeToTreasury   == IF buyerSharePct # 0 /\ sellerSharePct # 0
                         THEN AtMost(disputeFee, ancillary - fineFromEscrow)
                         ELSE 0
  IN  [ fine            |-> fine,
        fineFromEscrow  |-> fineFromEscrow,
        fineFromReserve |-> fine - fineFromEscrow,
        feeToTreasury   |-> feeToTreasury,
        buyerPayout     |-> buyerPrincipal + (ancillary - fineFromEscrow - feeToTreasury),
        sellerPayout    |-> t.amount - buyerPrincipal ]
====
