---- MODULE TonNativeEscrow ----
(***************************************************************************)
(* contracts-ton/contracts/TonNativeEscrow.tolk: the escrow of one deal in *)
(* TON.  The money is the contract's own balance, from which the chain     *)
(* also takes rent and the fees of the messages that pay out.  A payout    *)
(* message does not bounce; when the balance cannot pay for all messages   *)
(* of a transaction the whole transaction is undone, its change of status  *)
(* too.                                                                    *)
(*                                                                         *)
(* A step is one transaction; one whose assertions fail is not enabled.    *)
(***************************************************************************)
EXTENDS Integers

CONSTANTS
  BuyerTotal, SellerPayout, PlatformFee, RefundToBuyer, RefundFee, \* economics
  FundingDeadline, DeliveryDeadline, ConfirmationDeadline,
  Reserve,  \* MIN_OPERATIONAL_RESERVE
  Fee,      \* of a payout message (external)
  Rent,     \* for a unit of time (external)
  Values,   \* what a message may bring
  Awards,   \* what a decision may award the buyer
  MaxBalance, MaxTime \* bounds

ASSUME NativeAssumption ==
  /\ BuyerTotal \in Nat \ {0}
  /\ {SellerPayout, PlatformFee, RefundToBuyer, RefundFee} \subseteq Nat
  /\ SellerPayout + PlatformFee = BuyerTotal
  /\ RefundToBuyer + RefundFee = BuyerTotal
  /\ {FundingDeadline, DeliveryDeadline, ConfirmationDeadline} \subseteq Nat
  /\ FundingDeadline < DeliveryDeadline /\ DeliveryDeadline < ConfirmationDeadline
  /\ {Reserve, Fee, Rent, MaxBalance, MaxTime} \subseteq Nat
  /\ Values \subseteq Nat /\ Awards \subseteq Nat

VARIABLES
  status, fundedAmount, now,
  balance,
  received,  \* what each payee has got for the deal
  returned   \* what the buyer got back of a deposit that was too large

escrowVars == <<status, fundedAmount, now, balance, received, returned>>

Payees == {"buyer", "seller", "treasury"}
Nothing == [p \in Payees |-> 0]
Statuses == {"AWAITING_FUNDING", "FUNDED", "DELIVERED", "DISPUTED",
             "RELEASED", "REFUNDED", "RESOLVED"}
Holding == {"FUNDED", "DELIVERED", "DISPUTED"}
Settled == {"RELEASED", "REFUNDED", "RESOLVED"}

EscrowInit ==
  /\ status = "AWAITING_FUNDING" /\ fundedAmount = 0 /\ now = 1
  /\ balance = 0 /\ received = Nothing /\ returned = 0

\* assertConfigIsValid, the immutable configuration apart.
StorageValid == fundedAmount = IF status = "AWAITING_FUNDING" THEN 0 ELSE BuyerTotal

\* The messages of sendPayout: one for every amount that is not zero, its fee on top.
Cost(amount) == IF amount > 0 THEN amount + Fee ELSE 0
CostOf(payout) == Cost(payout.buyer) + Cost(payout.seller) + Cost(payout.treasury)

\* A message with some value moves the status; v stays in the balance.
Arrives(v) == balance + v <= MaxBalance

\* Slip: without the reserve.
Suffices_NoReserve(v) == v >= BuyerTotal

Suffices(v) == v >= BuyerTotal + Reserve

Fund(v) ==
  LET excess == IF v > BuyerTotal + Reserve THEN v - BuyerTotal - Reserve ELSE 0 IN
  /\ StorageValid
  /\ status = "AWAITING_FUNDING" /\ status' = "FUNDED"
  /\ now <= FundingDeadline
  /\ Suffices(v)
  /\ fundedAmount' = BuyerTotal
  /\ balance + v >= Cost(excess)
  /\ balance' = balance + v - Cost(excess) /\ returned' = returned + excess
  /\ UNCHANGED <<now, received>>

Moves(from, to, v) ==
  /\ StorageValid
  /\ status \in from /\ status' = to
  /\ balance' = balance + v
  /\ UNCHANGED <<fundedAmount, now, received, returned>>

\* the seller
MarkDelivered(v) == now <= DeliveryDeadline /\ Moves({"FUNDED"}, "DELIVERED", v)

\* either party
OpenDispute(v) ==
  /\ IF status = "FUNDED" THEN now <= DeliveryDeadline ELSE now <= ConfirmationDeadline
  /\ Moves({"FUNDED", "DELIVERED"}, "DISPUTED", v)

CanPay(payout, v) == balance + v >= CostOf(payout)

PaysOut(to, payout, v) ==
  /\ StorageValid
  /\ status' = to
  /\ CanPay(payout, v)
  /\ balance' = balance + v - CostOf(payout)
  /\ received' = [p \in Payees |-> received[p] + payout[p]]
  /\ UNCHANGED <<fundedAmount, now, returned>>

\* Slip: the fee of a release.
Refund_ReleaseFee == [buyer |-> RefundToBuyer, seller |-> 0, treasury |-> PlatformFee]

Refund == [buyer |-> RefundToBuyer, seller |-> 0, treasury |-> RefundFee]

PaySellerAndTreasury(v) ==
  PaysOut("RELEASED", [buyer |-> 0, seller |-> SellerPayout, treasury |-> PlatformFee], v)
PayRefundAndTreasury(v) ==
  PaysOut("REFUNDED", Refund, v)

\* the buyer
Release(v) == status = "DELIVERED" /\ now <= ConfirmationDeadline /\ PaySellerAndTreasury(v)

\* the seller
RefundBuyer(v) == status \in {"FUNDED", "DELIVERED"} /\ PayRefundAndTreasury(v)

\* anybody
RefundAfterSellerTimeout(v) ==
  status = "FUNDED" /\ now > DeliveryDeadline /\ PayRefundAndTreasury(v)

\* Slip: only what nobody has delivered.
ReleaseAfterBuyerTimeout_Funded(v) ==
  status = "FUNDED" /\ now > ConfirmationDeadline /\ PaySellerAndTreasury(v)

ReleaseAfterBuyerTimeout(v) ==
  status = "DELIVERED" /\ now > ConfirmationDeadline /\ PaySellerAndTreasury(v)

\* the arbitrator
Resolve(award, v) ==
  /\ status = "DISPUTED"
  /\ award + PlatformFee <= BuyerTotal
  /\ PaysOut("RESOLVED",
       [buyer |-> award, seller |-> BuyerTotal - PlatformFee - award, treasury |-> PlatformFee], v)

\* An empty message, from anybody: its value stays.
TopUp(v) ==
  /\ StorageValid
  /\ v > 0 /\ balance' = balance + v
  /\ UNCHANGED <<status, fundedAmount, now, received, returned>>

\* Time passes, and the chain takes what the contract has of the rent.
Tick ==
  /\ now < MaxTime /\ now' = now + 1
  /\ balance' = IF balance >= Rent THEN balance - Rent ELSE 0
  /\ UNCHANGED <<status, fundedAmount, received, returned>>

TimesOut(v) == RefundAfterSellerTimeout(v) \/ ReleaseAfterBuyerTimeout(v)

EscrowNext ==
  \/ \E v \in Values :
       /\ Arrives(v)
       /\ \/ Fund(v) \/ MarkDelivered(v) \/ OpenDispute(v) \/ Release(v) \/ RefundBuyer(v)
          \/ TimesOut(v) \/ TopUp(v)
          \/ \E award \in Awards : Resolve(award, v)
  \/ Tick

EscrowSpec == EscrowInit /\ [][EscrowNext]_escrowVars

\* Time passes; whoever is owed money after a deadline asks for it, and an arbitrator
\* decides, each with as much value as it takes.
Fairness ==
  /\ WF_escrowVars(Tick)
  /\ WF_escrowVars(\E v \in Values : Arrives(v) /\ TimesOut(v))
  /\ WF_escrowVars(\E v \in Values, award \in Awards : Arrives(v) /\ Resolve(award, v))

FairSpec == EscrowSpec /\ Fairness

-----------------------------------------------------------------------------

EscrowTypeOK ==
  /\ status \in Statuses /\ fundedAmount \in Nat /\ now \in Nat
  /\ balance \in Nat /\ returned \in Nat
  /\ received \in [Payees -> Nat]

\* The contract keeps the promise of PayoutPlan: the total is divided once, and paid in the
\* transaction that decides.
Phase == IF status \in Settled THEN "closed" ELSE "open"

Promise == INSTANCE PayoutPlan WITH
  Total <- BuyerTotal, phase <- Phase, plan <- received, credited <- received
PlanSpec == Promise!PlanSpec

\* While the reserve lasts for the rent, and for the message that gives an excess back, what
\* was deposited is untouched.
Spent == Rent * (now - 1) + (IF returned > 0 THEN Fee ELSE 0)
DepositUntouched == status \in Holding /\ Spent <= Reserve => balance >= fundedAmount

\* A funded deal ends, also when the rent has eaten into the deposit: no deadline leaves a
\* state nobody can leave, and no shortage lets a part of the payments out.
DealsSettle == status = "FUNDED" ~> status \in Settled

====
