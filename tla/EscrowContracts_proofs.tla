---- MODULE EscrowContracts_proofs ----
(***************************************************************************)
(* Theorems about the contracts on the EVM, for any number of deals,       *)
(* arbitrators and accounts and any amounts and configurations: the        *)
(* arithmetic of fees and splits, the invariants of EscrowContracts, the   *)
(* registry's counters, its tokens and the arbitrators' rewards, which are *)
(* sums, and that the clones implement DealCustody.                        *)
(***************************************************************************)
EXTENDS EscrowAccounts, Sums, FiniteSetTheorems, TLAPS

-----------------------------------------------------------------------------
(* The arithmetic of FeeSchedule                                           *)

\* A portion of x is a natural number no larger than x.
LEMMA PortionBounds ==
  ASSUME NEW x \in Nat, NEW whole \in Nat \ {0}, NEW part \in 0 .. whole
  PROVE  Portion(x, part, whole) \in 0 .. x
<1>1. x * part \in Nat
  OBVIOUS
<1>2. x * part <= x * whole
  OBVIOUS
<1>3. (x * part) \div whole <= x
  BY <1>1, <1>2
<1> QED
  BY <1>1, <1>3 DEF Portion

LEMMA Denominators ==
  /\ BPS_DENOMINATOR \in Nat \ {0}
  /\ SHARE_DENOMINATOR \in Nat \ {0}
  /\ MAX_PERCENT_FEE_BPS \in 0 .. BPS_DENOMINATOR
  /\ DISPUTE_FEE_BPS \in 0 .. BPS_DENOMINATOR
  BY DEF BPS_DENOMINATOR, SHARE_DENOMINATOR, DISPUTE_FEE_BPS, MAX_PERCENT_FEE_BPS

LEMMA AtMostBounds ==
  ASSUME NEW x \in Nat, NEW cap \in Nat
  PROVE  /\ AtMost(x, cap) \in 0 .. x
         /\ AtMost(x, cap) <= cap
  BY DEF AtMost

LEMMA FeesAreNaturals ==
  ASSUME NEW rate \in TariffConfig, NEW amount \in Nat, NEW model \in FeeModel
  PROVE  LET totalFee == computeTotalFee(rate, amount)
         IN  /\ totalFee \in Nat
             /\ BuyerFee(totalFee, model) \in 0 .. totalFee
             /\ SellerFee(totalFee, model) \in 0 .. totalFee
<1> DEFINE totalFee == computeTotalFee(rate, amount)
<1>1. totalFee \in Nat
  <2>1. rate.flatFee \in Nat /\ rate.percentFeeBps \in 0 .. BPS_DENOMINATOR
    BY Denominators DEF TariffConfig
  <2>2. Portion(amount, rate.percentFeeBps, BPS_DENOMINATOR) \in Nat
    BY <2>1, PortionBounds, Denominators
  <2> QED
    BY <2>1, <2>2 DEF computeTotalFee
<1>2. BuyerFee(totalFee, model) \in 0 .. totalFee
  <2> HIDE DEF totalFee
  <2> QED
    BY <1>1 DEF BuyerFee, FeeModel
<1>3. SellerFee(totalFee, model) \in 0 .. totalFee
  <2> HIDE DEF totalFee
  <2> QED
    BY <1>1, <1>2 DEF SellerFee
<1> QED
  BY <1>1, <1>2, <1>3

LEMMA FineIsNatural ==
  ASSUME NEW rate \in FineConfig, NEW amount \in Nat
  PROVE  computeFine(rate, amount) \in Nat
<1>1. Portion(amount, rate.fineBps, BPS_DENOMINATOR) \in Nat
  <2>1. amount * rate.fineBps \in Nat
    BY DEF FineConfig
  <2>2. \A x \in Nat, n \in Nat \ {0} : x \div n \in Nat
    OBVIOUS
  <2> QED
    BY <2>1, <2>2, Denominators DEF Portion
<1> QED
  BY <1>1, AtMostBounds DEF computeFine, FineConfig

-----------------------------------------------------------------------------
\* The split of a dispute, for any terms and any balance that covers the amount:
\* every part is a natural number, so no subtraction of _computeResolveSplit can
\* revert; the parts paid from the escrow add up to its balance (the invariant its
\* comment states); each side gets at least its share of the principal; and the fine
\* is fully covered by the escrow and the reserve.
THEOREM ResolveSplitCorrect ==
  ASSUME NEW t, t.amount \in Nat, t.buyerFee \in Nat, t.sellerFee \in Nat,
         t.fine \in FineConfig,
         NEW balance \in Nat, balance >= t.amount,
         NEW pct \in 0 .. SHARE_DENOMINATOR
  PROVE  LET s     == computeResolveSplit(t, balance, pct, SHARE_DENOMINATOR - pct)
             share == Portion(t.amount, pct, SHARE_DENOMINATOR)
         IN  /\ s.fineFromEscrow \in Nat /\ s.fineFromReserve \in Nat
             /\ s.feeToTreasury \in Nat
             /\ s.buyerPayout \in Nat /\ s.sellerPayout \in Nat
             /\ s.fineFromEscrow + s.feeToTreasury + s.buyerPayout + s.sellerPayout = balance
             /\ s.fineFromEscrow + s.fineFromReserve = computeFine(t.fine, t.amount)
             /\ s.buyerPayout >= share
             /\ s.sellerPayout = t.amount - share
             /\ share \in 0 .. t.amount
<1> DEFINE due       == computeFine(t.fine, t.amount)
           share     == Portion(t.amount, pct, SHARE_DENOMINATOR)
           ancillary == balance - t.amount
           asked     == Portion(due, SHARE_DENOMINATOR - pct, SHARE_DENOMINATOR)
           escrow    == AtMost(asked, ancillary)
           reduced   == Portion(t.buyerFee + t.sellerFee, DISPUTE_FEE_BPS, BPS_DENOMINATOR)
           fee       == IF pct # 0 /\ SHARE_DENOMINATOR - pct # 0
                        THEN AtMost(reduced, ancillary - escrow) ELSE 0
           s         == computeResolveSplit(t, balance, pct, SHARE_DENOMINATOR - pct)
<1>1. due \in Nat
  BY FineIsNatural
<1>2. share \in 0 .. t.amount
  BY PortionBounds, Denominators
<1>3. ancillary \in Nat
  OBVIOUS
<1>4. asked \in 0 .. due
  <2> HIDE DEF due
  <2> QED
    BY <1>1, PortionBounds, Denominators
<1>5. escrow \in 0 .. due /\ escrow <= ancillary
  <2> HIDE DEF due, asked, ancillary
  <2>1. asked \in Nat
    BY <1>1, <1>4
  <2>2. escrow \in 0 .. asked /\ escrow <= ancillary
    BY <1>3, <2>1, AtMostBounds
  <2> QED
    BY <1>1, <1>4, <2>2
<1>6. reduced \in Nat
  <2>1. t.buyerFee + t.sellerFee \in Nat
    OBVIOUS
  <2> QED
    BY <2>1, PortionBounds, Denominators
<1>7. fee \in Nat /\ fee <= ancillary - escrow
  <2> HIDE DEF due, asked, ancillary, escrow, reduced
  <2>1. ancillary - escrow \in Nat
    BY <1>1, <1>3, <1>5
  <2> QED
    BY <1>6, <2>1 DEF AtMost
<1>8. s = [ fine |-> due, fineFromEscrow |-> escrow, fineFromReserve |-> due - escrow,
            feeToTreasury |-> fee, buyerPayout |-> share + (ancillary - escrow - fee),
            sellerPayout |-> t.amount - share ]
  BY DEF computeResolveSplit
<1> HIDE DEF due, share, asked, escrow, reduced, fee, s
<1> QED
  BY <1>1, <1>2, <1>3, <1>5, <1>7, <1>8 DEF s, share, due

-----------------------------------------------------------------------------
(* The token and the treasury                                              *)

TreasuryInv == TreasuryOK /\ TreasurySolvent

LEMMA UsersAre ==
  /\ Parties \subseteq Users /\ Arbitrators \subseteq Users /\ Safe \in Users
  BY DEF Users

\* Crediting any account keeps every balance a natural number.
LEMMA CreditOK ==
  ASSUME NEW w \in [Users -> Nat], NEW u, NEW x \in Nat
  PROVE  Credit(w, u, x) \in [Users -> Nat]
<1> DEFINE new == [y \in Users |-> IF y = u THEN w[u] + x ELSE w[y]]
<1>1. Credit(w, u, x) = new
  BY DEF Credit
<1>2. new \in [Users -> Nat]
  OBVIOUS
<1> QED
  BY <1>1, <1>2

LEMMA PaysOK ==
  ASSUME WalletOK, NEW u, NEW x \in Nat, Pays(u, x), u \in Users
  PROVE  WalletOK'
  BY DEF WalletOK, Pays

LEMMA FeeParts ==
  ASSUME TreasuryOK, NEW amount \in Nat
  PROVE  /\ ToReserve(amount) \in Nat /\ ToMain(amount) \in Nat
         /\ ToReserve(amount) + ToMain(amount) = amount
<1>1. reserveBps \in 0 .. BPS_DENOMINATOR
  BY DEF TreasuryOK, MAX_RESERVE_BPS, BPS_DENOMINATOR
<1>2. ToReserve(amount) \in 0 .. amount
  BY <1>1, PortionBounds, Denominators DEF ToReserve
<1> QED
  BY <1>2 DEF ToMain

LEMMA DepositFeeInv ==
  ASSUME TreasuryInv, NEW amount \in Nat, DepositFee(amount)
  PROVE  TreasuryInv'
<1>1. /\ ToReserve(amount) \in Nat /\ ToMain(amount) \in Nat
      /\ ToReserve(amount) + ToMain(amount) = amount
  BY FeeParts DEF TreasuryInv
<1> QED
  BY <1>1 DEF TreasuryInv, TreasuryOK, TreasurySolvent, DepositFee

LEMMA PaidFromReserveBounds ==
  ASSUME TreasuryOK, NEW amount \in Nat
  PROVE  PaidFromReserve(amount) \in 0 .. amount /\ PaidFromReserve(amount) <= reserveBalance
  BY DEF PaidFromReserve, AtMost, TreasuryOK

LEMMA PayAndDepositInv ==
  ASSUME TreasuryInv, NEW a \in Arbitrators, NEW reward \in Nat, NEW fee \in Nat,
         PayArbitratorAndDepositFee(a, reward, fee)
  PROVE  TreasuryInv'
<1>1. /\ ToReserve(fee) \in Nat /\ ToMain(fee) \in Nat
      /\ ToReserve(fee) + ToMain(fee) = fee
  BY FeeParts DEF TreasuryInv
<1>2. PaidFromReserve(reward) \in 0 .. reward /\ PaidFromReserve(reward) <= reserveBalance
  BY PaidFromReserveBounds DEF TreasuryInv
<1> QED
  BY <1>1, <1>2 DEF TreasuryInv, TreasuryOK, TreasurySolvent, PayArbitratorAndDepositFee

\* Settling a deferred reward keeps the treasury solvent.
LEMMA ClaimInv ==
  ASSUME TreasuryInv, WalletOK, NEW a \in Arbitrators, ClaimDeferredArbitratorReward(a)
  PROVE  TreasuryInv' /\ WalletOK' /\ Claimable(a) \in Nat
<1>1. Claimable(a) \in Nat /\ Claimable(a) <= deferred[a] /\ Claimable(a) <= reserveBalance
  BY DEF Claimable, AtMost, TreasuryInv, TreasuryOK
<1>2. /\ deferred' = [deferred EXCEPT ![a] = @ - Claimable(a)]
      /\ reserveBalance' = reserveBalance - Claimable(a)
      /\ treasuryTokens' = treasuryTokens - Claimable(a)
      /\ wallet' = Credit(wallet, a, Claimable(a))
      /\ UNCHANGED <<mainBalance, reserveBps>>
  BY DEF ClaimDeferredArbitratorReward, ReservePays
<1>3. TreasuryInv'
  BY <1>1, <1>2 DEF TreasuryInv, TreasuryOK, TreasurySolvent
<1>4. WalletOK'
  BY <1>1, <1>2, CreditOK DEF WalletOK
<1> QED
  BY <1>1, <1>3, <1>4

\* So does every other call an account makes.
LEMMA TreasuryNextInv ==
  ASSUME TreasuryInv, WalletOK, TreasuryNext
  PROVE  TreasuryInv' /\ WalletOK'
<1> DEFINE Goal == TreasuryInv' /\ WalletOK'
<1> USE DEF TreasuryInv, TreasuryOK, TreasurySolvent
<1>1. ASSUME NEW u \in Users, NEW x \in TreasuryAmounts,
             \/ CompensateUser(u, x) \/ WithdrawMain(u, x)
             \/ FundReserve(x) \/ MoveToReserve(x) \/ TransferToTreasury(u, x)
      PROVE  Goal
  <2>1. x \in Nat
    BY TreasuryAssumption
  <2>2. CASE CompensateUser(u, x)
    BY <2>1, <2>2, CreditOK DEF CompensateUser, ReservePays, WalletOK
  <2>3. CASE WithdrawMain(u, x)
    BY <2>1, <2>3, CreditOK DEF WithdrawMain, WalletOK
  <2>4. CASE FundReserve(x)
    BY <2>1, <2>4, PaysOK, UsersAre DEF FundReserve
  <2>5. CASE MoveToReserve(x)
    BY <2>1, <2>5 DEF MoveToReserve, WalletOK
  <2>6. CASE TransferToTreasury(u, x)
    BY <2>1, <2>6, PaysOK DEF TransferToTreasury, Receive
  <2> QED
    BY <1>1, <2>2, <2>3, <2>4, <2>5, <2>6
<1>2. ASSUME NEW bps \in ReserveRates, SetReserveBps(bps)
      PROVE  Goal
  BY <1>2, TreasuryAssumption DEF SetReserveBps, balances, WalletOK
<1>3. ASSUME Reconcile
      PROVE  Goal
  BY <1>3 DEF Reconcile, WalletOK
<1> QED
  BY <1>1, <1>2, <1>3, UsersAre DEF TreasuryNext

-----------------------------------------------------------------------------
(* The registry                                                            *)

RegistryInv == RegistryOK /\ WithdrawalExcludesDisputes

LEMMA DepositSlashedStakeInv ==
  ASSUME TreasuryInv, NEW x \in Nat, DepositSlashedStake(x)
  PROVE  TreasuryInv'
  BY DEF TreasuryInv, TreasuryOK, TreasurySolvent, DepositSlashedStake

LEMMA SlashInv ==
  ASSUME WalletOK, TreasuryInv, RegistryInv, UNCHANGED now,
         NEW a \in Arbitrators, NEW x \in Nat, NEW b, Slash(a, x, b)
  PROVE  WalletOK' /\ TreasuryInv' /\ RegistryInv'
<1> DEFINE actual == AtMost(x, stake[a])
<1>1. actual \in Nat /\ actual <= stake[a]
  BY DEF AtMost, RegistryInv, RegistryOK
<1>2. /\ registryTokens >= actual
      /\ stake' = [stake EXCEPT ![a] = @ - actual]
      /\ registryTokens' = registryTokens - actual
      /\ \/ DepositSlashedStake(actual) /\ UNCHANGED wallet
         \/ wallet' = Credit(wallet, b, actual) /\ UNCHANGED treasuryVars
      /\ UNCHANGED <<standingVars, disputeVars, requestVars, paramVars>>
  BY DEF Slash, TakesStake
<1> HIDE DEF actual
<1>3. RegistryInv'
  BY <1>1, <1>2 DEF RegistryInv, RegistryOK, WithdrawalExcludesDisputes, standingVars,
                    disputeVars, requestVars, paramVars
<1>4. WalletOK' /\ TreasuryInv'
  <2>1. CASE DepositSlashedStake(actual) /\ UNCHANGED wallet
    BY <1>1, <2>1, DepositSlashedStakeInv DEF WalletOK
  <2>2. CASE wallet' = Credit(wallet, b, actual) /\ UNCHANGED treasuryVars
    BY <1>1, <2>2, CreditOK DEF WalletOK, TreasuryInv, TreasuryOK, TreasurySolvent,
                                treasuryVars, balances
  <2> QED
    BY <1>2, <2>1, <2>2
<1> QED
  BY <1>3, <1>4

\* No call to the registry breaks a type, the treasury's solvency, or the exclusion
\* of withdrawals by disputes.
LEMMA RegistryNextInv ==
  ASSUME WalletOK, TreasuryInv, RegistryInv, UNCHANGED now,
         RegistryNext \/ RegistryAdminNext
  PROVE  WalletOK' /\ TreasuryInv' /\ RegistryInv'
<1> DEFINE Goal == WalletOK' /\ TreasuryInv' /\ RegistryInv'
<1> USE DEF RegistryInv, RegistryOK, WithdrawalExcludesDisputes, standingVars, stakeVars,
            disputeVars, requestVars, paramVars
<1>1. ASSUME UNCHANGED <<wallet, treasuryVars>>
      PROVE  WalletOK' /\ TreasuryInv'
  BY <1>1 DEF WalletOK, TreasuryInv, TreasuryOK, TreasurySolvent, treasuryVars, balances
<1>2. ASSUME NEW a \in Arbitrators, NEW l \in Levels, Hire(a, l) \/ SetLevel(a, l)
      PROVE  Goal
  BY <1>1, <1>2, RegistryAssumption DEF Hire, SetLevel, ArbStatus
<1>3. ASSUME NEW a \in Arbitrators, NEW s \in AdminStatuses, SetStatus(a, s)
      PROVE  Goal
  BY <1>1, <1>3, RegistryAssumption DEF SetStatus
<1>4. ASSUME NEW a \in Arbitrators, NEW x \in StakeAmounts,
             NEW b \in Parties \cup {NoOne}, Slash(a, x, b)
      PROVE  Goal
  <2>1. x \in Nat
    BY RegistryAssumption
  <2> QED
    BY <1>4, <2>1, SlashInv
<1>5. ASSUME NEW a \in Arbitrators, NEW x \in StakeAmounts, DepositStake(a, x)
      PROVE  Goal
  <2>1. x \in Nat
    BY RegistryAssumption
  <2>2. WalletOK'
    BY <1>5, <2>1, PaysOK, UsersAre DEF DepositStake
  <2>3. TreasuryInv'
    BY <1>5 DEF DepositStake, TreasuryInv, TreasuryOK, TreasurySolvent, treasuryVars, balances
  <2> QED
    BY <1>5, <2>1, <2>2, <2>3 DEF DepositStake
<1>6. ASSUME NEW a \in Arbitrators, NEW x \in StakeAmounts, RequestWithdraw(a, x)
      PROVE  Goal
  <2>1. x \in Nat
    BY RegistryAssumption
  <2> QED
    BY <1>1, <1>6, <2>1 DEF RequestWithdraw
<1>7. ASSUME NEW a \in Arbitrators, Withdraw(a)
      PROVE  Goal
  <2>1. WalletOK'
    BY <1>7, CreditOK DEF Withdraw, WalletOK
  <2>2. TreasuryInv'
    BY <1>7 DEF Withdraw, TreasuryInv, TreasuryOK, TreasurySolvent, treasuryVars, balances
  <2> QED
    BY <1>7, <2>1, <2>2 DEF Withdraw, ClearRequest, TakesStake
<1>8. ASSUME NEW a \in Arbitrators, CancelWithdrawRequest(a)
      PROVE  Goal
  BY <1>1, <1>8 DEF CancelWithdrawRequest, ClearRequest
<1>9. ASSUME RegistryAdminNext
      PROVE  Goal
  BY <1>1, <1>9, RegistryAssumption DEF RegistryAdminNext, SetMinStake, SetWithdrawCooldown
<1> QED
  BY <1>2, <1>3, <1>4, <1>5, <1>6, <1>7, <1>8, <1>9 DEF RegistryNext

-----------------------------------------------------------------------------
(* The factory and the clones                                              *)

\* What notifyFunded relies on and does not check: createEscrow lets no seller's fee
\* exceed the amount.
FeeFits == \A d \in Deals : terms[d].sellerFee <= terms[d].amount

CloneInv == CloneOK /\ FeeFits /\ CloneSolvent /\ PayoutsMatchOutcome

Inv ==
  /\ WalletOK
  /\ TreasuryInv
  /\ RegistryInv
  /\ FactoryOK
  /\ CloneInv
  /\ rewards \in [Arbitrators -> Nat]

\* The parts of the invariant a step that leaves their variables alone preserves.
LEMMA Framed ==
  ASSUME Inv
  PROVE  /\ UNCHANGED wallet => WalletOK'
         /\ UNCHANGED treasuryVars => TreasuryInv'
         /\ UNCHANGED <<registryVars, now>> => RegistryInv'
         /\ UNCHANGED factoryVars => FactoryOK'
         /\ UNCHANGED cloneVars => CloneInv'
         /\ UNCHANGED rewards => (rewards \in [Arbitrators -> Nat])'
<1>1. UNCHANGED wallet => WalletOK'
  BY DEF Inv, WalletOK
<1>2. UNCHANGED treasuryVars => TreasuryInv'
  BY DEF Inv, TreasuryInv, TreasuryOK, TreasurySolvent, treasuryVars, balances
<1>3. UNCHANGED <<registryVars, now>> => RegistryInv'
  BY DEF Inv, RegistryInv, RegistryOK, WithdrawalExcludesDisputes, registryVars,
         standingVars, stakeVars, disputeVars, requestVars, paramVars
<1>4. UNCHANGED factoryVars => FactoryOK'
  BY DEF Inv, FactoryOK, factoryVars
<1>5. UNCHANGED cloneVars => CloneInv'
  BY DEF Inv, CloneInv, CloneOK, FeeFits, CloneSolvent, PayoutsMatchOutcome, Deposit,
         cloneVars, termVars, eventLog, partyLog
<1>6. UNCHANGED rewards => (rewards \in [Arbitrators -> Nat])'
  BY DEF Inv
<1> QED
  BY <1>1, <1>2, <1>3, <1>4, <1>5, <1>6

LEMMA CreateEscrowInv ==
  ASSUME Inv, UNCHANGED now,
         NEW u \in Relays, NEW d \in Deals, NEW b \in Parties, NEW s \in Parties,
         NEW x \in DealAmounts, NEW m \in FeeModel, NEW n \in FundingSpans,
         CreateEscrow(u, d, b, s, x, m, n)
  PROVE  Inv'
<1> DEFINE totalFee == computeTotalFee(tariff, x)
           new == [ buyer |-> b, seller |-> s, amount |-> x,
                    buyerFee |-> BuyerFee(totalFee, m), sellerFee |-> SellerFee(totalFee, m),
                    fine |-> fine ]
<1>1. x \in Nat /\ n \in Nat /\ now \in Nat
  BY EscrowAssumption DEF Inv, RegistryInv, RegistryOK
<1>2. tariff \in TariffConfig /\ fine \in FineConfig
  BY DEF Inv, FactoryOK
<1>3. BuyerFee(totalFee, m) \in Nat /\ SellerFee(totalFee, m) \in Nat
  <2>1. /\ totalFee \in Nat
        /\ BuyerFee(totalFee, m) \in 0 .. totalFee
        /\ SellerFee(totalFee, m) \in 0 .. totalFee
    BY <1>1, <1>2, FeesAreNaturals
  <2> HIDE DEF totalFee
  <2> QED
    BY <2>1
<1>4. /\ status[d] = "UNINITIALIZED"
      /\ status' = [status EXCEPT ![d] = "AWAITING_FUNDING"]
      /\ terms' = [terms EXCEPT ![d] = new]
      /\ fundingDeadline' = [fundingDeadline EXCEPT ![d] = now + n]
      /\ UNCHANGED <<wallet, treasuryVars, registryVars, factoryVars, assignedArbitrator, held,
                     eventLog>>
  BY DEF CreateEscrow, Becomes
<1>5. new \in Terms
  <2> HIDE DEF totalFee
  <2> QED
    BY <1>1, <1>2, <1>3 DEF Terms
<1> HIDE DEF new
<1>6. CloneOK'
  BY <1>1, <1>4, <1>5 DEF Inv, CloneInv, CloneOK, EscrowStatus, eventLog, partyLog
<1>7. FeeFits'
  <2>1. new.sellerFee <= new.amount
    BY DEF CreateEscrow, Acceptable, new
  <2> QED
    BY <1>4, <2>1 DEF Inv, CloneInv, CloneOK, FeeFits
<1>8. CloneSolvent' /\ PayoutsMatchOutcome'
  BY <1>4, <1>5 DEF Inv, CloneInv, CloneOK, CloneSolvent, PayoutsMatchOutcome, Deposit,
                    EscrowStatus, Settled, eventLog, partyLog
<1> QED
  BY <1>4, <1>6, <1>7, <1>8, Framed DEF Inv, CloneInv, eventLog

LEMMA FactoryNextInv ==
  ASSUME Inv, UNCHANGED now, FactoryNext
  PROVE  Inv'
<1>1. ASSUME NEW r \in Relays, SetRelay(r)
      PROVE  Inv'
  BY <1>1, Framed DEF SetRelay, Inv, FactoryOK, cloneVars, eventLog
<1>2. ASSUME NEW m \in Minimums, SetMinDealAmount(m)
      PROVE  Inv'
  BY <1>2, Framed, EscrowAssumption DEF SetMinDealAmount, Inv, FactoryOK, cloneVars, eventLog
<1>3. ASSUME NEW t \in Tariffs, SetTariff(t)
      PROVE  Inv'
  BY <1>3, Framed, EscrowAssumption DEF SetTariff, Inv, FactoryOK, cloneVars, eventLog
<1>4. ASSUME NEW f \in Fines, SetFine(f)
      PROVE  Inv'
  BY <1>4, Framed, EscrowAssumption DEF SetFine, Inv, FactoryOK, cloneVars, eventLog
<1> QED
  BY <1>1, <1>2, <1>3, <1>4, CreateEscrowInv DEF FactoryNext

\* The steps of a clone that move no token.
LEMMA QuietStepInv ==
  ASSUME Inv, UNCHANGED now, NEW d \in Deals,
         \/ \E u \in Relays : NotifyFunded(u, d)
         \/ \E u \in Relays, t \in 1 .. MaxTime : ExtendFundingDeadline(u, d, t)
         \/ \E u \in Parties : Cancel(d, u)
         \/ Expire(d)
         \/ \E u \in Parties : Dispute(d, u)
  PROVE  Inv'
<1> USE DEF CloneInv, CloneOK, FeeFits, CloneSolvent, PayoutsMatchOutcome, Deposit, EscrowStatus,
            Settled, Becomes, eventLog, partyLog, termVars
<1>1. ASSUME NEW s \in Void, Close(d, s)
      PROVE  Inv'
  <2>1. CloneInv'
    BY <1>1 DEF Close, Inv, Void
  <2> QED
    BY <1>1, <2>1, Framed DEF Close, Inv
<1>2. ASSUME NEW u \in Relays, NotifyFunded(u, d)
      PROVE  Inv'
  <2>1. CloneInv'
    BY <1>2 DEF NotifyFunded, Covered, Inv
  <2> QED
    BY <1>2, <2>1, Framed DEF NotifyFunded, Inv
<1>3. ASSUME NEW u \in Relays, NEW t \in 1 .. MaxTime, ExtendFundingDeadline(u, d, t)
      PROVE  Inv'
  <2>1. t \in Nat
    BY RegistryAssumption
  <2>2. CloneInv'
    BY <1>3, <2>1 DEF ExtendFundingDeadline, Inv
  <2> QED
    BY <1>3, <2>2, Framed DEF ExtendFundingDeadline, Inv
<1>4. ASSUME NEW u \in Parties, Dispute(d, u)
      PROVE  Inv'
  <2>1. CloneInv'
    BY <1>4 DEF Dispute, Inv
  <2> QED
    BY <1>4, <2>1, Framed DEF Dispute, Inv
<1> QED
  BY <1>1, <1>2, <1>3, <1>4 DEF Cancel, Expire, Void

\* A deposit arriving, and what is left over leaving.
LEMMA TransferAndRescueInv ==
  ASSUME Inv, UNCHANGED now, NEW d \in Deals,
         \/ \E u \in Funders, x \in Transfers : TransferToClone(u, d, x)
         \/ Rescue(d)
  PROVE  Inv'
<1> USE DEF CloneInv, CloneOK, FeeFits, CloneSolvent, PayoutsMatchOutcome, Deposit, EscrowStatus,
            Settled, eventLog, partyLog, termVars
<1>1. ASSUME NEW u \in Funders, NEW x \in Transfers, TransferToClone(u, d, x)
      PROVE  Inv'
  <2>1. x \in Nat /\ u \in Users
    BY EscrowAssumption
  <2>2. WalletOK'
    BY <1>1, <2>1, PaysOK DEF Inv, TransferToClone
  <2>3. CloneInv'
    <3>1. \A e \in Deals : held'[e] \in Nat /\ held'[e] >= held[e]
      BY <1>1, <2>1 DEF TransferToClone, Inv
    <3>2. UNCHANGED <<status, termVars, assignedArbitrator, eventLog>> /\ held' \in [Deals -> Nat]
      BY <1>1, <2>1 DEF TransferToClone, Inv
    <3>3. \A e \in Deals : terms[e] \in Terms
      BY DEF Inv
    <3>4. \A e \in Deals : Deposit(e) \in Nat
      BY <3>3 DEF Terms
    <3>5. CloneSolvent'
      <4>1. ASSUME NEW e \in Deals, status'[e] \in {"FUNDED", "DISPUTED"}
            PROVE  held'[e] >= Deposit(e)' /\ terms'[e].sellerFee <= terms'[e].amount
        <5>1. held[e] >= Deposit(e) /\ terms[e].sellerFee <= terms[e].amount
          BY <3>2, <4>1 DEF Inv
        <5>2. Deposit(e)' = Deposit(e) /\ terms' = terms
          BY <3>2
        <5>3. held[e] \in Nat
          BY DEF Inv
        <5> HIDE DEF Deposit
        <5> QED
          BY <3>1, <3>4, <5>1, <5>2, <5>3
      <4> QED
        BY <4>1
    <3> QED
      BY <3>2, <3>5 DEF Inv
  <2> QED
    BY <1>1, <2>2, <2>3, Framed DEF TransferToClone, Inv
<1>2. ASSUME Rescue(d)
      PROVE  Inv'
  <2>1. held[d] \in Nat /\ held' = [held EXCEPT ![d] = 0]
    BY <1>2 DEF Rescue, Inv
  <2>2. status[d] \in Void \cup Settled
        /\ UNCHANGED <<registryVars, factoryVars, status, termVars, assignedArbitrator, eventLog>>
    BY <1>2 DEF Rescue
  <2>3. CloneInv'
    BY <2>1, <2>2 DEF Inv, Void
  <2>4. WalletOK'
    BY <1>2, <2>1, CreditOK DEF Rescue, Inv, WalletOK
  <2>5. TreasuryInv'
    <3>1. CASE UNCHANGED treasuryVars
      BY <3>1, Framed
    <3>2. CASE Receive(held[d])
      BY <2>1, <3>2 DEF Receive, Inv, TreasuryInv, TreasuryOK, TreasurySolvent
    <3> QED
      BY <1>2, <3>1, <3>2 DEF Rescue
  <2> QED
    BY <2>2, <2>3, <2>4, <2>5, Framed DEF Inv
<1> QED
  BY <1>1, <1>2

LEMMA ReleaseInv ==
  ASSUME Inv, UNCHANGED now, NEW d \in Deals, Release(d)
  PROVE  Inv'
<1> DEFINE payout   == terms[d].amount - terms[d].sellerFee
           totalFee == terms[d].buyerFee + terms[d].sellerFee
<1>1. /\ terms[d].amount \in Nat /\ terms[d].buyerFee \in Nat /\ terms[d].sellerFee \in Nat
      /\ terms[d].sellerFee <= terms[d].amount
      /\ held[d] \in Nat /\ status[d] = "FUNDED"
  BY DEF Inv, CloneInv, CloneOK, CloneSolvent, Terms, Release
<1>2. payout \in Nat /\ totalFee \in Nat
  BY <1>1
<1>3. /\ status' = [status EXCEPT ![d] = "RELEASED"]
      /\ held[d] >= payout + totalFee
      /\ held' = [held EXCEPT ![d] = @ - (payout + totalFee)]
      /\ wallet' = Credit(wallet, terms[d].seller, payout)
      /\ toSeller' = [toSeller EXCEPT ![d] = @ + payout]
      /\ DepositFee(totalFee)
      /\ UNCHANGED <<registryVars, factoryVars, termVars, assignedArbitrator, toBuyer, award,
                     rewards>>
  BY DEF Release, Becomes, Spends, SellerPayout
<1>4. toSeller[d] = 0 /\ toBuyer[d] = 0
  BY <1>1 DEF Inv, CloneInv, PayoutsMatchOutcome, Settled
<1>5. WalletOK' /\ TreasuryInv'
  BY <1>2, <1>3, CreditOK, DepositFeeInv DEF Inv, WalletOK
<1>6. CloneOK'
  BY <1>1, <1>2, <1>3 DEF Inv, CloneInv, CloneOK, EscrowStatus, termVars
<1>7. FeeFits' /\ CloneSolvent'
  BY <1>1, <1>3 DEF Inv, CloneInv, CloneOK, FeeFits, CloneSolvent, Deposit, termVars
<1>8. PayoutsMatchOutcome'
  BY <1>1, <1>2, <1>3, <1>4 DEF Inv, CloneInv, CloneOK, PayoutsMatchOutcome, Settled, Deposit,
                                termVars
<1> QED
  BY <1>3, <1>5, <1>6, <1>7, <1>8, Framed DEF Inv, CloneInv

LEMMA RefundInv ==
  ASSUME Inv, UNCHANGED now, NEW d \in Deals, Refund(d)
  PROVE  Inv'
<1>1. /\ terms[d].amount \in Nat /\ terms[d].buyerFee \in Nat
      /\ held[d] \in Nat /\ status[d] = "FUNDED"
  BY DEF Inv, CloneInv, CloneOK, Terms, Refund
<1>2. Deposit(d) \in Nat
  BY <1>1 DEF Deposit
<1>3. /\ status' = [status EXCEPT ![d] = "REFUNDED"]
      /\ held[d] >= Deposit(d)
      /\ held' = [held EXCEPT ![d] = @ - Deposit(d)]
      /\ wallet' = Credit(wallet, terms[d].buyer, Deposit(d))
      /\ toBuyer' = [toBuyer EXCEPT ![d] = @ + Deposit(d)]
      /\ UNCHANGED <<treasuryVars, registryVars, factoryVars, termVars, assignedArbitrator,
                     toSeller, award, rewards>>
  BY DEF Refund, Becomes, Spends
<1>4. toSeller[d] = 0 /\ toBuyer[d] = 0
  BY <1>1 DEF Inv, CloneInv, PayoutsMatchOutcome, Settled
<1>5. WalletOK'
  BY <1>2, <1>3, CreditOK DEF Inv, WalletOK
<1>6. CloneOK'
  BY <1>1, <1>2, <1>3 DEF Inv, CloneInv, CloneOK, EscrowStatus, termVars
<1>7. FeeFits' /\ CloneSolvent'
  BY <1>1, <1>3 DEF Inv, CloneInv, CloneOK, FeeFits, CloneSolvent, Deposit, termVars
<1>8. PayoutsMatchOutcome'
  <2>1. toBuyer'[d] = Deposit(d)
    BY <1>2, <1>3, <1>4 DEF Inv, CloneInv, CloneOK
  <2>2. Deposit(d)' = Deposit(d)
    BY <1>3 DEF Deposit, termVars
  <2> QED
    BY <1>1, <1>3, <1>4, <2>1, <2>2 DEF Inv, CloneInv, CloneOK, PayoutsMatchOutcome, Settled,
                                        Deposit, termVars
<1> QED
  BY <1>3, <1>5, <1>6, <1>7, <1>8, Framed DEF Inv, CloneInv

LEMMA AssignInv ==
  ASSUME Inv, UNCHANGED now, NEW u \in Relays, NEW d \in Deals, NEW a \in Arbitrators,
         AssignArbitrator(u, d, a)
  PROVE  Inv'
<1>1. RegistryInv'
  BY DEF AssignArbitrator, isEligible, BeginDispute, Inv, RegistryInv, RegistryOK,
         WithdrawalExcludesDisputes, standingVars, stakeVars, requestVars, paramVars
<1>2. CloneInv'
  BY DEF AssignArbitrator, Inv, CloneInv, CloneOK, FeeFits, CloneSolvent, PayoutsMatchOutcome,
         Deposit, termVars, eventLog, partyLog
<1> QED
  BY <1>1, <1>2, Framed DEF AssignArbitrator, Inv, eventLog

\* The whole decision of a dispute: its split pays out the clone's balance exactly,
\* the reserve and the fee keep the treasury solvent, and each party gets its share.
LEMMA ResolveInv ==
  ASSUME Inv, UNCHANGED now, NEW d \in Deals, NEW a \in Arbitrators, NEW p \in Shares,
         Resolve(d, a, p)
  PROVE  Inv'
<1> DEFINE t      == terms[d]
           s      == computeResolveSplit(t, held[d], p, SHARE_DENOMINATOR - p)
           paid   == PaidFromReserve(s.fineFromReserve)
           reward == s.fineFromEscrow + paid
           share  == Portion(t.amount, p, SHARE_DENOMINATOR)
           out    == s.fineFromEscrow + s.feeToTreasury + s.buyerPayout + s.sellerPayout
<1>1. /\ t.amount \in Nat /\ t.buyerFee \in Nat /\ t.sellerFee \in Nat /\ t.fine \in FineConfig
      /\ held[d] \in Nat /\ held[d] >= t.amount /\ status[d] = "DISPUTED"
      /\ p \in 0 .. SHARE_DENOMINATOR
  BY EscrowAssumption DEF Inv, CloneInv, CloneOK, Terms, Resolve
<1>2. /\ s.fineFromEscrow \in Nat /\ s.fineFromReserve \in Nat /\ s.feeToTreasury \in Nat
      /\ s.buyerPayout \in Nat /\ s.sellerPayout \in Nat
      /\ s.buyerPayout >= share /\ s.sellerPayout = t.amount - share
  <2> HIDE DEF t
  <2> QED
    BY <1>1, ResolveSplitCorrect
<1>3. /\ status' = [status EXCEPT ![d] = "RESOLVED"]
      /\ EndDispute(a)
      /\ held[d] >= out
      /\ held' = [held EXCEPT ![d] = @ - out]
      /\ PayArbitratorAndDepositFee(a, s.fineFromReserve, s.feeToTreasury)
      /\ wallet' = Credit(Credit(Credit(wallet, a, reward), t.buyer, s.buyerPayout),
                          t.seller, s.sellerPayout)
      /\ toBuyer' = [toBuyer EXCEPT ![d] = @ + s.buyerPayout]
      /\ toSeller' = [toSeller EXCEPT ![d] = @ + s.sellerPayout]
      /\ award' = [award EXCEPT ![d] = p]
      /\ rewards' = [rewards EXCEPT ![a] = @ + reward]
      /\ UNCHANGED <<factoryVars, termVars, assignedArbitrator>>
  BY DEF Resolve, Becomes, Spends
<1>4. toSeller[d] = 0 /\ toBuyer[d] = 0
  BY <1>1 DEF Inv, CloneInv, PayoutsMatchOutcome, Settled
<1> HIDE DEF s
<1>5. paid \in Nat
  BY <1>2, PaidFromReserveBounds DEF Inv, TreasuryInv
<1> HIDE DEF paid
<1>6. TreasuryInv'
  BY <1>2, <1>3, PayAndDepositInv DEF Inv
<1>7. reward \in Nat /\ out \in Nat
  BY <1>2, <1>5
<1>8. WalletOK'
  <2> HIDE DEF reward, out
  <2>1. Credit(wallet, a, reward) \in [Users -> Nat]
    BY <1>7, CreditOK DEF Inv, WalletOK
  <2>2. Credit(Credit(wallet, a, reward), t.buyer, s.buyerPayout) \in [Users -> Nat]
    BY <1>2, <2>1, CreditOK
  <2>3. Credit(Credit(Credit(wallet, a, reward), t.buyer, s.buyerPayout), t.seller, s.sellerPayout)
          \in [Users -> Nat]
    BY <1>2, <2>2, CreditOK
  <2> QED
    BY <1>3, <2>3 DEF WalletOK
<1>9. RegistryInv'
  BY <1>3 DEF EndDispute, Inv, RegistryInv, RegistryOK, WithdrawalExcludesDisputes,
              standingVars, stakeVars, requestVars, paramVars
<1>10. (rewards \in [Arbitrators -> Nat])'
  <2> HIDE DEF reward
  <2> QED
    BY <1>3, <1>7 DEF Inv
<1> HIDE DEF share, out, reward
<1>11. CloneOK'
  BY <1>1, <1>2, <1>3, <1>7 DEF Inv, CloneInv, CloneOK, EscrowStatus, termVars
<1>12. FeeFits' /\ CloneSolvent'
  BY <1>1, <1>3 DEF Inv, CloneInv, CloneOK, FeeFits, CloneSolvent, Deposit, termVars
<1>13. PayoutsMatchOutcome'
  <2>1. /\ toBuyer'[d] >= Portion(t.amount, p, SHARE_DENOMINATOR)
        /\ toSeller'[d] = t.amount - Portion(t.amount, p, SHARE_DENOMINATOR)
    <3>1. toBuyer'[d] = s.buyerPayout /\ toSeller'[d] = s.sellerPayout
      BY <1>2, <1>3, <1>4 DEF Inv, CloneInv, CloneOK
    <3> QED
      BY <1>2, <3>1 DEF share
  <2>2. status'[d] = "RESOLVED" /\ award'[d] = p /\ terms'[d] = terms[d]
    BY <1>1, <1>3 DEF Inv, CloneInv, CloneOK, termVars
  <2>3. ASSUME NEW e \in Deals, e # d
        PROVE  /\ status'[e] = status[e] /\ award'[e] = award[e] /\ terms'[e] = terms[e]
               /\ toBuyer'[e] = toBuyer[e] /\ toSeller'[e] = toSeller[e]
    BY <1>3, <2>3 DEF Inv, CloneInv, CloneOK, termVars
  <2> QED
    BY <2>1, <2>2, <2>3 DEF Inv, CloneInv, PayoutsMatchOutcome, Settled, Deposit
<1> QED
  BY <1>3, <1>6, <1>8, <1>9, <1>10, <1>11, <1>12, <1>13, Framed DEF Inv, CloneInv

-----------------------------------------------------------------------------
(* The whole system                                                        *)

LEMMA InitInv == Init => Inv
<1> SUFFICES ASSUME Init PROVE Inv
  OBVIOUS
<1> USE DEF Init
<1>1. WalletOK /\ (rewards \in [Arbitrators -> Nat])
  BY EscrowAssumption DEF WalletOK
<1>2. TreasuryInv
  BY DEF TreasuryInit, TreasuryInv, TreasuryOK, TreasurySolvent, MAX_RESERVE_BPS
<1>3. RegistryInv
  BY RegistryAssumption DEF RegistryInit, RegistryInv, RegistryOK, WithdrawalExcludesDisputes,
                            ArbStatus, ArbLevel
<1>4. FactoryOK
  BY EscrowAssumption DEF FactoryOK
<1>5. ZeroTerms \in Terms /\ ZeroTerms.sellerFee <= ZeroTerms.amount
  BY Denominators DEF ZeroTerms, Terms, FineConfig
<1>6. CloneInv
  BY <1>5, Denominators DEF CloneInv, CloneOK, FeeFits, CloneSolvent, PayoutsMatchOutcome,
                            EscrowStatus, Settled
<1> QED
  BY <1>1, <1>2, <1>3, <1>4, <1>6 DEF Inv

LEMMA NextInv == Inv /\ [Next]_vars => Inv'
<1> SUFFICES ASSUME Inv, [Next]_vars PROVE Inv'
  OBVIOUS
<1>1. CASE FactoryNext /\ UNCHANGED now
  BY <1>1, FactoryNextInv
<1>2. CASE CloneNext /\ UNCHANGED now
  <2>1. PICK d \in Deals :
          \/ \E u \in Relays : NotifyFunded(u, d)
          \/ \E u \in Relays, t \in 1 .. MaxTime : ExtendFundingDeadline(u, d, t)
          \/ \E u \in Parties : Cancel(d, u)
          \/ Expire(d)
          \/ Rescue(d)
          \/ Release(d)
          \/ Refund(d)
          \/ \E u \in Parties : Dispute(d, u)
          \/ \E u \in Relays, a \in Arbitrators : AssignArbitrator(u, d, a)
          \/ \E a \in Arbitrators, p \in Shares : Resolve(d, a, p)
          \/ \E u \in Funders, x \in Transfers : TransferToClone(u, d, x)
    BY <1>2 DEF CloneNext
  <2>2. CASE \/ \E u \in Relays : NotifyFunded(u, d)
             \/ \E u \in Relays, t \in 1 .. MaxTime : ExtendFundingDeadline(u, d, t)
             \/ \E u \in Parties : Cancel(d, u)
             \/ Expire(d)
             \/ \E u \in Parties : Dispute(d, u)
    BY <1>2, <2>2, QuietStepInv
  <2>3. CASE \/ Rescue(d)
             \/ \E u \in Funders, x \in Transfers : TransferToClone(u, d, x)
    BY <1>2, <2>3, TransferAndRescueInv
  <2>4. CASE Release(d)
    BY <1>2, <2>4, ReleaseInv
  <2>5. CASE Refund(d)
    BY <1>2, <2>5, RefundInv
  <2>6. CASE \E u \in Relays, a \in Arbitrators : AssignArbitrator(u, d, a)
    BY <1>2, <2>6, AssignInv
  <2>7. CASE \E a \in Arbitrators, p \in Shares : Resolve(d, a, p)
    BY <1>2, <2>7, ResolveInv
  <2> QED
    BY <2>1, <2>2, <2>3, <2>4, <2>5, <2>6, <2>7
<1>3. CASE TreasuryStep
  <2>1. TreasuryInv' /\ WalletOK' /\ (rewards \in [Arbitrators -> Nat])'
    <3>1. ASSUME NEW a \in Arbitrators, ClaimDeferredArbitratorReward(a),
                 rewards' = [rewards EXCEPT ![a] = @ + Claimable(a)]
          PROVE  TreasuryInv' /\ WalletOK' /\ (rewards \in [Arbitrators -> Nat])'
      BY <3>1, ClaimInv DEF Inv
    <3>2. CASE TreasuryNext /\ UNCHANGED rewards
      BY <3>2, TreasuryNextInv DEF Inv
    <3> QED
      BY <1>3, <3>1, <3>2 DEF TreasuryStep
  <2>2. CloneInv'
    BY <1>3 DEF TreasuryStep, Inv, CloneInv, CloneOK, FeeFits, CloneSolvent,
                PayoutsMatchOutcome, Deposit, termVars, partyLog
  <2> QED
    BY <1>3, <2>1, <2>2, Framed DEF TreasuryStep, Inv
<1>4. CASE (RegistryNext \/ RegistryAdminNext) /\ UNCHANGED <<now, factoryVars, cloneVars>>
  <2>1. WalletOK' /\ TreasuryInv' /\ RegistryInv'
    BY <1>4, RegistryNextInv DEF Inv
  <2> QED
    BY <1>4, <2>1, Framed DEF Inv, cloneVars, eventLog
<1>5. CASE Tick
  <2>1. RegistryInv'
    BY <1>5 DEF Tick, Inv, RegistryInv, RegistryOK, WithdrawalExcludesDisputes, registryVars,
                standingVars, stakeVars, disputeVars, requestVars, paramVars
  <2> QED
    BY <1>5, <2>1, Framed DEF Tick, Inv, cloneVars, eventLog
<1>6. CASE UNCHANGED vars
  BY <1>6, Framed DEF vars, Inv, cloneVars, eventLog
<1> QED
  BY <1>1, <1>2, <1>3, <1>4, <1>5, <1>6 DEF Next

THEOREM Invariance == Spec => []Inv
  BY InitInv, NextInv, PTL DEF Spec

\* Every variable of the contracts always has its type: balances, counters and
\* amounts owed are never negative, so no checked subtraction of theirs is ever the
\* reason a call reverts.
THEOREM TypesHold == Spec => []TypeOK
<1>1. Inv => TypeOK
  BY DEF Inv, TreasuryInv, RegistryInv, CloneInv, TypeOK
<1> QED
  BY <1>1, Invariance, PTL

\* A funded or disputed clone can pay every settlement, whatever deposits, rescues,
\* tariffs and extensions came before.
THEOREM ClonesAreSolvent == Spec => []CloneSolvent
<1>1. Inv => CloneSolvent
  BY DEF Inv, CloneInv
<1> QED
  BY <1>1, Invariance, PTL

\* The treasury's accounts are always backed by its tokens.
THEOREM TreasuryIsSolvent == Spec => []TreasurySolvent
<1>1. Inv => TreasurySolvent
  BY DEF Inv, TreasuryInv
<1> QED
  BY <1>1, Invariance, PTL

\* The parties get what the outcome entitles them to, once, in every deal.
THEOREM PartiesGetTheirDue == Spec => []PayoutsMatchOutcome
<1>1. Inv => PayoutsMatchOutcome
  BY DEF Inv, CloneInv
<1> QED
  BY <1>1, Invariance, PTL

\* No arbitrator has a withdrawal under way while he has a dispute in hand.
THEOREM StakesStayBehindDisputes == Spec => []WithdrawalExcludesDisputes
<1>1. Inv => WithdrawalExcludesDisputes
  BY DEF Inv, RegistryInv
<1> QED
  BY <1>1, Invariance, PTL

-----------------------------------------------------------------------------
\* Only four kinds of step take tokens from a clone.
LEMMA BalanceSteps ==
  ASSUME Inv, [Next]_vars, NEW d \in Deals, held'[d] < held[d]
  PROVE  \/ Rescue(d) \/ Release(d) \/ Refund(d)
         \/ \E a \in Arbitrators, p \in Shares : Resolve(d, a, p)
<1>0. held \in [Deals -> Nat]
  BY DEF Inv, CloneInv, CloneOK
<1>1. held' # held
  BY <1>0
<1>2. ~ FactoryNext
  BY <1>1 DEF FactoryNext, CreateEscrow, SetRelay, SetMinDealAmount, SetTariff, SetFine, cloneVars
<1>3. ~ TreasuryStep
  BY <1>1 DEF TreasuryStep
<1>4. ~ UNCHANGED cloneVars
  BY <1>1 DEF cloneVars
<1>5. CloneNext
  BY <1>2, <1>3, <1>4 DEF Next, Tick, vars
<1>6. PICK e \in Deals :
        \/ Rescue(e) \/ Release(e) \/ Refund(e)
        \/ \E a \in Arbitrators, p \in Shares : Resolve(e, a, p)
        \/ \E u \in Funders, x \in Transfers : TransferToClone(u, e, x)
  BY <1>1, <1>5 DEF CloneNext, NotifyFunded, ExtendFundingDeadline, Cancel, Expire, Close,
                    Dispute, AssignArbitrator
<1>7. ~ \E u \in Funders, x \in Transfers : TransferToClone(u, e, x)
  BY <1>0, EscrowAssumption DEF TransferToClone
<1>8. ASSUME Rescue(e) \/ Release(e) \/ Refund(e)
             \/ \E a \in Arbitrators, p \in Shares : Resolve(e, a, p)
      PROVE  \E v : held' = [held EXCEPT ![e] = v]
  BY <1>8 DEF Rescue, Release, Refund, Resolve, Spends
<1>9. e = d
  BY <1>0, <1>6, <1>7, <1>8
<1> QED
  BY <1>6, <1>7, <1>9

\* Tokens leave a clone only by settling it, or by a rescue to the one account the
\* outcome names.
THEOREM TokensLeaveOnlyByRule == Spec => TokensLeaveByRule
<1> DEFINE ByRule(d) ==
      \/ status[d] \in {"FUNDED", "DISPUTED"} /\ status'[d] \in Settled
      \/ /\ status[d] \in Void /\ held'[d] = 0
         /\ wallet' = Credit(wallet, terms[d].buyer, held[d])
      \/ /\ status[d] \in Settled /\ held'[d] = 0
         /\ Receive(held[d])
<1>1. ASSUME Inv, [Next]_vars, NEW d \in Deals, held'[d] < held[d]
      PROVE  ByRule(d)
  <2>1. held \in [Deals -> Nat] /\ status \in [Deals -> EscrowStatus]
    BY <1>1 DEF Inv, CloneInv, CloneOK
  <2>2. CASE Rescue(d)
    BY <2>1, <2>2 DEF Rescue
  <2>3. CASE Release(d) \/ Refund(d) \/ \E a \in Arbitrators, p \in Shares : Resolve(d, a, p)
    BY <2>1, <2>3 DEF Release, Refund, Resolve, Becomes, Settled
  <2> QED
    BY <1>1, <2>2, <2>3, BalanceSteps
<1>2. Inv /\ [Next]_vars => [\A d \in Deals : held'[d] < held[d] => ByRule(d)]_vars
  BY <1>1
<1> QED
  BY <1>2, Invariance, PTL DEF Spec, TokensLeaveByRule

-----------------------------------------------------------------------------
(* The registry's counters agree with the clones                           *)

\* Only a deal that is or was in dispute has an arbitrator.
AssignedInDispute ==
  \A d \in Deals : assignedArbitrator[d] # NoOne => status[d] \in {"DISPUTED", "RESOLVED"}

CountInv == AssignedInDispute /\ DisputesCounted

LEMMA ArbitratorsAreSomeone == NoOne \notin Arbitrators
  BY NoOneAssumption DEF Users

LEMMA DealsOfFinite ==
  ASSUME NEW a, NEW s
  PROVE  IsFiniteSet(DealsOf(a, s)) /\ Cardinality(DealsOf(a, s)) \in Nat
<1>1. DealsOf(a, s) \subseteq Deals
  BY DEF DealsOf
<1> QED
  BY <1>1, EscrowAssumption, FS_Subset, FS_CardinalityType

\* A step that leaves the counters and the assignments alone, and moves no deal into
\* or out of a dispute that has an arbitrator.
LEMMA CountFramed ==
  ASSUME Inv, CountInv,
         UNCHANGED <<disputeVars, assignedArbitrator>>,
         \A d \in Deals :
           \/ status'[d] = status[d]
           \/ assignedArbitrator[d] = NoOne
  PROVE  CountInv'
<1>1. AssignedInDispute'
  BY DEF CountInv, AssignedInDispute
<1>2. ASSUME NEW a \in Arbitrators, NEW s
      PROVE  DealsOf(a, s)' = DealsOf(a, s)
  BY ArbitratorsAreSomeone DEF DealsOf
<1>3. DisputesCounted'
  BY <1>2 DEF CountInv, DisputesCounted, disputeVars
<1> QED
  BY <1>1, <1>3 DEF CountInv

LEMMA AssignCounts ==
  ASSUME Inv, CountInv, NEW u \in Relays, NEW d \in Deals, NEW a \in Arbitrators,
         AssignArbitrator(u, d, a)
  PROVE  CountInv'
<1>1. /\ status' = status /\ status[d] = "DISPUTED" /\ assignedArbitrator[d] = NoOne
      /\ assignedArbitrator' = [assignedArbitrator EXCEPT ![d] = a]
      /\ activeDisputes' = [activeDisputes EXCEPT ![a] = @ + 1]
      /\ totalResolved' = totalResolved
      /\ assignedArbitrator \in [Deals -> Arbitrators \cup {NoOne}]
      /\ activeDisputes \in [Arbitrators -> Nat]
  BY DEF AssignArbitrator, BeginDispute, Inv, CloneInv, CloneOK, RegistryInv, RegistryOK
<1>2. AssignedInDispute'
  BY <1>1 DEF CountInv, AssignedInDispute
<1>3. DealsOf(a, "DISPUTED")' = DealsOf(a, "DISPUTED") \cup {d} /\ d \notin DealsOf(a, "DISPUTED")
  BY <1>1, ArbitratorsAreSomeone DEF DealsOf
<1>4. Cardinality(DealsOf(a, "DISPUTED")') = Cardinality(DealsOf(a, "DISPUTED")) + 1
  BY <1>3, DealsOfFinite, FS_AddElement
<1>5. ASSUME NEW b \in Arbitrators, b # a
      PROVE  DealsOf(b, "DISPUTED")' = DealsOf(b, "DISPUTED")
  BY <1>1, <1>5, ArbitratorsAreSomeone DEF DealsOf
<1>6. ASSUME NEW b \in Arbitrators
      PROVE  DealsOf(b, "RESOLVED")' = DealsOf(b, "RESOLVED")
  BY <1>1 DEF DealsOf
<1>7. DisputesCounted'
  BY <1>1, <1>4, <1>5, <1>6 DEF CountInv, DisputesCounted
<1> QED
  BY <1>2, <1>7 DEF CountInv

LEMMA ResolveCounts ==
  ASSUME Inv, CountInv, NEW d \in Deals, NEW a \in Arbitrators, NEW p \in Shares,
         Resolve(d, a, p)
  PROVE  CountInv'
<1>1. /\ status' = [status EXCEPT ![d] = "RESOLVED"]
      /\ status[d] = "DISPUTED" /\ assignedArbitrator[d] = a
      /\ assignedArbitrator' = assignedArbitrator
      /\ activeDisputes' = [activeDisputes EXCEPT ![a] = @ - 1]
      /\ totalResolved' = [totalResolved EXCEPT ![a] = @ + 1]
      /\ status \in [Deals -> EscrowStatus]
      /\ activeDisputes \in [Arbitrators -> Nat] /\ totalResolved \in [Arbitrators -> Nat]
  BY DEF Resolve, Becomes, EndDispute, Inv, CloneInv, CloneOK, RegistryInv, RegistryOK
<1>2. AssignedInDispute'
  BY <1>1 DEF CountInv, AssignedInDispute
<1>3. DealsOf(a, "DISPUTED")' = DealsOf(a, "DISPUTED") \ {d} /\ d \in DealsOf(a, "DISPUTED")
  BY <1>1 DEF DealsOf
<1>4. Cardinality(DealsOf(a, "DISPUTED")') = Cardinality(DealsOf(a, "DISPUTED")) - 1
  BY <1>3, DealsOfFinite, FS_RemoveElement
<1>5. DealsOf(a, "RESOLVED")' = DealsOf(a, "RESOLVED") \cup {d} /\ d \notin DealsOf(a, "RESOLVED")
  BY <1>1 DEF DealsOf
<1>6. Cardinality(DealsOf(a, "RESOLVED")') = Cardinality(DealsOf(a, "RESOLVED")) + 1
  BY <1>5, DealsOfFinite, FS_AddElement
<1>7. ASSUME NEW b \in Arbitrators, b # a, NEW s
      PROVE  DealsOf(b, s)' = DealsOf(b, s)
  BY <1>1, <1>7 DEF DealsOf
<1>8. DisputesCounted'
  BY <1>1, <1>4, <1>6, <1>7 DEF CountInv, DisputesCounted
<1> QED
  BY <1>2, <1>8 DEF CountInv

LEMMA CountInit == Init => CountInv
<1> SUFFICES ASSUME Init PROVE CountInv
  OBVIOUS
<1>1. ASSUME NEW a \in Arbitrators, NEW s
      PROVE  DealsOf(a, s) = {}
  BY ArbitratorsAreSomeone DEF Init, DealsOf
<1> QED
  BY <1>1, FS_EmptySet DEF Init, RegistryInit, CountInv, AssignedInDispute, DisputesCounted

LEMMA CountNext == Inv /\ CountInv /\ [Next]_vars => CountInv'
<1> SUFFICES ASSUME Inv, CountInv, [Next]_vars PROVE CountInv'
  OBVIOUS
<1> USE DEF registryVars, cloneVars
<1>1. CASE UNCHANGED <<disputeVars, assignedArbitrator, status>>
  BY <1>1, CountFramed
<1>2. ASSUME NEW d \in Deals, NEW s, Becomes(d, s), assignedArbitrator[d] = NoOne,
             UNCHANGED <<disputeVars, assignedArbitrator>>
      PROVE  CountInv'
  <2>1. \A e \in Deals : status'[e] = status[e] \/ assignedArbitrator[e] = NoOne
    BY <1>2 DEF Becomes, Inv, CloneInv, CloneOK
  <2> QED
    BY <1>2, <2>1, CountFramed
<1>3. \A d \in Deals : status[d] \notin {"DISPUTED", "RESOLVED"} => assignedArbitrator[d] = NoOne
  BY DEF CountInv, AssignedInDispute
<1>4. CASE FactoryNext
  <2>1. CASE \E r \in Relays : SetRelay(r)
    BY <1>1, <2>1 DEF SetRelay
  <2>2. CASE \E m \in Minimums : SetMinDealAmount(m)
    BY <1>1, <2>2 DEF SetMinDealAmount
  <2>3. CASE \E t \in Tariffs : SetTariff(t)
    BY <1>1, <2>3 DEF SetTariff
  <2>4. CASE \E f \in Fines : SetFine(f)
    BY <1>1, <2>4 DEF SetFine
  <2>5. ASSUME NEW u \in Relays, NEW d \in Deals, NEW b \in Parties, NEW s \in Parties,
               NEW x \in DealAmounts, NEW m \in FeeModel, NEW n \in FundingSpans,
               CreateEscrow(u, d, b, s, x, m, n)
        PROVE  CountInv'
    BY <1>2, <1>3, <2>5 DEF CreateEscrow
  <2> QED
    BY <1>4, <2>1, <2>2, <2>3, <2>4, <2>5 DEF FactoryNext
<1>5. ASSUME NEW d \in Deals,
             \/ \E u \in Relays : NotifyFunded(u, d)
             \/ \E u \in Relays, t \in 1 .. MaxTime : ExtendFundingDeadline(u, d, t)
             \/ \E u \in Parties : Cancel(d, u)
             \/ Expire(d)
             \/ Rescue(d)
             \/ Release(d)
             \/ Refund(d)
             \/ \E u \in Parties : Dispute(d, u)
             \/ \E u \in Funders, x \in Transfers : TransferToClone(u, d, x)
      PROVE  CountInv'
  <2>1. CASE \E u \in Relays : NotifyFunded(u, d)
    BY <1>2, <1>3, <2>1 DEF NotifyFunded
  <2>2. CASE \E u \in Relays, t \in 1 .. MaxTime : ExtendFundingDeadline(u, d, t)
    BY <1>1, <2>2 DEF ExtendFundingDeadline
  <2>3. CASE (\E u \in Parties : Cancel(d, u)) \/ Expire(d)
    BY <1>2, <1>3, <2>3 DEF Cancel, Expire, Close
  <2>4. CASE Rescue(d)
    BY <1>1, <2>4 DEF Rescue
  <2>5. CASE Release(d)
    BY <1>2, <1>3, <2>5 DEF Release
  <2>6. CASE Refund(d)
    BY <1>2, <1>3, <2>6 DEF Refund
  <2>7. CASE \E u \in Parties : Dispute(d, u)
    BY <1>2, <1>3, <2>7 DEF Dispute
  <2>8. CASE \E u \in Funders, x \in Transfers : TransferToClone(u, d, x)
    BY <1>1, <2>8 DEF TransferToClone
  <2> QED
    BY <1>5, <2>1, <2>2, <2>3, <2>4, <2>5, <2>6, <2>7, <2>8
<1>6. CASE CloneNext
  BY <1>5, <1>6, AssignCounts, ResolveCounts DEF CloneNext
<1>7. CASE TreasuryStep
  BY <1>1, <1>7 DEF TreasuryStep
<1>8. CASE (RegistryNext \/ RegistryAdminNext) /\ UNCHANGED <<now, factoryVars, cloneVars>>
  <2>1. UNCHANGED disputeVars
    BY <1>8 DEF RegistryNext, RegistryAdminNext, Hire, SetStatus, SetLevel, Slash, SetMinStake,
                SetWithdrawCooldown, DepositStake, RequestWithdraw, Withdraw,
                CancelWithdrawRequest
  <2> QED
    BY <1>1, <1>8, <2>1
<1>9. CASE Tick
  BY <1>1, <1>9 DEF Tick
<1>10. CASE UNCHANGED vars
  BY <1>1, <1>10 DEF vars
<1> QED
  BY <1>4, <1>6, <1>7, <1>8, <1>9, <1>10 DEF Next

\* The registry's activeDisputes and totalResolved are exactly the disputes an
\* arbitrator has in hand and those he decided, for any number of deals.
THEOREM DisputesAreCounted == Spec => []DisputesCounted
<1>1. CountInv => DisputesCounted
  BY DEF CountInv
<1> QED
  BY <1>1, CountInit, CountNext, Invariance, PTL DEF Spec

-----------------------------------------------------------------------------
(* The registry's tokens are the stakes                                    *)

LEMMA StakesInit == Init => StakesBacked
<1> SUFFICES ASSUME Init PROVE StakesBacked
  OBVIOUS
<1>1. IsFiniteSet(Arbitrators)
  BY EscrowAssumption
<1>2. \A a \in Arbitrators : stake[a] = 0
  BY DEF Init, RegistryInit
<1>3. Sum(stake, Arbitrators) = 0
  BY <1>1, <1>2, SumZero
<1> QED
  BY <1>3 DEF Init, RegistryInit, StakesBacked, Sum

LEMMA StakesNext == Inv /\ StakesBacked /\ [Next]_vars => StakesBacked'
<1> SUFFICES ASSUME Inv, StakesBacked, [Next]_vars PROVE StakesBacked'
  OBVIOUS
<1>1. /\ IsFiniteSet(Arbitrators) /\ stake \in [Arbitrators -> Nat]
      /\ registryTokens = Sum(stake, Arbitrators)
  BY EscrowAssumption DEF StakesBacked, Sum, Inv, RegistryInv, RegistryOK
<1>2. registryTokens' = Sum(stake', Arbitrators) => StakesBacked'
  BY DEF StakesBacked, Sum, MapThenSumSet, MapThenFoldSet
<1>3. CASE UNCHANGED stakeVars
  BY <1>1, <1>2, <1>3 DEF stakeVars
<1>4. ASSUME NEW a \in Arbitrators, NEW x \in Nat, x <= stake[a], TakesStake(a, x)
      PROVE  StakesBacked'
  <2>1. stake[a] - x \in Nat /\ stake' = [stake EXCEPT ![a] = stake[a] - x]
    BY <1>1, <1>4 DEF TakesStake
  <2>2. Sum(stake', Arbitrators) + stake[a] = registryTokens + (stake[a] - x)
    BY <1>1, <2>1, SumChange
  <2>3. Sum(stake', Arbitrators) \in Nat /\ registryTokens \in Nat /\ stake[a] \in Nat
    <3>1. \A b \in Arbitrators : stake'[b] \in Nat
      BY <1>1, <2>1
    <3> QED
      BY <1>1, <3>1, SumNat
  <2> QED
    BY <1>2, <1>4, <2>2, <2>3 DEF TakesStake
<1>5. ASSUME NEW a \in Arbitrators, NEW x \in Nat, DepositStake(a, x)
      PROVE  StakesBacked'
  <2>1. /\ stake[a] + x \in Nat /\ stake' = [stake EXCEPT ![a] = stake[a] + x]
        /\ registryTokens' = registryTokens + x
    BY <1>1, <1>5 DEF DepositStake
  <2>2. Sum(stake', Arbitrators) + stake[a] = registryTokens + (stake[a] + x)
    BY <1>1, <2>1, SumChange
  <2>3. Sum(stake', Arbitrators) \in Nat /\ registryTokens \in Nat /\ stake[a] \in Nat
    <3>1. \A b \in Arbitrators : stake'[b] \in Nat
      BY <1>1, <2>1
    <3> QED
      BY <1>1, <3>1, SumNat
  <2> QED
    BY <1>2, <2>1, <2>2, <2>3
<1>6. CASE FactoryNext \/ TreasuryStep \/ Tick \/ UNCHANGED vars
  BY <1>3, <1>6 DEF FactoryNext, CreateEscrow, SetRelay, SetMinDealAmount, SetTariff, SetFine,
    TreasuryStep, Tick, vars, registryVars
<1>7. CASE CloneNext
  <2>1. UNCHANGED stakeVars
    BY <1>7 DEF CloneNext, NotifyFunded, ExtendFundingDeadline, Cancel, Expire, Close, Rescue, Release,
      Refund, Dispute, AssignArbitrator, BeginDispute, Resolve, EndDispute, TransferToClone,
      registryVars
  <2> QED
    BY <1>3, <2>1
<1>8. CASE RegistryAdminNext
  BY <1>3, <1>8 DEF RegistryAdminNext, SetMinStake, SetWithdrawCooldown
<1>9. CASE RegistryNext
  <2> PICK a \in Arbitrators :
        \/ \E l \in Levels : Hire(a, l)
        \/ \E s \in AdminStatuses : SetStatus(a, s)
        \/ \E l \in Levels : SetLevel(a, l)
        \/ \E x \in StakeAmounts, b \in Parties \cup {NoOne} : Slash(a, x, b)
        \/ \E x \in StakeAmounts : DepositStake(a, x)
        \/ \E x \in StakeAmounts : RequestWithdraw(a, x)
        \/ Withdraw(a)
        \/ CancelWithdrawRequest(a)
    BY <1>9 DEF RegistryNext
  <2>1. CASE \/ \E l \in Levels : Hire(a, l)
             \/ \E s \in AdminStatuses : SetStatus(a, s)
             \/ \E l \in Levels : SetLevel(a, l)
             \/ \E x \in StakeAmounts : RequestWithdraw(a, x)
             \/ CancelWithdrawRequest(a)
    BY <1>3, <2>1 DEF Hire, SetStatus, SetLevel, RequestWithdraw, CancelWithdrawRequest
  <2>2. ASSUME NEW x \in StakeAmounts, NEW b \in Parties \cup {NoOne}, Slash(a, x, b)
        PROVE  StakesBacked'
    <3>1. x \in Nat /\ stake[a] \in Nat
      BY <1>1, RegistryAssumption
    <3>2. AtMost(x, stake[a]) \in 0 .. x /\ AtMost(x, stake[a]) <= stake[a]
      BY <3>1, AtMostBounds
    <3>3. AtMost(x, stake[a]) \in Nat /\ TakesStake(a, AtMost(x, stake[a]))
      BY <2>2, <3>1, <3>2 DEF Slash
    <3> QED
      BY <1>4, <3>2, <3>3
  <2>3. CASE \E x \in StakeAmounts : DepositStake(a, x)
    BY <1>5, <2>3, RegistryAssumption
  <2>4. CASE Withdraw(a)
    <3>1. withdrawRequestAmount[a] \in Nat
      BY DEF Inv, RegistryInv, RegistryOK
    <3> QED
      BY <1>4, <2>4, <3>1 DEF Withdraw
  <2> QED
    BY <2>1, <2>2, <2>3, <2>4
<1> QED
  BY <1>6, <1>7, <1>8, <1>9 DEF Next

\* The registry never holds a token more or less than the stakes on its books, for any
\* number of arbitrators and through any deposits, slashes and withdrawals.
THEOREM StakesAreBacked == Spec => []StakesBacked
  BY StakesInit, StakesNext, Invariance, PTL DEF Spec

-----------------------------------------------------------------------------
(* Every fine is paid or owed                                              *)

LEMMA FinesAreNumbers == ASSUME Inv PROVE \A d \in Deals : FineOf[d] \in Nat
<1> TAKE d \in Deals
<1>1. terms[d].fine \in FineConfig /\ terms[d].amount \in Nat
  BY DEF Inv, CloneInv, CloneOK, Terms
<1> QED
  BY <1>1, FineIsNatural DEF FineOf

\* The fines of the disputes a has decided.
Earned(a) == Sum(FineOf, DealsOf(a, "RESOLVED"))

LEMMA RewardsAre ==
  /\ RewardsAccounted <=> \A a \in Arbitrators : rewards[a] + deferred[a] = Earned(a)
  /\ RewardsAccounted' <=> \A a \in Arbitrators : rewards'[a] + deferred'[a] = Earned(a)'
  BY DEF RewardsAccounted, Earned, Sum, MapThenSumSet, MapThenFoldSet

LEMMA RewardsInit == Init => RewardsAccounted
<1> SUFFICES ASSUME Init, NEW a \in Arbitrators PROVE rewards[a] + deferred[a] = Earned(a)
  BY RewardsAre
<1>1. DealsOf(a, "RESOLVED") = {}
  BY ArbitratorsAreSomeone DEF Init, DealsOf
<1> QED
  BY <1>1, SumEmpty DEF Init, TreasuryInit, Earned

\* Deals and terms that count for an arbitrator stay as they are.
LEMMA EarnedKept ==
  ASSUME Inv, NEW a \in Arbitrators,
         DealsOf(a, "RESOLVED")' = DealsOf(a, "RESOLVED"),
         \A d \in Deals : status[d] = "RESOLVED" => terms'[d] = terms[d]
  PROVE  Earned(a)' = Earned(a)
<1>1. IsFiniteSet(DealsOf(a, "RESOLVED"))
  BY DealsOfFinite
<1>2. \A d \in DealsOf(a, "RESOLVED") : FineOf'[d] = FineOf[d]
  BY DEF DealsOf, FineOf
<1>3. Sum(FineOf', DealsOf(a, "RESOLVED")) = Sum(FineOf, DealsOf(a, "RESOLVED"))
  BY <1>1, <1>2, SumSame
<1>4. Earned(a)' = Sum(FineOf', DealsOf(a, "RESOLVED")')
  BY DEF Earned, Sum, MapThenSumSet, MapThenFoldSet
<1> QED
  BY <1>3, <1>4 DEF Earned

\* Nobody is paid, and no dispute is decided.
LEMMA RewardsFramed ==
  ASSUME Inv, RewardsAccounted, UNCHANGED <<rewards, deferred, assignedArbitrator>>,
         \A d \in Deals : /\ status'[d] = "RESOLVED" <=> status[d] = "RESOLVED"
                          /\ status[d] = "RESOLVED" => terms'[d] = terms[d]
  PROVE  RewardsAccounted'
<1> SUFFICES ASSUME NEW a \in Arbitrators PROVE rewards'[a] + deferred'[a] = Earned(a)'
  BY RewardsAre
<1>1. DealsOf(a, "RESOLVED")' = DealsOf(a, "RESOLVED")
  BY DEF DealsOf
<1>2. Earned(a)' = Earned(a)
  BY <1>1, EarnedKept
<1> QED
  BY <1>2, RewardsAre

\* One clone moves, to or from another status than RESOLVED.
LEMMA RewardsAside ==
  ASSUME Inv, RewardsAccounted, UNCHANGED <<rewards, deferred, assignedArbitrator, terms>>,
         NEW d \in Deals, NEW s, s # "RESOLVED", status[d] # "RESOLVED", Becomes(d, s)
  PROVE  RewardsAccounted'
<1>1. \A e \in Deals : status'[e] = "RESOLVED" <=> status[e] = "RESOLVED"
  BY DEF Becomes, Inv, CloneInv, CloneOK
<1> QED
  BY <1>1, RewardsFramed

\* A decision: what the arbitrator is paid and what he is still owed make his fine.
LEMMA ResolveRewards ==
  ASSUME Inv, RewardsAccounted, NEW d \in Deals, NEW a \in Arbitrators, NEW p \in Shares,
         Resolve(d, a, p)
  PROVE  RewardsAccounted'
<1> DEFINE t      == terms[d]
           s      == computeResolveSplit(t, held[d], p, SHARE_DENOMINATOR - p)
           paid   == PaidFromReserve(s.fineFromReserve)
<1>1. /\ t.amount \in Nat /\ t.buyerFee \in Nat /\ t.sellerFee \in Nat /\ t.fine \in FineConfig
      /\ held[d] \in Nat /\ held[d] >= t.amount /\ status[d] = "DISPUTED"
      /\ assignedArbitrator[d] = a /\ p \in 0 .. SHARE_DENOMINATOR
  BY EscrowAssumption DEF Inv, CloneInv, CloneOK, Terms, Resolve
<1>2. /\ s.fineFromEscrow \in Nat /\ s.fineFromReserve \in Nat
      /\ s.fineFromEscrow + s.fineFromReserve = computeFine(t.fine, t.amount)
  <2> HIDE DEF t
  <2> QED
    BY <1>1, ResolveSplitCorrect
<1>3. /\ status' = [status EXCEPT ![d] = "RESOLVED"]
      /\ PayArbitratorAndDepositFee(a, s.fineFromReserve, s.feeToTreasury)
      /\ rewards' = [rewards EXCEPT ![a] = @ + (s.fineFromEscrow + paid)]
      /\ UNCHANGED <<terms, fundingDeadline, assignedArbitrator>>
  BY DEF Resolve, Becomes, termVars
<1> HIDE DEF s
<1>4. paid \in Nat
  BY <1>2, PaidFromReserveBounds DEF Inv, TreasuryInv
<1>5. deferred' = [deferred EXCEPT ![a] = @ + (s.fineFromReserve - paid)]
  BY <1>3 DEF PayArbitratorAndDepositFee
<1> HIDE DEF paid
<1>6. rewards \in [Arbitrators -> Nat] /\ deferred \in [Arbitrators -> Nat]
  BY DEF Inv, TreasuryInv, TreasuryOK
<1>7. FineOf[d] = s.fineFromEscrow + s.fineFromReserve /\ FineOf[d] \in Nat
  BY <1>2, FinesAreNumbers DEF FineOf
<1> HIDE DEF t
<1>8. status \in [Deals -> EscrowStatus]
  BY DEF Inv, CloneInv, CloneOK
<1> SUFFICES ASSUME NEW b \in Arbitrators PROVE rewards'[b] + deferred'[b] = Earned(b)'
  BY RewardsAre
<1>9. rewards[b] + deferred[b] = Earned(b)
  BY RewardsAre
<1>10. CASE b # a
  <2>1. DealsOf(b, "RESOLVED")' = DealsOf(b, "RESOLVED")
    BY <1>1, <1>3, <1>8, <1>10 DEF DealsOf
  <2>2. Earned(b)' = Earned(b)
    BY <1>3, <2>1, EarnedKept
  <2> QED
    BY <1>3, <1>5, <1>6, <1>9, <1>10, <2>2
<1>11. CASE b = a
  <2>1. /\ DealsOf(a, "RESOLVED")' = DealsOf(a, "RESOLVED") \cup {d}
        /\ d \notin DealsOf(a, "RESOLVED") /\ DealsOf(a, "RESOLVED") \subseteq Deals
    BY <1>1, <1>3, <1>8 DEF DealsOf
  <2>2. FineOf' = FineOf
    BY <1>3 DEF FineOf
  <2>3. Earned(a)' = Sum(FineOf, DealsOf(a, "RESOLVED") \cup {d})
    <3>1. Earned(a)' = Sum(FineOf', DealsOf(a, "RESOLVED")')
      BY DEF Earned, Sum, MapThenSumSet, MapThenFoldSet
    <3> QED
      BY <2>1, <2>2, <3>1
  <2>4. Earned(a)' = FineOf[d] + Earned(a)
    BY <1>7, <2>1, <2>3, DealsOfFinite, FinesAreNumbers, SumAdd DEF Earned
  <2>5. /\ rewards'[a] = rewards[a] + (s.fineFromEscrow + paid)
        /\ deferred'[a] = deferred[a] + (s.fineFromReserve - paid)
    BY <1>3, <1>5, <1>6
  <2>6. rewards[a] \in Nat /\ deferred[a] \in Nat
    BY <1>6
  <2> QED
    BY <1>2, <1>4, <1>7, <1>9, <1>11, <2>4, <2>5, <2>6
<1> QED
  BY <1>10, <1>11

\* The treasury settles what it owes.
LEMMA ClaimRewards ==
  ASSUME Inv, RewardsAccounted, NEW a \in Arbitrators, ClaimDeferredArbitratorReward(a),
         rewards' = [rewards EXCEPT ![a] = @ + Claimable(a)],
         UNCHANGED <<status, terms, assignedArbitrator>>
  PROVE  RewardsAccounted'
<1>1. /\ rewards \in [Arbitrators -> Nat] /\ deferred \in [Arbitrators -> Nat]
      /\ reserveBalance \in Nat
  BY DEF Inv, TreasuryInv, TreasuryOK
<1>2. Claimable(a) \in 0 .. deferred[a]
  BY <1>1, AtMostBounds DEF Claimable
<1>3. deferred' = [deferred EXCEPT ![a] = @ - Claimable(a)]
  BY DEF ClaimDeferredArbitratorReward
<1> SUFFICES ASSUME NEW b \in Arbitrators PROVE rewards'[b] + deferred'[b] = Earned(b)'
  BY RewardsAre
<1>4. DealsOf(b, "RESOLVED")' = DealsOf(b, "RESOLVED")
  BY DEF DealsOf
<1>5. Earned(b)' = Earned(b) /\ rewards[b] + deferred[b] = Earned(b)
  BY <1>4, EarnedKept, RewardsAre
<1>6. rewards'[b] + deferred'[b] = rewards[b] + deferred[b]
  BY <1>1, <1>2, <1>3
<1> QED
  BY <1>5, <1>6

LEMMA RewardsNext == Inv /\ RewardsAccounted /\ [Next]_vars => RewardsAccounted'
<1> SUFFICES ASSUME Inv, RewardsAccounted, [Next]_vars PROVE RewardsAccounted'
  OBVIOUS
<1> USE DEF registryVars, cloneVars, termVars, eventLog, treasuryVars
<1>1. CASE UNCHANGED <<rewards, deferred, assignedArbitrator, status, terms>>
  BY <1>1, RewardsFramed
<1>2. CASE FactoryNext
  <2>1. ASSUME NEW u \in Relays, NEW d \in Deals, NEW b \in Parties, NEW s \in Parties,
               NEW x \in DealAmounts, NEW m \in FeeModel, NEW n \in FundingSpans,
               CreateEscrow(u, d, b, s, x, m, n)
        PROVE  RewardsAccounted'
    <3>1. /\ status[d] = "UNINITIALIZED" /\ Becomes(d, "AWAITING_FUNDING")
          /\ UNCHANGED <<rewards, deferred, assignedArbitrator>>
          /\ \A e \in Deals : e # d => terms'[e] = terms[e]
      BY <2>1 DEF CreateEscrow, Inv, CloneInv, CloneOK
    <3>2. \A e \in Deals : /\ status'[e] = "RESOLVED" <=> status[e] = "RESOLVED"
                           /\ status[e] = "RESOLVED" => terms'[e] = terms[e]
      BY <3>1 DEF Becomes, Inv, CloneInv, CloneOK
    <3> QED
      BY <3>1, <3>2, RewardsFramed
  <2>2. CASE \/ \E r \in Relays : SetRelay(r)
             \/ \E m \in Minimums : SetMinDealAmount(m)
             \/ \E t \in Tariffs : SetTariff(t)
             \/ \E f \in Fines : SetFine(f)
    BY <1>1, <2>2 DEF SetRelay, SetMinDealAmount, SetTariff, SetFine
  <2> QED
    BY <1>2, <2>1, <2>2 DEF FactoryNext
<1>3. ASSUME NEW d \in Deals,
             \/ \E u \in Relays : NotifyFunded(u, d)
             \/ \E u \in Relays, t \in 1 .. MaxTime : ExtendFundingDeadline(u, d, t)
             \/ \E u \in Parties : Cancel(d, u)
             \/ Expire(d)
             \/ Rescue(d)
             \/ Release(d)
             \/ Refund(d)
             \/ \E u \in Parties : Dispute(d, u)
             \/ \E u \in Funders, x \in Transfers : TransferToClone(u, d, x)
      PROVE  RewardsAccounted'
  <2>1. CASE \E u \in Relays : NotifyFunded(u, d)
    BY <2>1, RewardsAside DEF NotifyFunded
  <2>2. CASE \E u \in Relays, t \in 1 .. MaxTime : ExtendFundingDeadline(u, d, t)
    BY <1>1, <2>2 DEF ExtendFundingDeadline
  <2>3. CASE (\E u \in Parties : Cancel(d, u)) \/ Expire(d)
    BY <2>3, RewardsAside DEF Cancel, Expire, Close
  <2>4. CASE Rescue(d)
    BY <1>1, <2>4 DEF Rescue, Receive
  <2>5. CASE Release(d)
    BY <2>5, RewardsAside DEF Release, DepositFee
  <2>6. CASE Refund(d)
    BY <2>6, RewardsAside DEF Refund
  <2>7. CASE \E u \in Parties : Dispute(d, u)
    BY <2>7, RewardsAside DEF Dispute
  <2>8. CASE \E u \in Funders, x \in Transfers : TransferToClone(u, d, x)
    BY <1>1, <2>8 DEF TransferToClone
  <2> QED
    BY <1>3, <2>1, <2>2, <2>3, <2>4, <2>5, <2>6, <2>7, <2>8
<1>4. ASSUME NEW u \in Relays, NEW d \in Deals, NEW a \in Arbitrators, AssignArbitrator(u, d, a)
      PROVE  RewardsAccounted'
  <2>1. /\ UNCHANGED <<rewards, deferred, status, terms>> /\ status[d] = "DISPUTED"
        /\ assignedArbitrator' = [assignedArbitrator EXCEPT ![d] = a]
    BY <1>4 DEF AssignArbitrator
  <2> SUFFICES ASSUME NEW b \in Arbitrators PROVE rewards'[b] + deferred'[b] = Earned(b)'
    BY RewardsAre
  <2>2. DealsOf(b, "RESOLVED")' = DealsOf(b, "RESOLVED")
    BY <2>1 DEF DealsOf, Inv, CloneInv, CloneOK
  <2>3. Earned(b)' = Earned(b)
    BY <2>1, <2>2, EarnedKept
  <2> QED
    BY <2>1, <2>3, RewardsAre
<1>5. CASE CloneNext
  BY <1>3, <1>4, <1>5, ResolveRewards DEF CloneNext
<1>6. CASE TreasuryStep
  <2>1. ASSUME NEW a \in Arbitrators, ClaimDeferredArbitratorReward(a),
               rewards' = [rewards EXCEPT ![a] = @ + Claimable(a)]
        PROVE  RewardsAccounted'
    BY <1>6, <2>1, ClaimRewards DEF TreasuryStep
  <2>2. CASE TreasuryNext /\ UNCHANGED rewards
    <3>1. UNCHANGED deferred
      BY <2>2 DEF TreasuryNext, CompensateUser, WithdrawMain, FundReserve, MoveToReserve, SetReserveBps,
        Reconcile, TransferToTreasury, Receive
    <3> QED
      BY <1>1, <1>6, <2>2, <3>1 DEF TreasuryStep
  <2> QED
    BY <1>6, <2>1, <2>2 DEF TreasuryStep
<1>7. CASE (RegistryNext \/ RegistryAdminNext) /\ UNCHANGED <<now, factoryVars, cloneVars>>
  <2>1. UNCHANGED deferred
    BY <1>7 DEF RegistryNext, RegistryAdminNext, Hire, SetStatus, SetLevel, Slash, SetMinStake,
                SetWithdrawCooldown, DepositStake, RequestWithdraw, Withdraw,
                CancelWithdrawRequest, DepositSlashedStake
  <2> QED
    BY <1>1, <1>7, <2>1
<1>8. CASE Tick
  BY <1>1, <1>8 DEF Tick
<1>9. CASE UNCHANGED vars
  BY <1>1, <1>9 DEF vars
<1> QED
  BY <1>2, <1>5, <1>6, <1>7, <1>8, <1>9 DEF Next

\* Every arbitrator has got, or is owed by the treasury, the fines of the disputes he
\* decided and nothing else, for any number of disputes, whatever the reserve held.
THEOREM RewardsAreAccounted == Spec => []RewardsAccounted
  BY RewardsInit, RewardsNext, Invariance, PTL DEF Spec

-----------------------------------------------------------------------------
(* Every step of the clones is a step of DealCustody or a stutter          *)

\* The refinement mapping of INSTANCE DealCustody, by name.
AbsStage     == [d \in Deals |-> Stage[status[d]]]
AbsDeposit   == [d \in Deals |-> IF WasFunded(d) THEN Deposit(d) ELSE 0]
AbsPrincipal == [d \in Deals |-> IF WasFunded(d) THEN terms[d].amount ELSE 0]

AbsVars == <<AbsStage, AbsDeposit, AbsPrincipal, toBuyer, toSeller>>

\* A step that leaves the clones' terms and statuses alone changes nothing in custody.
LEMMA CustodyFramed ==
  ASSUME UNCHANGED <<status, terms, toBuyer, toSeller>>
  PROVE  UNCHANGED AbsVars
  BY DEF AbsVars, AbsStage, AbsDeposit, AbsPrincipal, WasFunded, Deposit

\* A step of one deal that moves it from status f to status s, keeps its terms once it
\* is funded, and touches no other deal.
LEMMA StageMoves ==
  ASSUME Inv, NEW d \in Deals, NEW s \in EscrowStatus, Becomes(d, s)
  PROVE  /\ AbsStage[d] = Stage[status[d]]
         /\ AbsStage' = [AbsStage EXCEPT ![d] = Stage[s]]
  BY DEF AbsStage, Becomes, Inv, CloneInv, CloneOK

LEMMA AmountsStay ==
  ASSUME Inv, NEW d \in Deals, NEW s \in EscrowStatus, Becomes(d, s), UNCHANGED terms,
         s \in {"FUNDED", "DISPUTED"} \cup Settled <=> WasFunded(d)
  PROVE  AbsDeposit' = AbsDeposit /\ AbsPrincipal' = AbsPrincipal
  BY DEF AbsDeposit, AbsPrincipal, WasFunded, Deposit, Becomes, Inv, CloneInv, CloneOK, Settled

LEMMA FundedAmounts ==
  ASSUME Inv, NEW d \in Deals, WasFunded(d)
  PROVE  /\ AbsDeposit[d] = Deposit(d) /\ AbsPrincipal[d] = terms[d].amount
         /\ terms[d].amount \in Nat /\ terms[d].buyerFee \in Nat /\ terms[d].sellerFee \in Nat
         /\ terms[d].sellerFee <= terms[d].amount
  BY DEF AbsDeposit, AbsPrincipal, Inv, CloneInv, CloneOK, FeeFits, Terms

LEMMA CreateRefines ==
  ASSUME Inv, NEW u \in Relays, NEW d \in Deals, NEW b \in Parties, NEW s \in Parties,
         NEW x \in DealAmounts, NEW m \in FeeModel, NEW n \in FundingSpans,
         CreateEscrow(u, d, b, s, x, m, n)
  PROVE  Custody!Offer(d)
<1>1. Becomes(d, "AWAITING_FUNDING") /\ status[d] = "UNINITIALIZED"
      /\ UNCHANGED <<toBuyer, toSeller>>
      /\ \A e \in Deals : e # d => terms'[e] = terms[e]
  BY DEF CreateEscrow, eventLog, partyLog, Inv, CloneInv, CloneOK
<1>2. AbsStage[d] = "none" /\ AbsStage' = [AbsStage EXCEPT ![d] = "offered"]
  BY <1>1, StageMoves DEF Stage, EscrowStatus
<1>3. AbsDeposit' = AbsDeposit /\ AbsPrincipal' = AbsPrincipal
  BY <1>1 DEF AbsDeposit, AbsPrincipal, WasFunded, Deposit, Becomes, Settled, Inv, CloneInv, CloneOK
<1> QED
  BY <1>1, <1>2, <1>3 DEF Custody!Offer, Custody!Moves, AbsStage, AbsDeposit, AbsPrincipal

LEMMA FundRefines ==
  ASSUME Inv, NEW u \in Relays, NEW d \in Deals, NotifyFunded(u, d)
  PROVE  Custody!Lock(d)
<1>1. Becomes(d, "FUNDED") /\ status[d] = "AWAITING_FUNDING"
      /\ UNCHANGED <<terms, toBuyer, toSeller>>
  BY DEF NotifyFunded, eventLog, partyLog, termVars
<1>2. AbsStage[d] = "offered" /\ AbsStage' = [AbsStage EXCEPT ![d] = "locked"]
  BY <1>1, StageMoves DEF Stage, EscrowStatus
<1>3. /\ AbsDeposit' = [AbsDeposit EXCEPT ![d] = AbsDeposit'[d]]
      /\ AbsPrincipal' = [AbsPrincipal EXCEPT ![d] = AbsPrincipal'[d]]
      /\ AbsDeposit'[d] = Deposit(d) /\ AbsPrincipal'[d] = terms[d].amount
  BY <1>1 DEF AbsDeposit, AbsPrincipal, WasFunded, Deposit, Becomes, Inv, CloneInv, CloneOK
<1>4. AbsPrincipal'[d] <= AbsDeposit'[d]
  BY <1>3 DEF Inv, CloneInv, CloneOK, Terms, Deposit
<1> QED
  BY <1>1, <1>2, <1>3, <1>4 DEF Custody!Lock, Custody!Moves, Custody!Sets, AbsStage, AbsDeposit, AbsPrincipal

LEMMA CloseRefines ==
  ASSUME Inv, NEW d \in Deals, NEW s \in Void, Close(d, s)
  PROVE  Custody!Withdraw(d)
<1>1. Becomes(d, s) /\ status[d] = "AWAITING_FUNDING" /\ s \in EscrowStatus
      /\ UNCHANGED <<terms, toBuyer, toSeller>>
  BY DEF Close, Void, EscrowStatus, eventLog, partyLog, termVars
<1>2. AbsStage[d] = "offered" /\ AbsStage' = [AbsStage EXCEPT ![d] = "void"]
  BY <1>1, StageMoves DEF Stage, Void
<1>3. AbsDeposit' = AbsDeposit /\ AbsPrincipal' = AbsPrincipal
  BY <1>1, AmountsStay DEF WasFunded, Settled, Void
<1> QED
  BY <1>1, <1>2, <1>3 DEF Custody!Withdraw, Custody!Moves, AbsStage, AbsDeposit, AbsPrincipal

LEMMA DisputeRefines ==
  ASSUME Inv, NEW u \in Parties, NEW d \in Deals, Dispute(d, u)
  PROVE  Custody!Contest(d)
<1>1. Becomes(d, "DISPUTED") /\ status[d] = "FUNDED" /\ UNCHANGED <<terms, toBuyer, toSeller>>
  BY DEF Dispute, eventLog, partyLog, termVars
<1>2. AbsStage[d] = "locked" /\ AbsStage' = [AbsStage EXCEPT ![d] = "contested"]
  BY <1>1, StageMoves DEF Stage, EscrowStatus
<1>3. AbsDeposit' = AbsDeposit /\ AbsPrincipal' = AbsPrincipal
  BY <1>1, AmountsStay DEF WasFunded, Settled, EscrowStatus
<1> QED
  BY <1>1, <1>2, <1>3 DEF Custody!Contest, Custody!Moves, AbsStage, AbsDeposit, AbsPrincipal

LEMMA ReleaseRefines ==
  ASSUME Inv, NEW d \in Deals, Release(d)
  PROVE  Custody!PaySeller(d)
<1> DEFINE payout == terms[d].amount - terms[d].sellerFee
<1>1. Becomes(d, "RELEASED") /\ status[d] = "FUNDED" /\ UNCHANGED <<terms, toBuyer>>
      /\ toSeller' = [toSeller EXCEPT ![d] = @ + payout]
  BY DEF Release, SellerPayout, termVars
<1>2. AbsStage[d] = "locked" /\ AbsStage' = [AbsStage EXCEPT ![d] = "paid"]
  BY <1>1, StageMoves DEF Stage, EscrowStatus
<1>3. AbsDeposit' = AbsDeposit /\ AbsPrincipal' = AbsPrincipal
  BY <1>1, AmountsStay DEF WasFunded, Settled, EscrowStatus
<1>4. payout \in Nat /\ payout <= AbsPrincipal[d]
  BY <1>1, FundedAmounts DEF WasFunded
<1>5. toSeller[d] = 0 /\ toSeller \in [Deals -> Nat]
  BY <1>1 DEF Inv, CloneInv, CloneOK, PayoutsMatchOutcome, Settled
<1> HIDE DEF payout
<1>6. toSeller' = [toSeller EXCEPT ![d] = toSeller'[d]] /\ toSeller'[d] <= AbsPrincipal[d]
  BY <1>1, <1>4, <1>5
<1> QED
  BY <1>1, <1>2, <1>3, <1>6 DEF Custody!PaySeller, Custody!Moves, Custody!Sets, AbsStage, AbsDeposit, AbsPrincipal

LEMMA RefundRefines ==
  ASSUME Inv, NEW d \in Deals, Refund(d)
  PROVE  Custody!PayBuyer(d)
<1>1. Becomes(d, "REFUNDED") /\ status[d] = "FUNDED" /\ UNCHANGED <<terms, toSeller>>
      /\ toBuyer' = [toBuyer EXCEPT ![d] = @ + Deposit(d)]
  BY DEF Refund, termVars
<1>2. AbsStage[d] = "locked" /\ AbsStage' = [AbsStage EXCEPT ![d] = "paid"]
  BY <1>1, StageMoves DEF Stage, EscrowStatus
<1>3. AbsDeposit' = AbsDeposit /\ AbsPrincipal' = AbsPrincipal
  BY <1>1, AmountsStay DEF WasFunded, Settled, EscrowStatus
<1>4. Deposit(d) \in Nat /\ AbsDeposit[d] = Deposit(d)
  BY <1>1, FundedAmounts DEF WasFunded, Deposit
<1>5. toBuyer[d] = 0 /\ toBuyer \in [Deals -> Nat]
  BY <1>1 DEF Inv, CloneInv, CloneOK, PayoutsMatchOutcome, Settled
<1>6. toBuyer[d] + Deposit(d) = AbsDeposit[d]
  BY <1>4, <1>5
<1>7. toBuyer' = [toBuyer EXCEPT ![d] = AbsDeposit[d]]
  <2> HIDE DEF AbsDeposit
  <2> QED
    BY <1>1, <1>6
<1> QED
  BY <1>1, <1>2, <1>3, <1>7 DEF Custody!PayBuyer, Custody!Moves, AbsStage, AbsDeposit, AbsPrincipal

LEMMA ResolveRefines ==
  ASSUME Inv, NEW d \in Deals, NEW a \in Arbitrators, NEW p \in Shares, Resolve(d, a, p)
  PROVE  Custody!Award(d)
<1> DEFINE t     == terms[d]
           s     == computeResolveSplit(t, held[d], p, SHARE_DENOMINATOR - p)
           share == Portion(t.amount, p, SHARE_DENOMINATOR)
<1>1. /\ Becomes(d, "RESOLVED") /\ status[d] = "DISPUTED" /\ UNCHANGED terms
      /\ toBuyer' = [toBuyer EXCEPT ![d] = @ + s.buyerPayout]
      /\ toSeller' = [toSeller EXCEPT ![d] = @ + s.sellerPayout]
      /\ held[d] >= t.amount
  BY DEF Resolve, termVars
<1>2. AbsStage[d] = "contested" /\ AbsStage' = [AbsStage EXCEPT ![d] = "paid"]
  BY <1>1, StageMoves DEF Stage, EscrowStatus
<1>3. AbsDeposit' = AbsDeposit /\ AbsPrincipal' = AbsPrincipal
  BY <1>1, AmountsStay DEF WasFunded, Settled, EscrowStatus
<1>4. /\ t.amount \in Nat /\ t.buyerFee \in Nat /\ t.sellerFee \in Nat /\ t.fine \in FineConfig
      /\ held[d] \in Nat /\ p \in 0 .. SHARE_DENOMINATOR
  BY EscrowAssumption DEF Inv, CloneInv, CloneOK, Terms
<1>5. /\ s.buyerPayout \in Nat /\ s.sellerPayout \in Nat
      /\ s.buyerPayout >= share /\ s.sellerPayout = t.amount - share /\ share \in 0 .. t.amount
  <2> HIDE DEF t
  <2> QED
    BY <1>1, <1>4, ResolveSplitCorrect
<1>6. toBuyer[d] = 0 /\ toSeller[d] = 0 /\ toBuyer \in [Deals -> Nat] /\ toSeller \in [Deals -> Nat]
  BY <1>1 DEF Inv, CloneInv, CloneOK, PayoutsMatchOutcome, Settled
<1> HIDE DEF s, share
<1>7. /\ toBuyer' = [toBuyer EXCEPT ![d] = toBuyer'[d]]
      /\ toSeller' = [toSeller EXCEPT ![d] = toSeller'[d]]
      /\ toBuyer'[d] = s.buyerPayout /\ toSeller'[d] = s.sellerPayout
  BY <1>1, <1>5, <1>6
<1>8. AbsPrincipal[d] = t.amount
  BY <1>1, FundedAmounts DEF WasFunded
<1>9. toBuyer'[d] + toSeller'[d] >= AbsPrincipal[d] /\ toSeller'[d] <= AbsPrincipal[d]
  BY <1>4, <1>5, <1>7, <1>8
<1> QED
  BY <1>1, <1>2, <1>3, <1>7, <1>9 DEF Custody!Award, Custody!Moves, Custody!Sets, AbsStage, AbsDeposit, AbsPrincipal

LEMMA CustodyInitial == Init => Custody!CustodyInit
  BY DEF Init, Custody!CustodyInit, Stage, WasFunded, Settled

LEMMA CustodyStepwise == Inv /\ [Next]_vars => [Custody!CustodyNext]_(Custody!custodyVars)
<1> SUFFICES ASSUME Inv, [Next]_vars PROVE Custody!CustodyNext \/ UNCHANGED AbsVars
  BY DEF AbsVars, AbsStage, AbsDeposit, AbsPrincipal, Custody!custodyVars
<1> USE DEF Custody!CustodyNext, Custody!CustodyStep
<1>1. CASE UNCHANGED <<status, terms, toBuyer, toSeller>>
  BY <1>1, CustodyFramed
<1>2. CASE FactoryNext
  BY <1>1, <1>2, CreateRefines DEF FactoryNext, SetRelay, SetMinDealAmount, SetTariff, SetFine,
                                   cloneVars, termVars, eventLog, partyLog
<1>3. ASSUME NEW d \in Deals,
             \/ \E u \in Relays, t \in 1 .. MaxTime : ExtendFundingDeadline(u, d, t)
             \/ Rescue(d)
             \/ \E u \in Relays, a \in Arbitrators : AssignArbitrator(u, d, a)
             \/ \E u \in Funders, x \in Transfers : TransferToClone(u, d, x)
      PROVE  UNCHANGED <<status, terms, toBuyer, toSeller>>
  BY <1>3 DEF ExtendFundingDeadline, Rescue, AssignArbitrator, TransferToClone, termVars,
              eventLog, partyLog
<1>4. ASSUME NEW d \in Deals, (\E u \in Parties : Cancel(d, u)) \/ Expire(d)
      PROVE  Custody!CustodyNext
  BY <1>4, CloseRefines DEF Cancel, Expire, Void
<1>5. CASE CloneNext
  BY <1>1, <1>3, <1>4, <1>5, FundRefines, DisputeRefines, ReleaseRefines, RefundRefines,
     ResolveRefines DEF CloneNext
<1>6. CASE TreasuryStep
  BY <1>1, <1>6 DEF TreasuryStep, termVars, partyLog
<1>7. CASE UNCHANGED cloneVars
  BY <1>1, <1>7 DEF cloneVars, termVars, eventLog, partyLog
<1> QED
  BY <1>2, <1>5, <1>6, <1>7 DEF Next, Tick, vars

\* The clones implement the custody promise: one deposit is locked per deal and paid
\* out in one step, once, with the whole principal going to the parties of a dispute.
THEOREM ClonesImplementCustody == Spec => CustodySpec
  BY CustodyInitial, CustodyStepwise, Invariance, PTL DEF Spec, CustodySpec, Custody!CustodySpec

====
