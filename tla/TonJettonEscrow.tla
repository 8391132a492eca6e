---- MODULE TonJettonEscrow ----
(***************************************************************************)
(* contracts-ton/contracts/TonJettonEscrow.tolk: the escrow of one deal in *)
(* a jetton.  The jettons are in the escrow's jetton wallet, another       *)
(* contract: a deposit is notified after it has happened, a payout is a    *)
(* message to the wallet that may be refused (and bounces), or be accepted *)
(* and then be credited or come back without a word.  So a settlement is a *)
(* plan of legs, sent in attempts; an authority that watches the chain     *)
(* reports which legs of an attempt arrived, and the others are sent again.*)
(*                                                                         *)
(* A step is one transaction of the escrow or of the wallet.  An assertion *)
(* that fails undoes its transaction and is a step that is not enabled;    *)
(* the roles (who may send a message) are in the comments.                 *)
(***************************************************************************)
EXTENDS Integers, FiniteSets

CONSTANTS
  BuyerTotal, SellerPayout, PlatformFee, RefundToBuyer, RefundFee, \* economics
  FundingDeadline, DeliveryDeadline, ConfirmationDeadline,
  FundingQuery,  \* expectedQueryId of the committed funding
  MaxQuery,      \* the greatest uint64
  MaxAttempt,    \* the greatest uint32
  Awards,        \* what a decision may award the buyer
  Deposits,      \* amounts that are sent to the wallet
  Leaps,         \* query ids that senders choose instead of the next one
  MaxDeposits, MaxRefusals, MaxTime \* bounds

ASSUME JettonAssumption ==
  /\ BuyerTotal \in Nat \ {0}
  /\ {SellerPayout, PlatformFee, RefundToBuyer, RefundFee} \subseteq Nat
  /\ SellerPayout + PlatformFee = BuyerTotal
  /\ RefundToBuyer + RefundFee = BuyerTotal
  /\ {FundingDeadline, DeliveryDeadline, ConfirmationDeadline} \subseteq Nat
  /\ 0 < FundingDeadline /\ FundingDeadline < DeliveryDeadline
  /\ DeliveryDeadline < ConfirmationDeadline
  /\ FundingQuery \in Nat /\ FundingQuery > 1
  /\ {MaxQuery, MaxAttempt, MaxDeposits, MaxRefusals, MaxTime} \subseteq Nat
  /\ Awards \subseteq Nat /\ Deposits \subseteq Nat /\ Leaps \subseteq Nat

VARIABLES
  status, sealed, fundedAmount, lastQueryId, now,
  outcome, baseMask, plan,                          \* settlement.base
  attempt, activeMask, confirmedMask, failedMask,
  bouncedMask, evidence, queries,                   \* settlement.attempt
  held,      \* jettons in the escrow's wallet
  notices,   \* transfer notifications on their way to the escrow
  transfers, \* every payout ever sent, and where it is
  credited,  \* what the payees have received
  deposits, refusals \* counters for the bounds

base == <<outcome, baseMask, plan>>
tries == <<attempt, activeMask, confirmedMask, failedMask, bouncedMask, evidence, queries>>
settlement == <<base, tries>>
wallet == <<held, transfers, credited, refusals>>
inbox == <<notices, deposits>>
escrowVars == <<status, sealed, fundedAmount, lastQueryId, now, settlement, wallet, inbox>>

JettonLegs == {"buyer", "seller", "treasury"}
LegOrder == [buyer |-> 1, seller |-> 2, treasury |-> 3]
NoLegs == [l \in JettonLegs |-> 0]
EscrowStatuses == {"AWAITING_FUNDING", "FUNDED", "DELIVERED", "DISPUTED",
                   "SETTLEMENT_PENDING", "RECOVERY_REQUIRED", "SETTLED_FINALIZED"}
Unsettled == {"AWAITING_FUNDING", "FUNDED", "DELIVERED", "DISPUTED"}
Whole(p) == p.buyer + p.seller + p.treasury

\* A payout goes from "sent" to "refused" and "bounced" (the escrow has seen the bounce),
\* or to "accepted" and "credited" or "returned".
Stages == {"sent", "refused", "bounced", "accepted", "credited", "returned"}

EscrowInit ==
  /\ status = "AWAITING_FUNDING" /\ sealed = FALSE /\ fundedAmount = 0
  /\ lastQueryId = 0 /\ now = 1
  /\ outcome = "none" /\ baseMask = {} /\ plan = NoLegs
  /\ attempt = 0 /\ activeMask = {} /\ confirmedMask = {} /\ failedMask = {}
  /\ bouncedMask = {} /\ evidence = FALSE /\ queries = NoLegs
  /\ held = 0 /\ notices = {} /\ transfers = {} /\ credited = NoLegs
  /\ deposits = 0 /\ refusals = 0

-----------------------------------------------------------------------------

\* assertJettonConfigIsValid: what must hold of the storage before any message is
\* handled, the immutable configuration apart.
SettlementValid ==
  /\ outcome \in {"release", "refund", "resolution"}
  /\ baseMask # {}
  /\ confirmedMask \cap failedMask = {}
  /\ confirmedMask \subseteq baseMask /\ failedMask \subseteq baseMask
  /\ bouncedMask \subseteq activeMask
  /\ Whole(plan) = BuyerTotal
  /\ activeMask = baseMask \ confirmedMask
  /\ status = "RECOVERY_REQUIRED" => failedMask = activeMask /\ evidence
  /\ status = "SETTLED_FINALIZED" => confirmedMask = baseMask /\ evidence

StorageValid ==
  /\ IF status = "AWAITING_FUNDING" THEN fundedAmount = 0
     ELSE sealed /\ fundedAmount = BuyerTotal
  /\ IF status \in Unsettled THEN outcome = "none" ELSE SettlementValid

\* A sender's query id is a uint64 above the last one, however far.
Query(q) == q > lastQueryId /\ q <= MaxQuery

SealCanonicalWallet(q) ==
  /\ StorageValid
  /\ status = "AWAITING_FUNDING" /\ ~sealed
  /\ Query(q) /\ q < FundingQuery
  /\ sealed' = TRUE /\ lastQueryId' = q
  /\ UNCHANGED <<status, fundedAmount, now, settlement, wallet, inbox>>

\* Anybody sends jettons to the escrow's wallet, with the committed query and payload or
\* with others; the wallet takes them and notifies the escrow.
Deposit(amount, committed) ==
  /\ deposits < MaxDeposits /\ deposits' = deposits + 1
  /\ held' = held + amount
  /\ notices' = notices \cup {[amount |-> amount, committed |-> committed, no |-> deposits]}
  /\ UNCHANGED <<status, sealed, fundedAmount, lastQueryId, now, settlement, transfers,
                 credited, refusals>>

\* Slip: any amount.
Authentic_AnyAmount(n) ==
  /\ StorageValid /\ status = "AWAITING_FUNDING" /\ sealed
  /\ now <= FundingDeadline /\ n.committed /\ FundingQuery > lastQueryId

Authentic(n) ==
  /\ StorageValid
  /\ status = "AWAITING_FUNDING" /\ sealed
  /\ now <= FundingDeadline
  /\ n.committed /\ FundingQuery > lastQueryId
  /\ n.amount = BuyerTotal

\* The notification arrives.  When it is refused the jettons stay where they are.
TransferNotification(n) ==
  /\ n \in notices /\ notices' = notices \ {n}
  /\ IF Authentic(n)
     THEN /\ status' = "FUNDED" /\ fundedAmount' = n.amount /\ lastQueryId' = FundingQuery
     ELSE UNCHANGED <<status, fundedAmount, lastQueryId>>
  /\ UNCHANGED <<sealed, now, settlement, wallet, deposits>>

-----------------------------------------------------------------------------

Moves(from, to, q) ==
  /\ StorageValid
  /\ status \in from /\ status' = to
  /\ Query(q) /\ lastQueryId' = q
  /\ UNCHANGED <<sealed, fundedAmount, now, settlement, wallet, inbox>>

\* the seller
MarkDelivered(q) == now <= DeliveryDeadline /\ Moves({"FUNDED"}, "DELIVERED", q)

\* either party
OpenDispute(q) ==
  /\ IF status = "FUNDED" THEN now <= DeliveryDeadline ELSE now <= ConfirmationDeadline
  /\ Moves({"FUNDED", "DELIVERED"}, "DISPUTED", q)

ActiveLegs(amounts) == {l \in JettonLegs : amounts[l] > 0}

\* The queries of the legs follow the one of the action, in the order of the legs.
LegQueries(q, mask) ==
  [l \in JettonLegs |-> IF l \in mask THEN q + Cardinality({m \in mask : LegOrder[m] <= LegOrder[l]})
                  ELSE 0]

Greatest(q, mask) == q + Cardinality(mask)

Payouts(n, mask, amounts, ids) ==
  {[attempt |-> n, leg |-> l, query |-> ids[l], amount |-> amounts[l], stage |-> "sent"] : l \in mask}

\* Slip: the bounces of the attempt before are kept.
ForgetBounces_Not == bouncedMask' = bouncedMask

ForgetBounces == bouncedMask' = {}

\* assertFreshSettlementQueries, and the messages of dispatchSettlementAttempt.
Dispatch(n, mask, amounts, q) ==
  /\ Query(q) /\ Greatest(q, mask) < MaxQuery
  /\ attempt' = n /\ activeMask' = mask /\ failedMask' = {} /\ ForgetBounces
  /\ evidence' = FALSE /\ queries' = LegQueries(q, mask)
  /\ status' = "SETTLEMENT_PENDING" /\ lastQueryId' = Greatest(q, mask)
  /\ transfers' = transfers \cup Payouts(n, mask, amounts, LegQueries(q, mask))
  /\ UNCHANGED <<sealed, fundedAmount, now, held, credited, refusals, inbox>>

BeginSettlement(result, amounts, q) ==
  /\ StorageValid
  /\ outcome' = result /\ baseMask' = ActiveLegs(amounts) /\ plan' = amounts
  /\ confirmedMask' = {}
  /\ Dispatch(0, ActiveLegs(amounts), amounts, q)

ReleasePlan == [buyer |-> 0, seller |-> SellerPayout, treasury |-> PlatformFee]
RefundPlan == [buyer |-> RefundToBuyer, seller |-> 0, treasury |-> RefundFee]

\* the buyer
Release(q) ==
  /\ status = "DELIVERED" /\ now <= ConfirmationDeadline
  /\ BeginSettlement("release", ReleasePlan, q)

\* the seller
RefundBuyer(q) ==
  /\ status \in {"FUNDED", "DELIVERED"}
  /\ BeginSettlement("refund", RefundPlan, q)

\* anybody
RefundAfterSellerTimeout(q) ==
  /\ status = "FUNDED" /\ now > DeliveryDeadline
  /\ BeginSettlement("refund", RefundPlan, q)

\* anybody
ReleaseAfterBuyerTimeout(q) ==
  /\ status = "DELIVERED" /\ now > ConfirmationDeadline
  /\ BeginSettlement("release", ReleasePlan, q)

FitsTotal(award) == award + PlatformFee <= BuyerTotal

\* the arbitrator
Resolve(award, q) ==
  /\ status = "DISPUTED" /\ FitsTotal(award)
  /\ BeginSettlement("resolution",
       [buyer |-> award, seller |-> BuyerTotal - PlatformFee - award, treasury |-> PlatformFee], q)

-----------------------------------------------------------------------------

\* What the reconciliation authority has proof of: a leg of the current attempt has
\* arrived, or can no longer arrive.
Current(l) == {t \in transfers : t.attempt = attempt /\ t.leg = l}
Arrived(l) == \E t \in Current(l) : t.stage = "credited"
CannotArrive(l) == \E t \in Current(l) : t.stage \in {"refused", "bounced", "returned"}

\* the reconciliation authority
ReconcileAttempt(confirmed, failed, q) ==
  /\ StorageValid
  /\ status = "SETTLEMENT_PENDING"
  /\ \A l \in confirmed : Arrived(l)
  /\ \A l \in failed : CannotArrive(l)
  /\ confirmed \cap failed = {} /\ confirmed \cup failed = activeMask
  /\ bouncedMask \subseteq failed
  /\ Query(q) /\ lastQueryId' = q
  /\ confirmedMask' = confirmedMask \cup confirmed
  /\ failedMask' = failed /\ activeMask' = failed
  /\ evidence' = TRUE
  /\ status' = IF failed # {} THEN "RECOVERY_REQUIRED" ELSE status
  /\ UNCHANGED <<sealed, fundedAmount, now, base, attempt, bouncedMask, queries, wallet, inbox>>

\* Slip: all legs again.
LegsToRetry_All == baseMask

LegsToRetry == failedMask

\* the reconciliation authority
RetryFailedLegs(q) ==
  /\ StorageValid
  /\ status = "RECOVERY_REQUIRED" /\ attempt < MaxAttempt
  /\ UNCHANGED <<base, confirmedMask>>
  /\ Dispatch(attempt + 1, LegsToRetry, plan, q)

AllConfirmed == evidence /\ confirmedMask = baseMask

\* the reconciliation authority
FinalizeSettlement(q) ==
  /\ StorageValid
  /\ status = "SETTLEMENT_PENDING" /\ status' = "SETTLED_FINALIZED"
  /\ AllConfirmed
  /\ Query(q) /\ lastQueryId' = q
  /\ UNCHANGED <<sealed, fundedAmount, now, settlement, wallet, inbox>>

-----------------------------------------------------------------------------

\* The jetton wallet, another contract.
Becomes(t, stage) == transfers' = (transfers \ {t}) \cup {[t EXCEPT !.stage = stage]}
NotTheEscrow ==
  UNCHANGED <<status, sealed, fundedAmount, lastQueryId, now, settlement, inbox>>

WalletAccepts(t) ==
  /\ t \in transfers /\ t.stage = "sent" /\ held >= t.amount
  /\ held' = held - t.amount /\ Becomes(t, "accepted")
  /\ UNCHANGED <<credited, refusals>> /\ NotTheEscrow

\* It has too little, or no gas; the message bounces.
WalletRefuses(t) ==
  /\ t \in transfers /\ t.stage = "sent"
  /\ \/ held < t.amount /\ UNCHANGED refusals
     \/ refusals < MaxRefusals /\ refusals' = refusals + 1
  /\ Becomes(t, "refused")
  /\ UNCHANGED <<held, credited>> /\ NotTheEscrow

PayeeCredited(t) ==
  /\ t \in transfers /\ t.stage = "accepted" /\ Becomes(t, "credited")
  /\ credited' = [credited EXCEPT ![t.leg] = @ + t.amount]
  /\ UNCHANGED <<held, refusals>> /\ NotTheEscrow

\* The payee's wallet does not take the jettons; the escrow's wallet has them again and
\* tells nobody.
PayoutReturns(t) ==
  /\ t \in transfers /\ t.stage = "accepted" /\ Becomes(t, "returned")
  /\ refusals < MaxRefusals /\ refusals' = refusals + 1
  /\ held' = held + t.amount
  /\ UNCHANGED credited /\ NotTheEscrow

\* onBouncedMessage; a bounce that is not of the current attempt changes nothing.
BounceMatches(t) ==
  /\ StorageValid
  /\ status = "SETTLEMENT_PENDING"
  /\ t.query = queries[t.leg] /\ t.attempt = attempt
  /\ t.leg \in activeMask \ bouncedMask
  /\ t.amount = plan[t.leg]

BounceArrives(t) ==
  /\ t \in transfers /\ t.stage = "refused" /\ Becomes(t, "bounced")
  /\ bouncedMask' = IF BounceMatches(t) THEN bouncedMask \cup {t.leg} ELSE bouncedMask
  /\ UNCHANGED <<status, sealed, fundedAmount, lastQueryId, now, base, attempt, activeMask,
                 confirmedMask, failedMask, evidence, queries, held, credited, refusals, inbox>>

Tick ==
  /\ now < MaxTime /\ now' = now + 1
  /\ UNCHANGED <<status, sealed, fundedAmount, lastQueryId, settlement, wallet, inbox>>

-----------------------------------------------------------------------------

Decides(q) ==
  \/ Release(q) \/ RefundBuyer(q)
  \/ \E award \in Awards : Resolve(award, q)
TimesOut(q) == RefundAfterSellerTimeout(q) \/ ReleaseAfterBuyerTimeout(q)
\* The authority does not report an attempt of which nothing is open: the contract would
\* take such a report, which only uses up a query id.
Reconciles(q) ==
  \/ /\ activeMask # {}
     /\ \E confirmed \in SUBSET activeMask, failed \in SUBSET activeMask :
          ReconcileAttempt(confirmed, failed, q)
  \/ RetryFailedLegs(q) \/ FinalizeSettlement(q)
Delivers(t) ==
  \/ WalletAccepts(t) \/ WalletRefuses(t) \/ PayeeCredited(t) \/ PayoutReturns(t)
  \/ BounceArrives(t)
NextQueries == {lastQueryId + 1} \cup {q \in Leaps : q > lastQueryId}

EscrowNext ==
  \/ \E q \in NextQueries :
       \/ SealCanonicalWallet(q) \/ MarkDelivered(q) \/ OpenDispute(q)
       \/ Decides(q) \/ TimesOut(q) \/ Reconciles(q)
  \/ \E amount \in Deposits, committed \in BOOLEAN : Deposit(amount, committed)
  \/ \E n \in notices : TransferNotification(n)
  \/ \E t \in transfers : Delivers(t)
  \/ Tick

EscrowSpec == EscrowInit /\ [][EscrowNext]_escrowVars

\* Messages arrive and time passes; the authority does its work; whoever is owed money
\* after a deadline asks for it; an arbitrator decides.
EscrowFairness ==
  /\ WF_escrowVars(Tick)
  /\ WF_escrowVars(\E t \in transfers : Delivers(t))
  /\ WF_escrowVars(\E q \in NextQueries : Reconciles(q))
  /\ WF_escrowVars(\E q \in NextQueries : TimesOut(q))
  /\ WF_escrowVars(\E q \in NextQueries, award \in Awards : Resolve(award, q))

FairSpec == EscrowSpec /\ EscrowFairness

-----------------------------------------------------------------------------

EscrowTypeOK ==
  /\ status \in EscrowStatuses /\ sealed \in BOOLEAN /\ fundedAmount \in Nat
  /\ lastQueryId \in Nat /\ now \in Nat
  /\ outcome \in {"none", "release", "refund", "resolution"}
  /\ plan \in [JettonLegs -> Nat] /\ credited \in [JettonLegs -> Nat] /\ queries \in [JettonLegs -> Nat]
  /\ {baseMask, activeMask, confirmedMask, failedMask, bouncedMask} \subseteq SUBSET JettonLegs
  /\ attempt \in Nat /\ evidence \in BOOLEAN
  /\ held \in Nat /\ deposits \in Nat /\ refusals \in Nat
  /\ notices \subseteq [amount : Nat, committed : BOOLEAN, no : Nat]
  /\ transfers \subseteq
       [attempt : Nat, leg : JettonLegs, query : Nat, amount : Nat, stage : Stages]

\* No sequence of calls, bounces and reports leads to a storage that the contract's own
\* check refuses: such a contract would take no message ever again.
NeverBricked == StorageValid

\* What the contract still owes is in its wallet, or on its way from it.
Owed(l) == IF status \in Unsettled THEN 0 ELSE plan[l] - credited[l]
UnderWay(l) == \E t \in transfers : t.leg = l /\ t.stage = "accepted"
InWallet(l) == IF UnderWay(l) THEN 0 ELSE Owed(l)
LegsCovered ==
  /\ status \in {"FUNDED", "DELIVERED", "DISPUTED"} => held >= BuyerTotal
  /\ status \notin Unsettled => held >= InWallet("buyer") + InWallet("seller") + InWallet("treasury")

\* The deal keeps the promise of PayoutPlan: one division of the total, each part paid at
\* most once whatever bounces, returns and is sent again, closed only when all is paid.
Phase ==
  CASE status \in Unsettled -> "open"
    [] status \in {"SETTLEMENT_PENDING", "RECOVERY_REQUIRED"} -> "decided"
    [] OTHER -> "closed"

Promise == INSTANCE PayoutPlan WITH Total <- BuyerTotal, phase <- Phase
PlanSpec == Promise!PlanSpec

\* No query ids are left for another attempt with all its legs: somebody has leapt.
Spent == lastQueryId + 1 + Cardinality(JettonLegs) >= MaxQuery

\* A funded deal ends, paid to the last leg, whatever is refused on the way, or the query ids are
\* used up: each message takes one that is larger than all before, and a party who sends
\* MarkDelivered or OpenDispute near the greatest uint64 leaves none for the settlement.
DealsSettle == status = "FUNDED" ~> status = "SETTLED_FINALIZED" \/ Spent

====
