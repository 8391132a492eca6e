---- MODULE EscrowContracts ----
(***************************************************************************)
(* EscrowFactory.sol and the clones of EscrowImplementation.sol it         *)
(* creates, one per deal, together with the treasury and the registry they *)
(* call.  A transaction is atomic: a step is one whole external call, with *)
(* every call it makes to the other contracts and every token transfer.    *)
(***************************************************************************)
EXTENDS ArbitratorRegistry, FiniteSets

CONSTANTS
  Deals,         \* deal ids
  DealAmounts,   \* amounts deals are created with
  Minimums,      \* values of minDealAmount
  Tariffs,       \* values of tariff
  Fines,         \* values of fine
  FundingSpans,  \* how far ahead a funding deadline is set
  Shares,        \* the buyer's share, in percent, an arbitrator may award
  Funders,       \* who sends tokens to a clone's address
  Transfers,     \* amounts of plain token transfers to a clone's address
  Endowment      \* what every user owns before the first call

EscrowStatus ==
  {"UNINITIALIZED", "AWAITING_FUNDING", "FUNDED", "RELEASED", "REFUNDED",
   "DISPUTED", "RESOLVED", "CANCELLED", "EXPIRED"}

\* The deal is over and the clone holds nobody's deposit any more.
Settled == {"RELEASED", "REFUNDED", "RESOLVED"}
Void    == {"CANCELLED", "EXPIRED"}

ASSUME EscrowAssumption ==
  /\ IsFiniteSet(Deals) /\ IsFiniteSet(Arbitrators)
  /\ DealAmounts \subseteq Nat /\ Minimums \subseteq Nat
  /\ Tariffs \subseteq TariffConfig /\ Fines \subseteq FineConfig
  /\ Minimums # {} /\ Tariffs # {} /\ Fines # {} /\ Relays # {}
  /\ FundingSpans \subseteq Nat \ {0}
  /\ Shares \subseteq 0 .. SHARE_DENOMINATOR
  /\ Funders \subseteq Users
  /\ Transfers \subseteq Nat \ {0}
  /\ Endowment \in [Users -> Nat]

VARIABLES
  relay, minDealAmount, tariff, fine, \* the factory's storage
  status,              \* status of every deal's clone
  terms,               \* what initialize stored in the clone
  fundingDeadline,
  assignedArbitrator,
  held,                \* token.balanceOf(clone); the address is known beforehand
  toBuyer, toSeller,   \* history, from the events: what release, refund and resolve
                       \* have sent to the parties,
  award,               \* the buyer's share that was awarded,
  rewards              \* and what every arbitrator has been paid

factoryVars == <<relay, minDealAmount, tariff, fine>>
termVars    == <<terms, fundingDeadline>>
partyLog    == <<toBuyer, toSeller, award>>
eventLog    == <<partyLog, rewards>>
cloneVars   == <<status, termVars, assignedArbitrator, held, eventLog>>
vars        == <<wallet, treasuryVars, registryVars, now, factoryVars, cloneVars>>

Terms ==
  [ buyer : Parties \cup {NoOne}, seller : Parties \cup {NoOne}, amount : Nat,
    buyerFee : Nat, sellerFee : Nat, fine : FineConfig ]

ZeroTerms ==
  [ buyer |-> NoOne, seller |-> NoOne, amount |-> 0, buyerFee |-> 0, sellerFee |-> 0,
    fine |-> [fineMin |-> 0, fineMax |-> 0, fineBps |-> 0] ]

Init ==
  /\ wallet = Endowment
  /\ TreasuryInit
  /\ RegistryInit
  /\ relay \in Relays /\ minDealAmount \in Minimums /\ tariff \in Tariffs /\ fine \in Fines
  /\ status = [d \in Deals |-> "UNINITIALIZED"]
  /\ terms = [d \in Deals |-> ZeroTerms]
  /\ fundingDeadline = [d \in Deals |-> 0]
  /\ assignedArbitrator = [d \in Deals |-> NoOne]
  /\ held = [d \in Deals |-> 0]
  /\ toBuyer = [d \in Deals |-> 0] /\ toSeller = [d \in Deals |-> 0]
  /\ award = [d \in Deals |-> 0]
  /\ rewards = [a \in Arbitrators |-> 0]

-----------------------------------------------------------------------------
(* Helpers                                                                 *)

\* What a deposit must reach, and what a funded clone owes.
Deposit(d) == terms[d].amount + terms[d].buyerFee

IsParty(d, u) == u \in {terms[d].buyer, terms[d].seller}

\* The clone of d holds at least x, and keeps the rest.
Spends(d, x) == held[d] >= x /\ held' = [held EXCEPT ![d] = @ - x]

Becomes(d, s) == status' = [status EXCEPT ![d] = s]

\* The factory's relay is also that of every clone it ever created.
IsRelay(u) == u = relay

-----------------------------------------------------------------------------
(* EscrowFactory                                                           *)

Acceptable(amount, sellerFee) == amount >= minDealAmount /\ sellerFee <= amount

CreateEscrow(u, d, buyer, seller, amount, model, span) ==
  LET totalFee  == computeTotalFee(tariff, amount)
      sellerFee == SellerFee(totalFee, model)
  IN  /\ IsRelay(u)
      /\ Acceptable(amount, sellerFee)
      /\ status[d] = "UNINITIALIZED"
      /\ Becomes(d, "AWAITING_FUNDING")
      /\ terms' = [terms EXCEPT ![d] =
           [ buyer |-> buyer, seller |-> seller, amount |-> amount,
             buyerFee |-> BuyerFee(totalFee, model), sellerFee |-> sellerFee,
             fine |-> fine ]]
      /\ fundingDeadline' = [fundingDeadline EXCEPT ![d] = now + span]
      /\ UNCHANGED <<wallet, treasuryVars, registryVars, factoryVars, assignedArbitrator, held,
                     eventLog>>

SetRelay(r) ==
  /\ relay' = r
  /\ UNCHANGED <<wallet, treasuryVars, registryVars, minDealAmount, tariff, fine, cloneVars>>

SetMinDealAmount(m) ==
  /\ minDealAmount' = m
  /\ UNCHANGED <<wallet, treasuryVars, registryVars, relay, tariff, fine, cloneVars>>

SetTariff(t) ==
  /\ tariff' = t
  /\ UNCHANGED <<wallet, treasuryVars, registryVars, relay, minDealAmount, fine, cloneVars>>

SetFine(f) ==
  /\ fine' = f
  /\ UNCHANGED <<wallet, treasuryVars, registryVars, relay, minDealAmount, tariff, cloneVars>>

-----------------------------------------------------------------------------
(* EscrowImplementation: funding                                           *)

\* Slip: the buyer's fee is forgotten.
Covered_AmountOnly(d) == held[d] >= terms[d].amount

Covered(d) == held[d] >= Deposit(d)

NotifyFunded(u, d) ==
  /\ IsRelay(u)
  /\ status[d] = "AWAITING_FUNDING"
  /\ now <= fundingDeadline[d]
  /\ Covered(d)
  /\ Becomes(d, "FUNDED")
  /\ UNCHANGED <<wallet, treasuryVars, registryVars, factoryVars, termVars, assignedArbitrator,
                 held, eventLog>>

ExtendFundingDeadline(u, d, newDeadline) ==
  /\ IsRelay(u)
  /\ status[d] = "AWAITING_FUNDING"
  /\ newDeadline > fundingDeadline[d]
  /\ newDeadline > now
  /\ fundingDeadline' = [fundingDeadline EXCEPT ![d] = newDeadline]
  /\ UNCHANGED <<wallet, treasuryVars, registryVars, factoryVars, status, terms,
                 assignedArbitrator, held, eventLog>>

\* Closing a clone that was never declared funded, on the word of a party or
\* because its deadline has passed.
\* Slip: a funded clone may be closed too.
Close_Funded(d, s) ==
  /\ status[d] \in {"AWAITING_FUNDING", "FUNDED"}
  /\ Becomes(d, s)
  /\ UNCHANGED <<wallet, treasuryVars, registryVars, factoryVars, termVars, assignedArbitrator,
                 held, eventLog>>

Close(d, s) ==
  /\ status[d] = "AWAITING_FUNDING"
  /\ Becomes(d, s)
  /\ UNCHANGED <<wallet, treasuryVars, registryVars, factoryVars, termVars, assignedArbitrator,
                 held, eventLog>>

Cancel(d, u) == IsParty(d, u) /\ Close(d, "CANCELLED")

Expire(d) == now > fundingDeadline[d] /\ Close(d, "EXPIRED")

\* Whatever is left in a clone that is over: a void deal's goes to the buyer, a
\* settled one's to the treasury, which does not account for it.
\* Slip: a buyer may also take back what is not declared funded yet.
Rescue_BeforeFunding(d) ==
  /\ held[d] # 0 /\ status[d] \in Void \cup {"AWAITING_FUNDING"}
  /\ held' = [held EXCEPT ![d] = 0]
  /\ wallet' = Credit(wallet, terms[d].buyer, held[d])
  /\ UNCHANGED <<treasuryVars, registryVars, factoryVars, status, termVars,
                 assignedArbitrator, eventLog>>

Rescue(d) ==
  /\ held[d] # 0
  /\ held' = [held EXCEPT ![d] = 0]
  /\ \/ /\ status[d] \in Void
        /\ wallet' = Credit(wallet, terms[d].buyer, held[d])
        /\ UNCHANGED treasuryVars
     \/ /\ status[d] \in Settled
        /\ Receive(held[d])
        /\ UNCHANGED wallet
  /\ UNCHANGED <<registryVars, factoryVars, status, termVars, assignedArbitrator, eventLog>>

-----------------------------------------------------------------------------
(* EscrowImplementation: settlement without an arbitrator                  *)

\* Slip: the seller's fee is not withheld.
SellerPayout_Gross(t) == t.amount

SellerPayout(t) == t.amount - t.sellerFee

\* The buyer confirms.
Release(d) ==
  LET t        == terms[d]
      payout   == SellerPayout(t)
      totalFee == t.buyerFee + t.sellerFee
  IN  /\ status[d] = "FUNDED"
      /\ Becomes(d, "RELEASED")
      /\ Spends(d, payout + totalFee)
      /\ wallet' = Credit(wallet, t.seller, payout)
      /\ toSeller' = [toSeller EXCEPT ![d] = @ + payout]
      /\ DepositFee(totalFee)
      /\ UNCHANGED <<registryVars, factoryVars, termVars, assignedArbitrator, toBuyer, award,
                     rewards>>

\* The seller gives up.
Refund(d) ==
  LET t == terms[d]
  IN  /\ status[d] = "FUNDED"
      /\ Becomes(d, "REFUNDED")
      /\ Spends(d, Deposit(d))
      /\ wallet' = Credit(wallet, t.buyer, Deposit(d))
      /\ toBuyer' = [toBuyer EXCEPT ![d] = @ + Deposit(d)]
      /\ UNCHANGED <<treasuryVars, registryVars, factoryVars, termVars, assignedArbitrator,
                     toSeller, award, rewards>>

-----------------------------------------------------------------------------
(* EscrowImplementation: disputes                                          *)

Dispute(d, u) ==
  /\ IsParty(d, u)
  /\ status[d] = "FUNDED"
  /\ Becomes(d, "DISPUTED")
  /\ UNCHANGED <<wallet, treasuryVars, registryVars, factoryVars, termVars, assignedArbitrator,
                 held, eventLog>>

\* Slip: an arbitrator may be replaced.
AssignArbitrator_Again(u, d, a) ==
  /\ IsRelay(u) /\ status[d] = "DISPUTED" /\ isEligible(a)
  /\ assignedArbitrator' = [assignedArbitrator EXCEPT ![d] = a]
  /\ BeginDispute(a)
  /\ UNCHANGED <<wallet, treasuryVars, factoryVars, status, termVars, held, eventLog>>

AssignArbitrator(u, d, a) ==
  /\ IsRelay(u)
  /\ status[d] = "DISPUTED"
  /\ assignedArbitrator[d] = NoOne
  /\ isEligible(a)
  /\ assignedArbitrator' = [assignedArbitrator EXCEPT ![d] = a]
  /\ BeginDispute(a)
  /\ UNCHANGED <<wallet, treasuryVars, factoryVars, status, termVars, held, eventLog>>

\* The assigned arbitrator decides.  One transaction pays the arbitrator from the
\* escrow and from the reserve, the fee to the treasury and both parties.
Resolve(d, a, buyerSharePct) ==
  LET t == terms[d]
      s == computeResolveSplit(t, held[d], buyerSharePct, SHARE_DENOMINATOR - buyerSharePct)
      reward == s.fineFromEscrow + PaidFromReserve(s.fineFromReserve)
  IN  /\ status[d] = "DISPUTED"
      /\ assignedArbitrator[d] = a
      /\ held[d] >= t.amount
      /\ Becomes(d, "RESOLVED")
      /\ EndDispute(a)
      /\ Spends(d, s.fineFromEscrow + s.feeToTreasury + s.buyerPayout + s.sellerPayout)
      /\ PayArbitratorAndDepositFee(a, s.fineFromReserve, s.feeToTreasury)
      /\ wallet' = Credit(Credit(Credit(wallet, a, reward), t.buyer, s.buyerPayout),
                          t.seller, s.sellerPayout)
      /\ toBuyer' = [toBuyer EXCEPT ![d] = @ + s.buyerPayout]
      /\ toSeller' = [toSeller EXCEPT ![d] = @ + s.sellerPayout]
      /\ award' = [award EXCEPT ![d] = buyerSharePct]
      /\ rewards' = [rewards EXCEPT ![a] = @ + reward]
      /\ UNCHANGED <<factoryVars, termVars, assignedArbitrator>>

-----------------------------------------------------------------------------
(* The environment                                                         *)

\* Anyone may send tokens to a clone's address, which is known before the clone
\* exists: this is how a deposit is made, in whatever pieces.
TransferToClone(u, d, x) ==
  /\ Pays(u, x)
  /\ held' = [held EXCEPT ![d] = @ + x]
  /\ UNCHANGED <<treasuryVars, registryVars, factoryVars, status, termVars,
                 assignedArbitrator, eventLog>>

Tick ==
  /\ now < MaxTime
  /\ now' = now + 1
  /\ UNCHANGED <<wallet, treasuryVars, registryVars, factoryVars, cloneVars>>

FactoryNext ==
  \/ \E u \in Relays, d \in Deals, b, s \in Parties, x \in DealAmounts,
        m \in FeeModel, n \in FundingSpans : CreateEscrow(u, d, b, s, x, m, n)
  \/ \E r \in Relays : SetRelay(r)
  \/ \E m \in Minimums : SetMinDealAmount(m)
  \/ \E t \in Tariffs : SetTariff(t)
  \/ \E f \in Fines : SetFine(f)

CloneNext ==
  \E d \in Deals :
    \/ \E u \in Relays : NotifyFunded(u, d)
    \/ \E u \in Relays, t \in 1 .. MaxTime : ExtendFundingDeadline(u, d, t)
    \/ \E u \in Parties : Cancel(d, u)
    \/ Expire(d)
    \/ Rescue(d)
    \/ Release(d)
    \/ Refund(d)
    \/ \E u \in Parties : Dispute(d, u)
    \/ \E u \in Relays, a \in Arbitrators : AssignArbitrator(u, d, a)
    \/ \E a \in Arbitrators, p \in Shares : Resolve(d, a, p)
    \/ \E u \in Funders, x \in Transfers : TransferToClone(u, d, x)

\* A reward the treasury settles later counts as paid then.
TreasuryStep ==
  /\ \/ \E a \in Arbitrators :
          /\ ClaimDeferredArbitratorReward(a)
          /\ rewards' = [rewards EXCEPT ![a] = @ + Claimable(a)]
     \/ TreasuryNext /\ UNCHANGED rewards
  /\ UNCHANGED <<registryVars, now, factoryVars, status, termVars, assignedArbitrator, held,
                 partyLog>>

Next ==
  \/ (FactoryNext \/ CloneNext) /\ UNCHANGED now
  \/ TreasuryStep
  \/ (RegistryNext \/ RegistryAdminNext) /\ UNCHANGED <<now, factoryVars, cloneVars>>
  \/ Tick

Spec == Init /\ [][Next]_vars

-----------------------------------------------------------------------------
(* What the contracts promise                                              *)

FactoryOK ==
  /\ relay \in Relays
  /\ minDealAmount \in Nat
  /\ tariff \in TariffConfig
  /\ fine \in FineConfig

CloneOK ==
  /\ status \in [Deals -> EscrowStatus]
  /\ terms \in [Deals -> Terms]
  /\ fundingDeadline \in [Deals -> Nat]
  /\ assignedArbitrator \in [Deals -> Arbitrators \cup {NoOne}]
  /\ held \in [Deals -> Nat]
  /\ toBuyer \in [Deals -> Nat]
  /\ toSeller \in [Deals -> Nat]
  /\ award \in [Deals -> 0 .. SHARE_DENOMINATOR]

\* Every variable has its type.
TypeOK ==
  /\ WalletOK
  /\ TreasuryOK
  /\ RegistryOK
  /\ FactoryOK
  /\ CloneOK
  /\ rewards \in [Arbitrators -> Nat]

\* A clone that is funded or in dispute holds at least the deposit it owes, and the
\* seller's fee fits in the amount: release, refund and resolve of
\* EscrowImplementation.sol can always make all their transfers, so a deposit is
\* never locked by a payout the clone cannot afford.
CloneSolvent ==
  \A d \in Deals : status[d] \in {"FUNDED", "DISPUTED"} =>
    /\ held[d] >= Deposit(d)
    /\ terms[d].sellerFee <= terms[d].amount

\* The parties have got exactly what the outcome entitles them to, once: nothing
\* before it; all but his fee to the seller on release; the deposit to the buyer on
\* refund; and after a dispute each side at least its share of the principal,
\* whatever the fine, the fee and the reserve are (release, refund and resolve pay
\* from one balance).
PayoutsMatchOutcome ==
  \A d \in Deals :
    LET t == terms[d] IN
    /\ status[d] \notin Settled =>
         toBuyer[d] = 0 /\ toSeller[d] = 0
    /\ status[d] = "RELEASED" => toBuyer[d] = 0 /\ toSeller[d] = t.amount - t.sellerFee
    /\ status[d] = "REFUNDED" => toBuyer[d] = Deposit(d) /\ toSeller[d] = 0
    /\ status[d] = "RESOLVED" =>
         LET share == Portion(t.amount, award[d], SHARE_DENOMINATOR)
         IN  toBuyer[d] >= share /\ toSeller[d] = t.amount - share

DealsOf(a, s) == {d \in Deals : status[d] = s /\ assignedArbitrator[d] = a}

\* The disputes the registry counts for an arbitrator are the disputed deals he is
\* assigned to, and the resolved ones those he decided: beginDispute and endDispute
\* are called exactly once per deal, whatever the admin does to his status between.
DisputesCounted ==
  \A a \in Arbitrators :
    /\ activeDisputes[a] = Cardinality(DealsOf(a, "DISPUTED"))
    /\ totalResolved[a] = Cardinality(DealsOf(a, "RESOLVED"))

\* Tokens leave a clone in three ways only: when it settles; in full to the buyer
\* once it is void; in full to the treasury once it is settled.  No sequence of
\* late deposits, rescues and deadline extensions lets anyone else take a token.
TokensLeaveByRule ==
  [][\A d \in Deals : held'[d] < held[d] =>
       \/ status[d] \in {"FUNDED", "DISPUTED"} /\ status'[d] \in Settled
       \/ /\ status[d] \in Void /\ held'[d] = 0
          /\ wallet' = Credit(wallet, terms[d].buyer, held[d])
       \/ /\ status[d] \in Settled /\ held'[d] = 0
          /\ Receive(held[d])]_vars

-----------------------------------------------------------------------------
(* The contracts implement DealCustody                                     *)

Stage ==
  [ UNINITIALIZED |-> "none", AWAITING_FUNDING |-> "offered", FUNDED |-> "locked",
    DISPUTED |-> "contested", RELEASED |-> "paid", REFUNDED |-> "paid",
    RESOLVED |-> "paid", CANCELLED |-> "void", EXPIRED |-> "void" ]

WasFunded(d) == status[d] \in {"FUNDED", "DISPUTED"} \cup Settled

Custody == INSTANCE DealCustody WITH
  stage     <- [d \in Deals |-> Stage[status[d]]],
  deposit   <- [d \in Deals |-> IF WasFunded(d) THEN Deposit(d) ELSE 0],
  principal <- [d \in Deals |-> IF WasFunded(d) THEN terms[d].amount ELSE 0],
  toBuyer   <- toBuyer,
  toSeller  <- toSeller

\* The clones keep the promise of DealCustody: one deposit per deal, paid out in one
\* step, once, and never less than the principal to the parties of a dispute.
CustodySpec == Custody!CustodySpec
====
