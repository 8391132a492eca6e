---- MODULE TonJetton_proofs ----
(***************************************************************************)
(* What holds of TonJettonIngestion for any number of workers, preparing   *)
(* requests, versions, events and payouts, and of TonJettonEscrow for      *)
(* every division of the price, every deadline, any number of attempts,    *)
(* deposits and refusals: the contract implements PayoutPlan, never stores *)
(* what it would refuse to load, and what it still owes is in its wallet.  *)
(***************************************************************************)
EXTENDS TonJettonIngestion, TonJettonEscrow, FiniteSetTheorems, TLAPS

(***************************************************************************)
(* TonJettonIngestion                                                      *)
(***************************************************************************)


\* A settlement has started.
Started == {"SETTLEMENT_PENDING", "RECOVERY_REQUIRED", "SETTLED_FINALIZED"}

\* The contracts: what has started has an outcome, and a payout was due before it was made.
EscrowsOK ==
  /\ \A v \in Versions : escrow[v].status \in Started => escrow[v].outcome \in Outcomes
  /\ \A e \in Ids :
       /\ VersionOf(e) <= deal.version
       /\ events[e].kind = "final" => events[e].outcome \in Outcomes
       /\ events[e].kind = "leg" => /\ escrow[VersionOf(e)].status \in Started
                                    /\ events[e].leg \in Legs \ escrow[VersionOf(e)].due

\* No payout is made twice.
LegsOnce ==
  \A e, f \in Ids :
    /\ events[e].kind = "leg" /\ events[f].kind = "leg"
    /\ VersionOf(e) = VersionOf(f) /\ events[e].leg = events[f].leg
    => e = f

\* The watches: the versions before the last are superseded, those after it do not exist.
WatchesOK ==
  /\ \A v \in Versions : /\ v < deal.version => watch[v] = "SUPERSEDED"
                         /\ v > deal.version => watch[v] = "NONE"
  /\ deal.version > 0 => watch[deal.version] \in Statuses
  /\ ~deal.funded => deal.status # "IN_PROGRESS"
  /\ \A row \in saves : row.status # "IN_PROGRESS"

\* The last watch has seen the funding; this is booked, and nothing of another version is.
\* Neither the deal nor a row that is about to be saved says that it is funded before.
Funded == deal.version > 0 /\ watch[deal.version] # "AWAITING_FUNDING"
LedgerOK ==
  /\ deal.funded => Funded
  /\ \A row \in saves : row.funded => Funded
  /\ ledger # {} => Funded
  /\ \A e \in ledger : VersionOf(e) = deal.version
  /\ Funded => \E e \in ledger : events[e].kind = "fund"

\* The events in the books are those marked as applied.
AppliedOK ==
  \A e \in Ids : LET applied == apps[e].status = "APPLIED" IN
    /\ e \in ledger <=> applied /\ events[e].kind \in {"fund", "leg"}
    /\ e \in consumed <=> applied /\ events[e].intended

\* What the locks are good for: the status that a worker has read is still that of the watch,
\* no two have the same watch or the deal, and a preparer has the deal for itself.
Locked(w) == jobs[w].pc \in {"locked", "decided"}
EventOf(w) == events[jobs[w].at]
LocksOK ==
  /\ \A w \in Workers : Locked(w) => jobs[w].seen = watch[EventOf(w).version]
  /\ \A w, x \in Workers : Locked(w) /\ Locked(x) /\ EventOf(w).version = EventOf(x).version => w = x
  /\ \A w, x \in Workers : jobs[w].pc = "decided" /\ jobs[x].pc = "decided" => w = x
  /\ \A w \in Workers : jobs[w].pc = "decided" =>
       /\ prepares = {}
       /\ jobs[w].seen \in Before[EventOf(w).kind]
       /\ EventOf(w).kind = "fund" => deal.status # "IN_PROGRESS"
  /\ \A p, q \in prepares : p = q
  /\ prepares # {} => deal.version < MaxVersions

Inv == TypeOK /\ EscrowsOK /\ LegsOnce /\ WatchesOK /\ LedgerOK /\ AppliedOK /\ LocksOK

----
\* The tables of the backend.

LEMMA Tables ==
  /\ \A k \in Kinds : /\ Before[k] \subseteq Statuses
                      /\ "SUPERSEDED" \notin Before[k] /\ "NONE" \notin Before[k]
                      /\ "AWAITING_FUNDING" \in Before[k] => k = "fund"
                      /\ WatchAfter[k] \in Statuses \ {"AWAITING_FUNDING"}
                      /\ WatchAfter[k] \in Started <=> k \in {"start", "leg", "recovery", "final"}
                      /\ k \in {"leg", "recovery", "final"} => Before[k] \subseteq Started
                      /\ k \notin {"leg", "recovery", "final"} => Before[k] \intersect Started = {}
  /\ Before["fund"] = {"AWAITING_FUNDING"}
  /\ {"fund", "leg", "final", "start"} \subseteq Kinds
  /\ "AWAITING_FUNDING" \in Statuses
  /\ "SUPERSEDED" \notin Statuses /\ "NONE" \notin Statuses
<1> DEFINE Names == {"fund", "deliver", "dispute", "start", "leg", "recovery", "final"}
           Found == {"AWAITING_FUNDING", "FUNDED", "DELIVERED", "DISPUTED", "SETTLEMENT_PENDING", "RECOVERY_REQUIRED"}
<1>1. Kinds = Names
  BY DEF Kinds, Before
<1>2. \A k \in Names : /\ Before[k] \subseteq Found
                       /\ "AWAITING_FUNDING" \in Before[k] <=> k = "fund"
                       /\ k \in {"leg", "recovery", "final"} => Before[k] \subseteq Started
                       /\ k \notin {"leg", "recovery", "final"} => Before[k] \intersect Started = {}
  BY DEF Before, Started
<1>3. /\ Before["fund"] = {"AWAITING_FUNDING"} /\ Before["deliver"] = {"FUNDED"}
      /\ Before["dispute"] = {"FUNDED", "DELIVERED"} /\ Before["start"] = {"FUNDED", "DELIVERED", "DISPUTED"}
      /\ Before["leg"] = {"SETTLEMENT_PENDING", "RECOVERY_REQUIRED"}
  BY DEF Before
<1>4. UNION {Before[k] : k \in Names} = Found
  <2>1. Found \subseteq UNION {Before[k] : k \in Names}
    BY <1>3
  <2>2. QED
    BY <2>1, <1>2
<1>5. Statuses = Found \union {"SETTLED_FINALIZED"}
  BY <1>1, <1>4 DEF Statuses
<1>6. \A k \in Names : /\ WatchAfter[k] \in Statuses \ {"AWAITING_FUNDING"}
                       /\ WatchAfter[k] \in Started <=> k \in {"start", "leg", "recovery", "final"}
  BY <1>5 DEF WatchAfter, Started
<1>7. QED
  BY <1>1, <1>2, <1>3, <1>5, <1>6

LEMMA DealTables ==
  /\ {"PENDING_PAYMENT", "IN_PROGRESS", "PENDING_CONFIRMATION", "DISPUTED"} \subseteq DealStatuses
  /\ \A o \in Outcomes : Settled[o] \in DealStatuses \ {"IN_PROGRESS"}
BY IngestionAssumption DEF DealStatuses, Settled

LEMMA StatusAfter ==
  ASSUME TypeOK, EscrowsOK, NEW e \in Ids
  PROVE  /\ DealStatusAfter(events[e]) \in DealStatuses
         /\ DealStatusAfter(events[e]) = "IN_PROGRESS" => events[e].kind = "fund" \/ deal.status = "IN_PROGRESS"
         /\ events[e].kind = "fund" => DealStatusAfter(events[e]) = "IN_PROGRESS"
<1>1. events[e].kind = "final" => Settled[events[e].outcome] \in DealStatuses \ {"IN_PROGRESS"}
  BY DealTables DEF EscrowsOK
<1>2. deal.status \in DealStatuses
  BY DEF TypeOK
<1>3. QED
  BY <1>1, <1>2, DealTables DEF DealStatusAfter

LEMMA EventTyped ==
  ASSUME TypeOK, NEW e \in Ids
  PROVE  /\ events[e] \in Event /\ apps[e] \in App
         /\ VersionOf(e) \in Versions /\ events[e].kind \in Kinds
<1>1. events[e] \in Event /\ apps[e] \in App
  BY DEF TypeOK, Ids
<1>2. QED
  BY <1>1 DEF Event, VersionOf

----
\* The initial state.

LEMMA InitInv == Init => Inv
<1> SUFFICES ASSUME Init PROVE Inv
  OBVIOUS
<1>1. Ids = {}
  BY DEF Init, Ids
<1>2. TypeOK
  <2>1. escrow \in [Versions -> [status : Statuses, outcome : Outcomes \union {"none"}, due : SUBSET Legs]]
    BY Tables DEF Init, Unasked
  <2>2. events \in Seq(Event) /\ apps \in Seq(App) /\ Len(events) = Len(apps)
    BY DEF Init
  <2>3. deal \in [status : DealStatuses, funded : BOOLEAN, version : 0..MaxVersions]
    BY DealTables, IngestionAssumption DEF Init
  <2>4. watch \in [Versions -> WatchStatuses]
    BY DEF Init, WatchStatuses
  <2>5. jobs \in [Workers -> Job] /\ \A w \in Workers : jobs[w].pc = "idle"
    BY DEF Init, Resting, Job, WatchStatuses
  <2>6. /\ consumed \subseteq Ids /\ ledger \subseteq Ids /\ prepares \subseteq Preparers
        /\ saves \subseteq [status : DealStatuses, funded : BOOLEAN]
    BY DEF Init
  <2>7. breaker \in BOOLEAN /\ troubles \in 0..MaxTroubles
    <3>1. MaxTroubles \in Nat
      BY IngestionAssumption
    <3>2. troubles \in 0..MaxTroubles
      BY <3>1 DEF Init
    <3>3. breaker \in BOOLEAN
      BY Zenon DEF Init
    <3>4. QED
      BY <3>2, <3>3
  <2>8. QED
    BY <2>1, <2>2, <2>3, <2>4, <2>5, <2>6, <2>7 DEF TypeOK
<1>3. QED
  BY <1>1, <1>2 DEF Init, Inv, EscrowsOK, LegsOnce, WatchesOK, Versions, LedgerOK, Funded, AppliedOK, LocksOK,
     Unasked, Started, Resting, Locked

----
\* The steps of a worker before and after its commit: the contracts, deal and books stay.

SameBooks == UNCHANGED <<escrow, events, deal, saves, watch, consumed, ledger, prepares>>
SameApplied == /\ apps' \in Seq(App) /\ Len(apps') = Len(apps)
               /\ \A e \in Ids : apps'[e].status = "APPLIED" <=> apps[e].status = "APPLIED"

LEMMA BooksKept ==
  ASSUME Inv, SameBooks, SameApplied
  PROVE  EscrowsOK' /\ LegsOnce' /\ WatchesOK' /\ LedgerOK' /\ AppliedOK'
<1>1. Ids' = Ids /\ \A e : VersionOf(e)' = VersionOf(e)
  BY DEF SameBooks, Ids, VersionOf
<1>2. EscrowsOK' /\ LegsOnce'
  BY <1>1 DEF Inv, SameBooks, EscrowsOK, LegsOnce
<1>3. WatchesOK' /\ LedgerOK'
  BY <1>1 DEF Inv, SameBooks, WatchesOK, LedgerOK, Funded
<1>4. AppliedOK'
  BY <1>1 DEF Inv, SameBooks, SameApplied, AppliedOK
<1>5. QED
  BY <1>2, <1>3, <1>4

\* What a worker may take up.
JobOK(w, job) ==
  /\ job \in Job /\ (job.pc # "idle" => job.at \in Ids)
  /\ job.pc \in {"locked", "decided"} =>
       /\ job.seen = watch[VersionOf(job.at)]
       /\ \A x \in Workers \ {w} : Locked(x) => EventOf(x).version # VersionOf(job.at)
  /\ job.pc = "decided" =>
       /\ prepares = {} /\ \A x \in Workers \ {w} : jobs[x].pc # "decided"
       /\ job.seen \in Before[events[job.at].kind]
       /\ events[job.at].kind = "fund" => deal.status # "IN_PROGRESS"

LEMMA JobStep ==
  ASSUME Inv, SameBooks, SameApplied, NEW w \in Workers, NEW job, JobOK(w, job), Step(w, job),
         breaker' \in BOOLEAN, troubles' \in 0..MaxTroubles
  PROVE  Inv'
<1>1. Ids' = Ids /\ \A e : VersionOf(e)' = VersionOf(e)
  BY DEF SameBooks, Ids, VersionOf
<1>2. /\ jobs' \in [Workers -> Job] /\ jobs'[w] = job
      /\ \A x \in Workers \ {w} : jobs'[x] = jobs[x]
  BY DEF Inv, TypeOK, Step, JobOK
<1>3. TypeOK'
  BY <1>1, <1>2 DEF Inv, TypeOK, SameBooks, SameApplied, JobOK
<1>4. LocksOK'
  BY <1>2 DEF Inv, LocksOK, SameBooks, JobOK, Locked, EventOf, VersionOf
<1>5. QED
  BY <1>3, <1>4, BooksKept DEF Inv

LEMMA RestingOK == \A w \in Workers : JobOK(w, Resting)
BY DEF JobOK, Resting, Job, WatchStatuses

LEMMA FailedOK ==
  ASSUME Inv, NEW w \in Workers, jobs[w].pc # "idle", NEW stop \in BOOLEAN
  PROVE  JobOK(w, [jobs[w] EXCEPT !.pc = "failed", !.stop = stop])
BY DEF JobOK, Inv, TypeOK, Job

LEMMA SameApps ==
  ASSUME Inv, UNCHANGED apps
  PROVE  SameApplied
BY DEF Inv, TypeOK, SameApplied

LEMMA TroubleTyped ==
  ASSUME Inv, Trouble \/ UNCHANGED troubles
  PROVE  troubles' \in 0..MaxTroubles
BY IngestionAssumption DEF Inv, TypeOK, Trouble

LEMMA ClaimStep ==
  ASSUME Inv, NEW w \in Workers, Claim(w)
  PROVE  Inv'
<1>1. PICK e \in Ids : Step(w, [Resting EXCEPT !.pc = "claimed", !.at = e])
  BY DEF Claim
<1>2. JobOK(w, [Resting EXCEPT !.pc = "claimed", !.at = e])
  <2>1. Resting \in Job /\ e \in Nat
    BY RestingOK DEF JobOK, Inv, TypeOK, Ids
  <2>2. QED
    BY <2>1 DEF JobOK, Job
<1>3. QED
  BY <1>1, <1>2, JobStep, SameApps, TroubleTyped DEF Claim, SameBooks, chainvars, books, Inv, TypeOK

LEMMA LockStep ==
  ASSUME Inv, NEW w \in Workers, LockPreparation(w)
  PROVE  Inv'
<1> DEFINE job == [jobs[w] EXCEPT !.pc = "locked", !.seen = watch[VersionOf(jobs[w].at)]]
<1>1. jobs[w] \in Job /\ jobs[w].at \in Ids /\ VersionOf(jobs[w].at) \in Versions
  BY EventTyped DEF Inv, TypeOK, LockPreparation
<1>2. watch[VersionOf(jobs[w].at)] \in WatchStatuses
  BY <1>1 DEF Inv, TypeOK
<1>3. JobOK(w, job)
  BY <1>1, <1>2 DEF JobOK, Job, LockPreparation, PreparationFree, Holds, Locked, EventOf, VersionOf
<1>4. Step(w, job)
  BY DEF LockPreparation
<1>5. QED
  BY <1>3, <1>4, JobStep, SameApps, TroubleTyped DEF LockPreparation, SameBooks, chainvars, books, Inv, TypeOK

LEMMA DecideStep ==
  ASSUME Inv, NEW w \in Workers, Decide(w)
  PROVE  Inv'
<1> DEFINE job == jobs[w]
           event == events[job.at]
<1>1. /\ job \in Job /\ job.pc = "locked" /\ job.at \in Ids
      /\ event \in Event /\ VersionOf(job.at) \in Versions /\ event.kind \in Kinds
  BY EventTyped DEF Inv, TypeOK, Decide
<1>2. breaker' \in BOOLEAN
  BY <1>1 DEF Inv, TypeOK, Decide, Event
<1>3. CASE Fails(w, ~event.sound)
  BY <1>1, <1>2, <1>3, FailedOK, JobStep, SameApps, TroubleTyped
     DEF Fails, Decide, SameBooks, chainvars, books, Event
<1>4. CASE Applicable(event, job.seen) /\ Step(w, [job EXCEPT !.pc = "decided"])
  <2>1. job.seen \in Before[event.kind] /\ job.seen = watch[VersionOf(job.at)]
    BY <1>1, <1>4 DEF Applicable, WatchBefore, Inv, LocksOK, Locked, EventOf, VersionOf
  <2>2. event.kind = "fund" => deal.status # "IN_PROGRESS"
    <3>1. SUFFICES ASSUME event.kind = "fund" PROVE ~deal.funded
      BY DEF Inv, WatchesOK
    <3>2. watch[VersionOf(job.at)] = "AWAITING_FUNDING"
      BY <2>1, <3>1, Tables
    <3>3. VersionOf(job.at) = deal.version
      <4>1. \A v \in Versions : /\ v < deal.version => watch[v] = "SUPERSEDED"
                                /\ v > deal.version => watch[v] = "NONE"
        BY DEF Inv, WatchesOK
      <4>2. deal.version \in Int /\ VersionOf(job.at) \in Int
        BY <1>1 DEF Inv, TypeOK, Versions
      <4>3. QED
        BY <1>1, <3>2, <4>1, <4>2
    <3>4. QED
      BY <3>2, <3>3 DEF Inv, LedgerOK, Funded
  <2>3. /\ prepares = {} /\ \A x \in Workers : jobs[x].pc # "decided"
        /\ \A x \in Workers \ {w} : Locked(x) => EventOf(x).version # VersionOf(job.at)
    BY <1>1 DEF Decide, DealFree, Inv, LocksOK, Locked, EventOf, VersionOf
  <2>4. JobOK(w, [job EXCEPT !.pc = "decided"])
    BY <1>1, <2>1, <2>2, <2>3 DEF JobOK, Job
  <2>5. QED
    BY <1>2, <1>4, <2>4, JobStep, SameApps, TroubleTyped DEF Decide, SameBooks, chainvars, books
<1>5. QED
  BY <1>3, <1>4 DEF Decide

LEMMA InterruptStep ==
  ASSUME Inv, NEW w \in Workers, Interrupt(w)
  PROVE  Inv'
<1>1. breaker' \in BOOLEAN /\ troubles' \in 0..MaxTroubles /\ SameApplied /\ SameBooks
  BY SameApps, TroubleTyped DEF Inv, TypeOK, Interrupt, SameBooks, chainvars, books
<1>2. CASE Step(w, Resting)
  BY <1>1, <1>2, RestingOK, JobStep
<1>3. CASE Fails(w, FALSE)
  BY <1>1, <1>3, FailedOK, JobStep DEF Fails, Interrupt
<1>4. QED
  BY <1>2, <1>3 DEF Interrupt

LEMMA RecordStep ==
  ASSUME Inv, NEW w \in Workers, Record(w)
  PROVE  Inv'
<1> DEFINE e == jobs[w].at
<1>1. e \in Ids /\ apps[e] \in App
  BY EventTyped DEF Inv, TypeOK, Record
<1>2. SameApplied
  <2>1. CASE ~StillPending(e)
    BY <2>1, SameApps DEF Record
  <2>2. CASE StillPending(e)
    <3>1. PICK failed \in App : failed.status # "APPLIED" /\ apps' = [apps EXCEPT ![e] = failed]
      BY <1>1, <2>2 DEF Record, App, Attempts
    <3>2. QED
      BY <1>1, <2>2, <3>1 DEF SameApplied, Inv, TypeOK, Ids, StillPending
  <2>3. QED
    BY <2>1, <2>2
<1>3. Step(w, Resting) /\ SameBooks /\ breaker' \in BOOLEAN /\ troubles' \in 0..MaxTroubles
  BY TroubleTyped DEF Record, SameBooks, chainvars, books, Inv, TypeOK
<1>4. QED
  BY <1>2, <1>3, RestingOK, JobStep

----
\* The other steps that leave deal and books alone.

LEMMA JobsKept ==
  ASSUME Inv, UNCHANGED <<escrow, events, deal, saves, watch, consumed, ledger, prepares, jobs>>,
         SameApplied,
         breaker' \in BOOLEAN, troubles' \in 0..MaxTroubles
  PROVE  Inv'
<1>1. SameBooks
  BY DEF SameBooks
<1>2. TypeOK'
  BY DEF Inv, TypeOK, SameApplied, Ids
<1>3. LocksOK'
  BY DEF Inv, LocksOK, Locked, EventOf
<1>4. QED
  BY <1>1, <1>2, <1>3, BooksKept DEF Inv

LEMMA RequeueStep ==
  ASSUME Inv, NEW e \in Ids, Requeue(e)
  PROVE  Inv'
<1>1. PICK again \in App : again.status # "APPLIED" /\ apps' = [apps EXCEPT ![e] = again]
  BY DEF Requeue, App
<1>2. SameApplied
  BY <1>1 DEF SameApplied, Requeue, Inv, TypeOK, Ids
<1>3. QED
  BY <1>2, JobsKept, TroubleTyped DEF Requeue, chainvars, books, Inv, TypeOK

LEMMA ReconcileStep ==
  ASSUME Inv, NEW v \in Versions, Reconcile(v)
  PROVE  Inv'
BY JobsKept, SameApps, TroubleTyped DEF Reconcile, chainvars, books, Inv, TypeOK

\* The row of the deal changes hands.
LEMMA LockDealStep ==
  ASSUME Inv, NEW p \in Preparers, LockDeal(p)
  PROVE  Inv'
<1>1. Ids' = Ids /\ \A e : VersionOf(e)' = VersionOf(e)
  BY DEF LockDeal, chainvars, Ids, VersionOf
<1>2. TypeOK'
  BY <1>1 DEF Inv, TypeOK, LockDeal, chainvars, books
<1>3. EscrowsOK' /\ LegsOnce' /\ WatchesOK' /\ LedgerOK' /\ AppliedOK'
  BY <1>1 DEF Inv, LockDeal, chainvars, books, EscrowsOK, LegsOnce, WatchesOK, LedgerOK, Funded, AppliedOK
<1>4. LocksOK'
  BY DEF Inv, LocksOK, LockDeal, DealFree, chainvars, Locked, EventOf
<1>5. QED
  BY <1>2, <1>3, <1>4 DEF Inv

LEMMA DeadlockStep ==
  ASSUME Inv, NEW w \in Workers, NEW p \in Preparers, Deadlock(w, p)
  PROVE  Inv'
<1>1. CASE Fails(w, FALSE) /\ UNCHANGED prepares
  BY <1>1, FailedOK, JobStep, SameApps, TroubleTyped
     DEF Fails, Deadlock, SameBooks, chainvars, books, Inv, TypeOK
<1>2. CASE prepares' = prepares \ {p} /\ UNCHANGED jobs
  <2>1. Ids' = Ids /\ \A e : VersionOf(e)' = VersionOf(e)
    BY DEF Deadlock, chainvars, Ids, VersionOf
  <2>2. TypeOK'
    BY <1>2, <2>1 DEF Inv, TypeOK, Deadlock, chainvars, books
  <2>3. EscrowsOK' /\ LegsOnce' /\ WatchesOK' /\ LedgerOK' /\ AppliedOK'
    BY <2>1 DEF Inv, Deadlock, chainvars, books, EscrowsOK, LegsOnce, WatchesOK, LedgerOK, Funded, AppliedOK
  <2>4. LocksOK'
    BY <1>2 DEF Inv, LocksOK, Deadlock, chainvars, Locked, EventOf
  <2>5. QED
    BY <2>2, <2>3, <2>4 DEF Inv
<1>3. QED
  BY <1>1, <1>2 DEF Deadlock

\* A request has read the row of the deal.
LEMMA MoveStep ==
  ASSUME Inv, NEW next \in DealStatuses, Move(next)
  PROVE  Inv'
<1>1. Ids' = Ids /\ \A e : VersionOf(e)' = VersionOf(e)
  BY DEF Move, chainvars, Ids, VersionOf
<1>2. PICK row \in [status : DealStatuses, funded : BOOLEAN] :
        /\ saves' = saves \union {row}
        /\ row.status # "IN_PROGRESS" /\ row.funded = deal.funded
  <2>1. next # "IN_PROGRESS" /\ deal.funded \in BOOLEAN
    BY DEF Move, Inv, TypeOK
  <2>2. /\ saves' = saves \union {[status |-> next, funded |-> deal.funded]}
        /\ [status |-> next, funded |-> deal.funded] \in [status : DealStatuses, funded : BOOLEAN]
        /\ [status |-> next, funded |-> deal.funded].status = next
        /\ [status |-> next, funded |-> deal.funded].funded = deal.funded
    BY <2>1 DEF Move
  <2>3. QED
    BY <2>1, <2>2
<1>3. TypeOK'
  BY <1>1, <1>2, TroubleTyped DEF Inv, TypeOK, Move, chainvars, books
<1>4. EscrowsOK' /\ LegsOnce' /\ AppliedOK'
  BY <1>1 DEF Inv, Move, chainvars, books, EscrowsOK, LegsOnce, AppliedOK
<1>5. WatchesOK' /\ LedgerOK'
  BY <1>1, <1>2 DEF Inv, Move, chainvars, books, WatchesOK, LedgerOK, Funded
<1>6. LocksOK'
  BY DEF Inv, LocksOK, Move, chainvars, Locked, EventOf
<1>7. QED
  BY <1>3, <1>4, <1>5, <1>6 DEF Inv

\* It saves what it has made of the row, while nobody holds the deal.
LEMMA SaveMoveStep ==
  ASSUME Inv, NEW row \in saves, SaveMove(row)
  PROVE  Inv'
<1>1. Ids' = Ids /\ \A e : VersionOf(e)' = VersionOf(e)
  BY DEF SaveMove, chainvars, Ids, VersionOf
<1>2. /\ deal'.status = row.status /\ row.status # "IN_PROGRESS"
      /\ deal'.funded => Funded
      /\ deal'.version = deal.version
      /\ deal' \in [status : DealStatuses, funded : BOOLEAN, version : 0..MaxVersions]
  <2>1. PICK funded \in {row.funded, deal.funded} :
          deal' = [deal EXCEPT !.status = row.status, !.funded = funded]
    BY DEF SaveMove
  <2>2. row.status \in DealStatuses /\ funded \in BOOLEAN
    BY DEF Inv, TypeOK
  <2>3. row.status # "IN_PROGRESS" /\ (funded => Funded)
    BY DEF Inv, WatchesOK, LedgerOK
  <2>4. QED
    BY <2>1, <2>2, <2>3 DEF Inv, TypeOK
<1>3. TypeOK'
  BY <1>1, <1>2 DEF Inv, TypeOK, SaveMove, chainvars, books
<1>4. EscrowsOK' /\ LegsOnce' /\ AppliedOK'
  BY <1>1, <1>2 DEF Inv, SaveMove, chainvars, books, EscrowsOK, LegsOnce, AppliedOK
<1>5. Funded' = Funded
  BY <1>2 DEF SaveMove, Funded
<1>6. WatchesOK'
  BY <1>1, <1>2 DEF Inv, SaveMove, WatchesOK
<1>7. LedgerOK'
  <2>1. saves' \subseteq saves /\ ledger' = ledger /\ events' = events
    BY DEF SaveMove, chainvars, books
  <2>2. QED
    BY <1>1, <1>2, <1>5, <2>1 DEF Inv, LedgerOK
<1>8. LocksOK'
  BY <1>2 DEF Inv, LocksOK, SaveMove, DealFree, chainvars, Locked, EventOf
<1>9. QED
  BY <1>3, <1>4, <1>6, <1>7, <1>8 DEF Inv

\* A new version: nobody is busy with the last one, whose funding has not been seen.
LEMMA PrepareStep ==
  ASSUME Inv, NEW p \in Preparers, Prepare(p)
  PROVE  Inv'
<1> DEFINE last == deal.version
<1>1. Ids' = Ids /\ \A e : VersionOf(e)' = VersionOf(e)
  BY DEF Prepare, chainvars, Ids, VersionOf
<1>2. /\ last \in Nat /\ last + 1 \in Versions /\ deal'.version = last + 1
      /\ deal'.status = deal.status /\ deal'.funded = deal.funded
      /\ deal' \in [status : DealStatuses, funded : BOOLEAN, version : 0..MaxVersions]
  <2>1. last \in Nat /\ last < MaxVersions /\ MaxVersions \in Nat
    BY IngestionAssumption DEF Prepare, Inv, TypeOK, LocksOK
  <2>2. last + 1 \in 0..MaxVersions /\ last + 1 \in Versions
    BY <2>1 DEF Versions
  <2>3. deal' = [deal EXCEPT !.version = last + 1]
    BY DEF Prepare
  <2>4. QED
    BY <2>1, <2>2, <2>3 DEF Inv, TypeOK
<1>3. /\ watch' \in [Versions -> WatchStatuses]
      /\ watch'[last + 1] = "AWAITING_FUNDING" /\ (last > 0 => watch'[last] = "SUPERSEDED")
      /\ \A v \in Versions \ {last, last + 1} : watch'[v] = watch[v]
  <2>1. watch' = [v \in Versions |-> IF v = deal'.version THEN "AWAITING_FUNDING"
                                    ELSE IF v = deal.version THEN "SUPERSEDED" ELSE watch[v]]
    BY DEF Prepare
  <2>2. last > 0 => last \in Versions
    BY <1>2, IngestionAssumption DEF Versions
  <2>3. /\ {"AWAITING_FUNDING", "SUPERSEDED"} \subseteq WatchStatuses
        /\ \A v \in Versions : watch[v] \in WatchStatuses
    BY Tables DEF Inv, TypeOK, WatchStatuses
  <2>4. watch' \in [Versions -> WatchStatuses]
    BY <2>1, <2>3
  <2>5. QED
    BY <1>2, <2>1, <2>2, <2>4
<1>4. ~Funded /\ ~deal.funded /\ ledger = {} /\ \A row \in saves : ~row.funded
  BY DEF Prepare, Inv, LedgerOK, Funded
<1>5. TypeOK'
  BY <1>1, <1>2, <1>3 DEF Inv, TypeOK, Prepare, chainvars, books
<1>6. EscrowsOK'
  <2>1. \A e \in Ids : VersionOf(e) \in Versions
    BY EventTyped DEF Inv
  <2>2. QED
    BY <1>1, <1>2, <2>1 DEF Inv, Prepare, chainvars, EscrowsOK, Versions
<1>7. LegsOnce' /\ AppliedOK'
  BY <1>1 DEF Inv, Prepare, chainvars, books, LegsOnce, AppliedOK
<1>8. WatchesOK' /\ LedgerOK'
  <2>1. /\ ledger' = {} /\ deal'.funded = FALSE /\ deal'.version > 0
        /\ saves' = saves /\ \A row \in saves' : ~row.funded
    BY <1>2, <1>4 DEF Prepare, books, Inv, TypeOK
  <2>2. LedgerOK'
    BY <1>2, <1>3, <2>1 DEF LedgerOK, Funded
  <2>3. ASSUME NEW v \in Versions
        PROVE  (v < last + 1 => watch'[v] = "SUPERSEDED") /\ (v > last + 1 => watch'[v] = "NONE")
    BY <1>2, <1>3 DEF Inv, WatchesOK, Versions
  <2>4. deal'.status # "IN_PROGRESS" /\ \A row \in saves' : row.status # "IN_PROGRESS"
    BY <1>2, <1>4, <2>1 DEF Inv, WatchesOK
  <2>5. QED
    BY <1>2, <1>3, <2>2, <2>3, <2>4, Tables DEF WatchesOK
<1>9. LocksOK'
  <2>1. ASSUME NEW w \in Workers, Locked(w)
        PROVE  EventOf(w).version \in Versions /\ EventOf(w).version <= last /\ EventOf(w).version # last
    <3>1. jobs[w].at \in Ids
      BY <2>1 DEF Inv, TypeOK, Locked
    <3>2. EventOf(w).version \in Versions /\ EventOf(w).version <= last
      BY <3>1, EventTyped DEF Inv, EscrowsOK, EventOf, VersionOf
    <3>3. EventOf(w).version # last
      BY <2>1 DEF Prepare, PreparationFree, Holds, Locked, EventOf, VersionOf
    <3>4. QED
      BY <3>2, <3>3
  <2>2. \A w \in Workers : Locked(w) => watch'[EventOf(w).version] = watch[EventOf(w).version]
    BY <1>2, <1>3, <2>1 DEF Versions
  <2>3. prepares' = {}
    BY DEF Prepare, Inv, LocksOK
  <2>4. QED
    BY <1>2, <2>2, <2>3 DEF Inv, LocksOK, Prepare, chainvars, Locked, EventOf
<1>10. QED
  BY <1>5, <1>6, <1>7, <1>8, <1>9 DEF Inv

----
\* A transaction of an escrow is appended.

LEMMA TransactStep ==
  ASSUME Inv, NEW v \in Versions, NEW kind \in Kinds, NEW result \in Outcomes \union {"none"},
         NEW leg \in Legs \union {"none"}, NEW intended \in BOOLEAN, NEW sound \in BOOLEAN,
         Transact(v, kind, result, leg, intended, sound)
  PROVE  Inv'
<1> DEFINE event == [version |-> v, kind |-> kind, outcome |-> result, leg |-> leg,
                     intended |-> intended, sound |-> sound]
           app == [status |-> "PENDING", attempts |-> 0]
           e0 == escrow[v]
           due == IF kind = "start" THEN Legs ELSE e0.due \ {leg}
           after == [status |-> WatchAfter[kind], outcome |-> result, due |-> due]
<1>1. /\ event \in Event /\ app \in App
      /\ events' = Append(events, event) /\ apps' = Append(apps, app)
      /\ escrow' = [escrow EXCEPT ![v] = after]
      /\ UNCHANGED <<deal, watch, intents, books, breaker, jobs, prepares>>
  BY DEF Transact, AppendEvent, Event, App
<1>2. /\ v <= deal.version /\ e0.status \in Before[kind]
      /\ kind = "start" => result \in Outcomes
      /\ kind # "start" => result = e0.outcome
      /\ kind = "leg" => leg \in e0.due
  BY DEF Transact
<1>3. PICK new \in Nat :
      /\ Ids' = Ids \union {new} /\ new \notin Ids
      /\ events' \in Seq(Event) /\ apps' \in Seq(App) /\ Len(events') = Len(apps')
      /\ \A e \in Ids : events'[e] = events[e] /\ apps'[e] = apps[e]
      /\ events'[new] = event /\ apps'[new] = app
  <2>1. events \in Seq(Event) /\ apps \in Seq(App) /\ Len(events) = Len(apps)
    BY DEF Inv, TypeOK
  <2> HIDE DEF event, app
  <2>2. QED
    BY <1>1, <2>1, Len(events) + 1 \in Nat DEF Ids
<1>4. e0 \in [status : Statuses, outcome : Outcomes \union {"none"}, due : SUBSET Legs]
  BY DEF Inv, TypeOK
<1>5. after \in [status : Statuses, outcome : Outcomes \union {"none"}, due : SUBSET Legs]
  BY <1>4, Tables
<1>6. /\ escrow'[v] = after /\ \A u \in Versions \ {v} : escrow'[u] = escrow[u]
      /\ escrow' \in [Versions -> [status : Statuses, outcome : Outcomes \union {"none"}, due : SUBSET Legs]]
  <2>1. escrow \in [Versions -> [status : Statuses, outcome : Outcomes \union {"none"}, due : SUBSET Legs]]
    BY DEF Inv, TypeOK
  <2> HIDE DEF after
  <2>2. QED
    BY <1>1, <1>5, <2>1
<1>7. /\ after.status \in Started => after.outcome \in Outcomes
      /\ kind = "final" => result \in Outcomes
      /\ kind = "leg" => after.status \in Started /\ leg \in Legs \ after.due
      /\ e0.status \in Started => after.status \in Started /\ after.due \subseteq e0.due
  <2>1. e0.status \in Started => e0.outcome \in Outcomes
    BY DEF Inv, EscrowsOK
  <2>2. /\ kind \in {"leg", "recovery", "final"} => e0.status \in Started
        /\ e0.status \in Started => kind \in {"leg", "recovery", "final"}
        /\ WatchAfter[kind] \in Started <=> kind \in {"start", "leg", "recovery", "final"}
    BY <1>2, Tables
  <2>3. e0.due \subseteq Legs
    BY <1>4
  <2>4. QED
    BY <1>2, <2>1, <2>2, <2>3
<1> HIDE DEF after, app
<1>8. \A e \in Ids : VersionOf(e)' = VersionOf(e) /\ VersionOf(e) \in Versions
  BY <1>3, EventTyped DEF Inv, VersionOf
<1>9. VersionOf(new)' = v /\ events'[new].kind = kind /\ events'[new].leg = leg
      /\ events'[new].outcome = result /\ apps'[new].status = "PENDING"
  BY <1>3 DEF VersionOf, app
<1> HIDE DEF event
<1>10. TypeOK'
  BY <1>1, <1>3, <1>6, TroubleTyped DEF Inv, TypeOK, Transact, AppendEvent, books
<1>11. EscrowsOK'
  <2>1. ASSUME NEW u \in Versions, escrow'[u].status \in Started
        PROVE  escrow'[u].outcome \in Outcomes
    BY <1>6, <1>7, <2>1 DEF Inv, EscrowsOK
  <2>2. ASSUME NEW e \in Ids
        PROVE  /\ VersionOf(e)' <= deal'.version
               /\ events'[e].kind = "final" => events'[e].outcome \in Outcomes
               /\ events'[e].kind = "leg" => /\ escrow'[VersionOf(e)'].status \in Started
                                            /\ events'[e].leg \in Legs \ escrow'[VersionOf(e)'].due
    BY <1>1, <1>3, <1>6, <1>7, <1>8 DEF Inv, EscrowsOK
  <2>3. /\ VersionOf(new)' <= deal'.version
        /\ events'[new].kind = "final" => events'[new].outcome \in Outcomes
        /\ events'[new].kind = "leg" => /\ escrow'[VersionOf(new)'].status \in Started
                                       /\ events'[new].leg \in Legs \ escrow'[VersionOf(new)'].due
    BY <1>1, <1>2, <1>6, <1>7, <1>9
  <2>4. QED
    BY <1>3, <2>1, <2>2, <2>3 DEF EscrowsOK
<1>12. LegsOnce'
  <2>1. ASSUME NEW e \in Ids, events[e].kind = "leg", VersionOf(e) = v, kind = "leg"
        PROVE  events[e].leg # leg
    BY <1>2, <2>1 DEF Inv, EscrowsOK
  <2>2. QED
    BY <1>3, <1>8, <1>9, <2>1 DEF Inv, LegsOnce
<1>13. ledger' = ledger /\ consumed' = consumed /\ ledger \subseteq Ids /\ consumed \subseteq Ids
  BY <1>1 DEF books, Inv, TypeOK
<1>14. WatchesOK' /\ LedgerOK'
  <2>1. /\ saves' = saves /\ deal' = deal /\ watch' = watch
        /\ WatchesOK' /\ Funded' = Funded
    BY DEF Transact, AppendEvent, Inv, WatchesOK, Funded
  <2>2. \A e \in ledger : VersionOf(e)' = VersionOf(e) /\ events'[e].kind = events[e].kind
    BY <1>3, <1>8, <1>13
  <2>3. QED
    BY <1>1, <1>13, <2>1, <2>2 DEF Inv, LedgerOK
<1>15. AppliedOK'
  <2>1. ASSUME NEW e \in Ids
        PROVE  /\ e \in ledger' <=> apps'[e].status = "APPLIED" /\ events'[e].kind \in {"fund", "leg"}
               /\ e \in consumed' <=> apps'[e].status = "APPLIED" /\ events'[e].intended
    BY <1>3, <1>13 DEF Inv, AppliedOK
  <2>2. new \notin ledger' /\ new \notin consumed' /\ apps'[new].status # "APPLIED"
    BY <1>3, <1>9, <1>13
  <2>3. QED
    BY <1>3, <2>1, <2>2 DEF AppliedOK
<1>16. LocksOK'
  <2>1. \A w \in Workers : Locked(w) => EventOf(w)' = EventOf(w)
    BY <1>1, <1>3 DEF Inv, TypeOK, Locked, EventOf
  <2>2. \A w \in Workers : jobs[w].pc = "decided" => Locked(w)
    BY DEF Locked
  <2>3. QED
    BY <1>1, <2>1, <2>2 DEF Inv, LocksOK, Locked
<1>17. QED
  BY <1>10, <1>11, <1>12, <1>14, <1>15, <1>16 DEF Inv

----
\* A worker writes the books.

LEMMA CommitStep ==
  ASSUME Inv, NEW w \in Workers, NEW known \in BOOLEAN, Commit(w, known)
  PROVE  Inv'
<1> DEFINE e == jobs[w].at
           event == events[e]
           next == DealStatusAfter(event)
           v == VersionOf(e)
<1>1. /\ e \in Ids /\ event \in Event /\ apps[e] \in App
      /\ v \in Versions /\ event.kind \in Kinds /\ jobs[w].pc = "decided"
  BY EventTyped DEF Inv, TypeOK, Commit
<1>2. /\ watch[v] \in Before[event.kind] /\ prepares = {}
      /\ event.kind = "fund" => deal.status # "IN_PROGRESS"
  BY <1>1 DEF Inv, LocksOK, Locked, EventOf, VersionOf
<1>3. v = deal.version /\ deal.version > 0
  <2>1. watch[v] # "SUPERSEDED"
    BY <1>1, <1>2, Tables
  <2>2. v <= deal.version /\ deal.version \in Int /\ v \in Int /\ v >= 1
    BY <1>1 DEF Inv, EscrowsOK, TypeOK, Versions
  <2>3. ~(v < deal.version)
    BY <1>1, <2>1 DEF Inv, WatchesOK
  <2>4. QED
    BY <2>2, <2>3
<1>4. event.kind = "fund" <=> ~Funded
  <2>1. event.kind = "fund" => watch[v] = "AWAITING_FUNDING"
    BY <1>2, Tables
  <2>2. watch[v] = "AWAITING_FUNDING" => event.kind = "fund"
    BY <1>1, <1>2, Tables
  <2>3. Funded <=> watch[v] # "AWAITING_FUNDING"
    BY <1>3 DEF Funded
  <2>4. QED
    BY <2>1, <2>2, <2>3
<1>5. /\ watch' = [watch EXCEPT ![v] = WatchAfter[event.kind]]
      /\ apps' = [apps EXCEPT ![e].status = "APPLIED"]
      /\ ledger' = IF event.kind \in {"fund", "leg"} THEN ledger \union {e} ELSE ledger
      /\ consumed' = IF event.intended THEN consumed \union {e} ELSE consumed
      /\ UNCHANGED <<escrow, events, breaker, prepares>>
  BY DEF Commit, VersionOf, chainvars
<1>6. /\ deal' \in [status : DealStatuses, funded : BOOLEAN, version : 0..MaxVersions]
      /\ deal'.version = deal.version
      /\ ~deal'.funded => next # "IN_PROGRESS"
      /\ deal'.status = next
  <2>1. deal' = [deal EXCEPT !.status = next, !.funded = @ \/ (event.kind = "fund" /\ next # deal.status)]
    BY DEF Commit
  <2>2. next \in DealStatuses /\ (event.kind = "fund" => next = "IN_PROGRESS")
    BY <1>1, StatusAfter DEF Inv
  <2>3. event.kind # "fund" /\ next = "IN_PROGRESS" => deal.status = "IN_PROGRESS"
    BY <1>1, StatusAfter DEF Inv
  <2>4. PICK funded \in BOOLEAN : funded = (deal.funded \/ (event.kind = "fund" /\ next # deal.status))
    BY Zenon
  <2>5. ~funded => next # "IN_PROGRESS"
    BY <1>2, <2>2, <2>3, <2>4 DEF Inv, WatchesOK
  <2> HIDE DEF next, event
  <2>6. deal' = [deal EXCEPT !.status = next, !.funded = funded]
    BY <2>1, <2>4
  <2>7. QED
    BY <2>2, <2>5, <2>6 DEF Inv, TypeOK
<1>7. /\ watch' \in [Versions -> WatchStatuses]
      /\ watch'[v] \in Statuses \ {"AWAITING_FUNDING"}
      /\ \A u \in Versions \ {v} : watch'[u] = watch[u]
  BY <1>1, <1>5, Tables DEF Inv, TypeOK, WatchStatuses
<1>8. Funded'
  BY <1>3, <1>6, <1>7 DEF Funded
<1>9. /\ apps' \in Seq(App) /\ Len(apps') = Len(apps)
      /\ apps'[e].status = "APPLIED" /\ \A f \in Ids \ {e} : apps'[f] = apps[f]
  <2>1. [apps[e] EXCEPT !.status = "APPLIED"] \in App
    BY <1>1 DEF App
  <2>2. apps' = [apps EXCEPT ![e] = [apps[e] EXCEPT !.status = "APPLIED"]]
    BY <1>5
  <2>3. QED
    BY <1>1, <2>1, <2>2 DEF Inv, TypeOK, Ids
<1>10. /\ jobs' \in [Workers -> Job] /\ jobs'[w].pc \in {"idle", "failed"}
       /\ jobs'[w].pc = "failed" => jobs'[w].at = e
       /\ \A x \in Workers \ {w} : jobs'[x] = jobs[x]
       /\ troubles' \in 0..MaxTroubles
  <2>1. CASE Step(w, Resting) /\ UNCHANGED troubles
    BY <2>1, RestingOK, TroubleTyped DEF JobOK, Step, Resting, Inv, TypeOK
  <2>2. CASE Fails(w, FALSE) /\ Trouble
    <3>1. [jobs[w] EXCEPT !.pc = "failed", !.stop = FALSE] \in Job
      BY DEF Inv, TypeOK, Job
    <3>2. QED
      BY <2>2, <3>1, TroubleTyped DEF Fails, Step, Inv, TypeOK
  <2>3. QED
    BY <2>1, <2>2 DEF Commit
<1>11. Ids' = Ids /\ \A f : VersionOf(f)' = VersionOf(f) /\ events'[f] = events[f]
  BY <1>5 DEF Ids, VersionOf
<1>12. saves' = saves
  BY DEF Commit
<1> HIDE DEF next
<1>13. TypeOK'
  BY <1>1, <1>5, <1>6, <1>7, <1>9, <1>10, <1>11, <1>12 DEF Inv, TypeOK
<1>14. EscrowsOK' /\ LegsOnce'
  BY <1>5, <1>6, <1>11 DEF Inv, EscrowsOK, LegsOnce
<1>15. WatchesOK'
  BY <1>3, <1>6, <1>7, <1>12 DEF Inv, WatchesOK, Versions
<1>16. LedgerOK'
  <2>1. \A f \in ledger' : VersionOf(f) = deal.version
    BY <1>3, <1>5 DEF Inv, LedgerOK
  <2>2. \E f \in ledger' : events[f].kind = "fund"
    BY <1>4, <1>5 DEF Inv, LedgerOK
  <2>3. \A row \in saves' : row.funded => Funded'
    BY <1>8
  <2>4. QED
    BY <1>6, <1>8, <1>11, <2>1, <2>2, <2>3 DEF LedgerOK
<1>17. AppliedOK'
  <2>1. ASSUME NEW f \in Ids \ {e}
        PROVE  /\ f \in ledger' <=> apps'[f].status = "APPLIED" /\ events[f].kind \in {"fund", "leg"}
               /\ f \in consumed' <=> apps'[f].status = "APPLIED" /\ events[f].intended
    BY <1>5, <1>9 DEF Inv, AppliedOK
  <2>2. /\ e \in ledger' <=> apps'[e].status = "APPLIED" /\ event.kind \in {"fund", "leg"}
        /\ e \in consumed' <=> apps'[e].status = "APPLIED" /\ event.intended
    BY <1>1, <1>5, <1>9 DEF Inv, AppliedOK
  <2>3. QED
    BY <1>11, <2>1, <2>2 DEF AppliedOK
<1>18. LocksOK'
  <2>1. ASSUME NEW x \in Workers, Locked(x)'
        PROVE  x # w /\ Locked(x) /\ EventOf(x)' = EventOf(x) /\ jobs'[x] = jobs[x]
    BY <1>5, <1>10, <2>1 DEF Locked, EventOf
  <2>2. ASSUME NEW x \in Workers, Locked(x)'
        PROVE  EventOf(x).version \in Versions /\ EventOf(x).version # v
    <3>1. jobs[x].at \in Ids
      BY <2>1, <2>2 DEF Inv, TypeOK, Locked
    <3>2. EventOf(x).version \in Versions
      BY <3>1, EventTyped DEF Inv, EventOf, VersionOf
    <3>3. EventOf(x).version # v
      BY <1>1, <2>1, <2>2 DEF Inv, LocksOK, Locked, EventOf, VersionOf
    <3>4. QED
      BY <3>2, <3>3
  <2>3. \A x \in Workers : jobs'[x].pc # "decided"
    BY <1>1, <1>10 DEF Inv, LocksOK
  <2>4. prepares' = {}
    BY <1>2, <1>5
  <2>5. \A x \in Workers : Locked(x)' => jobs'[x].seen = watch'[EventOf(x)'.version]
    BY <1>7, <2>1, <2>2 DEF Inv, LocksOK
  <2>6. \A x, y \in Workers : Locked(x)' /\ Locked(y)' /\ EventOf(x)'.version = EventOf(y)'.version => x = y
    BY <2>1 DEF Inv, LocksOK
  <2>7. QED
    BY <2>3, <2>4, <2>5, <2>6 DEF LocksOK
<1>19. QED
  BY <1>13, <1>14, <1>15, <1>16, <1>17, <1>18 DEF Inv

----
\* The specification.

LEMMA NextInv == Inv /\ [Next]_vars => Inv'
<1> SUFFICES ASSUME Inv, [Next]_vars PROVE Inv'
  OBVIOUS
<1>1. ASSUME NEW v \in Versions, NEW kind \in Kinds, NEW o \in Outcomes \union {"none"},
             NEW l \in Legs \union {"none"}, NEW intended \in BOOLEAN, NEW sound \in BOOLEAN,
             Transact(v, kind, o, l, intended, sound)
      PROVE  Inv'
  BY <1>1, TransactStep
<1>2. ASSUME NEW next \in DealStatuses, Move(next) PROVE Inv'
  BY <1>2, MoveStep
<1>3. ASSUME NEW row \in saves, SaveMove(row) PROVE Inv'
  BY <1>3, SaveMoveStep
<1>4. ASSUME NEW p \in Preparers, LockDeal(p) \/ Prepare(p) PROVE Inv'
  BY <1>4, LockDealStep, PrepareStep
<1>5. ASSUME NEW w \in Workers, Works(w) \/ Commit(w, FALSE) \/ Interrupt(w) PROVE Inv'
  BY <1>5, ClaimStep, LockStep, DecideStep, CommitStep, RecordStep, InterruptStep DEF Works
<1>6. ASSUME NEW w \in Workers, NEW p \in Preparers, Deadlock(w, p) PROVE Inv'
  BY <1>6, DeadlockStep
<1>7. ASSUME NEW e \in Ids, Requeue(e) PROVE Inv'
  BY <1>7, RequeueStep
<1>8. ASSUME NEW v \in Versions, Reconcile(v) PROVE Inv'
  BY <1>8, ReconcileStep
<1>9. CASE UNCHANGED vars
  BY <1>9, JobsKept, SameApps, TroubleTyped DEF vars, books, chainvars, Inv, TypeOK
<1>10. QED
  BY <1>1, <1>2, <1>3, <1>4, <1>5, <1>6, <1>7, <1>8, <1>9 DEF Next

LEMMA Invariance == Spec => []Inv
BY InitInv, NextInv, PTL DEF Spec

\* The contracts, rows and transactions keep their types.
THEOREM Typed == Spec => []TypeOK
<1>1. Inv => TypeOK
  BY DEF Inv
<1>2. QED
  BY <1>1, Invariance, PTL

\* A deal has one escrow that counts, for any number of versions, workers and preparers, and
\* however late the rows that requests have read are saved.
THEOREM OneEscrowCounts == Spec => []OneEscrow
<1>1. Inv => OneEscrow
  <2>1. ASSUME Inv PROVE Funded <=> \E e \in ledger : events[e].kind = "fund"
    BY <2>1 DEF Inv, LedgerOK
  <2>2. QED
    BY <2>1 DEF Inv, WatchesOK, LedgerOK, Funded, OneEscrow
<1>2. QED
  BY <1>1, Invariance, PTL

\* A settlement has no more payouts than legs, and none is booked before the funding.
LEMMA BalanceCovered ==
  ASSUME Inv, NEW v \in Versions
  PROVE  Balance(Of(v, ledger)) >= 0
<1> DEFINE Booked(kind) == {e \in ledger : events[e].version = v /\ events[e].kind = kind}
           payout == [e \in Booked("leg") |-> events[e].leg]
<1>1. /\ IsFiniteSet(Booked("fund")) /\ IsFiniteSet(Legs)
      /\ Cardinality(Booked("fund")) \in Nat /\ Cardinality(Legs) \in Nat
  <2>1. IsFiniteSet(Ids)
    BY FS_Interval DEF Ids, Inv, TypeOK
  <2>2. IsFiniteSet(Booked("fund"))
    BY <2>1, FS_Subset DEF Inv, TypeOK
  <2>3. QED
    BY <2>2, IngestionAssumption, FS_CardinalityType
<1>2. Cardinality(Booked("leg")) \in Nat /\ Cardinality(Booked("leg")) <= Cardinality(Legs)
  <2>1. \A e \in Booked("leg") : e \in Ids /\ VersionOf(e) = v /\ events[e].kind = "leg"
    BY DEF Inv, TypeOK, VersionOf
  <2>2. payout \in [Booked("leg") -> Legs]
    BY <2>1 DEF Inv, EscrowsOK
  <2>3. \A e, f \in Booked("leg") : payout[e] = payout[f] => e = f
    BY <2>1 DEF Inv, LegsOnce
  <2>4. payout \in Injection(Booked("leg"), Legs)
    BY <2>2, <2>3 DEF Injection, IsInjective
  <2>5. QED
    BY <1>1, <2>4, FS_Injection, FS_CardinalityType
<1>3. Booked("leg") # {} => Cardinality(Booked("fund")) >= 1
  <2>1. SUFFICES ASSUME Booked("leg") # {} PROVE Booked("fund") # {}
    BY <1>1, FS_EmptySet
  <2>2. v = deal.version
    BY <2>1 DEF Inv, LedgerOK, VersionOf
  <2>3. QED
    BY <2>1, <2>2 DEF Inv, LedgerOK, VersionOf
<1>4. Booked("leg") = {} => Cardinality(Booked("leg")) = 0
  BY FS_EmptySet
<1>5. Balance(Of(v, ledger)) = Cardinality(Legs) * Cardinality(Booked("fund")) - Cardinality(Booked("leg"))
  <2>1. \A kind : {e \in Of(v, ledger) : events[e].kind = kind} = Booked(kind)
    BY DEF Of, VersionOf
  <2>2. QED
    BY <2>1 DEF Balance
<1>6. ASSUME NEW l \in Nat, NEW f \in Nat, NEW p \in Nat, p <= l, f >= 1 \/ p = 0
      PROVE  l * f - p >= 0
  <2>1. CASE p = 0
    BY <2>1
  <2>2. CASE f >= 1
    <3>1. PICK g \in Nat : f = g + 1
      BY <2>2
    <3>2. l * f = l * g + l /\ l * g >= 0
      BY <3>1
    <3>3. QED
      BY <1>6, <3>2
  <2>3. QED
    BY <1>6, <2>1, <2>2
<1> HIDE DEF Booked
<1>7. QED
  BY <1>1, <1>2, <1>3, <1>4, <1>5, <1>6

\* What an event says is in the books exactly when it is marked as applied, and no payout is
\* booked before the funding or twice, however often it is tried, interrupted and requeued.
THEOREM EventsAppliedTogether == Spec => []AppliedTogether
<1>1. Inv => AppliedTogether
  BY BalanceCovered DEF Inv, AppliedOK, AppliedTogether
<1>2. QED
  BY <1>1, Invariance, PTL

(***************************************************************************)
(* TonJettonEscrow                                                         *)
(***************************************************************************)


\* The stages a payout cannot arrive from.
Dead == {"refused", "bounced", "returned"}
Paid(l) == \E t \in transfers : t.leg = l /\ t.stage = "credited"

\* Before the settlement nothing has been sent, and what is notified is in the wallet.
Early ==
  status \in Unsettled =>
    /\ transfers = {} /\ plan = NoLegs /\ credited = NoLegs
    /\ \A n \in notices : n.amount <= held

\* The legs of the settlement are those the plan gives something.
Planned == status \notin Unsettled => baseMask = ActiveLegs(plan)

\* Every payout is of the plan, each leg has one in each attempt, and all but one are dead: those
\* of earlier attempts, once the leg is sent again, and all of a leg that has failed.
Sent == \A t \in transfers : t.amount = plan[t.leg] /\ t.attempt <= attempt /\ t.leg \in baseMask
Keyed == \A t, u \in transfers : t.leg = u.leg /\ t.attempt = u.attempt => t = u
OneLives == \A t, u \in transfers : t.leg = u.leg => t = u \/ t.stage \in Dead \/ u.stage \in Dead
OldAreDead == \A t \in transfers : t.attempt < attempt /\ t.leg \in activeMask => t.stage \in Dead
FailedAreDead ==
  status = "RECOVERY_REQUIRED" => \A t \in transfers : t.leg \in failedMask => t.stage \in Dead

\* The authority confirms what has arrived, and the payees have got nothing else.
ConfirmedArePaid == \A l \in confirmedMask : Paid(l)
Credits == \A l \in JettonLegs : credited[l] = IF Paid(l) THEN plan[l] ELSE 0

EscrowInv ==
  /\ EscrowTypeOK /\ StorageValid
  /\ Early /\ Planned
  /\ Sent /\ Keyed /\ OneLives /\ OldAreDead /\ FailedAreDead
  /\ ConfirmedArePaid /\ Credits
  /\ LegsCovered

LEMMA Constants ==
  /\ BuyerTotal \in Nat /\ BuyerTotal > 0 /\ SellerPayout \in Nat /\ PlatformFee \in Nat
  /\ RefundToBuyer \in Nat /\ RefundFee \in Nat /\ FundingQuery \in Nat
  /\ Leaps \subseteq Nat /\ Deposits \subseteq Nat /\ Awards \subseteq Nat
  BY JettonAssumption

LEMMA EscrowInitInv == EscrowInit => EscrowInv
<1> SUFFICES ASSUME EscrowInit PROVE EscrowInv
  OBVIOUS
<1>1. EscrowTypeOK
  BY DEF EscrowInit, EscrowTypeOK, EscrowStatuses, NoLegs
<1>2. StorageValid /\ Early /\ Planned /\ LegsCovered
  BY DEF EscrowInit, StorageValid, Early, Planned, LegsCovered, Unsettled
<1>3. Sent /\ Keyed /\ OneLives /\ OldAreDead /\ FailedAreDead /\ ConfirmedArePaid
  BY DEF EscrowInit, Sent, Keyed, OneLives, OldAreDead, FailedAreDead, ConfirmedArePaid
<1>4. Credits
  BY DEF EscrowInit, Credits, Paid, NoLegs
<1> QED
  BY <1>1, <1>2, <1>3, <1>4 DEF EscrowInv

\* The conjuncts that speak of the payouts depend on these variables only.
LEMMA PayoutsKept ==
  ASSUME EscrowInv, UNCHANGED <<transfers, credited, plan, attempt, baseMask, activeMask, failedMask,
                          confirmedMask>>,
         status' = "RECOVERY_REQUIRED" => status = "RECOVERY_REQUIRED"
  PROVE  Sent' /\ Keyed' /\ OneLives' /\ OldAreDead' /\ FailedAreDead' /\ ConfirmedArePaid' /\ Credits'
<1>1. Sent' /\ Keyed' /\ OneLives' /\ OldAreDead' /\ FailedAreDead'
  BY DEF EscrowInv, Sent, Keyed, OneLives, OldAreDead, FailedAreDead
<1>2. \A l \in JettonLegs : Paid(l)' = Paid(l)
  BY DEF Paid
<1>3. ConfirmedArePaid' /\ Credits'
  <2>1. confirmedMask \subseteq JettonLegs
    BY DEF EscrowInv, EscrowTypeOK
  <2> QED
    BY <1>2, <2>1 DEF EscrowInv, ConfirmedArePaid, Credits
<1> QED
  BY <1>1, <1>3

-----------------------------------------------------------------------------
(* Before the settlement                                                   *)

\* The parties move the deal on, and nothing is sent.
LEMMA UnsettledStep ==
  ASSUME EscrowInv, UNCHANGED <<now, settlement, wallet, deposits>>, notices' \subseteq notices,
         sealed' \in BOOLEAN, sealed => sealed', lastQueryId' \in Nat,
         \/ status' = status /\ fundedAmount' = fundedAmount
         \/ /\ status \in Unsettled /\ status' \in {"FUNDED", "DELIVERED", "DISPUTED"}
            /\ fundedAmount' = BuyerTotal /\ sealed' /\ held >= BuyerTotal
  PROVE  EscrowInv'
<1>1. UNCHANGED <<outcome, baseMask, plan, attempt, activeMask, confirmedMask, failedMask,
                  bouncedMask, evidence, queries, held, transfers, credited, refusals>>
  BY DEF settlement, base, tries, wallet
<1>2. EscrowTypeOK'
  BY <1>1, Constants DEF EscrowInv, EscrowTypeOK, EscrowStatuses, Unsettled
<1>3. StorageValid'
  BY <1>1 DEF EscrowInv, StorageValid, SettlementValid, Unsettled, Whole
<1>4. Early' /\ Planned'
  BY <1>1 DEF EscrowInv, Early, Planned, Unsettled, ActiveLegs
<1>5. Sent' /\ Keyed' /\ OneLives' /\ OldAreDead' /\ FailedAreDead' /\ ConfirmedArePaid' /\ Credits'
  BY <1>1, PayoutsKept DEF Unsettled
<1>6. LegsCovered'
  <2>1. CASE status' = status
    <3>1. \A l \in JettonLegs : InWallet(l)' = InWallet(l)
      BY <1>1, <2>1 DEF InWallet, UnderWay, Owed, Unsettled
    <3> QED
      BY <1>1, <2>1, <3>1 DEF EscrowInv, LegsCovered, JettonLegs
  <2>2. CASE status' # status
    BY <1>1, <2>2 DEF LegsCovered, Unsettled
  <2> QED
    BY <2>1, <2>2
<1> QED
  BY <1>2, <1>3, <1>4, <1>5, <1>6 DEF EscrowInv

\* A funded deal has its total, and the wallet holds it.
LEMMA FundedStep ==
  ASSUME EscrowInv, status \in {"FUNDED", "DELIVERED", "DISPUTED"}
  PROVE  fundedAmount = BuyerTotal /\ sealed /\ held >= BuyerTotal
  BY DEF EscrowInv, StorageValid, LegsCovered

LEMMA SealStep == ASSUME EscrowInv, NEW q \in Nat, SealCanonicalWallet(q) PROVE EscrowInv'
  BY UnsettledStep DEF SealCanonicalWallet, inbox

LEMMA MovesStep == ASSUME EscrowInv, NEW q \in Nat, MarkDelivered(q) \/ OpenDispute(q) PROVE EscrowInv'
<1>1. /\ status \in {"FUNDED", "DELIVERED"} /\ status' \in {"DELIVERED", "DISPUTED"}
      /\ UNCHANGED <<sealed, fundedAmount, now, settlement, wallet, inbox>> /\ lastQueryId' = q
  BY DEF MarkDelivered, OpenDispute, Moves
<1>2. fundedAmount = BuyerTotal /\ sealed /\ held >= BuyerTotal
  BY <1>1, FundedStep
<1>3. sealed \in BOOLEAN
  BY DEF EscrowInv, EscrowTypeOK
<1> QED
  BY <1>1, <1>2, <1>3, UnsettledStep DEF inbox, Unsettled

LEMMA NotificationStep == ASSUME EscrowInv, NEW n \in notices, TransferNotification(n) PROVE EscrowInv'
<1>1. /\ UNCHANGED <<sealed, now, settlement, wallet, deposits>> /\ notices' = notices \ {n}
      /\ sealed \in BOOLEAN /\ lastQueryId \in Nat
  BY DEF TransferNotification, EscrowInv, EscrowTypeOK
<1>2. CASE Authentic(n)
  <2>1. /\ status = "AWAITING_FUNDING" /\ sealed /\ n.amount = BuyerTotal
        /\ status' = "FUNDED" /\ fundedAmount' = BuyerTotal /\ lastQueryId' = FundingQuery
    BY <1>2 DEF TransferNotification, Authentic
  <2>2. held >= BuyerTotal
    BY <2>1 DEF EscrowInv, Early, Unsettled
  <2> QED
    BY <1>1, <2>1, <2>2, Constants, UnsettledStep DEF Unsettled
<1>3. CASE ~Authentic(n)
  <2>1. UNCHANGED <<status, fundedAmount, lastQueryId>>
    BY <1>3 DEF TransferNotification
  <2> QED
    BY <1>1, <2>1, UnsettledStep
<1> QED
  BY <1>2, <1>3

LEMMA DepositStep ==
  ASSUME EscrowInv, NEW amount \in Nat, NEW committed \in BOOLEAN, Deposit(amount, committed)
  PROVE  EscrowInv'
<1>1. /\ held' = held + amount /\ held \in Nat /\ deposits \in Nat /\ deposits' = deposits + 1
      /\ notices' = notices \cup {[amount |-> amount, committed |-> committed, no |-> deposits]}
  BY DEF Deposit, EscrowInv, EscrowTypeOK
<1>2. /\ UNCHANGED <<status, sealed, fundedAmount, lastQueryId, now, transfers, credited, refusals>>
      /\ UNCHANGED <<outcome, baseMask, plan, attempt, activeMask, confirmedMask, failedMask,
                     bouncedMask, evidence, queries>>
  BY DEF Deposit, settlement, base, tries
<1>3. EscrowTypeOK'
  BY <1>1, <1>2 DEF EscrowInv, EscrowTypeOK
<1>4. StorageValid' /\ Planned'
  BY <1>2 DEF EscrowInv, StorageValid, SettlementValid, Planned, Whole, ActiveLegs
<1>5. Early'
  <2>1. \A n \in notices : n.amount \in Nat
    BY DEF EscrowInv, EscrowTypeOK
  <2> QED
    BY <1>1, <1>2, <2>1 DEF EscrowInv, Early
<1>6. Sent' /\ Keyed' /\ OneLives' /\ OldAreDead' /\ FailedAreDead' /\ ConfirmedArePaid' /\ Credits'
  BY <1>2, PayoutsKept
<1>7. LegsCovered'
  <2>1. \A l \in JettonLegs : InWallet(l)' = InWallet(l) /\ InWallet(l) \in Int
    BY <1>2 DEF InWallet, UnderWay, Owed, EscrowInv, EscrowTypeOK
  <2> QED
    BY <1>1, <1>2, <2>1, Constants DEF EscrowInv, LegsCovered, JettonLegs
<1> QED
  BY <1>3, <1>4, <1>5, <1>6, <1>7 DEF EscrowInv

LEMMA TickStep == ASSUME EscrowInv, Tick PROVE EscrowInv'
<1>1. /\ UNCHANGED <<status, sealed, fundedAmount, lastQueryId, settlement, wallet, inbox>>
      /\ now' \in Nat
  BY DEF Tick, EscrowInv, EscrowTypeOK
<1>2. /\ UNCHANGED <<outcome, baseMask, plan, attempt, activeMask, confirmedMask, failedMask,
                  bouncedMask, evidence, queries, held, transfers, credited, refusals>>
      /\ UNCHANGED <<notices, deposits>>
  BY <1>1 DEF settlement, base, tries, wallet, inbox
<1>3. EscrowTypeOK' /\ StorageValid' /\ Planned' /\ Early'
  BY <1>1, <1>2 DEF EscrowInv, EscrowTypeOK, StorageValid, SettlementValid, Planned, Whole, ActiveLegs, Early
<1>4. Sent' /\ Keyed' /\ OneLives' /\ OldAreDead' /\ FailedAreDead' /\ ConfirmedArePaid' /\ Credits'
  BY <1>1, <1>2, PayoutsKept
<1>5. LegsCovered'
  <2>1. \A l \in JettonLegs : InWallet(l)' = InWallet(l)
    BY <1>1, <1>2 DEF InWallet, UnderWay, Owed
  <2> QED
    BY <1>1, <1>2, <2>1 DEF EscrowInv, LegsCovered, JettonLegs
<1> QED
  BY <1>3, <1>4, <1>5 DEF EscrowInv

-----------------------------------------------------------------------------
(* The settlement                                                          *)

LEMMA LegsFinite == ASSUME NEW mask \in SUBSET JettonLegs PROVE IsFiniteSet(mask) /\ Cardinality(mask) \in Nat
<1>1. IsFiniteSet(JettonLegs)
  <2>1. IsFiniteSet({"buyer"})
    BY FS_Singleton
  <2>2. IsFiniteSet({"buyer"} \cup {"seller"})
    BY <2>1, FS_AddElement
  <2>3. IsFiniteSet(({"buyer"} \cup {"seller"}) \cup {"treasury"})
    BY <2>2, FS_AddElement
  <2>4. JettonLegs = ({"buyer"} \cup {"seller"}) \cup {"treasury"}
    BY DEF JettonLegs
  <2> QED
    BY <2>3, <2>4
<1>2. IsFiniteSet(mask)
  BY <1>1, FS_Subset
<1> QED
  BY <1>2, FS_CardinalityType

LEMMA QueriesAreNumbers ==
  ASSUME NEW mask \in SUBSET JettonLegs, NEW q \in Nat
  PROVE  LegQueries(q, mask) \in [JettonLegs -> Nat] /\ Greatest(q, mask) \in Nat
<1>1. \A l \in JettonLegs : Cardinality({m \in mask : LegOrder[m] <= LegOrder[l]}) \in Nat
  <2> SUFFICES ASSUME NEW l \in JettonLegs
               PROVE  Cardinality({m \in mask : LegOrder[m] <= LegOrder[l]}) \in Nat
    OBVIOUS
  <2>1. {m \in mask : LegOrder[m] <= LegOrder[l]} \in SUBSET JettonLegs
    OBVIOUS
  <2> QED
    BY <2>1, LegsFinite
<1>2. Cardinality(mask) \in Nat
  BY LegsFinite
<1> QED
  BY <1>1, <1>2 DEF LegQueries, Greatest

\* The messages of an attempt: one of every leg of the mask, with the amount of the plan.
LEMMA PayoutsAre ==
  ASSUME NEW n \in Nat, NEW mask \in SUBSET JettonLegs, NEW amounts \in [JettonLegs -> Nat],
         NEW ids \in [JettonLegs -> Nat]
  PROVE  /\ Payouts(n, mask, amounts, ids) \subseteq
              [attempt : Nat, leg : JettonLegs, query : Nat, amount : Nat, stage : Stages]
         /\ \A t \in Payouts(n, mask, amounts, ids) :
              /\ t.leg \in mask /\ t.amount = amounts[t.leg] /\ t.attempt = n /\ t.stage = "sent"
              /\ \A u \in Payouts(n, mask, amounts, ids) : t.leg = u.leg => t = u
  BY DEF Payouts, Stages

\* An attempt is sent of legs all of whose earlier payouts are dead.
LEMMA Dispatched ==
  ASSUME EscrowTypeOK, Keyed, OneLives, NEW n \in Nat, NEW mask \in SUBSET JettonLegs,
         NEW amounts \in [JettonLegs -> Nat], NEW q \in Nat, Dispatch(n, mask, amounts, q),
         plan' = amounts, mask \subseteq baseMask', baseMask' \subseteq JettonLegs, confirmedMask' \subseteq JettonLegs,
         outcome' \in {"release", "refund", "resolution"},
         \A t \in transfers : /\ t.attempt < n /\ t.amount = plan'[t.leg] /\ t.leg \in baseMask'
                              /\ t.leg \in mask => t.stage \in Dead,
         \A l \in confirmedMask' : Paid(l),
         \A l \in JettonLegs : credited[l] = IF Paid(l) THEN amounts[l] ELSE 0
  PROVE  /\ EscrowTypeOK' /\ Sent' /\ Keyed' /\ OneLives' /\ OldAreDead' /\ FailedAreDead'
         /\ ConfirmedArePaid' /\ Credits'
<1> DEFINE new == Payouts(n, mask, amounts, LegQueries(q, mask))
<1>1. LegQueries(q, mask) \in [JettonLegs -> Nat] /\ Greatest(q, mask) \in Nat
  BY QueriesAreNumbers
<1>2. /\ attempt' = n /\ activeMask' = mask /\ failedMask' = {} /\ bouncedMask' = {}
      /\ evidence' = FALSE /\ queries' = LegQueries(q, mask)
      /\ status' = "SETTLEMENT_PENDING" /\ lastQueryId' = Greatest(q, mask)
      /\ transfers' = transfers \cup new
      /\ UNCHANGED <<sealed, fundedAmount, now, held, credited, refusals, notices, deposits>>
  BY DEF Dispatch, ForgetBounces, inbox
<1>3. /\ new \subseteq [attempt : Nat, leg : JettonLegs, query : Nat, amount : Nat, stage : Stages]
      /\ \A t \in new :
           /\ t.leg \in mask /\ t.amount = amounts[t.leg] /\ t.attempt = n /\ t.stage = "sent"
           /\ \A u \in new : t.leg = u.leg => t = u
  BY <1>1, PayoutsAre
<1> HIDE DEF new
<1>4. EscrowTypeOK'
  BY <1>1, <1>2, <1>3 DEF EscrowTypeOK, EscrowStatuses
<1>5. \A t \in transfers : t.attempt \in Nat /\ t.attempt < n /\ t.attempt # n
  BY DEF EscrowTypeOK
<1>6. Sent' /\ FailedAreDead'
  BY <1>2, <1>3, <1>5 DEF Sent, FailedAreDead
<1>7. Keyed' /\ OneLives'
  BY <1>2, <1>3, <1>5 DEF Keyed, OneLives
<1>8. OldAreDead'
  BY <1>2, <1>3, <1>5 DEF OldAreDead
<1>9. \A l \in JettonLegs : Paid(l)' = Paid(l)
  BY <1>2, <1>3 DEF Paid
<1>10. ConfirmedArePaid' /\ Credits'
  BY <1>2, <1>9 DEF ConfirmedArePaid, Credits
<1> QED
  BY <1>4, <1>6, <1>7, <1>8, <1>10

LEMMA BeginStep ==
  ASSUME EscrowInv, NEW q \in Nat, NEW amounts \in [JettonLegs -> Nat], Whole(amounts) = BuyerTotal,
         NEW result \in {"release", "refund", "resolution"},
         status \in {"FUNDED", "DELIVERED", "DISPUTED"}, BeginSettlement(result, amounts, q)
  PROVE  EscrowInv' /\ Promise!Decide
<1> DEFINE mask == ActiveLegs(amounts)
<1>1. /\ outcome' = result /\ baseMask' = mask /\ plan' = amounts /\ confirmedMask' = {}
      /\ Dispatch(0, mask, amounts, q) /\ mask \in SUBSET JettonLegs
  BY DEF BeginSettlement, ActiveLegs
<1>2. /\ transfers = {} /\ credited = NoLegs /\ status \in Unsettled
      /\ fundedAmount = BuyerTotal /\ sealed /\ held >= BuyerTotal
  BY FundedStep DEF EscrowInv, Early, Unsettled
<1>3. mask # {}
  <2>1. amounts["buyer"] + amounts["seller"] + amounts["treasury"] = BuyerTotal
    BY DEF Whole
  <2>2. \E l \in JettonLegs : amounts[l] > 0
    BY <2>1, Constants DEF JettonLegs
  <2> QED
    BY <2>2 DEF ActiveLegs
<1>4. /\ EscrowTypeOK' /\ Sent' /\ Keyed' /\ OneLives' /\ OldAreDead' /\ FailedAreDead'
      /\ ConfirmedArePaid' /\ Credits'
  <2>1. \A l \in JettonLegs : ~Paid(l) /\ credited[l] = 0
    BY <1>2 DEF Paid, NoLegs
  <2>2. EscrowTypeOK /\ Keyed /\ OneLives
    BY DEF EscrowInv
  <2> HIDE DEF mask
  <2> QED
    BY <1>1, <1>2, <2>1, <2>2, Dispatched
<1>5. /\ status' = "SETTLEMENT_PENDING" /\ activeMask' = mask /\ failedMask' = {}
      /\ bouncedMask' = {} /\ evidence' = FALSE
      /\ UNCHANGED <<sealed, fundedAmount, held, credited>>
  BY <1>1 DEF Dispatch, ForgetBounces
<1>6. StorageValid' /\ Early' /\ Planned'
  <2> HIDE DEF mask
  <2>1. StorageValid'
    BY <1>1, <1>2, <1>3, <1>5 DEF StorageValid, SettlementValid, Unsettled, Whole
  <2>2. Early' /\ Planned'
    BY <1>1, <1>5 DEF Early, Planned, Unsettled, mask, ActiveLegs
  <2> QED
    BY <2>1, <2>2
<1>7. LegsCovered'
  <2>1. \A l \in JettonLegs : InWallet(l)' \in Int /\ InWallet(l)' <= amounts[l]
    BY <1>1, <1>2, <1>5 DEF InWallet, Owed, NoLegs, Unsettled
  <2>2. amounts["buyer"] + amounts["seller"] + amounts["treasury"] = BuyerTotal
    BY DEF Whole
  <2>3. held' >= BuyerTotal /\ held' \in Int /\ BuyerTotal \in Int
    BY <1>2, <1>5, Constants DEF EscrowInv, EscrowTypeOK
  <2> QED
    BY <1>5, <2>1, <2>2, <2>3 DEF LegsCovered, JettonLegs, Unsettled
<1>8. Promise!Decide
  BY <1>1, <1>2, <1>5 DEF Promise!Decide, Promise!DividesTotal, Promise!Payees, Phase, Unsettled,
     JettonLegs, Whole
<1> QED
  BY <1>4, <1>6, <1>7, <1>8 DEF EscrowInv

\* Whoever decides, by whatever action, the total is divided.
LEMMA EscrowDecideStep == ASSUME EscrowInv, NEW q \in Nat, Decides(q) \/ TimesOut(q) PROVE EscrowInv' /\ Promise!Decide
<1>1. ReleasePlan \in [JettonLegs -> Nat] /\ Whole(ReleasePlan) = BuyerTotal
  BY JettonAssumption, Constants DEF ReleasePlan, Whole, JettonLegs
<1>2. RefundPlan \in [JettonLegs -> Nat] /\ Whole(RefundPlan) = BuyerTotal
  BY JettonAssumption, Constants DEF RefundPlan, Whole, JettonLegs
<1>3. CASE Release(q) \/ ReleaseAfterBuyerTimeout(q)
  BY <1>1, <1>3, BeginStep DEF Release, ReleaseAfterBuyerTimeout
<1>4. CASE RefundBuyer(q) \/ RefundAfterSellerTimeout(q)
  BY <1>2, <1>4, BeginStep DEF RefundBuyer, RefundAfterSellerTimeout
<1>5. ASSUME NEW award \in Awards, Resolve(award, q) PROVE EscrowInv' /\ Promise!Decide
  <2> DEFINE amounts == [buyer |-> award, seller |-> BuyerTotal - PlatformFee - award,
                         treasury |-> PlatformFee]
  <2>1. award \in Nat /\ award + PlatformFee <= BuyerTotal
    BY <1>5, Constants DEF Resolve, FitsTotal
  <2>2. amounts \in [JettonLegs -> Nat] /\ Whole(amounts) = BuyerTotal
    BY <2>1, Constants DEF Whole, JettonLegs
  <2>3. status = "DISPUTED" /\ BeginSettlement("resolution", amounts, q)
    BY <1>5 DEF Resolve
  <2> HIDE DEF amounts
  <2> QED
    BY <2>2, <2>3, BeginStep
<1> QED
  BY <1>3, <1>4, <1>5 DEF Decides, TimesOut

LEMMA EscrowReconcileStep ==
  ASSUME EscrowInv, NEW q \in Nat, NEW confirmed \in SUBSET activeMask, NEW failed \in SUBSET activeMask,
         activeMask # {}, ReconcileAttempt(confirmed, failed, q)
  PROVE  EscrowInv' /\ UNCHANGED <<Phase, plan, credited>>
<1>1. /\ status = "SETTLEMENT_PENDING" /\ SettlementValid /\ status' \in {"SETTLEMENT_PENDING", "RECOVERY_REQUIRED"}
      /\ confirmedMask' = confirmedMask \cup confirmed
      /\ failedMask' = failed /\ activeMask' = failed /\ evidence' = TRUE /\ lastQueryId' = q
      /\ (status' = "RECOVERY_REQUIRED") = (failed # {})
      /\ confirmed \cap failed = {} /\ confirmed \cup failed = activeMask /\ bouncedMask \subseteq failed
      /\ \A l \in confirmed : Arrived(l)
      /\ \A l \in failed : CannotArrive(l)
  BY DEF ReconcileAttempt, StorageValid, Unsettled
<1>2. /\ UNCHANGED <<sealed, fundedAmount, now, outcome, baseMask, plan, attempt, bouncedMask, queries>>
      /\ UNCHANGED <<held, transfers, credited, refusals, notices, deposits>>
  BY DEF ReconcileAttempt, base, wallet, inbox
<1>3. EscrowTypeOK'
  BY <1>1, <1>2 DEF EscrowInv, EscrowTypeOK, EscrowStatuses
<1>4. StorageValid'
  BY <1>1, <1>2 DEF EscrowInv, StorageValid, SettlementValid, Unsettled, Whole
<1>5. Early' /\ Planned' /\ Sent' /\ Keyed' /\ OneLives' /\ OldAreDead'
  BY <1>1, <1>2 DEF EscrowInv, Early, Planned, Sent, Keyed, OneLives, OldAreDead, Unsettled, ActiveLegs
<1>6. FailedAreDead'
  <2> SUFFICES ASSUME NEW t \in transfers, t.leg \in failed PROVE t.stage \in Dead
    BY <1>1, <1>2 DEF FailedAreDead
  <2>1. PICK u \in transfers : u.attempt = attempt /\ u.leg = t.leg /\ u.stage \in Dead
    BY <1>1 DEF CannotArrive, Current, Dead
  <2>2. CASE t.attempt = attempt
    BY <2>1, <2>2 DEF EscrowInv, Keyed
  <2>3. CASE t.attempt # attempt
    <3>1. t.attempt < attempt
      BY <2>3 DEF EscrowInv, Sent, EscrowTypeOK
    <3> QED
      BY <1>1, <3>1 DEF EscrowInv, OldAreDead
  <2> QED
    BY <2>2, <2>3
<1>7. ConfirmedArePaid' /\ Credits'
  <2>1. \A l \in JettonLegs : Paid(l)' = Paid(l)
    BY <1>2 DEF Paid
  <2>2. \A l \in confirmedMask \cup confirmed : Paid(l)
    BY <1>1 DEF EscrowInv, ConfirmedArePaid, Paid, Arrived, Current
  <2> QED
    BY <1>1, <1>2, <2>1, <2>2 DEF EscrowInv, EscrowTypeOK, ConfirmedArePaid, Credits
<1>8. LegsCovered'
  <2>1. \A l \in JettonLegs : InWallet(l)' = InWallet(l)
    BY <1>1, <1>2 DEF InWallet, UnderWay, Owed, Unsettled
  <2> QED
    BY <1>1, <1>2, <2>1 DEF EscrowInv, LegsCovered, JettonLegs, Unsettled
<1>9. Phase' = Phase
  BY <1>1 DEF Phase, Unsettled
<1> QED
  BY <1>2, <1>3, <1>4, <1>5, <1>6, <1>7, <1>8, <1>9 DEF EscrowInv

LEMMA RetryStep ==
  ASSUME EscrowInv, NEW q \in Nat, RetryFailedLegs(q)
  PROVE  EscrowInv' /\ UNCHANGED <<Phase, plan, credited>>
<1>1. /\ status = "RECOVERY_REQUIRED" /\ SettlementValid
      /\ UNCHANGED <<outcome, baseMask, plan, confirmedMask>>
      /\ Dispatch(attempt + 1, failedMask, plan, q)
  BY DEF RetryFailedLegs, StorageValid, Unsettled, LegsToRetry, base
<1>2. /\ status' = "SETTLEMENT_PENDING" /\ activeMask' = failedMask /\ failedMask' = {}
      /\ bouncedMask' = {} /\ evidence' = FALSE
      /\ transfers' = transfers \cup Payouts(attempt + 1, failedMask, plan, LegQueries(q, failedMask))
      /\ UNCHANGED <<sealed, fundedAmount, held, credited>>
  BY <1>1 DEF Dispatch, ForgetBounces
<1>3. /\ EscrowTypeOK' /\ Sent' /\ Keyed' /\ OneLives' /\ OldAreDead' /\ FailedAreDead'
      /\ ConfirmedArePaid' /\ Credits'
  <2>1. /\ attempt \in Nat /\ failedMask \in SUBSET JettonLegs /\ plan \in [JettonLegs -> Nat] /\ baseMask \subseteq JettonLegs
        /\ confirmedMask \subseteq JettonLegs /\ EscrowTypeOK /\ Keyed /\ OneLives
    BY DEF EscrowInv, EscrowTypeOK
  <2>2. failedMask \subseteq baseMask' /\ baseMask' \subseteq JettonLegs /\ confirmedMask' \subseteq JettonLegs
        /\ outcome' \in {"release", "refund", "resolution"} /\ plan' = plan /\ attempt + 1 \in Nat
    BY <1>1, <2>1 DEF SettlementValid
  <2>3. \A t \in transfers : /\ t.attempt < attempt + 1 /\ t.amount = plan'[t.leg] /\ t.leg \in baseMask'
                             /\ t.leg \in failedMask => t.stage \in Dead
    <3>1. \A t \in transfers : t.attempt \in Nat /\ t.attempt <= attempt
      BY DEF EscrowInv, Sent, EscrowTypeOK
    <3> QED
      BY <1>1, <2>1, <3>1 DEF EscrowInv, Sent, FailedAreDead
  <2>4. /\ \A l \in confirmedMask' : Paid(l)
        /\ \A l \in JettonLegs : credited[l] = IF Paid(l) THEN plan[l] ELSE 0
    BY <1>1 DEF EscrowInv, ConfirmedArePaid, Credits
  <2> QED
    BY <1>1, <2>1, <2>2, <2>3, <2>4, Dispatched
<1>4. StorageValid' /\ Early' /\ Planned'
  BY <1>1, <1>2 DEF EscrowInv, StorageValid, SettlementValid, Unsettled, Whole, Early, Planned, ActiveLegs
<1>5. LegsCovered'
  <2>1. \A t \in Payouts(attempt + 1, failedMask, plan, LegQueries(q, failedMask)) : t.stage = "sent"
    BY DEF Payouts
  <2>2. \A l \in JettonLegs : InWallet(l)' = InWallet(l)
    BY <1>1, <1>2, <2>1 DEF InWallet, UnderWay, Owed, Unsettled
  <2> QED
    BY <1>1, <1>2, <2>2 DEF EscrowInv, LegsCovered, JettonLegs, Unsettled
<1>6. Phase' = Phase
  BY <1>1, <1>2 DEF Phase, Unsettled
<1> QED
  BY <1>1, <1>2, <1>3, <1>4, <1>5, <1>6 DEF EscrowInv

LEMMA FinalizeStep ==
  ASSUME EscrowInv, NEW q \in Nat, FinalizeSettlement(q)
  PROVE  EscrowInv' /\ Promise!Close
<1>1. /\ status = "SETTLEMENT_PENDING" /\ status' = "SETTLED_FINALIZED" /\ lastQueryId' = q
      /\ evidence /\ confirmedMask = baseMask /\ SettlementValid
      /\ UNCHANGED <<sealed, fundedAmount, now, settlement, wallet, inbox>>
  BY DEF FinalizeSettlement, AllConfirmed, StorageValid, Unsettled
<1>2. /\ UNCHANGED <<outcome, baseMask, plan, attempt, activeMask, confirmedMask, failedMask,
                  bouncedMask, evidence, queries, held, transfers, credited, refusals>>
      /\ UNCHANGED <<notices, deposits>>
  BY <1>1 DEF settlement, base, tries, wallet, inbox
<1>3. EscrowTypeOK' /\ StorageValid' /\ Early' /\ Planned'
  <2>1. EscrowTypeOK'
    BY <1>1, <1>2 DEF EscrowInv, EscrowTypeOK, EscrowStatuses
  <2>2. StorageValid'
    BY <1>1, <1>2 DEF EscrowInv, StorageValid, SettlementValid, Unsettled, Whole
  <2> QED
    BY <1>1, <1>2, <2>1, <2>2 DEF EscrowInv, Early, Planned, Unsettled, ActiveLegs
<1>4. Sent' /\ Keyed' /\ OneLives' /\ OldAreDead' /\ FailedAreDead' /\ ConfirmedArePaid' /\ Credits'
  BY <1>1, <1>2, PayoutsKept
<1>5. LegsCovered'
  <2>1. \A l \in JettonLegs : InWallet(l)' = InWallet(l)
    BY <1>1, <1>2 DEF InWallet, UnderWay, Owed, Unsettled
  <2> QED
    BY <1>1, <1>2, <2>1 DEF EscrowInv, LegsCovered, JettonLegs, Unsettled
<1>6. credited = plan
  <2>1. credited \in [JettonLegs -> Nat] /\ plan \in [JettonLegs -> Nat]
    BY DEF EscrowInv, EscrowTypeOK
  <2>2. ASSUME NEW l \in JettonLegs PROVE credited[l] = plan[l]
    <3>1. CASE l \in confirmedMask
      BY <3>1 DEF EscrowInv, ConfirmedArePaid, Credits
    <3>2. CASE l \notin confirmedMask
      <4>1. plan[l] = 0
        BY <1>1, <2>1, <3>2 DEF EscrowInv, Planned, ActiveLegs, Unsettled
      <4> QED
        BY <4>1 DEF EscrowInv, Credits
    <3> QED
      BY <3>1, <3>2
  <2> QED
    BY <2>1, <2>2
<1>7. Promise!Close
  BY <1>1, <1>2, <1>6 DEF Promise!Close, Phase, Unsettled
<1> QED
  BY <1>3, <1>4, <1>5, <1>7 DEF EscrowInv

-----------------------------------------------------------------------------
(* The wallet                                                              *)

\* A payout that is not credited goes on to a stage that is not "credited", and what is dead
\* stays dead.
LEMMA Becoming ==
  ASSUME EscrowInv, NEW t \in transfers, NEW stage \in Stages, Becomes(t, stage),
         t.stage \in Dead => stage \in Dead,
         UNCHANGED <<status, plan, attempt, baseMask, activeMask, failedMask>>
  PROVE  /\ transfers' \subseteq [attempt : Nat, leg : JettonLegs, query : Nat, amount : Nat, stage : Stages]
         /\ Sent' /\ Keyed' /\ OneLives' /\ OldAreDead' /\ FailedAreDead'
         /\ \A l \in JettonLegs : l # t.leg => Paid(l)' = Paid(l) /\ UnderWay(l)' = UnderWay(l)
         /\ t.stage # "credited" /\ stage # "credited" => Paid(t.leg)' = Paid(t.leg)
         /\ stage = "credited" => Paid(t.leg)'
         /\ stage = "accepted" => UnderWay(t.leg)'
         /\ t.stage \notin Dead /\ stage # "accepted" => ~UnderWay(t.leg)'
         /\ t.stage # "accepted" /\ stage # "accepted" => UnderWay(t.leg)' = UnderWay(t.leg)
<1> DEFINE u == [t EXCEPT !.stage = stage]
<1>1. t \in [attempt : Nat, leg : JettonLegs, query : Nat, amount : Nat, stage : Stages]
  BY DEF EscrowInv, EscrowTypeOK
<1>2. /\ u \in [attempt : Nat, leg : JettonLegs, query : Nat, amount : Nat, stage : Stages]
      /\ u.stage = stage /\ u.leg = t.leg /\ u.attempt = t.attempt /\ u.amount = t.amount
  BY <1>1
<1>3. transfers' = (transfers \ {t}) \cup {u}
  BY DEF Becomes
<1> HIDE DEF u
<1>4. transfers' \subseteq [attempt : Nat, leg : JettonLegs, query : Nat, amount : Nat, stage : Stages]
  BY <1>2, <1>3 DEF EscrowInv, EscrowTypeOK
<1>5. Sent' /\ Keyed' /\ OldAreDead' /\ FailedAreDead'
  BY <1>2, <1>3 DEF EscrowInv, Sent, Keyed, OldAreDead, FailedAreDead
<1>6. OneLives'
  BY <1>2, <1>3 DEF EscrowInv, OneLives
<1>7. \A l \in JettonLegs : l # t.leg => Paid(l)' = Paid(l) /\ UnderWay(l)' = UnderWay(l)
  BY <1>2, <1>3 DEF Paid, UnderWay
<1>8. t.stage # "credited" /\ stage # "credited" => Paid(t.leg)' = Paid(t.leg)
  BY <1>2, <1>3 DEF Paid
<1>9. stage = "credited" => Paid(t.leg)'
  <2>1. u \in transfers' /\ (t.leg)' = t.leg
    BY <1>3
  <2> QED
    BY <1>2, <2>1 DEF Paid
<1>10. stage = "accepted" => UnderWay(t.leg)'
  BY <1>2, <1>3 DEF UnderWay
<1>11. t.stage \notin Dead /\ stage # "accepted" => ~UnderWay(t.leg)'
  BY <1>2, <1>3 DEF UnderWay, EscrowInv, OneLives, Dead
<1>12. t.stage # "accepted" /\ stage # "accepted" => UnderWay(t.leg)' = UnderWay(t.leg)
  BY <1>2, <1>3 DEF UnderWay
<1> QED
  BY <1>4, <1>5, <1>6, <1>7, <1>8, <1>9, <1>10, <1>11, <1>12

\* The sum over the legs, when one of them changes along with the wallet.
LEMMA CoveredKept ==
  ASSUME EscrowInv, NEW k \in JettonLegs, status \notin Unsettled, status' = status, held' \in Nat,
         \A l \in JettonLegs : l # k => InWallet(l)' = InWallet(l),
         \A l \in JettonLegs : InWallet(l) \in Int /\ InWallet(l)' \in Int,
         held' - InWallet(k)' >= held - InWallet(k)
  PROVE  LegsCovered'
<1>1. held \in Nat /\ held >= InWallet("buyer") + InWallet("seller") + InWallet("treasury")
  BY DEF EscrowInv, EscrowTypeOK, LegsCovered
<1>2. InWallet("buyer") \in Int /\ InWallet("seller") \in Int /\ InWallet("treasury") \in Int
  BY DEF JettonLegs
<1>3. InWallet("buyer")' \in Int /\ InWallet("seller")' \in Int /\ InWallet("treasury")' \in Int
  BY DEF JettonLegs
<1>4. held' >= InWallet("buyer")' + InWallet("seller")' + InWallet("treasury")'
  <2>1. CASE k = "buyer"
    <3>1. InWallet("seller")' = InWallet("seller") /\ InWallet("treasury")' = InWallet("treasury")
      BY <2>1 DEF JettonLegs
    <3> QED
      BY <1>1, <1>2, <1>3, <2>1, <3>1
  <2>2. CASE k = "seller"
    <3>1. InWallet("buyer")' = InWallet("buyer") /\ InWallet("treasury")' = InWallet("treasury")
      BY <2>2 DEF JettonLegs
    <3> QED
      BY <1>1, <1>2, <1>3, <2>2, <3>1
  <2>3. CASE k = "treasury"
    <3>1. InWallet("buyer")' = InWallet("buyer") /\ InWallet("seller")' = InWallet("seller")
      BY <2>3 DEF JettonLegs
    <3> QED
      BY <1>1, <1>2, <1>3, <2>3, <3>1
  <2> QED
    BY <2>1, <2>2, <2>3 DEF JettonLegs
<1> QED
  BY <1>4 DEF LegsCovered, Unsettled

\* A payout exists only after the decision, and there is at most one to be credited of a leg.
LEMMA PayoutOf ==
  ASSUME EscrowInv, NEW t \in transfers
  PROVE  /\ status \notin Unsettled /\ t.leg \in JettonLegs /\ t.amount = plan[t.leg]
         /\ t.amount \in Nat /\ t.amount > 0 /\ t.stage \in Stages
         /\ t.stage \notin Dead =>
              \A u \in transfers : u # t /\ u.leg = t.leg => u.stage \in Dead
<1>1. t \in [attempt : Nat, leg : JettonLegs, query : Nat, amount : Nat, stage : Stages]
  BY DEF EscrowInv, EscrowTypeOK
<1>2. status \notin Unsettled
  BY DEF EscrowInv, Early
<1>3. plan[t.leg] > 0 /\ t.amount = plan[t.leg]
  BY <1>2 DEF EscrowInv, Planned, Sent, ActiveLegs
<1> QED
  BY <1>1, <1>2, <1>3 DEF EscrowInv, OneLives

\* All that a step of the wallet leaves alone.
LEMMA WalletFrame ==
  ASSUME EscrowInv, NEW t \in transfers, NEW stage \in Stages, Becomes(t, stage),
         t.stage \in Dead => stage \in Dead, t.stage # "credited",
         UNCHANGED <<status, sealed, fundedAmount, lastQueryId, now, outcome, baseMask, plan, attempt,
                     activeMask, confirmedMask, failedMask, evidence, queries, notices, deposits>>,
         bouncedMask' = bouncedMask \/ (status = "SETTLEMENT_PENDING" /\ bouncedMask' = bouncedMask \cup {t.leg} /\ t.leg \in activeMask),
         held' \in Nat, refusals' \in Nat,
         \/ credited' = credited /\ stage # "credited"
         \/ credited' = [credited EXCEPT ![t.leg] = t.amount] /\ stage = "credited",
         held' - InWallet(t.leg)' >= held - InWallet(t.leg)
  PROVE  EscrowInv' /\ Phase' = Phase /\ plan' = plan
<1>1. /\ status \notin Unsettled /\ t.leg \in JettonLegs /\ t.amount = plan[t.leg] /\ t.amount \in Nat
  BY PayoutOf
<1>2. credited' \in [JettonLegs -> Nat]
  BY <1>1 DEF EscrowInv, EscrowTypeOK
<1>3. EscrowTypeOK'
  <2>1. transfers' \subseteq [attempt : Nat, leg : JettonLegs, query : Nat, amount : Nat, stage : Stages]
    BY Becoming
  <2>2. bouncedMask' \subseteq JettonLegs
    BY <1>1 DEF EscrowInv, EscrowTypeOK
  <2> QED
    BY <1>2, <2>1, <2>2 DEF EscrowInv, EscrowTypeOK
<1>4. StorageValid' /\ Early' /\ Planned'
  BY <1>1 DEF EscrowInv, StorageValid, SettlementValid, Early, Planned, Unsettled, Whole, ActiveLegs
<1>5. Sent' /\ Keyed' /\ OneLives' /\ OldAreDead' /\ FailedAreDead'
  BY Becoming
<1>6. \A l \in JettonLegs : l # t.leg => Paid(l)' = Paid(l) /\ UnderWay(l)' = UnderWay(l)
  BY Becoming
<1>7. Paid(t.leg)' = IF stage = "credited" THEN TRUE ELSE Paid(t.leg)
  BY Becoming
<1>8. ConfirmedArePaid' /\ Credits'
  <2>1. confirmedMask \subseteq JettonLegs
    BY DEF EscrowInv, EscrowTypeOK
  <2>2. ConfirmedArePaid'
    <3>1. ASSUME NEW l \in JettonLegs, Paid(l) PROVE Paid(l)'
      <4>1. CASE l = t.leg
        BY <1>7, <3>1, <4>1
      <4>2. CASE l # t.leg
        BY <1>6, <3>1, <4>2
      <4> QED
        BY <4>1, <4>2
    <3> QED
      BY <2>1, <3>1 DEF EscrowInv, ConfirmedArePaid
  <2>3. Credits'
    <3>1. ASSUME NEW l \in JettonLegs, l # t.leg
          PROVE  credited'[l] = IF Paid(l)' THEN plan'[l] ELSE 0
      BY <1>6, <3>1 DEF EscrowInv, Credits, EscrowTypeOK
    <3>2. credited'[t.leg] = IF Paid(t.leg)' THEN plan'[t.leg] ELSE 0
      BY <1>1, <1>7 DEF EscrowInv, Credits, EscrowTypeOK
    <3> QED
      BY <3>1, <3>2 DEF Credits
  <2> QED
    BY <2>2, <2>3
<1>9. LegsCovered'
  <2>1. \A l \in JettonLegs : InWallet(l) \in Int /\ InWallet(l)' \in Int
    BY <1>3 DEF EscrowInv, EscrowTypeOK, InWallet, Owed
  <2>2. ASSUME NEW l \in JettonLegs, l # t.leg PROVE InWallet(l)' = InWallet(l)
    <3>1. credited'[l] = credited[l]
      BY <2>2 DEF EscrowInv, EscrowTypeOK
    <3> QED
      BY <1>6, <2>2, <3>1 DEF InWallet, Owed
  <2> QED
    BY <1>1, <2>1, <2>2, CoveredKept
<1> QED
  BY <1>3, <1>4, <1>5, <1>8, <1>9 DEF EscrowInv, Phase, Unsettled

LEMMA DeliversStep ==
  ASSUME EscrowInv, NEW t \in transfers, Delivers(t)
  PROVE  /\ EscrowInv' /\ Phase' = Phase /\ plan' = plan
         /\ credited' = credited \/ Promise!Credit(t.leg)
<1>1. /\ status \notin Unsettled /\ t.leg \in JettonLegs /\ t.amount = plan[t.leg] /\ t.amount \in Nat
      /\ t.stage \notin Dead => \A u \in transfers : u # t /\ u.leg = t.leg => u.stage \in Dead
      /\ held \in Nat /\ refusals \in Nat /\ t.amount > 0
  BY PayoutOf DEF EscrowInv, EscrowTypeOK
<1> DEFINE Rest == UNCHANGED <<status, sealed, fundedAmount, lastQueryId, now, outcome, baseMask,
                     plan, attempt, activeMask, confirmedMask, failedMask, evidence, queries,
                     notices, deposits>>
<1>2. NotTheEscrow => Rest /\ bouncedMask' = bouncedMask
  BY DEF NotTheEscrow, settlement, base, tries, inbox
<1>3. t.stage \in {"sent", "accepted"} => ~Paid(t.leg) /\ credited[t.leg] = 0
  <2>1. t.stage \in {"sent", "accepted"} => ~Paid(t.leg)
    BY <1>1 DEF Paid, Dead
  <2> QED
    BY <1>1, <2>1 DEF EscrowInv, Credits
<1>4. t.stage = "sent" => ~UnderWay(t.leg) /\ InWallet(t.leg) = t.amount
  <2>1. t.stage = "sent" => ~UnderWay(t.leg)
    BY <1>1 DEF UnderWay, Dead
  <2> QED
    BY <1>1, <1>3, <2>1 DEF InWallet, Owed
<1>5. t.stage = "accepted" => UnderWay(t.leg) /\ InWallet(t.leg) = 0
  BY DEF UnderWay, InWallet
<1>6. CASE WalletAccepts(t)
  <2>1. /\ t.stage = "sent" /\ Becomes(t, "accepted") /\ held' = held - t.amount /\ held' \in Nat
        /\ UNCHANGED <<credited, refusals>> /\ Rest /\ bouncedMask' = bouncedMask
    BY <1>1, <1>2, <1>6 DEF WalletAccepts
  <2>2. UnderWay(t.leg)'
    BY <2>1, Becoming DEF Stages, Dead
  <2>3. InWallet(t.leg)' = 0
    BY <2>2 DEF InWallet
  <2>4. held' - InWallet(t.leg)' >= held - InWallet(t.leg)
    BY <1>1, <1>4, <2>1, <2>3
  <2> QED
    BY <1>1, <2>1, <2>4, WalletFrame DEF Stages, Dead
<1>7. CASE WalletRefuses(t)
  <2>1. /\ t.stage = "sent" /\ Becomes(t, "refused") /\ refusals' \in Nat
        /\ UNCHANGED <<credited, held>> /\ Rest /\ bouncedMask' = bouncedMask
    BY <1>1, <1>2, <1>7 DEF WalletRefuses
  <2>2. ~UnderWay(t.leg)'
    BY <2>1, Becoming DEF Stages, Dead
  <2>3. InWallet(t.leg)' = t.amount
    BY <1>1, <1>3, <2>1, <2>2 DEF InWallet, Owed
  <2>4. held' - InWallet(t.leg)' >= held - InWallet(t.leg)
    BY <1>1, <1>4, <2>1, <2>3
  <2> QED
    BY <1>1, <2>1, <2>4, WalletFrame DEF Stages, Dead
<1>8. CASE PayeeCredited(t)
  <2>1. /\ t.stage = "accepted" /\ Becomes(t, "credited") /\ UNCHANGED <<held, refusals>> /\ Rest
        /\ bouncedMask' = bouncedMask /\ credited' = [credited EXCEPT ![t.leg] = @ + t.amount]
    BY <1>2, <1>8 DEF PayeeCredited
  <2>2. credited' = [credited EXCEPT ![t.leg] = t.amount] /\ credited'[t.leg] = t.amount
    <3>1. credited[t.leg] + t.amount = t.amount /\ credited \in [JettonLegs -> Nat]
      BY <1>1, <1>3, <2>1 DEF EscrowInv, EscrowTypeOK
    <3> QED
      BY <1>1, <2>1, <3>1
  <2>3. ~UnderWay(t.leg)'
    BY <2>1, Becoming DEF Stages, Dead
  <2>4. InWallet(t.leg)' = 0
    BY <1>1, <2>1, <2>2, <2>3 DEF InWallet, Owed
  <2>5. held' - InWallet(t.leg)' >= held - InWallet(t.leg)
    BY <1>1, <1>5, <2>1, <2>4
  <2>6. EscrowInv' /\ Phase' = Phase /\ plan' = plan
    BY <1>1, <2>1, <2>2, <2>5, WalletFrame DEF Stages, Dead
  <2>7. Phase = "decided"
    <3>1. status # "SETTLED_FINALIZED"
      <4> SUFFICES ASSUME status = "SETTLED_FINALIZED" PROVE FALSE
        OBVIOUS
      <4>1. t.leg \in confirmedMask
        BY DEF EscrowInv, Sent, StorageValid, SettlementValid, Unsettled
      <4> QED
        BY <1>3, <2>1, <4>1 DEF EscrowInv, ConfirmedArePaid
    <3> QED
      BY <1>1, <3>1 DEF Phase, EscrowInv, EscrowTypeOK, EscrowStatuses, Unsettled
  <2>8. Promise!Credit(t.leg)
    BY <1>1, <1>3, <2>1, <2>2, <2>6, <2>7 DEF Promise!Credit
  <2> QED
    BY <2>6, <2>8
<1>9. CASE PayoutReturns(t)
  <2>1. /\ t.stage = "accepted" /\ Becomes(t, "returned") /\ refusals' \in Nat /\ Rest
        /\ bouncedMask' = bouncedMask /\ held' = held + t.amount /\ held' \in Nat /\ credited' = credited
    BY <1>1, <1>2, <1>9 DEF PayoutReturns
  <2>2. ~UnderWay(t.leg)'
    BY <2>1, Becoming DEF Stages, Dead
  <2>3. InWallet(t.leg)' = t.amount
    BY <1>1, <1>3, <2>1, <2>2 DEF InWallet, Owed
  <2>4. held' - InWallet(t.leg)' >= held - InWallet(t.leg)
    BY <1>1, <1>5, <2>1, <2>3
  <2> QED
    BY <1>1, <2>1, <2>4, WalletFrame DEF Stages, Dead
<1>10. CASE BounceArrives(t)
  <2>1. /\ t.stage = "refused" /\ Becomes(t, "bounced") /\ UNCHANGED <<held, credited, refusals>>
        /\ bouncedMask' = bouncedMask
           \/ (status = "SETTLEMENT_PENDING" /\ bouncedMask' = bouncedMask \cup {t.leg} /\ t.leg \in activeMask)
        /\ Rest
    BY <1>10 DEF BounceArrives, BounceMatches, base, inbox
  <2>2. UnderWay(t.leg)' = UnderWay(t.leg)
    BY <2>1, Becoming DEF Stages, Dead
  <2>3. InWallet(t.leg)' = InWallet(t.leg) /\ InWallet(t.leg) \in Int
    BY <1>1, <2>1, <2>2 DEF InWallet, Owed, EscrowInv, EscrowTypeOK
  <2>4. held' - InWallet(t.leg)' >= held - InWallet(t.leg)
    BY <1>1, <2>1, <2>3
  <2> QED
    BY <1>1, <2>1, <2>4, WalletFrame DEF Stages, Dead
<1> QED
  BY <1>6, <1>7, <1>8, <1>9, <1>10 DEF Delivers

-----------------------------------------------------------------------------
(* Results                                                                 *)

\* One step, for the invariant and for the plan.
LEMMA OneStep == ASSUME EscrowInv, [EscrowNext]_escrowVars PROVE EscrowInv' /\ [Promise!PlanNext]_(Promise!planVars)
<1>1. ASSUME Phase' = Phase, plan' = plan, credited' = credited PROVE UNCHANGED Promise!planVars
  BY <1>1 DEF Promise!planVars
<1>2. (status' = status \/ (status \in Unsettled /\ status' \in Unsettled)) => Phase' = Phase
  <2>1. CASE status' = status
    BY <2>1 DEF Phase, Unsettled
  <2>2. CASE status \in Unsettled /\ status' \in Unsettled
    <3>1. Phase = "open"
      BY <2>2 DEF Phase, Unsettled
    <3>2. Phase' = "open"
      BY <2>2 DEF Phase, Unsettled
    <3> QED
      BY <3>1, <3>2
  <2> QED
    BY <2>1, <2>2
<1>3. \A q \in NextQueries : q \in Nat
  <2>1. lastQueryId \in Nat
    BY DEF EscrowInv, EscrowTypeOK
  <2>2. Leaps \subseteq Nat
    BY Constants
  <2> QED
    BY <2>1, <2>2 DEF NextQueries
<1>4. ASSUME NEW q \in Nat, SealCanonicalWallet(q) \/ MarkDelivered(q) \/ OpenDispute(q)
      PROVE  EscrowInv' /\ UNCHANGED Promise!planVars
  <2>1. EscrowInv'
    BY <1>4, SealStep, MovesStep
  <2>2. UNCHANGED <<plan, credited>> /\ (status' = status \/ (status \in Unsettled /\ status' \in Unsettled))
    BY <1>4 DEF SealCanonicalWallet, MarkDelivered, OpenDispute, Moves, settlement, base, wallet, Unsettled
  <2> QED
    BY <1>1, <1>2, <2>1, <2>2
<1>5. ASSUME NEW q \in Nat, Decides(q) \/ TimesOut(q) PROVE EscrowInv' /\ Promise!Decide
  BY <1>5, EscrowDecideStep
<1>6. ASSUME NEW q \in Nat, Reconciles(q) PROVE EscrowInv' /\ [Promise!PlanNext]_(Promise!planVars)
  BY <1>1, <1>6, EscrowReconcileStep, RetryStep, FinalizeStep DEF Reconciles, Promise!PlanNext
<1>7. ASSUME NEW amount \in Deposits, NEW committed \in BOOLEAN, Deposit(amount, committed)
      PROVE  EscrowInv' /\ UNCHANGED Promise!planVars
  <2>1. EscrowInv'
    BY <1>7, DepositStep, Constants
  <2>2. UNCHANGED <<plan, credited, status>>
    BY <1>7 DEF Deposit, settlement, base
  <2> QED
    BY <1>1, <1>2, <2>1, <2>2
<1>8. ASSUME NEW n \in notices, TransferNotification(n) PROVE EscrowInv' /\ UNCHANGED Promise!planVars
  <2>1. EscrowInv'
    BY <1>8, NotificationStep
  <2>2. UNCHANGED <<plan, credited>> /\ (status' = status \/ (status \in Unsettled /\ status' \in Unsettled))
    BY <1>8 DEF TransferNotification, Authentic, settlement, base, wallet, Unsettled
  <2> QED
    BY <1>1, <1>2, <2>1, <2>2
<1>9. ASSUME NEW t \in transfers, Delivers(t) PROVE EscrowInv' /\ [Promise!PlanNext]_(Promise!planVars)
  <2>1. t.leg \in Promise!Payees
    BY PayoutOf DEF Promise!Payees, JettonLegs
  <2> QED
    BY <1>1, <1>9, <2>1, DeliversStep DEF Promise!PlanNext
<1>10. ASSUME Tick \/ UNCHANGED escrowVars PROVE UNCHANGED <<status, settlement, wallet, sealed, fundedAmount, lastQueryId, inbox>>
  BY <1>10 DEF Tick, escrowVars
<1>11. CASE Tick
  <2>1. UNCHANGED <<plan, credited, status>>
    BY <1>10, <1>11 DEF settlement, base, wallet
  <2> QED
    BY <1>1, <1>2, <1>11, <2>1, TickStep
<1>12. CASE UNCHANGED escrowVars
  <2>1. UNCHANGED <<now, settlement, wallet, deposits>> /\ UNCHANGED <<status, sealed, fundedAmount, lastQueryId, notices>>
    BY <1>12 DEF escrowVars, inbox
  <2>2. EscrowInv'
    BY <2>1, UnsettledStep DEF EscrowInv, EscrowTypeOK
  <2>3. UNCHANGED <<plan, credited, status>>
    BY <2>1 DEF settlement, base, wallet
  <2> QED
    BY <1>1, <1>2, <2>2, <2>3
<1>13. CASE EscrowNext
  <2>1. ASSUME NEW q \in NextQueries,
               \/ SealCanonicalWallet(q) \/ MarkDelivered(q) \/ OpenDispute(q)
               \/ Decides(q) \/ TimesOut(q) \/ Reconciles(q)
        PROVE  EscrowInv' /\ [Promise!PlanNext]_(Promise!planVars)
    <3>1. q \in Nat
      BY <1>3
    <3>2. CASE SealCanonicalWallet(q) \/ MarkDelivered(q) \/ OpenDispute(q)
      BY <1>4, <3>1, <3>2
    <3>3. CASE Decides(q) \/ TimesOut(q)
      BY <1>5, <3>1, <3>3 DEF Promise!PlanNext
    <3>4. CASE Reconciles(q)
      BY <1>6, <3>1, <3>4
    <3> QED
      BY <2>1, <3>2, <3>3, <3>4
  <2> QED
    BY <1>7, <1>8, <1>9, <1>11, <1>13, <2>1 DEF EscrowNext
<1> QED
  BY <1>12, <1>13

LEMMA EscrowInvariance == EscrowSpec => []EscrowInv
<1>1. EscrowInv /\ [EscrowNext]_escrowVars => EscrowInv'
  BY OneStep
<1> QED
  BY <1>1, EscrowInitInv, PTL DEF EscrowSpec

\* NeverBricked: no sequence of calls, bounces and reports leads to a storage that the contract's
\* own check refuses.
THEOREM StorageStaysValid == EscrowSpec => []NeverBricked
<1>1. EscrowInv => NeverBricked
  BY DEF EscrowInv, NeverBricked
<1> QED
  BY <1>1, EscrowInvariance, PTL

\* LegsCovered: what the contract still owes is in its wallet or on its way, however often a leg
\* is refused, comes back and is sent again.
THEOREM LegsAreCovered == EscrowSpec => []LegsCovered
<1>1. EscrowInv => LegsCovered
  BY DEF EscrowInv
<1> QED
  BY <1>1, EscrowInvariance, PTL

\* The masks, the queries and the payouts are of their types.
THEOREM EscrowTyped == EscrowSpec => []EscrowTypeOK
<1>1. EscrowInv => EscrowTypeOK
  BY DEF EscrowInv
<1> QED
  BY <1>1, EscrowInvariance, PTL

LEMMA PlanBegins == EscrowInit => Promise!PlanInit
  BY DEF EscrowInit, Promise!PlanInit, Promise!Nothing, Promise!Payees, Phase, Unsettled, NoLegs, JettonLegs

\* PlanSpec: one division of the total, each part paid at most once whatever bounces, returns and
\* is sent again, and the deal closed only when everybody has been paid.
THEOREM ImplementsPlan == EscrowSpec => PlanSpec
<1>1. EscrowInv /\ [EscrowNext]_escrowVars => [Promise!PlanNext]_(Promise!planVars)
  BY OneStep
<1> QED
  BY <1>1, PlanBegins, EscrowInvariance, PTL DEF EscrowSpec, PlanSpec, Promise!PlanSpec
====
