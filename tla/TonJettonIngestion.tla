---- MODULE TonJettonIngestion ----
(***************************************************************************)
(* How the backend follows jetton escrows: a deal is prepared in versions, *)
(* each an escrow contract of its own with a watch; finalized transactions *)
(* are appended as events; workers apply the events to ledger, deal,       *)
(* intents and watch in one database transaction each.                     *)
(* deal/ton-jetton-{preparation,action-intent,durable-ingestion,           *)
(* transactional-application,ledger-reconciliation}.service.ts and the     *)
(* circuit breaker they ask, safety/settlement-circuit-breaker.service.ts. *)
(*                                                                         *)
(* The rows of the database are locked as PostgreSQL does: a writer waits  *)
(* for a row, a cycle of waits ends with one of the transactions aborted,  *)
(* and a row is read as it is once it is locked.  An event is named by its *)
(* place in `events`.                                                      *)
(***************************************************************************)
EXTENDS Integers, Sequences, FiniteSets, DealStatus

CONSTANTS
  Workers,           \* processes that apply events
  Preparers,         \* requests that prepare the deal
  Legs,              \* the payouts of a settlement
  Outcomes,          \* how an escrow may be settled
  MaxApplyFailures,  \* 3 by default
  MaxVersions,       \* bound: preparations of the deal
  MaxEvents,         \* bound: finalized transactions
  MaxTroubles        \* bound: crashes, lost connections, bad evidence, and what people do

ASSUME IngestionAssumption ==
  /\ Workers \cap Preparers = {}
  /\ IsFiniteSet(Legs) /\ "none" \notin Legs
  /\ Outcomes \subseteq {"release", "refund", "resolution"}
  /\ MaxApplyFailures \in Nat \ {0}
  /\ {MaxVersions, MaxEvents, MaxTroubles} \subseteq Nat

VARIABLES
  escrow,    \* the contracts: [status, outcome, due], by version
  events,    \* tonJettonChainEvent, in the order appended
  apps,      \* tonJettonEventApplication, by event: [status, attempts]
  queue,     \* the PENDING ones by updatedAt
  deal,      \* [status, funded, version]: the deal and its last preparation
  saves,     \* [status, funded]: rows of the deal that requests are about to save
  watch,     \* status of the watch of each version
  intents,   \* <<version, action>> that can have been prepared for signing
  consumed,  \* the events that consumed their intent
  ledger,    \* the events that have an entry
  breaker,   \* whether the TON or the global breaker has tripped
  jobs,      \* the transactions of the workers: [pc, at, seen, stop]
  prepares,  \* the preparers that hold the row of the deal
  troubles   \* how much has gone wrong

books == <<consumed, ledger>>
chainvars == <<escrow, events>>
vars == <<escrow, events, apps, queue, deal, saves, watch, intents, consumed, ledger, breaker, jobs,
          prepares, troubles>>

Versions == 1..MaxVersions
Ids == 1..Len(events)

Before == [fund |-> {"AWAITING_FUNDING"}, deliver |-> {"FUNDED"}, dispute |-> {"FUNDED", "DELIVERED"},
           start |-> {"FUNDED", "DELIVERED", "DISPUTED"},
           leg |-> {"SETTLEMENT_PENDING", "RECOVERY_REQUIRED"},
           recovery |-> {"SETTLEMENT_PENDING"}, final |-> {"SETTLEMENT_PENDING"}]
Kinds == DOMAIN Before

WatchBefore(kind) == Before[kind]
WatchAfter == [fund |-> "FUNDED", deliver |-> "DELIVERED", dispute |-> "DISPUTED",
               start |-> "SETTLEMENT_PENDING", leg |-> "SETTLEMENT_PENDING",
               recovery |-> "RECOVERY_REQUIRED", final |-> "SETTLED_FINALIZED"]

\* The status of a watch in which the settlement of an outcome may be asked for.
StartBefore == [release |-> {"DELIVERED"}, refund |-> {"FUNDED", "DELIVERED"},
                resolution |-> {"DISPUTED"}]
Settled == [release |-> "COMPLETED", refund |-> "REFUNDED", resolution |-> "DISPUTE_RESOLVED"]

NeedsIntent == {"deliver", "dispute", "start", "final"}
IntentActions == {"deliver", "dispute", "final"} \union Outcomes
Unasked == [status |-> "AWAITING_FUNDING", outcome |-> "none", due |-> {}]
Resting == [pc |-> "idle", at |-> 0, seen |-> "NONE", stop |-> FALSE]

Init ==
  /\ escrow = [v \in Versions |-> Unasked]
  /\ events = <<>> /\ apps = <<>> /\ queue = <<>>
  /\ deal = [status |-> "PENDING_PAYMENT", funded |-> FALSE, version |-> 0]
  /\ saves = {}
  /\ watch = [v \in Versions |-> "NONE"]
  /\ intents = {} /\ consumed = {} /\ ledger = {}
  /\ breaker = FALSE
  /\ jobs = [w \in Workers |-> Resting]
  /\ prepares = {}
  /\ troubles = 0

Trouble == troubles < MaxTroubles /\ troubles' = troubles + 1

----
\* Who holds which row.  A worker locks its application, then the preparation and its watch,
\* then the deal; a preparer the deal, then the preparation and its watch.

VersionOf(e) == events[e].version
Claimed(e) == \E w \in Workers : jobs[w].at = e /\ jobs[w].pc # "failed"
Holds(w, v) ==
  /\ jobs[w].pc \in {"locked", "decided"}
  /\ VersionOf(jobs[w].at) = v

\* Slip: neither lock is taken on the preparation that a worker is busy with.
PreparationFree_Unlocked(v) == TRUE

PreparationFree(v) == \A w \in Workers : ~Holds(w, v)
DealFree == prepares = {} /\ \A w \in Workers : jobs[w].pc # "decided"

----
\* The world: an escrow executes a transaction, which is finalized and appended.

\* An event is `sound` if its proof and its sources agree, and `intended` if it carries the
\* intent that was prepared for it, and not a call that the backend knows nothing of.
AppendEvent(event) ==
  /\ Len(events) < MaxEvents
  /\ IF event.sound /\ (event.kind \in NeedsIntent => event.intended)
     THEN UNCHANGED troubles ELSE Trouble
  /\ events' = Append(events, event)
  /\ apps' = Append(apps, [status |-> "PENDING", attempts |-> 0])
  /\ queue' = Append(queue, Len(events) + 1)
  /\ UNCHANGED <<deal, saves, watch, intents, books, breaker, jobs, prepares>>

Transact(v, kind, outcome, leg, intended, sound) ==
  LET e == escrow[v]
      after == [status |-> WatchAfter[kind], outcome |-> outcome,
                due |-> IF kind = "start" THEN Legs ELSE e.due \ {leg}] IN
  /\ v <= deal.version /\ e.status \in Before[kind]
  /\ IF kind = "start" THEN outcome \in Outcomes /\ e.status \in StartBefore[outcome]
     ELSE outcome = e.outcome
  /\ IF kind = "leg" THEN leg \in e.due ELSE leg = "none"
  /\ kind = "recovery" => e.due # {}
  /\ kind = "final" => e.due = {}
  /\ intended => kind \in NeedsIntent /\ <<v, IF kind = "start" THEN outcome ELSE kind>> \in intents
  /\ escrow' = [escrow EXCEPT ![v] = after]
  /\ AppendEvent([version |-> v, kind |-> kind, outcome |-> outcome, leg |-> leg,
                  intended |-> intended, sound |-> sound])

\* cancel, markShipped, confirmReceipt and openDispute know nothing of a jetton escrow: they
\* read the row of the deal without a lock, and check what they have read ...
Move(status) ==
  /\ status \in {"CANCELLED", "PENDING_CONFIRMATION", "COMPLETED", "DISPUTED"}
  /\ CanTransition(deal.status, status)
  /\ Trouble
  /\ saves' = saves \union {[status |-> status, funded |-> deal.funded]}
  /\ UNCHANGED <<chainvars, apps, queue, deal, watch, intents, books, breaker, jobs, prepares>>

\* ... and save what differs from the row: whether it is funded, too, if the funding has been
\* written by the time save() compares the two.
SaveMove(row) ==
  /\ row \in saves /\ DealFree
  /\ saves' = saves \ {row}
  /\ \E funded \in {row.funded, deal.funded} :
       deal' = [deal EXCEPT !.status = row.status, !.funded = funded]
  /\ UNCHANGED <<chainvars, apps, queue, watch, intents, books, breaker, jobs, prepares, troubles>>

----
\* prepare: a new version of the deal's escrow, which supersedes the last one.

LockDeal(p) ==
  /\ p \notin prepares /\ DealFree
  /\ deal.status = "PENDING_PAYMENT" /\ ~deal.funded /\ ~breaker
  /\ deal.version < MaxVersions
  /\ prepares' = prepares \union {p}
  /\ UNCHANGED <<chainvars, apps, queue, deal, saves, watch, intents, books, breaker, jobs,
                 troubles>>

Prepare(p) ==
  /\ p \in prepares
  /\ PreparationFree(deal.version)
  /\ deal.version > 0 => watch[deal.version] = "AWAITING_FUNDING"
  /\ deal' = [deal EXCEPT !.version = @ + 1]
  /\ watch' = [v \in Versions |-> IF v = deal'.version THEN "AWAITING_FUNDING"
                               ELSE IF v = deal.version THEN "SUPERSEDED" ELSE watch[v]]
  /\ prepares' = prepares \ {p}
  /\ UNCHANGED <<chainvars, saves, apps, queue, intents, books, breaker, jobs, troubles>>

----
\* TonJettonActionIntentService.create holds preparation and watch, and adds one intent with a
\* query id of its own.  It can do so from the moment the watch takes the status that the action
\* asks for, unless the breaker has tripped by then; whether and when it did matters only to a
\* transaction that carries the intent.

IntentBefore(action) == IF action \in Outcomes THEN StartBefore[action] ELSE WatchBefore(action)
MovesFunds(action) == action \in Outcomes

CreateIntents(v, status) ==
  {<<v, action>> : action \in {a \in IntentActions : /\ status \in IntentBefore(a)
                                                    /\ MovesFunds(a) => ~breaker}}

----
\* A worker: applyNext of the ingestion with applyLocked as its handler.

Step(w, job) == jobs' = [jobs EXCEPT ![w] = job]
Fails(w, stop) == Step(w, [jobs[w] EXCEPT !.pc = "failed", !.stop = stop])

\* FOR UPDATE SKIP LOCKED: the event that has waited longest of those nobody works on.
First(e) == \E i \in DOMAIN queue : queue[i] = e /\ \A j \in 1..(i - 1) : Claimed(queue[j])

Claim(w) ==
  /\ jobs[w].pc = "idle"
  /\ \E e \in Ids : ~Claimed(e) /\ First(e) /\ Step(w, [Resting EXCEPT !.pc = "claimed", !.at = e])
  /\ UNCHANGED <<chainvars, apps, queue, deal, saves, watch, intents, books, breaker, prepares,
                 troubles>>

LockPreparation(w) ==
  LET v == VersionOf(jobs[w].at) IN
  /\ jobs[w].pc = "claimed" /\ PreparationFree(v)
  /\ Step(w, [jobs[w] EXCEPT !.pc = "locked", !.seen = watch[v]])
  /\ UNCHANGED <<chainvars, apps, queue, deal, saves, watch, intents, books, breaker, prepares,
                 troubles>>

\* The status of the deal after an event; most events leave it as it is.
DealStatusAfter(event) ==
  CASE event.kind = "fund" -> "IN_PROGRESS"
    [] event.kind = "deliver" -> "PENDING_CONFIRMATION"
    [] event.kind = "dispute" -> "DISPUTED"
    [] event.kind = "final" -> Settled[event.outcome]
    [] OTHER -> deal.status

\* The checks that applyLocked makes of an event, once it holds the deal as well.
Applicable(event, seen) ==
  /\ event.kind \in NeedsIntent => event.intended
  /\ event.kind \in {"fund", "leg"} => ~breaker
  /\ DealStatusAfter(event) = deal.status \/ CanTransitionTo(deal.status, DealStatusAfter(event))
  /\ seen \in WatchBefore(event.kind)

\* Bad evidence trips the breaker in a transaction of its own and goes to review at once.
Decide(w) ==
  LET job == jobs[w]
      event == events[job.at] IN
  /\ job.pc = "locked" /\ DealFree
  /\ breaker' = (breaker \/ ~event.sound)
  /\ IF event.sound /\ Applicable(event, job.seen) THEN Step(w, [job EXCEPT !.pc = "decided"])
     ELSE Fails(w, ~event.sound)
  /\ UNCHANGED <<chainvars, apps, queue, deal, saves, watch, intents, books, prepares, troubles>>

\* Ledger, deal, intent, watch and application are written together.  The connection may be
\* lost before the worker knows that they are.
Commit(w, known) ==
  LET e == jobs[w].at
      event == events[e]
      status == DealStatusAfter(event) IN
  /\ jobs[w].pc = "decided"
  /\ ledger' = IF event.kind \in {"fund", "leg"} THEN ledger \union {e} ELSE ledger
  /\ deal' = [deal EXCEPT !.status = status,
                          !.funded = @ \/ (event.kind = "fund" /\ status # deal.status)]
  /\ consumed' = IF event.intended THEN consumed \union {e} ELSE consumed
  /\ watch' = [watch EXCEPT ![event.version] = WatchAfter[event.kind]]
  /\ intents' = intents \union CreateIntents(event.version, watch'[event.version])
  /\ apps' = [apps EXCEPT ![e].status = "APPLIED"]
  /\ queue' = SelectSeq(queue, LAMBDA f : f # e)
  /\ IF known THEN Step(w, Resting) /\ UNCHANGED troubles ELSE Fails(w, FALSE) /\ Trouble
  /\ UNCHANGED <<chainvars, saves, breaker, prepares>>

\* Slip: counted from the attempt of this worker only.
Attempts_First(e) == 1

Attempts(e) == apps[e].attempts + 1
Exhausted(e) == Attempts(e) >= MaxApplyFailures

\* Slip: whatever has become of the event meanwhile.
StillPending_Any(e) == TRUE

StillPending(e) == apps[e].status = "PENDING"

\* recordApplyFailure, in a transaction of its own.
Record(w) ==
  LET e == jobs[w].at
      rest == SelectSeq(queue, LAMBDA f : f # e)
      review == jobs[w].stop \/ Exhausted(e)
      failed == [status |-> IF review THEN "MANUAL_REVIEW" ELSE "PENDING", attempts |-> Attempts(e)] IN
  /\ jobs[w].pc = "failed" /\ ~Claimed(e)
  /\ Step(w, Resting)
  /\ IF StillPending(e)
     THEN /\ apps' = [apps EXCEPT ![e] = failed]
          /\ queue' = IF review THEN rest ELSE Append(rest, e)
     ELSE UNCHANGED <<apps, queue>>
  /\ UNCHANGED <<chainvars, deal, saves, watch, intents, books, breaker, prepares, troubles>>

----
\* What may go wrong, and what people do about it.

\* The worker waits for the deal, the preparer for the preparation: the database aborts one.
Deadlock(w, p) ==
  /\ p \in prepares /\ jobs[w].pc = "locked" /\ VersionOf(jobs[w].at) = deal.version
  /\ \/ Fails(w, FALSE) /\ UNCHANGED prepares
     \/ prepares' = prepares \ {p} /\ UNCHANGED jobs
  /\ UNCHANGED <<chainvars, apps, queue, deal, saves, watch, intents, books, breaker, troubles>>

Interrupt(w) ==
  /\ jobs[w].pc \in {"claimed", "locked", "decided"}
  /\ Trouble
  /\ Fails(w, FALSE) \/ Step(w, Resting)
  /\ UNCHANGED <<chainvars, apps, queue, deal, saves, watch, intents, books, breaker, prepares>>

\* requeueManualReview, by an operator
Requeue(e) ==
  /\ apps[e].status = "MANUAL_REVIEW" /\ Trouble
  /\ apps' = [apps EXCEPT ![e] = [status |-> "PENDING", attempts |-> 0]]
  /\ queue' = Append(queue, e)
  /\ UNCHANGED <<chainvars, deal, saves, watch, intents, books, breaker, jobs, prepares>>

\* Of a payment of one unit for every leg: what the events make of a balance.
Balance(es) ==
  LET Count(kind) == Cardinality({e \in es : events[e].kind = kind}) IN
  Cardinality(Legs) * Count("fund") - Count("leg")

Of(v, es) == {e \in es : VersionOf(e) = v}

\* An operator compares the newest finalized balance of a version's contract with the ledger
\* of the whole deal: one that is superseded disagrees as soon as the deal is funded.
Reconcile(v) ==
  /\ v <= deal.version /\ PreparationFree(v) /\ Trouble
  /\ breaker' = (breaker \/ Balance(Of(v, Ids)) # Balance(ledger))
  /\ UNCHANGED <<chainvars, apps, queue, deal, saves, watch, intents, books, jobs, prepares>>

----
Works(w) == Claim(w) \/ LockPreparation(w) \/ Decide(w) \/ Commit(w, TRUE) \/ Record(w)

Next ==
  \/ \E v \in Versions, kind \in Kinds, o \in Outcomes \union {"none"}, l \in Legs \union {"none"} :
       \E intended, sound \in BOOLEAN : Transact(v, kind, o, l, intended, sound)
  \/ \E status \in DealStatuses : Move(status)
  \/ \E row \in saves : SaveMove(row)
  \/ \E p \in Preparers : LockDeal(p) \/ Prepare(p)
  \/ \E w \in Workers : Works(w) \/ Commit(w, FALSE) \/ Interrupt(w)
  \/ \E w \in Workers, p \in Preparers : Deadlock(w, p)
  \/ \E e \in Ids : Requeue(e)
  \/ \E v \in Versions : Reconcile(v)

\* The scheduler runs on, and PostgreSQL grants a row in the order it was asked for.
Fairness ==
  /\ \A w \in Workers : WF_vars(Works(w)) /\ SF_vars(LockPreparation(w) \/ Decide(w))
  /\ \A p \in Preparers : WF_vars(Prepare(p) \/ \E w \in Workers : Deadlock(w, p))

Spec == Init /\ [][Next]_vars
LiveSpec == Spec /\ Fairness

----
\* The contracts, rows and transactions keep their types.
Statuses == (UNION {Before[k] : k \in Kinds}) \union {"SETTLED_FINALIZED"}
WatchStatuses == Statuses \union {"NONE", "SUPERSEDED"}
Event == [version : Versions, kind : Kinds, outcome : Outcomes \union {"none"},
          leg : Legs \union {"none"}, intended : BOOLEAN, sound : BOOLEAN]
App == [status : {"PENDING", "APPLIED", "MANUAL_REVIEW"}, attempts : Nat]
Job == [pc : {"idle", "claimed", "locked", "decided", "failed"}, at : Nat,
        seen : WatchStatuses, stop : BOOLEAN]
TypeOK ==
  /\ escrow \in [Versions -> [status : Statuses, outcome : Outcomes \union {"none"}, due : SUBSET Legs]]
  /\ events \in Seq(Event) /\ apps \in Seq(App) /\ Len(events) = Len(apps)
  /\ deal \in [status : DealStatuses, funded : BOOLEAN, version : 0..MaxVersions]
  /\ saves \subseteq [status : DealStatuses, funded : BOOLEAN]
  /\ watch \in [Versions -> WatchStatuses]
  /\ consumed \subseteq Ids /\ ledger \subseteq Ids
  /\ jobs \in [Workers -> Job] /\ \A w \in Workers : jobs[w].pc # "idle" => jobs[w].at \in Ids
  /\ prepares \subseteq Preparers
  /\ breaker \in BOOLEAN /\ troubles \in 0..MaxTroubles

\* However preparing and funding cross, a deal has one escrow that counts: every version but
\* the last is superseded and has nothing booked, and when the watch of the last one has seen
\* the funding it is in the books; the deal says that it is funded only then, though a row
\* that is saved late may make it forget.
OneEscrow ==
  LET seen == deal.version > 0 /\ watch[deal.version] # "AWAITING_FUNDING" IN
  /\ \A v \in Versions : v < deal.version => watch[v] = "SUPERSEDED"
  /\ \A e \in ledger : VersionOf(e) = deal.version
  /\ deal.funded => seen
  /\ seen <=> \E e \in ledger : events[e].kind = "fund"

\* What an event says is in the books exactly when it is marked as applied, its intent is
\* consumed then and not before, and the escrow never owes less than nothing: no payout is
\* booked before the funding or twice.
AppliedTogether ==
  /\ \A e \in Ids : LET event == events[e]
                      applied == apps[e].status = "APPLIED" IN
       /\ e \in ledger <=> applied /\ event.kind \in {"fund", "leg"}
       /\ e \in consumed <=> applied /\ event.intended
  /\ \A v \in Versions : Balance(Of(v, ledger)) >= 0

\* No event waits for ever: again and again all of them are applied or before an operator.
EventsAnswered == []<>(\A e \in Ids : ~StillPending(e))

====
