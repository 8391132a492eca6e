---- MODULE TonNativeWatch ----
(***************************************************************************)
(* How the backend follows a native TON escrow: two cron jobs read the     *)
(* finalized transactions of the contract, record each as accepted or      *)
(* rejected, and apply the accepted ones to ledger, deal and intents.      *)
(* deal/ton-native-funding-ingestion.service.ts waits for the funding,     *)
(* deal/ton-native-lifecycle-ingestion.service.ts takes over from there;   *)
(* both share a watch (status and cursor) and the table of events.         *)
(*                                                                         *)
(* One deal, one contract.  A position of `chain` is a logical time, and   *)
(* an event is named by it.  A call of the deal service is one step here:  *)
(* its parts are those of DealLifecycle.                                   *)
(***************************************************************************)
EXTENDS Integers, Sequences, FiniteSets, DealStatus

CONSTANTS
  FundJobs,       \* runs of the funding ingestion that may overlap
  LifeJobs,       \* runs of the lifecycle ingestion that may overlap
  Scheduled,      \* those of the cron jobs, one in each process; others are backfills
  Settings,       \* values of TON_NATIVE_RECONCILIATION_REQUIRED to be considered
  MaxAttempts,    \* 5: APPLY_FAILURES_BEFORE_REVIEW, MAX_APPLY_ATTEMPTS
  MaxWatches,     \* 100: MAX_WATCHES_PER_RUN, watches a funding run reads
  MaxAhead,       \* bound: older watches that wait for a funding
  MaxChain,       \* bound: transactions
  MaxCrashes,     \* bound: jobs that die
  MaxTroubles,    \* bound: calls that throw, requests that move the deal without the chain, and
                  \* what administrators do, together
  MaxWorld        \* bound: all of these together

ASSUME WatchAssumption ==
  /\ FundJobs \cap LifeJobs = {} /\ Scheduled \subseteq FundJobs \union LifeJobs
  /\ Settings \subseteq BOOLEAN
  /\ MaxAttempts \in Nat \ {0}
  /\ {MaxWatches, MaxAhead, MaxChain, MaxCrashes, MaxTroubles, MaxWorld} \subseteq Nat

VARIABLES
  settings,  \* whether a transaction has to be reconciled before it is applied
  ahead,     \* how many older watches of other deals still wait for their funding
  chain,     \* the transactions: what each did, and whether it carries a prepared intent
  escrow,    \* status of the contract
  consumed,  \* the intents whose transaction has been applied
  watch,     \* [status, cursor]: tonNativeEscrowWatch
  events,    \* tonNativeChainEvent, by logical time
  ledger,    \* the entries booked for each event
  taken,     \* history: the actions each event has been booked as
  deal,      \* [status, funded]
  reached,   \* history: the statuses the deal has had
  jobs,      \* what each job is doing
  troubles   \* [crashes, others] so far

vars ==
  <<settings, ahead, chain, escrow, consumed, watch, events, ledger, taken, deal, reached, jobs, troubles>>

Workers == FundJobs \union LifeJobs
IsFundJob(w) == w \in FundJobs
Times == 1..MaxChain

Lifecycle == {"deliver", "dispute", "release", "refund", "resolve"}
Actions == Lifecycle \union {"fund", "topup"}

Before == [fund |-> {"UNFUNDED"}, deliver |-> {"FUNDED"}, dispute |-> {"FUNDED", "DELIVERED"},
           release |-> {"DELIVERED"}, refund |-> {"FUNDED", "DELIVERED"}, resolve |-> {"DISPUTED"}]
Beyond == [fund |-> "FUNDED", deliver |-> "DELIVERED", dispute |-> "DISPUTED",
           release |-> "CLOSED", refund |-> "CLOSED", resolve |-> "CLOSED"]

\* The statuses of the deal in which an action is prepared for signing, or applied.
DealBefore == [fund |-> {"PENDING_PAYMENT"}, deliver |-> {"IN_PROGRESS"},
               dispute |-> {"IN_PROGRESS", "PENDING_CONFIRMATION"},
               release |-> {"PENDING_CONFIRMATION"},
               refund |-> {"IN_PROGRESS", "PENDING_CONFIRMATION"}, resolve |-> {"DISPUTED"}]
DealAfter == [fund |-> "IN_PROGRESS", deliver |-> "PENDING_CONFIRMATION", dispute |-> "DISPUTED",
              release |-> "COMPLETED", refund |-> "REFUNDED", resolve |-> "DISPUTE_RESOLVED"]
WatchAfter == [fund |-> "FUNDED", deliver |-> "FUNDED", dispute |-> "DISPUTED",
               release |-> "TERMINAL", refund |-> "TERMINAL", resolve |-> "TERMINAL"]

\* Entries of the money ledger, each with a key of its own; awards and fees of zero are not
\* booked.
Entries == [fund |-> 1, deliver |-> 0, dispute |-> 0, release |-> 2, refund |-> 2, resolve |-> 3]
Booked(action) == {action} \X (1..Entries[action])

NoEvent == [outcome |-> "none", attempts |-> 0, applied |-> FALSE, stopped |-> FALSE,
            reconciled |-> FALSE]
NoWatch == [status |-> "NONE", cursor |-> 0]
Resting == [pc |-> "idle", todo |-> {}, scans |-> FALSE, at |-> 0, seen |-> 0, row |-> NoWatch,
            action |-> "none", booked |-> 0, stop |-> FALSE, marked |-> FALSE,
            reconciled |-> FALSE]

Init ==
  /\ settings \in Settings
  /\ ahead \in 0..MaxAhead
  /\ chain = <<>> /\ escrow = "UNFUNDED"
  /\ consumed = {}
  /\ watch = NoWatch
  /\ events = [k \in Times |-> NoEvent]
  /\ ledger = [k \in Times |-> {}]
  /\ taken = [k \in Times |-> {}]
  /\ deal = [status |-> "PENDING_PAYMENT", funded |-> FALSE]
  /\ reached = {"PENDING_PAYMENT"}
  /\ jobs = [w \in Workers |-> Resting]
  /\ troubles = [crashes |-> 0, others |-> 0]

Room == Len(chain) + troubles.crashes + troubles.others < MaxWorld
Trouble ==
  Room /\ troubles.others < MaxTroubles /\ troubles' = [troubles EXCEPT !.others = @ + 1]

----
\* The world: the parties prepare and sign, the contract executes, the deal is moved by hand.

\* An intent is made once, while the deal is in a status that allows it, and may be signed at
\* any time after.
Prepared(action) == DealBefore[action] \cap reached # {}

\* A transaction of the contract that did not abort.  Without the intent's query id, sender or
\* value it is none of the backend's; a top-up changes nothing but the balance.
Transact(action, intended) ==
  /\ Room /\ Len(chain) < MaxChain
  /\ intended => action # "topup" /\ Prepared(action)
  /\ action # "topup" => escrow \in Before[action]
  /\ chain' = Append(chain, [action |-> action, intended |-> intended])
  /\ escrow' = IF action = "topup" THEN escrow ELSE Beyond[action]
  /\ UNCHANGED <<settings, ahead, consumed, watch, events, ledger, taken, deal, reached, jobs, troubles>>

\* cancel, markShipped, confirmReceipt and openDispute know nothing of a TON contract.
Move(status) ==
  /\ status \in {"CANCELLED", "PENDING_CONFIRMATION", "COMPLETED", "DISPUTED"}
  /\ CanTransition(deal.status, status)
  /\ Trouble
  /\ deal' = [deal EXCEPT !.status = status] /\ reached' = reached \union {status}
  /\ UNCHANGED <<chain, settings, ahead, escrow, consumed, watch, events, ledger, taken, jobs>>

\* One of the older watches is funded, or put under review.  Nothing makes it: the watch of a
\* deal that was given up stays.
Recede ==
  /\ ahead > 0 /\ ahead' = ahead - 1
  /\ UNCHANGED <<settings, chain, escrow, consumed, watch, events, ledger, taken, deal, reached>>
  /\ UNCHANGED <<jobs, troubles>>

----
\* A run of a job: first the events an earlier run has left, then the transactions of the watch.

Goes(w, pc) == jobs' = [jobs EXCEPT ![w].pc = pc]
Ends(w) == jobs' = [jobs EXCEPT ![w] = Resting]

Pending(w) ==
  {k \in Times : /\ events[k].outcome = "accepted" /\ ~events[k].applied /\ ~events[k].stopped
                 /\ IsFundJob(w) = (chain[k].action = "fund")}

\* The next of the pending events, in the order they were recorded, or else the watch.
Takes(w, todo) ==
  \/ todo = {} /\ jobs' = [jobs EXCEPT ![w] = [Resting EXCEPT !.pc = "list"]]
  \/ \E k \in todo :
       /\ \A j \in todo : k <= j
       /\ jobs' = [jobs EXCEPT ![w] = [Resting EXCEPT !.pc = "lock", !.at = k, !.todo = todo \ {k}]]

StartRun(w) ==
  /\ w \in Scheduled /\ jobs[w].pc = "idle" /\ Takes(w, Pending(w))
  /\ UNCHANGED <<chain, settings, ahead, escrow, consumed, watch, events, ledger, taken, deal, reached, troubles>>

\* backfillWatch, by an administrator
Backfill(w) ==
  /\ w \notin Scheduled /\ jobs[w].pc = "idle" /\ watch.status # "NONE"
  /\ Trouble
  /\ Goes(w, "list")
  /\ UNCHANGED <<chain, settings, ahead, escrow, consumed, watch, events, ledger, taken, deal, reached>>

\* Slip: the statuses of the lifecycle job without the dispute.
Scanned_NoDispute(w) == IF IsFundJob(w) THEN {"WATCHING"} ELSE {"FUNDED"}

Scanned(w) == IF IsFundJob(w) THEN {"WATCHING"} ELSE {"FUNDED", "DISPUTED"}

\* ensureWatches makes the watch of a deal that waits for its payment; then those of the job's
\* statuses are read, and the transactions behind the cursor.
Watched(w) ==
  IF IsFundJob(w) /\ watch.status = "NONE" /\ deal.status = "PENDING_PAYMENT"
  THEN [watch EXCEPT !.status = "WATCHING"] ELSE watch

\* A run of the funding job reads the oldest watches only; the lifecycle job takes those it has
\* not read for longest, and a backfill the one it is asked for.
Crowded(w) == IsFundJob(w) /\ w \in Scheduled /\ ahead >= MaxWatches

List(w) ==
  /\ jobs[w].pc = "list"
  /\ watch' = Watched(w)
  /\ IF watch'.status \in Scanned(w) /\ ~Crowded(w)
     THEN jobs' = [jobs EXCEPT ![w].pc = "scan", ![w].scans = TRUE, ![w].at = watch.cursor + 1,
                               ![w].seen = Len(chain)]
     ELSE Ends(w)
  /\ UNCHANGED <<chain, settings, ahead, escrow, consumed, events, ledger, taken, deal, reached, troubles>>

\* Slip: whatever the contract has done was asked for.
Accepts_Any(w, tx) ==
  IF IsFundJob(w) THEN tx.action = "fund" ELSE tx.action \in Lifecycle

Accepts(w, tx) ==
  tx.intended /\ (IF IsFundJob(w) THEN tx.action = "fund" ELSE tx.action \in Lifecycle)

\* The event is inserted unless it is there already, whichever job has recorded it; then the
\* watch is read.
Observe(w) ==
  LET k == jobs[w].at IN
  /\ jobs[w].pc = "scan"
  /\ IF k > jobs[w].seen THEN Ends(w) /\ UNCHANGED events
     ELSE /\ events' = IF events[k].outcome # "none" THEN events
                       ELSE [events EXCEPT ![k].outcome =
                               IF Accepts(w, chain[k]) THEN "accepted" ELSE "rejected"]
          /\ jobs' = [jobs EXCEPT ![w].pc = "save", ![w].row = watch]
  /\ UNCHANGED <<chain, settings, ahead, escrow, consumed, watch, ledger, taken, deal, reached, troubles>>

\* Slip: the cursor passes all that has been listed.
Advanced_ToEnd(call) ==
  IF call.at > call.row.cursor THEN [call.row EXCEPT !.cursor = call.seen] ELSE watch

\* The row is saved as it was read, its status included.
Advanced(call) ==
  IF call.at > call.row.cursor THEN [call.row EXCEPT !.cursor = call.at] ELSE watch

AdvanceCursor(w) ==
  /\ jobs[w].pc = "save"
  /\ watch' = Advanced(jobs[w])
  /\ jobs' = [jobs EXCEPT ![w].row = NoWatch,
       ![w].pc = IF events[jobs[w].at].outcome = "accepted" THEN "lock" ELSE "scan",
       ![w].at = IF events[jobs[w].at].outcome = "accepted" THEN @ ELSE @ + 1]
  /\ UNCHANGED <<chain, settings, ahead, escrow, consumed, events, ledger, taken, deal, reached, troubles>>

----
\* An event is applied in a transaction that locks its row; all else is written at once.

Applying == {"book", "deal", "intent", "watch", "commit", "review", "record"}
Locked(k) == \E w \in Workers : jobs[w].at = k /\ jobs[w].pc \in Applying

\* After an event the scan ends; the list of pending events goes on.
Leave(w) == IF jobs[w].scans THEN Ends(w) ELSE Takes(w, jobs[w].todo)

\* Slip: an event whose automation has been stopped is taken up again.
Closed_Applied(k) == events[k].applied

Closed(k) == events[k].applied \/ events[k].stopped

\* Where a failure leads: a reconciliation that contradicts, or the last attempt, calls for a
\* manual review.
Failing(call, final) ==
  LET stop == final \/ events[call.at].attempts + 1 >= MaxAttempts IN
  [call EXCEPT !.pc = IF stop THEN "review" ELSE "record", !.stop = stop, !.booked = 0]

\* The account must not have advanced since the transaction.
Reconciled(k) == ~settings \/ events[k].reconciled \/ k = Len(chain)

\* What a job takes the event for: a funding, or the action of its intent.  A funding has no
\* intent, and the query for an id that is null finds some row of the table, of this deal or
\* another, or the table empty.
Taken(w, k) ==
  IF IsFundJob(w) THEN {"fund"}
  ELSE IF chain[k].action = "fund" THEN Lifecycle \union {"none"} ELSE {chain[k].action}

LockEvent(w) ==
  LET k == jobs[w].at IN
  /\ jobs[w].pc = "lock"
  /\ \/ (Locked(k) \/ Closed(k)) /\ Leave(w)
     \/ /\ ~Locked(k) /\ ~Closed(k)
        /\ \E action \in Taken(w, k) :
             LET call == [jobs[w] EXCEPT !.pc = "book", !.action = action, !.reconciled = settings]
             IN  jobs' = [jobs EXCEPT ![w] = IF ~Reconciled(k) THEN Failing(jobs[w], TRUE)
                                             ELSE IF action = "none" THEN Failing(call, FALSE)
                                             ELSE call]
  /\ UNCHANGED <<chain, settings, ahead, escrow, consumed, watch, events, ledger, taken, deal, reached, troubles>>

\* Slip: the lifecycle job commits before the intent is consumed.
Following_Early(w) ==
  IF IsFundJob(w) THEN [book |-> "deal", deal |-> "watch", watch |-> "commit"]
  ELSE [book |-> "deal", deal |-> "commit", intent |-> "watch", watch |-> "commit"]

Following(w) ==
  IF IsFundJob(w) THEN [book |-> "deal", deal |-> "watch", watch |-> "commit"]
  ELSE [book |-> "deal", deal |-> "intent", intent |-> "watch", watch |-> "commit"]

\* An entry that an earlier attempt has booked stays single.
Book(w) ==
  LET k == jobs[w].at IN
  /\ jobs[w].pc = "book"
  /\ IF jobs[w].booked = Entries[jobs[w].action]
     THEN Goes(w, Following(w).book) /\ UNCHANGED ledger
     ELSE /\ jobs' = [jobs EXCEPT ![w].booked = @ + 1]
          /\ ledger' = [ledger EXCEPT ![k] = @ \union {<<jobs[w].action, jobs[w].booked + 1>>}]
  /\ taken' = [taken EXCEPT ![k] = @ \union {jobs[w].action}]
  /\ UNCHANGED <<chain, settings, ahead, escrow, consumed, watch, events, deal, reached, troubles>>

\* confirmPayment and applyFinalizedNativeTonLifecycle return when they find their work done.
Done(action) ==
  IF action = "fund" THEN deal.funded \/ deal.status = "COMPLETED"
  ELSE deal.status = DealAfter[action]

MoveDeal(w) ==
  LET action == jobs[w].action IN
  /\ jobs[w].pc = "deal"
  /\ \/ /\ Done(action) /\ Goes(w, Following(w).deal)
        /\ UNCHANGED <<deal, reached>>
     \/ /\ ~Done(action) /\ deal.status \in DealBefore[action]
        /\ deal' = [status |-> DealAfter[action], funded |-> deal.funded \/ action = "fund"]
        /\ reached' = reached \union {DealAfter[action]}
        /\ Goes(w, Following(w).deal)
     \/ /\ ~Done(action) /\ deal.status \notin DealBefore[action]
        /\ jobs' = [jobs EXCEPT ![w] = Failing(@, FALSE)]
        /\ UNCHANGED <<deal, reached>>
  /\ UNCHANGED <<chain, settings, ahead, escrow, consumed, watch, events, ledger, taken, troubles>>

ConsumeIntent(w) ==
  /\ jobs[w].pc = "intent" /\ Goes(w, Following(w).intent)
  /\ consumed' = consumed \union {jobs[w].action}
  /\ UNCHANGED <<chain, settings, ahead, escrow, watch, events, ledger, taken, deal, reached, troubles>>

MoveWatch(w) ==
  /\ jobs[w].pc = "watch" /\ Goes(w, Following(w).watch)
  /\ watch' = [watch EXCEPT !.status = WatchAfter[jobs[w].action]]
  /\ UNCHANGED <<chain, settings, ahead, escrow, consumed, events, ledger, taken, deal, reached, troubles>>

Commit(w) ==
  /\ jobs[w].pc = "commit" /\ Leave(w)
  /\ events' = [events EXCEPT ![jobs[w].at].applied = TRUE, ![jobs[w].at].attempts = @ + 1,
                              ![jobs[w].at].reconciled = @ \/ jobs[w].reconciled]
  /\ UNCHANGED <<chain, settings, ahead, escrow, consumed, watch, ledger, taken, deal, reached, troubles>>

----
\* A call to the database or the chain's API throws; the API's error is final.  The funding job
\* has set appliedAt before it moves the watch, the lifecycle job sets it afterwards.
Fault(w) ==
  /\ jobs[w].pc \in {"book", "deal", "intent", "watch"}
  /\ Trouble
  /\ \E final \in {FALSE, settings /\ jobs[w].pc = "book" /\ jobs[w].booked = 0
                            /\ ~events[jobs[w].at].reconciled} :
       jobs' = [jobs EXCEPT ![w] = [Failing(jobs[w], final) EXCEPT
         !.reconciled = @ /\ ~final, !.marked = IsFundJob(w) /\ jobs[w].pc = "watch"]]
  /\ UNCHANGED <<chain, settings, ahead, escrow, consumed, watch, events, ledger, taken, deal, reached>>

Review(w) ==
  /\ jobs[w].pc = "review" /\ Goes(w, "record")
  /\ watch' = [watch EXCEPT !.status = "MANUAL_REVIEW"]
  /\ UNCHANGED <<chain, settings, ahead, escrow, consumed, events, ledger, taken, deal, reached, troubles>>

\* The funding job leaves appliedAt on the event when the watch could not be moved.
Record(w) ==
  /\ jobs[w].pc = "record" /\ Leave(w)
  /\ events' = [events EXCEPT ![jobs[w].at] =
       [events[jobs[w].at] EXCEPT !.attempts = @ + 1, !.stopped = jobs[w].stop,
          !.applied = jobs[w].marked, !.reconciled = @ \/ jobs[w].reconciled]]
  /\ UNCHANGED <<chain, settings, ahead, escrow, consumed, watch, ledger, taken, deal, reached, troubles>>

\* The process dies, or an error leaves the run: the transaction is rolled back, and what went
\* past it stays.
Crash(w) ==
  /\ jobs[w].pc # "idle" /\ Ends(w)
  /\ Room /\ troubles.crashes < MaxCrashes /\ troubles' = [troubles EXCEPT !.crashes = @ + 1]
  /\ UNCHANGED <<chain, settings, ahead, escrow, consumed, watch, events, ledger, taken, deal, reached>>

\* approveRequeue, of two administrators
Requeue(k) ==
  /\ events[k].stopped /\ ~events[k].applied /\ ~Locked(k)
  /\ watch.status = "MANUAL_REVIEW"
  /\ Trouble
  /\ events' = [events EXCEPT ![k].stopped = FALSE, ![k].attempts = 0]
  /\ UNCHANGED <<chain, settings, ahead, escrow, consumed, watch, ledger, taken, deal, reached, jobs>>

Works(w) ==
  \/ StartRun(w) \/ List(w)
  \/ Observe(w) \/ AdvanceCursor(w) \/ LockEvent(w) \/ Book(w) \/ MoveDeal(w)
  \/ ConsumeIntent(w) \/ MoveWatch(w) \/ Commit(w) \/ Review(w) \/ Record(w)

Next ==
  \/ \E action \in Actions, intended \in BOOLEAN : Transact(action, intended)
  \/ \E status \in DealStatuses : Move(status)
  \/ Recede
  \/ \E w \in Workers : Works(w) \/ Backfill(w) \/ Fault(w) \/ Crash(w)
  \/ \E k \in Times : Requeue(k)

\* The cron jobs run every ten seconds.
Spec == Init /\ [][Next]_vars /\ \A w \in Workers : WF_vars(Works(w))

----
Event == [outcome : {"none", "accepted", "rejected"}, attempts : 0..MaxAttempts,
           applied : BOOLEAN, stopped : BOOLEAN, reconciled : BOOLEAN]
Watch == [status : {"NONE", "WATCHING", "FUNDED", "DISPUTED", "TERMINAL", "MANUAL_REVIEW"},
          cursor : 0..MaxChain]
Job == [pc : {"idle", "list", "scan", "save", "lock"} \union Applying, todo : SUBSET Times,
        scans : BOOLEAN, at : 0..MaxChain + 1, seen : 0..MaxChain, row : Watch,
        action : Actions \union {"none"}, booked : 0..3, stop : BOOLEAN, marked : BOOLEAN,
        reconciled : BOOLEAN]

TypeOK ==
  /\ settings \in BOOLEAN /\ ahead \in 0..MaxAhead
  /\ chain \in Seq([action : Actions, intended : BOOLEAN]) /\ Len(chain) <= MaxChain
  /\ escrow \in {"UNFUNDED", "FUNDED", "DELIVERED", "DISPUTED", "CLOSED"}
  /\ consumed \subseteq Actions
  /\ watch \in Watch
  /\ events \in [Times -> Event]
  /\ ledger \in [Times -> SUBSET (Actions \X (1..3))]
  /\ taken \in [Times -> SUBSET Actions]
  /\ deal \in [status : DealStatuses, funded : BOOLEAN]
  /\ reached \subseteq DealStatuses
  /\ jobs \in [Workers -> Job]
  /\ troubles \in [crashes : 0..MaxCrashes, others : 0..MaxTroubles]

\* Nothing is lost on the way: all up to the cursor has been recorded, although several jobs
\* move it, crash between, and save rows they read earlier.
CursorTruthful == \A k \in 1..watch.cursor : events[k].outcome # "none"

\* An event has been booked as something else than it is.  A funding job that finds a recorded
\* event behind the cursor takes it for the funding, and the lifecycle job a funding for the
\* transaction of some intent.
Mistaken(k) == \E action \in taken[k] : action # chain[k].action

\* An event counts as applied only when all of it is: exactly its entries booked, the deal
\* brought to the status, the intent used up, however many attempts, jobs and crashes it took.
AppliedWhole ==
  \A k \in Times : events[k].applied /\ ~Mistaken(k) =>
    LET action == chain[k].action IN
    /\ ledger[k] = Booked(action)
    /\ DealAfter[action] \in reached
    /\ action # "fund" => action \in consumed

\* The books follow the chain: an entry stands for a transaction the parties asked for, money
\* leaves the escrow's account after all of it has been booked in, and by one way out only.
BooksFollowChain ==
  \A k \in Times : ledger[k] # {} /\ ~Mistaken(k) =>
    /\ k <= Len(chain) /\ chain[k].intended /\ ledger[k] \subseteq Booked(chain[k].action)
    /\ chain[k].action # "fund" =>
         /\ \E j \in 1..k - 1 : chain[j].action = "fund" /\ Booked("fund") \subseteq ledger[j]
         /\ \A j \in Times : ledger[j] # {} /\ ~Mistaken(j) => j = k \/ chain[j].action = "fund"

\* Nobody works on an event that has been applied, or stopped and not requeued: a job that has
\* listed it before leaves it alone, and so do its entries.
ClosedRests ==
  [][\A k \in Times :
       /\ events[k].applied \/ events[k].stopped
       /\ events'[k].applied \/ events'[k].stopped
       => events'[k] = events[k] /\ ledger'[k] = ledger[k]]_vars

\* Whatever the contract does ends up recorded, and what was recorded as accepted is applied or
\* stopped for a review; unless the watch is closed or under review, there is none because the
\* deal left PENDING_PAYMENT first, or as many older watches as a run reads wait for a funding.
Settles ==
  <>[](\A k \in DOMAIN chain :
         IF events[k].outcome = "none"
         THEN \/ watch.status \in {"NONE", "MANUAL_REVIEW", "TERMINAL"}
              \/ watch.status = "WATCHING" /\ ahead >= MaxWatches
         ELSE events[k].outcome = "accepted" => Closed(k))

\* "A valid Fund is terminal for this watcher. Later lifecycle transactions are handled by their
\* own settlement indexer." (ton-native-funding-ingestion.service.ts, scanWatch)
NothingMissed ==
  \A k \in DOMAIN chain :
    events[k].outcome = "rejected" => ~chain[k].intended \/ chain[k].action = "topup"
====
