---- MODULE TonNative_proofs ----
(***************************************************************************)
(* What holds of TonNativeWatch for any number of jobs and backfills that  *)
(* overlap, any number of crashes, faults and interventions, and a chain   *)
(* of any length: the cursor never passes a transaction that has not been  *)
(* recorded, an event that is closed is left alone, an event marked as     *)
(* applied was applied in full, and, but for an event that a funding job   *)
(* has mistaken for a funding, the books follow the chain.                 *)
(* And of TonNativeEscrow, for every division of the price, every          *)
(* deadline, rent, fee and reserve, and whatever value messages bring: the *)
(* contract implements PayoutPlan, and the reserve keeps the deposit whole *)
(* for as long as it lasts.                                                *)
(***************************************************************************)
EXTENDS TonNativeWatch, TonNativeEscrow, TLAPS

(***************************************************************************)
(* TonNativeWatch                                                          *)
(***************************************************************************)

Recorded(k) == events[k].outcome # "none"
Accepted(k) == events[k].outcome = "accepted"

EventOK(k) ==
  /\ Recorded(k) => k <= Len(chain)
  /\ Accepted(k) => chain[k].action \in Lifecycle \union {"fund"}
  /\ Closed(k) => Accepted(k)
  /\ ~Closed(k) => events[k].attempts < MaxAttempts

\* What a job knows at each point: all before the transaction it looks at has been recorded, the
\* row it holds was true when it was read, and the event it applies is open and locked.
JobOK(w) ==
  LET job == jobs[w] IN
  /\ job.pc \notin Applying => job.booked = 0
  /\ job.pc \in {"scan", "save"} => job.seen <= Len(chain)
  /\ job.pc = "scan" => job.at > 0 /\ \A k \in Times : k < job.at => Recorded(k)
  /\ job.pc = "save" => /\ job.at \in Times
                        /\ \A k \in Times : k <= job.at \/ k <= job.row.cursor => Recorded(k)
  /\ job.pc \in {"lock"} \union Applying => job.at \in Times /\ Accepted(job.at)
  /\ job.pc \in Applying => ~Closed(job.at)
  /\ job.pc \in Applying \ {"review", "record"} =>
       job.action \in Lifecycle \union {"fund"} /\ (IsFundJob(w) => job.action = "fund")
  /\ job.pc = "book" => job.booked <= Entries[job.action]
  /\ job.pc = "intent" => ~IsFundJob(w)
  /\ job.pc \in {"review", "record"} => job.stop \/ events[job.at].attempts + 1 < MaxAttempts
  /\ \A k \in job.todo : Accepted(k)

\* The row lock.
Exclusive ==
  \A v, w \in Workers :
    jobs[v].pc \in Applying /\ jobs[w].pc \in Applying /\ jobs[v].at = jobs[w].at => v = w

Inv ==
  /\ TypeOK
  /\ \A k \in Times : EventOK(k)
  /\ \A w \in Workers : JobOK(w)
  /\ Exclusive
  /\ CursorTruthful

-----------------------------------------------------------------------------
(* Typing                                                                  *)

LEMMA RestingIsJob == Resting \in Job
  BY WatchAssumption DEF Resting, Job, NoWatch, Watch, Applying

LEMMA InitInv == Init => Inv
<1> SUFFICES ASSUME Init PROVE Inv
  OBVIOUS
<1>1. TypeOK
  BY RestingIsJob, WatchAssumption
     DEF Init, TypeOK, NoWatch, NoEvent, Event, Watch, DealStatuses, Actions
<1>2. \A k \in Times : EventOK(k)
  BY WatchAssumption DEF Init, EventOK, Recorded, Accepted, Closed, NoEvent
<1>3. (\A w \in Workers : JobOK(w)) /\ Exclusive
  BY DEF Init, JobOK, Exclusive, Resting, Applying
<1>4. CursorTruthful
  BY DEF Init, CursorTruthful, NoWatch
<1> QED
  BY <1>1, <1>2, <1>3, <1>4 DEF Inv

-----------------------------------------------------------------------------
(* The frame of a step                                                     *)

\* Transactions and outcomes are only added.
Grows ==
  /\ \A k \in Times : Recorded(k) => events'[k].outcome = events[k].outcome
  /\ Len(chain) <= Len(chain)'
  /\ \A k \in 1..Len(chain) : chain'[k] = chain[k]

\* What a job holds to be true stays true when others work.
LEMMA JobKept ==
  ASSUME Inv, NEW v \in Workers, Grows, jobs'[v] = jobs[v], Len(chain)' \in Nat,
         jobs[v].pc \in Applying => events'[jobs[v].at] = events[jobs[v].at]
  PROVE  JobOK(v)'
<1>1. /\ \A k \in Times : Recorded(k) => Recorded(k)'
      /\ \A k \in Times : Accepted(k) => Accepted(k)'
  BY DEF Grows, Recorded, Accepted
<1>2. /\ jobs[v] \in Job /\ JobOK(v) /\ Len(chain) \in Nat
  BY DEF Inv, TypeOK
<1>3. jobs[v].pc \in Applying => Closed(jobs[v].at)' = Closed(jobs[v].at)
  BY DEF Closed
<1>5. \A k \in jobs[v].todo : k \in Times
  BY <1>2 DEF Job
<1>6. jobs[v].seen \in Nat
  BY <1>2 DEF Job
<1>7. jobs[v].pc \in {"scan", "save"} => jobs[v].seen <= Len(chain)'
  BY <1>2, <1>6 DEF JobOK, Grows
<1> QED
  BY <1>1, <1>2, <1>3, <1>5, <1>7 DEF JobOK, IsFundJob, Applying

\* A step of one job: it touches an event only to record it or under the lock.
LEMMA OneSteps ==
  ASSUME Inv, NEW w \in Workers, NEW f \in Job, jobs' = [jobs EXCEPT ![w] = f],
         Grows, Len(chain)' \in Nat, JobOK(w)',
         \A k \in Times : events'[k] # events[k] =>
           ~Recorded(k) \/ (jobs[w].pc \in Applying /\ jobs[w].at = k),
         f.pc \in Applying =>
           \/ jobs[w].pc \in Applying /\ f.at = jobs[w].at
           \/ ~Locked(f.at)
  PROVE  jobs' \in [Workers -> Job] /\ (\A v \in Workers : JobOK(v)') /\ Exclusive'
<1>1. /\ jobs \in [Workers -> Job] /\ jobs' \in [Workers -> Job] /\ jobs'[w] = f
      /\ \A v \in Workers : v # w => jobs'[v] = jobs[v]
  BY DEF Inv, TypeOK
<1>2. ASSUME NEW v \in Workers, v # w
      PROVE  JobOK(v)'
  <2>1. jobs[v].pc \in Applying => events'[jobs[v].at] = events[jobs[v].at]
    BY <1>2 DEF Inv, JobOK, Exclusive, Accepted, Recorded
  <2> QED
    BY <1>1, <1>2, <2>1, JobKept
<1>3. Exclusive'
  BY <1>1 DEF Inv, Exclusive, Locked
<1> QED
  BY <1>1, <1>2, <1>3

\* Events that stay are as good as they were.
LEMMA EventKept ==
  ASSUME Inv, NEW k \in Times, Grows, events'[k] = events[k], Len(chain)' \in Nat
  PROVE  EventOK(k)'
<1>1. EventOK(k) /\ Len(chain) \in Nat
  BY DEF Inv, TypeOK
<1>2. Accepted(k) => k \in 1..Len(chain)
  BY <1>1 DEF EventOK, Accepted, Recorded, Times
<1> QED
  BY <1>1, <1>2, WatchAssumption DEF EventOK, Recorded, Accepted, Closed, Grows, Times

LEMMA CursorKept == ASSUME Inv, Grows, watch'.cursor = watch.cursor PROVE CursorTruthful'
<1>1. watch.cursor \in 0..MaxChain
  BY DEF Inv, TypeOK, Watch
<1> QED
  BY <1>1, WatchAssumption DEF Inv, CursorTruthful, Grows, Recorded, Times

\* What the lists of a run lead to: an idle job, the watch, or the lock of an accepted event.
Quiet(f) ==
  /\ f \in Job /\ f.pc \in {"idle", "list", "lock"} /\ f.booked = 0
  /\ f.pc = "lock" => Accepted(f.at) /\ f.at \in Times
  /\ \A k \in f.todo : Accepted(k)

LEMMA TakesQuiet ==
  ASSUME NEW w \in Workers, NEW todo \in SUBSET Times, \A k \in todo : Accepted(k), Takes(w, todo)
  PROVE  \E f \in Job : Quiet(f) /\ jobs' = [jobs EXCEPT ![w] = f]
<1>1. CASE todo = {} /\ jobs' = [jobs EXCEPT ![w] = [Resting EXCEPT !.pc = "list"]]
  <2> DEFINE f == [Resting EXCEPT !.pc = "list"]
  <2>1. f \in Job
    BY RestingIsJob DEF Job, Resting
  <2>2. Quiet(f)
    BY <2>1 DEF Quiet, Resting
  <2> QED
    BY <1>1, <2>1, <2>2
<1>2. ASSUME NEW k \in todo,
             jobs' = [jobs EXCEPT ![w] = [Resting EXCEPT !.pc = "lock", !.at = k, !.todo = todo \ {k}]]
      PROVE  \E f \in Job : Quiet(f) /\ jobs' = [jobs EXCEPT ![w] = f]
  <2> DEFINE f == [Resting EXCEPT !.pc = "lock", !.at = k, !.todo = todo \ {k}]
  <2>1. k \in 0..MaxChain + 1 /\ todo \ {k} \subseteq Times
    BY WatchAssumption DEF Times
  <2>2. f \in Job
    BY <2>1, RestingIsJob DEF Job, Resting
  <2>3. Quiet(f)
    BY <2>2 DEF Quiet, Resting
  <2> QED
    BY <1>2, <2>2, <2>3
<1> QED
  BY <1>1, <1>2 DEF Takes

LEMMA EndsQuiet ==
  ASSUME NEW w \in Workers, Ends(w)
  PROVE  \E f \in Job : Quiet(f) /\ jobs' = [jobs EXCEPT ![w] = f]
<1>1. Quiet(Resting)
  BY RestingIsJob DEF Quiet, Resting
<1> QED
  BY <1>1, RestingIsJob DEF Ends

LEMMA LeaveQuiet ==
  ASSUME Inv, NEW w \in Workers, Leave(w)
  PROVE  \E f \in Job : Quiet(f) /\ jobs' = [jobs EXCEPT ![w] = f]
<1>1. jobs[w].todo \in SUBSET Times /\ \A k \in jobs[w].todo : Accepted(k)
  BY DEF Inv, TypeOK, Job, JobOK
<1> QED
  BY <1>1, TakesQuiet, EndsQuiet DEF Leave

LEMMA QuietSteps ==
  ASSUME Inv, NEW w \in Workers, NEW f \in Job, Quiet(f), jobs' = [jobs EXCEPT ![w] = f],
         Grows, Len(chain)' \in Nat,
         \A k \in Times : events'[k] # events[k] =>
           ~Recorded(k) \/ (jobs[w].pc \in Applying /\ jobs[w].at = k)
  PROVE  jobs' \in [Workers -> Job] /\ (\A v \in Workers : JobOK(v)') /\ Exclusive'
<1>1. jobs'[w] = f
  BY DEF Inv, TypeOK
<1>2. \A k \in Times : Accepted(k) => Accepted(k)'
  BY DEF Grows, Accepted, Recorded
<1>3. f.todo \subseteq Times
  BY DEF Job
<1>4. JobOK(w)'
  BY <1>1, <1>2, <1>3 DEF JobOK, Quiet, Applying
<1>5. f.pc \notin Applying
  BY DEF Quiet, Applying
<1> QED
  BY <1>4, <1>5, OneSteps

-----------------------------------------------------------------------------
(* Steps that leave events and chain alone                                 *)

LEMMA Restated ==
  ASSUME NEW job \in Job, NEW pc \in Applying, NEW stop \in BOOLEAN
  PROVE  [job EXCEPT !.pc = pc, !.stop = stop, !.booked = 0] \in Job
<1>1. ASSUME NEW g \in Job PROVE [g EXCEPT !.pc = pc] \in Job
  BY DEF Job
<1>2. ASSUME NEW g \in Job PROVE [g EXCEPT !.stop = stop] \in Job
  BY DEF Job
<1>3. ASSUME NEW g \in Job PROVE [g EXCEPT !.booked = 0] \in Job
  BY DEF Job
<1>4. [job EXCEPT !.pc = pc, !.stop = stop, !.booked = 0]
        = [[[job EXCEPT !.pc = pc] EXCEPT !.stop = stop] EXCEPT !.booked = 0]
  BY DEF Job
<1> QED
  BY <1>1, <1>2, <1>3, <1>4

LEMMA FailingJob ==
  ASSUME NEW job \in Job, NEW final \in BOOLEAN
  PROVE  /\ Failing(job, final) \in Job /\ Failing(job, final).at = job.at
         /\ Failing(job, final).pc \in {"review", "record"} /\ Failing(job, final).booked = 0
         /\ Failing(job, final).todo = job.todo /\ Failing(job, final).marked = job.marked
         /\ Failing(job, final).row = job.row
         /\ Failing(job, final).stop \/ ~(events[job.at].attempts + 1 >= MaxAttempts)
         /\ final => Failing(job, final).stop
<1> DEFINE late == events[job.at].attempts + 1 >= MaxAttempts
<1>1. CASE final \/ late
  <2>1. Failing(job, final) = [job EXCEPT !.pc = "review", !.stop = TRUE, !.booked = 0]
    BY <1>1 DEF Failing
  <2>2. "review" \in Applying /\ TRUE \in BOOLEAN
    BY DEF Applying
  <2>3. /\ Failing(job, final) \in Job /\ Failing(job, final).at = job.at
        /\ Failing(job, final).pc = "review" /\ Failing(job, final).booked = 0
        /\ Failing(job, final).todo = job.todo /\ Failing(job, final).stop = TRUE
        /\ Failing(job, final).marked = job.marked /\ Failing(job, final).row = job.row
    <3>1. Failing(job, final) \in Job
      BY <2>1, <2>2, Restated
    <3> QED
      BY <2>1, <3>1 DEF Job
  <2> QED
    BY <1>1, <2>3
<1>2. CASE ~(final \/ late)
  <2>1. Failing(job, final) = [job EXCEPT !.pc = "record", !.stop = FALSE, !.booked = 0]
    BY <1>2 DEF Failing
  <2>2. "record" \in Applying /\ FALSE \in BOOLEAN
    BY DEF Applying
  <2>3. /\ Failing(job, final) \in Job /\ Failing(job, final).at = job.at
        /\ Failing(job, final).pc = "record" /\ Failing(job, final).booked = 0
        /\ Failing(job, final).todo = job.todo /\ Failing(job, final).stop = FALSE
        /\ Failing(job, final).marked = job.marked /\ Failing(job, final).row = job.row
    <3>1. Failing(job, final) \in Job
      BY <2>1, <2>2, Restated, ZenonT(30)
    <3> QED
      BY <2>1, <3>1 DEF Job
  <2> QED
    BY <1>2, <2>3
<1> QED
  BY <1>1, <1>2

LEMMA EntriesAre ==
  \A action \in Lifecycle \union {"fund"} : Entries[action] \in 0..3
  BY DEF Entries, Lifecycle

\* A step of one job that writes the watch, the deal, the books or the intents.
LEMMA PlainSteps ==
  ASSUME Inv, NEW w \in Workers, NEW f \in Job, jobs' = [jobs EXCEPT ![w] = f],
         UNCHANGED <<chain, events>>, Quiet(f) \/ JobOK(w)',
         f.pc \in Applying =>
           \/ jobs[w].pc \in Applying /\ f.at = jobs[w].at
           \/ ~Locked(f.at)
  PROVE  /\ jobs' \in [Workers -> Job] /\ (\A v \in Workers : JobOK(v)') /\ Exclusive'
         /\ \A k \in Times : EventOK(k)'
         /\ watch'.cursor = watch.cursor => CursorTruthful'
<1>1. Grows /\ Len(chain)' \in Nat
  BY DEF Inv, TypeOK, Grows
<1>2. jobs' \in [Workers -> Job] /\ (\A v \in Workers : JobOK(v)') /\ Exclusive'
  BY <1>1, OneSteps, QuietSteps
<1> QED
  BY <1>1, <1>2, EventKept, CursorKept

LEMMA Quits ==
  ASSUME Inv, NEW w \in Workers, \E f \in Job : Quiet(f) /\ jobs' = [jobs EXCEPT ![w] = f],
         UNCHANGED <<settings, ahead, chain, escrow, consumed, watch, events, ledger, taken, deal, reached>>,
         troubles' \in [crashes : 0..MaxCrashes, others : 0..MaxTroubles]
  PROVE  Inv'
<1>1. PICK f \in Job : Quiet(f) /\ jobs' = [jobs EXCEPT ![w] = f]
  OBVIOUS
<1>2. /\ jobs' \in [Workers -> Job] /\ (\A v \in Workers : JobOK(v)') /\ Exclusive'
      /\ (\A k \in Times : EventOK(k)') /\ CursorTruthful'
  BY <1>1, PlainSteps DEF Quiet, Applying
<1> QED
  BY <1>2 DEF Inv, TypeOK

LEMMA TroublesKept == ASSUME Inv, Trouble
  PROVE troubles' \in [crashes : 0..MaxCrashes, others : 0..MaxTroubles]
  BY WatchAssumption DEF Inv, TypeOK, Trouble

LEMMA StartRunStep == ASSUME Inv, NEW w \in Workers, StartRun(w) PROVE Inv'
<1>1. Pending(w) \in SUBSET Times /\ \A k \in Pending(w) : Accepted(k)
  BY DEF Pending, Accepted
<1> QED
  BY <1>1, TakesQuiet, Quits DEF StartRun, Inv, TypeOK

LEMMA BackfillStep == ASSUME Inv, NEW w \in Workers, Backfill(w) PROVE Inv'
<1> DEFINE f == [jobs[w] EXCEPT !.pc = "list"]
<1>1. jobs[w] \in Job /\ JobOK(w) /\ jobs[w].pc = "idle"
  BY DEF Inv, TypeOK, Backfill
<1>2. f \in Job /\ Quiet(f)
  BY <1>1 DEF Quiet, Job, JobOK, Applying
<1>3. jobs' = [jobs EXCEPT ![w] = f]
  BY DEF Backfill, Goes
<1> QED
  BY <1>2, <1>3, Quits, TroublesKept DEF Backfill

LEMMA CrashStep == ASSUME Inv, NEW w \in Workers, Crash(w) PROVE Inv'
<1>1. /\ troubles \in [crashes : 0..MaxCrashes, others : 0..MaxTroubles]
      /\ troubles.crashes < MaxCrashes /\ troubles' = [troubles EXCEPT !.crashes = @ + 1]
  BY DEF Inv, TypeOK, Crash
<1>2. troubles' \in [crashes : 0..MaxCrashes, others : 0..MaxTroubles]
  BY <1>1, WatchAssumption
<1> QED
  BY <1>2, EndsQuiet, Quits DEF Crash

LEMMA ListStep == ASSUME Inv, NEW w \in Workers, List(w) PROVE Inv'
<1>1. watch' \in Watch /\ watch'.cursor = watch.cursor /\ watch.cursor \in 0..MaxChain
  BY DEF List, Watched, Inv, TypeOK, Watch
<1>2. CASE watch'.status \in Scanned(w) /\ ~Crowded(w)
  <2> DEFINE f == [jobs[w] EXCEPT !.pc = "scan", !.scans = TRUE, !.at = watch.cursor + 1,
                                  !.seen = Len(chain)]
  <2>1. jobs[w] \in Job /\ JobOK(w) /\ jobs[w].pc = "list" /\ Len(chain) \in 0..MaxChain
    BY WatchAssumption DEF Inv, TypeOK, List
  <2>2. f \in Job /\ f.pc = "scan"
    <3>1. watch.cursor + 1 \in 0..MaxChain + 1 /\ Len(chain) \in 0..MaxChain
      BY <1>1, <2>1, WatchAssumption
    <3> QED
      BY <2>1, <3>1 DEF Job
  <2>3. jobs' = [jobs EXCEPT ![w] = f] /\ jobs'[w] = f
    BY <1>2 DEF List, Inv, TypeOK
  <2>4. \A k \in Times : k < watch.cursor + 1 => Recorded(k)
    BY <1>1 DEF Inv, CursorTruthful, Recorded, Times
  <2>5. JobOK(w)'
    BY <1>1, <2>1, <2>2, <2>3, <2>4 DEF JobOK, Applying, List, Recorded, Accepted, Job
  <2>6. /\ jobs' \in [Workers -> Job] /\ (\A v \in Workers : JobOK(v)') /\ Exclusive'
        /\ (\A k \in Times : EventOK(k)') /\ CursorTruthful'
    BY <1>1, <2>2, <2>3, <2>5, PlainSteps DEF Applying, List
  <2> QED
    BY <1>1, <2>6 DEF Inv, TypeOK, List
<1>3. CASE ~(watch'.status \in Scanned(w) /\ ~Crowded(w))
  <2>1. Ends(w)
    BY <1>3 DEF List
  <2>2. PICK f \in Job : Quiet(f) /\ jobs' = [jobs EXCEPT ![w] = f]
    BY <2>1, EndsQuiet
  <2>3. /\ jobs' \in [Workers -> Job] /\ (\A v \in Workers : JobOK(v)') /\ Exclusive'
        /\ (\A k \in Times : EventOK(k)') /\ CursorTruthful'
    BY <1>1, <2>2, PlainSteps DEF Quiet, Applying, List
  <2> QED
    BY <1>1, <2>3 DEF Inv, TypeOK, List
<1> QED
  BY <1>2, <1>3

\* What becomes of a job that gets the row: it starts on the event, or fails at once.
Starts(w, f) ==
  /\ f.pc \in {"book", "review", "record"} /\ f.at = jobs[w].at /\ f.todo = jobs[w].todo
  /\ f.booked = 0 /\ f.marked = jobs[w].marked /\ f.row = jobs[w].row
  /\ f.pc = "book" => f.action \in Taken(w, jobs[w].at) \ {"none"}
  /\ f.pc # "book" => f.stop \/ ~(events[jobs[w].at].attempts + 1 >= MaxAttempts)

LEMMA LockStarts ==
  ASSUME Inv, NEW w \in Workers, LockEvent(w), ~Leave(w)
  PROVE  /\ ~Locked(jobs[w].at) /\ ~Closed(jobs[w].at)
         /\ \E f \in Job : Starts(w, f) /\ jobs' = [jobs EXCEPT ![w] = f]
<1> DEFINE k == jobs[w].at
<1>1. /\ jobs[w] \in Job /\ JobOK(w) /\ jobs[w].pc = "lock" /\ settings \in BOOLEAN
      /\ k \in Times /\ Accepted(k) /\ EventOK(k)
  BY DEF Inv, TypeOK, LockEvent, JobOK
<1>2. PICK action \in Taken(w, k) :
        jobs' = [jobs EXCEPT ![w] =
          IF ~Reconciled(k) THEN Failing(jobs[w], TRUE)
          ELSE IF action = "none"
               THEN Failing([jobs[w] EXCEPT !.pc = "book", !.action = action,
                                            !.reconciled = settings], FALSE)
               ELSE [jobs[w] EXCEPT !.pc = "book", !.action = action, !.reconciled = settings]]
  BY DEF LockEvent
<1>3. ~Locked(k) /\ ~Closed(k)
  BY DEF LockEvent
<1> DEFINE call == [jobs[w] EXCEPT !.pc = "book", !.action = action, !.reconciled = settings]
<1>4. action \in Actions \union {"none"}
  BY <1>1, <1>2 DEF Taken, Actions, EventOK
<1>5. /\ call \in Job /\ call.pc = "book" /\ call.at = k /\ call.todo = jobs[w].todo
      /\ call.marked = jobs[w].marked /\ call.row = jobs[w].row
      /\ call.booked = 0 /\ call.action = action
  <2>1. jobs[w].booked = 0
    BY <1>1 DEF JobOK, Applying
  <2> QED
    BY <1>1, <1>4, <2>1 DEF Job, Applying
<1> HIDE DEF call
<1>6. CASE ~Reconciled(k)
  <2> DEFINE f == Failing(jobs[w], TRUE)
  <2>1. f \in Job /\ Starts(w, f)
    BY <1>1, FailingJob DEF Starts
  <2>2. jobs' = [jobs EXCEPT ![w] = f]
    BY <1>2, <1>6
  <2> QED
    BY <1>3, <2>1, <2>2
<1>7. CASE Reconciled(k) /\ action = "none"
  <2> DEFINE f == Failing(call, FALSE)
  <2>1. f \in Job /\ Starts(w, f)
    BY <1>5, FailingJob DEF Starts
  <2>2. jobs' = [jobs EXCEPT ![w] = f]
    BY <1>2, <1>7 DEF call
  <2> QED
    BY <1>3, <2>1, <2>2
<1>8. CASE Reconciled(k) /\ action # "none"
  <2>1. Starts(w, call)
    BY <1>2, <1>5, <1>8 DEF Starts
  <2>2. jobs' = [jobs EXCEPT ![w] = call]
    BY <1>2, <1>8 DEF call
  <2> QED
    BY <1>3, <1>5, <2>1, <2>2
<1> QED
  BY <1>6, <1>7, <1>8

LEMMA LockStep == ASSUME Inv, NEW w \in Workers, LockEvent(w) PROVE Inv'
<1>1. CASE Leave(w)
  BY <1>1, LeaveQuiet, Quits DEF LockEvent, Inv, TypeOK
<1>2. CASE ~Leave(w)
  <2> DEFINE k == jobs[w].at
  <2>1. /\ ~Locked(k) /\ ~Closed(k) /\ JobOK(w) /\ jobs[w].pc = "lock"
        /\ UNCHANGED <<chain, events>>
    BY <1>2, LockStarts DEF LockEvent, Inv
  <2>2. PICK f \in Job : Starts(w, f) /\ jobs' = [jobs EXCEPT ![w] = f]
    BY <1>2, LockStarts
  <2>3. jobs'[w] = f /\ f.booked = 0 /\ f.at = k /\ f.todo = jobs[w].todo
    BY <2>2 DEF Starts, Inv, TypeOK
  <2>4. k \in Times /\ Accepted(k) /\ EventOK(k) /\ events[k] \in Event
    BY <2>1 DEF JobOK, Inv, TypeOK
  <2>5. f.pc = "book" => /\ f.action \in Lifecycle \union {"fund"}
                         /\ IsFundJob(w) => f.action = "fund"
                         /\ 0 <= Entries[f.action]
    <3>1. f.pc = "book" => f.action \in Taken(w, k) \ {"none"}
      BY <2>2 DEF Starts
    <3>2. f.pc = "book" => f.action \in Lifecycle \union {"fund"}
                           /\ (IsFundJob(w) => f.action = "fund")
      BY <2>4, <3>1 DEF Taken, EventOK
    <3> QED
      BY <3>2, EntriesAre
  <2>6. /\ f.pc \in {"book", "review", "record"}
        /\ f.pc # "book" => f.stop \/ events[k].attempts + 1 < MaxAttempts
    BY <2>2, <2>4, WatchAssumption DEF Starts, Event
  <2>7. JobOK(w)'
    BY <2>1, <2>3, <2>4, <2>5, <2>6 DEF JobOK, Applying, Accepted, Closed, Recorded, IsFundJob
  <2>8. /\ jobs' \in [Workers -> Job] /\ (\A v \in Workers : JobOK(v)') /\ Exclusive'
        /\ (\A j \in Times : EventOK(j)') /\ (watch'.cursor = watch.cursor => CursorTruthful')
    BY <2>1, <2>2, <2>3, <2>7, PlainSteps
  <2> QED
    BY <2>8 DEF Inv, TypeOK, LockEvent
<1> QED
  BY <1>1, <1>2

\* A job that applies an event goes on to the next part.
LEMMA GoesOn ==
  ASSUME Inv, NEW w \in Workers, jobs[w].pc \in Applying,
         NEW pc \in {"deal", "intent", "watch", "commit", "record"}, Goes(w, pc),
         pc = "intent" => ~IsFundJob(w), pc = "record" => jobs[w].pc = "review",
         pc # "record" => jobs[w].pc \notin {"review", "record"},
         UNCHANGED <<chain, events>>
  PROVE  /\ jobs' \in [Workers -> Job] /\ (\A v \in Workers : JobOK(v)') /\ Exclusive'
         /\ \A k \in Times : EventOK(k)'
         /\ watch'.cursor = watch.cursor => CursorTruthful'
<1> DEFINE f == [jobs[w] EXCEPT !.pc = pc]
<1>1. jobs[w] \in Job /\ JobOK(w) /\ jobs \in [Workers -> Job]
  BY DEF Inv, TypeOK
<1>2. f \in Job /\ f.pc = pc /\ f.at = jobs[w].at /\ f.todo = jobs[w].todo /\ f.stop = jobs[w].stop
      /\ f.action = jobs[w].action
  BY <1>1 DEF Job, Applying
<1>3. jobs' = [jobs EXCEPT ![w] = f] /\ jobs'[w] = f
  BY <1>1 DEF Goes
<1> HIDE DEF f
<1>4. JobOK(w)'
  BY <1>1, <1>2, <1>3 DEF JobOK, Applying, Accepted, Recorded, Closed, IsFundJob
<1> QED
  BY <1>2, <1>3, <1>4, PlainSteps

\* One that fails lays the event aside, for a review or another attempt.
LEMMA Fails ==
  ASSUME Inv, NEW w \in Workers, jobs[w].pc \in Applying \ {"review", "record"},
         NEW f \in Job, jobs' = [jobs EXCEPT ![w] = f],
         f.pc \in {"review", "record"}, f.at = jobs[w].at, f.todo = jobs[w].todo,
         f.stop \/ ~(events[jobs[w].at].attempts + 1 >= MaxAttempts),
         UNCHANGED <<chain, events, watch>>
  PROVE  /\ jobs' \in [Workers -> Job] /\ (\A v \in Workers : JobOK(v)') /\ Exclusive'
         /\ \A k \in Times : EventOK(k)'
         /\ CursorTruthful'
<1>1. jobs[w] \in Job /\ JobOK(w) /\ jobs \in [Workers -> Job] /\ jobs[w].at \in Times
  BY DEF Inv, TypeOK, JobOK
<1>2. jobs'[w] = f
  BY <1>1
<1>3. events[jobs[w].at].attempts \in Int /\ MaxAttempts \in Int
  BY <1>1, WatchAssumption DEF Inv, TypeOK, Event
<1>4. JobOK(w)'
  BY <1>1, <1>2, <1>3 DEF JobOK, Applying, Accepted, Recorded, Closed
<1> QED
  BY <1>2, <1>4, PlainSteps DEF Applying

LEMMA MoveDealStep == ASSUME Inv, NEW w \in Workers, MoveDeal(w) PROVE Inv'
<1> DEFINE action == jobs[w].action
<1>1. jobs[w] \in Job /\ JobOK(w) /\ jobs[w].pc = "deal" /\ jobs[w].pc \in Applying \ {"review", "record"}
  BY DEF Inv, TypeOK, MoveDeal, Applying
<1>2. CASE Goes(w, Following(w).deal)
  <2>1. /\ Following(w).deal \in {"deal", "intent", "watch", "commit", "record"}
        /\ Following(w).deal = "intent" => ~IsFundJob(w)
        /\ Following(w).deal # "record"
    BY DEF Following
  <2>2. /\ jobs' \in [Workers -> Job] /\ (\A v \in Workers : JobOK(v)') /\ Exclusive'
        /\ (\A k \in Times : EventOK(k)') /\ CursorTruthful'
    BY <1>1, <1>2, <2>1, GoesOn DEF MoveDeal
  <2>3. deal' \in [status : DealStatuses, funded : BOOLEAN] /\ reached' \subseteq DealStatuses
    <3>1. CASE Done(action) \/ deal.status \notin DealBefore[action]
      BY <3>1 DEF MoveDeal, Inv, TypeOK
    <3>2. CASE ~Done(action) /\ deal.status \in DealBefore[action]
      <4>2. action \in Lifecycle \union {"fund"}
        BY <1>1 DEF JobOK
      <4>3. DealAfter[action] \in DealStatuses
        BY <4>2 DEF Lifecycle, DealAfter, DealStatuses
      <4>4. (deal.funded \/ action = "fund") \in BOOLEAN
        OBVIOUS
      <4>5. /\ deal' = [status |-> DealAfter[action], funded |-> deal.funded \/ action = "fund"]
            /\ reached' = reached \union {DealAfter[action]}
        BY <3>2 DEF MoveDeal
      <4> QED
        BY <4>3, <4>4, <4>5 DEF Inv, TypeOK
    <3> QED
      BY <3>1, <3>2
  <2> QED
    BY <2>2, <2>3 DEF Inv, TypeOK, MoveDeal
<1>3. CASE jobs' = [jobs EXCEPT ![w] = Failing(@, FALSE)] /\ UNCHANGED <<deal, reached>>
  <2>1. /\ jobs' \in [Workers -> Job] /\ (\A v \in Workers : JobOK(v)') /\ Exclusive'
        /\ (\A k \in Times : EventOK(k)') /\ CursorTruthful'
    <3> DEFINE f == Failing(jobs[w], FALSE)
    <3>1. /\ f \in Job /\ f.pc \in {"review", "record"} /\ f.at = jobs[w].at
          /\ f.todo = jobs[w].todo /\ (f.stop \/ ~(events[jobs[w].at].attempts + 1 >= MaxAttempts))
      BY <1>1, FailingJob
    <3>2. jobs' = [jobs EXCEPT ![w] = f]
      BY <1>3 DEF Inv, TypeOK
    <3> HIDE DEF f
    <3> QED
      BY <1>1, <3>1, <3>2, Fails DEF MoveDeal
  <2> QED
    BY <1>3, <2>1 DEF Inv, TypeOK, MoveDeal
<1> QED
  BY <1>2, <1>3 DEF MoveDeal

LEMMA ConsumeStep == ASSUME Inv, NEW w \in Workers, ConsumeIntent(w) PROVE Inv'
<1>1. jobs[w] \in Job /\ JobOK(w) /\ jobs[w].pc = "intent" /\ jobs[w].pc \in Applying /\ ~IsFundJob(w)
  BY DEF Inv, TypeOK, ConsumeIntent, Applying, JobOK
<1>2. Goes(w, "watch")
  BY <1>1 DEF ConsumeIntent, Following
<1>3. jobs[w].action \in Actions
  BY <1>1 DEF JobOK, Actions, Applying
<1>4. /\ jobs' \in [Workers -> Job] /\ (\A v \in Workers : JobOK(v)') /\ Exclusive'
      /\ (\A k \in Times : EventOK(k)') /\ CursorTruthful'
  BY <1>1, <1>2, GoesOn DEF ConsumeIntent
<1> QED
  BY <1>3, <1>4 DEF Inv, TypeOK, ConsumeIntent

LEMMA MoveWatchStep == ASSUME Inv, NEW w \in Workers, MoveWatch(w) PROVE Inv'
<1>1. jobs[w] \in Job /\ JobOK(w) /\ jobs[w].pc = "watch" /\ jobs[w].pc \in Applying
  BY DEF Inv, TypeOK, MoveWatch, Applying
<1>2. Goes(w, "commit")
  BY <1>1 DEF MoveWatch, Following
<1>4. jobs[w].action \in Lifecycle \union {"fund"}
  BY <1>1 DEF JobOK, Applying
<1>5. WatchAfter[jobs[w].action] \in {"FUNDED", "DISPUTED", "TERMINAL"}
  BY <1>4 DEF WatchAfter, Lifecycle
<1>6. watch' \in Watch /\ watch'.cursor = watch.cursor
  BY <1>5 DEF MoveWatch, Inv, TypeOK, Watch
<1>7. /\ jobs' \in [Workers -> Job] /\ (\A v \in Workers : JobOK(v)') /\ Exclusive'
      /\ (\A k \in Times : EventOK(k)') /\ CursorTruthful'
  BY <1>1, <1>2, <1>6, GoesOn DEF MoveWatch
<1> QED
  BY <1>6, <1>7 DEF Inv, TypeOK, MoveWatch

LEMMA ReviewStep == ASSUME Inv, NEW w \in Workers, Review(w) PROVE Inv'
<1>1. jobs[w].pc = "review" /\ jobs[w].pc \in Applying /\ Goes(w, "record")
  BY DEF Review, Applying
<1>2. watch' \in Watch /\ watch'.cursor = watch.cursor
  BY DEF Review, Inv, TypeOK, Watch
<1>3. /\ jobs' \in [Workers -> Job] /\ (\A v \in Workers : JobOK(v)') /\ Exclusive'
      /\ (\A k \in Times : EventOK(k)') /\ CursorTruthful'
  BY <1>1, <1>2, GoesOn DEF Review
<1> QED
  BY <1>2, <1>3 DEF Inv, TypeOK, Review

LEMMA FaultStep == ASSUME Inv, NEW w \in Workers, Fault(w) PROVE Inv'
<1>1. jobs[w] \in Job /\ JobOK(w) /\ jobs[w].pc \in Applying \ {"review", "record"}
  BY DEF Inv, TypeOK, Fault, Applying
<1>2. PICK final \in {FALSE, settings /\ jobs[w].pc = "book" /\ jobs[w].booked = 0
                             /\ ~events[jobs[w].at].reconciled} :
        jobs' = [jobs EXCEPT ![w] = [Failing(jobs[w], final) EXCEPT
          !.reconciled = Failing(jobs[w], final).reconciled /\ ~final,
          !.marked = IsFundJob(w) /\ jobs[w].pc = "watch"]]
  BY DEF Fault
<1>3. final \in BOOLEAN
  OBVIOUS
<1> DEFINE job == Failing(jobs[w], final)
<1> DEFINE marked == IsFundJob(w) /\ jobs[w].pc = "watch"
<1> DEFINE reconciled == job.reconciled /\ ~final
<1> DEFINE f == [job EXCEPT !.reconciled = reconciled, !.marked = marked]
<1>4. /\ job \in Job /\ job.pc \in {"review", "record"} /\ job.at = jobs[w].at
      /\ job.todo = jobs[w].todo /\ (job.stop \/ ~(events[jobs[w].at].attempts + 1 >= MaxAttempts))
  BY <1>1, <1>3, FailingJob
<1>5. jobs' = [jobs EXCEPT ![w] = f]
  BY <1>2
<1>6. marked \in BOOLEAN /\ reconciled \in BOOLEAN
  OBVIOUS
<1> HIDE DEF job, marked, reconciled
<1>7. /\ f \in Job /\ f.pc = job.pc /\ f.at = job.at /\ f.todo = job.todo /\ f.stop = job.stop
  BY <1>4, <1>6 DEF Job
<1>8. f.stop \/ ~(events[jobs[w].at].attempts + 1 >= MaxAttempts)
  BY <1>4, <1>7
<1> HIDE DEF f
<1>9. /\ jobs' \in [Workers -> Job] /\ (\A v \in Workers : JobOK(v)') /\ Exclusive'
      /\ (\A k \in Times : EventOK(k)') /\ CursorTruthful'
  BY <1>1, <1>4, <1>5, <1>7, <1>8, Fails DEF Fault
<1> QED
  BY <1>9, TroublesKept DEF Inv, TypeOK, Fault

LEMMA BookStep == ASSUME Inv, NEW w \in Workers, Book(w) PROVE Inv'
<1>1. jobs[w] \in Job /\ JobOK(w) /\ jobs[w].pc = "book" /\ jobs[w].pc \in Applying
  BY DEF Inv, TypeOK, Book, Applying
<1>3. jobs[w].action \in Lifecycle \union {"fund"}
  BY <1>1 DEF JobOK, Applying
<1>4. Entries[jobs[w].action] \in 0..3
  BY <1>3, EntriesAre
<1>7. taken' \in [Times -> SUBSET Actions]
  <2>1. jobs[w].at \in Times /\ jobs[w].action \in Actions
    BY <1>1, <1>3 DEF JobOK, Actions
  <2> QED
    BY <2>1 DEF Book, Inv, TypeOK
<1>5. CASE jobs[w].booked = Entries[jobs[w].action]
  <2>1. Goes(w, "deal")
    BY <1>5 DEF Book, Following
  <2>2. /\ jobs' \in [Workers -> Job] /\ (\A v \in Workers : JobOK(v)') /\ Exclusive'
        /\ (\A k \in Times : EventOK(k)') /\ CursorTruthful'
    BY <1>1, <2>1, GoesOn DEF Book
  <2> QED
    BY <1>5, <1>7, <2>2 DEF Inv, TypeOK, Book
<1>6. CASE jobs[w].booked # Entries[jobs[w].action]
  <2> DEFINE f == [jobs[w] EXCEPT !.booked = @ + 1]
  <2>1. jobs[w].booked \in 0..3 /\ jobs[w].booked < Entries[jobs[w].action] /\ jobs[w].booked + 1 \in 0..3
    BY <1>1, <1>4, <1>6 DEF JobOK, Job
  <2>2. /\ f \in Job /\ f.pc = "book" /\ f.at = jobs[w].at /\ f.todo = jobs[w].todo
        /\ f.booked = jobs[w].booked + 1 /\ f.action = jobs[w].action
    BY <1>1, <2>1 DEF Job
  <2>3. jobs' = [jobs EXCEPT ![w] = f] /\ jobs'[w] = f
    BY <1>6 DEF Book, Inv, TypeOK
  <2> HIDE DEF f
  <2>4. UNCHANGED <<chain, events, watch>>
    BY DEF Book
  <2>6. f.booked <= Entries[jobs[w].action]
    BY <1>4, <2>1, <2>2
  <2>7. JobOK(w)'
    BY <1>1, <2>2, <2>3, <2>4, <2>6 DEF JobOK, Applying, Accepted, Recorded, Closed
  <2>8. /\ jobs' \in [Workers -> Job] /\ (\A v \in Workers : JobOK(v)') /\ Exclusive'
        /\ (\A k \in Times : EventOK(k)') /\ CursorTruthful'
    BY <1>1, <2>2, <2>3, <2>4, <2>7, PlainSteps
  <2>9. ledger' \in [Times -> SUBSET (Actions \X (1..3))]
    <3>1. jobs[w].booked + 1 \in 1..3 /\ jobs[w].action \in Actions
      BY <1>3, <2>1 DEF Actions
    <3>2. ledger[jobs[w].at] \union {<<jobs[w].action, jobs[w].booked + 1>>}
            \in SUBSET (Actions \X (1..3))
      BY <1>1, <3>1 DEF JobOK, Inv, TypeOK
    <3> QED
      BY <1>6, <3>2 DEF Book, Inv, TypeOK
  <2> QED
    BY <1>7, <2>8, <2>9 DEF Inv, TypeOK, Book
<1> QED
  BY <1>5, <1>6

-----------------------------------------------------------------------------
(* The scan                                                                *)

LEMMA ObserveStep == ASSUME Inv, NEW w \in Workers, Observe(w) PROVE Inv'
<1>1. jobs[w] \in Job /\ JobOK(w) /\ jobs[w].pc = "scan" /\ jobs \in [Workers -> Job]
  BY DEF Inv, TypeOK, Observe
<1>2. CASE jobs[w].at > jobs[w].seen
  BY <1>2, EndsQuiet, Quits DEF Observe, Inv, TypeOK
<1>3. CASE ~(jobs[w].at > jobs[w].seen)
  <2>1. PICK k \in Times : /\ k = jobs[w].at /\ k \in 1..Len(chain) /\ jobs[w].seen <= Len(chain)
                           /\ Len(chain) \in Nat
    <3>1. jobs[w].at > 0 /\ jobs[w].seen <= Len(chain) /\ Len(chain) \in Nat
      BY <1>1 DEF JobOK, Inv, TypeOK
    <3>2. jobs[w].at \in 0..MaxChain + 1 /\ jobs[w].seen \in 0..MaxChain /\ MaxChain \in Nat
      BY <1>1, WatchAssumption DEF Job
    <3> QED
      BY <1>3, <3>1, <3>2 DEF Times
  <2> DEFINE f == [jobs[w] EXCEPT !.pc = "save", !.row = watch]
  <2> DEFINE outcome == IF Accepts(w, chain[k]) THEN "accepted" ELSE "rejected"
  <2>2. /\ jobs' = [jobs EXCEPT ![w] = f] /\ jobs'[w] = f
        /\ events' = IF events[k].outcome # "none" THEN events
                     ELSE [events EXCEPT ![k].outcome = outcome]
        /\ chain' = chain /\ watch' = watch
    BY <1>1, <1>3, <2>1 DEF Observe
  <2>3. watch \in Watch /\ events \in [Times -> Event]
    BY DEF Inv, TypeOK
  <2>4. /\ f \in Job /\ f.pc = "save" /\ f.at = k /\ f.row = watch /\ f.booked = 0
        /\ f.todo = jobs[w].todo /\ f.seen = jobs[w].seen
    BY <1>1, <2>1, <2>3 DEF Job, JobOK, Applying
  <2>5. outcome \in {"accepted", "rejected"}
    OBVIOUS
  <2>6. outcome = "accepted" => chain[k].action \in Lifecycle \union {"fund"}
    BY DEF Accepts
  <2> HIDE DEF f, outcome
  <2>7. /\ events' \in [Times -> Event]
        /\ \A j \in Times : j # k => events'[j] = events[j]
        /\ Recorded(k) => events'[k] = events[k]
        /\ ~Recorded(k) => events'[k].outcome = outcome /\ events'[k].attempts = events[k].attempts
                           /\ events'[k].applied = events[k].applied
                           /\ events'[k].stopped = events[k].stopped
    BY <2>1, <2>2, <2>3, <2>5 DEF Event, Recorded
  <2>8. Grows /\ Len(chain)' \in Nat /\ Recorded(k)'
    <3>1. Recorded(k)'
      BY <2>5, <2>7 DEF Recorded
    <3>2. \A j \in Times : Recorded(j) => events'[j].outcome = events[j].outcome
      BY <2>7
    <3> QED
      BY <2>1, <2>2, <3>1, <3>2 DEF Grows
  <2>9. ASSUME NEW j \in Times PROVE EventOK(j)'
    <3>1. CASE j # k \/ Recorded(k)
      BY <2>7, <2>8, <3>1, EventKept
    <3>2. CASE j = k /\ ~Recorded(k)
      <4>1. EventOK(k)
        BY <2>1 DEF Inv
      <4>2. ~Accepted(k) /\ ~Closed(k)
        BY <3>2, <4>1 DEF EventOK, Accepted, Recorded
      <4> QED
        BY <2>1, <2>2, <2>6, <2>7, <3>2, <4>1, <4>2
           DEF EventOK, Accepted, Recorded, Closed
    <3> QED
      BY <3>1, <3>2
  <2>10. \A j \in Times : j <= k \/ j <= watch.cursor => Recorded(j)'
    <3> SUFFICES ASSUME NEW j \in Times, j <= k \/ j <= watch.cursor PROVE Recorded(j)'
      OBVIOUS
    <3>1. CASE j = k
      BY <2>8, <3>1
    <3>2. CASE j # k
      <4>1. j < k \/ j <= watch.cursor
        BY <2>1, <3>2 DEF Times
      <4>2. watch.cursor \in 0..MaxChain
        BY <2>3 DEF Watch
      <4>3. Recorded(j)
        BY <1>1, <2>1, <4>1, <4>2, WatchAssumption DEF JobOK, Inv, CursorTruthful, Recorded, Times
      <4> QED
        BY <2>7, <3>2, <4>3 DEF Recorded
    <3> QED
      BY <3>1, <3>2
  <2>11. \A j \in jobs[w].todo : Accepted(j)'
    BY <1>1, <2>8 DEF JobOK, Job, Accepted, Recorded, Grows
  <2>12. JobOK(w)'
    BY <1>1, <2>1, <2>2, <2>4, <2>8, <2>10, <2>11 DEF JobOK, Applying
  <2>13. jobs' \in [Workers -> Job] /\ (\A v \in Workers : JobOK(v)') /\ Exclusive'
    BY <2>2, <2>4, <2>7, <2>8, <2>12, OneSteps DEF Applying
  <2>14. CursorTruthful'
    BY <2>2, <2>8, CursorKept
  <2> QED
    BY <2>7, <2>9, <2>13, <2>14 DEF Inv, TypeOK, Observe
<1> QED
  BY <1>2, <1>3

LEMMA AdvanceStep == ASSUME Inv, NEW w \in Workers, AdvanceCursor(w) PROVE Inv'
<1>1. /\ jobs[w] \in Job /\ JobOK(w) /\ jobs[w].pc = "save" /\ jobs \in [Workers -> Job]
      /\ MaxChain \in Nat
  BY WatchAssumption DEF Inv, TypeOK, AdvanceCursor
<1>2. PICK k \in Times : k = jobs[w].at
  BY <1>1 DEF JobOK
<1>3. /\ jobs[w].row \in Watch /\ jobs[w].seen <= Len(chain)
      /\ \A j \in Times : j <= k \/ j <= jobs[w].row.cursor => Recorded(j)
  BY <1>1, <1>2 DEF JobOK, Job
<1> DEFINE accepted == events[k].outcome = "accepted"
<1> DEFINE f == [jobs[w] EXCEPT !.row = NoWatch, !.pc = IF accepted THEN "lock" ELSE "scan",
                                !.at = IF accepted THEN k ELSE k + 1]
<1>4. jobs' = [jobs EXCEPT ![w] = f] /\ jobs'[w] = f
  BY <1>1, <1>2 DEF AdvanceCursor
<1>5. /\ f \in Job /\ f.pc = (IF accepted THEN "lock" ELSE "scan") /\ f.booked = 0
      /\ f.at = (IF accepted THEN k ELSE k + 1) /\ f.todo = jobs[w].todo /\ f.seen = jobs[w].seen
  <2>1. (IF accepted THEN k ELSE k + 1) \in 0..MaxChain + 1 /\ NoWatch \in Watch
    BY <1>1 DEF Times, NoWatch, Watch
  <2> QED
    BY <1>1, <2>1 DEF Job, JobOK, Applying
<1>6. chain' = chain /\ events' = events
  BY DEF AdvanceCursor
<1> HIDE DEF f
<1>7. JobOK(w)'
  BY <1>1, <1>2, <1>3, <1>4, <1>5, <1>6 DEF JobOK, Applying, Recorded, Accepted, Times
<1>8. /\ jobs' \in [Workers -> Job] /\ (\A v \in Workers : JobOK(v)') /\ Exclusive'
      /\ \A j \in Times : EventOK(j)'
  BY <1>4, <1>5, <1>6, <1>7, PlainSteps DEF Applying
<1>9. watch' \in Watch /\ CursorTruthful'
  <2>1. CASE k > jobs[w].row.cursor
    <3>1. watch' \in Watch /\ watch'.cursor = k
      BY <1>1, <1>2, <1>3, <2>1 DEF AdvanceCursor, Advanced, Watch, Times
    <3> QED
      BY <1>1, <1>3, <1>6, <3>1 DEF CursorTruthful, Recorded, Times
  <2>2. CASE ~(k > jobs[w].row.cursor)
    <3>1. watch' = watch
      BY <1>2, <2>2 DEF AdvanceCursor, Advanced
    <3> QED
      BY <1>6, <3>1 DEF Inv, TypeOK, CursorTruthful
  <2> QED
    BY <2>1, <2>2
<1> QED
  BY <1>8, <1>9 DEF Inv, TypeOK, AdvanceCursor

-----------------------------------------------------------------------------
(* The end of an application                                               *)

\* One event is rewritten under its lock: applied, stopped, or open with attempts left.
LEMMA Rewrites ==
  ASSUME Inv, NEW w \in Workers, NEW k \in Times, k = jobs[w].at, jobs[w].pc \in Applying, Leave(w),
         NEW e \in Event, events' = [events EXCEPT ![k] = e], e.outcome = events[k].outcome,
         e.applied \/ e.stopped \/ e.attempts < MaxAttempts,
         UNCHANGED <<settings, ahead, chain, escrow, consumed, watch, ledger, taken, deal, reached, troubles>>
  PROVE  Inv'
<1>1. /\ JobOK(w) /\ EventOK(k) /\ Accepted(k) /\ events \in [Times -> Event]
  BY DEF Inv, TypeOK, JobOK
<1>2. /\ events' \in [Times -> Event] /\ events'[k] = e
      /\ \A j \in Times : j # k => events'[j] = events[j]
  BY <1>1
<1>3. Grows /\ Len(chain)' \in Nat
  BY <1>2 DEF Grows, Inv, TypeOK
<1>4. PICK f \in Job : Quiet(f) /\ jobs' = [jobs EXCEPT ![w] = f]
  BY LeaveQuiet
<1>5. jobs' \in [Workers -> Job] /\ (\A v \in Workers : JobOK(v)') /\ Exclusive'
  BY <1>2, <1>3, <1>4, QuietSteps
<1>6. EventOK(k)'
  BY <1>1, <1>2 DEF EventOK, Recorded, Accepted, Closed
<1>7. \A j \in Times : EventOK(j)'
  BY <1>2, <1>3, <1>6, EventKept
<1>8. CursorTruthful'
  BY <1>3, CursorKept
<1> QED
  BY <1>2, <1>5, <1>7, <1>8 DEF Inv, TypeOK

LEMMA EventIs ==
  ASSUME NEW e \in Event, NEW n \in 0..MaxAttempts,
         NEW applied \in BOOLEAN, NEW stopped \in BOOLEAN, NEW reconciled \in BOOLEAN
  PROVE  [outcome |-> e.outcome, attempts |-> n, applied |-> applied, stopped |-> stopped,
          reconciled |-> reconciled] \in Event
  BY DEF Event

LEMMA EventAnew ==
  ASSUME NEW e \in Event, NEW n \in 0..MaxAttempts,
         NEW applied \in BOOLEAN, NEW stopped \in BOOLEAN, NEW reconciled \in BOOLEAN
  PROVE  [e EXCEPT !.attempts = n, !.stopped = stopped, !.applied = applied,
                   !.reconciled = reconciled] \in Event
<1>1. ASSUME NEW d \in Event PROVE [d EXCEPT !.attempts = n] \in Event
  BY DEF Event
<1>2. ASSUME NEW d \in Event PROVE [d EXCEPT !.stopped = stopped] \in Event
  BY DEF Event
<1>3. ASSUME NEW d \in Event PROVE [d EXCEPT !.applied = applied] \in Event
  BY DEF Event
<1>4. ASSUME NEW d \in Event PROVE [d EXCEPT !.reconciled = reconciled] \in Event
  BY DEF Event
<1>5. [e EXCEPT !.attempts = n, !.stopped = stopped, !.applied = applied,
                !.reconciled = reconciled]
      = [[[[e EXCEPT !.attempts = n] EXCEPT !.stopped = stopped] EXCEPT !.applied = applied]
           EXCEPT !.reconciled = reconciled]
  BY DEF Event
<1> QED
  BY <1>1, <1>2, <1>3, <1>4, <1>5

LEMMA CommitStep == ASSUME Inv, NEW w \in Workers, Commit(w) PROVE Inv'
<1>1. jobs[w] \in Job /\ JobOK(w) /\ jobs[w].pc = "commit" /\ jobs[w].pc \in Applying
  BY DEF Inv, TypeOK, Commit, Applying
<1>2. PICK k \in Times : k = jobs[w].at /\ ~Closed(k) /\ EventOK(k)
  BY <1>1 DEF JobOK, Inv
<1> DEFINE reconciled == events[k].reconciled \/ jobs[w].reconciled
<1> DEFINE e == [outcome |-> events[k].outcome, attempts |-> events[k].attempts + 1,
                 applied |-> TRUE, stopped |-> events[k].stopped, reconciled |-> reconciled]
<1>3. events[k] \in Event /\ events \in [Times -> Event]
  BY DEF Inv, TypeOK
<1>4. events[k].attempts + 1 \in 0..MaxAttempts
  BY <1>2, <1>3, WatchAssumption DEF EventOK, Event
<1>5. e \in Event
  <2>1. events[k].stopped \in BOOLEAN /\ reconciled \in BOOLEAN
    BY <1>3 DEF Event
  <2> HIDE DEF reconciled
  <2> QED
    BY <1>3, <1>4, <2>1, EventIs
<1>6. events' = [events EXCEPT ![k] = e]
  <2>1. events' = [events EXCEPT ![k].applied = TRUE, ![k].attempts = @ + 1,
                                 ![k].reconciled = reconciled]
    BY <1>2 DEF Commit
  <2> QED
    BY <1>3, <2>1 DEF Event
<1>7. e.outcome = events[k].outcome /\ e.applied
  OBVIOUS
<1> HIDE DEF e
<1> QED
  BY <1>1, <1>2, <1>5, <1>6, <1>7, Rewrites DEF Commit

LEMMA RecordStep == ASSUME Inv, NEW w \in Workers, Record(w) PROVE Inv'
<1>1. jobs[w] \in Job /\ JobOK(w) /\ jobs[w].pc = "record" /\ jobs[w].pc \in Applying
  BY DEF Inv, TypeOK, Record, Applying
<1>2. PICK k \in Times : k = jobs[w].at /\ ~Closed(k) /\ EventOK(k)
  BY <1>1 DEF JobOK, Inv
<1> DEFINE reconciled == events[k].reconciled \/ jobs[w].reconciled
<1> DEFINE e == [events[k] EXCEPT !.attempts = events[k].attempts + 1, !.stopped = jobs[w].stop,
                                  !.applied = jobs[w].marked, !.reconciled = reconciled]
<1>3. events[k] \in Event /\ events \in [Times -> Event]
  BY DEF Inv, TypeOK
<1>4. events[k].attempts + 1 \in 0..MaxAttempts
  BY <1>2, <1>3, WatchAssumption DEF EventOK, Event
<1>5. e \in Event
  <2>1. jobs[w].marked \in BOOLEAN /\ jobs[w].stop \in BOOLEAN /\ reconciled \in BOOLEAN
    BY <1>1 DEF Job
  <2> HIDE DEF reconciled
  <2> QED
    BY <1>3, <1>4, <2>1, EventAnew
<1>6. events' = [events EXCEPT ![k] = e]
  BY <1>2 DEF Record
<1>7. jobs[w].stop \/ events[k].attempts + 1 < MaxAttempts
  BY <1>1, <1>2 DEF JobOK
<1>8. e.outcome = events[k].outcome /\ (e.stopped \/ e.attempts < MaxAttempts)
  BY <1>3, <1>7 DEF Event
<1> HIDE DEF e
<1> QED
  BY <1>1, <1>2, <1>5, <1>6, <1>8, Rewrites DEF Record

-----------------------------------------------------------------------------
(* Steps of the world                                                      *)

LEMMA JobsRest ==
  ASSUME Inv, jobs' = jobs, Grows, Len(chain)' \in Nat,
         \A k \in Times : events'[k] = events[k] \/ ~Locked(k)
  PROVE  (\A v \in Workers : JobOK(v)') /\ Exclusive'
<1>1. ASSUME NEW v \in Workers PROVE JobOK(v)'
  <2>1. jobs[v].pc \in Applying => events'[jobs[v].at] = events[jobs[v].at]
    BY DEF Inv, JobOK, Locked
  <2> QED
    BY <2>1, JobKept
<1>2. Exclusive'
  BY DEF Inv, Exclusive
<1> QED
  BY <1>1, <1>2

LEMMA RequeueStep == ASSUME Inv, NEW k \in Times, Requeue(k) PROVE Inv'
<1>1. events \in [Times -> Event] /\ events[k] \in Event /\ EventOK(k) /\ MaxAttempts \in Nat \ {0}
  BY WatchAssumption DEF Inv, TypeOK
<1>2. /\ events' \in [Times -> Event] /\ \A j \in Times : j # k => events'[j] = events[j]
      /\ events'[k].outcome = events[k].outcome /\ events'[k].attempts = 0
      /\ events'[k].applied = FALSE /\ events'[k].stopped = FALSE
  <2> DEFINE open == [events[k] EXCEPT !.stopped = FALSE]
  <2> DEFINE e == [open EXCEPT !.attempts = 0]
  <2>1. ~events[k].applied /\ events[k].applied \in BOOLEAN
    BY <1>1 DEF Requeue, Event
  <2>2. events[k].applied = FALSE
    BY <2>1
  <2>3. open \in Event /\ open.outcome = events[k].outcome /\ open.stopped = FALSE
        /\ open.applied = events[k].applied
    BY <1>1 DEF Event
  <2>4. events' = [events EXCEPT ![k] = e]
    <3>1. events' = [[events EXCEPT ![k].stopped = FALSE] EXCEPT ![k].attempts = 0]
      BY DEF Requeue
    <3> QED
      BY <1>1, <3>1
  <2> HIDE DEF open
  <2>5. e \in Event /\ e.attempts = 0 /\ e.outcome = open.outcome /\ e.stopped = open.stopped
        /\ e.applied = open.applied
    BY <1>1, <2>3 DEF Event
  <2> QED
    BY <1>1, <2>2, <2>3, <2>4, <2>5
<1>3. Grows /\ Len(chain)' \in Nat
  BY <1>2 DEF Grows, Inv, TypeOK, Requeue
<1>4. EventOK(k)'
  BY <1>1, <1>2 DEF EventOK, Accepted, Recorded, Closed, Requeue
<1>5. \A j \in Times : EventOK(j)'
  BY <1>2, <1>3, <1>4, EventKept
<1>6. (\A v \in Workers : JobOK(v)') /\ Exclusive'
  BY <1>2, <1>3, JobsRest DEF Requeue
<1>7. CursorTruthful'
  BY <1>3, CursorKept DEF Requeue
<1> QED
  BY <1>2, <1>5, <1>6, <1>7, TroublesKept DEF Inv, TypeOK, Requeue

LEMMA TransactStep ==
  ASSUME Inv, NEW action \in Actions, NEW intended \in BOOLEAN, Transact(action, intended)
  PROVE  Inv'
<1> DEFINE Tx == [action : Actions, intended : BOOLEAN]
<1>1. /\ chain \in Seq(Tx) /\ Len(chain) < MaxChain /\ MaxChain \in Nat /\ Len(chain) \in Nat
      /\ chain' = Append(chain, [action |-> action, intended |-> intended])
  BY WatchAssumption DEF Inv, TypeOK, Transact
<1>2. /\ chain' \in Seq(Tx) /\ Len(chain)' = Len(chain) + 1
      /\ \A k \in 1..Len(chain) : chain'[k] = chain[k]
  BY <1>1
<1>3. Grows /\ Len(chain)' \in Nat /\ Len(chain)' <= MaxChain
  BY <1>1, <1>2 DEF Grows, Transact
<1>4. \A k \in Times : EventOK(k)'
  BY <1>3, EventKept DEF Transact
<1>5. (\A v \in Workers : JobOK(v)') /\ Exclusive' /\ CursorTruthful'
  BY <1>3, JobsRest, CursorKept DEF Transact
<1>6. escrow' \in {"UNFUNDED", "FUNDED", "DELIVERED", "DISPUTED", "CLOSED"}
  BY DEF Transact, Beyond, Actions, Lifecycle, Inv, TypeOK
<1> QED
  BY <1>2, <1>3, <1>4, <1>5, <1>6 DEF Inv, TypeOK, Transact

LEMMA MoveStep == ASSUME Inv, NEW next \in DealStatuses, Move(next) PROVE Inv'
<1>1. Grows /\ Len(chain)' \in Nat
  BY DEF Grows, Inv, TypeOK, Move
<1>2. /\ (\A k \in Times : EventOK(k)') /\ CursorTruthful'
      /\ (\A v \in Workers : JobOK(v)') /\ Exclusive'
  BY <1>1, EventKept, CursorKept, JobsRest DEF Move
<1>3. deal' \in [status : DealStatuses, funded : BOOLEAN] /\ reached' \subseteq DealStatuses
  BY DEF Move, Inv, TypeOK
<1> QED
  BY <1>2, <1>3, TroublesKept DEF Inv, TypeOK, Move

LEMMA RecedeStep == ASSUME Inv, Recede PROVE Inv'
<1>1. Grows /\ Len(chain)' \in Nat
  BY DEF Grows, Inv, TypeOK, Recede
<1>2. /\ (\A k \in Times : EventOK(k)') /\ CursorTruthful'
      /\ (\A v \in Workers : JobOK(v)') /\ Exclusive'
  BY <1>1, EventKept, CursorKept, JobsRest DEF Recede
<1>3. ahead' \in 0..MaxAhead
  BY WatchAssumption DEF Recede, Inv, TypeOK
<1> QED
  BY <1>2, <1>3 DEF Inv, TypeOK, Recede

LEMMA InvKept == ASSUME Inv, [Next]_vars PROVE Inv'
<1>1. CASE UNCHANGED vars
  <2>1. Grows /\ Len(chain)' \in Nat
    BY <1>1 DEF Grows, Inv, TypeOK, vars
  <2>2. /\ (\A k \in Times : EventOK(k)') /\ CursorTruthful'
        /\ (\A v \in Workers : JobOK(v)') /\ Exclusive'
    BY <1>1, <2>1, EventKept, CursorKept, JobsRest DEF vars
  <2> QED
    BY <1>1, <2>2 DEF Inv, TypeOK, vars
<1>2. ASSUME NEW w \in Workers, Works(w) PROVE Inv'
  BY <1>2, StartRunStep, ListStep, ObserveStep, AdvanceStep, LockStep, BookStep, MoveDealStep,
     ConsumeStep, MoveWatchStep, CommitStep, ReviewStep, RecordStep DEF Works
<1> QED
  BY <1>1, <1>2, TransactStep, MoveStep, RecedeStep, BackfillStep, FaultStep, CrashStep, RequeueStep DEF Next

-----------------------------------------------------------------------------
(* Results                                                                 *)

LEMMA Invariance == Spec => []Inv
  BY InitInv, InvKept, PTL DEF Spec

\* Attempts, entries and positions stay within their bounds.
THEOREM Typed == Spec => []TypeOK
<1>1. Inv => TypeOK
  BY DEF Inv
<1> QED
  BY <1>1, Invariance, PTL

\* CursorTruthful: no transaction behind the cursor is unrecorded, whichever jobs, backfills and
\* crashes moved the cursor, and although a row read earlier is saved over it.
THEOREM CursorIsTruthful == Spec => []CursorTruthful
<1>1. Inv => CursorTruthful
  BY DEF Inv
<1> QED
  BY <1>1, Invariance, PTL

Kept(k) ==
  /\ events[k].applied \/ events[k].stopped
  /\ events'[k].applied \/ events'[k].stopped
  => events'[k] = events[k] /\ ledger'[k] = ledger[k]

LEMMA AllKept == ASSUME Inv, Next, NEW k \in Times PROVE Kept(k)
<1> USE DEF Kept
<1>0. events \in [Times -> Event] /\ EventOK(k)
      /\ ledger \in [Times -> SUBSET (Actions \X (1..3))]
  BY DEF Inv, TypeOK
<1>1. ASSUME UNCHANGED <<events, ledger>> PROVE Kept(k)
  BY <1>1
<1>2. ASSUME NEW w \in Workers, Observe(w) PROVE Kept(k)
  <2>1. CASE Closed(k)
    <3>1. events[k].outcome # "none"
      BY <1>0, <2>1 DEF EventOK, Accepted
    <3> QED
      BY <1>0, <1>2, <3>1 DEF Observe
  <2>2. CASE ~Closed(k)
    BY <2>2 DEF Closed
  <2> QED
    BY <2>1, <2>2
<1>3. ASSUME NEW w \in Workers, Book(w) \/ Commit(w) \/ Record(w) PROVE Kept(k)
  <2>1. jobs[w].pc \in Applying /\ JobOK(w)
    BY <1>3 DEF Book, Commit, Record, Applying, Inv
  <2>2. ~Closed(jobs[w].at)
    BY <2>1 DEF JobOK
  <2>3. jobs[w].at # k => events'[k] = events[k] /\ ledger'[k] = ledger[k]
    BY <1>0, <1>3 DEF Book, Commit, Record
  <2> QED
    BY <2>2, <2>3 DEF Closed
<1>4. ASSUME NEW j \in Times, Requeue(j) PROVE Kept(k)
  <2>1. j # k => events'[k] = events[k]
    BY <1>0, <1>4 DEF Requeue
  <2>2. j = k => ~(events'[k].applied \/ events'[k].stopped)
    BY <1>0, <1>4 DEF Requeue, Event
  <2>3. ledger' = ledger
    BY <1>4 DEF Requeue
  <2> QED
    BY <2>1, <2>2, <2>3
<1>5. ASSUME NEW w \in Workers, Works(w) PROVE Kept(k)
  BY <1>1, <1>2, <1>3, <1>5 DEF Works, StartRun, List, AdvanceCursor, LockEvent, MoveDeal,
     ConsumeIntent, MoveWatch, Review
<1> QED
  BY <1>1, <1>4, <1>5 DEF Next, Transact, Move, Recede, Backfill, Fault, Crash

\* ClosedRests: an event that has been applied, or stopped and not requeued, is not worked on by
\* any job, however many of them have listed it before.
THEOREM ClosedStaysPut == Spec => ClosedRests
<1>1. Inv /\ [Next]_vars =>
        [\A k \in Times : /\ events[k].applied \/ events[k].stopped
                          /\ events'[k].applied \/ events'[k].stopped
                          => events'[k] = events[k] /\ ledger'[k] = ledger[k]]_vars
  BY AllKept DEF Kept
<1> QED
  BY <1>1, Invariance, PTL DEF Spec, ClosedRests

-----------------------------------------------------------------------------
(* Applications are whole and the books follow the chain                   *)

Sent == 1..Len(chain)
IsFunding(k) == chain[k].action = "fund"
Exits == {"release", "refund", "resolve"}

\* The order in which the contract allows its transactions.
ChainOK ==
  /\ \A k \in Sent : chain[k].action \in Lifecycle => \E j \in Sent : j < k /\ IsFunding(j)
  /\ \A j, k \in Sent : IsFunding(j) /\ IsFunding(k) => j = k
  /\ \A j, k \in Sent : chain[j].action \in Exits /\ chain[k].action \in Exits => j = k
  /\ escrow = "UNFUNDED" => \A k \in Sent : ~IsFunding(k)
  /\ escrow # "UNFUNDED" => \E k \in Sent : IsFunding(k)
  /\ escrow # "CLOSED" => \A k \in Sent : chain[k].action \notin Exits

\* A deal is paid before it can be anything but open or cancelled.
ReachedOK ==
  /\ deal.status \in reached
  /\ deal.funded => "IN_PROGRESS" \in reached
  /\ deal.status \in {"PENDING_PAYMENT", "CANCELLED"} \/ "IN_PROGRESS" \in reached

\* What a job has done of the event it applies, as what it takes it for.
Progress(w) ==
  LET job == jobs[w] IN
  /\ job.pc = "book" => {job.action} \X (1..job.booked) \subseteq ledger[job.at]
  /\ job.pc \in {"deal", "intent", "watch", "commit"} =>
       job.action \in taken[job.at] /\ Booked(job.action) \subseteq ledger[job.at]
  /\ job.pc \in {"intent", "watch", "commit"} => DealAfter[job.action] \in reached
  /\ job.pc \in {"watch", "commit"} /\ ~IsFundJob(w) => job.action \in consumed
  /\ job.marked => /\ job.pc \in {"review", "record"}
                   /\ "fund" \in taken[job.at] /\ Booked("fund") \subseteq ledger[job.at]
                   /\ "IN_PROGRESS" \in reached

\* The watch has been handed over to the lifecycle jobs, or is about to be by a row read earlier.
HandedOver == {"FUNDED", "DISPUTED", "TERMINAL"}
Active(w) == ~IsFundJob(w) /\ jobs[w].pc \notin {"idle", "list"}
Handed ==
  \/ watch.status \in HandedOver
  \/ \E w \in Workers : Active(w) \/ jobs[w].row.status \in HandedOver
  \/ \E k \in Times : Accepted(k) /\ ~IsFunding(k)

\* The funding is in the books, whatever else is booked with it.
FundingBooked == \E k \in Times : Accepted(k) /\ IsFunding(k) /\ Booked("fund") \subseteq ledger[k]

PhaseOK == Handed => FundingBooked

Whole(k, action) ==
  /\ Booked(action) \subseteq ledger[k]
  /\ DealAfter[action] \in reached
  /\ action # "fund" => action \in consumed

LedgerOK(k) ==
  /\ ledger[k] # {} => Accepted(k)
  /\ Accepted(k) => chain[k].intended
  /\ \A entry \in ledger[k] : \E action \in taken[k] : entry \in Booked(action)
  /\ events[k].applied => \E action \in taken[k] : Whole(k, action)

Wholeness ==
  /\ ChainOK /\ ReachedOK /\ PhaseOK
  /\ \A w \in Workers : Progress(w)
  /\ \A k \in Times : LedgerOK(k)

\* Most of it is about things that only grow.
Mono ==
  /\ Grows /\ chain' \in Seq([action : Actions, intended : BOOLEAN])
  /\ \A k \in Times : ledger[k] \subseteq ledger'[k] /\ taken[k] \subseteq taken'[k]
  /\ \A k \in Times : events[k].applied => events'[k].applied
  /\ reached \subseteq reached' /\ consumed \subseteq consumed'

LEMMA InitWhole == Init => Wholeness
<1> SUFFICES ASSUME Init PROVE Wholeness
  OBVIOUS
<1>1. ChainOK /\ ReachedOK
  BY DEF Init, ChainOK, ReachedOK, Sent
<1>2. ~Handed /\ \A k \in Times : ~Accepted(k)
  BY DEF Init, Handed, Active, NoWatch, Accepted, NoEvent, Resting, HandedOver
<1>3. PhaseOK /\ \A k \in Times : LedgerOK(k)
  BY <1>2 DEF PhaseOK, LedgerOK, Init, NoEvent
<1>4. \A w \in Workers : Progress(w)
  BY DEF Init, Progress, Resting
<1> QED
  BY <1>1, <1>3, <1>4 DEF Wholeness

LEMMA EventRests ==
  ASSUME events \in [Times -> Event], NEW j \in Times, Requeue(j), NEW k \in Times
  PROVE  events'[k].outcome = events[k].outcome
<1>1. CASE k # j
  BY <1>1 DEF Requeue
<1>2. CASE k = j
  <2>1. events' = [[events EXCEPT ![j].stopped = FALSE] EXCEPT ![j].attempts = 0]
    BY DEF Requeue
  <2> QED
    BY <1>2, <2>1 DEF Event
<1> QED
  BY <1>1, <1>2

LEMMA Observed ==
  ASSUME events \in [Times -> Event], NEW w \in Workers, Observe(w), NEW k \in Times
  PROVE  /\ events'[k].applied = events[k].applied
         /\ events'[k] # events[k] =>
              /\ ~Recorded(k) /\ k = jobs[w].at
              /\ events'[k].outcome = IF Accepts(w, chain[k]) THEN "accepted" ELSE "rejected"
<1>1. CASE events' = events
  BY <1>1
<1>2. CASE events' # events
  <2> DEFINE outcome == IF Accepts(w, chain[jobs[w].at]) THEN "accepted" ELSE "rejected"
  <2>1. /\ events' = [events EXCEPT ![jobs[w].at].outcome = outcome]
        /\ events[jobs[w].at].outcome = "none"
    BY <1>2 DEF Observe
  <2> HIDE DEF outcome
  <2>2. CASE k = jobs[w].at
    <3>1. events'[k].applied = events[k].applied /\ events'[k].outcome = outcome
      BY <2>1, <2>2 DEF Event
    <3> QED
      BY <2>1, <2>2, <3>1 DEF Recorded, outcome
  <2>3. CASE k # jobs[w].at
    BY <2>1, <2>3
  <2> QED
    BY <2>2, <2>3
<1> QED
  BY <1>1, <1>2

LEMMA Finished ==
  ASSUME events \in [Times -> Event], NEW w \in Workers, Commit(w) \/ Record(w), NEW k \in Times
  PROVE  events'[k].outcome = events[k].outcome
<1>1. CASE Commit(w)
  <2> DEFINE j == jobs[w].at
  <2> DEFINE reconciled == events[j].reconciled \/ jobs[w].reconciled
  <2>1. events' = [events EXCEPT ![j].applied = TRUE, ![j].attempts = @ + 1,
                                 ![j].reconciled = reconciled]
    BY <1>1 DEF Commit
  <2> HIDE DEF reconciled
  <2> QED
    BY <2>1 DEF Event
<1>2. CASE Record(w)
  <2> DEFINE j == jobs[w].at
  <2> DEFINE reconciled == events[j].reconciled \/ jobs[w].reconciled
  <2>1. events' = [events EXCEPT ![j] = [events[j] EXCEPT !.attempts = @ + 1,
          !.stopped = jobs[w].stop, !.applied = jobs[w].marked, !.reconciled = reconciled]]
    BY <1>2 DEF Record
  <2> HIDE DEF reconciled
  <2> QED
    BY <2>1 DEF Event
<1> QED
  BY <1>1, <1>2

LEMMA MonoSteps == ASSUME Inv, Inv', Next PROVE Mono
<1>0. /\ events \in [Times -> Event] /\ events' \in [Times -> Event]
      /\ ledger \in [Times -> SUBSET (Actions \X (1..3))]
      /\ taken \in [Times -> SUBSET Actions]
      /\ chain \in Seq([action : Actions, intended : BOOLEAN]) /\ Len(chain) \in Nat
      /\ chain' \in Seq([action : Actions, intended : BOOLEAN])
  BY WatchAssumption DEF Inv, TypeOK
<1> DEFINE Stays == UNCHANGED <<chain, events, ledger, reached, consumed>>
<1>1. ASSUME UNCHANGED <<chain, events>> PROVE Grows
  BY <1>0, <1>1 DEF Grows
<1>3. reached \subseteq reached' /\ consumed \subseteq consumed'
  BY DEF Next, Transact, Move, Recede, Works, Backfill, Fault, Crash, Requeue, StartRun, List,
     Observe, AdvanceCursor, LockEvent, Book, MoveDeal, ConsumeIntent, MoveWatch, Commit, Review,
     Record
<1>4. \A k \in Times : ledger[k] \subseteq ledger'[k] /\ taken[k] \subseteq taken'[k]
  <2>1. ASSUME NEW w \in Workers, Book(w)
        PROVE  \A k \in Times : ledger[k] \subseteq ledger'[k] /\ taken[k] \subseteq taken'[k]
    BY <1>0, <2>1 DEF Book
  <2> QED
    BY <2>1 DEF Next, Transact, Move, Recede, Works, Backfill, Fault, Crash, Requeue, StartRun, List,
       Observe, AdvanceCursor, LockEvent, MoveDeal, ConsumeIntent, MoveWatch, Commit, Review, Record
<1>5. \A k \in Times : events[k].applied => events'[k].applied
  <2>1. ASSUME NEW w \in Workers, Observe(w) PROVE \A k \in Times : events'[k].applied = events[k].applied
    BY <1>0, <2>1, Observed
  <2>2. ASSUME NEW w \in Workers, Commit(w) \/ Record(w), NEW k \in Times, events[k].applied
        PROVE  events'[k].applied
    <3>1. JobOK(w) /\ jobs[w].pc \in Applying
      BY <2>2 DEF Inv, Commit, Record, Applying
    <3>2. jobs[w].at # k
      BY <2>2, <3>1 DEF JobOK, Closed
    <3>3. events'[k] = events[k]
      BY <1>0, <2>2, <3>2 DEF Commit, Record
    <3> QED
      BY <2>2, <3>3
  <2>3. ASSUME NEW j \in Times, Requeue(j) PROVE \A k \in Times : events[k].applied => events'[k].applied
    <3>1. \A k \in Times : k # j => events'[k] = events[k]
      BY <1>0, <2>3 DEF Requeue
    <3> QED
      BY <2>3, <3>1 DEF Requeue
  <2> QED
    BY <2>1, <2>2, <2>3 DEF Next, Transact, Move, Recede, Works, Backfill, Fault, Crash, StartRun, List,
       AdvanceCursor, LockEvent, Book, MoveDeal, ConsumeIntent, MoveWatch, Review
<1>6. Grows
  <2>1. ASSUME NEW action \in Actions, NEW intended \in BOOLEAN, Transact(action, intended) PROVE Grows
    BY <1>0, <2>1 DEF Transact, Grows
  <2>2. ASSUME NEW w \in Workers, Observe(w) PROVE Grows
    <3>1. chain' = chain /\ \A k \in Times : Recorded(k) => events'[k] = events[k]
      BY <1>0, <2>2, Observed DEF Observe
    <3> QED
      BY <1>0, <3>1 DEF Grows
  <2>4. ASSUME NEW w \in Workers, Commit(w) \/ Record(w) PROVE Grows
    <3>1. \A k \in Times : events'[k].outcome = events[k].outcome
      BY <1>0, <2>4, Finished
    <3>2. chain' = chain
      BY <2>4 DEF Commit, Record
    <3> QED
      BY <1>0, <3>1, <3>2 DEF Grows
  <2>3. ASSUME NEW j \in Times, Requeue(j) PROVE Grows
    <3>1. \A k \in Times : events'[k].outcome = events[k].outcome
      BY <1>0, <2>3, EventRests
    <3>2. chain' = chain
      BY <2>3 DEF Requeue
    <3> QED
      BY <1>0, <3>1, <3>2 DEF Grows
  <2> QED
    BY <1>1, <2>1, <2>2, <2>3, <2>4 DEF Next, Move, Recede, Works, Backfill, Fault, Crash, StartRun, List,
       AdvanceCursor, LockEvent, Book, MoveDeal, ConsumeIntent, MoveWatch, Review
<1> QED
  BY <1>0, <1>3, <1>4, <1>5, <1>6 DEF Mono

\* An event that has been recorded is about a transaction that stays what it is.
LEMMA SentKept ==
  ASSUME Inv, Mono, NEW k \in Times, Recorded(k)
  PROVE  /\ k \in Sent /\ k \in Sent' /\ chain'[k] = chain[k] /\ IsFunding(k)' = IsFunding(k)
         /\ Accepted(k)' = Accepted(k)
<1>1. k <= Len(chain) /\ Len(chain) \in Nat /\ k \in Nat /\ k >= 1 /\ MaxChain \in Nat
  BY WatchAssumption DEF Inv, TypeOK, EventOK, Times
<1>2. k \in Sent
  BY <1>1 DEF Sent
<1>3. Len(chain) <= Len(chain)' /\ chain'[k] = chain[k] /\ Len(chain)' \in Nat
      /\ events'[k].outcome = events[k].outcome
  BY <1>2 DEF Mono, Grows, Sent
<1> QED
  BY <1>1, <1>2, <1>3 DEF Sent, IsFunding, Accepted

LEMMA AtEvent ==
  ASSUME Inv, NEW w \in Workers, jobs[w].pc \in {"lock"} \union Applying
  PROVE  /\ jobs[w].at \in Times /\ Recorded(jobs[w].at) /\ Accepted(jobs[w].at)
         /\ IsFunding(jobs[w].at) \/ chain[jobs[w].at].action \in Lifecycle
<1>1. JobOK(w)
  BY DEF Inv
<1>2. jobs[w].at \in Times /\ Accepted(jobs[w].at)
  BY <1>1 DEF JobOK
<1>3. EventOK(jobs[w].at)
  BY <1>2 DEF Inv
<1> QED
  BY <1>2, <1>3 DEF EventOK, Recorded, Accepted, IsFunding

\* What a job has done stays done when others work.
LEMMA ProgressKept ==
  ASSUME Inv, Mono, NEW v \in Workers, jobs'[v] = jobs[v], Progress(v)
  PROVE  Progress(v)'
<1>1. jobs[v].pc \in Applying =>
        /\ jobs[v].at \in Times /\ ledger[jobs[v].at] \subseteq ledger'[jobs[v].at]
        /\ taken[jobs[v].at] \subseteq taken'[jobs[v].at]
  BY AtEvent DEF Mono
<1> QED
  BY <1>1 DEF Progress, Mono, Applying, IsFundJob

LEMMA LedgerKept ==
  ASSUME Inv, Mono, NEW k \in Times, LedgerOK(k), ledger'[k] = ledger[k],
         Accepted(k)' => Accepted(k) \/ chain'[k].intended,
         events'[k].applied => events[k].applied \/ \E action \in taken[k] : Whole(k, action)
  PROVE  LedgerOK(k)'
<1>1. Accepted(k) => Accepted(k)' /\ chain'[k] = chain[k]
  BY SentKept DEF Accepted, Recorded
<1>2. taken[k] \subseteq taken'[k]
  BY DEF Mono
<1>3. ASSUME NEW action \in taken[k], Whole(k, action) PROVE Whole(k, action)'
  BY <1>3 DEF Whole, Mono
<1>4. events'[k].applied => \E action \in taken'[k] : Whole(k, action)'
  BY <1>2, <1>3 DEF LedgerOK
<1>5. \A entry \in ledger'[k] : \E action \in taken'[k] : entry \in Booked(action)
  BY <1>2 DEF LedgerOK
<1>6. /\ ledger'[k] # {} => Accepted(k)'
      /\ Accepted(k)' => chain'[k].intended
  BY <1>1 DEF LedgerOK
<1> QED
  BY <1>4, <1>5, <1>6 DEF LedgerOK

LEMMA LedgerStays ==
  ASSUME Inv, Mono, Wholeness, UNCHANGED <<events, ledger>>
  PROVE  \A k \in Times : LedgerOK(k)'
BY LedgerKept DEF Wholeness, Accepted

\* Once the funding is booked it stays so.
LEMMA PaidStays == ASSUME Inv, Mono, FundingBooked PROVE FundingBooked'
<1>1. PICK k \in Times : Accepted(k) /\ IsFunding(k) /\ Booked("fund") \subseteq ledger[k]
  BY DEF FundingBooked
<1>2. Accepted(k)' /\ IsFunding(k)' /\ ledger[k] \subseteq ledger'[k]
  BY <1>1, SentKept DEF Accepted, Recorded, Mono
<1> QED
  BY <1>1, <1>2 DEF FundingBooked

LEMMA HandedPaid ==
  ASSUME Wholeness
  PROVE  /\ watch.status \in HandedOver => FundingBooked
         /\ \A w \in Workers : jobs[w].row.status \in HandedOver => FundingBooked
         /\ \A w \in Workers : ~IsFundJob(w) /\ jobs[w].pc \notin {"idle", "list"} => FundingBooked
         /\ \A k \in Times : Accepted(k) /\ ~IsFunding(k) => FundingBooked
BY DEF Wholeness, PhaseOK, Handed, Active

\* A step of one job, and what the job itself has to show.
LEMMA StepWhole ==
  ASSUME Inv, Mono, Wholeness, NEW w \in Workers, NEW f \in Job, jobs' = [jobs EXCEPT ![w] = f],
         UNCHANGED <<chain, escrow>>, ReachedOK', Progress(w)', \A k \in Times : LedgerOK(k)',
         \A k \in Times : Accepted(k)' /\ ~IsFunding(k) => Accepted(k) \/ FundingBooked,
         watch'.status \in HandedOver => FundingBooked,
         f.row.status \in HandedOver => FundingBooked,
         ~IsFundJob(w) /\ f.pc \notin {"idle", "list"} => FundingBooked
  PROVE  Wholeness'
<1>1. /\ jobs'[w] = f /\ \A v \in Workers : v # w => jobs'[v] = jobs[v]
  BY DEF Inv, TypeOK
<1>2. ChainOK'
  BY DEF Wholeness, ChainOK, Sent, IsFunding
<1>3. \A v \in Workers : Progress(v)'
  BY <1>1, ProgressKept DEF Wholeness
<1>4. PhaseOK'
  <2> SUFFICES ASSUME Handed' PROVE FundingBooked
    BY PaidStays DEF PhaseOK
  <2>1. ASSUME NEW v \in Workers, Active(v)' \/ jobs'[v].row.status \in HandedOver PROVE FundingBooked
    BY <1>1, <2>1, HandedPaid DEF Active, IsFundJob
  <2>2. ASSUME NEW k \in Times, Accepted(k)' /\ ~IsFunding(k)' PROVE FundingBooked
    <3>1. ~IsFunding(k)
      BY <2>2 DEF IsFunding
    <3> QED
      BY <2>2, <3>1, HandedPaid
  <2> QED
    BY <2>1, <2>2 DEF Handed
<1> QED
  BY <1>2, <1>3, <1>4 DEF Wholeness

-----------------------------------------------------------------------------
(* Jobs that come and go                                                   *)

\* A job that rests, reads the watch, or goes on to another event.
Leaves(f) == f.pc \in {"idle", "list", "lock"} /\ f.marked = FALSE /\ f.row = NoWatch

LEMMA TakesLeaves ==
  ASSUME NEW w \in Workers, NEW todo \in SUBSET Times, Takes(w, todo)
  PROVE  \E f \in Job : /\ Leaves(f) /\ jobs' = [jobs EXCEPT ![w] = f]
                        /\ todo = {} => f.pc = "list"
<1>1. CASE todo = {} /\ jobs' = [jobs EXCEPT ![w] = [Resting EXCEPT !.pc = "list"]]
  <2> DEFINE f == [Resting EXCEPT !.pc = "list"]
  <2>1. f \in Job
    BY RestingIsJob DEF Job, Resting
  <2>2. Leaves(f) /\ f.pc = "list"
    BY <2>1 DEF Leaves, Resting
  <2> QED
    BY <1>1, <2>1, <2>2
<1>2. ASSUME NEW k \in todo,
             jobs' = [jobs EXCEPT ![w] = [Resting EXCEPT !.pc = "lock", !.at = k, !.todo = todo \ {k}]]
      PROVE  \E f \in Job : /\ Leaves(f) /\ jobs' = [jobs EXCEPT ![w] = f]
                            /\ todo = {} => f.pc = "list"
  <2> DEFINE f == [Resting EXCEPT !.pc = "lock", !.at = k, !.todo = todo \ {k}]
  <2>1. k \in 0..MaxChain + 1 /\ todo \ {k} \subseteq Times
    BY WatchAssumption DEF Times
  <2>2. f \in Job
    BY <2>1, RestingIsJob DEF Job, Resting
  <2>3. Leaves(f)
    BY <2>2 DEF Leaves, Resting
  <2> QED
    BY <1>2, <2>2, <2>3
<1> QED
  BY <1>1, <1>2 DEF Takes

LEMMA EndsLeaves ==
  ASSUME NEW w \in Workers, Ends(w)
  PROVE  \E f \in Job : Leaves(f) /\ f.pc = "idle" /\ jobs' = [jobs EXCEPT ![w] = f]
<1>1. Leaves(Resting) /\ Resting.pc = "idle"
  BY DEF Leaves, Resting
<1> QED
  BY <1>1, RestingIsJob DEF Ends

LEMMA LeaveLeaves ==
  ASSUME Inv, NEW w \in Workers, Leave(w)
  PROVE  \E f \in Job : Leaves(f) /\ jobs' = [jobs EXCEPT ![w] = f]
<1>1. jobs[w].todo \in SUBSET Times
  BY DEF Inv, TypeOK, Job
<1> QED
  BY <1>1, TakesLeaves, EndsLeaves DEF Leave

LEMMA QuitWhole ==
  ASSUME Inv, Wholeness, Mono, NEW w \in Workers, NEW f \in Job, Leaves(f),
         jobs' = [jobs EXCEPT ![w] = f], UNCHANGED <<chain, escrow, watch, deal, reached>>,
         \A k \in Times : events'[k].outcome = events[k].outcome,
         \A k \in Times : LedgerOK(k)',
         ~IsFundJob(w) /\ f.pc = "lock" => FundingBooked
  PROVE  Wholeness'
<1>1. jobs'[w] = f
  BY DEF Inv, TypeOK
<1>2. ReachedOK'
  BY DEF Wholeness, ReachedOK
<1>3. Progress(w)'
  BY <1>1 DEF Progress, Leaves
<1>4. \A k \in Times : Accepted(k)' = Accepted(k)
  BY DEF Accepted
<1>5. f.row.status \notin HandedOver
  BY DEF Leaves, NoWatch, HandedOver
<1>6. ~IsFundJob(w) /\ f.pc \notin {"idle", "list"} => FundingBooked
  BY DEF Leaves
<1>7. watch'.status \in HandedOver => FundingBooked
  BY HandedPaid
<1> QED
  BY <1>2, <1>3, <1>4, <1>5, <1>6, <1>7, StepWhole

LEMMA StartRunWhole ==
  ASSUME Inv, Wholeness, Mono, NEW w \in Workers, StartRun(w)
  PROVE  Wholeness'
<1>1. /\ Pending(w) \in SUBSET Times
      /\ \A k \in Pending(w) : Accepted(k) /\ IsFundJob(w) = IsFunding(k)
  BY DEF Pending, Accepted, IsFunding
<1>2. PICK f \in Job : /\ Leaves(f) /\ jobs' = [jobs EXCEPT ![w] = f]
                       /\ Pending(w) = {} => f.pc = "list"
  BY <1>1, TakesLeaves DEF StartRun
<1>3. ~IsFundJob(w) /\ f.pc = "lock" => FundingBooked
  <2> SUFFICES ASSUME ~IsFundJob(w), Pending(w) # {} PROVE FundingBooked
    BY <1>2
  <2>1. PICK k \in Pending(w) : ~IsFunding(k) /\ Accepted(k) /\ k \in Times
    BY <1>1
  <2> QED
    BY <2>1, HandedPaid
<1>4. UNCHANGED <<chain, escrow, watch, deal, reached, events, ledger>>
  BY DEF StartRun
<1> QED
  BY <1>2, <1>3, <1>4, LedgerStays, QuitWhole

LEMMA BackfillWhole ==
  ASSUME Inv, Wholeness, Mono, NEW w \in Workers, Backfill(w)
  PROVE  Wholeness'
<1> DEFINE f == [jobs[w] EXCEPT !.pc = "list"]
<1>1. jobs[w] \in Job /\ jobs[w].pc = "idle" /\ Progress(w) /\ jobs \in [Workers -> Job]
  BY DEF Inv, TypeOK, Backfill, Wholeness
<1>2. f \in Job /\ f.pc = "list" /\ f.marked = jobs[w].marked /\ f.row = jobs[w].row
  BY <1>1 DEF Job
<1>3. ~jobs[w].marked
  BY <1>1 DEF Progress
<1>4. jobs' = [jobs EXCEPT ![w] = f] /\ jobs'[w] = f
  BY <1>1 DEF Backfill, Goes
<1> HIDE DEF f
<1>5. UNCHANGED <<chain, escrow, watch, deal, reached, events, ledger>>
  BY DEF Backfill
<1>6. Progress(w)' /\ ReachedOK'
  BY <1>2, <1>3, <1>4, <1>5 DEF Progress, Wholeness, ReachedOK
<1>7. \A k \in Times : LedgerOK(k)' /\ Accepted(k)' = Accepted(k)
  BY <1>5, LedgerStays DEF Accepted
<1>8. /\ watch'.status \in HandedOver => FundingBooked
      /\ f.row.status \in HandedOver => FundingBooked
  BY <1>2, <1>5, HandedPaid
<1> QED
  BY <1>2, <1>4, <1>5, <1>6, <1>7, <1>8, StepWhole

LEMMA CrashWhole ==
  ASSUME Inv, Wholeness, Mono, NEW w \in Workers, Crash(w)
  PROVE  Wholeness'
<1>1. PICK f \in Job : Leaves(f) /\ f.pc = "idle" /\ jobs' = [jobs EXCEPT ![w] = f]
  BY EndsLeaves DEF Crash
<1>2. UNCHANGED <<chain, escrow, watch, deal, reached, events, ledger>>
  BY DEF Crash
<1> QED
  BY <1>1, <1>2, LedgerStays, QuitWhole

-----------------------------------------------------------------------------
(* Steps of the world                                                      *)

LEMMA WorldWhole ==
  ASSUME Inv, Mono, Wholeness, UNCHANGED <<watch, jobs, ledger>>, ChainOK', ReachedOK',
         \A k \in Times : events'[k].outcome = events[k].outcome,
         \A k \in Times : events'[k].applied = events[k].applied
  PROVE  Wholeness'
<1>1. \A k \in Times : Accepted(k)' = Accepted(k)
  BY DEF Accepted
<1>2. \A k \in Times : Accepted(k) => IsFunding(k)' = IsFunding(k)
  BY SentKept DEF Accepted, Recorded
<1>3. Handed' => Handed
  <2>1. \A w \in Workers : Active(w)' = Active(w)
    BY DEF Active, IsFundJob
  <2> QED
    BY <1>1, <1>2, <2>1 DEF Handed
<1>4. PhaseOK'
  BY <1>3, PaidStays DEF Wholeness, PhaseOK
<1>5. ASSUME NEW w \in Workers PROVE Progress(w)'
  BY ProgressKept DEF Wholeness
<1>6. ASSUME NEW k \in Times PROVE LedgerOK(k)'
  BY <1>1, LedgerKept DEF Wholeness
<1> QED
  BY <1>4, <1>5, <1>6 DEF Wholeness

LEMMA TransactWhole ==
  ASSUME Inv, Mono, Wholeness, NEW action \in Actions, NEW intended \in BOOLEAN,
         Transact(action, intended)
  PROVE  Wholeness'
<1> DEFINE n == Len(chain) + 1
<1> DEFINE tx == [action |-> action, intended |-> intended]
<1>1. /\ Len(chain) \in Nat /\ Sent' = Sent \union {n} /\ n \notin Sent
      /\ \A k \in Sent : chain'[k] = chain[k] /\ k < n /\ k \in Nat
      /\ chain'[n].action = action
      /\ ChainOK
  <2>1. chain \in Seq([action : Actions, intended : BOOLEAN]) /\ Len(chain) \in Nat
    BY DEF Inv, TypeOK
  <2>2. chain' = Append(chain, tx)
    BY DEF Transact
  <2>3. Len(chain') = n /\ chain'[n] = tx /\ \A k \in 1..Len(chain) : chain'[k] = chain[k]
    BY <2>1, <2>2
  <2> QED
    BY <2>1, <2>3 DEF Sent, Wholeness
<1>2. /\ action # "topup" => escrow \in Before[action]
      /\ escrow' = IF action = "topup" THEN escrow ELSE Beyond[action]
  BY DEF Transact
<1>3. \A k \in Sent : IsFunding(k)' = IsFunding(k)
  BY <1>1 DEF IsFunding
<1> HIDE DEF n, tx
<1>4. ChainOK'
  <2>1. CASE action = "topup"
    BY <1>1, <1>2, <1>3, <2>1 DEF ChainOK, IsFunding, Exits, Lifecycle
  <2>2. CASE action = "fund"
    <3>1. escrow = "UNFUNDED" /\ escrow' = "FUNDED"
      BY <1>2, <2>2 DEF Before, Beyond
    <3> QED
      BY <1>1, <1>3, <2>2, <3>1 DEF ChainOK, IsFunding, Exits, Lifecycle
  <2>3. CASE action \in Lifecycle
    <3>1. escrow # "UNFUNDED" /\ escrow # "CLOSED" /\ escrow' # "UNFUNDED"
      BY <1>2, <2>3 DEF Before, Beyond, Lifecycle
    <3>2. escrow' = "CLOSED" \/ action \notin Exits
      BY <1>2, <2>3 DEF Beyond, Lifecycle, Exits
    <3>3. action # "fund"
      BY <2>3 DEF Lifecycle
    <3> QED
      BY <1>1, <1>3, <2>3, <3>1, <3>2, <3>3 DEF ChainOK, IsFunding
  <2> QED
    BY <2>1, <2>2, <2>3 DEF Actions
<1>5. ReachedOK'
  BY DEF Transact, Wholeness, ReachedOK
<1> QED
  BY <1>4, <1>5, WorldWhole DEF Transact

LEMMA MoveWhole ==
  ASSUME Inv, Mono, Wholeness, NEW next \in DealStatuses, Move(next)
  PROVE  Wholeness'
<1>1. ChainOK'
  BY DEF Move, Wholeness, ChainOK, Sent, IsFunding
<1>2. /\ deal' = [deal EXCEPT !.status = next] /\ reached' = reached \union {next}
      /\ deal \in [status : DealStatuses, funded : BOOLEAN] /\ ReachedOK
      /\ next \in {"CANCELLED", "PENDING_CONFIRMATION", "COMPLETED", "DISPUTED"}
      /\ CanTransition(deal.status, next)
  BY DEF Move, Inv, TypeOK, Wholeness
<1>3. deal'.status = next /\ deal'.funded = deal.funded
  BY <1>2
<1>4. next # "CANCELLED" => deal.status \notin {"PENDING_PAYMENT", "CANCELLED"}
  BY <1>2 DEF CanTransition, Transitions, From
<1>5. ReachedOK'
  BY <1>2, <1>3, <1>4 DEF ReachedOK
<1> QED
  BY <1>1, <1>5, WorldWhole DEF Move

LEMMA RequeueWhole ==
  ASSUME Inv, Mono, Wholeness, NEW j \in Times, Requeue(j)
  PROVE  Wholeness'
<1>1. events \in [Times -> Event]
  BY DEF Inv, TypeOK
<1>2. ASSUME NEW k \in Times PROVE events'[k].applied = events[k].applied
  <2>1. CASE k = j
    <3>1. events' = [[events EXCEPT ![j].stopped = FALSE] EXCEPT ![j].attempts = 0]
      BY DEF Requeue
    <3> QED
      BY <1>1, <2>1, <3>1 DEF Event
  <2>2. CASE k # j
    BY <1>1, <2>2 DEF Requeue
  <2> QED
    BY <2>1, <2>2
<1>3. ChainOK' /\ ReachedOK'
  BY DEF Requeue, Wholeness, ChainOK, ReachedOK, Sent, IsFunding
<1> QED
  BY <1>1, <1>2, <1>3, EventRests, WorldWhole DEF Requeue

-----------------------------------------------------------------------------
(* The parts of an application                                             *)

\* A step within an application: the job keeps to its event.
LEMMA PartWhole ==
  ASSUME Inv, Mono, Wholeness, NEW w \in Workers, NEW f \in Job, jobs' = [jobs EXCEPT ![w] = f],
         jobs[w].pc \in {"lock"} \union Applying, f.row = jobs[w].row,
         UNCHANGED <<chain, escrow, events>>, watch'.status \in HandedOver => FundingBooked,
         ReachedOK', Progress(w)', \A k \in Times : LedgerOK(k)'
  PROVE  Wholeness'
<1>1. \A k \in Times : Accepted(k)' = Accepted(k)
  BY DEF Accepted
<1>2. f.row.status \in HandedOver => FundingBooked
  BY HandedPaid
<1>3. ~IsFundJob(w) => FundingBooked
  <2>1. jobs[w].pc \notin {"idle", "list"}
    BY DEF Applying
  <2> QED
    BY <2>1, HandedPaid
<1> QED
  BY <1>1, <1>2, <1>3, StepWhole

\* The facts that the steps of an application start from.
LEMMA Working ==
  ASSUME Inv, Wholeness, NEW w \in Workers,
         jobs[w].pc \in Applying \ {"commit", "review", "record"}
  PROVE  /\ jobs[w].at \in Times /\ Accepted(jobs[w].at)
         /\ jobs[w] \in Job /\ jobs[w].marked \in BOOLEAN /\ jobs \in [Workers -> Job]
         /\ jobs[w].action \in Lifecycle \union {"fund"}
         /\ IsFundJob(w) => jobs[w].action = "fund"
         /\ Progress(w) /\ ~jobs[w].marked
         /\ watch.status \in HandedOver => FundingBooked
<1>1. JobOK(w) /\ jobs[w] \in Job /\ Progress(w) /\ jobs \in [Workers -> Job]
  BY DEF Inv, TypeOK, Wholeness
<1>2. ~jobs[w].marked /\ jobs[w].marked \in BOOLEAN
  BY <1>1 DEF Progress, Job
<1> QED
  BY <1>1, <1>2, AtEvent, HandedPaid DEF JobOK

LEMMA LockWhole ==
  ASSUME Inv, Wholeness, Mono, NEW w \in Workers, LockEvent(w)
  PROVE  Wholeness'
<1>1. jobs[w].pc = "lock" /\ Progress(w)
      /\ UNCHANGED <<chain, escrow, watch, deal, reached, events, ledger, troubles>>
  BY DEF LockEvent, Wholeness
<1>2. ~IsFundJob(w) => FundingBooked
  BY <1>1, HandedPaid
<1>3. CASE Leave(w)
  <2>1. PICK f \in Job : Leaves(f) /\ jobs' = [jobs EXCEPT ![w] = f]
    BY <1>3, LeaveLeaves
  <2> QED
    BY <1>1, <1>2, <2>1, LedgerStays, QuitWhole
<1>4. CASE ~Leave(w)
  <2>1. PICK f \in Job : Starts(w, f) /\ jobs' = [jobs EXCEPT ![w] = f]
    BY <1>4, LockStarts
  <2>2. jobs'[w] = f
    BY <2>1 DEF Inv, TypeOK
  <2>3. Progress(w)'
    <3>1. ~f.marked
      BY <1>1, <2>1 DEF Progress, Starts
    <3> QED
      BY <2>1, <2>2, <3>1 DEF Progress, Starts
  <2>4. ReachedOK'
    BY <1>1 DEF Wholeness, ReachedOK
  <2>5. f.row = jobs[w].row
    BY <2>1 DEF Starts
  <2>6. watch'.status \in HandedOver => FundingBooked
    BY <1>1, HandedPaid
  <2> QED
    BY <1>1, <2>1, <2>3, <2>4, <2>5, <2>6, LedgerStays, PartWhole
<1> QED
  BY <1>3, <1>4

LEMMA BookWhole ==
  ASSUME Inv, Inv', Wholeness, Mono, NEW w \in Workers, Book(w)
  PROVE  Wholeness'
<1>1. PICK at \in Times : at = jobs[w].at
  BY Working DEF Book, Applying
<1>2. /\ jobs[w].pc = "book" /\ Accepted(at) /\ ~jobs[w].marked
      /\ jobs[w] \in Job /\ jobs \in [Workers -> Job]
      /\ jobs[w].action \in Lifecycle \union {"fund"} /\ Progress(w)
      /\ UNCHANGED <<chain, escrow, watch, deal, reached, events, troubles, consumed>>
      /\ ledger \in [Times -> SUBSET (Actions \X (1..3))]
      /\ taken \in [Times -> SUBSET Actions]
  BY <1>1, Working DEF Book, Applying, Inv, TypeOK
<1>3. /\ Entries[jobs[w].action] \in 0..3 /\ jobs[w].booked \in 0..Entries[jobs[w].action]
      /\ {jobs[w].action} \X (1..jobs[w].booked) \subseteq ledger[at]
  <2>1. Entries[jobs[w].action] \in 0..3 /\ jobs[w].booked \in 0..3
    BY <1>2, EntriesAre DEF Job
  <2>2. jobs[w].booked <= Entries[jobs[w].action]
    BY <1>2 DEF Inv, JobOK
  <2> QED
    BY <1>1, <1>2, <2>1, <2>2 DEF Progress
<1>4. ReachedOK' /\ (watch'.status \in HandedOver => FundingBooked)
  BY <1>2, HandedPaid DEF Wholeness, ReachedOK
<1>5. jobs[w].action \in taken'[at]
  BY <1>1, <1>2 DEF Book
<1>6. CASE jobs[w].booked = Entries[jobs[w].action]
  <2> DEFINE f == [jobs[w] EXCEPT !.pc = "deal"]
  <2>1. jobs' = [jobs EXCEPT ![w] = f] /\ ledger' = ledger /\ jobs'[w] = f
    BY <1>2, <1>6 DEF Book, Goes, Following
  <2>2. f \in Job /\ f.pc = "deal" /\ f.at = at /\ f.row = jobs[w].row
        /\ f.action = jobs[w].action /\ f.marked = jobs[w].marked
    BY <1>1, <1>2 DEF Job, Applying
  <2> HIDE DEF f
  <2>3. Progress(w)'
    BY <1>2, <1>3, <1>5, <1>6, <2>1, <2>2 DEF Progress, Booked
  <2>4. \A k \in Times : LedgerOK(k)'
    BY <1>2, <2>1, LedgerStays
  <2> QED
    BY <1>2, <1>4, <2>1, <2>2, <2>3, <2>4, PartWhole DEF Applying
<1>7. CASE jobs[w].booked # Entries[jobs[w].action]
  <2> DEFINE f == [jobs[w] EXCEPT !.booked = @ + 1]
  <2> DEFINE entry == <<jobs[w].action, jobs[w].booked + 1>>
  <2>1. jobs' = [jobs EXCEPT ![w] = f] /\ jobs'[w] = f
    BY <1>2, <1>7 DEF Book
  <2>2. f \in Job /\ f.pc = "book" /\ f.at = at /\ f.row = jobs[w].row
        /\ f.action = jobs[w].action /\ f.booked = jobs[w].booked + 1 /\ f.marked = jobs[w].marked
    <3>1. f = jobs'[w] /\ jobs'[w] \in Job
      BY <2>1 DEF Inv, TypeOK
    <3> QED
      BY <1>1, <1>2, <3>1 DEF Job
  <2>3. ledger'[at] = ledger[at] \union {entry}
        /\ \A k \in Times : k # at => ledger'[k] = ledger[k]
    BY <1>1, <1>2, <1>7 DEF Book
  <2>4. entry \in Booked(jobs[w].action)
    BY <1>3, <1>7 DEF Booked
  <2> HIDE DEF f
  <2>5. Progress(w)'
    <3>1. {jobs[w].action} \X (1..jobs[w].booked + 1) \subseteq ledger'[at]
      BY <1>3, <2>3
    <3> QED
      BY <1>2, <2>1, <2>2, <3>1 DEF Progress
  <2>6. ASSUME NEW k \in Times, k # at PROVE LedgerOK(k)'
    BY <1>2, <2>3, <2>6, LedgerKept DEF Wholeness, Accepted
  <2>7. LedgerOK(at)'
    <3>1. Accepted(at)' /\ chain'[at].intended /\ LedgerOK(at)
      BY <1>2 DEF Wholeness, Accepted, LedgerOK
    <3>2. taken[at] \subseteq taken'[at] /\ ledger[at] \subseteq ledger'[at]
      BY DEF Mono
    <3>3. \A e \in ledger'[at] : \E action \in taken'[at] : e \in Booked(action)
      BY <1>5, <2>3, <2>4, <3>1, <3>2 DEF LedgerOK
    <3>4. ASSUME NEW action \in taken[at], Whole(at, action) PROVE Whole(at, action)'
      BY <1>2, <3>2, <3>4 DEF Whole
    <3>5. events'[at].applied => \E action \in taken'[at] : Whole(at, action)'
      BY <1>2, <3>1, <3>2, <3>4 DEF LedgerOK
    <3> QED
      BY <3>1, <3>3, <3>5 DEF LedgerOK
  <2>8. \A k \in Times : LedgerOK(k)'
    BY <2>6, <2>7
  <2> QED
    BY <1>2, <1>4, <2>1, <2>2, <2>5, <2>8, PartWhole DEF Applying
<1> QED
  BY <1>6, <1>7

LEMMA MoveDealWhole ==
  ASSUME Inv, Inv', Wholeness, Mono, NEW w \in Workers, MoveDeal(w)
  PROVE  Wholeness'
<1>1. /\ jobs[w].pc = "deal" /\ ~jobs[w].marked /\ jobs[w] \in Job /\ jobs \in [Workers -> Job]
      /\ jobs[w].action \in Lifecycle \union {"fund"} /\ Progress(w) /\ ReachedOK
      /\ jobs[w].action \in taken[jobs[w].at]
      /\ Booked(jobs[w].action) \subseteq ledger[jobs[w].at]
      /\ UNCHANGED <<chain, escrow, watch, events, ledger, taken, troubles, consumed>>
      /\ watch'.status \in HandedOver => FundingBooked
  BY Working DEF MoveDeal, Applying, Wholeness, Progress
<1>2. \/ /\ Done(jobs[w].action) /\ Goes(w, Following(w).deal)
         /\ UNCHANGED <<deal, reached>>
      \/ /\ deal.status \in DealBefore[jobs[w].action]
         /\ deal' = [status |-> DealAfter[jobs[w].action],
                     funded |-> deal.funded \/ jobs[w].action = "fund"]
         /\ reached' = reached \union {DealAfter[jobs[w].action]}
         /\ Goes(w, Following(w).deal)
      \/ /\ jobs' = [jobs EXCEPT ![w] = Failing(@, FALSE)]
         /\ UNCHANGED <<deal, reached>>
  BY DEF MoveDeal
<1>3. \A k \in Times : LedgerOK(k)'
  BY <1>1, LedgerStays
<1>4. ASSUME Goes(w, Following(w).deal), ReachedOK', DealAfter[jobs[w].action] \in reached'
      PROVE  Wholeness'
  <2> DEFINE f == [jobs[w] EXCEPT !.pc = Following(w).deal]
  <2>1. Following(w).deal \in {"intent", "watch"} /\ (Following(w).deal = "watch" => IsFundJob(w))
    BY DEF Following
  <2>2. jobs' = [jobs EXCEPT ![w] = f] /\ jobs'[w] = f
    BY <1>1, <1>4 DEF Goes
  <2>3. f \in Job /\ f.pc = Following(w).deal /\ f.at = jobs[w].at /\ f.row = jobs[w].row
        /\ f.action = jobs[w].action /\ f.marked = jobs[w].marked
    BY <1>1, <2>1 DEF Job, Applying
  <2> HIDE DEF f
  <2>4. Progress(w)'
    BY <1>1, <1>4, <2>1, <2>2, <2>3 DEF Progress, IsFundJob
  <2> QED
    BY <1>1, <1>3, <1>4, <2>2, <2>3, <2>4, PartWhole DEF Applying
<1>5. CASE Done(jobs[w].action) /\ Goes(w, Following(w).deal) /\ UNCHANGED <<deal, reached>>
  <2>1. ReachedOK'
    BY <1>1, <1>5 DEF ReachedOK
  <2>2. DealAfter[jobs[w].action] \in reached'
    BY <1>1, <1>5 DEF ReachedOK, Done, DealAfter
  <2> QED
    BY <1>4, <1>5, <2>1, <2>2
<1>6. CASE /\ deal.status \in DealBefore[jobs[w].action]
           /\ deal' = [status |-> DealAfter[jobs[w].action],
                       funded |-> deal.funded \/ jobs[w].action = "fund"]
           /\ reached' = reached \union {DealAfter[jobs[w].action]}
           /\ Goes(w, Following(w).deal)
  <2>1. jobs[w].action # "fund" => "IN_PROGRESS" \in reached
    BY <1>1, <1>6 DEF ReachedOK, DealBefore, Lifecycle
  <2>2. deal'.status = DealAfter[jobs[w].action]
        /\ (deal'.funded => deal.funded \/ jobs[w].action = "fund")
    BY <1>6
  <2>3. jobs[w].action = "fund" => DealAfter[jobs[w].action] = "IN_PROGRESS"
    BY DEF DealAfter
  <2>4. ReachedOK'
    BY <1>1, <1>6, <2>1, <2>2, <2>3 DEF ReachedOK
  <2> QED
    BY <1>4, <1>6, <2>4
<1>7. CASE jobs' = [jobs EXCEPT ![w] = Failing(@, FALSE)] /\ UNCHANGED <<deal, reached>>
  <2> DEFINE f == Failing(jobs[w], FALSE)
  <2>1. /\ f \in Job /\ f.pc \in {"review", "record"} /\ f.marked = jobs[w].marked
        /\ f.row = jobs[w].row
    BY <1>1, FailingJob
  <2>2. jobs' = [jobs EXCEPT ![w] = f] /\ jobs'[w] = f
    BY <1>1, <1>7
  <2> HIDE DEF f
  <2>3. Progress(w)' /\ ReachedOK'
    BY <1>1, <1>7, <2>1, <2>2 DEF Progress, ReachedOK
  <2> QED
    BY <1>1, <1>3, <2>1, <2>2, <2>3, PartWhole DEF Applying
<1> QED
  BY <1>2, <1>5, <1>6, <1>7

LEMMA ConsumeWhole ==
  ASSUME Inv, Inv', Wholeness, Mono, NEW w \in Workers, ConsumeIntent(w)
  PROVE  Wholeness'
<1> DEFINE f == [jobs[w] EXCEPT !.pc = "watch"]
<1>1. /\ jobs[w].pc = "intent" /\ ~jobs[w].marked /\ jobs[w] \in Job /\ jobs \in [Workers -> Job]
      /\ Progress(w)
      /\ UNCHANGED <<chain, escrow, watch, deal, reached, events, ledger, taken, troubles>>
      /\ consumed' = consumed \union {jobs[w].action}
      /\ watch'.status \in HandedOver => FundingBooked
  BY Working DEF ConsumeIntent, Applying
<1>2. ~IsFundJob(w)
  BY <1>1 DEF Inv, JobOK
<1>3. jobs' = [jobs EXCEPT ![w] = f] /\ jobs'[w] = f
  BY <1>1, <1>2 DEF ConsumeIntent, Goes, Following
<1>4. f \in Job /\ f.pc = "watch" /\ f.at = jobs[w].at /\ f.row = jobs[w].row
      /\ f.action = jobs[w].action /\ f.marked = jobs[w].marked
  BY <1>1 DEF Job, Applying
<1> HIDE DEF f
<1>5. Progress(w)' /\ ReachedOK'
  BY <1>1, <1>3, <1>4 DEF Progress, Wholeness, ReachedOK
<1> QED
  BY <1>1, <1>3, <1>4, <1>5, LedgerStays, PartWhole DEF Applying

LEMMA MoveWatchWhole ==
  ASSUME Inv, Inv', Wholeness, Mono, NEW w \in Workers, MoveWatch(w)
  PROVE  Wholeness'
<1> DEFINE f == [jobs[w] EXCEPT !.pc = "commit"]
<1>1. /\ jobs[w].pc = "watch" /\ ~jobs[w].marked /\ jobs[w] \in Job /\ jobs \in [Workers -> Job]
      /\ jobs[w].at \in Times /\ Accepted(jobs[w].at) /\ Progress(w)
      /\ IsFundJob(w) => jobs[w].action = "fund"
      /\ UNCHANGED <<chain, escrow, deal, reached, events, ledger, taken, troubles, consumed>>
  BY Working DEF MoveWatch, Applying
<1>2. jobs' = [jobs EXCEPT ![w] = f] /\ jobs'[w] = f
  BY <1>1 DEF MoveWatch, Goes, Following
<1>3. f \in Job /\ f.pc = "commit" /\ f.at = jobs[w].at /\ f.row = jobs[w].row
      /\ f.action = jobs[w].action /\ f.marked = jobs[w].marked
  BY <1>1 DEF Job, Applying
<1> HIDE DEF f
<1>4. Progress(w)' /\ ReachedOK'
  BY <1>1, <1>2, <1>3 DEF Progress, IsFundJob, Wholeness, ReachedOK
\* What the job has booked as the funding is booked for the funding, or the funding has been booked.
<1>5. FundingBooked
  <2>1. CASE ~IsFundJob(w) \/ ~IsFunding(jobs[w].at)
    BY <1>1, <2>1, HandedPaid
  <2>2. CASE IsFundJob(w) /\ IsFunding(jobs[w].at)
    <3>1. Booked("fund") \subseteq ledger[jobs[w].at]
      BY <1>1, <2>2 DEF Progress
    <3> QED
      BY <1>1, <2>2, <3>1 DEF FundingBooked
  <2> QED
    BY <2>1, <2>2
<1> QED
  BY <1>1, <1>2, <1>3, <1>4, <1>5, LedgerStays, PartWhole DEF Applying

LEMMA FaultWhole ==
  ASSUME Inv, Inv', Wholeness, Mono, NEW w \in Workers, Fault(w)
  PROVE  Wholeness'
<1>1. /\ jobs[w].pc \in {"book", "deal", "intent", "watch"}
      /\ jobs[w] \in Job /\ jobs \in [Workers -> Job] /\ Progress(w)
      /\ IsFundJob(w) => jobs[w].action = "fund"
      /\ UNCHANGED <<chain, escrow, watch, deal, reached, events, ledger, taken, consumed>>
      /\ watch'.status \in HandedOver => FundingBooked
  BY Working DEF Fault, Applying
<1>2. PICK final \in BOOLEAN :
        jobs' = [jobs EXCEPT ![w] = [Failing(jobs[w], final) EXCEPT
          !.reconciled = @ /\ ~final, !.marked = IsFundJob(w) /\ jobs[w].pc = "watch"]]
  <2>1. PICK final \in {FALSE, settings /\ jobs[w].pc = "book" /\ jobs[w].booked = 0
                               /\ ~events[jobs[w].at].reconciled} :
          jobs' = [jobs EXCEPT ![w] = [Failing(jobs[w], final) EXCEPT
            !.reconciled = @ /\ ~final, !.marked = IsFundJob(w) /\ jobs[w].pc = "watch"]]
    BY DEF Fault
  <2> QED
    BY <2>1
<1> DEFINE g == Failing(jobs[w], final)
<1> DEFINE f == [g EXCEPT !.reconciled = @ /\ ~final,
                          !.marked = IsFundJob(w) /\ jobs[w].pc = "watch"]
<1>3. g \in Job /\ g.pc \in {"review", "record"} /\ g.at = jobs[w].at /\ g.row = jobs[w].row
  BY <1>1, FailingJob
<1>4. jobs' = [jobs EXCEPT ![w] = f] /\ jobs'[w] = f /\ f \in Job
  BY <1>1, <1>2 DEF Inv, TypeOK
<1> HIDE DEF g
<1>5. /\ f.pc \in {"review", "record"} /\ f.at = jobs[w].at /\ f.row = jobs[w].row
      /\ f.marked => IsFundJob(w) /\ jobs[w].pc = "watch"
  BY <1>3 DEF Job
<1> HIDE DEF f
<1>6. f.marked => /\ "fund" \in taken[jobs[w].at] /\ Booked("fund") \subseteq ledger[jobs[w].at]
                  /\ "IN_PROGRESS" \in reached
  BY <1>1, <1>5 DEF Progress, DealAfter
<1>7. Progress(w)' /\ ReachedOK'
  BY <1>1, <1>4, <1>5, <1>6 DEF Progress, Wholeness, ReachedOK
<1> QED
  BY <1>1, <1>4, <1>5, <1>7, LedgerStays, PartWhole DEF Applying

LEMMA ReviewWhole ==
  ASSUME Inv, Inv', Wholeness, Mono, NEW w \in Workers, Review(w)
  PROVE  Wholeness'
<1> DEFINE f == [jobs[w] EXCEPT !.pc = "record"]
<1>1. /\ jobs[w].pc = "review" /\ jobs[w] \in Job /\ jobs \in [Workers -> Job] /\ Progress(w)
      /\ UNCHANGED <<chain, escrow, deal, reached, events, ledger, taken, troubles, consumed>>
      /\ watch \in Watch /\ watch' = [watch EXCEPT !.status = "MANUAL_REVIEW"]
  BY DEF Review, Inv, TypeOK, Wholeness
<1>2. jobs' = [jobs EXCEPT ![w] = f] /\ jobs'[w] = f
  BY <1>1 DEF Review, Goes
<1>3. f \in Job /\ f.pc = "record" /\ f.at = jobs[w].at /\ f.row = jobs[w].row
      /\ f.marked = jobs[w].marked
  BY <1>1 DEF Job, Applying
<1> HIDE DEF f
<1>4. Progress(w)' /\ ReachedOK'
  <2>1. f.marked => /\ "fund" \in taken[jobs[w].at] /\ Booked("fund") \subseteq ledger[jobs[w].at]
                    /\ "IN_PROGRESS" \in reached
    BY <1>1, <1>3 DEF Progress
  <2>2. Progress(w)'
    BY <1>1, <1>2, <1>3, <2>1 DEF Progress
  <2>3. ReachedOK'
    BY <1>1 DEF Wholeness, ReachedOK
  <2> QED
    BY <2>2, <2>3
<1>5. watch'.status \notin HandedOver
  BY <1>1 DEF Watch, HandedOver
<1> QED
  BY <1>1, <1>2, <1>3, <1>4, <1>5, LedgerStays, PartWhole DEF Applying

\* An attempt that ends with the transaction: the event is what the job has made of it.
LEMMA EndWhole ==
  ASSUME Inv, Wholeness, Mono, NEW w \in Workers, Leave(w), jobs[w].pc \in {"commit", "record"},
         NEW at \in Times, at = jobs[w].at,
         UNCHANGED <<chain, escrow, watch, deal, reached, ledger>>,
         \A k \in Times : events'[k].outcome = events[k].outcome,
         \A k \in Times : k # at => events'[k] = events[k],
         events'[at].applied => \E action \in taken[at] : Whole(at, action)
  PROVE  Wholeness'
<1>1. PICK f \in Job : Leaves(f) /\ jobs' = [jobs EXCEPT ![w] = f]
  BY LeaveLeaves
<1>2. ~IsFundJob(w) => FundingBooked
  BY HandedPaid
<1>3. \A k \in Times : Accepted(k)' = Accepted(k)
  BY DEF Accepted
<1>4. ASSUME NEW k \in Times PROVE LedgerOK(k)'
  <2>1. events'[k].applied => events[k].applied \/ \E action \in taken[k] : Whole(k, action)
    OBVIOUS
  <2> QED
    BY <1>3, <2>1, LedgerKept DEF Wholeness
<1> QED
  BY <1>1, <1>2, <1>4, QuitWhole

LEMMA CommitWhole ==
  ASSUME Inv, Wholeness, Mono, NEW w \in Workers, Commit(w)
  PROVE  Wholeness'
<1>1. jobs[w].at \in Times /\ Accepted(jobs[w].at)
  BY AtEvent DEF Commit, Applying
<1>2. PICK at \in Times : at = jobs[w].at
  BY <1>1
<1>3. /\ Progress(w) /\ jobs[w].pc = "commit" /\ events \in [Times -> Event] /\ Leave(w)
      /\ UNCHANGED <<chain, escrow, watch, deal, reached, ledger>>
      /\ IsFundJob(w) => jobs[w].action = "fund"
  BY DEF Commit, Wholeness, Inv, TypeOK, JobOK, Applying
<1>4. \A k \in Times : events'[k].outcome = events[k].outcome
  BY <1>3, Finished
<1>5. \A k \in Times : k # at => events'[k] = events[k]
  BY <1>2, <1>3 DEF Commit
<1>6. jobs[w].action \in taken[at] /\ Whole(at, jobs[w].action)
  BY <1>2, <1>3 DEF Progress, Whole
<1> QED
  BY <1>2, <1>3, <1>4, <1>5, <1>6, EndWhole

LEMMA RecordWhole ==
  ASSUME Inv, Wholeness, Mono, NEW w \in Workers, Record(w)
  PROVE  Wholeness'
<1>1. jobs[w].at \in Times /\ Accepted(jobs[w].at)
  BY AtEvent DEF Record, Applying
<1>2. PICK at \in Times : at = jobs[w].at
  BY <1>1
<1>3. /\ Progress(w) /\ jobs[w].pc = "record" /\ events \in [Times -> Event] /\ Leave(w)
      /\ UNCHANGED <<chain, escrow, watch, deal, reached, ledger>>
  BY DEF Record, Wholeness, Inv, TypeOK
<1>4. \A k \in Times : events'[k].outcome = events[k].outcome
  BY <1>3, Finished
<1>5. events'[at].applied = jobs[w].marked /\ \A k \in Times : k # at => events'[k] = events[k]
  <2> DEFINE reconciled == events[at].reconciled \/ jobs[w].reconciled
  <2>1. events' = [events EXCEPT ![at] = [events[at] EXCEPT !.attempts = @ + 1,
          !.stopped = jobs[w].stop, !.applied = jobs[w].marked, !.reconciled = reconciled]]
    BY <1>2, <1>3 DEF Record
  <2> HIDE DEF reconciled
  <2> QED
    BY <1>3, <2>1 DEF Event
<1>6. jobs[w].marked => "fund" \in taken[at] /\ Whole(at, "fund")
  BY <1>2, <1>3 DEF Progress, Whole, DealAfter
<1>7. events'[at].applied => \E action \in taken[at] : Whole(at, action)
  BY <1>5, <1>6
<1> QED
  BY <1>2, <1>3, <1>4, <1>5, <1>7, EndWhole

-----------------------------------------------------------------------------
(* The scan                                                                *)

LEMMA ScanWhole ==
  ASSUME Inv, Inv', Mono, Wholeness, NEW w \in Workers,
         \A v \in Workers : v # w => jobs'[v] = jobs[v],
         jobs'[w].pc \notin Applying, ~jobs'[w].marked,
         UNCHANGED <<chain, escrow, deal, reached>>, \A k \in Times : LedgerOK(k)',
         \A k \in Times : Accepted(k)' /\ ~IsFunding(k) => Accepted(k) \/ FundingBooked,
         watch'.status \in HandedOver => FundingBooked,
         jobs'[w].row.status \in HandedOver => FundingBooked,
         ~IsFundJob(w) /\ jobs'[w].pc \notin {"idle", "list"} => FundingBooked
  PROVE  Wholeness'
<1>1. PICK f \in Job : f = jobs'[w] /\ jobs' = [jobs EXCEPT ![w] = f]
  BY DEF Inv, TypeOK
<1>2. Progress(w)' /\ ReachedOK'
  BY DEF Progress, Applying, Wholeness, ReachedOK
<1> QED
  BY <1>1, <1>2, StepWhole

LEMMA ListWhole ==
  ASSUME Inv, Inv', Wholeness, Mono, NEW w \in Workers, List(w)
  PROVE  Wholeness'
<1>1. /\ jobs[w].pc = "list" /\ ~jobs[w].marked /\ jobs[w] \in Job /\ jobs \in [Workers -> Job]
      /\ UNCHANGED <<chain, escrow, events, ledger, deal, reached, troubles>>
      /\ watch \in Watch /\ watch' = Watched(w)
  BY DEF List, Inv, TypeOK, Wholeness, Progress
<1>2. watch' = watch \/ (IsFundJob(w) /\ watch'.status = "WATCHING")
  BY <1>1 DEF Watched, Watch
<1>3. watch'.status \in HandedOver => FundingBooked
  BY <1>2, HandedPaid DEF HandedOver
<1>4. \A v \in Workers : v # w => jobs'[v] = jobs[v]
  BY <1>1 DEF List, Ends
<1>5. CASE watch'.status \in Scanned(w) /\ ~Crowded(w)
  <2>1. jobs'[w].pc = "scan" /\ jobs'[w].marked = jobs[w].marked /\ jobs'[w].row = jobs[w].row
    BY <1>1, <1>5 DEF List, Job
  <2>2. ~IsFundJob(w) => watch'.status \in HandedOver
    BY <1>5 DEF Scanned, HandedOver
  <2>3. \A k \in Times : LedgerOK(k)' /\ Accepted(k)' = Accepted(k)
    BY <1>1, LedgerStays DEF Accepted
  <2>4. ~jobs'[w].marked
    BY <1>1, <2>1, Zenon
  <2> QED
    BY <1>1, <1>3, <1>4, <2>1, <2>2, <2>3, <2>4, HandedPaid, ScanWhole DEF Applying
<1>6. CASE ~(watch'.status \in Scanned(w) /\ ~Crowded(w))
  <2>1. jobs'[w] = Resting
    BY <1>1, <1>6 DEF List, Ends
  <2>2. /\ jobs'[w].pc = "idle" /\ jobs'[w].marked = FALSE
        /\ jobs'[w].row.status \notin HandedOver
    BY <2>1 DEF Resting, NoWatch, HandedOver
  <2>3. \A k \in Times : LedgerOK(k)' /\ Accepted(k)' = Accepted(k)
    BY <1>1, LedgerStays DEF Accepted
  <2> QED
    BY <1>1, <1>3, <1>4, <2>2, <2>3, ScanWhole DEF Applying
<1> QED
  BY <1>5, <1>6

LEMMA ObserveWhole ==
  ASSUME Inv, Inv', Wholeness, Mono, NEW w \in Workers, Observe(w)
  PROVE  Wholeness'
<1>1. /\ jobs[w].pc = "scan" /\ ~jobs[w].marked /\ jobs[w] \in Job /\ jobs \in [Workers -> Job]
      /\ UNCHANGED <<chain, escrow, watch, ledger, deal, reached, troubles>>
      /\ events \in [Times -> Event]
  BY DEF Observe, Inv, TypeOK, Wholeness, Progress
<1>2. ~IsFundJob(w) => FundingBooked
  BY <1>1, HandedPaid
<1>3. \A v \in Workers : v # w => jobs'[v] = jobs[v]
  BY <1>1 DEF Observe, Ends
<1>4. /\ jobs'[w].pc \in {"idle", "save"} /\ jobs'[w].marked = FALSE
      /\ jobs'[w].row.status \in HandedOver => watch.status \in HandedOver
  <2>1. CASE jobs[w].at > jobs[w].seen
    <3>1. jobs'[w] = Resting
      BY <1>1, <2>1 DEF Observe, Ends
    <3> QED
      BY <3>1 DEF Resting, NoWatch, HandedOver
  <2>2. CASE ~(jobs[w].at > jobs[w].seen)
    <3>1. jobs' = [jobs EXCEPT ![w].pc = "save", ![w].row = watch]
      BY <2>2 DEF Observe
    <3>2. jobs'[w].pc = "save" /\ jobs'[w].row = watch /\ jobs'[w].marked = jobs[w].marked
      BY <1>1, <3>1 DEF Job
    <3>3. jobs[w].marked = FALSE
      BY <1>1, Zenon DEF Job
    <3> QED
      BY <3>2, <3>3
  <2> QED
    BY <2>1, <2>2
<1>5. ASSUME NEW k \in Times
      PROVE  /\ events'[k].applied = events[k].applied
             /\ Accepted(k)' => Accepted(k) \/ Accepts(w, chain[k])
  BY <1>1, Observed DEF Accepted, Recorded
<1>6. ASSUME NEW k \in Times PROVE LedgerOK(k)'
  <2>1. Accepted(k)' => Accepted(k) \/ chain'[k].intended
    BY <1>1, <1>5 DEF Accepts
  <2> QED
    BY <1>1, <1>5, <2>1, LedgerKept DEF Wholeness
<1>7. ASSUME NEW k \in Times, Accepted(k)', ~IsFunding(k) PROVE Accepted(k) \/ FundingBooked
  BY <1>2, <1>5, <1>7 DEF Accepts, IsFunding
<1>8. watch'.status \in HandedOver => FundingBooked
  BY <1>1, HandedPaid
<1>9. jobs'[w].row.status \in HandedOver => FundingBooked
  BY <1>4, HandedPaid
<1> QED
  BY <1>1, <1>2, <1>3, <1>4, <1>6, <1>7, <1>8, <1>9, ScanWhole DEF Applying

LEMMA AdvanceWhole ==
  ASSUME Inv, Inv', Wholeness, Mono, NEW w \in Workers, AdvanceCursor(w)
  PROVE  Wholeness'
<1>1. /\ jobs[w].pc = "save" /\ ~jobs[w].marked /\ jobs[w] \in Job /\ jobs \in [Workers -> Job]
      /\ UNCHANGED <<chain, escrow, events, ledger, deal, reached, troubles>>
      /\ watch \in Watch /\ watch' = Advanced(jobs[w])
  BY DEF AdvanceCursor, Inv, TypeOK, Wholeness, Progress
<1>2. watch'.status \in {watch.status, jobs[w].row.status}
  <2>1. jobs[w].row \in Watch
    BY <1>1 DEF Job
  <2> QED
    BY <1>1, <2>1 DEF Advanced, Watch
<1>3. \A v \in Workers : v # w => jobs'[v] = jobs[v]
  BY <1>1 DEF AdvanceCursor
<1>4. jobs'[w].pc \in {"lock", "scan"} /\ jobs'[w].row = NoWatch /\ jobs'[w].marked = jobs[w].marked
  BY <1>1 DEF AdvanceCursor, Job
<1>5. ~jobs'[w].marked /\ jobs'[w].row.status \notin HandedOver
  <2>1. jobs[w].marked = FALSE
    BY <1>1, Zenon DEF Job
  <2> QED
    BY <1>4, <2>1 DEF NoWatch, HandedOver
<1>6. \A k \in Times : LedgerOK(k)' /\ Accepted(k)' = Accepted(k)
  BY <1>1, LedgerStays DEF Accepted
<1>7. watch'.status \in HandedOver => FundingBooked
  BY <1>2, HandedPaid
<1>8. ~IsFundJob(w) => FundingBooked
  BY <1>1, HandedPaid
<1> QED
  BY <1>1, <1>3, <1>4, <1>5, <1>6, <1>7, <1>8, ScanWhole DEF Applying

-----------------------------------------------------------------------------
(* The theorems                                                            *)

LEMMA WholeKept ==
  ASSUME Inv, Inv', Wholeness, [Next]_vars
  PROVE  Wholeness'
<1>1. CASE UNCHANGED vars
  <2>1. Mono
    BY <1>1 DEF vars, Mono, Grows, Inv, TypeOK
  <2>2. ChainOK' /\ ReachedOK'
    BY <1>1 DEF vars, Wholeness, ChainOK, ReachedOK, Sent, IsFunding
  <2> QED
    BY <1>1, <2>1, <2>2, WorldWhole DEF vars
<1>2. CASE Next
  <2>1. Mono
    BY <1>2, MonoSteps
  <2>2. ASSUME NEW w \in Workers, Works(w) PROVE Wholeness'
    BY <2>1, <2>2, StartRunWhole, ListWhole, ObserveWhole, AdvanceWhole, LockWhole, BookWhole,
       MoveDealWhole, ConsumeWhole, MoveWatchWhole, CommitWhole, ReviewWhole, RecordWhole DEF Works
  <2>3. ASSUME NEW w \in Workers, Backfill(w) \/ Fault(w) \/ Crash(w) PROVE Wholeness'
    BY <2>1, <2>3, BackfillWhole, FaultWhole, CrashWhole
  <2>4. ASSUME Recede PROVE Wholeness'
    <3>1. ChainOK' /\ ReachedOK'
      BY <2>4 DEF Recede, Wholeness, ChainOK, ReachedOK, Sent, IsFunding
    <3> QED
      BY <2>1, <2>4, <3>1, WorldWhole DEF Recede
  <2> QED
    BY <1>2, <2>1, <2>2, <2>3, <2>4, TransactWhole, MoveWhole, RequeueWhole DEF Next
<1> QED
  BY <1>1, <1>2

LEMMA WholeAlways == Spec => [](Inv /\ Wholeness)
<1>1. Inv /\ Wholeness /\ Inv' /\ [Next]_vars => Wholeness'
  BY WholeKept
<1> QED
  BY <1>1, InitWhole, Invariance, PTL DEF Spec

\* AppliedWhole: however many funding jobs, lifecycle jobs and backfills overlap, whatever dies or
\* fails on the way and however often it is tried again, what counts as applied is applied in full;
\* unless the event has been taken for something else.
THEOREM AppliedIsWhole == Spec => []AppliedWhole
<1>1. Inv /\ Wholeness => AppliedWhole
  <2> SUFFICES ASSUME Inv, Wholeness, NEW k \in Times, events[k].applied, ~Mistaken(k)
               PROVE  /\ ledger[k] = Booked(chain[k].action)
                      /\ DealAfter[chain[k].action] \in reached
                      /\ chain[k].action # "fund" => chain[k].action \in consumed
    BY DEF AppliedWhole
  <2>1. LedgerOK(k)
    BY DEF Wholeness
  <2>2. \A action \in taken[k] : action = chain[k].action
    BY DEF Mistaken
  <2>3. Whole(k, chain[k].action)
    BY <2>1, <2>2 DEF LedgerOK
  <2>4. ledger[k] \subseteq Booked(chain[k].action)
    BY <2>1, <2>2 DEF LedgerOK
  <2> QED
    BY <2>3, <2>4 DEF Whole
<1> QED
  BY <1>1, WholeAlways, PTL

\* BooksFollowChain: with any number of jobs, the entries of an event that has not been taken for
\* something else tell what the contract did: none without a transaction the parties asked for,
\* none out of the escrow before the funding has been booked, and by one way only.
THEOREM BooksFollow == Spec => []BooksFollowChain
<1>1. Inv /\ Wholeness => BooksFollowChain
  <2> SUFFICES ASSUME Inv, Wholeness, NEW k \in Times, ledger[k] # {}, ~Mistaken(k)
               PROVE  /\ k <= Len(chain) /\ chain[k].intended
                      /\ ledger[k] \subseteq Booked(chain[k].action)
                      /\ chain[k].action # "fund" =>
                           /\ \E j \in 1..k - 1 : /\ chain[j].action = "fund"
                                                  /\ Booked("fund") \subseteq ledger[j]
                           /\ \A j \in Times : ledger[j] # {} /\ ~Mistaken(j) =>
                                j = k \/ chain[j].action = "fund"
    BY DEF BooksFollowChain
  <2>1. ASSUME NEW j \in Times, ledger[j] # {}, ~Mistaken(j)
        PROVE  /\ Accepted(j) /\ chain[j].intended /\ ledger[j] \subseteq Booked(chain[j].action)
               /\ j \in Sent /\ chain[j].action \in Lifecycle \union {"fund"}
    <3>1. LedgerOK(j) /\ EventOK(j) /\ j \in 1..MaxChain /\ Len(chain) \in Nat
      BY DEF Inv, TypeOK, Wholeness, Times
    <3>2. Accepted(j) /\ chain[j].intended /\ ledger[j] \subseteq Booked(chain[j].action)
      BY <2>1, <3>1 DEF LedgerOK, Mistaken
    <3> QED
      BY <3>1, <3>2, WatchAssumption DEF EventOK, Accepted, Recorded, Sent
  <2>2. ASSUME NEW j \in Times, ledger[j] # {}, ~Mistaken(j), ~IsFunding(j)
        PROVE  chain[j].action \in Exits
    <3>1. Booked("deliver") = {} /\ Booked("dispute") = {}
      BY DEF Booked, Entries
    <3> QED
      BY <2>1, <2>2, <3>1 DEF IsFunding, Exits, Lifecycle
  <2>3. k \in Sent /\ k <= Len(chain) /\ ChainOK
    BY <2>1 DEF Sent, Wholeness
  <2>4. ASSUME ~IsFunding(k)
        PROVE  /\ \E j \in 1..k - 1 : chain[j].action = "fund" /\ Booked("fund") \subseteq ledger[j]
               /\ \A j \in Times : ledger[j] # {} /\ ~Mistaken(j) => j = k \/ chain[j].action = "fund"
    <3>1. PICK i \in Sent : i < k /\ IsFunding(i)
      BY <2>1, <2>3, <2>4 DEF ChainOK, IsFunding
    <3>2. FundingBooked
      BY <2>1, <2>4, HandedPaid
    <3>3. PICK j \in Times : Accepted(j) /\ IsFunding(j) /\ Booked("fund") \subseteq ledger[j]
      BY <3>2 DEF FundingBooked
    <3>4. j \in Sent
      BY <3>3, WatchAssumption DEF Inv, TypeOK, EventOK, Times, Accepted, Recorded, Sent
    <3>5. j = i
      BY <2>3, <3>1, <3>3, <3>4 DEF ChainOK
    <3>6. j \in 1..k - 1
      BY <3>1, <3>5, WatchAssumption DEF Times
    <3>7. \A h \in Times : ledger[h] # {} /\ ~Mistaken(h) => h = k \/ chain[h].action = "fund"
      BY <2>1, <2>2, <2>3, <2>4 DEF ChainOK, IsFunding
    <3> QED
      BY <3>3, <3>6, <3>7 DEF IsFunding
  <2> QED
    BY <2>1, <2>3, <2>4 DEF IsFunding
<1> QED
  BY <1>1, WholeAlways, PTL

(***************************************************************************)
(* TonNativeEscrow                                                         *)
(***************************************************************************)

\* What one step needs of the state before: nobody has been paid before the deal is settled, and
\* the balance is short of deposit and reserve by what the contract has spent, at most.
Unpaid == status \notin Settled => received = Nothing
Provided == status \in Holding /\ Spent <= Reserve => balance + Spent >= fundedAmount + Reserve

EscrowInv == EscrowTypeOK /\ now >= 1 /\ Unpaid /\ Provided

Payout == [buyer : Nat, seller : Nat, treasury : Nat]

LEMMA EscrowNumbers ==
  /\ BuyerTotal \in Nat /\ SellerPayout \in Nat /\ PlatformFee \in Nat
  /\ RefundToBuyer \in Nat /\ RefundFee \in Nat
  /\ Reserve \in Nat /\ Fee \in Nat /\ Rent \in Nat
  BY NativeAssumption

LEMMA SpentIsNat == ASSUME EscrowTypeOK, now >= 1 PROVE Spent \in Nat
<1>1. Rent * (now - 1) \in Nat
  BY EscrowNumbers DEF EscrowTypeOK
<1> QED
  BY <1>1, EscrowNumbers DEF Spent

LEMMA CostIsNat == ASSUME NEW payout \in Payout PROVE CostOf(payout) \in Nat
  BY EscrowNumbers DEF CostOf, Cost, Payout

LEMMA EscrowInitInv == EscrowInit => EscrowInv
  BY DEF EscrowInit, EscrowInv, EscrowTypeOK, Unpaid, Provided, Statuses, Holding, Nothing, Payees

-----------------------------------------------------------------------------
(* Steps                                                                   *)

LEMMA FundStep == ASSUME EscrowInv, NEW v \in Nat, Fund(v) PROVE EscrowInv'
<1> DEFINE excess == IF v > BuyerTotal + Reserve THEN v - BuyerTotal - Reserve ELSE 0
<1>1. /\ status = "AWAITING_FUNDING" /\ status' = "FUNDED" /\ now' = now /\ received' = received
      /\ v >= BuyerTotal + Reserve /\ fundedAmount' = BuyerTotal
      /\ balance + v >= Cost(excess) /\ balance' = balance + v - Cost(excess)
      /\ returned' = returned + excess
  BY DEF Fund, Suffices
<1>2. excess \in Nat /\ Cost(excess) \in Nat /\ balance \in Nat /\ returned \in Nat
  BY EscrowNumbers DEF EscrowInv, EscrowTypeOK, Cost
<1>3. EscrowTypeOK'
  BY <1>1, <1>2, EscrowNumbers DEF EscrowInv, EscrowTypeOK, Statuses
<1>4. Unpaid'
  BY <1>1 DEF EscrowInv, Unpaid, Settled
<1>5. Spent' >= (IF returned' > 0 THEN Fee ELSE 0) /\ Spent' \in Int
  <2>1. Rent * (now - 1) \in Nat
    BY EscrowNumbers DEF EscrowInv, EscrowTypeOK
  <2> QED
    BY <1>1, <2>1, EscrowNumbers DEF Spent
<1>6. balance' + (IF returned' > 0 THEN Fee ELSE 0) >= BuyerTotal + Reserve
  BY <1>1, <1>2, EscrowNumbers DEF Cost
<1>7. Provided'
  <2>1. balance' \in Int /\ BuyerTotal \in Int /\ Reserve \in Int /\ Fee \in Int
    BY <1>3, EscrowNumbers DEF EscrowTypeOK
  <2> QED
    BY <1>1, <1>5, <1>6, <2>1 DEF Provided
<1> QED
  BY <1>1, <1>3, <1>4, <1>7 DEF EscrowInv

\* A message that pays nothing out.
LEMMA KeepStep ==
  ASSUME EscrowInv, NEW v \in Nat, balance' = balance + v, UNCHANGED <<now, received, returned, fundedAmount>>,
         \/ status' = status
         \/ status \in Holding /\ status' \in Holding
  PROVE  EscrowInv'
<1>1. EscrowTypeOK' /\ Unpaid'
  BY DEF EscrowInv, EscrowTypeOK, Unpaid, Holding, Settled, Statuses
<1>2. Spent' = Spent
  BY DEF Spent
<1>3. Spent \in Nat
  BY SpentIsNat DEF EscrowInv
<1>4. Provided'
  BY <1>2, <1>3, EscrowNumbers DEF EscrowInv, Provided, EscrowTypeOK
<1> QED
  BY <1>1, <1>4 DEF EscrowInv

LEMMA PayStep ==
  ASSUME EscrowInv, NEW v \in Nat, NEW payout \in Payout, NEW to \in Settled, PaysOut(to, payout, v)
  PROVE  EscrowInv'
<1>1. CostOf(payout) \in Nat
  BY CostIsNat
<1>2. /\ balance' \in Nat /\ status' \in Settled /\ UNCHANGED <<fundedAmount, now, returned>>
      /\ received' \in [Payees -> Nat]
  BY <1>1 DEF EscrowInv, EscrowTypeOK, PaysOut, CanPay, Payees, Payout
<1> QED
  BY <1>2 DEF EscrowInv, EscrowTypeOK, Unpaid, Provided, Settled, Holding, Statuses

LEMMA TickStep == ASSUME EscrowInv, Tick PROVE EscrowInv'
<1>1. /\ now \in Nat /\ now >= 1 /\ now' = now + 1
      /\ UNCHANGED <<status, fundedAmount, received, returned>>
      /\ balance' = IF balance >= Rent THEN balance - Rent ELSE 0
  BY DEF EscrowInv, EscrowTypeOK, Tick
<1>2. EscrowTypeOK' /\ Unpaid'
  BY <1>1, EscrowNumbers DEF EscrowInv, EscrowTypeOK, Unpaid
<1>3. Spent \in Nat /\ Spent' = Spent + Rent
  <2>1. Rent * (now' - 1) = Rent * (now - 1) + Rent /\ Rent * (now - 1) \in Nat
    BY <1>1, EscrowNumbers
  <2>2. Spent \in Nat
    BY SpentIsNat DEF EscrowInv
  <2> QED
    BY <1>1, <2>1, <2>2, EscrowNumbers DEF Spent
<1>4. Provided'
  BY <1>1, <1>3, EscrowNumbers DEF EscrowInv, Provided, EscrowTypeOK
<1> QED
  BY <1>1, <1>2, <1>4 DEF EscrowInv

\* The three divisions of the price; what is paid makes up the total.
LEMMA EscrowDivisions ==
  ASSUME NEW v \in Values,
         Release(v) \/ RefundBuyer(v) \/ TimesOut(v) \/ \E award \in Awards : Resolve(award, v)
  PROVE  /\ status \in Holding
         /\ \E payout \in Payout, to \in Settled :
              /\ payout.buyer + payout.seller + payout.treasury = BuyerTotal
              /\ PaysOut(to, payout, v)
<1> DEFINE Paid == \E payout \in Payout, to \in Settled :
              /\ payout.buyer + payout.seller + payout.treasury = BuyerTotal
              /\ PaysOut(to, payout, v)
<1>1. ASSUME PaySellerAndTreasury(v) PROVE Paid
  <2> DEFINE payout == [buyer |-> 0, seller |-> SellerPayout, treasury |-> PlatformFee]
  <2>1. payout \in Payout /\ payout.buyer + payout.seller + payout.treasury = BuyerTotal
    BY NativeAssumption, EscrowNumbers DEF Payout
  <2> QED
    BY <1>1, <2>1 DEF PaySellerAndTreasury, Settled
<1>2. ASSUME PayRefundAndTreasury(v) PROVE Paid
  <2>1. Refund \in Payout /\ Refund.buyer + Refund.seller + Refund.treasury = BuyerTotal
    BY NativeAssumption, EscrowNumbers DEF Payout, Refund
  <2> QED
    BY <1>2, <2>1 DEF PayRefundAndTreasury, Settled
<1>3. ASSUME NEW award \in Awards, Resolve(award, v) PROVE Paid
  <2> DEFINE payout == [buyer |-> award, seller |-> BuyerTotal - PlatformFee - award,
                        treasury |-> PlatformFee]
  <2>1. award \in Nat /\ award + PlatformFee <= BuyerTotal
    BY <1>3, NativeAssumption DEF Resolve
  <2>2. payout \in Payout /\ payout.buyer + payout.seller + payout.treasury = BuyerTotal
    BY <2>1, EscrowNumbers DEF Payout
  <2> QED
    BY <1>3, <2>2 DEF Resolve, Settled
<1> QED
  BY <1>1, <1>2, <1>3 DEF Release, RefundBuyer, TimesOut, RefundAfterSellerTimeout,
       ReleaseAfterBuyerTimeout, Resolve, Holding

\* Every step is a funding, a payout, one that pays nothing out, or time.
LEMMA EscrowCases ==
  ASSUME EscrowNext
  PROVE  \/ \E v \in Nat : Fund(v)
         \/ \E v \in Nat : /\ balance' = balance + v
                           /\ UNCHANGED <<now, received, returned, fundedAmount>>
                           /\ \/ status' = status
                              \/ status \in Holding /\ status' \in Holding
         \/ /\ status \in Holding
            /\ \E v \in Nat, payout \in Payout, to \in Settled :
              /\ payout.buyer + payout.seller + payout.treasury = BuyerTotal
              /\ PaysOut(to, payout, v)
         \/ Tick
<1>1. Values \subseteq Nat
  BY NativeAssumption
<1>2. ASSUME NEW v \in Values, MarkDelivered(v) \/ OpenDispute(v) \/ TopUp(v)
      PROVE  /\ balance' = balance + v
             /\ UNCHANGED <<now, received, returned, fundedAmount>>
             /\ \/ status' = status
                \/ status \in Holding /\ status' \in Holding
  BY <1>2 DEF MarkDelivered, OpenDispute, TopUp, Moves, Holding
<1> QED
  BY <1>1, <1>2, EscrowDivisions DEF EscrowNext

LEMMA EscrowInvKept == ASSUME EscrowInv, [EscrowNext]_escrowVars PROVE EscrowInv'
<1>1. CASE EscrowNext
  BY <1>1, EscrowCases, FundStep, KeepStep, PayStep, TickStep
<1>2. CASE UNCHANGED escrowVars
  BY <1>2 DEF escrowVars, EscrowInv, EscrowTypeOK, Unpaid, Provided, Spent
<1> QED
  BY <1>1, <1>2

-----------------------------------------------------------------------------
(* Results                                                                 *)

LEMMA EscrowInvariance == EscrowSpec => []EscrowInv
  BY EscrowInitInv, EscrowInvKept, PTL DEF EscrowSpec

\* The balance is never asked for more than there is.
THEOREM EscrowTyped == EscrowSpec => []EscrowTypeOK
<1>1. EscrowInv => EscrowTypeOK
  BY DEF EscrowInv
<1> QED
  BY <1>1, EscrowInvariance, PTL

\* DepositUntouched: what was deposited is there until the deal is decided, as long as the
\* reserve has paid for the rent and for the message that gave an excess back.
THEOREM DepositIsUntouched == EscrowSpec => []DepositUntouched
<1>1. EscrowInv => DepositUntouched
  <2> SUFFICES ASSUME EscrowInv, status \in Holding, Spent <= Reserve PROVE balance >= fundedAmount
    BY DEF DepositUntouched
  <2>1. balance + Spent >= fundedAmount + Reserve
    BY DEF EscrowInv, Provided
  <2>2. Spent \in Nat /\ balance \in Nat /\ fundedAmount \in Nat /\ Reserve \in Nat
    BY SpentIsNat, EscrowNumbers DEF EscrowInv, EscrowTypeOK
  <2> QED
    BY <2>1, <2>2
<1> QED
  BY <1>1, EscrowInvariance, PTL

LEMMA PlanBegins == EscrowInit => Promise!PlanInit
  BY DEF EscrowInit, Promise!PlanInit, Phase, Settled, Nothing, Payees, Promise!Nothing, Promise!Payees

\* A payout divides the total, in one step.
LEMMA PaysPlan ==
  ASSUME EscrowInv, status \in Holding, NEW v \in Nat, NEW payout \in Payout, NEW to \in Settled,
         payout.buyer + payout.seller + payout.treasury = BuyerTotal, PaysOut(to, payout, v)
  PROVE  Promise!PayAtOnce
<1>1. Phase = "open" /\ Phase' = "closed"
  BY DEF Phase, PaysOut, Settled, Holding
<1>2. received = [p \in Payees |-> 0]
  BY DEF EscrowInv, Unpaid, Settled, Holding, Nothing
<1>3. received' \in [Payees -> Nat] /\ \A p \in Payees : received'[p] = payout[p]
  BY <1>2 DEF PaysOut, Payout, Payees
<1>4. received'.buyer + received'.seller + received'.treasury = BuyerTotal
  BY <1>3 DEF Payees
<1> QED
  BY <1>1, <1>3, <1>4 DEF Promise!PayAtOnce, Promise!DividesTotal, Promise!Payees, Payees

LEMMA EscrowStepPlans == ASSUME EscrowInv, [EscrowNext]_escrowVars PROVE [Promise!PlanNext]_(Promise!planVars)
<1>1. ASSUME Phase' = Phase, received' = received PROVE UNCHANGED Promise!planVars
  BY <1>1 DEF Promise!planVars
<1>2. ASSUME NEW v \in Nat, Fund(v) PROVE Phase' = Phase /\ received' = received
  BY <1>2 DEF Fund, Phase, Settled
<1>3. ASSUME received' = received,
             \/ status' = status
             \/ status \in Holding /\ status' \in Holding
      PROVE  Phase' = Phase
  BY <1>3 DEF Phase, Settled, Holding
<1>4. Tick \/ UNCHANGED escrowVars => Phase' = Phase /\ received' = received
  BY DEF Tick, escrowVars, Phase
<1> QED
  BY <1>1, <1>2, <1>3, <1>4, EscrowCases, PaysPlan DEF Promise!PlanNext

\* PlanSpec: the contract divides the total once, pays everybody his part in the transaction
\* that decides, and pays nothing else, whatever the chain takes of the balance.
THEOREM ImplementsPlan == EscrowSpec => PlanSpec
<1>1. EscrowInv /\ [EscrowNext]_escrowVars => [Promise!PlanNext]_(Promise!planVars)
  BY EscrowStepPlans
<1> QED
  BY <1>1, PlanBegins, EscrowInvariance, PTL DEF EscrowSpec, PlanSpec, Promise!PlanSpec
====
