---- MODULE Outbox ----
(***************************************************************************)
(* ops/outbox.service.ts with its consumer, notifications/: rows that wait *)
(* for delivery, claimed in batches under a lease of a minute by the       *)
(* workers of several processes, sent to one recipient after the other,    *)
(* and marked delivered or failed.                                         *)
(*                                                                         *)
(* A row's position in `outbox` is its id.  `settled` is history: the      *)
(* recipients for whom sendMessage was called, who do not want the         *)
(* message, or are served by the copy enqueued for the end of their quiet  *)
(* hours.  Whether the messenger takes a message nobody learns:            *)
(* TelegramBotService.sendMessage logs what goes wrong and returns.        *)
(* `failures` counts the deliveries that a query of the database ended.    *)
(***************************************************************************)
EXTENDS Integers, Sequences, FiniteSets, Functions

CONSTANTS
  Workers,     \* the notification workers, one in each process
  Recipients,  \* [event types -> sequences of users]: the templates
  Nobody,      \* no lease owner
  Moods,       \* the users may be in: awake, in quiet hours, with the bot muted
  MaxAttempts, \* 6 in markFailed
  MaxEvents,   \* bound: events the services enqueue
  MaxMishaps,  \* bound: leases that run out under a living worker, processes that die
  MaxErrors    \* bound: queries of the database that throw

EventTypes == DOMAIN Recipients
Addressees(type) == {Recipients[type][k] : k \in DOMAIN Recipients[type]}
Users == UNION {Addressees(type) : type \in EventTypes}

ASSUME OutboxAssumption ==
  /\ \A type \in EventTypes : Recipients[type] \in Seq(Users)
  /\ Nobody \notin Workers /\ "awake" \in Moods
  /\ MaxAttempts \in Nat \ {0}
  /\ {MaxEvents, MaxMishaps, MaxErrors} \subseteq Nat

VARIABLES
  outbox,   \* the rows
  worker,   \* what each worker is doing
  moods,    \* of the users
  troubles  \* [stalls, deaths, errors] so far

vars == <<outbox, worker, moods, troubles>>

OutboxStatuses == {"PENDING", "IN_FLIGHT", "DELIVERED", "DEAD"}
Ids == DOMAIN outbox
RowIds == 1..MaxEvents * (2 + MaxMishaps) \* a mishap lets an event be copied again

Resting == [pc |-> "idle", batch |-> <<>>, left |-> <<>>, postponed |-> {}, attempts |-> 0]

\* A copy of an event that waits for the end of quiet hours is available later.
NewEvent(type, copy) ==
  [type |-> type, copy |-> copy, status |-> "PENDING", attempts |-> 0, due |-> ~copy,
   owner |-> Nobody, expired |-> FALSE, settled |-> {}, failures |-> 0]

Init ==
  /\ outbox = <<>>
  /\ worker = [w \in Workers |-> Resting]
  /\ moods \in [Users -> Moods]
  /\ troubles = [stalls |-> 0, deaths |-> 0, errors |-> 0]

\* enqueue, by any service
Enqueue(type) ==
  /\ Cardinality({id \in Ids : ~outbox[id].copy}) < MaxEvents
  /\ outbox' = Append(outbox, NewEvent(type, FALSE))
  /\ UNCHANGED <<worker, moods, troubles>>

\* Slip: also a row that is in flight.
Claimable_InFlight(row) == row.due /\ row.status \in {"PENDING", "IN_FLIGHT"}
\* Slip: never a row that is in flight.
Claimable_PendingOnly(row) == row.due /\ row.status = "PENDING"

Claimable(row) ==
  /\ row.due
  /\ row.status = "PENDING" \/ (row.status = "IN_FLIGHT" /\ row.expired)

\* A worker takes the rows of its batch one after the other; after the last one the tick ends.
Handling(batch) ==
  IF batch = <<>> THEN Resting
  ELSE [Resting EXCEPT !.pc = "send", !.batch = batch, !.left = Recipients[outbox[Head(batch)].type]]

Current(w) == Head(worker[w].batch)
Handles(w) == {worker[w].batch[k] : k \in DOMAIN worker[w].batch}

Due == {id \in Ids : Claimable(outbox[id])}

\* claimBatch: the bound on rows is below the limit of 25, so a batch is all that is due, in the
\* order in which it became due.
Claim(w) ==
  /\ worker[w].pc = "idle" /\ Due # {}
  /\ outbox' = [id \in Ids |-> IF id \in Due
       THEN [outbox[id] EXCEPT !.status = "IN_FLIGHT", !.owner = w, !.expired = FALSE]
       ELSE outbox[id]]
  /\ \E batch \in Injection(1..Cardinality(Due), Due) : worker' = [worker EXCEPT ![w] = Handling(batch)]
  /\ UNCHANGED <<moods, troubles>>

\* dispatch, one recipient: he is unknown or has muted the bot, or sendMessage returns, or the
\* message is postponed.
Dispatch(w) ==
  LET user == Head(worker[w].left) IN
  /\ worker[w].pc = "send" /\ worker[w].left # <<>>
  /\ worker' = [worker EXCEPT ![w].left = Tail(@),
       ![w].postponed = IF moods[user] = "quiet" THEN @ \union {user} ELSE @]
  /\ outbox' = [outbox EXCEPT ![Current(w)].settled =
       IF moods[user] = "quiet" THEN @ ELSE @ \union {user}]
  /\ UNCHANGED <<moods, troubles>>

\* Slip: the error is caught in the loop over the recipients, which ends there.
Fails_Caught(w) ==
  /\ worker[w].pc = "send" /\ worker[w].left # <<>>
  /\ troubles.errors < MaxErrors /\ troubles' = [troubles EXCEPT !.errors = @ + 1]
  /\ worker' = [worker EXCEPT ![w].left = <<>>]
  /\ UNCHANGED <<outbox, moods>>

\* dispatch throws when it looks for the user or for his preferences: the recipients after him are
\* not tried.
Fails(w) ==
  /\ worker[w].pc = "send" /\ worker[w].left # <<>>
  /\ troubles.errors < MaxErrors /\ troubles' = [troubles EXCEPT !.errors = @ + 1]
  /\ outbox' = [outbox EXCEPT ![Current(w)].failures = @ + 1]
  /\ worker' = [worker EXCEPT ![w].pc = "failed"]
  /\ UNCHANGED moods

\* All recipients are done; when somebody sleeps the whole event is enqueued again for later.
Defer(w) ==
  /\ worker[w].pc = "send" /\ worker[w].left = <<>> /\ worker[w].postponed # {}
  /\ outbox' = Append([outbox EXCEPT ![Current(w)].settled = @ \union worker[w].postponed],
                      NewEvent(outbox[Current(w)].type, TRUE))
  /\ worker' = [worker EXCEPT ![w].postponed = {}]
  /\ UNCHANGED <<moods, troubles>>

OwnedBy(w, id) == outbox[id].owner = w

FinishRow(w) == [worker EXCEPT ![w] = Handling(Tail(@.batch))]

MarkDelivered(w) ==
  /\ worker[w].pc = "send" /\ worker[w].left = <<>> /\ worker[w].postponed = {}
  /\ outbox' = IF ~OwnedBy(w, Current(w)) THEN outbox
       ELSE [outbox EXCEPT ![Current(w)].status = "DELIVERED", ![Current(w)].owner = Nobody]
  /\ worker' = FinishRow(w)
  /\ UNCHANGED <<moods, troubles>>

\* markFailed reads the row it still owns, and saves it afterwards.
FindFailed(w) ==
  /\ worker[w].pc = "failed"
  /\ worker' = IF OwnedBy(w, Current(w))
       THEN [worker EXCEPT ![w].pc = "park", ![w].attempts = outbox[Current(w)].attempts + 1]
       ELSE FinishRow(w)
  /\ UNCHANGED <<outbox, moods, troubles>>

Exhausted(attempts) == attempts >= MaxAttempts

MarkFailed(w) ==
  LET attempts == worker[w].attempts
      row == outbox[Current(w)] IN
  /\ worker[w].pc = "park"
  /\ outbox' = [outbox EXCEPT ![Current(w)] =
       [row EXCEPT !.attempts = attempts, !.owner = Nobody,
                   !.status = IF Exhausted(attempts) THEN "DEAD" ELSE "PENDING",
                   !.due = row.due /\ Exhausted(attempts)]]
  /\ worker' = FinishRow(w)
  /\ UNCHANGED <<moods, troubles>>

-----------------------------------------------------------------------------

CanMishap == troubles.stalls + troubles.deaths < MaxMishaps

Leased(id) == outbox[id].status = "IN_FLIGHT" /\ ~outbox[id].expired

\* Time: the lease of a minute, the backoff, quiet hours.
LeaseExpires(id) ==
  /\ Leased(id)
  /\ IF outbox[id].owner \in Workers
     THEN CanMishap /\ troubles' = [troubles EXCEPT !.stalls = @ + 1]
     ELSE UNCHANGED troubles
  /\ outbox' = [outbox EXCEPT ![id].expired = TRUE]
  /\ UNCHANGED <<worker, moods>>

\* A copy waits for the last of the quiet hours it was made for, a failed row for its backoff.
BecomesDue(id) ==
  /\ outbox[id].status = "PENDING" /\ ~outbox[id].due
  /\ outbox[id].copy => \A user \in Addressees(outbox[id].type) : moods[user] # "quiet"
  /\ outbox' = [outbox EXCEPT ![id].due = TRUE]
  /\ UNCHANGED <<worker, moods, troubles>>

WakesUp(user) ==
  /\ moods[user] = "quiet" /\ moods' = [moods EXCEPT ![user] = "awake"]
  /\ UNCHANGED <<outbox, worker, troubles>>

\* A process dies; the one that replaces it has another workerId, so its rows have no owner left.
\* A tick that ends because markFailed throws leaves its rows in the same way.
Die(w) ==
  /\ worker[w].pc # "idle"
  /\ CanMishap /\ troubles' = [troubles EXCEPT !.deaths = @ + 1]
  /\ worker' = [worker EXCEPT ![w] = Resting]
  /\ outbox' = [id \in Ids |-> IF outbox[id].owner = w
       THEN [outbox[id] EXCEPT !.owner = Nobody] ELSE outbox[id]]
  /\ UNCHANGED moods

Works(w) ==
  \/ Claim(w) \/ Dispatch(w) \/ Defer(w) \/ MarkDelivered(w) \/ FindFailed(w) \/ MarkFailed(w)

Next ==
  \/ \E type \in EventTypes : Enqueue(type)
  \/ \E w \in Workers : Works(w) \/ Die(w) \/ Fails(w)
  \/ \E id \in Ids : LeaseExpires(id) \/ BecomesDue(id)
  \/ \E user \in Users : WakesUp(user)

\* The cron starts a tick every ten seconds, and time passes.
Fairness ==
  /\ \A w \in Workers : WF_vars(Works(w))
  /\ \A id \in RowIds :
       WF_vars(id \in Ids /\ (BecomesDue(id)
                       \/ (outbox[id].owner \notin Workers /\ LeaseExpires(id))))
  /\ \A user \in Users : WF_vars(WakesUp(user))

Spec == Init /\ [][Next]_vars
FairSpec == Spec /\ Fairness

-----------------------------------------------------------------------------

\* The rows and the workers keep their types.
Row == [type : EventTypes, copy : BOOLEAN, status : OutboxStatuses, attempts : 0..MaxAttempts,
        due : BOOLEAN, owner : Workers \union {Nobody}, expired : BOOLEAN,
        settled : SUBSET Users, failures : Nat]
Job == [pc : {"idle", "send", "failed", "park"}, batch : Seq(Nat), left : Seq(Users),
        postponed : SUBSET Users, attempts : 0..MaxAttempts]

TypeOK ==
  /\ outbox \in Seq(Row) /\ worker \in [Workers -> Job]
  /\ moods \in [Users -> Moods] /\ troubles \in [{"stalls", "deaths", "errors"} -> Nat]
  /\ \A id \in Ids : outbox[id].settled \subseteq Addressees(outbox[id].type)
  /\ \A w \in Workers : Handles(w) \subseteq Ids

\* An event is marked delivered only when everybody it is for was tried in one pass or another,
\* does not want it, or gets it with a copy that is enqueued: however often a pass broke off in the
\* middle, was taken over, or met people asleep.
NobodyForgotten ==
  \A id \in Ids : outbox[id].status = "DELIVERED" => outbox[id].settled = Addressees(outbox[id].type)

\* As long as no lease has run out under a living worker, no two of them work on one event.
WorkersApart ==
  troubles.stalls = 0 =>
    \A v \in Workers, w \in Workers : v # w => Handles(v) \intersect Handles(w) = {}

\* Every event is delivered in the end, or has failed as often as is allowed.
EventsSettle ==
  /\ [](Ids \subseteq RowIds)
  /\ \A id \in RowIds : id \in Ids ~> id \in Ids /\
       (outbox[id].status = "DELIVERED" \/ (outbox[id].status = "DEAD" /\ outbox[id].failures >= MaxAttempts))

====
