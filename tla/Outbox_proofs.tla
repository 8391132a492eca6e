---- MODULE Outbox_proofs ----
(***************************************************************************)
(* Theorems about Outbox, for any number of workers, events, recipients    *)
(* and mishaps: the rows keep their types, nobody is forgotten, and the    *)
(* workers keep apart as long as no lease runs out under a living one.     *)
(***************************************************************************)
EXTENDS Outbox, FiniteSetTheorems, TLAPS

\* The recipients a worker has still to serve.
Waiting(w) == {worker[w].left[k] : k \in DOMAIN worker[w].left}

\* A row that somebody owns is in flight, and what is not dead has attempts left.
RowsOK ==
  \A id \in Ids :
    /\ outbox[id].owner \in Workers => outbox[id].status = "IN_FLIGHT"
    /\ outbox[id].status \in {"PENDING", "IN_FLIGHT"} => outbox[id].attempts < MaxAttempts

\* A worker rests when its batch is empty, and a batch names a row once.
BatchOK(w) ==
  /\ worker[w].pc = "idle" <=> worker[w].batch = <<>>
  /\ \A i, j \in DOMAIN worker[w].batch : worker[w].batch[i] = worker[w].batch[j] => i = j

\* Whoever a row is for has been served, has been postponed or is still to be served.
Serves(w) ==
  worker[w].pc = "send" =>
    /\ Addressees(outbox[Current(w)].type)
         \subseteq outbox[Current(w)].settled \union worker[w].postponed \union Waiting(w)
    /\ worker[w].postponed \union Waiting(w) \subseteq Addressees(outbox[Current(w)].type)

\* Without a stall, whatever a worker handles is leased to it.
Owns(w) ==
  \A id \in Handles(w) :
    outbox[id].status = "IN_FLIGHT" /\ outbox[id].owner = w /\ ~outbox[id].expired

Inv ==
  /\ TypeOK /\ RowsOK /\ NobodyForgotten
  /\ \A w \in Workers : BatchOK(w) /\ Serves(w)
  /\ troubles.stalls = 0 => \A w \in Workers : Owns(w)

-----------------------------------------------------------------------------
(* The types                                                               *)

LEMMA RecipientsAre ==
  ASSUME NEW type \in EventTypes
  PROVE  /\ Recipients[type] \in Seq(Users)
         /\ Addressees(type) = {Recipients[type][k] : k \in DOMAIN Recipients[type]}
         /\ Addressees(type) \subseteq Users
  BY OutboxAssumption DEF Addressees, Users

LEMMA NewRow ==
  ASSUME NEW type \in EventTypes, NEW copy \in BOOLEAN
  PROVE  NewEvent(type, copy) \in Row
  BY OutboxAssumption DEF NewEvent, Row, OutboxStatuses

LEMMA RestingJob == Resting \in Job
  BY OutboxAssumption DEF Resting, Job

LEMMA RowAt ==
  ASSUME TypeOK, NEW id \in Ids
  PROVE  outbox[id] \in Row /\ outbox[id].type \in EventTypes
<1>1. outbox[id] \in Row
  BY DEF TypeOK, Ids
<1> QED
  BY <1>1 DEF Row

\* A batch of rows that exist makes a job.
LEMMA HandlingJob ==
  ASSUME TypeOK, NEW batch \in Seq(Ids)
  PROVE  /\ Handling(batch) \in Job
         /\ Handling(batch).batch = batch
         /\ Handling(batch).postponed = {}
         /\ Handling(batch).pc = IF batch = <<>> THEN "idle" ELSE "send"
         /\ batch # <<>> => Handling(batch).left = Recipients[outbox[Head(batch)].type]
<1>1. CASE batch = <<>>
  BY <1>1, RestingJob DEF Handling, Resting
<1>2. CASE batch # <<>>
  <2>1. Head(batch) \in Ids /\ batch \in Seq(Nat)
    BY <1>2 DEF TypeOK, Ids
  <2>2. outbox[Head(batch)].type \in EventTypes
    BY <2>1, RowAt
  <2>3. Recipients[outbox[Head(batch)].type] \in Seq(Users)
    BY <2>2, RecipientsAre
  <2>4. Handling(batch) =
          [pc |-> "send", batch |-> batch, left |-> Recipients[outbox[Head(batch)].type],
           postponed |-> {}, attempts |-> 0]
    BY <1>2 DEF Handling, Resting
  <2> QED
    BY <1>2, <2>1, <2>3, <2>4, OutboxAssumption DEF Job
<1> QED
  BY <1>1, <1>2

\* The rows that are due, in whatever order, are a batch.
LEMMA DueBatch ==
  ASSUME TypeOK, NEW batch \in Injection(1..Cardinality(Due), Due)
  PROVE  /\ batch \in Seq(Due) /\ Due \subseteq Ids
         /\ \A i, j \in DOMAIN batch : batch[i] = batch[j] => i = j
<1>1. IsFiniteSet(Ids)
  BY FS_Interval DEF TypeOK, Ids
<1>2. Due \subseteq Ids
  BY DEF Due
<1>3. Cardinality(Due) \in Nat
  BY <1>1, <1>2, FS_Subset, FS_CardinalityType
<1> QED
  BY <1>2, <1>3 DEF Injection, IsInjective

LEMMA HeadTail ==
  ASSUME TypeOK, NEW w \in Workers, worker[w].batch # <<>>
  PROVE  /\ Current(w) \in Ids /\ Current(w) \in Handles(w)
         /\ Tail(worker[w].batch) \in Seq(Ids)
<1>1. worker[w].batch \in Seq(Nat) /\ Handles(w) \subseteq Ids
  BY DEF TypeOK, Job
<1>2. worker[w].batch \in Seq(Ids)
  BY <1>1 DEF Handles
<1> QED
  BY <1>2 DEF Current, Handles

\* Rows are never removed, keep their type, and whoever is served stays served.
Grows ==
  \A id \in Ids : /\ id \in Ids' /\ outbox'[id].type = outbox[id].type
                  /\ outbox[id].settled \subseteq outbox'[id].settled

\* One worker moves on with rows that exist.
LEMMA JobMoves ==
  ASSUME TypeOK, NEW w \in Workers, NEW job \in Job, Ids \subseteq Ids',
         \A k \in DOMAIN job.batch : job.batch[k] \in Ids,
         worker' = [worker EXCEPT ![w] = job]
  PROVE  /\ worker' \in [Workers -> Job]
         /\ \A v \in Workers : Handles(v)' \subseteq Ids'
         /\ worker'[w] = job /\ \A v \in Workers \ {w} : worker'[v] = worker[v]
<1>1. worker \in [Workers -> Job] /\ \A v \in Workers : Handles(v) \subseteq Ids
  BY DEF TypeOK
<1>2. worker' \in [Workers -> Job] /\ worker'[w] = job
        /\ \A v \in Workers \ {w} : worker'[v] = worker[v]
  BY <1>1
<1>3. ASSUME NEW v \in Workers PROVE Handles(v)' \subseteq Ids'
  <2>1. CASE v = w
    BY <2>1, <1>2 DEF Handles
  <2>2. CASE v # w
    BY <2>2, <1>1, <1>2 DEF Handles
  <2> QED
    BY <2>1, <2>2
<1> QED
  BY <1>2, <1>3

\* One row changes, keeps its type and is settled for those it is for.
LEMMA RowChanges ==
  ASSUME TypeOK, NEW id \in Ids, NEW row \in Row, row.type = outbox[id].type,
         outbox[id].settled \subseteq row.settled, row.settled \subseteq Addressees(row.type),
         outbox' = [outbox EXCEPT ![id] = row]
  PROVE  /\ outbox' \in Seq(Row) /\ Ids' = Ids /\ Grows
         /\ \A i \in Ids' : outbox'[i].settled \subseteq Addressees(outbox'[i].type)
         /\ outbox'[id] = row /\ \A i \in Ids \ {id} : outbox'[i] = outbox[i]
<1>1. outbox \in Seq(Row) /\ \A i \in Ids : outbox[i].settled \subseteq Addressees(outbox[i].type)
  BY DEF TypeOK
<1>2. outbox' \in Seq(Row) /\ Ids' = Ids /\ outbox'[id] = row
        /\ \A i \in Ids \ {id} : outbox'[i] = outbox[i]
  BY <1>1 DEF Ids
<1>3. Grows
  BY <1>2 DEF Grows
<1>4. \A i \in Ids' : outbox'[i].settled \subseteq Addressees(outbox'[i].type)
  BY <1>1, <1>2
<1> QED
  BY <1>2, <1>3, <1>4

\* A row is added.
LEMMA RowIsAdded ==
  ASSUME NEW rows \in Seq(Row), NEW row \in Row,
         \A i \in DOMAIN rows : rows[i].settled \subseteq Addressees(rows[i].type),
         row.settled = {}, DOMAIN rows = Ids, outbox' = Append(rows, row)
  PROVE  /\ outbox' \in Seq(Row) /\ Ids \subseteq Ids'
         /\ \A i \in Ids : outbox'[i] = rows[i]
         /\ \A i \in Ids' \ Ids : outbox'[i] = row
         /\ \A i \in Ids' : outbox'[i].settled \subseteq Addressees(outbox'[i].type)
<1>1. outbox' \in Seq(Row) /\ DOMAIN outbox' = 1..(Len(rows) + 1) /\ DOMAIN rows = 1..Len(rows)
  OBVIOUS
<1>2. /\ \A i \in 1..Len(rows) : outbox'[i] = rows[i]
      /\ outbox'[Len(rows) + 1] = row
  OBVIOUS
<1>3. Ids \subseteq Ids' /\ \A i \in Ids' : i \in Ids \/ i = Len(rows) + 1
  BY <1>1 DEF Ids
<1>4. (\A i \in Ids : outbox'[i] = rows[i]) /\ (\A i \in Ids' \ Ids : outbox'[i] = row)
  BY <1>1, <1>2, <1>3 DEF Ids
<1> QED
  BY <1>1, <1>3, <1>4

\* Every row of a set changes, each as in RowChanges.
LEMMA RowsMap ==
  ASSUME TypeOK, NEW f \in [Ids -> Row], outbox' = f,
         \A i \in Ids : f[i].type = outbox[i].type /\ f[i].settled = outbox[i].settled
  PROVE  /\ outbox' \in Seq(Row) /\ Ids' = Ids /\ Grows
         /\ \A i \in Ids' : outbox'[i].settled \subseteq Addressees(outbox'[i].type)
<1>1. Ids = 1..Len(outbox) /\ Len(outbox) \in Nat
  BY DEF TypeOK, Ids
<1>2. outbox' \in Seq(Row) /\ Ids' = Ids
  BY <1>1 DEF Ids
<1> QED
  BY <1>2 DEF TypeOK, Grows

-----------------------------------------------------------------------------
(* The invariant                                                           *)

\* A row under the lease of a worker other than those of W is left to it.
Spares(W) ==
  \A id \in Ids :
    outbox[id].owner \in Workers \ W /\ outbox[id].status = "IN_FLIGHT" /\ ~outbox[id].expired
    => /\ outbox'[id].owner = outbox[id].owner
       /\ outbox'[id].status = "IN_FLIGHT" /\ ~outbox'[id].expired

\* What has to be shown of a step in which the workers of W move.
LEMMA StepKeepsInv ==
  ASSUME Inv, NEW W \in SUBSET Workers,
         TypeOK', Grows, RowsOK', NobodyForgotten',
         \A v \in Workers \ W : worker'[v] = worker[v],
         \A w \in W : BatchOK(w)' /\ Serves(w)',
         troubles'.stalls = 0 =>
           troubles.stalls = 0 /\ Spares(W) /\ \A w \in W : Owns(w)'
  PROVE  Inv'
<1>1. ASSUME NEW v \in Workers PROVE BatchOK(v)' /\ Serves(v)'
  <2>1. CASE v \in W
    BY <2>1
  <2>2. CASE v \notin W
    <3>1. worker'[v] = worker[v] /\ BatchOK(v) /\ Serves(v) /\ TypeOK
      BY <2>2 DEF Inv
    <3>2. BatchOK(v)'
      BY <3>1 DEF BatchOK
    <3>3. ASSUME worker[v].pc = "send" PROVE Current(v) \in Ids
      BY <3>1, <3>3, HeadTail DEF BatchOK
    <3>4. Serves(v)'
      BY <3>1, <3>3 DEF Serves, Grows, Current, Waiting
    <3> QED
      BY <3>2, <3>4
  <2> QED
    BY <2>1, <2>2
<1>2. ASSUME troubles'.stalls = 0, NEW v \in Workers PROVE Owns(v)'
  <2>1. CASE v \in W
    BY <2>1, <1>2
  <2>2. CASE v \notin W
    <3>1. worker'[v] = worker[v] /\ Owns(v) /\ Handles(v) \subseteq Ids
      BY <2>2, <1>2 DEF Inv, TypeOK
    <3> QED
      BY <3>1, <1>2, <2>2 DEF Owns, Spares, Handles
  <2> QED
    BY <2>1, <2>2
<1> QED
  BY <1>1, <1>2 DEF Inv

\* Worker w is done with a row, which may have changed meanwhile.
LEMMA RowIsDone ==
  ASSUME Inv, NEW w \in Workers, worker[w].pc # "idle", worker' = FinishRow(w), Grows
  PROVE  /\ worker' \in [Workers -> Job] /\ \A v \in Workers : Handles(v)' \subseteq Ids'
         /\ \A v \in Workers \ {w} : worker'[v] = worker[v]
         /\ BatchOK(w)' /\ Serves(w)'
         /\ Handles(w)' \subseteq Handles(w) \ {Current(w)}
<1> DEFINE batch == worker[w].batch  rest == Tail(batch)
<1>1. TypeOK /\ BatchOK(w) /\ batch # <<>>
  BY DEF Inv, BatchOK
<1>2. batch \in Seq(Nat) /\ rest \in Seq(Ids) /\ Handles(w) \subseteq Ids
  BY <1>1, HeadTail DEF TypeOK, Job
<1>3. worker' = [worker EXCEPT ![w] = Handling(rest)]
  BY DEF FinishRow
<1>4. Handling(rest) \in Job /\ Handling(rest).batch = rest
  BY <1>1, <1>2, HandlingJob
<1>5. Ids \subseteq Ids' /\ \A k \in DOMAIN rest : rest[k] \in Ids
  BY <1>2 DEF Grows
<1>6. /\ worker' \in [Workers -> Job] /\ \A v \in Workers : Handles(v)' \subseteq Ids'
      /\ worker'[w] = Handling(rest) /\ \A v \in Workers \ {w} : worker'[v] = worker[v]
  BY <1>1, <1>3, <1>4, <1>5, JobMoves
<1>7. /\ Len(rest) = Len(batch) - 1 /\ Len(batch) \in Nat /\ DOMAIN rest = 1..Len(rest)
      /\ \A k \in DOMAIN rest : k + 1 \in DOMAIN batch /\ rest[k] = batch[k + 1]
      /\ 1 \in DOMAIN batch /\ Current(w) = batch[1]
  BY <1>1, <1>2 DEF Current
<1>8. \A i, j \in DOMAIN batch : batch[i] = batch[j] => i = j
  BY <1>1 DEF BatchOK
<1>9. ASSUME NEW i \in DOMAIN rest, NEW j \in DOMAIN rest, rest[i] = rest[j] PROVE i = j
  <2>1. i \in Nat /\ j \in Nat /\ i + 1 = j + 1
    BY <1>7, <1>8, <1>9
  <2> QED
    BY <2>1
<1>10. ASSUME NEW k \in DOMAIN rest PROVE rest[k] \in Handles(w) /\ rest[k] # Current(w)
  <2>1. k \in Nat /\ k >= 1 /\ k + 1 # 1
    BY <1>7
  <2> QED
    BY <1>7, <1>8, <2>1 DEF Handles
<1>11. BatchOK(w)'
  <2>1. Handling(rest).pc = IF rest = <<>> THEN "idle" ELSE "send"
    BY <1>1, <1>2, HandlingJob
  <2>2. worker'[w].pc = (IF rest = <<>> THEN "idle" ELSE "send") /\ worker'[w].batch = rest
    BY <1>4, <1>6, <2>1
  <2> HIDE DEF rest
  <2> QED
    BY <1>9, <2>2 DEF BatchOK
<1>12. Serves(w)'
  <2>1. SUFFICES ASSUME rest # <<>> PROVE Serves(w)'
    BY <1>1, <1>2, <1>6, HandlingJob DEF Serves
  <2>2. Head(rest) \in Ids
    BY <1>2, <2>1
  <2>3. outbox[Head(rest)].type \in EventTypes /\ outbox'[Head(rest)].type = outbox[Head(rest)].type
    BY <1>1, <2>2, RowAt DEF Grows
  <2>4. /\ worker'[w].batch = rest /\ worker'[w].postponed = {}
        /\ worker'[w].left = Recipients[outbox[Head(rest)].type]
    <3> HIDE DEF rest
    <3>1. /\ Handling(rest).batch = rest /\ Handling(rest).postponed = {}
          /\ Handling(rest).left = Recipients[outbox[Head(rest)].type]
      BY <1>1, <1>2, <2>1, HandlingJob
    <3> QED
      BY <1>6, <3>1
  <2>5. Waiting(w)' = Addressees(outbox[Head(rest)].type)
    <3> HIDE DEF rest
    <3> QED
      BY <2>4 DEF Waiting, Addressees
  <2>6. Current(w)' = Head(rest)
    BY <2>4 DEF Current
  <2> HIDE DEF rest
  <2> QED
    BY <2>3, <2>4, <2>5, <2>6 DEF Serves
<1>13. Handles(w)' = {rest[k] : k \in DOMAIN rest}
  BY <1>4, <1>6 DEF Handles
<1> QED
  BY <1>6, <1>10, <1>11, <1>12, <1>13

-----------------------------------------------------------------------------
(* One step for each action                                                *)

LEMMA InvStart == Init => Inv
<1> SUFFICES ASSUME Init PROVE Inv
  OBVIOUS
<1>1. outbox \in Seq(Row) /\ Ids = {}
  BY DEF Init, Ids
<1>2. worker \in [Workers -> Job] /\ \A w \in Workers : worker[w] = Resting
  BY RestingJob DEF Init
<1>3. \A w \in Workers : Handles(w) = {}
  BY <1>2 DEF Handles, Resting
<1>4. TypeOK
  BY <1>1, <1>2, <1>3 DEF TypeOK, Init
<1>5. \A w \in Workers : BatchOK(w) /\ Serves(w)
  BY <1>2 DEF BatchOK, Serves, Resting
<1> QED
  BY <1>1, <1>3, <1>4, <1>5 DEF Inv, RowsOK, NobodyForgotten, Owns

LEMMA EnqueueStep ==
  ASSUME Inv, NEW type \in EventTypes, Enqueue(type)
  PROVE  Inv'
<1> DEFINE row == NewEvent(type, FALSE)
<1>1. TypeOK /\ row \in Row /\ row.settled = {} /\ row.owner = Nobody /\ row.attempts = 0
        /\ row.status = "PENDING"
  BY NewRow DEF Inv, NewEvent
<1> HIDE DEF row
<1>2. outbox' = Append(outbox, row) /\ UNCHANGED <<worker, moods, troubles>>
  BY DEF Enqueue, row
<1>3. /\ outbox' \in Seq(Row) /\ Ids \subseteq Ids'
      /\ \A i \in Ids : outbox'[i] = outbox[i]
      /\ \A i \in Ids' \ Ids : outbox'[i] = row
      /\ \A i \in Ids' : outbox'[i].settled \subseteq Addressees(outbox'[i].type)
  BY <1>1, <1>2, RowIsAdded DEF TypeOK, Ids
<1>4. TypeOK'
  BY <1>1, <1>2, <1>3 DEF TypeOK, Handles
<1>5. Grows /\ Spares({})
  BY <1>3 DEF Grows, Spares
<1>6. RowsOK' /\ NobodyForgotten'
  BY <1>1, <1>3, OutboxAssumption DEF Inv, RowsOK, NobodyForgotten
<1> QED
  BY <1>2, <1>4, <1>5, <1>6, StepKeepsInv

LEMMA ClaimStep ==
  ASSUME Inv, NEW w \in Workers, Claim(w)
  PROVE  Inv'
<1> DEFINE Taken(id) == [outbox[id] EXCEPT !.status = "IN_FLIGHT", !.owner = w, !.expired = FALSE]
           rows == [id \in Ids |-> IF id \in Due THEN Taken(id) ELSE outbox[id]]
<1>1. PICK batch \in Injection(1..Cardinality(Due), Due) : worker' = [worker EXCEPT ![w] = Handling(batch)]
  BY DEF Claim
<1>2. TypeOK /\ outbox' = rows /\ UNCHANGED <<moods, troubles>>
  BY DEF Inv, Claim
<1>3. ASSUME NEW id \in Ids
      PROVE  /\ Taken(id) \in Row /\ Taken(id).owner = w /\ Taken(id).status = "IN_FLIGHT"
             /\ ~Taken(id).expired
             /\ Taken(id).type = outbox[id].type /\ Taken(id).settled = outbox[id].settled
             /\ Taken(id).attempts = outbox[id].attempts
  <2>1. outbox[id] \in Row
    BY <1>2, RowAt
  <2> QED
    BY <2>1 DEF Row, OutboxStatuses
<1>4. ASSUME NEW id \in Ids PROVE outbox[id] \in Row
  BY <1>2, RowAt
<1> HIDE DEF Taken
<1>5. rows \in [Ids -> Row] /\ \A i \in Ids : rows[i].type = outbox[i].type /\ rows[i].settled = outbox[i].settled
  BY <1>3, <1>4
<1>6. /\ outbox' \in Seq(Row) /\ Ids' = Ids /\ Grows
      /\ \A i \in Ids' : outbox'[i].settled \subseteq Addressees(outbox'[i].type)
  BY <1>2, <1>5, RowsMap
<1>7. /\ batch \in Seq(Due) /\ Due \subseteq Ids
      /\ \A i, j \in DOMAIN batch : batch[i] = batch[j] => i = j
  BY <1>2, DueBatch
<1>8. batch \in Seq(Ids) /\ \A k \in DOMAIN batch : batch[k] \in Due
  BY <1>7
<1>9. /\ Handling(batch) \in Job
      /\ Handling(batch).batch = batch /\ Handling(batch).postponed = {}
      /\ Handling(batch).pc = IF batch = <<>> THEN "idle" ELSE "send"
      /\ batch # <<>> => Handling(batch).left = Recipients[outbox[Head(batch)].type]
  BY <1>2, <1>8, HandlingJob
<1>10. /\ worker' \in [Workers -> Job] /\ \A v \in Workers : Handles(v)' \subseteq Ids'
       /\ worker'[w] = Handling(batch) /\ \A v \in Workers \ {w} : worker'[v] = worker[v]
  BY <1>1, <1>2, <1>6, <1>7, <1>8, <1>9, JobMoves
<1>11. TypeOK'
  BY <1>2, <1>6, <1>10 DEF TypeOK
<1>12. \A i \in Ids : outbox'[i] = IF i \in Due THEN Taken(i) ELSE outbox[i]
  BY <1>2
<1>13. RowsOK'
  <2>1. ASSUME NEW i \in Due PROVE outbox[i].attempts < MaxAttempts
    BY <1>7 DEF Inv, RowsOK, Due, Claimable
  <2> QED
    BY <1>3, <1>6, <1>7, <1>12, <2>1 DEF Inv, RowsOK
<1>14. NobodyForgotten'
  BY <1>3, <1>6, <1>7, <1>12 DEF Inv, NobodyForgotten
<1>15. Spares({w})
  BY <1>12 DEF Spares, Due, Claimable
<1>16. BatchOK(w)'
  BY <1>7, <1>9, <1>10 DEF BatchOK
<1>17. Serves(w)'
  <2>1. SUFFICES ASSUME batch # <<>> PROVE Serves(w)'
    BY <1>9, <1>10 DEF Serves
  <2>2. Head(batch) \in Ids
    BY <1>8, <2>1
  <2>3. outbox'[Head(batch)].type = outbox[Head(batch)].type
    BY <2>2, <1>6 DEF Grows
  <2>4. Waiting(w)' = Addressees(outbox[Head(batch)].type) /\ worker'[w].postponed = {}
    BY <1>9, <1>10, <2>1 DEF Waiting, Addressees
  <2>5. Current(w)' = Head(batch)
    BY <1>9, <1>10 DEF Current
  <2> QED
    BY <2>3, <2>4, <2>5 DEF Serves
<1>18. Owns(w)'
  <2>1. ASSUME NEW id \in Handles(w)' PROVE id \in Due
    BY <1>8, <1>9, <1>10 DEF Handles
  <2> QED
    BY <1>3, <1>7, <1>12, <2>1 DEF Owns
<1> QED
  BY <1>2, <1>6, <1>10, <1>11, <1>13, <1>14, <1>15, <1>16, <1>17, <1>18, StepKeepsInv

\* The first of the recipients that are left, and the others.
LEMMA LeftSplits ==
  ASSUME TypeOK, NEW w \in Workers, worker[w].left # <<>>
  PROVE  LET left == worker[w].left IN
         /\ Tail(left) \in Seq(Users) /\ Head(left) \in Waiting(w) /\ Head(left) \in Users
         /\ Waiting(w) \subseteq {Head(left)} \union {Tail(left)[k] : k \in DOMAIN Tail(left)}
         /\ {Tail(left)[k] : k \in DOMAIN Tail(left)} \subseteq Waiting(w)
<1> DEFINE left == worker[w].left
<1>1. left \in Seq(Users) /\ left # <<>>
  BY DEF TypeOK, Job
<1>2. Waiting(w) = {left[k] : k \in DOMAIN left}
  BY DEF Waiting
<1> HIDE DEF left
<1>3. /\ Len(left) \in Nat \ {0} /\ DOMAIN left = 1..Len(left) /\ DOMAIN Tail(left) = 1..(Len(left) - 1)
      /\ Head(left) = left[1] /\ Head(left) \in Users /\ Tail(left) \in Seq(Users)
      /\ \A k \in 1..(Len(left) - 1) : Tail(left)[k] = left[k + 1]
  BY <1>1
<1>4. ASSUME NEW k \in DOMAIN left PROVE k = 1 \/ (k - 1 \in DOMAIN Tail(left) /\ left[k] = Tail(left)[k - 1])
  <2>1. k \in 1..Len(left) /\ (k # 1 => k - 1 \in 1..(Len(left) - 1) /\ (k - 1) + 1 = k)
    BY <1>3
  <2> QED
    BY <1>3, <2>1
<1>5. \A k \in DOMAIN Tail(left) : k + 1 \in DOMAIN left /\ Tail(left)[k] = left[k + 1]
  BY <1>3
<1>6. 1 \in DOMAIN left
  BY <1>3
<1>7. Head(left) \in Waiting(w)
  BY <1>2, <1>3, <1>6
<1>8. Waiting(w) \subseteq {Head(left)} \union {Tail(left)[k] : k \in DOMAIN Tail(left)}
  <2>1. ASSUME NEW k \in DOMAIN left
        PROVE  left[k] \in {Head(left)} \union {Tail(left)[j] : j \in DOMAIN Tail(left)}
    BY <1>3, <1>4
  <2> QED
    BY <1>2, <2>1
<1>9. {Tail(left)[k] : k \in DOMAIN Tail(left)} \subseteq Waiting(w)
  BY <1>2, <1>5
<1> QED
  BY <1>3, <1>7, <1>8, <1>9 DEF left

\* A worker that sends has a row, and the job it goes on with is of the same batch.
LEMMA Sending ==
  ASSUME Inv, NEW w \in Workers, worker[w].pc # "idle", NEW job \in Job,
         job.batch = worker[w].batch, job.pc # "idle", worker' = [worker EXCEPT ![w] = job],
         Ids \subseteq Ids'
  PROVE  /\ worker' \in [Workers -> Job] /\ \A v \in Workers : Handles(v)' \subseteq Ids'
         /\ worker'[w] = job /\ \A v \in Workers \ {w} : worker'[v] = worker[v]
         /\ BatchOK(w)' /\ Handles(w)' = Handles(w) /\ Current(w)' = Current(w)
<1>1. TypeOK /\ BatchOK(w) /\ Handles(w) \subseteq Ids
  BY DEF Inv, TypeOK
<1>2. \A k \in DOMAIN job.batch : job.batch[k] \in Ids
  BY <1>1 DEF Handles
<1>3. /\ worker' \in [Workers -> Job] /\ \A v \in Workers : Handles(v)' \subseteq Ids'
      /\ worker'[w] = job /\ \A v \in Workers \ {w} : worker'[v] = worker[v]
  BY <1>1, <1>2, JobMoves
<1>4. BatchOK(w)' /\ Handles(w)' = Handles(w) /\ Current(w)' = Current(w)
  BY <1>1, <1>3 DEF BatchOK, Handles, Current
<1> QED
  BY <1>3, <1>4

LEMMA Handled ==
  ASSUME Inv, NEW w \in Workers, worker[w].pc # "idle"
  PROVE  /\ TypeOK /\ BatchOK(w) /\ worker[w] \in Job
         /\ Current(w) \in Ids /\ Current(w) \in Handles(w)
         /\ outbox[Current(w)] \in Row /\ outbox[Current(w)].type \in EventTypes
         /\ outbox[Current(w)].settled \subseteq Addressees(outbox[Current(w)].type)
<1>1. TypeOK /\ BatchOK(w) /\ worker[w] \in Job
  BY DEF Inv, TypeOK
<1>2. Current(w) \in Ids /\ Current(w) \in Handles(w)
  BY <1>1, HeadTail DEF BatchOK
<1> QED
  BY <1>1, <1>2, RowAt DEF TypeOK

LEMMA DispatchStep ==
  ASSUME Inv, NEW w \in Workers, Dispatch(w)
  PROVE  Inv'
<1> DEFINE id == Current(w)
           user == Head(worker[w].left)
           quiet == moods[user] = "quiet"
           job == [worker[w] EXCEPT !.left = Tail(@),
                     !.postponed = IF quiet THEN @ \union {user} ELSE @]
           row == [outbox[id] EXCEPT !.settled = IF quiet THEN @ ELSE @ \union {user}]
<1>1. /\ worker[w].pc = "send" /\ worker[w].left # <<>> /\ UNCHANGED <<moods, troubles>>
  BY DEF Dispatch
<1>2. /\ TypeOK /\ BatchOK(w) /\ worker[w] \in Job /\ id \in Ids
      /\ outbox[id] \in Row /\ outbox[id].type \in EventTypes
      /\ outbox[id].settled \subseteq Addressees(outbox[id].type)
  BY <1>1, Handled
<1>3. Serves(w)
  BY DEF Inv
<1>4. /\ Tail(worker[w].left) \in Seq(Users) /\ user \in Waiting(w) /\ user \in Users
      /\ Waiting(w) \subseteq {user} \union {Tail(worker[w].left)[k] : k \in DOMAIN Tail(worker[w].left)}
      /\ {Tail(worker[w].left)[k] : k \in DOMAIN Tail(worker[w].left)} \subseteq Waiting(w)
  BY <1>1, <1>2, LeftSplits
<1>5. user \in Addressees(outbox[id].type)
  BY <1>1, <1>3, <1>4 DEF Serves
<1>6. /\ job \in Job /\ job.pc = "send" /\ job.batch = worker[w].batch
      /\ job.left = Tail(worker[w].left)
      /\ job.postponed = IF quiet THEN worker[w].postponed \union {user} ELSE worker[w].postponed
  BY <1>1, <1>2, <1>4 DEF Job
<1>7. /\ row \in Row /\ row.type = outbox[id].type /\ row.owner = outbox[id].owner
      /\ row.status = outbox[id].status /\ row.expired = outbox[id].expired
      /\ row.attempts = outbox[id].attempts
      /\ row.settled = IF quiet THEN outbox[id].settled ELSE outbox[id].settled \union {user}
  BY <1>2, <1>4 DEF Row
<1>8. worker' = [worker EXCEPT ![w] = job] /\ outbox' = [outbox EXCEPT ![id] = row]
  BY <1>2 DEF Dispatch, TypeOK
<1>9. Waiting(w) \subseteq {user} \union {job.left[k] : k \in DOMAIN job.left}
        /\ {job.left[k] : k \in DOMAIN job.left} \subseteq Waiting(w)
  BY <1>4, <1>6
<1> HIDE DEF job, row, quiet, user
<1>10. /\ outbox' \in Seq(Row) /\ Ids' = Ids /\ Grows
       /\ \A i \in Ids' : outbox'[i].settled \subseteq Addressees(outbox'[i].type)
       /\ outbox'[id] = row /\ \A i \in Ids \ {id} : outbox'[i] = outbox[i]
  BY <1>2, <1>5, <1>7, <1>8, RowChanges
<1>11. /\ worker' \in [Workers -> Job] /\ \A v \in Workers : Handles(v)' \subseteq Ids'
       /\ worker'[w] = job /\ \A v \in Workers \ {w} : worker'[v] = worker[v]
       /\ BatchOK(w)' /\ Handles(w)' = Handles(w) /\ Current(w)' = id
  BY <1>1, <1>6, <1>8, <1>10, Sending
<1>12. TypeOK'
  BY <1>1, <1>2, <1>10, <1>11 DEF TypeOK
<1>13. RowsOK' /\ Spares({w})
  BY <1>7, <1>10 DEF Inv, RowsOK, Spares
<1>14. NobodyForgotten'
  <2>1. \A i \in Ids : outbox[i].status = "DELIVERED" => outbox[i].settled = Addressees(outbox[i].type)
    BY DEF Inv, NobodyForgotten
  <2>2. outbox[id].status = "DELIVERED" => row.settled = Addressees(row.type)
    BY <1>2, <1>5, <1>7, <2>1
  <2> QED
    BY <1>7, <1>10, <2>1, <2>2 DEF NobodyForgotten
<1>15. Serves(w)'
  <2>1. Waiting(w)' = {job.left[k] : k \in DOMAIN job.left}
    BY <1>11 DEF Waiting
  <2>2. /\ worker'[w].postponed = job.postponed /\ outbox'[Current(w)'].type = outbox[id].type
        /\ outbox'[Current(w)'].settled = row.settled
    BY <1>7, <1>10, <1>11
  <2>3. row.settled \union job.postponed = outbox[id].settled \union worker[w].postponed \union {user}
    BY <1>6, <1>7
  <2>4. /\ Addressees(outbox[id].type) \subseteq outbox[id].settled \union worker[w].postponed \union Waiting(w)
        /\ worker[w].postponed \union Waiting(w) \subseteq Addressees(outbox[id].type)
    BY <1>1, <1>3 DEF Serves
  <2>5. Addressees(outbox[id].type) \subseteq row.settled \union job.postponed \union Waiting(w)'
    BY <1>9, <2>1, <2>3, <2>4
  <2>6. job.postponed \union Waiting(w)' \subseteq Addressees(outbox[id].type)
    BY <1>5, <1>6, <1>9, <2>1, <2>4
  <2> QED
    BY <2>2, <2>5, <2>6 DEF Serves
<1>16. troubles.stalls = 0 => Owns(w)'
  BY <1>7, <1>10, <1>11 DEF Inv, Owns, TypeOK
<1> QED
  BY <1>1, <1>10, <1>11, <1>12, <1>13, <1>14, <1>15, <1>16, StepKeepsInv

LEMMA FailsStep ==
  ASSUME Inv, NEW w \in Workers, Fails(w)
  PROVE  Inv'
<1> DEFINE id == Current(w)
           job == [worker[w] EXCEPT !.pc = "failed"]
           row == [outbox[id] EXCEPT !.failures = @ + 1]
<1>1. /\ worker[w].pc = "send" /\ moods' = moods
      /\ troubles' = [troubles EXCEPT !.errors = @ + 1]
  BY DEF Fails
<1>2. /\ TypeOK /\ BatchOK(w) /\ worker[w] \in Job /\ id \in Ids
      /\ outbox[id] \in Row /\ outbox[id].settled \subseteq Addressees(outbox[id].type)
  BY <1>1, Handled
<1>3. job \in Job /\ job.pc = "failed" /\ job.batch = worker[w].batch
  BY <1>2 DEF Job
<1>4. /\ row \in Row /\ row.type = outbox[id].type /\ row.owner = outbox[id].owner
      /\ row.status = outbox[id].status /\ row.expired = outbox[id].expired
      /\ row.attempts = outbox[id].attempts /\ row.settled = outbox[id].settled
  BY <1>2 DEF Row
<1>5. worker' = [worker EXCEPT ![w] = job] /\ outbox' = [outbox EXCEPT ![id] = row]
  BY <1>2 DEF Fails, TypeOK
<1>6. troubles' \in [{"stalls", "deaths", "errors"} -> Nat] /\ troubles'.stalls = troubles.stalls
  BY <1>1, <1>2 DEF TypeOK
<1> HIDE DEF job, row
<1>7. /\ outbox' \in Seq(Row) /\ Ids' = Ids /\ Grows
      /\ \A i \in Ids' : outbox'[i].settled \subseteq Addressees(outbox'[i].type)
      /\ outbox'[id] = row /\ \A i \in Ids \ {id} : outbox'[i] = outbox[i]
  BY <1>2, <1>4, <1>5, RowChanges
<1>8. /\ worker' \in [Workers -> Job] /\ \A v \in Workers : Handles(v)' \subseteq Ids'
      /\ worker'[w] = job /\ \A v \in Workers \ {w} : worker'[v] = worker[v]
      /\ BatchOK(w)' /\ Handles(w)' = Handles(w)
  BY <1>1, <1>3, <1>5, <1>7, Sending
<1>9. TypeOK'
  BY <1>1, <1>2, <1>6, <1>7, <1>8 DEF TypeOK
<1>10. RowsOK' /\ Spares({w}) /\ NobodyForgotten'
  BY <1>4, <1>7 DEF Inv, RowsOK, Spares, NobodyForgotten
<1>11. Serves(w)'
  BY <1>3, <1>8 DEF Serves
<1>12. troubles.stalls = 0 => Owns(w)'
  BY <1>4, <1>7, <1>8 DEF Inv, Owns, TypeOK
<1> QED
  BY <1>6, <1>7, <1>8, <1>9, <1>10, <1>11, <1>12, StepKeepsInv

LEMMA DeferStep ==
  ASSUME Inv, NEW w \in Workers, Defer(w)
  PROVE  Inv'
<1> DEFINE id == Current(w)
           job == [worker[w] EXCEPT !.postponed = {}]
           row == [outbox[id] EXCEPT !.settled = @ \union worker[w].postponed]
           rows == [outbox EXCEPT ![id] = row]
           copy == NewEvent(outbox[id].type, TRUE)
<1>1. /\ worker[w].pc = "send" /\ worker[w].left = <<>> /\ UNCHANGED <<moods, troubles>>
  BY DEF Defer
<1>2. /\ TypeOK /\ BatchOK(w) /\ worker[w] \in Job /\ id \in Ids
      /\ outbox[id] \in Row /\ outbox[id].type \in EventTypes
      /\ outbox[id].settled \subseteq Addressees(outbox[id].type)
  BY <1>1, Handled
<1>3. /\ Addressees(outbox[id].type) \subseteq outbox[id].settled \union worker[w].postponed
      /\ worker[w].postponed \subseteq Addressees(outbox[id].type)
  BY <1>1 DEF Inv, Serves, Waiting
<1>4. /\ job \in Job /\ job.pc = "send" /\ job.batch = worker[w].batch
      /\ job.left = <<>> /\ job.postponed = {}
  BY <1>1, <1>2 DEF Job
<1>5. /\ row \in Row /\ row.type = outbox[id].type /\ row.owner = outbox[id].owner
      /\ row.status = outbox[id].status /\ row.expired = outbox[id].expired
      /\ row.attempts = outbox[id].attempts
      /\ row.settled = outbox[id].settled \union worker[w].postponed
  BY <1>2 DEF Row, Job
<1>6. copy \in Row /\ copy.settled = {} /\ copy.owner = Nobody /\ copy.attempts = 0
        /\ copy.status = "PENDING"
  BY <1>2, NewRow DEF NewEvent
<1>7. worker' = [worker EXCEPT ![w] = job] /\ outbox' = Append(rows, copy)
  BY <1>2 DEF Defer, TypeOK
<1> HIDE DEF job, row, copy
<1>8. /\ rows \in Seq(Row) /\ DOMAIN rows = Ids
      /\ rows[id] = row /\ \A i \in Ids \ {id} : rows[i] = outbox[i]
  BY <1>2, <1>5 DEF TypeOK, Ids
<1> HIDE DEF rows
<1>9. \A i \in Ids : rows[i].settled \subseteq Addressees(rows[i].type)
  BY <1>2, <1>3, <1>5, <1>8 DEF TypeOK
<1>10. /\ outbox' \in Seq(Row) /\ Ids \subseteq Ids'
       /\ \A i \in Ids : outbox'[i] = rows[i]
       /\ \A i \in Ids' \ Ids : outbox'[i] = copy
       /\ \A i \in Ids' : outbox'[i].settled \subseteq Addressees(outbox'[i].type)
  BY <1>6, <1>7, <1>8, <1>9, RowIsAdded
<1>11. /\ worker' \in [Workers -> Job] /\ \A v \in Workers : Handles(v)' \subseteq Ids'
       /\ worker'[w] = job /\ \A v \in Workers \ {w} : worker'[v] = worker[v]
       /\ BatchOK(w)' /\ Handles(w)' = Handles(w) /\ Current(w)' = id
  BY <1>1, <1>4, <1>7, <1>10, Sending
<1>12. TypeOK'
  BY <1>1, <1>2, <1>10, <1>11 DEF TypeOK
<1>13. Grows /\ Spares({w})
  BY <1>5, <1>8, <1>10 DEF Grows, Spares
<1>14. RowsOK'
  <2>1. ASSUME NEW i \in Ids'
        PROVE  \/ outbox'[i] = copy
               \/ i \in Ids /\ /\ outbox'[i].owner = outbox[i].owner
                               /\ outbox'[i].status = outbox[i].status
                               /\ outbox'[i].attempts = outbox[i].attempts
    BY <1>5, <1>8, <1>10
  <2>2. RowsOK
    BY DEF Inv
  <2> QED
    BY <1>6, <2>1, <2>2, OutboxAssumption DEF RowsOK
<1>15. NobodyForgotten'
  <2>1. \A i \in Ids : outbox[i].status = "DELIVERED" => outbox[i].settled = Addressees(outbox[i].type)
    BY DEF Inv, NobodyForgotten
  <2>2. outbox[id].status = "DELIVERED" => row.settled = Addressees(row.type)
    BY <1>2, <1>3, <1>5, <2>1
  <2>3. ASSUME NEW i \in Ids', outbox'[i].status = "DELIVERED"
        PROVE  outbox'[i].settled = Addressees(outbox'[i].type)
    <3>1. i \in Ids /\ outbox'[i] = rows[i]
      BY <1>6, <1>10, <2>3
    <3>2. CASE i = id
      BY <1>5, <1>8, <2>2, <2>3, <3>1, <3>2
    <3>3. CASE i # id
      BY <1>8, <2>1, <2>3, <3>1, <3>3
    <3> QED
      BY <3>2, <3>3
  <2> QED
    BY <2>3 DEF NobodyForgotten
<1>16. Serves(w)'
  <2>1. Waiting(w)' = {} /\ worker'[w].postponed = {}
    BY <1>4, <1>11 DEF Waiting
  <2>2. outbox'[Current(w)'] = row
    BY <1>2, <1>8, <1>10, <1>11
  <2> QED
    BY <1>3, <1>5, <2>1, <2>2 DEF Serves
<1>17. troubles.stalls = 0 => Owns(w)'
  BY <1>5, <1>8, <1>10, <1>11 DEF Inv, Owns, TypeOK
<1> QED
  BY <1>1, <1>11, <1>12, <1>13, <1>14, <1>15, <1>16, <1>17, StepKeepsInv

\* A worker closes the row it works on, and goes on to the next.
LEMMA RowIsClosed ==
  ASSUME Inv, NEW w \in Workers, worker[w].pc # "idle", NEW row \in Row,
         row.type = outbox[Current(w)].type, row.settled = outbox[Current(w)].settled,
         row.owner = Nobody,
         row.status \in {"PENDING", "IN_FLIGHT"} => row.attempts < MaxAttempts,
         row.status = "DELIVERED" => row.settled = Addressees(row.type),
         outbox' = [outbox EXCEPT ![Current(w)] = row],
         worker' = FinishRow(w), UNCHANGED <<moods, troubles>>
  PROVE  Inv'
<1> DEFINE id == Current(w)
<1>1. TypeOK /\ id \in Ids /\ id \in Handles(w) /\ outbox[id].settled \subseteq Addressees(outbox[id].type)
  BY Handled
<1>2. /\ outbox' \in Seq(Row) /\ Ids' = Ids /\ Grows
      /\ \A i \in Ids' : outbox'[i].settled \subseteq Addressees(outbox'[i].type)
      /\ outbox'[id] = row /\ \A i \in Ids \ {id} : outbox'[i] = outbox[i]
  BY <1>1, RowChanges
<1>3. /\ worker' \in [Workers -> Job] /\ \A v \in Workers : Handles(v)' \subseteq Ids'
      /\ \A v \in Workers \ {w} : worker'[v] = worker[v]
      /\ BatchOK(w)' /\ Serves(w)'
      /\ Handles(w)' \subseteq Handles(w) \ {id}
  BY <1>2, RowIsDone
<1>4. TypeOK'
  BY <1>1, <1>2, <1>3 DEF TypeOK
<1>5. RowsOK' /\ NobodyForgotten'
  BY <1>2, OutboxAssumption DEF Inv, RowsOK, NobodyForgotten
<1>6. ASSUME troubles.stalls = 0 PROVE Spares({w}) /\ Owns(w)'
  <2>1. Owns(w) /\ Handles(w) \subseteq Ids
    BY <1>6 DEF Inv, TypeOK
  <2>2. outbox[id].owner = w
    BY <1>1, <2>1 DEF Owns
  <2>3. Spares({w})
    BY <1>2, <2>2 DEF Spares
  <2>4. Owns(w)'
    BY <1>2, <1>3, <2>1 DEF Owns
  <2> QED
    BY <2>3, <2>4
<1>7. troubles'.stalls = 0 => troubles.stalls = 0 /\ Spares({w}) /\ \A v \in {w} : Owns(v)'
  BY <1>6
<1>8. {w} \in SUBSET Workers /\ \A v \in {w} : BatchOK(v)' /\ Serves(v)'
  BY <1>3
<1>9. Grows /\ \A v \in Workers \ {w} : worker'[v] = worker[v]
  BY <1>2, <1>3
<1> QED
  BY <1>4, <1>5, <1>7, <1>8, <1>9, StepKeepsInv

\* A worker gives up a row that is no longer its own.
LEMMA RowIsLeft ==
  ASSUME Inv, NEW w \in Workers, worker[w].pc # "idle",
         worker' = FinishRow(w), UNCHANGED <<outbox, moods, troubles>>
  PROVE  Inv'
<1>1. Ids' = Ids /\ Grows /\ Spares({w}) /\ RowsOK' /\ NobodyForgotten'
  BY DEF Inv, Ids, Grows, Spares, RowsOK, NobodyForgotten
<1>2. /\ worker' \in [Workers -> Job] /\ \A v \in Workers : Handles(v)' \subseteq Ids'
      /\ \A v \in Workers \ {w} : worker'[v] = worker[v]
      /\ BatchOK(w)' /\ Serves(w)' /\ Handles(w)' \subseteq Handles(w)
  BY <1>1, RowIsDone
<1>3. TypeOK'
  BY <1>1, <1>2 DEF Inv, TypeOK
<1>4. troubles.stalls = 0 => Owns(w)'
  BY <1>2 DEF Inv, Owns
<1> QED
  BY <1>1, <1>2, <1>3, <1>4, StepKeepsInv

LEMMA MarkDeliveredStep ==
  ASSUME Inv, NEW w \in Workers, MarkDelivered(w)
  PROVE  Inv'
<1> DEFINE id == Current(w)
           row == [outbox[id] EXCEPT !.status = "DELIVERED", !.owner = Nobody]
<1>1. /\ worker[w].pc = "send" /\ worker[w].left = <<>> /\ worker[w].postponed = {}
      /\ worker' = FinishRow(w) /\ UNCHANGED <<moods, troubles>>
  BY DEF MarkDelivered
<1>2. /\ TypeOK /\ id \in Ids /\ outbox[id] \in Row
      /\ outbox[id].settled \subseteq Addressees(outbox[id].type)
  BY <1>1, Handled
<1>3. outbox[id].settled = Addressees(outbox[id].type)
  <2>1. Serves(w) /\ Waiting(w) = {}
    BY <1>1 DEF Inv, Waiting
  <2>2. Addressees(outbox[id].type) \subseteq outbox[id].settled
    BY <1>1, <2>1 DEF Serves
  <2> QED
    BY <1>2, <2>2
<1>4. CASE OwnedBy(w, id)
  <2>1. /\ row \in Row /\ row.type = outbox[id].type /\ row.settled = outbox[id].settled
        /\ row.owner = Nobody /\ row.status = "DELIVERED"
    BY <1>2 DEF Row, OutboxStatuses
  <2>2. outbox' = [outbox EXCEPT ![id] = row]
    BY <1>2, <1>4 DEF MarkDelivered, TypeOK
  <2> HIDE DEF row
  <2> QED
    BY <1>1, <1>3, <2>1, <2>2, RowIsClosed
<1>5. CASE ~OwnedBy(w, id)
  <2>1. outbox' = outbox
    BY <1>5 DEF MarkDelivered
  <2> QED
    BY <1>1, <2>1, RowIsLeft
<1> QED
  BY <1>4, <1>5

LEMMA FindFailedStep ==
  ASSUME Inv, NEW w \in Workers, FindFailed(w)
  PROVE  Inv'
<1> DEFINE id == Current(w)
           job == [worker[w] EXCEPT !.pc = "park", !.attempts = outbox[id].attempts + 1]
<1>1. worker[w].pc = "failed" /\ UNCHANGED <<outbox, moods, troubles>>
  BY DEF FindFailed
<1>2. TypeOK /\ worker[w] \in Job /\ id \in Ids /\ outbox[id] \in Row
  BY <1>1, Handled
<1>3. CASE OwnedBy(w, id)
  <2>1. outbox[id].attempts < MaxAttempts
    BY <1>2, <1>3 DEF OwnedBy, Inv, RowsOK
  <2>2. outbox[id].attempts + 1 \in 0..MaxAttempts
    BY <1>2, <2>1, OutboxAssumption DEF Row
  <2>3. job \in Job /\ job.pc = "park" /\ job.batch = worker[w].batch
    BY <1>2, <2>2 DEF Job
  <2>4. worker' = [worker EXCEPT ![w] = job]
    BY <1>2, <1>3 DEF FindFailed, TypeOK
  <2> HIDE DEF job
  <2>5. Ids' = Ids /\ Grows /\ Spares({}) /\ Spares({w}) /\ RowsOK' /\ NobodyForgotten'
    BY <1>1 DEF Inv, Ids, Grows, Spares, RowsOK, NobodyForgotten
  <2>6. /\ worker' \in [Workers -> Job] /\ \A v \in Workers : Handles(v)' \subseteq Ids'
        /\ worker'[w] = job /\ \A v \in Workers \ {w} : worker'[v] = worker[v]
        /\ BatchOK(w)' /\ Handles(w)' = Handles(w)
    BY <1>1, <2>3, <2>4, <2>5, Sending
  <2>7. TypeOK'
    <3>1. outbox' \in Seq(Row) /\ \A i \in Ids' : outbox'[i].settled \subseteq Addressees(outbox'[i].type)
      BY <1>1, <1>2, <2>5 DEF TypeOK
    <3>2. moods' \in [Users -> Moods] /\ troubles' \in [{"stalls", "deaths", "errors"} -> Nat]
      BY <1>1, <1>2 DEF TypeOK
    <3> QED
      BY <2>6, <3>1, <3>2 DEF TypeOK
  <2>8. Serves(w)'
    BY <2>3, <2>6 DEF Serves
  <2>9. troubles.stalls = 0 => Owns(w)'
    BY <1>1, <2>6 DEF Inv, Owns
  <2> QED
    BY <1>1, <2>5, <2>6, <2>7, <2>8, <2>9, StepKeepsInv
<1>4. CASE ~OwnedBy(w, id)
  <2>1. worker' = FinishRow(w)
    BY <1>4 DEF FindFailed
  <2> QED
    BY <1>1, <2>1, RowIsLeft
<1> QED
  BY <1>3, <1>4

LEMMA MarkFailedStep ==
  ASSUME Inv, NEW w \in Workers, MarkFailed(w)
  PROVE  Inv'
<1> DEFINE id == Current(w)
           attempts == worker[w].attempts
           after == IF Exhausted(attempts) THEN "DEAD" ELSE "PENDING"
           due == outbox[id].due /\ Exhausted(attempts)
           row == [outbox[id] EXCEPT !.attempts = attempts, !.owner = Nobody,
                     !.status = after, !.due = due]
<1>1. worker[w].pc = "park" /\ worker' = FinishRow(w) /\ UNCHANGED <<moods, troubles>>
  BY DEF MarkFailed
<1>2. TypeOK /\ worker[w] \in Job /\ id \in Ids /\ outbox[id] \in Row
  BY <1>1, Handled
<1>3. attempts \in 0..MaxAttempts
  BY <1>2 DEF Job
<1>4. /\ row \in Row /\ row.type = outbox[id].type /\ row.settled = outbox[id].settled
      /\ row.owner = Nobody /\ row.attempts = attempts
      /\ row.status = after
  <2>1. after \in OutboxStatuses /\ due \in BOOLEAN
    BY <1>2 DEF Row, OutboxStatuses
  <2> HIDE DEF after, due
  <2> QED
    BY <1>2, <1>3, <2>1 DEF Row
<1>5. outbox' = [outbox EXCEPT ![id] = row]
  BY DEF MarkFailed
<1>6. row.status \in {"PENDING", "IN_FLIGHT"} => row.attempts < MaxAttempts
  BY <1>3, <1>4, OutboxAssumption DEF Exhausted
<1> HIDE DEF row
<1> QED
  BY <1>1, <1>4, <1>5, <1>6, RowIsClosed

\* Time does something to a row: the lease of a living worker runs out only with a stall.
LEMMA RowAges ==
  ASSUME Inv, NEW id \in Ids, NEW row \in Row,
         row.type = outbox[id].type, row.settled = outbox[id].settled,
         row.owner = outbox[id].owner, row.status = outbox[id].status,
         row.attempts = outbox[id].attempts,
         troubles'.stalls = 0 =>
           troubles.stalls = 0 /\ (row.expired = outbox[id].expired \/ row.owner \notin Workers),
         troubles' \in [{"stalls", "deaths", "errors"} -> Nat],
         outbox' = [outbox EXCEPT ![id] = row], UNCHANGED <<worker, moods>>
  PROVE  Inv'
<1>1. TypeOK /\ outbox[id].settled \subseteq Addressees(outbox[id].type)
  BY DEF Inv, TypeOK
<1>2. /\ outbox' \in Seq(Row) /\ Ids' = Ids /\ Grows
      /\ \A i \in Ids' : outbox'[i].settled \subseteq Addressees(outbox'[i].type)
      /\ outbox'[id] = row /\ \A i \in Ids \ {id} : outbox'[i] = outbox[i]
  BY <1>1, RowChanges
<1>3. TypeOK'
  BY <1>1, <1>2 DEF TypeOK, Handles
<1>4. RowsOK' /\ NobodyForgotten'
  BY <1>2 DEF Inv, RowsOK, NobodyForgotten
<1>5. troubles'.stalls = 0 => troubles.stalls = 0 /\ Spares({})
  BY <1>2 DEF Spares
<1>6. {} \in SUBSET Workers /\ \A v \in Workers : worker'[v] = worker[v]
  OBVIOUS
<1>7. Grows
  BY <1>2
<1> QED
  BY <1>3, <1>4, <1>5, <1>6, <1>7, StepKeepsInv

LEMMA LeaseExpiresStep ==
  ASSUME Inv, NEW id \in Ids, LeaseExpires(id)
  PROVE  Inv'
<1> DEFINE row == [outbox[id] EXCEPT !.expired = TRUE]
<1>1. TypeOK /\ outbox[id] \in Row
  BY RowAt DEF Inv
<1>2. /\ row \in Row /\ row.type = outbox[id].type /\ row.settled = outbox[id].settled
      /\ row.owner = outbox[id].owner /\ row.status = outbox[id].status
      /\ row.attempts = outbox[id].attempts
  BY <1>1 DEF Row
<1>3. outbox' = [outbox EXCEPT ![id] = row] /\ UNCHANGED <<worker, moods>>
  BY <1>1 DEF LeaseExpires, TypeOK
<1> HIDE DEF row
<1>4. CASE outbox[id].owner \in Workers
  <2>1. troubles' = [troubles EXCEPT !.stalls = @ + 1]
    BY <1>4 DEF LeaseExpires
  <2>2. troubles' \in [{"stalls", "deaths", "errors"} -> Nat] /\ troubles'.stalls # 0
    BY <1>1, <2>1 DEF TypeOK
  <2> QED
    BY <1>2, <1>3, <2>2, RowAges
<1>5. CASE outbox[id].owner \notin Workers
  <2>1. troubles' = troubles /\ troubles' \in [{"stalls", "deaths", "errors"} -> Nat]
    BY <1>1, <1>5 DEF LeaseExpires, TypeOK
  <2> QED
    BY <1>2, <1>3, <1>5, <2>1, RowAges
<1> QED
  BY <1>4, <1>5

LEMMA BecomesDueStep ==
  ASSUME Inv, NEW id \in Ids, BecomesDue(id)
  PROVE  Inv'
<1> DEFINE row == [outbox[id] EXCEPT !.due = TRUE]
<1>1. TypeOK /\ outbox[id] \in Row
  BY RowAt DEF Inv
<1>2. /\ row \in Row /\ row.type = outbox[id].type /\ row.settled = outbox[id].settled
      /\ row.owner = outbox[id].owner /\ row.status = outbox[id].status
      /\ row.attempts = outbox[id].attempts /\ row.expired = outbox[id].expired
  BY <1>1 DEF Row
<1>3. outbox' = [outbox EXCEPT ![id] = row] /\ UNCHANGED <<worker, moods>>
  BY <1>1 DEF BecomesDue, TypeOK
<1>4. troubles' = troubles /\ troubles' \in [{"stalls", "deaths", "errors"} -> Nat]
  BY <1>1 DEF BecomesDue, TypeOK
<1> HIDE DEF row
<1> QED
  BY <1>2, <1>3, <1>4, RowAges

\* The rows of the dead worker have no owner left.
LEMMA DieStep ==
  ASSUME Inv, NEW w \in Workers, Die(w)
  PROVE  Inv'
<1> DEFINE Orphaned(id) == [outbox[id] EXCEPT !.owner = Nobody]
           rows == [id \in Ids |-> IF outbox[id].owner = w THEN Orphaned(id) ELSE outbox[id]]
<1>1. /\ TypeOK /\ outbox' = rows /\ worker' = [worker EXCEPT ![w] = Resting] /\ moods' = moods
      /\ troubles' = [troubles EXCEPT !.deaths = @ + 1]
  BY DEF Inv, Die
<1>2. ASSUME NEW id \in Ids
      PROVE  /\ Orphaned(id) \in Row /\ Orphaned(id).owner = Nobody
             /\ Orphaned(id).type = outbox[id].type /\ Orphaned(id).settled = outbox[id].settled
             /\ Orphaned(id).attempts = outbox[id].attempts
             /\ Orphaned(id).status = outbox[id].status
  <2>1. outbox[id] \in Row
    BY <1>1, RowAt
  <2> QED
    BY <2>1 DEF Row
<1>3. ASSUME NEW id \in Ids PROVE outbox[id] \in Row
  BY <1>1, RowAt
<1> HIDE DEF Orphaned
<1>4. rows \in [Ids -> Row] /\ \A i \in Ids : rows[i].type = outbox[i].type /\ rows[i].settled = outbox[i].settled
  BY <1>2, <1>3
<1>5. /\ outbox' \in Seq(Row) /\ Ids' = Ids /\ Grows
      /\ \A i \in Ids' : outbox'[i].settled \subseteq Addressees(outbox'[i].type)
  BY <1>1, <1>4, RowsMap
<1>6. \A k \in DOMAIN Resting.batch : Resting.batch[k] \in Ids
  BY DEF Resting
<1>7. /\ worker' \in [Workers -> Job] /\ \A v \in Workers : Handles(v)' \subseteq Ids'
      /\ worker'[w] = Resting /\ \A v \in Workers \ {w} : worker'[v] = worker[v]
  BY <1>1, <1>5, <1>6, JobMoves, RestingJob
<1>8. troubles' \in [{"stalls", "deaths", "errors"} -> Nat] /\ troubles'.stalls = troubles.stalls
  BY <1>1 DEF TypeOK
<1>9. TypeOK'
  BY <1>1, <1>5, <1>7, <1>8 DEF TypeOK
<1>10. \A i \in Ids : outbox'[i] = IF outbox[i].owner = w THEN Orphaned(i) ELSE outbox[i]
  BY <1>1
<1>11. RowsOK' /\ NobodyForgotten'
  BY <1>2, <1>5, <1>10, OutboxAssumption DEF Inv, RowsOK, NobodyForgotten
<1>12. Spares({w})
  BY <1>10 DEF Spares
<1>13. Handles(w)' = {}
  BY <1>7 DEF Handles, Resting
<1>14. BatchOK(w)' /\ Serves(w)' /\ Owns(w)'
  BY <1>7, <1>13 DEF BatchOK, Serves, Owns, Resting
<1> QED
  BY <1>5, <1>7, <1>8, <1>9, <1>11, <1>12, <1>14, StepKeepsInv

\* Nothing changes but the moods of the users.
LEMMA NothingHappens ==
  ASSUME Inv, UNCHANGED <<outbox, worker, troubles>>, moods' \in [Users -> Moods]
  PROVE  Inv'
<1>1. TypeOK'
  BY DEF Inv, TypeOK, Handles, Ids
<1>2. RowsOK' /\ NobodyForgotten' /\ Grows /\ Spares({})
  BY DEF Inv, RowsOK, NobodyForgotten, Grows, Spares, Ids
<1>3. {} \in SUBSET Workers /\ \A v \in Workers : worker'[v] = worker[v]
  OBVIOUS
<1>4. troubles'.stalls = 0 => troubles.stalls = 0 /\ Spares({})
  BY <1>2
<1> QED
  BY <1>1, <1>2, <1>3, <1>4, StepKeepsInv

LEMMA WakesUpStep ==
  ASSUME Inv, NEW user \in Users, WakesUp(user)
  PROVE  Inv'
<1>1. UNCHANGED <<outbox, worker, troubles>> /\ moods' \in [Users -> Moods]
  BY OutboxAssumption DEF Inv, TypeOK, WakesUp
<1> QED
  BY <1>1, NothingHappens

LEMMA InvKept == Inv /\ [Next]_vars => Inv'
<1> SUFFICES ASSUME Inv, [Next]_vars PROVE Inv'
  OBVIOUS
<1>1. CASE UNCHANGED vars
  BY <1>1, NothingHappens DEF vars, Inv, TypeOK
<1>2. CASE Next
  BY <1>2, EnqueueStep, ClaimStep, DispatchStep, FailsStep, DeferStep, MarkDeliveredStep,
     FindFailedStep, MarkFailedStep, LeaseExpiresStep, BecomesDueStep, DieStep, WakesUpStep
     DEF Next, Works
<1> QED
  BY <1>1, <1>2

THEOREM Invariance == Spec => []Inv
  BY InvStart, InvKept, PTL DEF Spec

-----------------------------------------------------------------------------
(* The theorems                                                            *)

\* The rows and workers keep their types: no row is tried more often than is allowed.
THEOREM Typed == Spec => []TypeOK
<1>1. Inv => TypeOK
  BY DEF Inv
<1> QED
  BY <1>1, Invariance, PTL

\* Delivered means that everybody was tried or has a copy, through any crashes, stalls and errors.
THEOREM NobodyIsForgotten == Spec => []NobodyForgotten
<1>1. Inv => NobodyForgotten
  BY DEF Inv
<1> QED
  BY <1>1, Invariance, PTL

\* Leases keep the workers apart, for any number of them and through any crashes, as long as
\* none outlives its lease.
THEOREM WorkersKeepApart == Spec => []WorkersApart
<1>1. Inv => WorkersApart
  <2> SUFFICES ASSUME Inv, troubles.stalls = 0, NEW v \in Workers, NEW w \in Workers, v # w
               PROVE  Handles(v) \intersect Handles(w) = {}
    BY DEF WorkersApart
  <2>1. Owns(v) /\ Owns(w)
    BY DEF Inv
  <2> QED
    BY <2>1 DEF Owns
<1> QED
  BY <1>1, Invariance, PTL
====
