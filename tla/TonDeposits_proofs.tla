---- MODULE TonDeposits_proofs ----
(***************************************************************************)
(* What holds of TonDeposits for any number of workers, processes, deals,  *)
(* payments, transfers and mishaps: a completed payment stands for a       *)
(* funded clone; the float pays a clone one deposit at most, as long as no *)
(* lock runs out, Redis answers and no receipt is lost; and it pays out    *)
(* only for money that has arrived in TON or that administrators have      *)
(* credited.                                                               *)
(***************************************************************************)
EXTENDS TonDeposits, Sums, FiniteSetTheorems, TLAPS

\* Where only the rails that forward money get to.
Forwarding == {"lock", "setnx", "forward", "transfer", "release"}

\* A worker that is not idle has a payment; one that credits a deposit is an administrator's,
\* and has the deposit; one that is to release the lock or to save has a result.
Known(w, f) ==
  /\ f.pc = "idle" \/ f.job \in Payments
  /\ f.pc \in Forwarding => ~Direct(f.job)
  /\ f.pc \in {"credit", "mark"} => w \in Admins /\ f.deposit \in Transfers
  /\ f.pc \in {"release", "save"} => f.result # "none"

JobsKnown == \A w \in Workers : Known(w, work[w])

\* Where a worker waits for the receipt of a transaction.
Place == [transfer |-> "transfer", notifyFunded |-> "notify"]

\* Who waits for a transaction is where it was broadcast, for its deal, and waits for no other.
WaiterKnown(tx) ==
  /\ tx.kind \in DOMAIN Place
  /\ tx.worker # NoOne => work[tx.worker].pc = Place[tx.kind] /\ JobDeal(tx.worker) = tx.deal

PoolKnown ==
  /\ \A i \in DOMAIN mempool : WaiterKnown(mempool[i])
  /\ \A i, j \in DOMAIN mempool :
       mempool[i].worker = mempool[j].worker => i = j \/ mempool[i].worker = NoOne

Inv == TypeOK /\ JobsKnown /\ PoolKnown

-----------------------------------------------------------------------------
(* Typing                                                                  *)

Results == {"completed", "expired", "received"}

LEMMA RecordsAre ==
  /\ Unpaid \in Payment /\ Rest \in Work
  /\ Rest.pc = "idle" /\ Rest.job = NoOne /\ Rest.copy = Unpaid /\ Rest.result = "none"
<1>1. Unpaid \in Payment
  BY DEF Unpaid, Payment
<1> QED
  BY <1>1 DEF Rest, Work, Pc

\* A worker that starts to look at a payment.
Looking(p) == [Rest EXCEPT !.pc = "look", !.job = p, !.copy = payment[p]]

\* Worker w moves, and nobody else; Goes: with the payment it has.
Moves(w) == work' \in [Workers -> Work] /\ \A v \in Workers : v # w => work'[v] = work[v]

Goes(w, pc, result) ==
  /\ Moves(w)
  /\ work'[w].pc = pc /\ work'[w].result = result
  /\ work'[w].job = work[w].job /\ work'[w].copy = work[w].copy
  /\ work'[w].deposit = work[w].deposit /\ work'[w].amount = work[w].amount

LEMMA GotoGoes ==
  ASSUME TypeOK, NEW w \in Workers, NEW pc \in Pc, Goto(w, pc)
  PROVE  Goes(w, pc, work[w].result)
  BY DEF TypeOK, Goto, Work, Goes, Moves

LEMMA FinishMoves ==
  ASSUME TypeOK, NEW w \in Workers, Finish(w)
  PROVE  Moves(w) /\ work'[w] = Rest
  BY RecordsAre DEF TypeOK, Finish, Moves

LEMMA ResultGoes ==
  ASSUME TypeOK, NEW w \in Workers, NEW pc \in Pc, NEW result \in Results,
         work' = [work EXCEPT ![w].pc = pc, ![w].result = result]
  PROVE  Goes(w, pc, result)
  BY DEF TypeOK, Work, Goes, Moves, Results

LEMMA ReturnMoves ==
  ASSUME TypeOK, NEW w \in Workers, NEW result \in Results \cup {"none"}, Return(w, result)
  PROVE  \/ Moves(w) /\ work'[w] = Rest
         \/ result # "none" /\ Goes(w, "save", result)
  BY FinishMoves, ResultGoes DEF Return, Results, Pc

LEMMA FailMoves ==
  ASSUME TypeOK, NEW w \in Workers, Fail(w)
  PROVE  \/ Moves(w) /\ work'[w] = Rest
         \/ ~Direct(Job(w)) /\ Goes(w, "release", "received")
  BY FinishMoves, ResultGoes DEF Fail, Results, Pc

LEMMA SucceedGoes ==
  ASSUME TypeOK, NEW w \in Workers, Succeed(w)
  PROVE  Goes(w, IF Direct(Job(w)) THEN "save" ELSE "release", "completed")
  BY ResultGoes DEF Succeed, Results, Pc

LEMMA LookingIs ==
  ASSUME TypeOK, NEW p \in Payments
  PROVE  /\ Looking(p) \in Work /\ Looking(p).pc = "look" /\ Looking(p).job = p
         /\ Looking(p).copy = payment[p] /\ Looking(p).result = "none"
<1>1. payment[p] \in Payment
  BY DEF TypeOK
<1> HIDE DEF Payment, Unpaid
<1> QED
  BY <1>1, RecordsAre DEF Looking, Rest, Work, Pc

LEMMA StartMoves ==
  ASSUME TypeOK, NEW w \in Workers, NEW p \in Payments, Start(w, p)
  PROVE  /\ Moves(w)
         /\ \/ work'[w] = Rest
            \/ Open(p) /\ work'[w] = Looking(p)
  BY LookingIs, RecordsAre DEF TypeOK, Start, Looking, Moves

\* Who waits is at a transfer or at a notification.
LEMMA WaitersAre ==
  ASSUME PoolKnown, NEW w \in Workers, Waits(w)
  PROVE  work[w].pc \in {"transfer", "notify"}
<1>1. PICK i \in DOMAIN mempool : mempool[i].worker = w
  BY DEF Waits, ToSet
<1>2. w # NoOne
  BY RelayAssumption
<1> QED
  BY <1>1, <1>2 DEF PoolKnown, WaiterKnown, Place

\* What is known of a worker that is somewhere in the middle of a payment.
LEMMA AtJob ==
  ASSUME Inv, NEW w \in Workers, NEW pc, At(w, pc), pc # "idle"
  PROVE  /\ ~Waits(w) /\ work[w].pc = pc /\ work[w] \in Work
         /\ Job(w) \in Payments /\ JobDeal(w) \in Deals
         /\ work[w].copy \in Payment /\ Proc(w) \in Replicas
<1>1. ~Waits(w) /\ work[w].pc = pc /\ work[w] \in Work /\ Known(w, work[w])
  BY DEF At, Inv, TypeOK, JobsKnown
<1>2. Job(w) \in Payments
  BY <1>1 DEF Known, Job
<1>3. work[w].copy \in Payment
  BY <1>1 DEF Work
<1> QED
  BY <1>1, <1>2, <1>3, RelayAssumption, DepositsAssumption DEF JobDeal, Proc

\* A worker that does not wait moves.
LEMMA MoveKeeps ==
  ASSUME Inv, NEW w \in Workers, Moves(w), Known(w, work'[w]), ~Waits(w),
         UNCHANGED <<mempool, method>>
  PROVE  work' \in [Workers -> Work] /\ JobsKnown' /\ PoolKnown'
<1>1. JobsKnown'
  BY DEF Inv, JobsKnown, Known, Moves, Direct
<1>2. PoolKnown'
  <2>1. ASSUME NEW i \in DOMAIN mempool
        PROVE  WaiterKnown(mempool[i])'
    <3>1. mempool[i] \in Tx /\ mempool[i].worker # w
      BY DEF Inv, TypeOK, ChainOK, Waits, ToSet
    <3>2. mempool[i].worker # NoOne => work'[mempool[i].worker] = work[mempool[i].worker]
      BY <3>1 DEF Tx, Moves
    <3> QED
      BY <2>1, <3>2 DEF Inv, PoolKnown, WaiterKnown, JobDeal, Job
  <2> QED
    BY <2>1 DEF Inv, PoolKnown
<1> QED
  BY <1>1, <1>2 DEF Moves

LEMMA StillKeeps ==
  ASSUME Inv, UNCHANGED <<mempool, method, work>>
  PROVE  work' \in [Workers -> Work] /\ JobsKnown' /\ PoolKnown'
  BY DEF Inv, TypeOK, JobsKnown, Known, Direct, PoolKnown, WaiterKnown, JobDeal, Job

-----------------------------------------------------------------------------
(* The relay's transactions                                                *)

LEMMA PoolIs ==
  ASSUME TypeOK
  PROVE  /\ mempool \in Seq(Tx)
         /\ \A i \in DOMAIN mempool : /\ mempool[i] \in Tx /\ mempool[i].deal \in Deals
                                      /\ mempool[i].worker \in Workers \cup {NoOne}
                                      /\ mempool[i].amount \in Nat
<1>1. mempool \in Seq(Tx)
  BY DEF TypeOK, ChainOK
<1>2. \A i \in DOMAIN mempool : mempool[i] \in Tx
  BY <1>1
<1> QED
  BY <1>1, <1>2 DEF Tx

\* A worker broadcasts: what was pending keeps its place, and the new transaction comes last.
LEMMA Broadcasts ==
  ASSUME Inv, NEW w \in Workers, NEW kind \in DOMAIN Place, NEW amount \in Nat, At(w, Place[kind]),
         Broadcast(w, kind, JobDeal(w), amount)
  PROVE  LET tx == [kind |-> kind, deal |-> JobDeal(w), amount |-> amount, worker |-> w]
         IN  /\ ChainOK'
             /\ \A i \in DOMAIN mempool' : \/ i \in DOMAIN mempool /\ mempool'[i] = mempool[i]
                                           \/ i = Len(mempool) + 1 /\ mempool'[i] = tx
             /\ \A i \in DOMAIN mempool : mempool[i].worker # w /\ i # Len(mempool) + 1
             /\ UNCHANGED <<clone, late, held, float, sent>>
<1> DEFINE tx == [kind |-> kind, deal |-> JobDeal(w), amount |-> amount, worker |-> w]
<1>1. JobDeal(w) \in Deals /\ ~Waits(w)
  BY AtJob DEF Place
<1>2. tx \in Tx
  BY <1>1 DEF Tx, Place
<1>3. mempool' = Append(mempool, tx) /\ UNCHANGED <<clone, late, held, float, sent>>
  BY DEF Broadcast
<1>4. mempool \in Seq(Tx)
  BY PoolIs DEF Inv
<1> HIDE DEF tx
<1>5. /\ mempool' \in Seq(Tx)
      /\ \A i \in DOMAIN mempool' : \/ i \in DOMAIN mempool /\ mempool'[i] = mempool[i]
                                    \/ i = Len(mempool) + 1 /\ mempool'[i] = tx
  BY <1>2, <1>3, <1>4
<1>6. ChainOK'
  BY <1>3, <1>5 DEF Inv, TypeOK, ChainOK
<1>7. \A i \in DOMAIN mempool : mempool[i].worker # w /\ i # Len(mempool) + 1
  BY <1>1, <1>4 DEF Waits, ToSet
<1> QED
  BY <1>3, <1>5, <1>6, <1>7 DEF tx

LEMMA BroadcastKeeps ==
  ASSUME Inv, NEW w \in Workers, NEW kind \in DOMAIN Place, NEW amount \in Nat, At(w, Place[kind]),
         Broadcast(w, kind, JobDeal(w), amount), UNCHANGED <<work, method>>
  PROVE  ChainOK' /\ JobsKnown' /\ PoolKnown'
<1> DEFINE tx == [kind |-> kind, deal |-> JobDeal(w), amount |-> amount, worker |-> w]
<1>1. /\ ChainOK'
      /\ \A i \in DOMAIN mempool' : \/ i \in DOMAIN mempool /\ mempool'[i] = mempool[i]
                                    \/ i = Len(mempool) + 1 /\ mempool'[i] = tx
      /\ \A i \in DOMAIN mempool : mempool[i].worker # w /\ i # Len(mempool) + 1
  BY Broadcasts
<1>2. JobsKnown'
  BY DEF Inv, JobsKnown, Known, Direct
<1>3. /\ tx.kind \in DOMAIN Place /\ tx.worker = w
      /\ work'[w].pc = Place[tx.kind] /\ DealOf[work'[w].job] = tx.deal
  BY DEF At, Job, JobDeal
<1> HIDE DEF tx
<1>5. ASSUME NEW i \in DOMAIN mempool'
      PROVE  WaiterKnown(mempool[i])'
  <2>1. CASE i \in DOMAIN mempool /\ mempool'[i] = mempool[i]
    <3>1. WaiterKnown(mempool[i]) /\ mempool[i].worker \in Workers \cup {NoOne}
      BY <2>1, PoolIs DEF Inv, PoolKnown
    <3> QED
      BY <2>1, <3>1 DEF WaiterKnown, Job, JobDeal
  <2>2. CASE mempool'[i] = tx
    BY <1>3, <2>2 DEF WaiterKnown, Job, JobDeal
  <2> QED
    BY <1>1, <1>5, <2>1, <2>2
<1>6. ASSUME NEW i \in DOMAIN mempool', NEW j \in DOMAIN mempool', mempool'[i].worker = mempool'[j].worker
      PROVE  i = j \/ mempool'[i].worker = NoOne
  BY <1>1, <1>3, <1>6 DEF Inv, PoolKnown
<1> QED
  BY <1>1, <1>2, <1>5, <1>6 DEF PoolKnown

\* The workers in W stop waiting.
LEMMA Abandoned ==
  ASSUME TypeOK, NEW W \in SUBSET Workers, Abandon(W)
  PROVE  /\ ChainOK' /\ DOMAIN mempool' = DOMAIN mempool
         /\ \A i \in DOMAIN mempool :
              /\ mempool'[i].kind = mempool[i].kind /\ mempool'[i].deal = mempool[i].deal
              /\ mempool'[i].amount = mempool[i].amount
              /\ mempool'[i].worker = IF mempool[i].worker \in W THEN NoOne ELSE mempool[i].worker
         /\ UNCHANGED <<clone, late, held, float, sent>>
<1>1. mempool \in Seq(Tx) /\ \A i \in DOMAIN mempool : mempool[i] \in Tx
  BY PoolIs
<1>2. ASSUME NEW i \in DOMAIN mempool
      PROVE  /\ mempool'[i] \in Tx
             /\ mempool'[i].kind = mempool[i].kind /\ mempool'[i].deal = mempool[i].deal
             /\ mempool'[i].amount = mempool[i].amount
             /\ mempool'[i].worker = IF mempool[i].worker \in W THEN NoOne ELSE mempool[i].worker
  <2>1. mempool[i] \in Tx
    BY <1>1
  <2>2. CASE mempool[i].worker \in W
    <3>1. mempool'[i] = [mempool[i] EXCEPT !.worker = NoOne]
      BY <2>2 DEF Abandon
    <3> QED
      BY <2>1, <2>2, <3>1 DEF Tx
  <2>3. CASE mempool[i].worker \notin W
    <3>1. mempool'[i] = mempool[i]
      BY <2>3 DEF Abandon
    <3> QED
      BY <2>1, <2>3, <3>1 DEF Tx
  <2> QED
    BY <2>2, <2>3
<1>3. DOMAIN mempool' = DOMAIN mempool
  BY DEF Abandon
<1>4. mempool' \in Seq(Tx)
  <2>1. DOMAIN mempool = 1 .. Len(mempool) /\ Len(mempool) \in Nat
    BY <1>1
  <2>2. mempool' \in [1 .. Len(mempool) -> Tx]
    BY <1>2, <2>1 DEF Abandon
  <2> QED
    BY <2>1, <2>2
<1>5. ChainOK'
  BY <1>4 DEF Abandon, TypeOK, ChainOK
<1> QED
  BY <1>2, <1>3, <1>5 DEF Abandon

LEMMA AbandonKeeps ==
  ASSUME Inv, NEW W \in SUBSET Workers, Abandon(W),
         \A v \in Workers \ W : work'[v] = work[v]
  PROVE  ChainOK' /\ PoolKnown'
<1>1. /\ ChainOK' /\ DOMAIN mempool' = DOMAIN mempool
      /\ \A i \in DOMAIN mempool :
           /\ mempool'[i].kind = mempool[i].kind /\ mempool'[i].deal = mempool[i].deal
           /\ mempool'[i].worker = IF mempool[i].worker \in W THEN NoOne ELSE mempool[i].worker
  BY Abandoned DEF Inv
<1>2. \A i \in DOMAIN mempool : mempool[i].worker \in Workers \cup {NoOne}
  BY PoolIs DEF Inv
<1>3. ASSUME NEW i \in DOMAIN mempool'
      PROVE  WaiterKnown(mempool[i])'
  <2>1. mempool'[i].worker # NoOne =>
          mempool[i].worker \in Workers \ W /\ mempool'[i].worker = mempool[i].worker
    BY <1>1, <1>2, <1>3
  <2> QED
    BY <1>1, <1>3, <2>1 DEF Inv, PoolKnown, WaiterKnown, Job, JobDeal
<1>4. ASSUME NEW i \in DOMAIN mempool', NEW j \in DOMAIN mempool', mempool'[i].worker = mempool'[j].worker
      PROVE  i = j \/ mempool'[i].worker = NoOne
  BY <1>1, <1>2, <1>4 DEF Inv, PoolKnown
<1> QED
  BY <1>1, <1>3, <1>4 DEF PoolKnown

\* The first transaction is mined; the others move up.
LEMMA Mines ==
  ASSUME Inv, Mine
  PROVE  /\ ChainOK'
         /\ mempool # <<>> /\ 1 \in DOMAIN mempool /\ mempool[1] = Head(mempool) /\ Head(mempool) \in Tx
         /\ Head(mempool).kind \in {"transfer", "notifyFunded"}
         /\ \A i \in DOMAIN mempool' :
              i + 1 \in DOMAIN mempool /\ i + 1 # 1 /\ mempool'[i] = mempool[i + 1] /\ i \in Nat
         /\ late' = late
<1> DEFINE tx == Head(mempool)
<1>1. mempool \in Seq(Tx) /\ mempool # <<>> /\ mempool' = Tail(mempool)
  BY PoolIs DEF Inv, Mine
<1>2. /\ tx \in Tx /\ mempool' \in Seq(Tx) /\ 1 \in DOMAIN mempool /\ mempool[1] = tx
      /\ \A i \in DOMAIN mempool' :
           i + 1 \in DOMAIN mempool /\ i + 1 # 1 /\ mempool'[i] = mempool[i + 1] /\ i \in Nat
  BY <1>1
<1>3. tx.kind \in {"transfer", "notifyFunded"} /\ tx.deal \in Deals /\ tx.amount \in Nat
  <2>1. WaiterKnown(tx)
    BY <1>2 DEF Inv, PoolKnown
  <2> QED
    BY <1>2, <2>1, PoolIs DEF WaiterKnown, Place, Inv
<1>4. late' = late
  BY DEF Mine
<1>5. ChainOK'
  <2>1. CASE Succeeds(tx)
    <3>1. Effect(tx)
      BY <2>1 DEF Mine
    <3> HIDE DEF tx
    <3> USE DEF Inv, TypeOK, ChainOK, CloneStatus
    <3>2. CASE tx.kind = "transfer"
      <4>1. /\ float >= tx.amount /\ float' = float - tx.amount
            /\ held' = [held EXCEPT ![tx.deal] = @ + tx.amount]
            /\ sent' = [sent EXCEPT ![tx.deal] = @ + tx.amount]
            /\ clone' = clone
        BY <2>1, <3>1, <3>2 DEF Effect, Succeeds
      <4> QED
        BY <1>2, <1>3, <1>4, <4>1
    <3>3. CASE tx.kind = "notifyFunded"
      BY <1>2, <1>3, <1>4, <3>1, <3>3 DEF Effect
    <3> QED
      BY <1>3, <3>2, <3>3
  <2>2. CASE ~Succeeds(tx)
    BY <1>2, <1>4, <2>2 DEF Mine, Inv, TypeOK, ChainOK
  <2> QED
    BY <2>1, <2>2
<1> QED
  BY <1>1, <1>2, <1>3, <1>4, <1>5

\* Its worker goes on.
LEMMA MineMoves ==
  ASSUME Inv, MineNext, NEW w \in Workers, Head(mempool).worker = w
  PROVE  /\ work[w].pc = Place[Head(mempool).kind] /\ Job(w) \in Payments
         /\ JobDeal(w) = Head(mempool).deal
         /\ \A i \in DOMAIN mempool' : mempool'[i].worker # w
         /\ \/ Moves(w) /\ work'[w] = Rest
            \/ ~Direct(Job(w)) /\ Goes(w, "release", "received")
            \/ /\ Succeeds(Head(mempool)) /\ Head(mempool).kind = "transfer"
               /\ Goes(w, "notify", work[w].result)
            \/ /\ Succeeds(Head(mempool)) /\ Head(mempool).kind = "notifyFunded"
               /\ Goes(w, IF Direct(Job(w)) THEN "save" ELSE "release", "completed")
<1> DEFINE tx == Head(mempool)
<1>1. /\ 1 \in DOMAIN mempool /\ mempool[1] = tx
      /\ \A i \in DOMAIN mempool' : i + 1 \in DOMAIN mempool /\ i + 1 # 1 /\ mempool'[i] = mempool[i + 1]
  BY Mines DEF MineNext
<1>2. w # NoOne /\ WaiterKnown(tx) /\ JobDeal(w) = tx.deal /\ work[w].pc = Place[tx.kind]
  BY <1>1, RelayAssumption DEF Inv, PoolKnown, WaiterKnown
<1>3. Job(w) \in Payments
  BY <1>2 DEF WaiterKnown, Place, Inv, JobsKnown, Known, Job
<1>4. \A i \in DOMAIN mempool' : mempool'[i].worker # w
  BY <1>1, <1>2 DEF Inv, PoolKnown
<1>5. \/ Fail(w)
      \/ Succeeds(tx) /\ tx.kind = "transfer" /\ Goto(w, "notify")
      \/ Succeeds(tx) /\ tx.kind = "notifyFunded" /\ Succeed(w)
  BY <1>2 DEF MineNext
<1> HIDE DEF tx
<1>6. TypeOK
  BY DEF Inv
<1>7. Succeeds(tx) /\ tx.kind = "transfer" /\ Goto(w, "notify") => Goes(w, "notify", work[w].result)
  BY <1>6, GotoGoes DEF Pc
<1>8. \/ Moves(w) /\ work'[w] = Rest
      \/ ~Direct(Job(w)) /\ Goes(w, "release", "received")
      \/ Succeeds(tx) /\ tx.kind = "transfer" /\ Goes(w, "notify", work[w].result)
      \/ /\ Succeeds(tx) /\ tx.kind = "notifyFunded"
         /\ Goes(w, IF Direct(Job(w)) THEN "save" ELSE "release", "completed")
  BY <1>5, <1>6, <1>7, FailMoves, SucceedGoes
<1> QED
  BY <1>2, <1>3, <1>4, <1>8 DEF tx

LEMMA MineKeeps == ASSUME Inv, MineNext PROVE Inv'
<1> DEFINE tx == Head(mempool)
<1>1. /\ ChainOK' /\ tx \in Tx
      /\ \A i \in DOMAIN mempool' :
           i + 1 \in DOMAIN mempool /\ i + 1 # 1 /\ mempool'[i] = mempool[i + 1] /\ i \in Nat
  BY Mines DEF MineNext
<1>2. /\ work' \in [Workers -> Work] /\ JobsKnown'
      /\ \A v \in Workers : v # tx.worker => work'[v] = work[v]
      /\ \A i \in DOMAIN mempool' : mempool'[i].worker = tx.worker => tx.worker = NoOne
  <2>1. CASE tx.worker = NoOne
    BY <2>1 DEF MineNext, Inv, TypeOK, JobsKnown, Known, Direct, rowVars
  <2>2. CASE tx.worker # NoOne
    <3> DEFINE w == tx.worker
    <3>1. w \in Workers
      BY <1>1, <2>2 DEF Tx
    <3> HIDE DEF w
    <3>2. Head(mempool).worker = w
      BY DEF w
    <3>3. /\ Job(w) \in Payments
          /\ \A i \in DOMAIN mempool' : mempool'[i].worker # w
          /\ \/ Moves(w) /\ work'[w] = Rest
             \/ ~Direct(Job(w)) /\ Goes(w, "release", "received")
             \/ Goes(w, "notify", work[w].result)
             \/ Goes(w, IF Direct(Job(w)) THEN "save" ELSE "release", "completed")
      BY <3>1, <3>2, MineMoves
    <3>4. Moves(w) /\ Known(w, work'[w])
      BY <3>3, RecordsAre DEF Goes, Known, Job, Forwarding
    <3>5. JobsKnown'
      BY <3>1, <3>4 DEF MineNext, Inv, JobsKnown, Known, Moves, Direct, rowVars
    <3> QED
      BY <3>2, <3>3, <3>4, <3>5 DEF Moves
  <2> QED
    BY <2>1, <2>2
<1>3. ASSUME NEW i \in DOMAIN mempool'
      PROVE  WaiterKnown(mempool[i])'
  <2>1. /\ WaiterKnown(mempool[i + 1]) /\ mempool'[i] = mempool[i + 1]
        /\ mempool[i + 1].worker \in Workers \cup {NoOne}
    BY <1>1, PoolIs DEF Inv, PoolKnown
  <2>2. mempool'[i].worker # NoOne => work'[mempool'[i].worker] = work[mempool'[i].worker]
    BY <1>2, <2>1
  <2> QED
    BY <2>1, <2>2 DEF WaiterKnown, Job, JobDeal
<1>4. PoolKnown'
  <2> SUFFICES ASSUME NEW i \in DOMAIN mempool', NEW j \in DOMAIN mempool',
                      mempool'[i].worker = mempool'[j].worker
               PROVE  i = j \/ mempool'[i].worker = NoOne
    BY <1>3 DEF PoolKnown
  <2>1. i + 1 = j + 1 \/ mempool[i + 1].worker = NoOne
    BY <1>1 DEF Inv, PoolKnown
  <2> QED
    BY <1>1, <2>1
<1> QED
  BY <1>1, <1>2, <1>4 DEF Inv, TypeOK, MineNext, rowVars, lockVars, worldVars

-----------------------------------------------------------------------------
(* Every step keeps the types                                              *)

LEMMA ChainStill == ASSUME Inv, UNCHANGED chainVars PROVE ChainOK' /\ mempool' = mempool
  BY DEF chainVars, Inv, TypeOK, ChainOK

\* A worker that goes on with its payment, or stops, and does not touch the chain.
LEMMA GoesKeeps ==
  ASSUME Inv, NEW w \in Workers, NEW pc \in Pc, At(w, pc), pc # "idle",
         UNCHANGED <<mempool, method>>,
         \/ Moves(w) /\ work'[w] = Rest
         \/ \E next \in Pc, result \in Results \cup {"none"} :
              /\ Goes(w, next, result)
              /\ next \in Forwarding => ~Direct(Job(w))
              /\ next \in {"credit", "mark"} => pc \in {"credit", "mark"}
              /\ next \in {"release", "save"} => result # "none"
  PROVE  work' \in [Workers -> Work] /\ JobsKnown' /\ PoolKnown'
<1>1. ~Waits(w) /\ Job(w) \in Payments /\ Known(w, work[w]) /\ work[w].pc = pc
  BY AtJob DEF Inv, JobsKnown
<1>2. Moves(w) /\ Known(w, work'[w])
  BY <1>1, RecordsAre DEF Goes, Known, Job, Forwarding
<1> QED
  BY <1>1, <1>2, MoveKeeps

\* A worker that looks at a payment from now on.
LEMMA LookingKeeps ==
  ASSUME Inv, NEW w \in Workers, NEW p \in Payments, Start(w, p), ~Waits(w),
         UNCHANGED <<mempool, method>>
  PROVE  work' \in [Workers -> Work] /\ JobsKnown' /\ PoolKnown'
<1>1. Moves(w) /\ (work'[w] = Rest \/ work'[w] = Looking(p))
  BY StartMoves DEF Inv
<1>2. Known(w, work'[w])
  BY <1>1, LookingIs, RecordsAre DEF Known, Forwarding, Inv
<1> QED
  BY <1>1, <1>2, MoveKeeps

LEMMA SaveKeeps ==
  ASSUME Inv, NEW p \in Payments, NEW copy \in Payment, SavePayment(p, copy)
  PROVE  payment' \in [Payments -> Payment]
  BY DEF Inv, TypeOK, SavePayment

LEMMA BefallsKeeps == ASSUME TypeOK, NEW m, Befalls(m) PROVE mishaps' \in [Mishaps -> Nat]
  BY DEF TypeOK, Befalls

\* The rows that are saved are rows.
LEMMA SavedAre ==
  ASSUME NEW copy \in Payment
  PROVE  /\ \A status \in {"pending", "processing", "completed", "expired"} :
              [copy EXCEPT !.status = status] \in Payment
         /\ \A t \in Transfers : [copy EXCEPT !.credited[t] = @ + 1] \in Payment
         /\ \A status \in {"pending", "processing", "completed", "expired"}, rate \in Nat :
              [copy EXCEPT !.status = status, !.rate = rate] \in Payment
<1>1. /\ copy.credited \in [Transfers -> Nat] /\ copy.rate \in Nat
      /\ copy.status \in {"pending", "processing", "completed", "expired"}
      /\ copy = [status |-> copy.status, credited |-> copy.credited, rate |-> copy.rate]
  BY DEF Payment
<1>2. ASSUME NEW t \in Transfers
      PROVE  [copy EXCEPT !.credited[t] = @ + 1] \in Payment
  <2> DEFINE credited == [copy.credited EXCEPT ![t] = @ + 1]
  <2>1. credited \in [Transfers -> Nat]
    BY <1>1
  <2>2. [copy EXCEPT !.credited[t] = @ + 1] = [copy EXCEPT !.credited = credited]
    BY <1>1
  <2> HIDE DEF credited
  <2> QED
    BY <1>1, <2>1, <2>2 DEF Payment
<1>3. ASSUME NEW status \in {"pending", "processing", "completed", "expired"}, NEW rate \in Nat
      PROVE  /\ [copy EXCEPT !.status = status] \in Payment
             /\ [copy EXCEPT !.status = status, !.rate = rate] \in Payment
  BY <1>1 DEF Payment
<1> QED
  BY <1>2, <1>3

LEMMA AmountGoes ==
  ASSUME TypeOK, NEW w \in Workers, NEW amount \in Nat,
         work' = [work EXCEPT ![w].pc = "transfer", ![w].amount = amount]
  PROVE  /\ Moves(w)
         /\ work'[w].pc = "transfer" /\ work'[w].amount = amount
         /\ work'[w].job = work[w].job /\ work'[w].copy = work[w].copy
<1> DEFINE f == [work[w] EXCEPT !.pc = "transfer", !.amount = amount]
<1>1. /\ f \in Work /\ f.pc = "transfer" /\ f.amount = amount
      /\ f.job = work[w].job /\ f.copy = work[w].copy
  BY DEF TypeOK, Work, Pc
<1>2. work' = [work EXCEPT ![w] = f]
  OBVIOUS
<1> HIDE DEF f
<1> QED
  BY <1>1, <1>2 DEF TypeOK, Moves

LEMMA StepTypes ==
  ASSUME Inv, NEW w \in Workers, Step(w)
  PROVE  Inv'
<1> USE DEF Inv, TypeOK, rowVars, lockVars, worldVars
<1>0. /\ Unpaid \in Payment
      /\ \A r \in Results : NewStatus[r] \in {"pending", "processing", "completed", "expired"}
  BY RecordsAre DEF Results, NewStatus
<1>1. CASE Look(w)
  <2>1. At(w, "look")
    BY <1>1 DEF Look
  <2>2. \/ \E r \in Results \cup {"none"} : Return(w, r)
        \/ Direct(Job(w)) /\ Goto(w, "notify")
        \/ ~Direct(Job(w)) /\ Goto(w, "lock")
    BY <1>1 DEF Look, Results
  <2>3. \/ Moves(w) /\ work'[w] = Rest
        \/ \E r \in Results : Goes(w, "save", r)
        \/ Goes(w, "notify", work[w].result)
        \/ ~Direct(Job(w)) /\ Goes(w, "lock", work[w].result)
    BY <2>2, ReturnMoves, GotoGoes DEF Results, Pc
  <2>4. work[w].result \in Results \cup {"none"}
    BY DEF Work, Results
  <2>5. work' \in [Workers -> Work] /\ JobsKnown' /\ PoolKnown'
    BY <1>1, <2>1, <2>3, <2>4, GoesKeeps, ChainStill DEF Look, Pc, Forwarding, Results
  <2> QED
    BY <1>1, <2>5, ChainStill DEF Look
<1>2. CASE Lock(w) \/ SetNx(w)
  <2>1. PICK pc \in {"lock", "setnx"} : At(w, pc)
    BY <1>2 DEF Lock, SetNx
  <2>2. ~Direct(Job(w)) /\ JobDeal(w) \in Deals /\ Proc(w) \in Replicas
    BY <2>1, AtJob DEF JobsKnown, Known, Forwarding, Job
  <2>3. Return(w, "received") \/ Goto(w, "setnx") \/ Goto(w, "forward")
    BY <1>2 DEF Lock, SetNx
  <2>4. \/ Moves(w) /\ work'[w] = Rest
        \/ Goes(w, "save", "received")
        \/ \E next \in {"setnx", "forward"} : Goes(w, next, work[w].result)
    BY <2>3, ReturnMoves, GotoGoes DEF Results, Pc
  <2>5. work[w].result \in Results \cup {"none"}
    BY DEF Work, Results
  <2>6. UNCHANGED <<chainVars, rowVars, worldVars>>
    BY <1>2 DEF Lock, SetNx
  <2>7. work' \in [Workers -> Work] /\ JobsKnown' /\ PoolKnown'
    BY <2>1, <2>2, <2>4, <2>5, <2>6, GoesKeeps, ChainStill DEF Pc, Forwarding, Results
  <2>8. keys' \subseteq Deals /\ locals' \in [Replicas -> SUBSET Deals] /\ mishaps' \in [Mishaps -> Nat]
    BY <1>2, <2>2, BefallsKeeps DEF Lock, SetNx, TakeLocal
  <2> QED
    BY <2>6, <2>7, <2>8, ChainStill
<1>3. CASE Forward(w)
  <2>1. At(w, "forward")
    BY <1>3 DEF Forward
  <2>2. ~Direct(Job(w)) /\ JobDeal(w) \in Deals /\ ~Waits(w) /\ Job(w) \in Payments
    BY <2>1, AtJob DEF JobsKnown, Known, Forwarding, Job
  <2>3. UNCHANGED <<chainVars, rowVars, lockVars, worldVars, mishaps>>
    BY <1>3 DEF Forward
  <2>4. work[w].result \in Results \cup {"none"}
    BY DEF Work, Results
  <2>5. CASE Succeed(w) \/ Fail(w) \/ Goto(w, "notify")
    <3>1. \/ Moves(w) /\ work'[w] = Rest
          \/ \E r \in Results : Goes(w, "release", r)
          \/ Goes(w, "notify", work[w].result)
      BY <2>2, <2>5, FailMoves, SucceedGoes, GotoGoes DEF Pc, Results
    <3>2. work' \in [Workers -> Work] /\ JobsKnown' /\ PoolKnown'
      BY <2>1, <2>2, <2>3, <2>4, <3>1, GoesKeeps, ChainStill DEF Pc, Forwarding, Results
    <3> QED
      BY <2>3, <3>2, ChainStill
  <2>6. CASE work' = [work EXCEPT ![w].pc = "transfer", ![w].amount = Shortfall(JobDeal(w))]
    <3>1. Shortfall(JobDeal(w)) \in Nat
      BY <2>2, RelayAssumption DEF Shortfall, ChainOK
    <3>2. Moves(w) /\ work'[w].pc = "transfer" /\ work'[w].job = work[w].job
      BY <2>6, <3>1, AmountGoes
    <3>3. Known(w, work'[w])
      BY <2>2, <3>2 DEF Known, Job, Forwarding
    <3>4. work' \in [Workers -> Work] /\ JobsKnown' /\ PoolKnown'
      BY <2>2, <2>3, <3>2, <3>3, MoveKeeps, ChainStill
    <3> QED
      BY <2>3, <3>4, ChainStill
  <2> QED
    BY <1>3, <2>5, <2>6 DEF Forward
<1>4. CASE Transfer(w) \/ Notify(w)
  <2>1. work[w].amount \in Nat
    BY DEF Work
  <2>2. \E kind \in DOMAIN Place, amount \in Nat :
          At(w, Place[kind]) /\ Broadcast(w, kind, JobDeal(w), amount)
    BY <1>4, <2>1 DEF Transfer, Notify, Place
  <2>3. UNCHANGED <<rowVars, lockVars, worldVars, work, mishaps>>
    BY <1>4 DEF Transfer, Notify
  <2>4. ChainOK' /\ JobsKnown' /\ PoolKnown'
    BY <2>2, <2>3, BroadcastKeeps
  <2> QED
    BY <2>3, <2>4
<1>5. CASE Release(w)
  <2>1. At(w, "release") /\ Goes(w, "save", work[w].result)
    BY <1>5, GotoGoes DEF Release, Pc
  <2>2. work[w].result \in Results
    BY <2>1 DEF JobsKnown, Known, At, Work, Results
  <2>3. work' \in [Workers -> Work] /\ JobsKnown' /\ PoolKnown'
    BY <1>5, <2>1, <2>2, GoesKeeps, ChainStill DEF Release, Pc, Forwarding, Results
  <2>4. /\ keys' \subseteq Deals /\ locals' \in [Replicas -> SUBSET Deals]
        /\ mishaps' \in [Mishaps -> Nat]
    BY <1>5, <2>1, AtJob, BefallsKeeps DEF Release, ReleaseLocal
  <2> QED
    BY <1>5, <2>3, <2>4, ChainStill DEF Release
<1>6. CASE SaveResult(w)
  <2>1. At(w, "save") /\ (Finish(w) \/ Goto(w, "finalize"))
    BY <1>6 DEF SaveResult
  <2>2. /\ work[w].copy \in Payment /\ Job(w) \in Payments
        /\ work[w].result \in Results
    BY <2>1, AtJob DEF JobsKnown, Known, At, Work, Results
  <2>3. (Moves(w) /\ work'[w] = Rest) \/ Goes(w, "finalize", work[w].result)
    BY <2>1, FinishMoves, GotoGoes DEF Pc
  <2>4. work' \in [Workers -> Work] /\ JobsKnown' /\ PoolKnown'
    BY <1>6, <2>1, <2>2, <2>3, GoesKeeps, ChainStill DEF SaveResult, Pc, Forwarding, Results
  <2>5. payment' \in [Payments -> Payment]
    BY <1>0, <1>6, <2>2, SavedAre, SaveKeeps DEF SaveResult
  <2> QED
    BY <1>6, <2>4, <2>5, ChainStill DEF SaveResult
<1>7. CASE Finalize(w)
  <2>1. At(w, "finalize") /\ Moves(w) /\ work'[w] = Rest
    BY <1>7, FinishMoves DEF Finalize
  <2>2. work' \in [Workers -> Work] /\ JobsKnown' /\ PoolKnown'
    BY <1>7, <2>1, GoesKeeps, ChainStill DEF Finalize, Pc
  <2>3. deal' \in [Deals -> {"PENDING_PAYMENT", "IN_PROGRESS", "CANCELLED"}]
    BY <1>7 DEF Finalize, Confirm
  <2> QED
    BY <1>7, <2>2, <2>3, ChainStill DEF Finalize
<1>8. CASE MatchCredit(w)
  <2>1. At(w, "credit") /\ Goes(w, "mark", work[w].result)
    BY <1>8, GotoGoes DEF MatchCredit, Pc
  <2>2. /\ work[w].copy \in Payment /\ Job(w) \in Payments
        /\ work[w].deposit \in Transfers /\ work[w].result \in Results \cup {"none"}
    BY <2>1, AtJob DEF JobsKnown, Known, At, Work, Results
  <2>3. work' \in [Workers -> Work] /\ JobsKnown' /\ PoolKnown'
    BY <1>8, <2>1, <2>2, GoesKeeps, ChainStill DEF MatchCredit, Pc, Forwarding, Results
  <2>4. payment' \in [Payments -> Payment]
    BY <1>8, <2>2, SavedAre, SaveKeeps DEF MatchCredit
  <2>5. credits' \in [Payments -> [Transfers -> Nat]]
    <3>1. credits' = [credits EXCEPT ![Job(w)][work[w].deposit] = @ + 1]
      BY <1>8 DEF MatchCredit
    <3>2. credits[Job(w)] \in [Transfers -> Nat]
      BY <2>2
    <3> QED
      BY <2>2, <3>1, <3>2
  <2> QED
    BY <1>8, <2>3, <2>4, <2>5, ChainStill DEF MatchCredit
<1>9. CASE MatchMark(w)
  <2>1. At(w, "mark") /\ Start(w, Job(w))
    BY <1>9 DEF MatchMark
  <2>2. work' \in [Workers -> Work] /\ JobsKnown' /\ PoolKnown'
    BY <1>9, <2>1, AtJob, LookingKeeps, ChainStill DEF MatchMark
  <2>3. row' \in [Transfers -> {NoOne, "unmatched", "matched", "ignored"}]
    BY <1>9 DEF MatchMark
  <2> QED
    BY <1>9, <2>2, <2>3, ChainStill DEF MatchMark
<1>10. CASE ExtendMined(w)
  <2>1. At(w, "extend") /\ (Finish(w) \/ Goto(w, "extended"))
    BY <1>10 DEF ExtendMined
  <2>2. (Moves(w) /\ work'[w] = Rest) \/ Goes(w, "extended", work[w].result)
    BY <2>1, FinishMoves, GotoGoes DEF Pc
  <2>3. work[w].result \in Results \cup {"none"}
    BY DEF Work, Results
  <2>4. work' \in [Workers -> Work] /\ JobsKnown' /\ PoolKnown'
    BY <1>10, <2>1, <2>2, <2>3, GoesKeeps DEF ExtendMined, Pc, Forwarding, Results
  <2>5. ChainOK'
    BY <1>10 DEF ExtendMined, ChainOK
  <2> QED
    BY <1>10, <2>4, <2>5 DEF ExtendMined
<1>11. CASE ExtendSave(w)
  <2> DEFINE copy == [work[w].copy EXCEPT !.status = IF @ = "expired" THEN "pending" ELSE @,
                            !.rate = IF work[w].renew THEN lapsed[Job(w)] ELSE @]
  <2>1. At(w, "extended") /\ Moves(w) /\ work'[w] = Rest
    BY <1>11, FinishMoves DEF ExtendSave
  <2>2. work' \in [Workers -> Work] /\ JobsKnown' /\ PoolKnown'
    BY <1>11, <2>1, GoesKeeps, ChainStill DEF ExtendSave, Pc
  <2>3. work[w].copy \in Payment /\ Job(w) \in Payments /\ lapsed[Job(w)] \in Nat
    BY <2>1, AtJob
  <2>4. copy \in Payment
    <3>1. work[w].copy.status \in {"pending", "processing", "completed", "expired"}
          /\ work[w].copy.rate \in Nat
      BY <2>3 DEF Payment
    <3> QED
      BY <2>3, <3>1, SavedAre
  <2>5. SavePayment(Job(w), copy)
    BY <1>11 DEF ExtendSave
  <2>6. payment' \in [Payments -> Payment]
    BY <2>3, <2>4, <2>5, SaveKeeps
  <2> QED
    BY <1>11, <2>2, <2>6, ChainStill DEF ExtendSave
<1> QED
  BY <1>1, <1>2, <1>3, <1>4, <1>5, <1>6, <1>7, <1>8, <1>9, <1>10, <1>11 DEF Step

LEMMA AdminIsWorker == ASSUME NEW a \in Admins PROVE a \in Workers
  BY DepositsAssumption

LEMMA MatchReads ==
  ASSUME Inv, NEW a \in Admins, NEW t \in Transfers, NEW p \in Payments, MatchRead(a, t, p)
  PROVE  /\ ~Waits(a) /\ Moves(a)
         /\ work'[a].pc = "credit" /\ work'[a].job = p /\ work'[a].deposit = t
         /\ work'[a].copy = payment[p]
<1> DEFINE f == [Rest EXCEPT !.pc = "credit", !.job = p, !.deposit = t, !.copy = payment[p]]
<1>1. payment[p] \in Payment /\ Rest \in Work
  BY RecordsAre DEF Inv, TypeOK
<1>2. f \in Work /\ f.pc = "credit" /\ f.job = p /\ f.deposit = t /\ f.copy = payment[p]
  <2> HIDE DEF Payment, Rest
  <2> QED
    BY <1>1 DEF Work, Pc
<1>3. work' = [work EXCEPT ![a] = f]
  BY DEF MatchRead
<1> HIDE DEF f
<1> QED
  BY <1>2, <1>3, AdminIsWorker, WaitersAre DEF MatchRead, Moves, Inv, TypeOK

LEMMA ExtendReads ==
  ASSUME Inv, NEW a \in Admins, NEW p \in Payments, ExtendRead(a, p)
  PROVE  /\ ~Waits(a) /\ Moves(a)
         /\ work'[a].pc = "extend" /\ work'[a].job = p /\ work'[a].copy = payment[p]
<1> DEFINE renew == RateLockOver(p, payment[p])
           f == [Rest EXCEPT !.pc = "extend", !.job = p, !.copy = payment[p], !.renew = renew]
<1>1. payment[p] \in Payment /\ Rest \in Work /\ renew \in BOOLEAN
  BY RecordsAre DEF Inv, TypeOK, RateLockOver
<1> HIDE DEF renew
<1>2. f \in Work /\ f.pc = "extend" /\ f.job = p /\ f.copy = payment[p]
  <2> HIDE DEF Payment, Rest
  <2> QED
    BY <1>1 DEF Work, Pc
<1>3. work' = [work EXCEPT ![a] = f]
  BY DEF ExtendRead, renew
<1> HIDE DEF f
<1> QED
  BY <1>2, <1>3, AdminIsWorker, WaitersAre DEF ExtendRead, Moves, Inv, TypeOK

LEMMA AdminTypes == ASSUME Inv, AdminNext PROVE Inv'
<1> USE DEF Inv, TypeOK, rowVars, lockVars, worldVars
<1>1. ASSUME NEW a \in Admins, NEW p \in Payments, NEW t \in Transfers, MatchRead(a, t, p)
      PROVE  Inv'
  <2>1. Known(a, work'[a])
    BY <1>1, MatchReads DEF Known, Forwarding
  <2>2. work' \in [Workers -> Work] /\ JobsKnown' /\ PoolKnown'
    BY <1>1, <2>1, AdminIsWorker, MatchReads, MoveKeeps, ChainStill DEF MatchRead
  <2> QED
    BY <1>1, <2>2, ChainStill DEF MatchRead
<1>2. ASSUME NEW a \in Admins, NEW p \in Payments, ExtendRead(a, p)
      PROVE  Inv'
  <2>1. Known(a, work'[a])
    BY <1>2, ExtendReads DEF Known, Forwarding
  <2>2. work' \in [Workers -> Work] /\ JobsKnown' /\ PoolKnown'
    BY <1>2, <2>1, AdminIsWorker, ExtendReads, MoveKeeps, ChainStill DEF ExtendRead
  <2>3. mishaps' \in [Mishaps -> Nat]
    BY <1>2, BefallsKeeps DEF ExtendRead
  <2> QED
    BY <1>2, <2>2, <2>3, ChainStill DEF ExtendRead
<1>3. ASSUME NEW t \in Transfers, Ignore(t)
      PROVE  Inv'
  <2>1. row' \in [Transfers -> {NoOne, "unmatched", "matched", "ignored"}]
    BY <1>3 DEF Ignore
  <2> QED
    BY <1>3, <2>1, StillKeeps, ChainStill DEF Ignore
<1> QED
  BY <1>1, <1>2, <1>3 DEF AdminNext

\* What the parties and the deadline do to a clone.
LEMMA ClonesAre ==
  ASSUME Inv, CloneNext
  PROVE  /\ ChainOK' /\ UNCHANGED <<held, float, sent, mempool>>
         /\ \A d \in Deals : \/ clone'[d] = clone[d]
                             \/ clone[d] = "AWAITING_FUNDING" /\ clone'[d] = "CANCELLED"
<1>1. PICK d \in Deals : DeadlinePasses(d) \/ (CloseClone(d) /\ clone'[d] = "CANCELLED")
  BY DEF CloneNext
<1>2. ChainOK
  BY DEF Inv, TypeOK
<1>3. CASE DeadlinePasses(d)
  BY <1>2, <1>3 DEF DeadlinePasses, ChainOK
<1>4. CASE CloseClone(d) /\ clone'[d] = "CANCELLED"
  <2>1. PICK s \in Void : clone' = [clone EXCEPT ![d] = s]
    BY <1>4 DEF CloseClone
  <2>2. s = "CANCELLED"
    BY <1>2, <1>4, <2>1 DEF ChainOK
  <2>3. clone[d] = "AWAITING_FUNDING" /\ UNCHANGED <<late, held, float, sent, mempool>>
    BY <1>4 DEF CloseClone
  <2> QED
    BY <1>2, <2>1, <2>2, <2>3 DEF ChainOK, CloneStatus
<1> QED
  BY <1>1, <1>3, <1>4

LEMMA WorldTypes == ASSUME Inv, WorldNext PROVE Inv'
<1> USE DEF Inv, TypeOK, rowVars, lockVars, worldVars
<1>1. ASSUME NEW t \in Transfers, Arrive(t) PROVE Inv'
  <2>1. wire' \in [Transfers -> Wire \cup {NoOne}]
    <3> HIDE DEF Wire
    <3> QED
      BY <1>1 DEF Arrive
  <2> QED
    BY <1>1, <2>1, StillKeeps, ChainStill DEF Arrive
<1>2. ASSUME NEW p \in Payments, PayClone(p) PROVE Inv'
  <2>1. DealOf[p] \in Deals /\ Deposit[DealOf[p]] \in Nat
    BY DepositsAssumption, RelayAssumption
  <2>2. held' \in [Deals -> Nat]
    BY <1>2, <2>1 DEF PayClone, ChainOK
  <2>3. ChainOK'
    BY <1>2, <2>2 DEF PayClone, ChainOK
  <2> QED
    BY <1>2, <2>3, StillKeeps DEF PayClone
<1>3. ASSUME NEW p \in Payments, RateLapses(p) PROVE Inv'
  <2>1. lapsed' \in [Payments -> Nat]
    BY <1>3 DEF RateLapses
  <2> QED
    BY <1>3, <2>1, StillKeeps, ChainStill DEF RateLapses
<1>4. ASSUME NEW d \in Deals, CancelDeal(d) PROVE Inv'
  <2>1. deal' \in [Deals -> {"PENDING_PAYMENT", "IN_PROGRESS", "CANCELLED"}]
    BY <1>4 DEF CancelDeal
  <2> QED
    BY <1>4, <2>1, StillKeeps, ChainStill DEF CancelDeal
<1>5. CASE CloneNext /\ UNCHANGED <<rowVars, lockVars, worldVars, work, mishaps>>
  BY <1>5, ClonesAre, StillKeeps
<1>6. CASE OtherCompletes
  <2>1. others' \in Nat /\ mishaps' \in [Mishaps -> Nat]
    BY <1>6, BefallsKeeps DEF OtherCompletes
  <2> QED
    BY <1>6, <2>1, StillKeeps, ChainStill DEF OtherCompletes
<1> QED
  BY <1>1, <1>2, <1>3, <1>4, <1>5, <1>6 DEF WorldNext

LEMMA CrashIs ==
  ASSUME Inv, NEW r \in Replicas, Crash(r)
  PROVE  LET W == {w \in Workers : Replica[w] = r}
         IN  /\ work' \in [Workers -> Work]
             /\ \A v \in Workers : work'[v] = IF v \in W THEN Rest ELSE work[v]
             /\ Abandon(W)
<1> DEFINE W == {w \in Workers : Replica[w] = r}
<1>1. work' = [v \in Workers |-> IF v \in W THEN Rest ELSE work[v]] /\ Abandon(W)
  BY DEF Crash
<1> HIDE DEF W
<1>2. work' \in [Workers -> Work]
  <2> HIDE DEF Work
  <2> QED
    BY <1>1, RecordsAre DEF Inv, TypeOK
<1> QED
  BY <1>1, <1>2 DEF W

\* The call fails, or its receipt is lost: the worker gives up.
LEMMA GivesUp ==
  ASSUME Inv, NEW w \in Workers, CallFails(w) \/ AnswerLost(w)
  PROVE  /\ work[w].pc \in {"look", "extend", "forward", "transfer", "notify"}
         /\ Job(w) \in Payments /\ JobDeal(w) \in Deals
         /\ \/ Moves(w) /\ work'[w] = Rest
            \/ /\ work[w].pc \in {"forward", "transfer", "notify"} /\ ~Direct(Job(w))
               /\ Goes(w, "release", "received")
<1>1. work[w].pc \in {"look", "extend", "forward", "transfer", "notify"}
  BY WaitersAre DEF CallFails, AnswerLost, At, Inv
<1>2. Finish(w) \/ (work[w].pc \in {"forward", "transfer", "notify"} /\ Fail(w))
  BY <1>1, WaitersAre DEF CallFails, AnswerLost, At, Inv
<1>3. Job(w) \in Payments /\ JobDeal(w) \in Deals
  BY <1>1, DepositsAssumption DEF Inv, JobsKnown, Known, Job, JobDeal
<1> QED
  BY <1>1, <1>2, <1>3, FinishMoves, FailMoves DEF Inv

LEMMA MishapTypes == ASSUME Inv, MishapNext PROVE Inv'
<1> USE DEF Inv, TypeOK, rowVars, lockVars, worldVars
<1>1. ASSUME NEW r \in Replicas, Crash(r) PROVE Inv'
  <2> DEFINE W == {w \in Workers : Replica[w] = r}
  <2>1. /\ work' \in [Workers -> Work] /\ Abandon(W)
        /\ \A v \in Workers : work'[v] = IF v \in W THEN Rest ELSE work[v]
    BY <1>1, CrashIs
  <2>2. W \in SUBSET Workers
    OBVIOUS
  <2> HIDE DEF W
  <2>3. ChainOK' /\ PoolKnown'
    BY <2>1, <2>2, AbandonKeeps
  <2>4. JobsKnown'
    <3>1. \A v \in Workers : Known(v, Rest)
      BY RecordsAre DEF Known, Forwarding
    <3> QED
      BY <1>1, <2>1, <3>1 DEF Crash, JobsKnown, Known, Direct
  <2>5. locals' \in [Replicas -> SUBSET Deals] /\ mishaps' \in [Mishaps -> Nat]
    BY <1>1, BefallsKeeps DEF Crash
  <2> QED
    BY <1>1, <2>1, <2>3, <2>4, <2>5 DEF Crash
<1>2. ASSUME NEW w \in Workers, CallFails(w) \/ AnswerLost(w) PROVE Inv'
  <2>1. Moves(w) /\ Known(w, work'[w]) /\ UNCHANGED <<rowVars, lockVars, worldVars>>
    BY <1>2, GivesUp, RecordsAre DEF Goes, Known, Forwarding, CallFails, AnswerLost, Job
  <2>2. mishaps' \in [Mishaps -> Nat]
    BY <1>2, BefallsKeeps DEF CallFails, AnswerLost
  <2>3. CASE CallFails(w)
    <3>1. ~Waits(w) /\ UNCHANGED chainVars
      BY <2>3 DEF CallFails, At
    <3> QED
      BY <2>1, <2>2, <3>1, MoveKeeps, ChainStill
  <2>4. CASE AnswerLost(w)
    <3>1. ChainOK' /\ PoolKnown'
      BY <2>1, <2>4, AbandonKeeps DEF AnswerLost, Moves
    <3>2. JobsKnown'
      BY <2>1 DEF JobsKnown, Known, Direct, Moves
    <3> QED
      BY <2>1, <2>2, <3>1, <3>2 DEF Moves
  <2> QED
    BY <1>2, <2>3, <2>4
<1> QED
  BY <1>1, <1>2 DEF MishapNext

\* The watcher or a buyer begins, a key runs out, the sweep, the scanner.
LEMMA OtherTypes ==
  ASSUME Inv,
         \/ \E w \in Workers, p \in Payments : Begin(w, p)
         \/ \E d \in Deals : LockExpires(d)
         \/ \E p \in Payments : Sweep(p)
         \/ ScanRead \/ \E t \in Transfers : ScanRecord(t)
  PROVE  Inv'
<1> USE DEF Inv, TypeOK, rowVars, lockVars, worldVars
<1>1. ASSUME NEW w \in Workers, NEW p \in Payments, Begin(w, p) PROVE Inv'
  <2>1. ~Waits(w)
    BY <1>1, WaitersAre DEF Begin
  <2>2. work' \in [Workers -> Work] /\ JobsKnown' /\ PoolKnown'
    BY <1>1, <2>1, LookingKeeps, ChainStill DEF Begin
  <2> QED
    BY <1>1, <2>2, ChainStill DEF Begin
<1>2. ASSUME NEW d \in Deals, LockExpires(d) PROVE Inv'
  <2>1. keys' \subseteq Deals /\ mishaps' \in [Mishaps -> Nat]
    BY <1>2, BefallsKeeps DEF LockExpires
  <2> QED
    BY <1>2, <2>1, StillKeeps, ChainStill DEF LockExpires
<1>3. ASSUME NEW p \in Payments, Sweep(p) PROVE Inv'
  <2>1. deal' \in [Deals -> {"PENDING_PAYMENT", "IN_PROGRESS", "CANCELLED"}]
    BY <1>3 DEF Sweep, Confirm
  <2> QED
    BY <1>3, <2>1, StillKeeps, ChainStill DEF Sweep
<1>4. CASE ScanRead
  BY <1>4, StillKeeps, ChainStill DEF ScanRead
<1>5. ASSUME NEW t \in Transfers, ScanRecord(t) PROVE Inv'
  <2>1. row' \in [Transfers -> {NoOne, "unmatched", "matched", "ignored"}] /\ scan' \subseteq Transfers
    BY <1>5 DEF ScanRecord
  <2> QED
    BY <1>5, <2>1, StillKeeps, ChainStill DEF ScanRecord
<1> QED
  BY <1>1, <1>2, <1>3, <1>4, <1>5

LEMMA TypesInit == Init => Inv
<1> SUFFICES ASSUME Init PROVE Inv
  OBVIOUS
<1>1. ChainOK
  BY RelayAssumption DEF Init, ChainInit, ChainOK, CloneStatus
<1>2. payment \in [Payments -> Payment] /\ work \in [Workers -> Work] /\ \A w \in Workers : work[w].pc = "idle"
  <2> HIDE DEF Rest, Unpaid, Work, Payment
  <2> QED
    BY RecordsAre DEF Init
<1>3. TypeOK
  BY <1>1, <1>2 DEF Init, TypeOK
<1>4. JobsKnown /\ PoolKnown
  BY <1>2 DEF Init, ChainInit, JobsKnown, Known, Forwarding, PoolKnown
<1> QED
  BY <1>3, <1>4 DEF Inv

LEMMA TypesNext == Inv /\ [Next]_vars => Inv'
<1> SUFFICES ASSUME Inv, [Next]_vars PROVE Inv'
  OBVIOUS
<1>1. CASE UNCHANGED vars
  BY <1>1, StillKeeps, ChainStill DEF vars, rowVars, lockVars, worldVars, Inv, TypeOK
<1> QED
  BY <1>1, StepTypes, OtherTypes, MineKeeps, AdminTypes, WorldTypes, MishapTypes DEF Next

LEMMA InvHolds == Spec => []Inv
  BY TypesInit, TypesNext, PTL DEF Spec

\* TypeOK: rows, locks, transactions, balances and workers keep their types; a worker never acts
\* for a payment it does not have, nor waits for two transactions.
THEOREM DepositTypes == Spec => []TypeOK
<1>1. Inv => TypeOK
  BY DEF Inv
<1> QED
  BY <1>1, InvHolds, PTL

-----------------------------------------------------------------------------
(* Completed payments and deals in progress stand for funded clones        *)

\* A worker past the funding has a funded clone, and no copy of a row is completed: a copy that
\* is saved never completes a payment by itself.
KnowsFunded(f) ==
  /\ f.copy.status # "completed"
  /\ f.pc = "finalize" => Funded(DealOf[f.job])
  /\ f.pc \in {"release", "save"} /\ f.result = "completed" => Funded(DealOf[f.job])

Truth == CompletedTruthful /\ \A w \in Workers : KnowsFunded(work[w])

FundedStays == \A d \in Deals : Funded(d) => Funded(d)'

LEMMA RestTruthful == Rest.copy.status # "completed" /\ Rest.pc = "idle"
  BY RecordsAre DEF Unpaid

LEMMA TruthInit == Init => Truth
  BY RestTruthful, RecordsAre DEF Init, Truth, CompletedTruthful, KnowsFunded, Unpaid

\* Only the chain and the parties change a clone.
LEMMA ClonesMove ==
  ASSUME Inv, [Next]_vars
  PROVE  MineNext \/ CloneNext \/ clone' = clone
<1> USE DEF chainVars
<1>1. ASSUME NEW w \in Workers, Step(w) PROVE clone' = clone
  BY <1>1 DEF Step, Look, Lock, SetNx, Forward, Transfer, Notify, Broadcast, Release, SaveResult,
     Finalize, MatchCredit, MatchMark, ExtendMined, ExtendSave
<1>2. CASE AdminNext
  BY <1>2 DEF AdminNext, MatchRead, ExtendRead, Ignore
<1>3. CASE WorldNext
  BY <1>3 DEF WorldNext, Arrive, PayClone, RateLapses, OtherCompletes, CancelDeal
<1>4. CASE MishapNext
  BY <1>4 DEF MishapNext, Crash, CallFails, AnswerLost, Abandon
<1> QED
  BY <1>1, <1>2, <1>3, <1>4 DEF Next, vars, Begin, LockExpires, Sweep, ScanRead, ScanRecord

LEMMA FundedIsForGood == ASSUME Inv, [Next]_vars PROVE FundedStays
<1>1. CASE MineNext
  <2> DEFINE tx == Head(mempool)
  <2>1. tx.deal \in Deals /\ tx.kind \in {"transfer", "notifyFunded"}
    BY <1>1, Mines DEF MineNext, Tx
  <2>2. clone' = clone \/ (Succeeds(tx) /\ Effect(tx))
    BY <1>1 DEF MineNext, Mine
  <2> HIDE DEF tx
  <2> QED
    BY <2>1, <2>2 DEF FundedStays, Funded, Effect, Inv, TypeOK, ChainOK
<1>2. CASE CloneNext
  BY <1>2, ClonesAre DEF FundedStays, Funded
<1>3. CASE clone' = clone
  BY <1>3 DEF FundedStays, Funded
<1> QED
  BY <1>1, <1>2, <1>3, ClonesMove

LEMMA TruthKept ==
  ASSUME Inv, Truth, FundedStays,
         \A v \in Workers : KnowsFunded(work[v])' \/ work'[v] = work[v],
         \A p \in Payments : payment'[p].status = "completed" =>
           payment[p].status = "completed" \/ Funded(DealOf[p]),
         \A d \in Deals : deal'[d] = "IN_PROGRESS" => deal[d] = "IN_PROGRESS" \/ Funded(d)
  PROVE  Truth'
<1>1. \A p \in Payments : DealOf[p] \in Deals
  BY DepositsAssumption
<1>2. CompletedTruthful'
  BY <1>1 DEF Truth, CompletedTruthful, FundedStays
<1>3. ASSUME NEW v \in Workers, work'[v] = work[v]
      PROVE  KnowsFunded(work[v])'
  <2>1. work[v].pc = "idle" \/ DealOf[work[v].job] \in Deals
    BY <1>1 DEF Inv, JobsKnown, Known
  <2> QED
    BY <1>3, <2>1 DEF Truth, KnowsFunded, FundedStays
<1> QED
  BY <1>2, <1>3 DEF Truth

\* A worker stops, or goes on with what it knows.
LEMMA RestKnows ==
  ASSUME NEW w \in Workers, work'[w] = Rest PROVE KnowsFunded(work[w])'
  BY RestTruthful DEF KnowsFunded

LEMMA GoesKnowing ==
  ASSUME Inv, Truth, FundedStays, NEW w \in Workers, Job(w) \in Payments, NEW pc, NEW result,
         Goes(w, pc, result),
         pc \in {"finalize", "release", "save"} =>
           (pc # "finalize" /\ result # "completed") \/ Funded(JobDeal(w)) \/ Funded(JobDeal(w))'
  PROVE  KnowsFunded(work[w])'
<1>1. DealOf[work[w].job] \in Deals /\ work'[w].job = work[w].job /\ work'[w].copy = work[w].copy
  BY DepositsAssumption DEF Goes, Job
<1>2. Funded(JobDeal(w)) \/ Funded(JobDeal(w))' => Funded(DealOf[work[w].job])'
  BY <1>1 DEF FundedStays, JobDeal, Job
<1> QED
  BY <1>1, <1>2 DEF Truth, KnowsFunded, Goes

LEMMA LookingKnows ==
  ASSUME Inv, NEW w \in Workers, NEW p \in Payments, Open(p), work'[w] = Looking(p)
  PROVE  KnowsFunded(work[w])'
  BY LookingIs DEF KnowsFunded, Open, Inv

\* Moves of a worker that write no row, and those that save or confirm.
LEMMA StepTruth ==
  ASSUME Inv, Truth, FundedStays, NEW w \in Workers, Step(w)
  PROVE  Truth'
<1>0. TypeOK
  BY DEF Inv
<1> USE DEF rowVars
<1>1. ASSUME UNCHANGED <<payment, deal>>, Moves(w), KnowsFunded(work[w])'
      PROVE  Truth'
  BY <1>1, TruthKept DEF Moves
<1>2. CASE Look(w)
  <2>1. At(w, "look") /\ Job(w) \in Payments
    BY <1>2, AtJob DEF Look
  <2>2. \/ isFundedOrLater(JobDeal(w)) /\ Return(w, "completed")
        \/ \E r \in {"expired", "received", "none"} : Return(w, r)
        \/ Goto(w, "notify") \/ Goto(w, "lock")
    BY <1>2 DEF Look
  <2>3. \/ Moves(w) /\ work'[w] = Rest
        \/ Funded(JobDeal(w)) /\ Goes(w, "save", "completed")
        \/ Goes(w, "save", "expired") \/ Goes(w, "save", "received")
        \/ Goes(w, "notify", work[w].result) \/ Goes(w, "lock", work[w].result)
    BY <1>0, <2>2, ReturnMoves, GotoGoes DEF Results, Pc, isFundedOrLater, Funded
  <2>4. Moves(w) /\ KnowsFunded(work[w])'
    BY <2>1, <2>3, RestKnows, GoesKnowing DEF Goes
  <2> QED
    BY <1>1, <1>2, <2>4 DEF Look
<1>3. CASE Lock(w) \/ SetNx(w)
  <2>1. PICK pc \in {"lock", "setnx"} : At(w, pc)
    BY <1>3 DEF Lock, SetNx
  <2>2. Job(w) \in Payments
    BY <2>1, AtJob
  <2>3. Return(w, "received") \/ Goto(w, "setnx") \/ Goto(w, "forward")
    BY <1>3 DEF Lock, SetNx
  <2>4. \/ Moves(w) /\ work'[w] = Rest
        \/ Goes(w, "save", "received")
        \/ Goes(w, "setnx", work[w].result) \/ Goes(w, "forward", work[w].result)
    BY <1>0, <2>3, ReturnMoves, GotoGoes DEF Results, Pc
  <2>5. Moves(w) /\ KnowsFunded(work[w])'
    BY <2>2, <2>4, RestKnows, GoesKnowing DEF Goes
  <2> QED
    BY <1>1, <1>3, <2>5 DEF Lock, SetNx
<1>4. CASE Forward(w)
  <2>1. At(w, "forward") /\ Job(w) \in Payments /\ JobDeal(w) \in Deals
    BY <1>4, AtJob DEF Forward
  <2>2. ~Direct(Job(w))
    BY <2>1 DEF Inv, JobsKnown, Known, Forwarding, At, Job
  <2>3. CASE \/ isFundedOrLater(JobDeal(w)) /\ Succeed(w)
             \/ Fail(w)
             \/ Goto(w, "notify")
    <3>1. \/ Moves(w) /\ work'[w] = Rest
          \/ Funded(JobDeal(w)) /\ Goes(w, "release", "completed")
          \/ Goes(w, "release", "received")
          \/ Goes(w, "notify", work[w].result)
      BY <1>0, <2>2, <2>3, FailMoves, SucceedGoes, GotoGoes DEF Pc, isFundedOrLater, Funded
    <3>2. Moves(w) /\ KnowsFunded(work[w])'
      BY <2>1, <3>1, RestKnows, GoesKnowing DEF Goes
    <3> QED
      BY <1>1, <1>4, <3>2 DEF Forward
  <2>4. CASE work' = [work EXCEPT ![w].pc = "transfer", ![w].amount = Shortfall(JobDeal(w))]
    <3>1. Shortfall(JobDeal(w)) \in Nat
      BY <2>1, RelayAssumption DEF Shortfall, Inv, TypeOK, ChainOK
    <3>2. Moves(w) /\ work'[w].pc = "transfer" /\ work'[w].copy = work[w].copy
      BY <1>0, <2>4, <3>1, AmountGoes
    <3>3. KnowsFunded(work[w])'
      BY <3>2 DEF Truth, KnowsFunded
    <3> QED
      BY <1>1, <1>4, <3>2, <3>3 DEF Forward
  <2> QED
    BY <1>4, <2>3, <2>4 DEF Forward
<1>5. CASE Transfer(w) \/ Notify(w)
  BY <1>5, TruthKept DEF Transfer, Notify
<1>6. CASE Release(w)
  <2>1. At(w, "release") /\ Job(w) \in Payments /\ Goes(w, "save", work[w].result)
    BY <1>0, <1>6, AtJob, GotoGoes DEF Release, Pc
  <2>2. work[w].result = "completed" => Funded(JobDeal(w))
    BY <2>1 DEF At, Truth, KnowsFunded, JobDeal, Job
  <2>3. Moves(w) /\ KnowsFunded(work[w])'
    BY <2>1, <2>2, GoesKnowing DEF Goes
  <2> QED
    BY <1>1, <1>6, <2>3 DEF Release
<1>7. CASE SaveResult(w)
  <2>1. At(w, "save") /\ Job(w) \in Payments /\ work[w].copy \in Payment
    BY <1>7, AtJob DEF SaveResult
  <2>2. work[w].result = "completed" => Funded(JobDeal(w))
    BY <2>1 DEF At, Truth, KnowsFunded, JobDeal, Job
  <2>3. (Moves(w) /\ work'[w] = Rest)
        \/ (work[w].result = "completed" /\ Goes(w, "finalize", work[w].result))
    BY <1>0, <1>7, FinishMoves, GotoGoes DEF SaveResult, Pc
  <2>4. Moves(w) /\ KnowsFunded(work[w])'
    BY <2>1, <2>2, <2>3, RestKnows, GoesKnowing DEF Goes
  <2>5. work[w].result \in Results
    BY <2>1 DEF Inv, TypeOK, Work, JobsKnown, Known, At, Results
  <2>6. NewStatus[work[w].result] = "completed" => work[w].result = "completed"
    BY <2>5 DEF NewStatus, Results
  <2>7. \A p \in Payments : payment'[p].status = "completed" =>
          payment[p].status = "completed" \/ Funded(DealOf[p])
    <3>1. payment' = [payment EXCEPT ![Job(w)] =
                        [work[w].copy EXCEPT !.status = NewStatus[work[w].result]]]
      BY <1>7 DEF SaveResult, SavePayment
    <3>2. [work[w].copy EXCEPT !.status = NewStatus[work[w].result]].status = NewStatus[work[w].result]
      BY <2>1 DEF Payment
    <3> QED
      BY <2>1, <2>2, <2>6, <3>1, <3>2 DEF Inv, TypeOK, JobDeal
  <2> QED
    BY <1>7, <2>4, <2>7, TruthKept DEF SaveResult, Moves
<1>8. CASE Finalize(w)
  <2>1. At(w, "finalize") /\ Moves(w) /\ work'[w] = Rest
    BY <1>0, <1>8, FinishMoves DEF Finalize
  <2>2. Funded(JobDeal(w))
    BY <2>1 DEF At, Truth, KnowsFunded, JobDeal, Job
  <2>3. \A d \in Deals : deal'[d] = "IN_PROGRESS" => deal[d] = "IN_PROGRESS" \/ Funded(d)
    BY <1>8, <2>2 DEF Finalize, Confirm, Inv, TypeOK
  <2> QED
    BY <1>8, <2>1, <2>3, RestKnows, TruthKept DEF Finalize, Moves
<1>9. CASE MatchCredit(w) \/ ExtendSave(w)
  <2> DEFINE credited == [work[w].copy EXCEPT !.credited[work[w].deposit] = @ + 1]
             extended == [work[w].copy EXCEPT !.status = IF @ = "expired" THEN "pending" ELSE @,
                            !.rate = IF work[w].renew THEN lapsed[Job(w)] ELSE @]
  <2>1. PICK pc \in {"credit", "extended"} : At(w, pc)
    BY <1>9 DEF MatchCredit, ExtendSave
  <2>2. /\ Job(w) \in Payments /\ work[w].copy \in Payment
        /\ work[w].copy.status # "completed"
    BY <2>1, AtJob DEF Truth, KnowsFunded
  <2>3. credited.status # "completed" /\ extended.status # "completed"
    BY <2>2 DEF Payment
  <2>4. payment' = [payment EXCEPT ![Job(w)] = credited] \/ payment' = [payment EXCEPT ![Job(w)] = extended]
    BY <1>9 DEF MatchCredit, ExtendSave, SavePayment
  <2> HIDE DEF credited, extended
  <2>5. \A p \in Payments : payment'[p].status = "completed" => payment[p].status = "completed"
    BY <2>2, <2>3, <2>4 DEF Inv, TypeOK
  <2>6. Goes(w, "mark", work[w].result) \/ (Moves(w) /\ work'[w] = Rest)
    BY <1>0, <1>9, GotoGoes, FinishMoves DEF MatchCredit, ExtendSave, Pc
  <2>7. Moves(w) /\ KnowsFunded(work[w])'
    BY <2>2, <2>6, RestKnows, GoesKnowing DEF Goes
  <2> QED
    BY <1>9, <2>5, <2>7, TruthKept DEF MatchCredit, ExtendSave, Moves
<1>10. CASE MatchMark(w)
  <2>1. At(w, "mark") /\ Job(w) \in Payments /\ Start(w, Job(w))
    BY <1>10, AtJob DEF MatchMark
  <2>2. Moves(w) /\ KnowsFunded(work[w])'
    BY <1>0, <2>1, StartMoves, RestKnows, LookingKnows
  <2> QED
    BY <1>1, <1>10, <2>2 DEF MatchMark
<1>11. CASE ExtendMined(w)
  <2>1. At(w, "extend") /\ Job(w) \in Payments
    BY <1>11, AtJob DEF ExtendMined
  <2>2. (Moves(w) /\ work'[w] = Rest) \/ Goes(w, "extended", work[w].result)
    BY <1>0, <1>11, FinishMoves, GotoGoes DEF ExtendMined, Pc
  <2>3. Moves(w) /\ KnowsFunded(work[w])'
    BY <2>1, <2>2, RestKnows, GoesKnowing DEF Goes
  <2> QED
    BY <1>1, <1>11, <2>3 DEF ExtendMined
<1> QED
  BY <1>2, <1>3, <1>4, <1>5, <1>6, <1>7, <1>8, <1>9, <1>10, <1>11 DEF Step

\* The receipt of notifyFunded is the only way to a funding that the worker has not seen.
LEMMA MineTruth == ASSUME Inv, Truth, FundedStays, MineNext PROVE Truth'
<1> DEFINE tx == Head(mempool)
<1>1. tx \in Tx /\ tx.deal \in Deals
  BY Mines DEF MineNext, Tx
<1>2. UNCHANGED <<payment, deal>>
  BY DEF MineNext, rowVars
<1>3. CASE tx.worker = NoOne
  BY <1>2, <1>3, TruthKept DEF MineNext
<1>4. ASSUME NEW w \in Workers, tx.worker = w
      PROVE  Truth'
  <2>1. /\ Job(w) \in Payments /\ JobDeal(w) = tx.deal
        /\ \/ Moves(w) /\ work'[w] = Rest
           \/ Goes(w, "release", "received")
           \/ Goes(w, "notify", work[w].result)
           \/ /\ Succeeds(tx) /\ tx.kind = "notifyFunded"
              /\ Goes(w, IF Direct(Job(w)) THEN "save" ELSE "release", "completed")
    BY <1>4, MineMoves
  <2>2. Succeeds(tx) /\ tx.kind = "notifyFunded" => clone'[tx.deal] = "FUNDED"
    <3> SUFFICES ASSUME Succeeds(tx), tx.kind = "notifyFunded" PROVE clone'[tx.deal] = "FUNDED"
      OBVIOUS
    <3>1. Effect(tx)
      BY DEF MineNext, Mine
    <3> QED
      BY <1>1, <3>1 DEF Effect, Inv, TypeOK, ChainOK
  <2> HIDE DEF tx
  <2>3. Moves(w) /\ KnowsFunded(work[w])'
    <3>1. CASE /\ Succeeds(tx) /\ tx.kind = "notifyFunded"
               /\ Goes(w, IF Direct(Job(w)) THEN "save" ELSE "release", "completed")
      <4>1. clone'[DealOf[work'[w].job]] = "FUNDED" /\ work'[w].copy = work[w].copy
        BY <2>1, <2>2, <3>1 DEF Goes, JobDeal, Job
      <4> QED
        BY <3>1, <4>1 DEF KnowsFunded, Funded, Truth, Goes
    <3>2. CASE Goes(w, "release", "received") \/ Goes(w, "notify", work[w].result)
      BY <2>1, <3>2, GoesKnowing DEF Goes
    <3> QED
      BY <2>1, <3>1, <3>2, RestKnows
  <2> QED
    BY <1>2, <2>3, TruthKept DEF Moves
<1> QED
  BY <1>1, <1>3, <1>4 DEF Tx

LEMMA OtherTruth ==
  ASSUME Inv, Truth, FundedStays,
         \/ \E w \in Workers, p \in Payments : Begin(w, p)
         \/ \E d \in Deals : LockExpires(d)
         \/ \E p \in Payments : Sweep(p)
         \/ ScanRead \/ \E t \in Transfers : ScanRecord(t)
         \/ AdminNext \/ WorldNext
  PROVE  Truth'
<1> USE DEF rowVars
<1>0. TypeOK
  BY DEF Inv
<1>1. ASSUME NEW w \in Workers, NEW p \in Payments, Begin(w, p) PROVE Truth'
  <2>1. Moves(w) /\ KnowsFunded(work[w])'
    BY <1>0, <1>1, StartMoves, RestKnows, LookingKnows DEF Begin
  <2> QED
    BY <1>1, <2>1, TruthKept DEF Begin, Moves
<1>2. ASSUME NEW p \in Payments, Sweep(p) PROVE Truth'
  <2>1. \A d \in Deals : deal'[d] = "IN_PROGRESS" => deal[d] = "IN_PROGRESS" \/ Funded(d)
    BY <1>2 DEF Sweep, Confirm, isFundedOrLater, Funded, Inv, TypeOK
  <2> QED
    BY <1>2, <2>1, TruthKept DEF Sweep
<1>3. ASSUME NEW a \in Admins, NEW p \in Payments, ExtendRead(a, p) \/ \E t \in Transfers : MatchRead(a, t, p)
      PROVE  Truth'
  <2>1. /\ Moves(a) /\ work'[a].pc \in {"extend", "credit"} /\ work'[a].copy = payment[p]
        /\ payment[p].status # "completed"
    <3>1. CASE ExtendRead(a, p)
      BY <3>1, ExtendReads DEF ExtendRead
    <3>2. ASSUME NEW t \in Transfers, MatchRead(a, t, p)
          PROVE  payment[p].status # "completed"
      BY <3>2 DEF MatchRead, Open
    <3>3. CASE \E t \in Transfers : MatchRead(a, t, p)
      BY <3>2, <3>3, MatchReads
    <3> QED
      BY <1>3, <3>1, <3>3
  <2>2. KnowsFunded(work[a])'
    BY <2>1 DEF KnowsFunded
  <2>3. UNCHANGED <<payment, deal>>
    BY <1>3 DEF ExtendRead, MatchRead
  <2>4. \A v \in Workers : work'[v] = work[v] \/ KnowsFunded(work[v])'
    BY <2>1, <2>2 DEF Moves
  <2> QED
    BY <2>3, <2>4, TruthKept
<1>4. CASE \/ \E d \in Deals : LockExpires(d)
           \/ ScanRead \/ \E t \in Transfers : ScanRecord(t) \/ Ignore(t)
  BY <1>4, TruthKept DEF LockExpires, ScanRead, ScanRecord, Ignore
<1>5. CASE WorldNext
  <2>1. payment' = payment /\ work' = work
    BY <1>5 DEF WorldNext, Arrive, PayClone, RateLapses, OtherCompletes, CancelDeal
  <2>2. \A d \in Deals : deal'[d] = "IN_PROGRESS" => deal[d] = "IN_PROGRESS"
    BY <1>0, <1>5 DEF WorldNext, Arrive, PayClone, RateLapses, OtherCompletes, CancelDeal, TypeOK
  <2> QED
    BY <2>1, <2>2, TruthKept
<1> QED
  BY <1>1, <1>2, <1>3, <1>4, <1>5 DEF AdminNext

LEMMA MishapTruth == ASSUME Inv, Truth, FundedStays, MishapNext PROVE Truth'
<1> USE DEF rowVars
<1>1. ASSUME NEW r \in Replicas, Crash(r) PROVE Truth'
  <2>1. \A v \in Workers : work'[v] = Rest \/ work'[v] = work[v]
    BY <1>1, CrashIs
  <2> QED
    BY <1>1, <2>1, RestKnows, TruthKept DEF Crash
<1>2. ASSUME NEW w \in Workers, CallFails(w) \/ AnswerLost(w) PROVE Truth'
  <2>1. Moves(w) /\ KnowsFunded(work[w])'
    BY <1>2, GivesUp, RestKnows, GoesKnowing DEF Goes
  <2> QED
    BY <1>2, <2>1, TruthKept DEF CallFails, AnswerLost, Moves
<1> QED
  BY <1>1, <1>2 DEF MishapNext

LEMMA TruthNext == Inv /\ Truth /\ [Next]_vars => Truth'
<1> SUFFICES ASSUME Inv, Truth, [Next]_vars PROVE Truth'
  OBVIOUS
<1>1. FundedStays
  BY FundedIsForGood
<1>2. CASE UNCHANGED vars
  BY <1>1, <1>2, TruthKept DEF vars, rowVars
<1> QED
  BY <1>1, <1>2, StepTruth, MineTruth, OtherTruth, MishapTruth DEF Next

\* CompletedTruthful: whatever is saved from an old copy, retried or extended, a payment is
\* completed and its deal in progress only when the clone has been funded.
THEOREM CompletedIsTruthful == Spec => []CompletedTruthful
<1>1. Truth => CompletedTruthful
  BY DEF Truth
<1> QED
  BY <1>1, InvHolds, TruthInit, TruthNext, PTL DEF Spec

-----------------------------------------------------------------------------
(* The float pays a deposit once                                           *)

\* None of the mishaps that break a lock has happened.
Spared(M) == \A m \in M \cap Mishaps : mishaps[m] = 0

Safe == Spared({"stall", "outage", "lost"})

\* The lock is held by one worker, whose key is in Redis.
LocksHeld ==
  /\ \A w \in Workers, d \in Deals : Holds(w, d) => d \in keys
  /\ \A v, w \in Workers, d \in Deals : Holds(v, d) /\ Holds(w, d) => v = w

\* As long as the transfer of a worker that has died is pending, the key it has left stays, and
\* nobody gets the lock.
OrphanOK(tx) ==
  tx.kind = "transfer" /\ tx.worker = NoOne =>
    tx.deal \in keys /\ \A w \in Workers : ~Holds(w, tx.deal)

\* ... so a deal has one pending transfer at most.
PoolOK ==
  /\ \A i \in DOMAIN mempool : OrphanOK(mempool[i])
  /\ \A i, j \in DOMAIN mempool :
       /\ mempool[i].kind = "transfer" /\ mempool[j].kind = "transfer"
       /\ mempool[i].deal = mempool[j].deal
       => i = j

\* With what is about to be sent, a clone that is not closed has got its deposit at most.
Fits(d, amount) == clone[d] \notin Void => sent[d] + amount <= Deposit[d]

MoneyOK ==
  /\ \A d \in Deals : held[d] >= sent[d]
  /\ \A d \in Deals : Fits(d, 0)
  /\ \A w \in Workers : work[w].pc = "transfer" => Fits(JobDeal(w), work[w].amount)
  /\ \A i \in DOMAIN mempool : mempool[i].kind = "transfer" => Fits(mempool[i].deal, mempool[i].amount)

Once == LocksHeld /\ PoolOK /\ MoneyOK

\* A mishap that has happened cannot be undone.
LEMMA MishapsAreKept ==
  ASSUME Inv, [Next]_vars
  PROVE  \A m \in Mishaps : mishaps'[m] # 0 \/ mishaps[m] = 0
<1>1. ASSUME NEW m, Befalls(m) PROVE \A x \in Mishaps : mishaps'[x] # 0 \/ mishaps[x] = 0
  <2>1. mishaps' = [mishaps EXCEPT ![m] = @ + 1] /\ mishaps \in [Mishaps -> Nat]
    BY <1>1 DEF Befalls, Inv, TypeOK
  <2> QED
    BY <2>1
<1>2. (\E m : Befalls(m)) \/ mishaps' = mishaps
  <2>1. ASSUME NEW w \in Workers, Step(w) PROVE (\E m : Befalls(m)) \/ mishaps' = mishaps
    BY <2>1 DEF Step, Look, Lock, SetNx, Forward, Transfer, Notify, Release, SaveResult,
       Finalize, MatchCredit, MatchMark, ExtendMined, ExtendSave
  <2>2. CASE AdminNext \/ WorldNext \/ MishapNext
    BY <2>2 DEF AdminNext, MatchRead, ExtendRead, Ignore, WorldNext, Arrive, PayClone, RateLapses,
       OtherCompletes, CancelDeal, MishapNext, Crash, CallFails, AnswerLost
  <2> QED
    BY <2>1, <2>2 DEF Next, vars, MineNext, Begin, LockExpires, Sweep, ScanRead, ScanRecord
<1> QED
  BY <1>1, <1>2

LEMMA SparedStays == ASSUME Inv, [Next]_vars, NEW M, Spared(M)' PROVE Spared(M)
  BY MishapsAreKept DEF Spared

LEMMA NotBefallen == ASSUME Inv, NEW M, NEW m \in M, Befalls(m), Spared(M)' PROVE FALSE
<1>1. mishaps' = [mishaps EXCEPT ![m] = @ + 1] /\ m \in Mishaps /\ mishaps \in [Mishaps -> Nat]
  BY DEF Befalls, Inv, TypeOK
<1> QED
  BY <1>1 DEF Spared

\* A worker that forwards has the lock; who waits for a transfer does.
LEMMA ForwardersHold ==
  ASSUME Inv, NEW w \in Workers, work[w].pc \in {"forward", "transfer", "release"}
  PROVE  Holds(w, JobDeal(w)) /\ JobDeal(w) \in Deals
  BY DepositsAssumption DEF Inv, JobsKnown, Known, Forwarding, Holds, Job, JobDeal

LEMMA WaitersHold ==
  ASSUME Inv, NEW i \in DOMAIN mempool, mempool[i].kind = "transfer", mempool[i].worker # NoOne
  PROVE  /\ mempool[i].worker \in Workers /\ work[mempool[i].worker].pc = "transfer"
         /\ Holds(mempool[i].worker, mempool[i].deal)
<1>1. mempool[i].worker \in Workers /\ WaiterKnown(mempool[i])
  BY PoolIs DEF Inv, PoolKnown
<1> QED
  BY <1>1, ForwardersHold DEF WaiterKnown, Place

LEMMA HoldsFramed ==
  ASSUME NEW v, work'[v] = work[v], method' = method
  PROVE  \A d : Holds(v, d)' <=> Holds(v, d)
  BY DEF Holds, Job, JobDeal, Direct

LEMMA HoldsOn ==
  ASSUME Inv, NEW w \in Workers, method' = method,
         \/ Moves(w) /\ work'[w] = Rest
         \/ \E pc, result : /\ Goes(w, pc, result)
                            /\ \/ pc \notin {"forward", "transfer", "notify", "release"}
                               \/ work[w].pc \in {"forward", "transfer", "notify"}
                               \/ Direct(Job(w))
  PROVE  \A d : Holds(w, d)' => Holds(w, d)
  BY RecordsAre DEF Holds, Job, JobDeal, Direct, Goes

\* Nobody takes a lock, and no key is deleted that somebody needs.
LEMMA LocksKept ==
  ASSUME LocksHeld, \A v \in Workers, d \in Deals : Holds(v, d)' => Holds(v, d),
         \A v \in Workers, d \in Deals : Holds(v, d)' => d \in keys \/ d \in keys',
         \A v \in Workers, d \in Deals : Holds(v, d)' /\ d \in keys => d \in keys'
  PROVE  LocksHeld'
  BY DEF LocksHeld

LEMMA PoolKept ==
  ASSUME Inv, PoolOK, mempool' = mempool,
         \A v \in Workers, d \in Deals : Holds(v, d)' => Holds(v, d),
         \A i \in DOMAIN mempool : OrphanOK(mempool[i]) /\ mempool[i].kind = "transfer" /\ mempool[i].worker = NoOne
           => mempool[i].deal \in keys'
  PROVE  PoolOK'
<1>1. \A i \in DOMAIN mempool : mempool[i].deal \in Deals
  BY PoolIs DEF Inv
<1> QED
  BY <1>1 DEF PoolOK, OrphanOK

\* No money moves from the wallet.
LEMMA MoneyKept ==
  ASSUME Inv, MoneyOK, sent' = sent, mempool' = mempool,
         \A d \in Deals : held'[d] \in Nat /\ held'[d] >= held[d],
         \A d \in Deals : clone'[d] \notin Void => clone[d] \notin Void,
         \A v \in Workers : work'[v].pc = "transfer" =>
           /\ work[v].pc = "transfer" \/ Fits(DealOf[work'[v].job], work'[v].amount)
           /\ work[v].pc = "transfer" => work'[v].job = work[v].job /\ work'[v].amount = work[v].amount
           /\ DealOf[work'[v].job] \in Deals
  PROVE  MoneyOK'
<1>1. \A d \in Deals : held[d] \in Nat /\ sent[d] \in Nat
  BY DEF Inv, TypeOK, ChainOK
<1>2. \A i \in DOMAIN mempool : mempool[i].deal \in Deals
  BY PoolIs DEF Inv
<1>3. \A d \in Deals : \A a : Fits(d, a) => Fits(d, a)'
  BY DEF Fits
<1>4. \A d \in Deals : held'[d] >= sent'[d]
  BY <1>1 DEF MoneyOK
<1>5. \A d \in Deals : Fits(d, 0)'
  BY <1>3 DEF MoneyOK
<1>6. \A v \in Workers : work'[v].pc = "transfer" => Fits(DealOf[work'[v].job], work'[v].amount)
  BY DEF MoneyOK, JobDeal, Job
<1>7. \A v \in Workers : work'[v].pc = "transfer" => (Fits(JobDeal(v), work[v].amount))'
  BY <1>6 DEF Fits, JobDeal, Job
<1>8. \A i \in DOMAIN mempool : mempool[i].kind = "transfer" => Fits(mempool[i].deal, mempool[i].amount)'
  BY <1>2, <1>3 DEF MoneyOK, Fits
<1> QED
  BY <1>4, <1>5, <1>7, <1>8 DEF MoneyOK

\* A worker that neither takes the lock nor has anything mined.
LEMMA QuietMove ==
  ASSUME Inv, Once, NEW w \in Workers, Moves(w), UNCHANGED <<keys, method, clone, held, sent, mempool>>,
         \A d : Holds(w, d)' => Holds(w, d),
         work'[w].pc = "transfer" =>
           /\ work[w].pc # "transfer" /\ DealOf[work'[w].job] \in Deals
           /\ Fits(DealOf[work'[w].job], work'[w].amount)
  PROVE  Once'
<1>1. \A v \in Workers, d \in Deals : Holds(v, d)' => Holds(v, d)
  BY HoldsFramed DEF Moves
<1>2. LocksHeld' /\ PoolOK'
  BY <1>1, LocksKept, PoolKept DEF Once, LocksHeld, OrphanOK
<1>3. \A d \in Deals : held'[d] \in Nat /\ held'[d] >= held[d]
  BY DEF Inv, TypeOK, ChainOK
<1>4. \A v \in Workers : work[v].pc = "transfer" => DealOf[work[v].job] \in Deals
  BY ForwardersHold DEF JobDeal, Job
<1>5. MoneyOK'
  BY <1>3, <1>4, MoneyKept DEF Once, Moves
<1> QED
  BY <1>2, <1>5 DEF Once

\* Nobody moves; a clone is closed, or somebody pays it.
LEMMA QuietWorld ==
  ASSUME Inv, Once, UNCHANGED <<keys, method, sent, mempool, work>>,
         \A d \in Deals : held'[d] \in Nat /\ held'[d] >= held[d],
         \A d \in Deals : clone'[d] \notin Void => clone[d] \notin Void
  PROVE  Once'
<1>1. \A v \in Workers, d \in Deals : Holds(v, d)' => Holds(v, d)
  BY HoldsFramed
<1>2. LocksHeld' /\ PoolOK'
  BY <1>1, LocksKept, PoolKept DEF Once, LocksHeld, OrphanOK
<1>3. \A v \in Workers : work[v].pc = "transfer" => DealOf[work[v].job] \in Deals
  BY ForwardersHold DEF JobDeal, Job
<1>4. MoneyOK'
  BY <1>3, MoneyKept DEF Once
<1> QED
  BY <1>2, <1>4 DEF Once

\* Somebody takes the lock: the key was free, so nobody had it and no transfer was left behind.
LEMMA TakeOnce ==
  ASSUME Inv, Once, NEW w \in Workers, SetNx(w), Goto(w, "forward"),
         JobDeal(w) \notin keys, keys' = keys \cup {JobDeal(w)}
  PROVE  Once'
<1> DEFINE d == JobDeal(w)
<1>1. Goes(w, "forward", work[w].result) /\ d \in Deals
  BY GotoGoes, AtJob DEF Inv, SetNx, Pc
<1>2. UNCHANGED <<method, clone, held, sent, mempool>>
  BY DEF SetNx, chainVars, rowVars
<1>3. \A v \in Workers, e \in Deals : Holds(v, e)' => Holds(v, e) \/ (v = w /\ e = d)
  <2>1. \A v \in Workers : v # w => work'[v] = work[v]
    BY <1>1 DEF Goes, Moves
  <2>2. \A e : Holds(w, e)' => e = d
    BY <1>1 DEF Goes, Holds, Job, JobDeal
  <2> HIDE DEF d
  <2> QED
    BY <1>2, <2>1, <2>2, HoldsFramed
<1>4. \A v \in Workers : ~Holds(v, d)
  BY <1>1 DEF Once, LocksHeld
<1>5. \A i \in DOMAIN mempool : mempool[i].deal \in Deals
  BY PoolIs DEF Inv
<1>6. MoneyOK'
  <2>1. \A e \in Deals : held'[e] \in Nat /\ held'[e] >= held[e]
    BY <1>2 DEF Inv, TypeOK, ChainOK
  <2>2. \A v \in Workers : work[v].pc = "transfer" => DealOf[work[v].job] \in Deals
    BY ForwardersHold DEF JobDeal, Job
  <2> QED
    BY <1>1, <1>2, <2>1, <2>2, MoneyKept DEF Once, Goes, Moves
<1> HIDE DEF d
<1>7. keys' = keys \cup {d}
  BY DEF d
<1>8. LocksHeld'
  BY <1>3, <1>4, <1>7 DEF Once, LocksHeld
<1>9. PoolOK'
  <2>1. ASSUME NEW i \in DOMAIN mempool PROVE OrphanOK(mempool[i])'
    <3>1. OrphanOK(mempool[i])
      BY DEF Once, PoolOK
    <3>2. CASE mempool[i].deal = d
      <4>1. d \notin keys
        BY DEF d
      <4> QED
        BY <1>2, <3>1, <3>2, <4>1 DEF OrphanOK
    <3>3. CASE mempool[i].deal # d
      BY <1>2, <1>3, <1>5, <1>7, <3>1, <3>3 DEF OrphanOK
    <3> QED
      BY <3>2, <3>3
  <2> QED
    BY <1>2, <2>1 DEF Once, PoolOK
<1> QED
  BY <1>6, <1>8, <1>9 DEF Once

\* The lock is given back by the only one who has it.
LEMMA ReleaseOnce ==
  ASSUME Inv, Once, NEW w \in Workers, Release(w)
  PROVE  Once'
<1> DEFINE d == JobDeal(w)
<1>1. At(w, "release") /\ Goes(w, "save", work[w].result) /\ Holds(w, d) /\ d \in Deals
  BY GotoGoes, ForwardersHold DEF Inv, Release, Pc, At
<1>2. UNCHANGED <<method, clone, held, sent, mempool>> /\ (keys' = keys \/ keys' = keys \ {d})
  BY DEF Release, chainVars, rowVars
<1>3. \A e : ~Holds(w, e)'
  BY <1>1 DEF Goes, Holds
<1>4. \A v \in Workers, e \in Deals : Holds(v, e)' => Holds(v, e) /\ v # w
  BY <1>1, <1>2, <1>3, HoldsFramed DEF Goes, Moves
<1> HIDE DEF d
<1>5. \A v \in Workers, e \in Deals : Holds(v, e)' => e # d
  BY <1>1, <1>4 DEF Once, LocksHeld
<1>6. LocksHeld'
  BY <1>2, <1>4, <1>5 DEF Once, LocksHeld
<1>7. \A i \in DOMAIN mempool :
        mempool[i].kind = "transfer" /\ mempool[i].worker = NoOne => mempool[i].deal # d
  BY <1>1 DEF Once, PoolOK, OrphanOK
<1>8. PoolOK'
  BY <1>2, <1>4, <1>7, PoolKept DEF Once, OrphanOK
<1>9. MoneyOK'
  <2>1. \A e \in Deals : held'[e] \in Nat /\ held'[e] >= held[e]
    BY <1>2 DEF Inv, TypeOK, ChainOK
  <2>2. \A v \in Workers : work[v].pc = "transfer" => DealOf[work[v].job] \in Deals
    BY ForwardersHold DEF JobDeal, Job
  <2> QED
    BY <1>1, <1>2, <2>1, <2>2, MoneyKept DEF Once, Goes, Moves
<1> QED
  BY <1>6, <1>8, <1>9 DEF Once

\* A transfer is broadcast under the lock: no other transfer of the deal is pending, neither a
\* holder's nor one that a worker that has died has left.
LEMMA BroadcastOnce ==
  ASSUME Inv, Once, NEW w \in Workers, Transfer(w) \/ Notify(w)
  PROVE  Once'
<1> DEFINE d == JobDeal(w)
<1>1. PICK kind \in DOMAIN Place, amount \in Nat :
        /\ At(w, Place[kind]) /\ Broadcast(w, kind, d, amount)
        /\ kind = "transfer" => amount = work[w].amount
  <2>1. work[w].amount \in Nat
    BY DEF Inv, TypeOK, Work
  <2> QED
    BY <2>1 DEF Transfer, Notify, Place
<1> DEFINE tx == [kind |-> kind, deal |-> d, amount |-> amount, worker |-> w]
<1>2. /\ \A i \in DOMAIN mempool' : \/ i \in DOMAIN mempool /\ mempool'[i] = mempool[i]
                                    \/ i = Len(mempool) + 1 /\ mempool'[i] = tx
      /\ \A i \in DOMAIN mempool : mempool[i].worker # w /\ i # Len(mempool) + 1
      /\ UNCHANGED <<clone, late, held, float, sent>>
  BY <1>1, Broadcasts
<1>3. UNCHANGED <<work, keys, method>>
  BY DEF Transfer, Notify, rowVars, lockVars
<1>4. d \in Deals /\ w # NoOne
  BY <1>1, AtJob, RelayAssumption DEF Place
<1>5. /\ tx.kind = kind /\ tx.deal = d /\ tx.worker = w /\ tx.amount = amount
      /\ kind = "transfer" => Holds(w, d) /\ work[w].pc = "transfer"
  BY <1>1, ForwardersHold DEF Place, At
<1> HIDE DEF tx
<1>6. \A v \in Workers : \A e : Holds(v, e)' <=> Holds(v, e)
  BY <1>3, HoldsFramed
<1>7. LocksHeld'
  BY <1>3, <1>6 DEF Once, LocksHeld
<1>8. ASSUME kind = "transfer", NEW i \in DOMAIN mempool, mempool[i].kind = "transfer",
             mempool[i].deal = d
      PROVE  FALSE
  <2>1. CASE mempool[i].worker = NoOne
    BY <1>5, <1>8, <2>1 DEF Once, PoolOK, OrphanOK
  <2>2. CASE mempool[i].worker # NoOne
    <3>1. mempool[i].worker \in Workers /\ Holds(mempool[i].worker, d)
      BY <1>8, <2>2, WaitersHold
    <3> QED
      BY <1>2, <1>4, <1>5, <1>8, <3>1 DEF Once, LocksHeld
  <2> QED
    BY <2>1, <2>2
<1>9. PoolOK'
  <2>1. ASSUME NEW i \in DOMAIN mempool' PROVE OrphanOK(mempool[i])'
    <3>1. CASE i \in DOMAIN mempool /\ mempool'[i] = mempool[i]
      <4>1. OrphanOK(mempool[i]) /\ mempool[i].deal \in Deals
        BY <3>1, PoolIs DEF Once, PoolOK, Inv
      <4> QED
        BY <1>3, <1>6, <3>1, <4>1 DEF OrphanOK
    <3>2. CASE mempool'[i] = tx
      BY <1>4, <1>5, <3>2 DEF OrphanOK
    <3> QED
      BY <1>2, <2>1, <3>1, <3>2
  <2>2. ASSUME NEW i \in DOMAIN mempool', NEW j \in DOMAIN mempool',
               mempool'[i].kind = "transfer", mempool'[j].kind = "transfer",
               mempool'[i].deal = mempool'[j].deal
        PROVE  i = j
    BY <1>2, <1>5, <1>8, <2>2 DEF Once, PoolOK
  <2> QED
    BY <2>1, <2>2 DEF PoolOK
<1>10. MoneyOK'
  <2>1. \A e : \A a : Fits(e, a)' <=> Fits(e, a)
    BY <1>2 DEF Fits
  <2>2. kind = "transfer" => Fits(d, amount)
    BY <1>1, <1>5 DEF Once, MoneyOK
  <2>3. ASSUME NEW i \in DOMAIN mempool', mempool'[i].kind = "transfer"
        PROVE  Fits(mempool'[i].deal, mempool'[i].amount)
    BY <1>2, <1>5, <2>2, <2>3 DEF Once, MoneyOK
  <2>4. ASSUME NEW i \in DOMAIN mempool', mempool'[i].kind = "transfer"
        PROVE  Fits(mempool[i].deal, mempool[i].amount)'
    BY <1>2, <2>3, <2>4 DEF Fits
  <2>5. ASSUME NEW v \in Workers, work'[v].pc = "transfer"
        PROVE  Fits(JobDeal(v), work[v].amount)'
    <3>1. Fits(JobDeal(v), work[v].amount)
      BY <1>3, <2>5 DEF Once, MoneyOK
    <3> QED
      BY <1>2, <1>3, <3>1 DEF Fits, JobDeal, Job
  <2> QED
    BY <1>2, <2>1, <2>4, <2>5 DEF Once, MoneyOK
<1> QED
  BY <1>7, <1>9, <1>10 DEF Once

\* A transfer is mined: it was the only one that was pending for its deal, and its worker, who
\* has the lock or has died, the only one who could send another.
LEMMA MineOnce == ASSUME Inv, Once, MineNext PROVE Once'
<1> DEFINE tx == Head(mempool)
           d == tx.deal
<1>1. /\ tx \in Tx /\ tx = mempool[1] /\ 1 \in DOMAIN mempool
      /\ \A i \in DOMAIN mempool' :
           i + 1 \in DOMAIN mempool /\ i + 1 # 1 /\ mempool'[i] = mempool[i + 1] /\ i \in Nat
  BY Mines DEF MineNext
<1>2. /\ tx.deal \in Deals /\ tx.amount \in Nat /\ tx.worker \in Workers \cup {NoOne}
      /\ tx.kind \in {"transfer", "notifyFunded"}
  BY <1>1, Mines DEF Tx, MineNext
<1>3. UNCHANGED <<keys, method>>
  BY DEF MineNext, rowVars, lockVars
<1>4. /\ \A v \in Workers : v # tx.worker => work'[v] = work[v]
      /\ \A w \in Workers : w = tx.worker => \A e : Holds(w, e)' => Holds(w, e)
      /\ \A w \in Workers : w = tx.worker => work'[w].pc # "transfer"
  <2>1. CASE tx.worker = NoOne
    BY <2>1, RelayAssumption DEF MineNext
  <2>2. ASSUME NEW w \in Workers, tx.worker = w
        PROVE  /\ \A v \in Workers : v # w => work'[v] = work[v]
               /\ \A e : Holds(w, e)' => Holds(w, e)
               /\ work'[w].pc # "transfer"
    <3>1. /\ work[w].pc \in {"transfer", "notify"}
          /\ \/ Moves(w) /\ work'[w] = Rest
             \/ Goes(w, "release", "received")
             \/ Goes(w, "notify", work[w].result)
             \/ Goes(w, "release", "completed")
             \/ Goes(w, "save", "completed")
      BY <1>2, <2>2, MineMoves DEF Place
    <3>2. \A e : Holds(w, e)' => Holds(w, e)
      BY <1>3, <3>1, HoldsOn
    <3>3. Moves(w) /\ work'[w].pc # "transfer"
      BY <3>1, RecordsAre DEF Goes
    <3> QED
      BY <3>2, <3>3 DEF Moves
  <2> QED
    BY <1>2, <2>1, <2>2
<1>5. \A v \in Workers, e \in Deals : Holds(v, e)' => Holds(v, e)
  BY <1>3, <1>4, HoldsFramed, RelayAssumption
<1>6. LocksHeld'
  BY <1>3, <1>5, LocksKept DEF Once, LocksHeld
<1>7. PoolOK'
  <2>1. ASSUME NEW i \in DOMAIN mempool' PROVE OrphanOK(mempool[i])'
    <3>1. OrphanOK(mempool[i + 1]) /\ mempool[i + 1].deal \in Deals /\ mempool'[i] = mempool[i + 1]
      BY <1>1, PoolIs DEF Once, PoolOK, Inv
    <3> QED
      BY <1>3, <1>5, <3>1 DEF OrphanOK
  <2>2. ASSUME NEW i \in DOMAIN mempool', NEW j \in DOMAIN mempool',
               mempool'[i].kind = "transfer", mempool'[j].kind = "transfer",
               mempool'[i].deal = mempool'[j].deal
        PROVE  i = j
    <3>1. i + 1 = j + 1
      BY <1>1, <2>2 DEF Once, PoolOK
    <3> QED
      BY <1>1, <3>1
  <2> QED
    BY <2>1, <2>2 DEF PoolOK
<1>8. /\ \A e \in Deals : clone'[e] \notin Void => clone[e] \notin Void
      /\ \/ UNCHANGED <<held, sent>>
         \/ /\ tx.kind = "transfer"
            /\ held' = [held EXCEPT ![d] = @ + tx.amount]
            /\ sent' = [sent EXCEPT ![d] = @ + tx.amount]
  <2>1. (Succeeds(tx) /\ Effect(tx)) \/ UNCHANGED <<clone, held, sent>>
    BY DEF MineNext, Mine
  <2> HIDE DEF tx
  <2>2. CASE Succeeds(tx) /\ Effect(tx)
    BY <1>2, <2>2 DEF Succeeds, Effect, Inv, TypeOK, ChainOK, Void
  <2> QED
    BY <2>1, <2>2
<1>9. ASSUME tx.kind = "transfer"
      PROVE  /\ \A v \in Workers : work'[v].pc = "transfer" => JobDeal(v) # d
             /\ \A i \in DOMAIN mempool' : mempool'[i].kind = "transfer" => mempool'[i].deal # d
  <2>1. ASSUME NEW v \in Workers, work'[v].pc = "transfer", JobDeal(v) = d PROVE FALSE
    <3>1. v # tx.worker \/ tx.worker = NoOne
      BY <1>4, <2>1
    <3>2. work[v].pc = "transfer" /\ v # tx.worker
      BY <1>4, <2>1, <3>1, RelayAssumption
    <3>3. Holds(v, d)
      BY <2>1, <3>2, ForwardersHold
    <3>4. CASE tx.worker = NoOne
      BY <1>1, <1>9, <3>3, <3>4 DEF Once, PoolOK, OrphanOK
    <3>5. CASE tx.worker # NoOne
      <4>1. tx.worker \in Workers /\ Holds(tx.worker, d)
        BY <1>1, <1>9, <3>5, WaitersHold
      <4> QED
        BY <1>2, <3>2, <3>3, <4>1 DEF Once, LocksHeld
    <3> QED
      BY <3>4, <3>5
  <2>2. \A i \in DOMAIN mempool' : mempool'[i].kind = "transfer" => mempool'[i].deal # d
    BY <1>1, <1>9 DEF Once, PoolOK
  <2> QED
    BY <2>1, <2>2
<1>10. tx.kind = "transfer" => Fits(d, tx.amount)
  BY <1>1 DEF Once, MoneyOK
<1>11. \A v \in Workers : work'[v].pc = "transfer" =>
         work'[v] = work[v] /\ JobDeal(v) \in Deals /\ Fits(JobDeal(v), work[v].amount)
  BY <1>4, ForwardersHold, RelayAssumption DEF Once, MoneyOK
<1>12. \A i \in DOMAIN mempool' : mempool'[i].kind = "transfer" =>
         mempool'[i].deal \in Deals /\ Fits(mempool'[i].deal, mempool'[i].amount)
  BY <1>1, PoolIs DEF Once, MoneyOK, Inv
<1>13. \A e \in Deals : held[e] \in Nat /\ sent[e] \in Nat /\ Deposit[e] \in Nat /\ held[e] >= sent[e] /\ Fits(e, 0)
  BY RelayAssumption DEF Inv, TypeOK, ChainOK, Once, MoneyOK
<1>14. held \in [Deals -> Nat] /\ sent \in [Deals -> Nat]
  BY DEF Inv, TypeOK, ChainOK
<1> HIDE DEF tx
<1>15. ASSUME NEW e \in Deals PROVE held'[e] >= sent'[e] /\ Fits(e, 0)'
  <2>1. CASE UNCHANGED <<held, sent>>
    BY <1>8, <1>13, <2>1 DEF Fits
  <2>2. CASE /\ tx.kind = "transfer"
             /\ held' = [held EXCEPT ![d] = @ + tx.amount]
             /\ sent' = [sent EXCEPT ![d] = @ + tx.amount]
    <3>1. CASE e = d
      <4>1. held'[e] = held[e] + tx.amount /\ sent'[e] = sent[e] + tx.amount
        BY <1>2, <1>14, <2>2, <3>1
      <4> QED
        BY <1>2, <1>8, <1>10, <1>13, <2>2, <3>1, <4>1 DEF Fits
    <3>2. CASE e # d
      <4>1. held'[e] = held[e] /\ sent'[e] = sent[e]
        BY <1>14, <2>2, <3>2
      <4> QED
        BY <1>8, <1>13, <4>1 DEF Fits
    <3> QED
      BY <3>1, <3>2
  <2> QED
    BY <1>8, <2>1, <2>2
<1>16. ASSUME NEW e \in Deals, NEW a, Fits(e, a), tx.kind = "transfer" => e # d
       PROVE  clone'[e] \notin Void => sent'[e] + a <= Deposit[e]
  <2>1. sent'[e] = sent[e]
    BY <1>8, <1>14, <1>16
  <2> QED
    BY <1>8, <1>16, <2>1 DEF Fits
<1>17. ASSUME NEW v \in Workers, work'[v].pc = "transfer"
       PROVE  Fits(JobDeal(v), work[v].amount)'
  <2>1. /\ work'[v] = work[v] /\ JobDeal(v) \in Deals /\ Fits(JobDeal(v), work[v].amount)
        /\ tx.kind = "transfer" => JobDeal(v) # d
    BY <1>9, <1>11, <1>17
  <2>2. clone'[JobDeal(v)] \notin Void => sent'[JobDeal(v)] + work[v].amount <= Deposit[JobDeal(v)]
    BY <1>16, <2>1
  <2> QED
    BY <2>1, <2>2 DEF Fits, JobDeal, Job
<1>18. ASSUME NEW i \in DOMAIN mempool', mempool'[i].kind = "transfer"
       PROVE  Fits(mempool[i].deal, mempool[i].amount)'
  <2>1. clone'[mempool'[i].deal] \notin Void =>
          sent'[mempool'[i].deal] + mempool'[i].amount <= Deposit[mempool'[i].deal]
    BY <1>9, <1>12, <1>16, <1>18
  <2> QED
    BY <2>1 DEF Fits
<1>19. MoneyOK'
  BY <1>15, <1>17, <1>18 DEF MoneyOK
<1> QED
  BY <1>6, <1>7, <1>19 DEF Once

\* A process dies: the keys of its workers stay, and so nobody takes over before the transfers
\* they have left are mined.
LEMMA CrashOnce ==
  ASSUME Inv, Once, NEW r \in Replicas, Crash(r)
  PROVE  Once'
<1> DEFINE W == {w \in Workers : Replica[w] = r}
<1>1. /\ Abandon(W) /\ W \in SUBSET Workers
      /\ \A v \in Workers : work'[v] = IF v \in W THEN Rest ELSE work[v]
  BY CrashIs
<1> HIDE DEF W
<1>2. /\ DOMAIN mempool' = DOMAIN mempool
      /\ \A i \in DOMAIN mempool :
           /\ mempool'[i].kind = mempool[i].kind /\ mempool'[i].deal = mempool[i].deal
           /\ mempool'[i].amount = mempool[i].amount
           /\ mempool'[i].worker = IF mempool[i].worker \in W THEN NoOne ELSE mempool[i].worker
      /\ UNCHANGED <<clone, late, held, float, sent>>
  BY <1>1, Abandoned DEF Inv
<1>3. UNCHANGED <<keys, method>>
  BY DEF Crash, rowVars
<1>4. \A v \in Workers : \A e : Holds(v, e)' => Holds(v, e) /\ v \notin W
  <2>1. \A v \in W : \A e : ~Holds(v, e)'
    BY <1>1, RecordsAre DEF Holds
  <2> QED
    BY <1>1, <1>3, <2>1, HoldsFramed
<1>5. LocksHeld'
  BY <1>3, <1>4, LocksKept DEF Once, LocksHeld
<1>6. PoolOK'
  <2>1. ASSUME NEW i \in DOMAIN mempool, mempool[i].kind = "transfer", mempool'[i].worker = NoOne
        PROVE  mempool[i].deal \in keys /\ \A v \in Workers, e \in Deals : e = mempool[i].deal => ~(Holds(v, e)')
    <3>1. mempool[i].deal \in Deals
      BY PoolIs DEF Inv
    <3>2. CASE mempool[i].worker = NoOne
      BY <1>4, <2>1, <3>2 DEF Once, PoolOK, OrphanOK
    <3>3. CASE mempool[i].worker # NoOne
      <4>1. mempool[i].worker \in W /\ mempool[i].worker \in Workers /\ Holds(mempool[i].worker, mempool[i].deal)
        BY <1>2, <2>1, <3>3, WaitersHold
      <4> QED
        BY <1>4, <3>1, <4>1 DEF Once, LocksHeld
    <3> QED
      BY <3>2, <3>3
  <2>2. ASSUME NEW i \in DOMAIN mempool' PROVE OrphanOK(mempool[i])'
    <3> SUFFICES ASSUME mempool'[i].kind = "transfer", mempool'[i].worker = NoOne
                 PROVE  mempool'[i].deal \in keys' /\ \A v \in Workers : ~(Holds(v, mempool[i].deal)')
      BY DEF OrphanOK
    <3>1. /\ i \in DOMAIN mempool /\ mempool'[i].deal = mempool[i].deal
          /\ mempool[i].deal \in keys
      BY <1>2, <2>1, <2>2
    <3>2. ASSUME NEW v \in Workers PROVE ~(Holds(v, mempool[i].deal)')
      <4>1. mempool[i].deal \in Deals /\ \A e \in Deals : e = mempool[i].deal => ~(Holds(v, e)')
        BY <1>2, <2>1, <2>2, PoolIs DEF Inv
      <4> QED
        BY <3>1, <4>1 DEF Holds
    <3> QED
      BY <1>3, <3>1, <3>2
  <2>3. \A i, j \in DOMAIN mempool' :
          /\ mempool'[i].kind = "transfer" /\ mempool'[j].kind = "transfer"
          /\ mempool'[i].deal = mempool'[j].deal
          => i = j
    BY <1>2 DEF Once, PoolOK
  <2> QED
    BY <2>2, <2>3 DEF PoolOK
<1>7. MoneyOK'
  <2>1. ASSUME NEW v \in Workers, work'[v].pc = "transfer"
        PROVE  Fits(JobDeal(v), work[v].amount)'
    <3>1. work'[v] = work[v]
      BY <1>1, <2>1, RecordsAre
    <3> QED
      BY <1>2, <2>1, <3>1 DEF Once, MoneyOK, Fits, JobDeal, Job
  <2>2. ASSUME NEW i \in DOMAIN mempool', mempool'[i].kind = "transfer"
        PROVE  Fits(mempool[i].deal, mempool[i].amount)'
    BY <1>2, <2>2 DEF Once, MoneyOK, Fits
  <2>3. \A e \in Deals : held'[e] >= sent'[e] /\ Fits(e, 0)'
    BY <1>2 DEF Once, MoneyOK, Fits
  <2> QED
    BY <2>1, <2>2, <2>3 DEF MoneyOK
<1> QED
  BY <1>5, <1>6, <1>7 DEF Once

LEMMA OutOfLock ==
  ASSUME NEW w, work'[w].pc \notin {"forward", "transfer", "notify", "release"}
  PROVE  \A d : ~(Holds(w, d)')
  BY DEF Holds

\* A worker that does nothing under the lock.
LEMMA IdleMove ==
  ASSUME Inv, Once, NEW w \in Workers, Moves(w), UNCHANGED <<keys, method, clone, held, sent, mempool>>,
         work'[w].pc \notin {"forward", "transfer", "notify", "release"}
  PROVE  Once'
  BY OutOfLock, QuietMove

LEMMA StepOnce ==
  ASSUME Inv, Once, Safe', NEW w \in Workers, Step(w)
  PROVE  Once'
<1>0. TypeOK
  BY DEF Inv
<1> USE DEF rowVars, lockVars, chainVars
<1>1. CASE Look(w)
  <2>1. At(w, "look") /\ UNCHANGED <<keys, method, clone, held, sent, mempool>>
    BY <1>1 DEF Look
  <2>2. \/ \E r \in Results \cup {"none"} : Return(w, r)
        \/ Direct(Job(w)) /\ Goto(w, "notify")
        \/ Goto(w, "lock")
    BY <1>1 DEF Look, Results
  <2>3. \/ Moves(w) /\ work'[w] = Rest
        \/ \E r \in Results : Goes(w, "save", r)
        \/ Direct(Job(w)) /\ Goes(w, "notify", work[w].result)
        \/ Goes(w, "lock", work[w].result)
    BY <1>0, <2>2, ReturnMoves, GotoGoes DEF Results, Pc
  <2>4. \A d : Holds(w, d)' => Holds(w, d)
    BY <2>1, <2>3, HoldsOn
  <2>5. Moves(w) /\ work'[w].pc # "transfer"
    BY <2>3, RecordsAre DEF Goes
  <2> QED
    BY <2>1, <2>4, <2>5, QuietMove
<1>2. CASE Lock(w)
  <2>1. UNCHANGED <<keys, method, clone, held, sent, mempool>> /\ (Return(w, "received") \/ Goto(w, "setnx"))
    BY <1>2 DEF Lock
  <2>2. \/ Moves(w) /\ work'[w] = Rest
        \/ Goes(w, "save", "received") \/ Goes(w, "setnx", work[w].result)
    BY <1>0, <2>1, ReturnMoves, GotoGoes DEF Results, Pc
  <2>3. Moves(w) /\ work'[w].pc \notin {"forward", "transfer", "notify", "release"}
    BY <2>2, RecordsAre DEF Goes
  <2> QED
    BY <2>1, <2>3, IdleMove
<1>3. CASE SetNx(w)
  <2>1. ~Befalls("outage")
    BY NotBefallen DEF Safe
  <2>2. CASE /\ JobDeal(w) \notin keys
             /\ keys' = keys \cup {JobDeal(w)} /\ Goto(w, "forward")
    BY <1>3, <2>2, TakeOnce
  <2>3. CASE Return(w, "received") /\ UNCHANGED lockVars
    <3>1. UNCHANGED <<keys, method, clone, held, sent, mempool>>
      BY <1>3, <2>3 DEF SetNx
    <3>2. (Moves(w) /\ work'[w] = Rest) \/ Goes(w, "save", "received")
      BY <1>0, <2>3, ReturnMoves DEF Results
    <3>3. Moves(w) /\ work'[w].pc \notin {"forward", "transfer", "notify", "release"}
      BY <3>2, RecordsAre DEF Goes
    <3> QED
      BY <3>1, <3>3, IdleMove
  <2> QED
    BY <1>3, <2>1, <2>2, <2>3 DEF SetNx, Locked
<1>4. CASE Forward(w)
  <2>1. At(w, "forward") /\ Job(w) \in Payments /\ JobDeal(w) \in Deals
    BY <1>4, AtJob DEF Forward
  <2>2. work[w].pc = "forward" /\ ~Direct(Job(w))
    BY <2>1 DEF Inv, JobsKnown, Known, Forwarding, At, Job
  <2>3. UNCHANGED <<keys, method, clone, held, sent, mempool>>
    BY <1>4 DEF Forward
  <2>4. CASE Succeed(w) \/ Fail(w) \/ Goto(w, "notify")
    <3>1. \/ Moves(w) /\ work'[w] = Rest
          \/ Goes(w, "release", "completed")
          \/ Goes(w, "release", "received")
          \/ Goes(w, "notify", work[w].result)
      BY <1>0, <2>2, <2>4, FailMoves, SucceedGoes, GotoGoes DEF Pc
    <3>2. \A d : Holds(w, d)' => Holds(w, d)
      BY <2>2, <2>3, <3>1, HoldsOn
    <3>3. Moves(w) /\ work'[w].pc # "transfer"
      BY <3>1, RecordsAre DEF Goes
    <3> QED
      BY <2>3, <3>2, <3>3, QuietMove
  <2>5. CASE work' = [work EXCEPT ![w].pc = "transfer", ![w].amount = Shortfall(JobDeal(w))]
    <3> DEFINE d == JobDeal(w)
    <3>1. /\ held[d] \in Nat /\ sent[d] \in Nat /\ Deposit[d] \in Nat
          /\ held[d] >= sent[d] /\ Fits(d, 0)
      BY <2>1, RelayAssumption DEF Inv, TypeOK, ChainOK, Once, MoneyOK
    <3>2. Shortfall(d) \in Nat /\ Fits(d, Shortfall(d))
      BY <3>1 DEF Shortfall, Fits
    <3>3. /\ Moves(w) /\ work'[w].pc = "transfer" /\ work'[w].amount = Shortfall(d)
          /\ work'[w].job = work[w].job
      BY <1>0, <2>5, <3>2, AmountGoes
    <3>4. \A e : Holds(w, e)' => Holds(w, e)
      BY <2>2, <2>3, <3>3 DEF Holds, Job, JobDeal, Direct
    <3>5. DealOf[work'[w].job] = d
      BY <3>3 DEF JobDeal, Job
    <3> HIDE DEF d
    <3>6. d \in Deals
      BY <2>1 DEF d
    <3> QED
      BY <2>2, <2>3, <3>2, <3>3, <3>4, <3>5, <3>6, QuietMove
  <2> QED
    BY <1>4, <2>4, <2>5 DEF Forward
<1>5. CASE Transfer(w) \/ Notify(w)
  BY <1>5, BroadcastOnce
<1>6. CASE Release(w)
  BY <1>6, ReleaseOnce
<1>7. CASE SaveResult(w)
  <2>1. (Moves(w) /\ work'[w] = Rest) \/ Goes(w, "finalize", work[w].result)
    BY <1>0, <1>7, FinishMoves, GotoGoes DEF SaveResult, Pc
  <2>2. Moves(w) /\ work'[w].pc \notin {"forward", "transfer", "notify", "release"}
    BY <2>1, RecordsAre DEF Goes
  <2> QED
    BY <1>7, <2>2, IdleMove DEF SaveResult
<1>8. CASE Finalize(w) \/ ExtendSave(w)
  <2>1. Moves(w) /\ work'[w] = Rest
    BY <1>0, <1>8, FinishMoves DEF Finalize, ExtendSave
  <2> QED
    BY <1>8, <2>1, RecordsAre, IdleMove DEF Finalize, ExtendSave
<1>9. CASE MatchCredit(w)
  <2>1. Moves(w) /\ work'[w].pc = "mark"
    BY <1>0, <1>9, GotoGoes DEF MatchCredit, Pc, Goes
  <2> QED
    BY <1>9, <2>1, IdleMove DEF MatchCredit
<1>10. CASE MatchMark(w)
  <2>1. At(w, "mark") /\ Job(w) \in Payments /\ Start(w, Job(w))
    BY <1>10, AtJob DEF MatchMark
  <2>2. Moves(w) /\ work'[w].pc \in {"idle", "look"}
    BY <1>0, <2>1, StartMoves, LookingIs, RecordsAre
  <2> QED
    BY <1>10, <2>2, IdleMove DEF MatchMark
<1>11. CASE ExtendMined(w)
  <2>1. (Moves(w) /\ work'[w] = Rest) \/ Goes(w, "extended", work[w].result)
    BY <1>0, <1>11, FinishMoves, GotoGoes DEF ExtendMined, Pc
  <2>2. Moves(w) /\ work'[w].pc \notin {"forward", "transfer", "notify", "release"}
    BY <2>1, RecordsAre DEF Goes
  <2> QED
    BY <1>11, <2>2, IdleMove DEF ExtendMined
<1> QED
  BY <1>1, <1>2, <1>3, <1>4, <1>5, <1>6, <1>7, <1>8, <1>9, <1>10, <1>11 DEF Step

\* A key runs out that nobody needs.
LEMMA ExpiryOnce ==
  ASSUME Inv, Once, Safe', NEW d \in Deals, LockExpires(d)
  PROVE  Once'
<1>1. Orphaned(d) /\ keys' = keys \ {d} /\ UNCHANGED <<method, clone, held, sent, mempool, work>>
  BY NotBefallen DEF LockExpires, Safe, rowVars, chainVars
<1>2. \A v \in Workers, e \in Deals : (Holds(v, e)' => Holds(v, e) /\ e # d)
  BY <1>1, HoldsFramed DEF Orphaned
<1>3. LocksHeld'
  BY <1>1, <1>2, LocksKept DEF Once, LocksHeld
<1>4. \A i \in DOMAIN mempool : mempool[i].deal # d
  BY <1>1 DEF Orphaned, Quiet, ToSet
<1>5. PoolOK'
  BY <1>1, <1>2, <1>4, PoolKept DEF Once, OrphanOK
<1>6. MoneyOK'
  <2>1. \A e \in Deals : held'[e] \in Nat /\ held'[e] >= held[e]
    BY <1>1 DEF Inv, TypeOK, ChainOK
  <2>2. \A v \in Workers : work[v].pc = "transfer" => DealOf[work[v].job] \in Deals
    BY ForwardersHold DEF JobDeal, Job
  <2> QED
    BY <1>1, <2>1, <2>2, MoneyKept DEF Once
<1> QED
  BY <1>3, <1>5, <1>6 DEF Once

LEMMA MishapOnce == ASSUME Inv, Once, Safe', MishapNext PROVE Once'
<1>1. ASSUME NEW w \in Workers, CallFails(w) PROVE Once'
  <2>1. /\ \/ Moves(w) /\ work'[w] = Rest
           \/ /\ work[w].pc \in {"forward", "transfer", "notify"}
              /\ Goes(w, "release", "received")
        /\ UNCHANGED <<keys, method, clone, held, sent, mempool>>
    BY <1>1, GivesUp DEF CallFails, rowVars, lockVars, chainVars
  <2>2. \A d : Holds(w, d)' => Holds(w, d)
    BY <2>1, HoldsOn
  <2>3. Moves(w) /\ work'[w].pc # "transfer"
    BY <2>1, RecordsAre DEF Goes
  <2> QED
    BY <2>1, <2>2, <2>3, QuietMove
<1>2. ASSUME NEW w \in Workers, AnswerLost(w) PROVE FALSE
  BY <1>2, NotBefallen DEF AnswerLost, Safe
<1> QED
  BY <1>1, <1>2, CrashOnce DEF MishapNext

LEMMA OtherOnce ==
  ASSUME Inv, Once,
         \/ \E w \in Workers, p \in Payments : Begin(w, p)
         \/ \E p \in Payments : Sweep(p)
         \/ ScanRead \/ \E t \in Transfers : ScanRecord(t)
         \/ AdminNext \/ WorldNext
  PROVE  Once'
<1> USE DEF rowVars, lockVars, chainVars
<1>1. ASSUME NEW w \in Workers, NEW p \in Payments, Begin(w, p) PROVE Once'
  <2>1. Moves(w) /\ work'[w].pc \in {"idle", "look"}
    BY <1>1, StartMoves, LookingIs, RecordsAre DEF Begin, Inv
  <2> QED
    BY <1>1, <2>1, IdleMove DEF Begin
<1>2. ASSUME NEW a \in Admins, NEW p \in Payments, ExtendRead(a, p) \/ \E t \in Transfers : MatchRead(a, t, p)
      PROVE  Once'
  <2>1. Moves(a) /\ work'[a].pc \in {"extend", "credit"}
    BY <1>2, MatchReads, ExtendReads
  <2> QED
    BY <1>2, <2>1, AdminIsWorker, IdleMove DEF ExtendRead, MatchRead
<1>3. \A d \in Deals : held[d] \in Nat
  BY DEF Inv, TypeOK, ChainOK
<1>4. CASE \/ \E p \in Payments : Sweep(p)
           \/ ScanRead \/ \E t \in Transfers : ScanRecord(t) \/ Ignore(t)
  BY <1>3, <1>4, QuietWorld DEF Sweep, ScanRead, ScanRecord, Ignore
<1>5. ASSUME NEW p \in Payments, PayClone(p) PROVE Once'
  <2>1. DealOf[p] \in Deals /\ Deposit[DealOf[p]] \in Nat
    BY DepositsAssumption, RelayAssumption
  <2>2. held' = [held EXCEPT ![DealOf[p]] = @ + Deposit[DealOf[p]]]
    BY <1>5 DEF PayClone
  <2>3. \A d \in Deals : held'[d] \in Nat /\ held'[d] >= held[d]
    BY <1>3, <2>1, <2>2 DEF Inv, TypeOK, ChainOK
  <2> QED
    BY <1>5, <2>3, QuietWorld DEF PayClone
<1>6. CASE CloneNext /\ UNCHANGED <<rowVars, lockVars, worldVars, work, mishaps>>
  BY <1>3, <1>6, ClonesAre, QuietWorld DEF Void
<1>7. CASE \/ \E t \in Transfers : Arrive(t)
           \/ \E p \in Payments : RateLapses(p)
           \/ OtherCompletes \/ \E d \in Deals : CancelDeal(d)
  BY <1>3, <1>7, QuietWorld DEF Arrive, RateLapses, OtherCompletes, CancelDeal
<1> QED
  BY <1>1, <1>2, <1>4, <1>5, <1>6, <1>7 DEF AdminNext, WorldNext

LEMMA OnceNext == ASSUME Inv, Once, Safe', [Next]_vars PROVE Once'
<1>1. CASE UNCHANGED vars
  <2>1. \A d \in Deals : held'[d] \in Nat /\ held'[d] >= held[d]
    BY <1>1 DEF vars, chainVars, Inv, TypeOK, ChainOK
  <2> QED
    BY <1>1, <2>1, QuietWorld DEF vars, chainVars, rowVars, lockVars
<1> QED
  BY <1>1, StepOnce, MineOnce, ExpiryOnce, MishapOnce, OtherOnce DEF Next

LEMMA OnceInit == Init => Once
<1> SUFFICES ASSUME Init PROVE Once
  OBVIOUS
<1>1. \A w \in Workers : work[w].pc = "idle"
  BY RecordsAre DEF Init
<1>2. LocksHeld
  BY <1>1 DEF LocksHeld, Holds
<1>3. PoolOK
  BY DEF Init, ChainInit, PoolOK
<1>4. MoneyOK
  BY <1>1, RelayAssumption DEF Init, ChainInit, MoneyOK, Fits
<1> QED
  BY <1>2, <1>3, <1>4 DEF Once

\* What is pending for a deal is nothing or the amount of one transfer.
LEMMA PendingIs ==
  ASSUME Inv, PoolOK, NEW d \in Deals
  PROVE  \/ Pending(d) = 0
         \/ \E i \in DOMAIN mempool : /\ mempool[i].kind = "transfer" /\ mempool[i].deal = d
                                     /\ Pending(d) = mempool[i].amount
<1> DEFINE S == PendingTransfers(d)
           adds(it) == it = [s \in SUBSET S |->
                              IF s = {} THEN 0
                              ELSE LET i == CHOOSE i \in s : TRUE
                                   IN  mempool[i].amount + it[s \ {i}]]
<1>1. Pending(d) = (CHOOSE it : adds(it))[S]
  BY DEF Pending, MapThenSumSet, MapThenFoldSet
<1>2. \A i \in S : i \in DOMAIN mempool /\ mempool[i].kind = "transfer" /\ mempool[i].deal = d
  BY DEF PendingTransfers
<1>3. \A i, j \in S : i = j
  BY <1>2 DEF PoolOK
<1> HIDE DEF S
<1>4. CASE S = {}
  <2> DEFINE none == [s \in SUBSET S |-> 0]
  <2>1. adds(none)
    BY <1>4
  <2> HIDE DEF none
  <2>2. PICK it : adds(it) /\ it = CHOOSE f : adds(f)
    BY <2>1
  <2>3. it[S] = 0
    BY <1>4, <2>2
  <2> QED
    BY <1>1, <2>2, <2>3
<1>5. CASE S # {}
  <2>1. PICK i \in S : S = {i}
    BY <1>3, <1>5
  <2>2. mempool[i].amount \in Nat
    BY <1>2, PoolIs DEF Inv
  <2> DEFINE one == [s \in SUBSET S |-> IF s = {} THEN 0 ELSE mempool[i].amount]
  <2>3. adds(one)
    <3>1. ASSUME NEW s \in SUBSET S, s # {}
          PROVE  /\ (CHOOSE j \in s : TRUE) = i
                 /\ s \ {i} = {}
      BY <2>1, <3>1
    <3> QED
      BY <2>2, <3>1
  <2> HIDE DEF one
  <2>4. PICK it : adds(it) /\ it = CHOOSE f : adds(f)
    BY <2>3
  <2>5. it[{}] = 0
    BY <2>4
  <2>6. it[S] = mempool[i].amount + it[{}]
    <3>1. (CHOOSE j \in S : TRUE) = i /\ S \ {i} = {}
      BY <2>1
    <3>2. it[S] = LET j == CHOOSE j \in S : TRUE IN mempool[j].amount + it[S \ {j}]
      BY <1>5, <2>4
    <3> QED
      BY <3>1, <3>2
  <2>7. Pending(d) = mempool[i].amount
    <3>1. Pending(d) = it[S]
      BY <1>1, <2>4
    <3> HIDE DEF adds
    <3> QED
      BY <2>2, <2>5, <2>6, <3>1
  <2> QED
    BY <1>2, <2>7
<1> QED
  BY <1>4, <1>5

\* With any number of watchers, buyers and administrators at work on a deal's payments, and
\* whatever crashes and fails, the float pays a clone that can be funded one deposit at most,
\* what is still pending included, as long as no lock runs out under its holder, Redis answers
\* and no receipt is lost.
THEOREM FloatIsSpentOnce ==
  Spec => [](Safe => \A d \in Deals : clone[d] \notin Void => sent[d] + Pending(d) <= Deposit[d])
<1> DEFINE Kept == Safe => Once
           SpentOnce ==
             Safe => \A d \in Deals : clone[d] \notin Void => sent[d] + Pending(d) <= Deposit[d]
<1>1. Init => Kept
  BY OnceInit
<1>2. Inv /\ Kept /\ [Next]_vars => Kept'
  <2> SUFFICES ASSUME Inv, Kept, [Next]_vars, Safe' PROVE Once'
    OBVIOUS
  <2>1. Safe
    BY SparedStays DEF Safe
  <2> QED
    BY <2>1, OnceNext
<1>3. Inv /\ Kept => SpentOnce
  <2> SUFFICES ASSUME Inv, Once, NEW d \in Deals, clone[d] \notin Void
               PROVE  sent[d] + Pending(d) <= Deposit[d]
    OBVIOUS
  <2>1. Fits(d, 0) /\ sent[d] \in Nat
    BY DEF Once, MoneyOK, Inv, TypeOK, ChainOK
  <2>2. \A i \in DOMAIN mempool : mempool[i].kind = "transfer" /\ mempool[i].deal = d
          => sent[d] + mempool[i].amount <= Deposit[d]
    BY DEF Once, MoneyOK, Fits
  <2>3. PoolOK
    BY DEF Once
  <2> QED
    BY <2>1, <2>2, <2>3, PendingIs DEF Fits
<1> HIDE DEF Kept, SpentOnce
<1>4. Spec => []Kept
  BY <1>1, <1>2, InvHolds, PTL DEF Spec
<1>5. Spec => []SpentOnce
  BY <1>3, <1>4, InvHolds, PTL
<1> QED
  BY <1>5 DEF SpentOnce

-----------------------------------------------------------------------------
(* The float stands in for money                                           *)

Backed(d) == \E p \in Payments : DealOf[p] = d /\ Backing(p) >= Deposit[d]

\* Rows and the copies of them count what match has credited, or less.
CreditsOK ==
  /\ \A p \in Payments, t \in Transfers : payment[p].credited[t] <= credits[p][t]
  /\ \A w \in Workers, p \in Payments, t \in Transfers :
       Job(w) = p => work[w].copy.credited[t] <= credits[p][t]

\* Who is about to send from the float.
Committed == {"lock", "setnx", "forward", "transfer"}

CoverOK ==
  /\ \A w \in Workers : work[w].pc \in Committed => Backed(JobDeal(w))
  /\ \A i \in DOMAIN mempool : mempool[i].kind = "transfer" => Backed(mempool[i].deal)
  /\ \A d \in Deals : sent[d] > 0 => Backed(d)

Cover == CreditsOK /\ CoverOK

LEMMA CountsAre ==
  ASSUME TypeOK
  PROVE  /\ \A p \in Payments, t \in Transfers :
              payment[p].credited[t] \in Nat /\ credits[p][t] \in Nat
         /\ \A w \in Workers, t \in Transfers : work[w].copy.credited[t] \in Nat
<1>1. \A c \in Payment : c.credited \in [Transfers -> Nat]
  BY DEF Payment
<1>2. \A w \in Workers : work[w].copy \in Payment
  BY DEF TypeOK, Work
<1> QED
  BY <1>1, <1>2 DEF TypeOK

\* What arrives stays, and so does what has been credited.
HistoryGrows ==
  /\ method' = method
  /\ \A t \in Transfers : wire[t] # NoOne => wire'[t] = wire[t]
  /\ \A p \in Payments, t \in Transfers :
       credits'[p][t] \in Nat /\ credits[p][t] <= credits'[p][t]

LEMMA HistoryFramed == ASSUME Inv, UNCHANGED <<method, wire, credits>> PROVE HistoryGrows
  BY CountsAre DEF Inv, HistoryGrows

LEMMA HistoryOnlyGrows == ASSUME Inv, [Next]_vars PROVE HistoryGrows
<1> USE DEF rowVars, worldVars
<1>1. ASSUME NEW w \in Workers, Step(w) PROVE HistoryGrows
  <2>1. CASE MatchCredit(w)
    <3>1. UNCHANGED <<method, wire>> /\ credits' = [credits EXCEPT ![Job(w)][work[w].deposit] = @ + 1]
      BY <2>1 DEF MatchCredit
    <3>2. ASSUME NEW p \in Payments, NEW t \in Transfers
          PROVE  credits'[p][t] \in Nat /\ credits[p][t] <= credits'[p][t]
      <4>1. credits[p] \in [Transfers -> Nat] /\ credits \in [Payments -> [Transfers -> Nat]]
        BY DEF Inv, TypeOK
      <4> QED
        BY <3>1, <4>1
    <3> QED
      BY <3>1, <3>2 DEF HistoryGrows
  <2>2. CASE ~MatchCredit(w)
    BY <1>1, <2>2, HistoryFramed DEF Step, Look, Lock, SetNx, Forward, Transfer, Notify, Release,
       SaveResult, Finalize, MatchMark, ExtendMined, ExtendSave
  <2> QED
    BY <2>1, <2>2
<1>2. ASSUME NEW t \in Transfers, Arrive(t) PROVE HistoryGrows
  <2>1. PICK x \in Wire : wire' = [wire EXCEPT ![t] = x]
    BY <1>2 DEF Arrive
  <2>2. wire[t] = NoOne /\ UNCHANGED <<method, credits>>
    BY <1>2 DEF Arrive
  <2> QED
    BY <2>1, <2>2, CountsAre DEF Inv, TypeOK, HistoryGrows
<1>3. CASE ScanRead \/ \E t \in Transfers : ScanRecord(t)
  BY <1>3, HistoryFramed DEF ScanRead, ScanRecord
<1>4. CASE AdminNext
  BY <1>4, HistoryFramed DEF AdminNext, MatchRead, ExtendRead, Ignore
<1>5. CASE WorldNext
  BY <1>2, <1>5, HistoryFramed DEF WorldNext, PayClone, RateLapses, OtherCompletes, CancelDeal
<1>6. CASE MishapNext
  BY <1>6, HistoryFramed DEF MishapNext, Crash, CallFails, AnswerLost
<1> QED
  BY <1>1, <1>3, <1>4, <1>5, <1>6, HistoryFramed
     DEF Next, vars, MineNext, Begin, LockExpires, Sweep

-----------------------------------------------------------------------------
(* What deposits are worth                                                 *)

LEMMA UnitsAre ==
  /\ IsFiniteSet(Transfers)
  /\ \A t \in Transfers : Units[t] \in Nat
  /\ \A A \in SUBSET Transfers : IsFiniteSet(A) /\ Sum(Units, A) \in Nat
<1>1. IsFiniteSet(Transfers) /\ \A t \in Transfers : Units[t] \in Nat
  BY DepositsAssumption
<1>2. ASSUME NEW A \in SUBSET Transfers PROVE IsFiniteSet(A) /\ Sum(Units, A) \in Nat
  <2>1. IsFiniteSet(A)
    BY <1>1, FS_Subset
  <2> QED
    BY <1>1, <2>1, SumNat
<1> QED
  BY <1>1, <1>2

LEMMA SumOfMore ==
  ASSUME NEW F, NEW H, \A t \in Transfers : F[t] \in Nat /\ H[t] \in Nat /\ F[t] <= H[t]
  PROVE  /\ Sum(F, Transfers) \in Nat /\ Sum(H, Transfers) \in Nat
         /\ Sum(F, Transfers) <= Sum(H, Transfers)
<1> DEFINE G == [t \in Transfers |-> 0]
<1>1. \A t \in Transfers : G[t] = 0
  OBVIOUS
<1> HIDE DEF G
<1>2. Sum(G, Transfers) = 0
  BY <1>1, UnitsAre, SumZero
<1>3. Sum(F, Transfers) + Sum(G, Transfers) <= Sum(H, Transfers)
  BY <1>1, UnitsAre, SumsFit
<1>4. Sum(F, Transfers) \in Nat /\ Sum(H, Transfers) \in Nat
  BY UnitsAre, SumNat
<1> QED
  BY <1>2, <1>3, <1>4

\* Credited more often, deposits are worth more.
LEMMA WorthGrows ==
  ASSUME NEW c, NEW e, \A t \in Transfers : c[t] \in Nat /\ e[t] \in Nat /\ c[t] <= e[t]
  PROVE  Worth(c) \in Nat /\ Worth(e) \in Nat /\ Worth(c) <= Worth(e)
<1> DEFINE F == [t \in Transfers |-> Units[t] * c[t]]
           H == [t \in Transfers |-> Units[t] * e[t]]
<1>1. Worth(c) = Sum(F, Transfers) /\ Worth(e) = Sum(H, Transfers)
  BY UnitsAre, SumOfProduct DEF Worth
<1>2. ASSUME NEW t \in Transfers PROVE F[t] \in Nat /\ H[t] \in Nat /\ F[t] <= H[t]
  <2>1. \A u, x, y \in Nat : x <= y => u * x \in Nat /\ u * y \in Nat /\ u * x <= u * y
    OBVIOUS
  <2> QED
    BY <2>1, UnitsAre
<1> HIDE DEF F, H
<1> QED
  BY <1>1, <1>2, SumOfMore

ClaimsOf(p) == {t \in Transfers : Claims(p, t)}

LEMMA ClaimedIs == ASSUME NEW p PROVE Claimed(p) = Sum(Units, ClaimsOf(p))
  BY DEF Claimed, ClaimsOf, Sum, MapThenSumSet, MapThenFoldSet

\* A transfer that claims a payment claims it for good.
LEMMA ClaimedGrows ==
  ASSUME HistoryGrows, NEW p \in Payments
  PROVE  Claimed(p) \in Nat /\ Claimed(p)' \in Nat /\ Claimed(p) <= Claimed(p)'
<1> DEFINE A == ClaimsOf(p)
           B == {t \in Transfers : wire'[t] = [memo |-> p, asset |-> AssetOf(p)]}
           F == [t \in Transfers |-> IF t \in A THEN Units[t] ELSE 0]
           H == [t \in Transfers |-> IF t \in B THEN Units[t] ELSE 0]
<1>1. [memo |-> p, asset |-> AssetOf(p)] # NoOne
  <2>1. [memo |-> p, asset |-> AssetOf(p)] \in Wire
    BY DEF Wire, AssetOf, Assets
  <2> QED
    BY <2>1, DepositsAssumption
<1>2. A \in SUBSET Transfers /\ B \in SUBSET Transfers /\ A \subseteq B
  BY <1>1 DEF HistoryGrows, ClaimsOf, Claims
<1>3. Claimed(p) = Sum(Units, A)
  BY ClaimedIs
<1>4. Claimed(p)' = Sum(Units, B)
  BY DEF Claimed, Claims, Sum, MapThenSumSet, MapThenFoldSet, HistoryGrows, AssetOf
<1>5. Sum(Units, A) = Sum(F, Transfers) /\ Sum(Units, B) = Sum(H, Transfers)
  BY <1>2, UnitsAre, SumOfPart
<1>6. \A t \in Transfers : F[t] \in Nat /\ H[t] \in Nat /\ F[t] <= H[t]
  BY <1>2, UnitsAre
<1> HIDE DEF A, B, F, H
<1> QED
  BY <1>3, <1>4, <1>5, <1>6, SumOfMore

BackedStays == \A d \in Deals : Backed(d) => Backed(d)'

LEMMA BackedForGood == ASSUME Inv, HistoryGrows PROVE BackedStays
<1> SUFFICES ASSUME NEW p \in Payments, NEW d \in Deals, Backing(p) >= Deposit[d]
             PROVE  Backing(p)' >= Deposit[d]
  BY DEF BackedStays, Backed
<1>1. Worth(credits[p]) \in Nat /\ Worth(credits'[p]) \in Nat /\ Worth(credits[p]) <= Worth(credits'[p])
  <2>1. \A t \in Transfers :
          credits[p][t] \in Nat /\ credits'[p][t] \in Nat /\ credits[p][t] <= credits'[p][t]
    BY CountsAre DEF Inv, HistoryGrows
  <2> QED
    BY <2>1, WorthGrows
<1>2. Backing(p)' = Claimed(p)' + Worth(credits'[p])
  BY DEF Backing, Worth, MapThenSumSet, MapThenFoldSet
<1>3. Deposit[d] \in Nat
  BY RelayAssumption
<1> QED
  BY <1>1, <1>2, <1>3, ClaimedGrows DEF Backing

\* A check that finds enough has a payment that is backed.
LEMMA EnoughIsBacked ==
  ASSUME Inv, CreditsOK, NEW w \in Workers, Job(w) \in Payments, ~Direct(Job(w)), Enough(w)
  PROVE  Backed(JobDeal(w))
<1> DEFINE p == Job(w)
<1>1. Worth(work[w].copy.credited) \in Nat /\ Worth(credits[p]) \in Nat
      /\ Worth(work[w].copy.credited) <= Worth(credits[p])
  <2>1. \A t \in Transfers : /\ work[w].copy.credited[t] \in Nat /\ credits[p][t] \in Nat
                             /\ work[w].copy.credited[t] <= credits[p][t]
    BY CountsAre DEF Inv, CreditsOK
  <2> QED
    BY <2>1, WorthGrows
<1>2. Claimed(p) \in Nat
  BY ClaimedIs, UnitsAre DEF ClaimsOf
<1>3. Claimed(p) + Worth(work[w].copy.credited) >= Deposit[JobDeal(w)]
  BY DEF Enough, Progress, Counted
<1>4. Deposit[JobDeal(w)] \in Nat
  BY DepositsAssumption, RelayAssumption DEF JobDeal
<1> HIDE DEF p
<1>5. Backing(p) >= Deposit[JobDeal(w)]
  BY <1>1, <1>2, <1>3, <1>4 DEF Backing
<1> QED
  BY <1>5 DEF Backed, JobDeal, p

-----------------------------------------------------------------------------
(* Credits and cover are kept                                              *)

\* Where a worker's next copy of a row comes from: from the row, or from the copy it has.
CopiedFrom(w) ==
  \/ work'[w].job = work[w].job /\ work'[w].copy = work[w].copy
  \/ work'[w].job \in Payments /\ work'[w].copy = payment[work'[w].job]
  \/ work'[w].job = NoOne

LEMMA CreditsKept ==
  ASSUME Inv, HistoryGrows, CreditsOK, \A v \in Workers : CopiedFrom(v),
         \A p \in Payments : \/ payment'[p].credited = payment[p].credited
                             \/ \A t \in Transfers : payment'[p].credited[t] <= credits'[p][t]
  PROVE  CreditsOK'
<1>1. TypeOK
  BY DEF Inv
<1>2. ASSUME NEW p \in Payments, NEW t \in Transfers
      PROVE  /\ payment[p].credited[t] <= credits'[p][t]
             /\ payment'[p].credited[t] <= credits'[p][t]
  <2>1. payment[p].credited[t] <= credits'[p][t]
    BY <1>1, CountsAre DEF CreditsOK, HistoryGrows
  <2> QED
    BY <2>1
<1>3. ASSUME NEW v \in Workers, NEW p \in Payments, NEW t \in Transfers, work'[v].job = p
      PROVE  work'[v].copy.credited[t] <= credits'[p][t]
  <2>1. CASE work[v].job = p /\ work'[v].copy = work[v].copy
    <3>1. work[v].copy.credited[t] <= credits[p][t]
      BY <2>1 DEF CreditsOK, Job
    <3> QED
      BY <1>1, <2>1, <3>1, CountsAre DEF HistoryGrows
  <2>2. CASE work'[v].copy = payment[p]
    BY <1>2, <2>2
  <2> QED
    BY <1>3, <2>1, <2>2, DepositsAssumption DEF CopiedFrom
<1> QED
  BY <1>2, <1>3 DEF CreditsOK, Job

LEMMA CoverKept ==
  ASSUME Inv, CoverOK, BackedStays,
         \A v \in Workers : work'[v].pc \in Committed =>
           \/ work[v].pc \in Committed /\ work'[v].job = work[v].job
           \/ DealOf[work'[v].job] \in Deals /\ Backed(DealOf[work'[v].job]),
         \A i \in DOMAIN mempool' : mempool'[i].kind = "transfer" =>
           mempool'[i].deal \in Deals /\ Backed(mempool'[i].deal),
         \A d \in Deals : sent'[d] > 0 => sent[d] > 0 \/ Backed(d)
  PROVE  CoverOK'
<1>1. ASSUME NEW v \in Workers, work'[v].pc \in Committed
      PROVE  Backed(JobDeal(v))'
  <2>1. DealOf[work'[v].job] \in Deals /\ Backed(DealOf[work'[v].job])
    BY <1>1, DepositsAssumption DEF CoverOK, JobDeal, Job, Inv, JobsKnown, Known, Committed
  <2>2. \A d \in Deals : d = DealOf[work'[v].job] => Backed(d)'
    BY <2>1 DEF BackedStays
  <2> QED
    BY <2>1, <2>2 DEF JobDeal, Job, Backed
<1>2. ASSUME NEW i \in DOMAIN mempool', mempool'[i].kind = "transfer"
      PROVE  Backed(mempool[i].deal)'
  <2>1. mempool'[i].deal \in Deals /\ \A d \in Deals : d = mempool'[i].deal => Backed(d)'
    BY <1>2 DEF BackedStays
  <2> QED
    BY <2>1 DEF Backed
<1>3. \A d \in Deals : sent'[d] > 0 => Backed(d)'
  BY DEF CoverOK, BackedStays
<1> QED
  BY <1>1, <1>2, <1>3 DEF CoverOK

\* A worker moves, and does not begin to send without backing.
LEMMA MoveCover ==
  ASSUME Inv, Cover, HistoryGrows, NEW w \in Workers, Moves(w), CopiedFrom(w),
         \A p \in Payments : \/ payment'[p].credited = payment[p].credited
                             \/ \A t \in Transfers : payment'[p].credited[t] <= credits'[p][t],
         UNCHANGED <<mempool, sent>>,
         work'[w].pc \in Committed =>
           \/ work[w].pc \in Committed /\ work'[w].job = work[w].job
           \/ DealOf[work'[w].job] \in Deals /\ Backed(DealOf[work'[w].job])
  PROVE  Cover'
<1>1. BackedStays
  BY BackedForGood
<1>2. \A i \in DOMAIN mempool : mempool[i].kind = "transfer" =>
        mempool[i].deal \in Deals /\ Backed(mempool[i].deal)
  BY PoolIs DEF Inv, Cover, CoverOK
<1>3. \A v \in Workers : work'[v].pc \in Committed =>
        \/ work[v].pc \in Committed /\ work'[v].job = work[v].job
        \/ DealOf[work'[v].job] \in Deals /\ Backed(DealOf[work'[v].job])
  BY DEF Moves
<1>4. CoverOK'
  BY <1>1, <1>2, <1>3, CoverKept DEF Cover
<1>5. \A v \in Workers : CopiedFrom(v)
  BY DEF Moves, CopiedFrom
<1>6. CreditsOK'
  BY <1>5, CreditsKept DEF Cover
<1> QED
  BY <1>4, <1>6 DEF Cover

\* The workers stand, and the rows.
LEMMA StillCover ==
  ASSUME Inv, Cover, HistoryGrows, UNCHANGED <<payment, work, mempool, sent>>
  PROVE  Cover'
<1>1. \A i \in DOMAIN mempool : mempool[i].kind = "transfer" =>
        mempool[i].deal \in Deals /\ Backed(mempool[i].deal)
  BY PoolIs DEF Inv, Cover, CoverOK
<1>2. CoverOK'
  BY <1>1, BackedForGood, CoverKept DEF Cover
<1>3. \A v \in Workers : CopiedFrom(v)
  BY DEF CopiedFrom
<1>4. CreditsOK'
  BY <1>3, CreditsKept DEF Cover
<1> QED
  BY <1>2, <1>4 DEF Cover

\* A worker goes on with its payment, or stops.
LEMMA GoesCover ==
  ASSUME Inv, Cover, HistoryGrows, NEW w \in Workers, NEW pc, NEW result,
         (Moves(w) /\ work'[w] = Rest) \/ Goes(w, pc, result),
         pc \in Committed =>
           work[w].pc \in Committed \/ (Job(w) \in Payments /\ Backed(JobDeal(w))),
         UNCHANGED <<payment, mempool, sent>>
  PROVE  Cover'
<1>1. Moves(w) /\ CopiedFrom(w)
  BY RecordsAre DEF Goes, CopiedFrom
<1>2. work'[w].pc \in Committed =>
        \/ work[w].pc \in Committed /\ work'[w].job = work[w].job
        \/ DealOf[work'[w].job] \in Deals /\ Backed(DealOf[work'[w].job])
  BY RecordsAre, DepositsAssumption DEF Goes, JobDeal, Job, Committed
<1> QED
  BY <1>1, <1>2, MoveCover

\* A row is saved, with the credits of the worker's copy.
LEMMA SaveCover ==
  ASSUME Inv, Cover, HistoryGrows, NEW w \in Workers, NEW pc \in {"save", "extended"}, At(w, pc),
         NEW q, q.credited = work[w].copy.credited, SavePayment(Job(w), q),
         \/ Moves(w) /\ work'[w] = Rest
         \/ Goes(w, "finalize", work[w].result),
         UNCHANGED <<mempool, sent>>
  PROVE  Cover'
<1>1. Moves(w) /\ CopiedFrom(w) /\ work'[w].pc \notin Committed
  BY RecordsAre DEF Goes, CopiedFrom, Committed
<1>2. Job(w) \in Payments
  BY AtJob
<1>3. payment' = [payment EXCEPT ![Job(w)] = q] /\ payment \in [Payments -> Payment]
  BY DEF SavePayment, Inv, TypeOK
<1>4. ASSUME NEW p \in Payments, p = Job(w), NEW t \in Transfers
      PROVE  payment'[p].credited[t] <= credits'[p][t]
  <2>1. payment'[p].credited[t] = work[w].copy.credited[t]
    BY <1>2, <1>3, <1>4
  <2>2. work[w].copy.credited[t] <= credits[p][t]
    BY <1>4 DEF Cover, CreditsOK
  <2> QED
    BY <2>1, <2>2, CountsAre DEF Inv, HistoryGrows
<1>5. \A p \in Payments : \/ payment'[p].credited = payment[p].credited
                          \/ \A t \in Transfers : payment'[p].credited[t] <= credits'[p][t]
  BY <1>3, <1>4
<1> QED
  BY <1>1, <1>5, MoveCover

\* match credits the copy it has read, which counts no more than has been credited before.
LEMMA CreditCover ==
  ASSUME Inv, Cover, HistoryGrows, NEW a \in Workers, MatchCredit(a)
  PROVE  Cover'
<1> DEFINE t0 == work[a].deposit
           p0 == Job(a)
           q == [work[a].copy EXCEPT !.credited[t0] = @ + 1]
<1>1. /\ At(a, "credit") /\ p0 \in Payments /\ work[a].copy \in Payment
      /\ Goes(a, "mark", work[a].result)
  BY AtJob, GotoGoes DEF MatchCredit, Inv, Pc
<1>2. t0 \in Transfers
  BY <1>1 DEF Inv, JobsKnown, Known, At
<1>3. work[a].copy.credited \in [Transfers -> Nat]
  BY <1>1 DEF Payment
<1>4. q.credited = [work[a].copy.credited EXCEPT ![t0] = @ + 1]
  BY <1>1 DEF Payment
<1>5. /\ payment' = [payment EXCEPT ![p0] = q] /\ payment \in [Payments -> Payment]
      /\ credits' = [credits EXCEPT ![p0][t0] = @ + 1]
      /\ credits \in [Payments -> [Transfers -> Nat]]
      /\ UNCHANGED <<mempool, sent>>
  BY DEF MatchCredit, SavePayment, chainVars, Inv, TypeOK
<1>6. \A t \in Transfers : work[a].copy.credited[t] <= credits[p0][t]
  BY <1>1 DEF Cover, CreditsOK
<1>7. Moves(a) /\ CopiedFrom(a) /\ work'[a].pc \notin Committed
  BY <1>1 DEF Goes, CopiedFrom, Committed
<1> HIDE DEF p0, t0, q
<1>8. ASSUME NEW p \in Payments, p = p0, NEW t \in Transfers
      PROVE  payment'[p].credited[t] <= credits'[p][t]
  <2>1. payment'[p].credited = [work[a].copy.credited EXCEPT ![t0] = @ + 1]
    BY <1>1, <1>4, <1>5, <1>8
  <2>2. credits'[p] = [credits[p0] EXCEPT ![t0] = @ + 1] /\ credits[p0] \in [Transfers -> Nat]
    BY <1>1, <1>5, <1>8
  <2> QED
    BY <1>2, <1>3, <1>6, <2>1, <2>2
<1>9. \A p \in Payments : p # p0 => payment'[p] = payment[p]
  BY <1>5
<1>10. \A p \in Payments : \/ payment'[p].credited = payment[p].credited
                           \/ \A t \in Transfers : payment'[p].credited[t] <= credits'[p][t]
  BY <1>8, <1>9
<1> QED
  BY <1>5, <1>7, <1>10, MoveCover

LEMMA BroadcastCover ==
  ASSUME Inv, Cover, HistoryGrows, NEW w \in Workers, Transfer(w) \/ Notify(w)
  PROVE  Cover'
<1>1. PICK kind \in DOMAIN Place, amount \in Nat :
        At(w, Place[kind]) /\ Broadcast(w, kind, JobDeal(w), amount)
  <2>1. work[w].amount \in Nat
    BY DEF Inv, TypeOK, Work
  <2> QED
    BY <2>1 DEF Transfer, Notify, Place
<1> DEFINE d == JobDeal(w)
           tx == [kind |-> kind, deal |-> d, amount |-> amount, worker |-> w]
<1>2. /\ \A i \in DOMAIN mempool' : \/ i \in DOMAIN mempool /\ mempool'[i] = mempool[i]
                                    \/ i = Len(mempool) + 1 /\ mempool'[i] = tx
      /\ UNCHANGED <<clone, late, held, float, sent>>
  BY <1>1, Broadcasts
<1>3. UNCHANGED <<payment, work>>
  BY DEF Transfer, Notify, rowVars
<1>4. tx.kind = kind /\ tx.deal = d /\ d \in Deals /\ (kind = "transfer" => work[w].pc = "transfer")
  BY <1>1, AtJob DEF Place, At
<1> HIDE DEF tx
<1>5. kind = "transfer" => Backed(d)
  BY <1>4 DEF Cover, CoverOK, Committed
<1>6. \A v \in Workers : CopiedFrom(v)
  BY <1>3 DEF CopiedFrom
<1>7. CreditsOK'
  BY <1>3, <1>6, CreditsKept DEF Cover
<1> HIDE DEF d
<1>8. ASSUME NEW i \in DOMAIN mempool', mempool'[i].kind = "transfer"
      PROVE  mempool'[i].deal \in Deals /\ Backed(mempool'[i].deal)
  <2>1. CASE i \in DOMAIN mempool /\ mempool'[i] = mempool[i]
    BY <1>8, <2>1, PoolIs DEF Cover, CoverOK, Inv
  <2>2. CASE mempool'[i] = tx
    BY <1>4, <1>5, <1>8, <2>2
  <2> QED
    BY <1>2, <1>8, <2>1, <2>2
<1>9. CoverOK'
  BY <1>2, <1>3, <1>8, BackedForGood, CoverKept DEF Cover
<1> QED
  BY <1>7, <1>9 DEF Cover


LEMMA StepCover ==
  ASSUME Inv, Cover, HistoryGrows, NEW w \in Workers, Step(w)
  PROVE  Cover'
<1>0. TypeOK
  BY DEF Inv
<1> USE DEF rowVars, chainVars
<1>1. CASE Look(w)
  <2>1. At(w, "look") /\ work[w].pc = "look" /\ Job(w) \in Payments
    BY <1>1, AtJob DEF Look
  <2>2. UNCHANGED <<payment, mempool, sent>>
    BY <1>1 DEF Look
  <2>3. \/ \E r \in Results \cup {"none"} : Return(w, r)
        \/ Goto(w, "notify")
        \/ ~Direct(Job(w)) /\ Enough(w) /\ Goto(w, "lock")
    BY <1>1 DEF Look, Results
  <2>4. CASE \/ \E r \in Results \cup {"none"} : Return(w, r)
             \/ Goto(w, "notify")
    <3>1. \/ Moves(w) /\ work'[w] = Rest
          \/ \E r \in Results : Goes(w, "save", r)
          \/ Goes(w, "notify", work[w].result)
      BY <1>0, <2>4, ReturnMoves, GotoGoes DEF Results, Pc
    <3>2. \E next, r : /\ (Moves(w) /\ work'[w] = Rest) \/ Goes(w, next, r)
                       /\ next \in {"save", "notify"}
      BY <3>1
    <3> QED
      BY <2>1, <2>2, <3>2, GoesCover DEF Committed
  <2>5. CASE ~Direct(Job(w)) /\ Enough(w) /\ Goto(w, "lock")
    <3>1. Goes(w, "lock", work[w].result)
      BY <1>0, <2>5, GotoGoes DEF Pc
    <3>2. Backed(JobDeal(w))
      BY <2>1, <2>5, EnoughIsBacked DEF Cover
    <3> QED
      BY <2>1, <2>2, <3>1, <3>2, GoesCover
  <2> QED
    BY <2>3, <2>4, <2>5
<1>2. CASE Lock(w) \/ SetNx(w)
  <2>1. work[w].pc \in {"lock", "setnx"} /\ UNCHANGED <<payment, mempool, sent>>
    BY <1>2 DEF Lock, SetNx, At
  <2>2. Return(w, "received") \/ Goto(w, "setnx") \/ Goto(w, "forward")
    BY <1>2 DEF Lock, SetNx
  <2>3. \/ Moves(w) /\ work'[w] = Rest
        \/ Goes(w, "save", "received")
        \/ Goes(w, "setnx", work[w].result)
        \/ Goes(w, "forward", work[w].result)
    BY <1>0, <2>2, ReturnMoves, GotoGoes DEF Results, Pc
  <2>4. \E next, r : /\ (Moves(w) /\ work'[w] = Rest) \/ Goes(w, next, r)
                     /\ next \in {"save", "setnx", "forward"}
    BY <2>3
  <2> QED
    BY <2>1, <2>4, GoesCover DEF Committed
<1>3. CASE Forward(w)
  <2>1. At(w, "forward") /\ work[w].pc = "forward" /\ Job(w) \in Payments /\ JobDeal(w) \in Deals
    BY <1>3, AtJob DEF Forward
  <2>2. UNCHANGED <<payment, mempool, sent>>
    BY <1>3 DEF Forward
  <2>3. ~Direct(Job(w))
    BY <2>1 DEF Inv, JobsKnown, Known, Forwarding, Job
  <2>4. CASE Succeed(w) \/ Fail(w) \/ Goto(w, "notify")
    <3>1. \/ Moves(w) /\ work'[w] = Rest
          \/ Goes(w, "release", "completed")
          \/ Goes(w, "release", "received")
          \/ Goes(w, "notify", work[w].result)
      BY <1>0, <2>3, <2>4, FailMoves, SucceedGoes, GotoGoes DEF Pc
    <3>2. \E next, r : /\ (Moves(w) /\ work'[w] = Rest) \/ Goes(w, next, r)
                       /\ next \in {"release", "notify"}
      BY <3>1
    <3> QED
      BY <2>1, <2>2, <3>2, GoesCover DEF Committed
  <2>5. CASE work' = [work EXCEPT ![w].pc = "transfer", ![w].amount = Shortfall(JobDeal(w))]
    <3>1. Shortfall(JobDeal(w)) \in Nat
      BY <2>1, RelayAssumption DEF Shortfall, Inv, TypeOK, ChainOK
    <3>2. /\ Moves(w) /\ work'[w].pc = "transfer" /\ work'[w].job = work[w].job
          /\ work'[w].copy = work[w].copy
      BY <1>0, <2>5, <3>1, AmountGoes
    <3>3. CopiedFrom(w) /\ work[w].pc \in Committed
      BY <2>1, <3>2 DEF CopiedFrom, Committed
    <3> QED
      BY <2>2, <3>2, <3>3, MoveCover
  <2> QED
    BY <1>3, <2>4, <2>5 DEF Forward
<1>4. CASE Transfer(w) \/ Notify(w)
  BY <1>4, BroadcastCover
<1>5. CASE Release(w)
  <2>1. work[w].pc = "release" /\ Goes(w, "save", work[w].result)
    BY <1>0, <1>5, GotoGoes DEF Release, Pc, At
  <2> QED
    BY <1>5, <2>1, GoesCover DEF Release, Committed
<1>6. CASE SaveResult(w)
  <2>1. At(w, "save") /\ work[w].copy \in Payment
    BY <1>6, AtJob DEF SaveResult
  <2>2. (Moves(w) /\ work'[w] = Rest) \/ Goes(w, "finalize", work[w].result)
    BY <1>0, <1>6, FinishMoves, GotoGoes DEF SaveResult, Pc
  <2> DEFINE q == [work[w].copy EXCEPT !.status = NewStatus[work[w].result]]
  <2>3. q.credited = work[w].copy.credited
    BY <2>1 DEF Payment
  <2>4. SavePayment(Job(w), q) /\ UNCHANGED <<mempool, sent>>
    BY <1>6 DEF SaveResult
  <2> HIDE DEF q
  <2> QED
    BY <2>1, <2>2, <2>3, <2>4, SaveCover
<1>7. CASE Finalize(w)
  <2>1. work[w].pc = "finalize" /\ Moves(w) /\ work'[w] = Rest
    BY <1>0, <1>7, FinishMoves DEF Finalize, At
  <2>2. (Moves(w) /\ work'[w] = Rest) \/ Goes(w, "finalize", work[w].result)
    BY <2>1
  <2> QED
    BY <1>7, <2>1, <2>2, GoesCover DEF Finalize, Committed
<1>8. CASE MatchCredit(w)
  BY <1>8, CreditCover
<1>9. CASE MatchMark(w)
  <2>1. At(w, "mark") /\ Job(w) \in Payments /\ Start(w, Job(w)) /\ UNCHANGED <<payment, mempool, sent>>
    BY <1>9, AtJob DEF MatchMark
  <2>2. Moves(w) /\ (work'[w] = Rest \/ work'[w] = Looking(Job(w)))
    BY <1>0, <2>1, StartMoves
  <2>3. CopiedFrom(w) /\ work'[w].pc \in {"idle", "look"}
    BY <1>0, <2>1, <2>2, LookingIs, RecordsAre DEF CopiedFrom
  <2> QED
    BY <2>1, <2>2, <2>3, MoveCover DEF Committed
<1>10. CASE ExtendMined(w)
  <2>1. work[w].pc = "extend"
    BY <1>10 DEF ExtendMined, At
  <2>2. (Moves(w) /\ work'[w] = Rest) \/ Goes(w, "extended", work[w].result)
    BY <1>0, <1>10, FinishMoves, GotoGoes DEF ExtendMined, Pc
  <2> QED
    BY <1>10, <2>1, <2>2, GoesCover DEF ExtendMined, Committed
<1>11. CASE ExtendSave(w)
  <2>1. At(w, "extended") /\ work[w].copy \in Payment
    BY <1>11, AtJob DEF ExtendSave
  <2>2. Moves(w) /\ work'[w] = Rest
    BY <1>0, <1>11, FinishMoves DEF ExtendSave
  <2> DEFINE q == [work[w].copy EXCEPT !.status = IF @ = "expired" THEN "pending" ELSE @,
                            !.rate = IF work[w].renew THEN lapsed[Job(w)] ELSE @]
  <2>3. q.credited = work[w].copy.credited
    BY <2>1 DEF Payment
  <2>4. SavePayment(Job(w), q) /\ UNCHANGED <<mempool, sent>>
    BY <1>11 DEF ExtendSave
  <2> HIDE DEF q
  <2> QED
    BY <2>1, <2>2, <2>3, <2>4, SaveCover
<1> QED
  BY <1>1, <1>2, <1>3, <1>4, <1>5, <1>6, <1>7, <1>8, <1>9, <1>10, <1>11 DEF Step

\* What is mined was backed when it was broadcast.
LEMMA MineCover == ASSUME Inv, Cover, HistoryGrows, MineNext PROVE Cover'
<1> DEFINE tx == Head(mempool)
<1>1. /\ tx \in Tx /\ tx = mempool[1] /\ 1 \in DOMAIN mempool
      /\ \A i \in DOMAIN mempool' :
           i + 1 \in DOMAIN mempool /\ i + 1 # 1 /\ mempool'[i] = mempool[i + 1] /\ i \in Nat
  BY Mines DEF MineNext
<1>2. tx.deal \in Deals /\ tx.worker \in Workers \cup {NoOne} /\ tx.amount \in Nat
  BY <1>1 DEF Tx
<1>3. UNCHANGED payment
  BY DEF MineNext, rowVars
<1>4. \A w \in Workers : CopiedFrom(w) /\ (work'[w] = work[w] \/ work'[w].pc \notin Committed)
  <2>1. CASE tx.worker = NoOne
    BY <2>1 DEF MineNext, CopiedFrom
  <2>2. ASSUME NEW w \in Workers, tx.worker = w
        PROVE  Moves(w) /\ CopiedFrom(w) /\ work'[w].pc \notin Committed
    <3>1. /\ work[w].pc \in {"transfer", "notify"}
          /\ \/ Moves(w) /\ work'[w] = Rest
             \/ \E next \in {"release", "notify", "save"} : \E r : Goes(w, next, r)
      BY <2>2, MineMoves, Mines DEF Place, MineNext
    <3> QED
      BY <3>1, RecordsAre DEF Goes, CopiedFrom, Committed
  <2> QED
    BY <1>2, <2>1, <2>2 DEF Moves, CopiedFrom
<1>5. CreditsOK'
  BY <1>3, <1>4, CreditsKept DEF Cover
<1>6. \A v \in Workers : work'[v].pc \in Committed =>
        work[v].pc \in Committed /\ work'[v].job = work[v].job
  BY <1>4
<1>7. \A i \in DOMAIN mempool' : mempool'[i].kind = "transfer" =>
        mempool'[i].deal \in Deals /\ Backed(mempool'[i].deal)
  BY <1>1, PoolIs DEF Cover, CoverOK, Inv
<1>8. \A d \in Deals : sent'[d] > 0 => sent[d] > 0 \/ Backed(d)
  <2>1. tx.kind = "transfer" => Backed(tx.deal)
    BY <1>1 DEF Cover, CoverOK
  <2>2. sent' = sent \/ (tx.kind = "transfer" /\ sent' = [sent EXCEPT ![tx.deal] = @ + tx.amount])
    BY DEF MineNext, Mine, Effect
  <2> HIDE DEF tx
  <2> QED
    BY <1>2, <2>1, <2>2 DEF Inv, TypeOK, ChainOK
<1>9. CoverOK'
  BY <1>6, <1>7, <1>8, BackedForGood, CoverKept DEF Cover
<1> QED
  BY <1>5, <1>9 DEF Cover

\* Some stop waiting; what they have broadcast is pending still.
LEMMA AbandonCover ==
  ASSUME Inv, Cover, HistoryGrows, NEW W \in SUBSET Workers, Abandon(W), UNCHANGED payment,
         \A v \in Workers : CopiedFrom(v) /\ (work'[v] = work[v] \/ work'[v].pc \notin Committed)
  PROVE  Cover'
<1>1. /\ DOMAIN mempool' = DOMAIN mempool /\ UNCHANGED sent
      /\ \A i \in DOMAIN mempool :
           mempool'[i].kind = mempool[i].kind /\ mempool'[i].deal = mempool[i].deal
  BY Abandoned DEF Inv
<1>2. CreditsOK'
  BY CreditsKept DEF Cover
<1>3. \A i \in DOMAIN mempool' : mempool'[i].kind = "transfer" =>
        mempool'[i].deal \in Deals /\ Backed(mempool'[i].deal)
  BY <1>1, PoolIs DEF Cover, CoverOK, Inv
<1>4. \A v \in Workers : work'[v].pc \in Committed =>
        work[v].pc \in Committed /\ work'[v].job = work[v].job
  OBVIOUS
<1>5. CoverOK'
  BY <1>1, <1>3, <1>4, BackedForGood, CoverKept DEF Cover
<1> QED
  BY <1>2, <1>5 DEF Cover

LEMMA MishapCover ==
  ASSUME Inv, Cover, HistoryGrows, MishapNext
  PROVE  Cover'
<1>1. ASSUME NEW r \in Replicas, Crash(r) PROVE Cover'
  <2> DEFINE W == {w \in Workers : Replica[w] = r}
  <2>1. Abandon(W) /\ \A v \in Workers : work'[v] = IF v \in W THEN Rest ELSE work[v]
    BY <1>1, CrashIs
  <2>2. W \in SUBSET Workers /\ UNCHANGED payment
    BY <1>1 DEF Crash, rowVars
  <2> HIDE DEF W
  <2>3. \A v \in Workers : CopiedFrom(v) /\ (work'[v] = work[v] \/ work'[v].pc \notin Committed)
    BY <2>1, RecordsAre DEF CopiedFrom, Committed
  <2> QED
    BY <2>1, <2>2, <2>3, AbandonCover
<1>2. ASSUME NEW w \in Workers, CallFails(w) \/ AnswerLost(w) PROVE Cover'
  <2>1. /\ work[w].pc \in {"look", "extend", "forward", "transfer", "notify"}
        /\ (Moves(w) /\ work'[w] = Rest) \/ Goes(w, "release", "received")
    BY <1>2, GivesUp
  <2>2. UNCHANGED payment
    BY <1>2 DEF CallFails, AnswerLost, rowVars
  <2>3. CASE CallFails(w)
    BY <2>1, <2>2, <2>3, GoesCover DEF CallFails, chainVars, Committed
  <2>4. CASE AnswerLost(w)
    <3>1. Moves(w) /\ CopiedFrom(w) /\ work'[w].pc \notin Committed
      BY <2>1, RecordsAre DEF Goes, CopiedFrom, Committed
    <3>2. \A v \in Workers : CopiedFrom(v) /\ (work'[v] = work[v] \/ work'[v].pc \notin Committed)
      BY <3>1 DEF Moves, CopiedFrom
    <3> QED
      BY <2>2, <2>4, <3>2, AbandonCover DEF AnswerLost
  <2> QED
    BY <1>2, <2>3, <2>4
<1> QED
  BY <1>1, <1>2 DEF MishapNext

LEMMA OtherCover ==
  ASSUME Inv, Cover, HistoryGrows,
         \/ \E w \in Workers, p \in Payments : Begin(w, p)
         \/ \E d \in Deals : LockExpires(d)
         \/ \E p \in Payments : Sweep(p)
         \/ ScanRead \/ \E t \in Transfers : ScanRecord(t)
         \/ AdminNext \/ WorldNext
  PROVE  Cover'
<1> USE DEF rowVars, chainVars
<1>1. ASSUME NEW w \in Workers, NEW p \in Payments,
             \/ Begin(w, p)
             \/ w \in Admins /\ ExtendRead(w, p)
             \/ w \in Admins /\ \E t \in Transfers : MatchRead(w, t, p)
      PROVE  Cover'
  <2>1. Moves(w) /\ CopiedFrom(w) /\ work'[w].pc \notin Committed
    <3>1. CASE Begin(w, p)
      BY <3>1, StartMoves, LookingIs, RecordsAre DEF Begin, Inv, CopiedFrom, Committed
    <3>2. CASE w \in Admins /\ ExtendRead(w, p)
      BY <3>2, ExtendReads DEF CopiedFrom, Committed
    <3>3. ASSUME w \in Admins, NEW t \in Transfers, MatchRead(w, t, p)
          PROVE  Moves(w) /\ CopiedFrom(w) /\ work'[w].pc \notin Committed
      BY <3>3, MatchReads DEF CopiedFrom, Committed
    <3> QED
      BY <1>1, <3>1, <3>2, <3>3
  <2>2. UNCHANGED <<payment, mempool, sent>>
    BY <1>1 DEF Begin, ExtendRead, MatchRead
  <2> QED
    BY <2>1, <2>2, MoveCover
<1>2. CASE AdminNext
  <2>1. CASE \E t \in Transfers : Ignore(t)
    BY <2>1, StillCover DEF Ignore
  <2> QED
    BY <1>1, <1>2, <2>1, AdminIsWorker DEF AdminNext
<1>3. CASE WorldNext
  <2>1. UNCHANGED <<payment, work, mempool, sent>>
    BY <1>3, ClonesAre DEF WorldNext, Arrive, PayClone, RateLapses, OtherCompletes, CancelDeal
  <2> QED
    BY <2>1, StillCover
<1>4. CASE \/ \E d \in Deals : LockExpires(d)
           \/ \E p \in Payments : Sweep(p)
           \/ ScanRead \/ \E t \in Transfers : ScanRecord(t)
  <2>1. UNCHANGED <<payment, work, mempool, sent>>
    BY <1>4 DEF LockExpires, Sweep, ScanRead, ScanRecord
  <2> QED
    BY <2>1, StillCover
<1> QED
  BY <1>1, <1>2, <1>3, <1>4

LEMMA CoverNext == ASSUME Inv, Cover, [Next]_vars PROVE Cover'
<1>1. HistoryGrows
  BY HistoryOnlyGrows
<1>2. CASE UNCHANGED vars
  BY <1>1, <1>2, StillCover DEF vars, rowVars, chainVars
<1> QED
  BY <1>1, <1>2, StepCover, MineCover, MishapCover, OtherCover DEF Next

LEMMA CoverInit == Init => Cover
<1> SUFFICES ASSUME Init PROVE Cover
  OBVIOUS
<1>1. \A w \in Workers : work[w].pc = "idle" /\ work[w].job = NoOne
  BY RecordsAre DEF Init
<1>2. \A p \in Payments, t \in Transfers : payment[p].credited[t] = 0 /\ credits[p][t] = 0
  BY DEF Init, Unpaid
<1>3. CreditsOK
  BY <1>1, <1>2, DepositsAssumption DEF CreditsOK, Job
<1>4. CoverOK
  BY <1>1 DEF Init, ChainInit, CoverOK, Committed
<1> QED
  BY <1>3, <1>4 DEF Cover

\* Where nothing is pending, nothing is.
LEMMA NothingPending ==
  ASSUME NEW d, PendingTransfers(d) = {} PROVE Pending(d) = 0
<1> DEFINE S == PendingTransfers(d)
           adds(it) == it = [s \in SUBSET S |->
                              IF s = {} THEN 0
                              ELSE LET i == CHOOSE i \in s : TRUE
                                   IN  mempool[i].amount + it[s \ {i}]]
           none == [s \in SUBSET S |-> 0]
<1>1. Pending(d) = (CHOOSE it : adds(it))[S]
  BY DEF Pending, MapThenSumSet, MapThenFoldSet
<1> HIDE DEF S
<1>2. S = {}
  BY DEF S
<1>3. adds(none)
  BY <1>2
<1> HIDE DEF none
<1>4. PICK it : adds(it) /\ it = CHOOSE f : adds(f)
  BY <1>3
<1>5. it[S] = 0
  BY <1>2, <1>4
<1> QED
  BY <1>1, <1>4, <1>5

\* FloatBacked: what the float sends to a deal's clone stands for money that has arrived in TON
\* for one of its payments or that administrators have credited to it, for any number of
\* administrators, payments and deposits, whatever is saved from old copies, retried or lost,
\* and whenever a process dies.
THEOREM FloatIsBacked == Spec => []FloatBacked
<1>1. Init => Cover
  BY CoverInit
<1>2. Inv /\ Cover /\ [Next]_vars => Cover'
  BY CoverNext
<1>3. Inv /\ Cover => FloatBacked
  <2> SUFFICES ASSUME Inv, CoverOK, NEW d \in Deals, sent[d] + Pending(d) > 0
               PROVE  Backed(d)
    BY DEF FloatBacked, Cover, Backed
  <2>1. CASE PendingTransfers(d) = {}
    <3>1. sent[d] \in Nat /\ Pending(d) = 0
      BY <2>1, NothingPending DEF Inv, TypeOK, ChainOK
    <3> QED
      BY <3>1 DEF CoverOK
  <2>2. CASE PendingTransfers(d) # {}
    BY <2>2 DEF CoverOK, PendingTransfers
  <2> QED
    BY <2>1, <2>2
<1>4. Spec => []Cover
  BY <1>1, <1>2, InvHolds, PTL DEF Spec
<1> QED
  BY <1>3, <1>4, InvHolds, PTL
====
