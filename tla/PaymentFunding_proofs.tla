---- MODULE PaymentFunding_proofs ----
(***************************************************************************)
(* Invariants of PaymentFunding, for any number of workers, processes,     *)
(* deals and payments and any number of mishaps.                           *)
(***************************************************************************)
EXTENDS PaymentFunding, Sums, TLAPS

Busy == Funding \cup {"fail"}

\* A worker that funds, records or confirms has a payment, and so has a webhook about
\* to claim one; a webhook has no others to see to.
Known(w, f) ==
  /\ \/ f.pc = "idle"
     \/ f.pc = "claim" /\ w \in Sweeps
     \/ f.job \in Payments
  /\ w \in Hooks => f.todo = {}

JobsKnown == \A w \in Workers : Known(w, work[w])

\* A pending transaction that somebody waits for is about his payment's deal.
WaitersKnown ==
  \A i \in DOMAIN mempool :
    mempool[i].worker # NoOne =>
      /\ work[mempool[i].worker].pc \in Busy
      /\ mempool[i].deal = JobDeal(mempool[i].worker)

\* A funded clone holds its deposit.
FundedHolds == \A d \in Deals : clone[d] = "FUNDED" => held[d] >= Deposit[d]

Inv == TypeOK /\ JobsKnown /\ WaitersKnown /\ FundedHolds

-----------------------------------------------------------------------------
(* Typing                                                                  *)

USE DEF Deal, NoCopy, Work, Pc

LEMMA RestIsWork == Rest \in Work
  BY DEF Rest, DealStatus

LEMMA TypesInit == Init => Inv
<1> SUFFICES ASSUME Init PROVE Inv
  OBVIOUS
<1>1. ChainOK
  BY RelayAssumption DEF Init, ChainInit, ChainOK, CloneStatus
<1>2. Ops!OperationsOK
  BY DEF Init, Ops!OperationsInit, Ops!OperationsOK, Ops!Operation, Ops!OperationStatus,
         Ops!NoOperation
<1>3. mishaps \in Mishaps
  BY FundingAssumption DEF Init, Allowed, Mishaps
<1>4. deal \in [Deals -> Deal]
  BY DEF Init, DealStatus
<1>5. cancels \in [Deals -> SUBSET Deal] /\ work \in [Workers -> Work]
  BY RestIsWork DEF Init
<1>6. TypeOK
  BY <1>1, <1>2, <1>3, <1>4, <1>5 DEF Init, TypeOK, PaymentStatus
<1>7. JobsKnown
  BY DEF Init, JobsKnown, Known, Rest
<1>8. WaitersKnown /\ FundedHolds
  BY DEF Init, ChainInit, WaitersKnown, FundedHolds
<1> QED
  BY <1>6, <1>7, <1>8 DEF Inv

\* How the entry of one worker changes.
LEMMA OneMoves ==
  ASSUME Inv, NEW w \in Workers, NEW f \in Work, Known(w, f), work' = [work EXCEPT ![w] = f]
  PROVE  /\ work' \in [Workers -> Work] /\ JobsKnown'
         /\ work'[w] = f
         /\ \A v \in Workers : v # w => work'[v] = work[v]
  BY DEF Inv, TypeOK, JobsKnown

LEMMA GotoMoves ==
  ASSUME Inv, NEW w \in Workers, NEW pc \in Pc, Goto(w, pc), Job(w) \in Payments
  PROVE  /\ work' \in [Workers -> Work] /\ JobsKnown'
         /\ work'[w].pc = pc /\ work'[w].job = work[w].job /\ work'[w].copy = work[w].copy
         /\ \A v \in Workers : v # w => work'[v] = work[v]
<1> DEFINE f == [work[w] EXCEPT !.pc = pc]
<1>1. f \in Work /\ Known(w, f) /\ f.pc = pc /\ f.job = work[w].job /\ f.copy = work[w].copy
  BY DEF Inv, TypeOK, JobsKnown, Known, Job
<1>2. work' = [work EXCEPT ![w] = f]
  BY DEF Goto
<1> HIDE DEF f
<1> QED
  BY <1>1, <1>2, OneMoves

LEMMA FinishedIs ==
  ASSUME NEW w \in Workers, NEW f \in Work, Known(w, f)
  PROVE  /\ Finished(f) \in Work /\ Known(w, Finished(f))
         /\ Finished(f).pc \in {"idle", "claim"}
         /\ Finished(f).copy \in {f.copy, Rest.copy}
  BY RestIsWork, FundingAssumption DEF Finished, Rest, Known

LEMMA FinishMoves ==
  ASSUME Inv, NEW w \in Workers, Finish(w)
  PROVE  /\ work' \in [Workers -> Work] /\ JobsKnown'
         /\ work'[w].pc \in {"idle", "claim"} /\ work'[w].copy \in {work[w].copy, Rest.copy}
         /\ \A v \in Workers : v # w => work'[v] = work[v]
<1>1. work[w] \in Work /\ Known(w, work[w])
  BY DEF Inv, TypeOK, JobsKnown
<1>2. work' = [work EXCEPT ![w] = Finished(work[w])]
  BY <1>1 DEF Finish, Inv, TypeOK
<1> QED
  BY <1>1, <1>2, FinishedIs, OneMoves

LEMMA AbortMoves ==
  ASSUME Inv, NEW w \in Workers, Abort(w)
  PROVE  /\ work' \in [Workers -> Work] /\ JobsKnown'
         /\ work'[w] = Rest
         /\ \A v \in Workers : v # w => work'[v] = work[v]
<1>1. Known(w, Rest)
  BY DEF Known, Rest
<1> QED
  BY <1>1, RestIsWork, OneMoves DEF Abort

\* Rows of the operations stay rows of the operations.
LEMMA OpsKeep ==
  ASSUME Ops!OperationsOK, NEW p \in Payments, NEW r \in Replicas,
         \/ Ops!ClaimFunding(p, r)
         \/ Ops!RenewLease(p, r)
         \/ Ops!ExpireLease(p)
         \/ Ops!OwnerDies(r)
         \/ \E s \in {"COMPLETED", "FAILED_RETRYABLE", "MANUAL_REVIEW"} : Ops!Mark(p, r, s)
         \/ UNCHANGED op
  PROVE  Ops!OperationsOK'
<1> USE DEF Ops!OperationsOK, Ops!Operation, Ops!OperationStatus
<1>1. CASE Ops!ClaimFunding(p, r)
  BY <1>1 DEF Ops!ClaimFunding
<1>2. CASE Ops!RenewLease(p, r) \/ Ops!ExpireLease(p)
  BY <1>2 DEF Ops!RenewLease, Ops!ExpireLease
<1>3. CASE Ops!OwnerDies(r)
  <2>1. ASSUME NEW q \in Payments
        PROVE  [op[q] EXCEPT !.owner = NoOne] \in Ops!Operation /\ op[q] \in Ops!Operation
    OBVIOUS
  <2> HIDE DEF Ops!Operation
  <2> QED
    BY <1>3, <2>1 DEF Ops!OwnerDies
<1>4. ASSUME NEW s \in {"COMPLETED", "FAILED_RETRYABLE", "MANUAL_REVIEW"}, Ops!Mark(p, r, s)
      PROVE  Ops!OperationsOK'
  BY <1>4 DEF Ops!Mark
<1>5. CASE UNCHANGED op
  BY <1>5
<1> QED
  BY <1>1, <1>2, <1>3, <1>4, <1>5

LEMMA WaitersAre ==
  ASSUME WaitersKnown, NEW w \in Workers, Waits(w)
  PROVE  work[w].pc \in Busy
  BY RelayAssumption DEF WaitersKnown, Waits, ToSet

\* A worker that does not wait moves, and nobody else.
LEMMA WaitersFramed ==
  ASSUME Inv, NEW w \in Workers, ~Waits(w), mempool' = mempool,
         \A v \in Workers : v # w => work'[v] = work[v]
  PROVE  WaitersKnown'
<1> SUFFICES ASSUME NEW i \in DOMAIN mempool, mempool[i].worker # NoOne
             PROVE  /\ work'[mempool[i].worker].pc \in Busy
                    /\ mempool[i].deal = DealOf[work'[mempool[i].worker].job]
  BY DEF WaitersKnown, JobDeal, Job
<1>1. mempool[i] \in Tx
  BY DEF Inv, TypeOK, ChainOK
<1>2. mempool[i].worker \in Workers
  BY <1>1 DEF Tx
<1>3. mempool[i].worker # w
  BY DEF Waits, ToSet
<1> QED
  BY <1>2, <1>3 DEF Inv, WaitersKnown, JobDeal, Job

LEMMA BroadcastKeeps ==
  ASSUME Inv, NEW w \in Workers, NEW kind \in {"createEscrow", "transfer", "notifyFunded"},
         NEW amount \in Nat, work[w].pc \in Busy, Job(w) \in Payments,
         Broadcast(w, kind, JobDeal(w), amount), work' = work
  PROVE  ChainOK' /\ WaitersKnown' /\ FundedHolds'
<1> DEFINE tx == [kind |-> kind, deal |-> JobDeal(w), amount |-> amount, worker |-> w]
<1>1. JobDeal(w) \in Deals
  BY FundingAssumption DEF JobDeal
<1>2. tx \in Tx
  BY <1>1 DEF Tx
<1>3. mempool' = Append(mempool, tx) /\ mempool \in Seq(Tx)
  BY DEF Broadcast, Inv, TypeOK, ChainOK
<1>4. ChainOK'
  <2>1. mempool' \in Seq(Tx)
    BY <1>2, <1>3
  <2> QED
    BY <2>1 DEF Broadcast, Inv, TypeOK, ChainOK
<1>5. WaitersKnown'
  <2> SUFFICES ASSUME NEW i \in DOMAIN mempool', mempool'[i].worker # NoOne
               PROVE  /\ work[mempool'[i].worker].pc \in Busy
                      /\ mempool'[i].deal = DealOf[work[mempool'[i].worker].job]
    BY DEF WaitersKnown, JobDeal, Job
  <2> HIDE DEF tx
  <2>1. CASE i \in DOMAIN mempool
    <3>1. mempool'[i] = mempool[i]
      BY <1>2, <1>3, <2>1
    <3> QED
      BY <3>1, <2>1 DEF Inv, WaitersKnown, JobDeal, Job
  <2>2. CASE i \notin DOMAIN mempool
    <3>1. mempool'[i] = tx
      BY <1>2, <1>3, <2>2
    <3> QED
      BY <3>1 DEF tx, JobDeal, Job
  <2> QED
    BY <2>1, <2>2
<1>6. FundedHolds'
  BY DEF Broadcast, Inv, FundedHolds
<1> QED
  BY <1>4, <1>5, <1>6

LEMMA AbandonKeeps ==
  ASSUME Inv, NEW W \in SUBSET Workers, Abandon(W),
         \A v \in Workers \ W : work'[v] = work[v]
  PROVE  ChainOK' /\ WaitersKnown' /\ FundedHolds'
<1>1. mempool \in Seq(Tx)
  BY DEF Inv, TypeOK, ChainOK
<1>2. \A i \in DOMAIN mempool : mempool[i] \in Tx
  BY <1>1
<1>3. ASSUME NEW i \in DOMAIN mempool
      PROVE  /\ mempool'[i] \in Tx
             /\ mempool'[i].deal = mempool[i].deal
             /\ mempool'[i].worker # NoOne =>
                  mempool[i].worker \in Workers \ W /\ mempool'[i].worker = mempool[i].worker
  <2>1. CASE mempool[i].worker \in W
    <3>1. mempool'[i] = [mempool[i] EXCEPT !.worker = NoOne]
      BY <2>1 DEF Abandon
    <3> QED
      BY <1>2, <3>1 DEF Tx
  <2>2. CASE mempool[i].worker \notin W
    <3>1. mempool'[i] = mempool[i]
      BY <2>2 DEF Abandon
    <3> QED
      BY <1>2, <2>2, <3>1 DEF Tx
  <2> QED
    BY <2>1, <2>2
<1>4. DOMAIN mempool' = DOMAIN mempool
  BY DEF Abandon
<1>5. mempool' \in Seq(Tx)
  <2>1. DOMAIN mempool = 1 .. Len(mempool) /\ Len(mempool) \in Nat
    BY <1>1
  <2>2. mempool' \in [1 .. Len(mempool) -> Tx]
    BY <1>3, <2>1 DEF Abandon
  <2> QED
    BY <2>1, <2>2
<1>6. ChainOK' /\ FundedHolds'
  BY <1>5 DEF Abandon, Inv, TypeOK, ChainOK, FundedHolds
<1>7. WaitersKnown'
  BY <1>3, <1>4 DEF Inv, WaitersKnown, JobDeal, Job
<1> QED
  BY <1>6, <1>7

LEMMA LocalKeeps ==
  ASSUME Inv, NEW w \in Workers, ~Waits(w), UNCHANGED chainVars,
         \A v \in Workers : v # w => work'[v] = work[v]
  PROVE  ChainOK' /\ WaitersKnown' /\ FundedHolds'
  BY WaitersFramed DEF chainVars, Inv, TypeOK, ChainOK, FundedHolds, CloneStatus

\* The next transaction is mined.
LEMMA MineKeeps ==
  ASSUME Inv, MineNext
  PROVE  Inv'
<1> DEFINE tx == Head(mempool)
           next == IF Succeeds(tx) THEN AfterReceipt[tx.kind] ELSE "fail"
<1>1. mempool \in Seq(Tx) /\ mempool # <<>> /\ mempool' = Tail(mempool)
  BY DEF Inv, TypeOK, ChainOK, MineNext, Mine
<1>2. /\ tx \in Tx /\ mempool' \in Seq(Tx) /\ 1 \in DOMAIN mempool /\ mempool[1] = tx
      /\ \A i \in DOMAIN mempool' : i + 1 \in DOMAIN mempool /\ mempool'[i] = mempool[i + 1]
  BY <1>1
<1>3. next \in {"attach", "notify", "record", "fail"}
  BY <1>2 DEF Tx, AfterReceipt
<1>4. ChainOK' /\ FundedHolds'
  <2>1. CASE Succeeds(tx)
    <3>1. Effect(tx)
      BY <2>1 DEF MineNext, Mine
    <3>2. tx.deal \in Deals /\ tx.amount \in Nat
      BY <1>2 DEF Tx
    <3> HIDE DEF tx
    <3>3. CASE tx.kind = "createEscrow"
      BY <1>2, <2>1, <3>1, <3>2, <3>3
      DEF Effect, Succeeds, Inv, TypeOK, ChainOK, FundedHolds, CloneStatus, MineNext, Mine
    <3>4. CASE tx.kind = "transfer"
      <4>1. /\ float >= tx.amount /\ float' = float - tx.amount
            /\ held' = [held EXCEPT ![tx.deal] = @ + tx.amount]
            /\ sent' = [sent EXCEPT ![tx.deal] = @ + tx.amount]
            /\ clone' = clone /\ late' = late
        BY <2>1, <3>1, <3>4 DEF Effect, Succeeds, MineNext, Mine
      <4>2. /\ float \in Nat /\ held \in [Deals -> Nat] /\ sent \in [Deals -> Nat]
            /\ clone \in [Deals -> CloneStatus] /\ late \in [Deals -> BOOLEAN]
        BY DEF Inv, TypeOK, ChainOK
      <4>3. float' \in Nat /\ held' \in [Deals -> Nat] /\ sent' \in [Deals -> Nat]
        BY <3>2, <4>1, <4>2
      <4>4. \A d \in Deals : held'[d] >= held[d]
        BY <3>2, <4>1, <4>2
      <4>5. FundedHolds'
        BY <4>1, <4>2, <4>3, <4>4, RelayAssumption DEF Inv, FundedHolds
      <4> QED
        BY <1>2, <4>1, <4>2, <4>3, <4>5 DEF ChainOK
    <3>5. CASE tx.kind = "notifyFunded"
      BY <1>2, <2>1, <3>1, <3>2, <3>5
      DEF Effect, Succeeds, Inv, TypeOK, ChainOK, FundedHolds, CloneStatus, MineNext, Mine
    <3> QED
      BY <1>2, <3>3, <3>4, <3>5 DEF Tx
  <2>2. CASE ~Succeeds(tx)
    BY <1>2, <2>2 DEF MineNext, Mine, Inv, TypeOK, ChainOK, FundedHolds
  <2> QED
    BY <2>1, <2>2
<1>5. CASE tx.worker = NoOne
  <2>1. work' = work
    BY <1>5 DEF MineNext
  <2>2. WaitersKnown'
    BY <1>2, <2>1 DEF Inv, WaitersKnown, JobDeal, Job
  <2> QED
    BY <1>4, <2>1, <2>2
    DEF Inv, TypeOK, JobsKnown, Known, MineNext, dbVars, Ops!OperationsOK
<1>6. CASE tx.worker # NoOne
  <2>1. tx.worker \in Workers /\ Goto(tx.worker, next)
    BY <1>2, <1>6 DEF Tx, MineNext
  <2>2. work[tx.worker].pc \in Busy
    BY <1>2, <1>6 DEF Inv, WaitersKnown
  <2>3. Job(tx.worker) \in Payments
    BY <2>1, <2>2 DEF Inv, JobsKnown, Known, Busy, Funding, Job
  <2> HIDE DEF tx, next
  <2>4. /\ work' \in [Workers -> Work] /\ JobsKnown'
        /\ work'[tx.worker].pc = next /\ work'[tx.worker].job = work[tx.worker].job
        /\ \A v \in Workers : v # tx.worker => work'[v] = work[v]
    BY <1>3, <2>1, <2>3, GotoMoves
  <2>5. \A v \in Workers : work[v].pc \in Busy => work'[v].pc \in Busy /\ work'[v].job = work[v].job
    BY <1>3, <2>4 DEF Busy, Funding
  <2>6. WaitersKnown'
    <3> SUFFICES ASSUME NEW i \in DOMAIN mempool', mempool'[i].worker # NoOne
                 PROVE  /\ work'[mempool'[i].worker].pc \in Busy
                        /\ mempool'[i].deal = DealOf[work'[mempool'[i].worker].job]
      BY DEF WaitersKnown, JobDeal, Job
    <3>1. mempool'[i] = mempool[i + 1] /\ i + 1 \in DOMAIN mempool
      BY <1>2
    <3>2. mempool'[i] \in Tx
      BY <1>2
    <3>3. mempool'[i].worker \in Workers
      BY <3>2 DEF Tx
    <3> QED
      BY <3>1, <3>3, <2>5 DEF Inv, WaitersKnown, JobDeal, Job
  <2> QED
    BY <1>4, <2>4, <2>6 DEF Inv, TypeOK, MineNext, dbVars, Ops!OperationsOK
<1> QED
  BY <1>5, <1>6

LEMMA StillKeeps ==
  ASSUME Inv, UNCHANGED <<chainVars, work>>
  PROVE  ChainOK' /\ WaitersKnown' /\ FundedHolds' /\ work' \in [Workers -> Work] /\ JobsKnown'
  BY DEF chainVars, Inv, TypeOK, ChainOK, FundedHolds, CloneStatus, WaitersKnown, JobsKnown,
         Known, JobDeal, Job

\* What is known of a worker that is somewhere in the middle of a payment.
LEMMA AtJob ==
  ASSUME Inv, NEW w \in Workers, NEW pc, At(w, pc),
         pc # "idle" /\ (pc # "claim" \/ w \in Hooks)
  PROVE  /\ ~Waits(w) /\ work[w].pc = pc
         /\ Job(w) \in Payments /\ JobDeal(w) \in Deals /\ Copy(w) \in Deal
         /\ Proc(w) \in Replicas /\ work[w] \in Work
<1>1. ~Waits(w) /\ work[w].pc = pc /\ work[w] \in Work /\ Known(w, work[w])
  BY DEF At, Inv, TypeOK, JobsKnown
<1>2. Job(w) \in Payments
  BY <1>1, FundingAssumption DEF Known, Job
<1> QED
  BY <1>1, <1>2, RelayAssumption, FundingAssumption DEF JobDeal, Copy, Proc

\* A worker that goes from one step to the next, changing operations, deals or the ledger.
LEMMA GotoKeeps ==
  ASSUME Inv, NEW w \in Workers, NEW pc \in Pc, Goto(w, pc), Job(w) \in Payments, ~Waits(w),
         UNCHANGED chainVars
  PROVE  ChainOK' /\ WaitersKnown' /\ FundedHolds' /\ work' \in [Workers -> Work] /\ JobsKnown'
  BY GotoMoves, LocalKeeps

LEMMA LeaveKeeps ==
  ASSUME Inv, NEW w \in Workers, Finish(w) \/ Abort(w), ~Waits(w), UNCHANGED chainVars
  PROVE  ChainOK' /\ WaitersKnown' /\ FundedHolds' /\ work' \in [Workers -> Work] /\ JobsKnown'
  BY FinishMoves, AbortMoves, LocalKeeps

LEMMA SaveKeeps ==
  ASSUME Inv, NEW d \in Deals, NEW copy \in Deal, Save(d, copy)
  PROVE  deal' \in [Deals -> Deal]
  BY DEF Inv, TypeOK, Save

LEMMA SpendKeeps ==
  ASSUME Inv, NEW what \in {"crashes", "stalls", "slow", "faults", "lost", "crowd", "swaps"},
         Spend(what)
  PROVE  mishaps' \in Mishaps
<1>1. /\ mishaps \in [crashes : Nat, stalls : Nat, slow : Nat, faults : Nat, lost : Nat, crowd : Nat, swaps : Nat]
      /\ mishaps[what] > 0 /\ mishaps' = [mishaps EXCEPT ![what] = @ - 1]
  BY DEF Inv, TypeOK, Mishaps, Spend
<1>2. mishaps[what] \in Nat
  BY <1>1
<1>3. mishaps[what] - 1 \in Nat
  BY <1>1, <1>2
<1>4. mishaps' \in [crashes : Nat, stalls : Nat, slow : Nat, faults : Nat, lost : Nat, crowd : Nat, swaps : Nat]
  BY <1>1, <1>3
<1> QED
  BY <1>4 DEF Mishaps

\* Every step of a worker keeps the types.
LEMMA StepTypes ==
  ASSUME Inv, NEW w \in Workers, Step(w)
  PROVE  Inv'
<1> USE DEF Inv, TypeOK, dbVars
<1>0. ASSUME UNCHANGED op
      PROVE  Ops!OperationsOK'
  BY <1>0 DEF Ops!OperationsOK
<1>1. CASE LockFundingFx(w)
  <2>1. At(w, "price") /\ Goto(w, "claim") /\ (Save(JobDeal(w), Copy(w)) \/ deal' = deal)
    BY <1>1 DEF LockFundingFx
  <2>2. deal' \in [Deals -> Deal]
    BY <2>1, AtJob, SaveKeeps
  <2> QED
    BY <1>0, <1>1, <2>1, <2>2, AtJob, GotoKeeps DEF LockFundingFx
<1>2. ASSUME NEW p \in Payments, Claim(w, p)
      PROVE  Inv'
  <2> DEFINE f == [work[w] EXCEPT !.job = p, !.todo = @ \ {p}]
             g == [f EXCEPT !.pc = AfterClaim(w, f.copy[p])]
             h == [f EXCEPT !.pc = "confirm"]
  <2>1. work[w] \in Work /\ Known(w, work[w]) /\ ~Waits(w) /\ Proc(w) \in Replicas
    BY <1>2, RelayAssumption DEF Claim, At, JobsKnown, Proc
  <2>2. f \in Work /\ Known(w, f) /\ f.job = p /\ f.copy \in [Payments -> Deal]
    BY <2>1 DEF Known
  <2>3. AfterClaim(w, f.copy[p]) \in {"deploy", "attach", "review"}
    BY DEF AfterClaim
  <2> HIDE DEF f
  <2>4. g \in Work /\ Known(w, g) /\ h \in Work /\ Known(w, h)
    BY <2>2, <2>3 DEF Known
  <2>5. \E x \in {g, h, Finished(f)} : work' = [work EXCEPT ![w] = x]
    BY <1>2 DEF Claim, f
  <2> HIDE DEF g, h
  <2>6. /\ work' \in [Workers -> Work] /\ JobsKnown'
        /\ \A v \in Workers : v # w => work'[v] = work[v]
    BY <2>2, <2>4, <2>5, FinishedIs, OneMoves
  <2>7. Ops!OperationsOK'
    BY <1>2, <2>1, OpsKeep DEF Claim
  <2> QED
    BY <1>2, <2>1, <2>6, <2>7, LocalKeeps DEF Claim
<1>3. CASE LeaseLost(w)
  <2>1. \E pc \in {"deploy", "forward", "attach", "record"} : At(w, pc)
    BY <1>3 DEF LeaseLost
  <2> QED
    BY <1>0, <1>3, <2>1, AtJob, GotoKeeps DEF LeaseLost
<1>4. CASE Deploy(w) \/ Transfer(w) \/ Notify(w)
  <2>1. PICK pc \in {"deploy", "transfer", "notify"} : At(w, pc)
    BY <1>4 DEF Deploy, Transfer, Notify
  <2>2. Job(w) \in Payments /\ work[w].pc \in Busy /\ work[w].amount \in Nat /\ Proc(w) \in Replicas
    BY <2>1, AtJob DEF Busy, Funding
  <2>3. ChainOK' /\ WaitersKnown' /\ FundedHolds'
    BY <1>4, <2>2, BroadcastKeeps DEF Deploy, Transfer, Notify
  <2>4. Ops!OperationsOK'
    BY <1>0, <1>4, <2>2, OpsKeep DEF Deploy, Transfer, Notify
  <2> QED
    BY <1>4, <2>3, <2>4 DEF Deploy, Transfer, Notify, JobsKnown, Known
<1>5. CASE Attach(w)
  <2> DEFINE copy == [Copy(w) EXCEPT !.address = TRUE]
             f == [work[w] EXCEPT !.copy[Job(w)] = copy,
                                  !.pc = IF w \in Hooks THEN "review" ELSE "forward"]
  <2>1. At(w, "attach") /\ ~Waits(w) /\ Job(w) \in Payments /\ JobDeal(w) \in Deals /\ copy \in Deal
    BY <1>5, AtJob DEF Attach, DealStatus
  <2> HIDE DEF copy, Deal
  <2>2. f \in Work /\ Known(w, f)
    <3>1. work[w] \in Work /\ Known(w, work[w])
      BY DEF JobsKnown
    <3>2. [work[w].copy EXCEPT ![Job(w)] = copy] \in [Payments -> Deal]
      BY <2>1, <3>1
    <3>3. f = [work[w] EXCEPT !.copy = [work[w].copy EXCEPT ![Job(w)] = copy],
                              !.pc = IF w \in Hooks THEN "review" ELSE "forward"]
      BY <3>1
    <3> QED
      BY <2>1, <3>1, <3>2, <3>3 DEF Known, Job
  <2>3. work' = [work EXCEPT ![w] = f] /\ Save(JobDeal(w), copy)
    BY <1>5 DEF Attach, copy
  <2> HIDE DEF f
  <2>4. /\ work' \in [Workers -> Work] /\ JobsKnown'
        /\ \A v \in Workers : v # w => work'[v] = work[v]
    BY <2>2, <2>3, OneMoves
  <2> QED
    BY <1>0, <1>5, <2>1, <2>3, <2>4, LocalKeeps, SaveKeeps DEF Attach
<1>6. CASE Review(w)
  <2>1. At(w, "review") /\ (Goto(w, "forward") \/ Finish(w) \/ Abort(w))
    BY <1>6 DEF Review
  <2>2. /\ ChainOK' /\ WaitersKnown' /\ FundedHolds'
        /\ work' \in [Workers -> Work] /\ JobsKnown'
    BY <1>6, <2>1, AtJob, GotoKeeps, LeaveKeeps DEF Review
  <2>3. Ops!OperationsOK'
    BY <1>0, <1>6, <2>1, AtJob, OpsKeep DEF Review
  <2> QED
    BY <1>6, <2>2, <2>3 DEF Review
<1>7. CASE Forward(w)
  <2> DEFINE f == [work[w] EXCEPT !.pc = NextCall(JobDeal(w)), !.amount = Shortfall(JobDeal(w))]
  <2>1. /\ At(w, "forward") /\ ~Waits(w) /\ Job(w) \in Payments /\ JobDeal(w) \in Deals
        /\ Proc(w) \in Replicas
    BY <1>7, AtJob DEF Forward
  <2>2. Shortfall(JobDeal(w)) \in Nat
    BY <2>1, RelayAssumption DEF Shortfall, ChainOK
  <2>3. NextCall(JobDeal(w)) \in {"record", "transfer", "notify", "fail"}
    BY <2>2 DEF NextCall
  <2>4. f \in Work /\ Known(w, f)
    BY <2>1, <2>2, <2>3 DEF JobsKnown, Known, Job
  <2>5. work' = [work EXCEPT ![w] = f] /\ Ops!RenewLease(Job(w), Proc(w))
    BY <1>7 DEF Forward
  <2> HIDE DEF f
  <2>6. /\ work' \in [Workers -> Work] /\ JobsKnown'
        /\ \A v \in Workers : v # w => work'[v] = work[v]
    BY <2>4, <2>5, OneMoves
  <2>7. Ops!OperationsOK'
    BY <2>1, <2>5, OpsKeep
  <2> QED
    BY <1>7, <2>1, <2>6, <2>7, LocalKeeps DEF Forward
<1>8. CASE RecordFunding(w)
  <2>1. At(w, "record") /\ Goto(w, "complete")
    BY <1>8 DEF RecordFunding
  <2> QED
    BY <1>0, <1>8, <2>1, AtJob, GotoKeeps DEF RecordFunding
<1>9. CASE MarkCompleted(w)
  <2>1. At(w, "complete") /\ (Goto(w, "confirm") \/ Goto(w, "fail"))
    BY <1>9 DEF MarkCompleted
  <2>2. Ops!OperationsOK'
    BY <1>0, <1>9, <2>1, AtJob, OpsKeep DEF MarkCompleted
  <2> QED
    BY <1>9, <2>1, <2>2, AtJob, GotoKeeps DEF MarkCompleted
<1>10. CASE MarkRetryableFailure(w)
  <2>1. At(w, "fail") /\ (Finish(w) \/ Abort(w))
    BY <1>10 DEF MarkRetryableFailure
  <2>2. Ops!OperationsOK'
    BY <1>0, <1>10, <2>1, AtJob, OpsKeep DEF MarkRetryableFailure
  <2> QED
    BY <1>10, <2>1, <2>2, AtJob, LeaveKeeps DEF MarkRetryableFailure
<1>11. CASE ConfirmPayment(w)
  <2> DEFINE row == deal[JobDeal(w)]
             f == [work[w] EXCEPT !.copy[Job(w)] = row, !.pc = "confirming"]
  <2>1. At(w, "confirm") /\ ~Waits(w) /\ Job(w) \in Payments /\ JobDeal(w) \in Deals /\ row \in Deal
    BY <1>11, AtJob DEF ConfirmPayment
  <2> HIDE DEF row, Deal
  <2>2. f \in Work /\ Known(w, f)
    <3>1. work[w] \in Work /\ Known(w, work[w])
      BY DEF JobsKnown
    <3>2. [work[w].copy EXCEPT ![Job(w)] = row] \in [Payments -> Deal]
      BY <2>1, <3>1
    <3>3. f = [work[w] EXCEPT !.copy = [work[w].copy EXCEPT ![Job(w)] = row], !.pc = "confirming"]
      BY <3>1
    <3> QED
      BY <2>1, <3>1, <3>2, <3>3 DEF Known, Job
  <2>3. Finish(w) \/ Abort(w) \/ work' = [work EXCEPT ![w] = f]
    BY <1>11 DEF ConfirmPayment, row
  <2> HIDE DEF f
  <2>4. /\ work' \in [Workers -> Work] /\ JobsKnown'
        /\ \A v \in Workers : v # w => work'[v] = work[v]
    BY <2>2, <2>3, OneMoves, FinishMoves, AbortMoves
  <2> QED
    BY <1>0, <1>11, <2>1, <2>4, LocalKeeps DEF ConfirmPayment
<1>12. CASE SavePaid(w)
  <2> DEFINE copy == [Copy(w) EXCEPT !.status = "IN_PROGRESS", !.paid = TRUE]
  <2>1. At(w, "confirming") /\ ~Waits(w) /\ JobDeal(w) \in Deals /\ copy \in Deal
    BY <1>12, AtJob DEF SavePaid, DealStatus
  <2> HIDE DEF copy
  <2> QED
    BY <1>0, <1>12, <2>1, LeaveKeeps, SaveKeeps DEF SavePaid, copy
<1> QED
  BY <1>1, <1>2, <1>3, <1>4, <1>5, <1>6, <1>7, <1>8, <1>9, <1>10, <1>11, <1>12 DEF Step

LEMMA ProviderTypes ==
  ASSUME Inv, ProviderNext
  PROVE  Inv'
<1> USE DEF Inv, TypeOK, Ops!OperationsOK
<1>1. ASSUME NEW w \in Hooks, NEW p \in Payments, PaidWebhook(w, p)
      PROVE  Inv'
  <2> DEFINE f == [Rest EXCEPT !.pc = "price", !.job = p, !.copy[p] = deal[DealOf[p]]]
  <2>1. w \in Workers /\ DealOf[p] \in Deals /\ deal[DealOf[p]] \in Deal
    BY FundingAssumption
  <2>2. ~Waits(w)
    BY <1>1, <2>1, WaitersAre DEF PaidWebhook, Busy, Funding
  <2>3. f \in Work /\ Known(w, f)
    <3> HIDE DEF Deal
    <3>1. [Rest.copy EXCEPT ![p] = deal[DealOf[p]]] \in [Payments -> Deal]
      BY <2>1, RestIsWork
    <3>2. f = [Rest EXCEPT !.copy = [Rest.copy EXCEPT ![p] = deal[DealOf[p]]],
                           !.pc = "price", !.job = p]
      BY DEF Rest
    <3> QED
      BY <3>1, <3>2, RestIsWork DEF Known, Rest
  <2>4. work' = [work EXCEPT ![w] = f] \/ work' = work
    BY <1>1 DEF PaidWebhook
  <2> HIDE DEF f
  <2>5. /\ ChainOK' /\ WaitersKnown' /\ FundedHolds'
        /\ work' \in [Workers -> Work] /\ JobsKnown'
    BY <1>1, <2>1, <2>2, <2>3, <2>4, OneMoves, LocalKeeps, StillKeeps DEF PaidWebhook
  <2>6. payment' \in [Payments -> PaymentStatus]
    BY <1>1 DEF PaidWebhook, MarkPaid, PaymentStatus
  <2> QED
    BY <1>1, <2>5, <2>6 DEF PaidWebhook
<1>2. ASSUME NEW p \in Payments, NEW s \in Notices, NoticeWebhook(p, s)
      PROVE  Inv'
  <2>1. payment' \in [Payments -> PaymentStatus]
    BY <1>2 DEF NoticeWebhook, PaymentStatus
  <2> QED
    BY <1>2, <2>1, StillKeeps DEF NoticeWebhook
<1> QED
  BY <1>1, <1>2 DEF ProviderNext

LEMMA SweepTypes ==
  ASSUME Inv, NEW w \in Sweeps, StartSweep(w)
  PROVE  Inv'
<1>0. PICK seen \in SUBSET Completed :
        LET found == {p \in seen : deal[DealOf[p]].status = "PENDING_PAYMENT" /\ wallets[DealOf[p]]}
        IN  work' = [work EXCEPT ![w] =
              [Rest EXCEPT !.pc = "claim", !.todo = found,
                           !.copy = [p \in Payments |->
                                       IF p \in found THEN deal[DealOf[p]] ELSE NoCopy]]]
  BY DEF StartSweep
<1> DEFINE found == {p \in seen : deal[DealOf[p]].status = "PENDING_PAYMENT" /\ wallets[DealOf[p]]}
           copies == [p \in Payments |-> IF p \in found THEN deal[DealOf[p]] ELSE NoCopy]
           f == [Rest EXCEPT !.pc = "claim", !.todo = found, !.copy = copies]
<1>1. w \in Workers /\ w \notin Hooks
  BY FundingAssumption
<1>2. ~Waits(w)
  BY <1>1, WaitersAre DEF StartSweep, Inv, Busy, Funding
<1>3. copies \in [Payments -> Deal]
  <2>1. \A p \in Payments : deal[DealOf[p]] \in Deal
    BY FundingAssumption DEF Inv, TypeOK
  <2>2. NoCopy \in Deal
    BY DEF DealStatus
  <2> HIDE DEF found, NoCopy, Deal
  <2> QED
    BY <2>1, <2>2
<1>4. f \in Work /\ Known(w, f)
  <2>1. found \subseteq Payments
    BY DEF Completed
  <2> HIDE DEF copies, found, Deal
  <2> QED
    BY <1>1, <1>3, <2>1, RestIsWork DEF Known
<1>5. work' = [work EXCEPT ![w] = f]
  BY <1>0
<1> HIDE DEF f
<1>6. /\ ChainOK' /\ WaitersKnown' /\ FundedHolds'
      /\ work' \in [Workers -> Work] /\ JobsKnown'
  BY <1>1, <1>2, <1>4, <1>5, OneMoves, LocalKeeps DEF StartSweep
<1> QED
  BY <1>6 DEF StartSweep, dbVars, Inv, TypeOK, Ops!OperationsOK

LEMMA PartiesTypes ==
  ASSUME Inv, PartiesNext, UNCHANGED <<dbVars, work, mishaps>>
  PROVE  Inv'
<1> USE DEF Inv, TypeOK
<1>1. PICK d \in Deals : DeadlinePasses(d) \/ CloseClone(d) \/ RescueClone(d) \/ SettleClone(d)
  BY DEF PartiesNext
<1>2. Deposit \in [Deals -> Nat]
  BY RelayAssumption
<1>3. ChainOK' /\ FundedHolds'
  <2> USE DEF ChainOK, FundedHolds, CloneStatus
  <2>1. CASE DeadlinePasses(d)
    BY <2>1 DEF DeadlinePasses
  <2>2. CASE CloseClone(d)
    BY <2>2 DEF CloseClone, Void
  <2>3. CASE RescueClone(d)
    BY <2>3 DEF RescueClone, Void
  <2>4. CASE SettleClone(d)
    <3>1. held[d] - Deposit[d] \in Nat
      BY <1>2, <2>4 DEF SettleClone
    <3> QED
      BY <2>4, <3>1 DEF SettleClone
  <2> QED
    BY <1>1, <2>1, <2>2, <2>3, <2>4
<1>4. mempool' = mempool
  BY <1>1 DEF DeadlinePasses, CloseClone, RescueClone, SettleClone
<1>5. WaitersKnown' /\ JobsKnown'
  BY <1>4 DEF WaitersKnown, JobsKnown, Known, JobDeal, Job
<1> QED
  BY <1>3, <1>5 DEF dbVars, Ops!OperationsOK

LEMMA UsersTypes ==
  ASSUME Inv, UsersNext
  PROVE  Inv'
<1> USE DEF Inv, TypeOK, Ops!OperationsOK
<1>1. ASSUME NEW d \in Deals, ReadToCancel(d)
      PROVE  Inv'
  <2> HIDE DEF Deal
  <2>1. cancels' \in [Deals -> SUBSET Deal]
    BY <1>1 DEF ReadToCancel
  <2> QED
    BY <1>1, <2>1, StillKeeps DEF ReadToCancel
<1>2. ASSUME NEW d \in Deals, SaveCancelled(d)
      PROVE  Inv'
  <2>1. cancels' \in [Deals -> SUBSET Deal]
    <3> HIDE DEF Deal
    <3> QED
      BY <1>2 DEF SaveCancelled
  <2>2. PICK copy \in cancels[d] : Save(d, [copy EXCEPT !.status = "CANCELLED"])
    BY <1>2 DEF SaveCancelled
  <2>3. [copy EXCEPT !.status = "CANCELLED"] \in Deal
    BY <2>2 DEF DealStatus
  <2>4. deal' \in [Deals -> Deal]
    BY <2>2, <2>3, SaveKeeps
  <2> QED
    BY <1>2, <2>1, <2>4, StillKeeps DEF SaveCancelled
<1>3. ASSUME NEW d \in Deals, AttachWallets(d)
      PROVE  Inv'
  <2>1. wallets' \in [Deals -> BOOLEAN]
    BY <1>3 DEF AttachWallets
  <2> QED
    BY <1>3, <2>1, StillKeeps DEF AttachWallets
<1> QED
  BY <1>1, <1>2, <1>3, PartiesTypes DEF UsersNext

LEMMA MishapTypes ==
  ASSUME Inv, MishapNext
  PROVE  Inv'
<1> USE DEF Inv, TypeOK
<1>1. ASSUME NEW r \in Replicas, Crash(r)
      PROVE  Inv'
  <2> DEFINE W == {w \in Workers : Replica[w] = r}
  <2>1. \A v \in Workers : work'[v] = IF v \in W THEN Rest ELSE work[v]
    BY <1>1 DEF Crash
  <2>2. ChainOK' /\ WaitersKnown' /\ FundedHolds'
    BY <1>1, <2>1, AbandonKeeps DEF Crash
  <2>3. work' \in [Workers -> Work] /\ JobsKnown'
    <3>1. \A v \in Workers : Known(v, Rest) /\ Known(v, work[v])
      BY DEF Known, Rest, JobsKnown
    <3> HIDE DEF W, Rest, Work
    <3>2. work' \in [Workers -> Work]
      <4>1. work' = [v \in Workers |-> IF v \in W THEN Rest ELSE work[v]]
        BY <1>1 DEF Crash, W
      <4> QED
        BY <4>1, RestIsWork
    <3> QED
      BY <2>1, <3>1, <3>2 DEF JobsKnown
  <2>4. Ops!OperationsOK'
    BY <1>1, OpsKeep DEF Crash, Ops!OperationsOK, Ops!OwnerDies, Ops!Operation, Ops!OperationStatus, Ops!Owned
  <2>5. mishaps' \in Mishaps
    BY <1>1, SpendKeeps DEF Crash
  <2> QED
    BY <1>1, <2>2, <2>3, <2>4, <2>5 DEF Crash
<1>2. ASSUME NEW p \in Payments, LeaseExpires(p)
      PROVE  Inv'
  <2>1. Ops!OperationsOK'
    BY <1>2 DEF LeaseExpires, Ops!ExpireLease, Ops!OperationsOK, Ops!Operation
  <2>2. mishaps' \in Mishaps
    BY <1>2, SpendKeeps DEF LeaseExpires
  <2> QED
    BY <1>2, <2>1, <2>2, StillKeeps DEF LeaseExpires
<1>3. ASSUME NEW w \in Workers, CallFails(w)
      PROVE  Inv'
  <2>1. PICK pc \in {"deploy", "forward", "transfer", "notify"} : At(w, pc)
    BY <1>3 DEF CallFails
  <2>2. mishaps' \in Mishaps
    BY <1>3, SpendKeeps DEF CallFails
  <2> QED
    BY <1>3, <2>1, <2>2, AtJob, GotoKeeps DEF CallFails, dbVars, Ops!OperationsOK
<1>4. ASSUME NEW w \in Workers, AnswerLost(w)
      PROVE  Inv'
  <2>1. work[w].pc \in Busy /\ Job(w) \in Payments
    BY <1>4, WaitersAre DEF AnswerLost, JobsKnown, Known, Busy, Funding, Job
  <2>2. /\ work' \in [Workers -> Work] /\ JobsKnown'
        /\ \A v \in Workers : v # w => work'[v] = work[v]
    BY <1>4, <2>1, GotoMoves DEF AnswerLost
  <2>3. ChainOK' /\ WaitersKnown' /\ FundedHolds'
    BY <1>4, <2>2, AbandonKeeps DEF AnswerLost
  <2>4. mishaps' \in Mishaps
    BY <1>4, SpendKeeps DEF AnswerLost
  <2> QED
    BY <1>4, <2>2, <2>3, <2>4 DEF AnswerLost, dbVars, Ops!OperationsOK
<1>5. CASE OtherCompletes
  <2>1. mishaps' \in Mishaps
    BY <1>5, SpendKeeps DEF OtherCompletes
  <2> QED
    BY <1>5, <2>1, StillKeeps DEF OtherCompletes, dbVars, Ops!OperationsOK
<1>6. ASSUME NEW d \in Deals, DetachWallets(d)
      PROVE  Inv'
  <2>1. wallets' \in [Deals -> BOOLEAN]
    BY <1>6 DEF DetachWallets
  <2>2. mishaps' \in Mishaps
    BY <1>6, SpendKeeps DEF DetachWallets
  <2> QED
    BY <1>6, <2>1, <2>2, StillKeeps DEF DetachWallets, Ops!OperationsOK
<1> QED
  BY <1>1, <1>2, <1>3, <1>4, <1>5, <1>6 DEF MishapNext

LEMMA RenewTypes ==
  ASSUME Inv, NEW w \in Workers, RenewWhileWaiting(w)
  PROVE  Inv'
<1>1. Job(w) \in Payments /\ Proc(w) \in Replicas
  BY WaitersAre, RelayAssumption
  DEF RenewWhileWaiting, Inv, JobsKnown, Known, Busy, Funding, Job, Proc
<1>2. Ops!OperationsOK'
  BY <1>1, OpsKeep DEF RenewWhileWaiting, Inv, TypeOK
<1> QED
  BY <1>2, StillKeeps DEF RenewWhileWaiting, Inv, TypeOK

LEMMA TypesNext == Inv /\ [Next]_vars => Inv'
<1> SUFFICES ASSUME Inv, [Next]_vars PROVE Inv'
  OBVIOUS
<1>1. CASE UNCHANGED vars
  BY <1>1, StillKeeps DEF vars, dbVars, Inv, TypeOK, Ops!OperationsOK
<1> QED
  BY <1>1, StepTypes, RenewTypes, SweepTypes, MineKeeps, ProviderTypes, UsersTypes, MishapTypes
  DEF Next

LEMMA InvHolds == Spec => []Inv
  BY TypesInit, TypesNext, PTL DEF Spec

\* Types hold: no balance, float or bound of a mishap goes below zero, whatever is
\* transferred, settled and rescued.
THEOREM FundingTypes == Spec => []TypeOK
<1>1. Inv => TypeOK
  BY DEF Inv
<1> QED
  BY <1>1, InvHolds, PTL

-----------------------------------------------------------------------------
(* What is said to be funded is funded                                     *)

\* A worker that records or confirms a funding, and whoever has read that the deal is
\* under way, has an escrow that is funded.
WorkersTruthful ==
  \A w \in Workers :
    /\ work[w].pc \in {"record", "complete", "confirm", "confirming"} => Locked(JobDeal(w))
    /\ \A p \in Payments : work[w].copy[p].status = "IN_PROGRESS" => Locked(DealOf[p])

Truth == DeliveryBacked /\ BooksTruthful /\ WorkersTruthful

LEMMA TruthInit == Init => Truth
  BY DEF Init, Truth, DeliveryBacked, BooksTruthful, WorkersTruthful, Rest, Ops!OperationsInit,
         Ops!NoOperation

\* Nothing but a settlement takes the deposit out of a funded clone.
LEMMA LockedStays ==
  ASSUME Inv, [Next]_vars, NEW d \in Deals, Locked(d)
  PROVE  Locked(d)'
<1> USE DEF Locked
<1>1. CASE MineNext
  <2>1. clone' = clone \/ \E tx \in Tx : Succeeds(tx) /\ Effect(tx)
    BY <1>1 DEF MineNext, Mine, Inv, TypeOK, ChainOK
  <2>2. ASSUME NEW tx \in Tx, Succeeds(tx), Effect(tx)
        PROVE  Locked(d)'
    BY <2>2 DEF Succeeds, Effect, Tx, Inv, TypeOK, ChainOK
  <2> QED
    BY <2>1, <2>2
<1>2. CASE PartiesNext
  <2>1. PICK e \in Deals : DeadlinePasses(e) \/ CloseClone(e) \/ RescueClone(e) \/ SettleClone(e)
    BY <1>2 DEF PartiesNext
  <2> QED
    BY <2>1
    DEF DeadlinePasses, CloseClone, RescueClone, SettleClone, Inv, TypeOK, ChainOK
<1>3. CASE clone' = clone
  BY <1>3
<1>4. ASSUME NEW w \in Workers, Step(w)
      PROVE  clone' = clone
  BY <1>4
  DEF Step, LockFundingFx, Claim, LeaseLost, Deploy, Attach, Review, Forward, Transfer, Notify,
      RecordFunding, MarkCompleted, MarkRetryableFailure, ConfirmPayment, SavePaid, Broadcast,
      chainVars
<1>5. ASSUME ProviderNext \/ MishapNext \/ (\E w \in Workers : RenewWhileWaiting(w))
                          \/ (\E w \in Sweeps : StartSweep(w))
      PROVE  clone' = clone
  BY <1>5
  DEF ProviderNext, PaidWebhook, NoticeWebhook, MishapNext, Crash, LeaseExpires, CallFails,
      AnswerLost, OtherCompletes, DetachWallets, Abandon, RenewWhileWaiting, StartSweep, chainVars
<1>6. CASE UsersNext
  BY <1>2, <1>3, <1>6 DEF UsersNext, ReadToCancel, SaveCancelled, AttachWallets, chainVars
<1> QED
  BY <1>1, <1>3, <1>4, <1>5, <1>6 DEF Next, vars, chainVars

\* The rows of deals, operations and ledger stay truthful when what is added is.
LEMMA BooksKept ==
  ASSUME Inv, Truth, \A d \in Deals : Locked(d) => Locked(d)',
         \A d \in Deals : deal'[d].status = "IN_PROGRESS" =>
                            deal[d].status = "IN_PROGRESS" \/ Locked(d),
         \A p \in Payments : p \in ledger' => p \in ledger \/ Locked(DealOf[p]),
         \A p \in Payments : op'[p].status = "COMPLETED" =>
                               op[p].status = "COMPLETED" \/ Locked(DealOf[p])
  PROVE  DeliveryBacked' /\ BooksTruthful'
  BY FundingAssumption DEF Truth, DeliveryBacked, BooksTruthful

\* One worker moves.
LEMMA WorkersKept ==
  ASSUME Inv, Truth, \A d \in Deals : Locked(d) => Locked(d)', Inv',
         NEW w \in Workers, \A v \in Workers : v # w => work'[v] = work[v],
         work'[w].pc \in {"record", "complete", "confirm", "confirming"} => Locked(JobDeal(w))',
         \A p \in Payments : work'[w].copy[p].status = "IN_PROGRESS" => Locked(DealOf[p])
  PROVE  WorkersTruthful'
<1>1. ASSUME NEW v \in Workers, v # w,
             work'[v].pc \in {"record", "complete", "confirm", "confirming"}
      PROVE  Locked(JobDeal(v))'
  <2>1. JobDeal(v) \in Deals /\ JobDeal(v)' = JobDeal(v)
    BY <1>1, FundingAssumption DEF Inv, JobsKnown, Known, JobDeal, Job
  <2>2. Locked(JobDeal(v))
    BY <1>1 DEF Truth, WorkersTruthful
  <2> QED
    BY <2>1, <2>2 DEF Locked
<1>2. ASSUME NEW v \in Workers, NEW p \in Payments, work'[v].copy[p].status = "IN_PROGRESS"
      PROVE  Locked(DealOf[p])'
  <2>1. DealOf[p] \in Deals
    BY FundingAssumption
  <2> QED
    BY <1>2, <2>1 DEF Truth, WorkersTruthful
<1> QED
  BY <1>1, <1>2 DEF WorkersTruthful

LEMMA RestTruthful == Rest.pc = "idle" /\ \A p \in Payments : Rest.copy[p].status = "PENDING_PAYMENT"
  BY DEF Rest

\* A step that changes neither workers nor rows of deals, operations and ledger.
LEMMA WorkKept ==
  ASSUME Inv, Truth, \A d \in Deals : Locked(d) => Locked(d)', work' = work
  PROVE  WorkersTruthful'
<1>1. ASSUME NEW v \in Workers,
             work[v].pc \in {"record", "complete", "confirm", "confirming"}
      PROVE  Locked(JobDeal(v))'
  <2>1. JobDeal(v) \in Deals /\ JobDeal(v)' = JobDeal(v)
    BY <1>1, FundingAssumption DEF Inv, JobsKnown, Known, JobDeal, Job
  <2>2. Locked(JobDeal(v))
    BY <1>1 DEF Truth, WorkersTruthful
  <2> QED
    BY <2>1, <2>2 DEF Locked
<1>2. ASSUME NEW v \in Workers, NEW p \in Payments, work[v].copy[p].status = "IN_PROGRESS"
      PROVE  Locked(DealOf[p])'
  <2>1. DealOf[p] \in Deals
    BY FundingAssumption
  <2> QED
    BY <1>2, <2>1 DEF Truth, WorkersTruthful
<1> QED
  BY <1>1, <1>2 DEF WorkersTruthful

\* A worker that leaves takes nothing untrue with it.
LEMMA LeavesTruthful ==
  ASSUME Inv, Truth, \A d \in Deals : Locked(d) => Locked(d)', Inv',
         NEW w \in Workers, Finish(w) \/ Abort(w)
  PROVE  WorkersTruthful'
<1>1. /\ work'[w].pc \in {"idle", "claim"} /\ work'[w].copy \in {work[w].copy, Rest.copy}
      /\ \A v \in Workers : v # w => work'[v] = work[v]
  BY FinishMoves, AbortMoves, RestTruthful
<1>2. \A p \in Payments : work'[w].copy[p].status = "IN_PROGRESS" => Locked(DealOf[p])
  BY <1>1, RestTruthful DEF Truth, WorkersTruthful
<1> QED
  BY <1>1, <1>2, WorkersKept

\* ... and so does one that goes on, if it has a funded escrow where it needs one.
LEMMA GoesTruthful ==
  ASSUME Inv, Truth, \A d \in Deals : Locked(d) => Locked(d)', Inv',
         NEW w \in Workers, NEW pc \in Pc, Goto(w, pc), Job(w) \in Payments,
         pc \in {"record", "complete", "confirm", "confirming"} => Locked(JobDeal(w))'
  PROVE  WorkersTruthful'
<1>1. /\ work'[w].pc = pc /\ work'[w].job = work[w].job /\ work'[w].copy = work[w].copy
      /\ \A v \in Workers : v # w => work'[v] = work[v]
  BY GotoMoves
<1>2. \A p \in Payments : work'[w].copy[p].status = "IN_PROGRESS" => Locked(DealOf[p])
  BY <1>1 DEF Truth, WorkersTruthful
<1> QED
  BY <1>1, <1>2, WorkersKept

\* Only markCompleted completes an operation.
LEMMA NoneCompleted ==
  ASSUME Ops!OperationsOK, NEW p \in Payments, NEW r,
         \/ Ops!ClaimFunding(p, r)
         \/ Ops!RenewLease(p, r)
         \/ Ops!Mark(p, r, "FAILED_RETRYABLE")
         \/ Ops!Mark(p, r, "MANUAL_REVIEW")
         \/ Ops!ExpireLease(p)
         \/ Ops!OwnerDies(r)
         \/ op' = op
  PROVE  \A q \in Payments : op'[q].status = "COMPLETED" => op[q].status = "COMPLETED"
<1> TAKE q \in Payments
<1>1. op \in [Payments -> Ops!Operation] /\ op[q] \in Ops!Operation /\ op[p] \in Ops!Operation
  BY DEF Ops!OperationsOK
<1>2. CASE Ops!ClaimFunding(p, r)
  BY <1>1, <1>2 DEF Ops!ClaimFunding
<1>3. CASE Ops!RenewLease(p, r)
  BY <1>1, <1>3 DEF Ops!RenewLease, Ops!Operation
<1>4. CASE Ops!Mark(p, r, "FAILED_RETRYABLE")
  BY <1>1, <1>4 DEF Ops!Mark
<1>5. CASE Ops!Mark(p, r, "MANUAL_REVIEW")
  BY <1>1, <1>5 DEF Ops!Mark
<1>6. CASE Ops!ExpireLease(p)
  BY <1>1, <1>6 DEF Ops!ExpireLease, Ops!Operation
<1>7. CASE Ops!OwnerDies(r)
  BY <1>1, <1>7 DEF Ops!OwnerDies, Ops!Operation
<1>8. CASE op' = op
  BY <1>8
<1> QED
  BY <1>2, <1>3, <1>4, <1>5, <1>6, <1>7, <1>8

LEMMA StepTruth ==
  ASSUME Inv, Truth, \A d \in Deals : Locked(d) => Locked(d)', Inv',
         NEW w \in Workers, Step(w)
  PROVE  Truth'
<1> USE DEF Truth
<1>0. \A p \in Payments : DealOf[p] \in Deals
  BY FundingAssumption
<1>1. CASE LockFundingFx(w)
  <2>1. At(w, "price") /\ Goto(w, "claim") /\ (Save(JobDeal(w), Copy(w)) \/ deal' = deal)
    BY <1>1 DEF LockFundingFx
  <2>2. WorkersTruthful'
    BY <2>1, AtJob, GoesTruthful
  <2>3. Job(w) \in Payments /\ JobDeal(w) \in Deals
    BY <2>1, AtJob
  <2>4. Copy(w).status = "IN_PROGRESS" => Locked(JobDeal(w))
    BY <2>3 DEF WorkersTruthful, Copy, JobDeal
  <2>5. \A d \in Deals : deal'[d].status = "IN_PROGRESS" =>
                           deal[d].status = "IN_PROGRESS" \/ Locked(d)
    BY <2>1, <2>3, <2>4 DEF Save, Inv, TypeOK
  <2> QED
    BY <1>1, <2>2, <2>5, BooksKept DEF LockFundingFx
<1>2. ASSUME NEW p \in Payments, Claim(w, p)
      PROVE  Truth'
  <2> DEFINE f == [work[w] EXCEPT !.job = p, !.todo = @ \ {p}]
             g == [f EXCEPT !.pc = AfterClaim(w, f.copy[p])]
             h == [f EXCEPT !.pc = "confirm"]
  <2>1. work[w] \in Work
    BY DEF Inv, TypeOK
  <2>2. f \in Work /\ f.job = p /\ f.copy = work[w].copy
    BY <2>1
  <2>3. AfterClaim(w, f.copy[p]) \in {"deploy", "attach", "review"}
    BY DEF AfterClaim
  <2>4. \/ work' = [work EXCEPT ![w] = g]
        \/ work' = [work EXCEPT ![w] = h] /\ op[p].status = "COMPLETED"
        \/ work' = [work EXCEPT ![w] = Finished(f)]
    BY <1>2 DEF Claim
  <2> HIDE DEF f
  <2>5. g.copy = f.copy /\ h.copy = f.copy /\ g.job = p /\ h.job = p /\ h.pc = "confirm"
        /\ g.pc \in {"deploy", "attach", "review"}
    BY <2>2, <2>3
  <2>6. Finished(f).pc \in {"idle", "claim"} /\ Finished(f).copy \in {f.copy, Rest.copy}
    BY <2>2 DEF Finished, Rest
  <2> HIDE DEF g, h
  <2>7. /\ \/ work'[w] = g \/ work'[w] = Finished(f)
           \/ work'[w] = h /\ Locked(DealOf[p])
        /\ \A v \in Workers : v # w => work'[v] = work[v]
    <3>1. work \in [Workers -> Work]
      BY DEF Inv, TypeOK
    <3>2. op[p].status = "COMPLETED" => Locked(DealOf[p])
      BY DEF BooksTruthful
    <3> QED
      BY <2>4, <3>1, <3>2
  <2>8. work'[w].pc \in {"record", "complete", "confirm", "confirming"} => Locked(JobDeal(w))'
    BY <1>0, <2>5, <2>6, <2>7 DEF JobDeal, Job, Locked
  <2>9. \A q \in Payments : work'[w].copy[q].status = "IN_PROGRESS" => Locked(DealOf[q])
    BY <2>2, <2>5, <2>6, <2>7, RestTruthful DEF WorkersTruthful
  <2>10. WorkersTruthful'
    BY <2>7, <2>8, <2>9, WorkersKept
  <2>11. \A q \in Payments : op'[q].status = "COMPLETED" => op[q].status = "COMPLETED"
    BY <1>2, NoneCompleted DEF Claim, Inv, TypeOK
  <2> QED
    BY <1>2, <2>10, <2>11, BooksKept DEF Claim
<1>3. CASE LeaseLost(w)
  <2>1. PICK pc \in {"deploy", "forward", "attach", "record"} : At(w, pc)
    BY <1>3 DEF LeaseLost
  <2>2. WorkersTruthful'
    BY <1>3, <2>1, AtJob, GoesTruthful DEF LeaseLost
  <2> QED
    BY <1>3, <2>2, BooksKept DEF LeaseLost, dbVars
<1>4. CASE Deploy(w) \/ Transfer(w) \/ Notify(w)
  <2>1. work' = work
    BY <1>4 DEF Deploy, Transfer, Notify
  <2>2. \A q \in Payments : op'[q].status = "COMPLETED" => op[q].status = "COMPLETED"
    <3>1. Job(w) \in Payments
      BY <1>4, AtJob DEF Deploy, Transfer, Notify
    <3> QED
      BY <1>4, <3>1, NoneCompleted DEF Deploy, Transfer, Notify, Inv, TypeOK, dbVars
  <2> QED
    BY <1>4, <2>1, <2>2, WorkKept, BooksKept DEF Deploy, Transfer, Notify, dbVars
<1>5. CASE Attach(w)
  <2> DEFINE copy == [Copy(w) EXCEPT !.address = TRUE]
  <2>1. /\ At(w, "attach") /\ Job(w) \in Payments /\ JobDeal(w) \in Deals /\ Copy(w) \in Deal
        /\ work[w] \in Work
    BY <1>5, AtJob DEF Attach
  <2>2. copy.status = Copy(w).status
    BY <2>1
  <2>3. copy.status = "IN_PROGRESS" => Locked(JobDeal(w))
    BY <2>1, <2>2 DEF WorkersTruthful, Copy, JobDeal
  <2> HIDE DEF copy
  <2>4. /\ work'[w].pc \in {"review", "forward"}
        /\ work'[w].copy = [work[w].copy EXCEPT ![Job(w)] = copy]
        /\ \A v \in Workers : v # w => work'[v] = work[v]
    BY <1>5, <2>1 DEF Attach, Inv, TypeOK, copy
  <2>5. \A p \in Payments : work'[w].copy[p].status = "IN_PROGRESS" => Locked(DealOf[p])
    BY <2>1, <2>3, <2>4 DEF WorkersTruthful, JobDeal
  <2>6. WorkersTruthful'
    BY <2>4, <2>5, WorkersKept
  <2>7. Save(JobDeal(w), copy)
    BY <1>5 DEF Attach, copy
  <2>8. \A d \in Deals : deal'[d].status = "IN_PROGRESS" =>
                           deal[d].status = "IN_PROGRESS" \/ Locked(d)
    BY <2>1, <2>3, <2>7 DEF Save, Inv, TypeOK
  <2> QED
    BY <1>5, <2>6, <2>8, BooksKept DEF Attach
<1>6. CASE Review(w)
  <2>1. At(w, "review") /\ (Goto(w, "forward") \/ Finish(w) \/ Abort(w))
    BY <1>6 DEF Review
  <2>2. WorkersTruthful'
    BY <2>1, AtJob, GoesTruthful, LeavesTruthful
  <2>3. \A q \in Payments : op'[q].status = "COMPLETED" => op[q].status = "COMPLETED"
    BY <1>6, <2>1, AtJob, NoneCompleted DEF Review, Inv, TypeOK
  <2> QED
    BY <1>6, <2>2, <2>3, BooksKept DEF Review
<1>7. CASE Forward(w)
  <2>1. At(w, "forward") /\ Job(w) \in Payments /\ JobDeal(w) \in Deals /\ work[w] \in Work
    BY <1>7, AtJob DEF Forward
  <2>2. Shortfall(JobDeal(w)) \in Nat
    BY <2>1, RelayAssumption DEF Shortfall, Inv, TypeOK, ChainOK
  <2>3. /\ NextCall(JobDeal(w)) \in {"record", "transfer", "notify", "fail"}
        /\ NextCall(JobDeal(w)) = "record" => Locked(JobDeal(w))
    <3>1. CASE isFundedOrLater(JobDeal(w))
      BY <3>1 DEF NextCall, isFundedOrLater, Locked
    <3>2. CASE ~isFundedOrLater(JobDeal(w))
      BY <2>2, <3>2 DEF NextCall
    <3> QED
      BY <3>1, <3>2
  <2>4. /\ work'[w].pc = NextCall(JobDeal(w)) /\ work'[w].job = Job(w)
        /\ work'[w].copy = work[w].copy
        /\ \A v \in Workers : v # w => work'[v] = work[v]
    BY <1>7, <2>1 DEF Forward, Inv, TypeOK, Job
  <2>5. work'[w].pc \in {"record", "complete", "confirm", "confirming"} => Locked(JobDeal(w))'
    BY <2>1, <2>3, <2>4 DEF JobDeal, Job, Locked
  <2>6. \A p \in Payments : work'[w].copy[p].status = "IN_PROGRESS" => Locked(DealOf[p])
    BY <2>4 DEF WorkersTruthful
  <2>7. WorkersTruthful'
    BY <2>4, <2>5, <2>6, WorkersKept
  <2>8. \A q \in Payments : op'[q].status = "COMPLETED" => op[q].status = "COMPLETED"
    BY <1>7, <2>1, NoneCompleted DEF Forward, Inv, TypeOK
  <2> QED
    BY <1>7, <2>7, <2>8, BooksKept DEF Forward
<1>8. CASE RecordFunding(w)
  <2>1. /\ At(w, "record") /\ Goto(w, "complete") /\ Job(w) \in Payments /\ JobDeal(w) \in Deals
        /\ work[w].pc = "record"
    BY <1>8, AtJob DEF RecordFunding
  <2>2. Locked(JobDeal(w)) /\ Locked(JobDeal(w))'
    <3>1. Locked(JobDeal(w))
      BY <2>1 DEF WorkersTruthful
    <3>2. JobDeal(w)' = JobDeal(w)
      BY <2>1, GotoMoves DEF JobDeal, Job
    <3> QED
      BY <2>1, <3>1, <3>2 DEF Locked
  <2>3. WorkersTruthful'
    BY <2>1, <2>2, GoesTruthful
  <2> QED
    BY <1>8, <2>2, <2>3, BooksKept DEF RecordFunding, JobDeal
<1>9. CASE MarkCompleted(w)
  <2>1. /\ At(w, "complete") /\ Job(w) \in Payments /\ JobDeal(w) \in Deals
        /\ work[w].pc = "complete"
        /\ Goto(w, "confirm") \/ Goto(w, "fail")
    BY <1>9, AtJob DEF MarkCompleted
  <2>2. Locked(JobDeal(w)) /\ Locked(JobDeal(w))'
    <3>1. Locked(JobDeal(w))
      BY <2>1 DEF WorkersTruthful
    <3>2. JobDeal(w)' = JobDeal(w)
      BY <2>1, GotoMoves DEF JobDeal, Job
    <3> QED
      BY <2>1, <3>1, <3>2 DEF Locked
  <2>3. WorkersTruthful'
    BY <2>1, <2>2, GoesTruthful
  <2>4. \A q \in Payments : op'[q].status = "COMPLETED" =>
                              op[q].status = "COMPLETED" \/ Locked(DealOf[q])
    BY <1>9, <2>2 DEF MarkCompleted, Ops!Mark, Inv, TypeOK, Ops!OperationsOK, JobDeal
  <2> QED
    BY <1>9, <2>3, <2>4, BooksKept DEF MarkCompleted
<1>10. CASE MarkRetryableFailure(w)
  <2>1. At(w, "fail") /\ (Finish(w) \/ Abort(w))
    BY <1>10 DEF MarkRetryableFailure
  <2>2. WorkersTruthful'
    BY <2>1, LeavesTruthful
  <2>3. \A q \in Payments : op'[q].status = "COMPLETED" => op[q].status = "COMPLETED"
    BY <1>10, <2>1, AtJob, NoneCompleted DEF MarkRetryableFailure, Inv, TypeOK
  <2> QED
    BY <1>10, <2>2, <2>3, BooksKept DEF MarkRetryableFailure
<1>11. CASE ConfirmPayment(w)
  <2> DEFINE row == deal[JobDeal(w)]
  <2>1. /\ At(w, "confirm") /\ Job(w) \in Payments /\ JobDeal(w) \in Deals
        /\ work[w].pc = "confirm" /\ work[w] \in Work
    BY <1>11, AtJob DEF ConfirmPayment
  <2>2. WorkersTruthful'
    <3>1. CASE Finish(w) \/ Abort(w)
      BY <3>1, LeavesTruthful
    <3>2. CASE /\ row.status = "PENDING_PAYMENT"
               /\ work' = [work EXCEPT ![w].copy[Job(w)] = row, ![w].pc = "confirming"]
      <4> HIDE DEF row
      <4>1. /\ work'[w].pc = "confirming" /\ work'[w].job = Job(w)
            /\ work'[w].copy = [work[w].copy EXCEPT ![Job(w)] = row]
            /\ \A v \in Workers : v # w => work'[v] = work[v]
        BY <2>1, <3>2 DEF Inv, TypeOK, Job
      <4>2. Locked(JobDeal(w))'
        <5>1. Locked(JobDeal(w))
          BY <2>1 DEF WorkersTruthful
        <5> QED
          BY <2>1, <4>1, <5>1 DEF JobDeal, Job, Locked
      <4>3. \A p \in Payments : work'[w].copy[p].status = "IN_PROGRESS" => Locked(DealOf[p])
        BY <2>1, <3>2, <4>1 DEF WorkersTruthful
      <4> QED
        BY <4>1, <4>2, <4>3, WorkersKept
    <3> QED
      BY <1>11, <3>1, <3>2 DEF ConfirmPayment
  <2> QED
    BY <1>11, <2>2, BooksKept DEF ConfirmPayment, dbVars
<1>12. CASE SavePaid(w)
  <2> DEFINE copy == [Copy(w) EXCEPT !.status = "IN_PROGRESS", !.paid = TRUE]
  <2>1. /\ At(w, "confirming") /\ Finish(w) /\ Save(JobDeal(w), copy)
        /\ JobDeal(w) \in Deals /\ work[w].pc = "confirming"
    BY <1>12, AtJob DEF SavePaid
  <2>2. Locked(JobDeal(w))
    BY <2>1 DEF WorkersTruthful
  <2> HIDE DEF copy
  <2>3. \A d \in Deals : deal'[d].status = "IN_PROGRESS" =>
                           deal[d].status = "IN_PROGRESS" \/ Locked(d)
    BY <2>1, <2>2 DEF Save, Inv, TypeOK
  <2>4. WorkersTruthful'
    BY <2>1, LeavesTruthful
  <2> QED
    BY <1>12, <2>3, <2>4, BooksKept DEF SavePaid
<1> QED
  BY <1>1, <1>2, <1>3, <1>4, <1>5, <1>6, <1>7, <1>8, <1>9, <1>10, <1>11, <1>12 DEF Step

LEMMA SweepTruth ==
  ASSUME Inv, Truth, \A d \in Deals : Locked(d) => Locked(d)', Inv',
         NEW w \in Workers, StartSweep(w) \/ RenewWhileWaiting(w)
  PROVE  Truth'
<1> USE DEF Truth
<1>1. CASE StartSweep(w)
  <2>0. PICK seen \in SUBSET Completed :
          LET found == {p \in seen : deal[DealOf[p]].status = "PENDING_PAYMENT" /\ wallets[DealOf[p]]}
          IN  work' = [work EXCEPT ![w] =
                [Rest EXCEPT !.pc = "claim", !.todo = found,
                             !.copy = [p \in Payments |->
                                         IF p \in found THEN deal[DealOf[p]] ELSE NoCopy]]]
    BY <1>1 DEF StartSweep
  <2> DEFINE found == {p \in seen : deal[DealOf[p]].status = "PENDING_PAYMENT" /\ wallets[DealOf[p]]}
             copy == [p \in Payments |-> IF p \in found THEN deal[DealOf[p]] ELSE NoCopy]
             f == [Rest EXCEPT !.pc = "claim", !.todo = found, !.copy = copy]
  <2>1. f.pc = "claim" /\ f.copy = copy
    BY DEF Rest
  <2>2. \A p \in Payments : copy[p].status = "PENDING_PAYMENT"
    OBVIOUS
  <2>3. work' = [work EXCEPT ![w] = f]
    BY <2>0
  <2> HIDE DEF f, copy, found
  <2>4. work'[w] = f /\ \A v \in Workers : v # w => work'[v] = work[v]
    BY <2>3 DEF Inv, TypeOK
  <2>5. WorkersTruthful'
    BY <2>1, <2>2, <2>4, WorkersKept
  <2> QED
    BY <1>1, <2>5, BooksKept DEF StartSweep, dbVars
<1>2. CASE RenewWhileWaiting(w)
  <2>1. Job(w) \in Payments
    BY <1>2, WaitersAre DEF RenewWhileWaiting, Inv, JobsKnown, Known, Busy, Funding, Job
  <2>2. \A q \in Payments : op'[q].status = "COMPLETED" => op[q].status = "COMPLETED"
    BY <1>2, <2>1, NoneCompleted DEF RenewWhileWaiting, Inv, TypeOK
  <2> QED
    BY <1>2, <2>2, WorkKept, BooksKept DEF RenewWhileWaiting
<1> QED
  BY <1>1, <1>2

\* The receipt of notifyFunded is the proof that the clone is funded.
LEMMA MineTruth ==
  ASSUME Inv, Truth, \A d \in Deals : Locked(d) => Locked(d)', Inv', MineNext
  PROVE  Truth'
<1> USE DEF Truth
<1> PICK tx : tx = Head(mempool)
  OBVIOUS
<1> PICK next : next = IF Succeeds(tx) THEN AfterReceipt[tx.kind] ELSE "fail"
  OBVIOUS
<1>1. tx \in Tx /\ 1 \in DOMAIN mempool /\ mempool[1] = tx
  BY DEF Inv, TypeOK, ChainOK, MineNext, Mine
<1>2. next \in {"attach", "notify", "record", "fail"}
  BY <1>1 DEF Tx, AfterReceipt
<1>3. next = "record" => Locked(tx.deal)'
  <2>1. SUFFICES ASSUME next = "record"
                 PROVE  clone'[tx.deal] = "FUNDED"
    BY DEF Locked
  <2>2. Succeeds(tx) /\ tx.kind = "notifyFunded"
    BY <1>1, <2>1 DEF Tx, AfterReceipt
  <2>3. Effect(tx) /\ tx.deal \in Deals
    BY <1>1, <2>2 DEF MineNext, Mine, Tx
  <2> QED
    BY <2>2, <2>3 DEF Effect, Inv, TypeOK, ChainOK
<1>4. CASE tx.worker = NoOne
  BY <1>4, WorkKept, BooksKept DEF MineNext, dbVars
<1>5. CASE tx.worker # NoOne
  <2>1. tx.worker \in Workers /\ Goto(tx.worker, next)
    BY <1>1, <1>5 DEF Tx, MineNext
  <2>2. work[tx.worker].pc \in Busy /\ tx.deal = JobDeal(tx.worker)
    BY <1>1, <1>5 DEF Inv, WaitersKnown
  <2>3. Job(tx.worker) \in Payments
    BY <2>1, <2>2 DEF Inv, JobsKnown, Known, Busy, Funding, Job
  <2>4. next \in Pc
    BY <1>2
  <2>5. JobDeal(tx.worker)' = tx.deal
    BY <2>1, <2>2, <2>3, <2>4, GotoMoves DEF JobDeal, Job
  <2>6. WorkersTruthful'
    <3>1. next \in {"record", "complete", "confirm", "confirming"} => Locked(JobDeal(tx.worker))'
      BY <1>2, <1>3, <2>5 DEF Locked
    <3> QED
      BY <2>1, <2>3, <2>4, <3>1, GoesTruthful
  <2> QED
    BY <2>6, BooksKept DEF MineNext, dbVars
<1> QED
  BY <1>4, <1>5

LEMMA OutsideTruth ==
  ASSUME Inv, Truth, \A d \in Deals : Locked(d) => Locked(d)', Inv', ProviderNext \/ UsersNext
  PROVE  Truth'
<1> USE DEF Truth
<1>1. ASSUME NEW w \in Hooks, NEW p \in Payments, PaidWebhook(w, p)
      PROVE  Truth'
  <2> DEFINE f == [Rest EXCEPT !.pc = "price", !.job = p, !.copy[p] = deal[DealOf[p]]]
  <2>1. w \in Workers
    BY FundingAssumption
  <2>2. WorkersTruthful'
    <3>1. CASE work' = work
      BY <3>1, WorkKept
    <3>2. CASE work' = [work EXCEPT ![w] = f]
      <4>1. f.pc = "price" /\ f.copy = [Rest.copy EXCEPT ![p] = deal[DealOf[p]]]
        BY DEF Rest
      <4>2. \A q \in Payments : f.copy[q].status = "IN_PROGRESS" => Locked(DealOf[q])
        BY <4>1, FundingAssumption DEF Rest, DeliveryBacked
      <4> HIDE DEF f
      <4>3. work'[w] = f /\ \A v \in Workers : v # w => work'[v] = work[v]
        BY <2>1, <3>2 DEF Inv, TypeOK
      <4> QED
        BY <2>1, <4>1, <4>2, <4>3, WorkersKept
    <3> QED
      BY <1>1, <3>1, <3>2 DEF PaidWebhook
  <2> QED
    BY <1>1, <2>2, BooksKept DEF PaidWebhook
<1>2. ASSUME NEW p \in Payments, NEW s \in Notices, NoticeWebhook(p, s)
      PROVE  Truth'
  BY <1>2, WorkKept, BooksKept DEF NoticeWebhook
<1>3. ASSUME NEW d \in Deals, ReadToCancel(d) \/ AttachWallets(d)
      PROVE  Truth'
  BY <1>3, WorkKept, BooksKept DEF ReadToCancel, AttachWallets
<1>4. ASSUME NEW d \in Deals, SaveCancelled(d)
      PROVE  Truth'
  <2>1. PICK copy \in cancels[d] : Save(d, [copy EXCEPT !.status = "CANCELLED"])
    BY <1>4 DEF SaveCancelled
  <2>2. copy \in Deal
    BY DEF Inv, TypeOK
  <2>3. \A e \in Deals : deal'[e].status = "IN_PROGRESS" => deal[e].status = "IN_PROGRESS"
    BY <2>1, <2>2 DEF Save, Inv, TypeOK
  <2> QED
    BY <1>4, <2>3, WorkKept, BooksKept DEF SaveCancelled
<1>5. CASE PartiesNext /\ UNCHANGED <<dbVars, work, mishaps>>
  BY <1>5, WorkKept, BooksKept DEF dbVars
<1> QED
  BY <1>1, <1>2, <1>3, <1>4, <1>5 DEF ProviderNext, UsersNext

LEMMA MishapTruth ==
  ASSUME Inv, Truth, \A d \in Deals : Locked(d) => Locked(d)', Inv', MishapNext
  PROVE  Truth'
<1> USE DEF Truth
<1>1. ASSUME NEW r \in Replicas, Crash(r)
      PROVE  Truth'
  <2>1. WorkersTruthful'
    <3> SUFFICES ASSUME NEW v \in Workers
                 PROVE  /\ work'[v].pc \in {"record", "complete", "confirm", "confirming"}
                             => Locked(JobDeal(v))'
                        /\ \A p \in Payments :
                             work'[v].copy[p].status = "IN_PROGRESS" => Locked(DealOf[p])'
      BY DEF WorkersTruthful
    <3>1. CASE work'[v] = Rest
      BY <3>1, RestTruthful
    <3>2. CASE work'[v] = work[v]
      <4>1. JobDeal(v)' = JobDeal(v)
        BY <3>2 DEF JobDeal, Job
      <4>2. work[v].pc \in {"record", "complete", "confirm", "confirming"}
              => JobDeal(v) \in Deals /\ Locked(JobDeal(v))
        BY FundingAssumption DEF WorkersTruthful, Inv, JobsKnown, Known, JobDeal, Job
      <4>3. \A p \in Payments :
              work[v].copy[p].status = "IN_PROGRESS" => DealOf[p] \in Deals /\ Locked(DealOf[p])
        BY FundingAssumption DEF WorkersTruthful
      <4> QED
        BY <3>2, <4>1, <4>2, <4>3 DEF Locked
    <3> QED
      BY <1>1, <3>1, <3>2 DEF Crash
  <2>2. \A q \in Payments : op'[q].status = "COMPLETED" => op[q].status = "COMPLETED"
    BY <1>1, NoneCompleted DEF Crash, Inv, TypeOK
  <2> QED
    BY <1>1, <2>1, <2>2, BooksKept DEF Crash
<1>2. ASSUME NEW p \in Payments, LeaseExpires(p)
      PROVE  Truth'
  <2>1. \A q \in Payments : op'[q].status = "COMPLETED" => op[q].status = "COMPLETED"
    BY <1>2, NoneCompleted DEF LeaseExpires, Inv, TypeOK
  <2> QED
    BY <1>2, <2>1, WorkKept, BooksKept DEF LeaseExpires
<1>3. ASSUME NEW w \in Workers, CallFails(w) \/ AnswerLost(w)
      PROVE  Truth'
  <2>1. Job(w) \in Payments /\ Goto(w, "fail")
    BY <1>3, AtJob, WaitersAre
    DEF CallFails, AnswerLost, Inv, JobsKnown, Known, Busy, Funding, Job
  <2>2. WorkersTruthful'
    BY <2>1, GoesTruthful
  <2> QED
    BY <1>3, <2>2, BooksKept DEF CallFails, AnswerLost, dbVars
<1>4. CASE OtherCompletes
  BY <1>4, WorkKept, BooksKept DEF OtherCompletes, dbVars
<1>5. ASSUME NEW d \in Deals, DetachWallets(d)
      PROVE  Truth'
  BY <1>5, WorkKept, BooksKept DEF DetachWallets
<1> QED
  BY <1>1, <1>2, <1>3, <1>4, <1>5 DEF MishapNext

LEMMA TruthNext == Inv /\ Truth /\ [Next]_vars => Truth'
<1> SUFFICES ASSUME Inv, Truth, [Next]_vars PROVE Truth'
  OBVIOUS
<1>1. Inv' /\ \A d \in Deals : Locked(d) => Locked(d)'
  BY TypesNext, LockedStays
<1>2. CASE UNCHANGED vars
  BY <1>1, <1>2, WorkKept, BooksKept DEF vars, dbVars, Truth
<1>3. CASE Next
  <2>1. Sweeps \subseteq Workers
    BY FundingAssumption
  <2> QED
    BY <1>1, <1>3, <2>1, StepTruth, SweepTruth, MineTruth, OutsideTruth, MishapTruth DEF Next
<1> QED
  BY <1>2, <1>3

LEMMA TruthHolds == Spec => []Truth
<1>1. Init => Inv /\ Truth
  BY TypesInit, TruthInit
<1> QED
  BY <1>1, TypesNext, TruthNext, PTL DEF Spec

\* However deliveries, sweeps, failures, crashes, stale saves and cancellations come
\* together, a deal is in progress only if its deposit was in the escrow.
THEOREM DeliveriesAreBacked == Spec => []DeliveryBacked
<1>1. Truth => DeliveryBacked
  BY DEF Truth
<1> QED
  BY <1>1, TruthHolds, PTL

\* The ledger and the completed operations name funded escrows only: neither a lost
\* receipt nor a lease that is lost or taken over records a funding that has not been.
THEOREM BooksAreTruthful == Spec => []BooksTruthful
<1>1. Truth => BooksTruthful
  BY DEF Truth
<1> QED
  BY <1>1, TruthHolds, PTL

-----------------------------------------------------------------------------
(* What a step does to leases, seats and money                              *)

Leased(p, r) == op[p] = [status |-> "PROCESSING", owner |-> r, live |-> TRUE]

\* No lease is lost.
LeasesKept ==
  \A p \in Payments, r \in Replicas \cup {NoOne} : Leased(p, r) => Leased(p, r)'

\* The worker moves, and nobody else does anything.
Alone(w) ==
  /\ ~Waits(w)
  /\ UNCHANGED chainVars
  /\ \A v \in Workers : v # w => work'[v] = work[v]

\* It gets on with its payment, or drops it; what it is about to send is what it has
\* found missing.
Goes(w) ==
  /\ Alone(w)
  /\ LeasesKept
  /\ work'[w].pc \in Busy => work[w].pc \in Busy /\ work'[w].job = work[w].job
  /\ work'[w].pc = "transfer" =>
       /\ work[w].pc = "forward"
       /\ ~isFundedOrLater(JobDeal(w))
       /\ Shortfall(JobDeal(w)) > 0
       /\ work'[w].amount = Shortfall(JobDeal(w))

\* It takes a payment ...
Takes(w, p) ==
  /\ Alone(w)
  /\ work[w].pc = "claim"
  /\ work'[w].job = p
  /\ work'[w].pc # "transfer"
  /\ Ops!ClaimFunding(p, Proc(w))

\* ... and is done with it.
Gives(w) ==
  /\ Alone(w)
  /\ work[w].pc \in Busy
  /\ work'[w].pc \notin Busy
  /\ \E s \in Ops!OperationStatus : Ops!Mark(Job(w), Proc(w), s)

\* Where a worker waits for the receipt of a transaction.
Place == [createEscrow |-> "deploy", transfer |-> "transfer", notifyFunded |-> "notify"]

Sends(w, kind, n) ==
  /\ ~Waits(w)
  /\ work[w].pc = Place[kind]
  /\ kind = "transfer" => n = work[w].amount
  /\ Broadcast(w, kind, JobDeal(w), n)
  /\ work' = work
  /\ LeasesKept

Kinds == {"createEscrow", "transfer", "notifyFunded"}

Unfunded == {"UNINITIALIZED", "AWAITING_FUNDING"}

\* No worker moves, and no clone that is to be funded gets or loses anything.
Rests ==
  /\ UNCHANGED <<work, mempool, sent>>
  /\ LeasesKept
  /\ \A d \in Deals : clone[d] \in Void => clone'[d] \in Void
  /\ \A d \in Deals : clone'[d] \in Unfunded => clone[d] \in Unfunded /\ held'[d] = held[d]

\* The mishaps that cost a lease or a receipt.
Lapsing == {"stalls", "slow", "lost"}

Spares == \A kind \in Lapsing : mishaps'[kind] = mishaps[kind]

\* What befalls an operation takes no lease but the one that is given up.
LEMMA LeaseKept ==
  ASSUME Inv, NEW p \in Payments, NEW x \in Replicas, NEW q \in Payments,
         NEW r \in Replicas \cup {NoOne}, Leased(q, r),
         \/ Ops!ClaimFunding(p, x)
         \/ Ops!RenewLease(p, x)
         \/ (q # p \/ r # x) /\ \E s \in Ops!OperationStatus : Ops!Mark(p, x, s)
         \/ r # x /\ Ops!OwnerDies(x)
         \/ op' = op
  PROVE  Leased(q, r)'
<1>1. op[q].owner = r /\ op[q].live /\ op[q].status = "PROCESSING"
  BY DEF Leased
<1>2. op \in [Payments -> Ops!Operation]
  BY DEF Inv, TypeOK, Ops!OperationsOK
<1>3. ASSUME op'[q] = op[q]
      PROVE  Leased(q, r)'
  BY <1>3 DEF Leased
<1>4. CASE Ops!ClaimFunding(p, x)
  BY <1>1, <1>2, <1>3, <1>4 DEF Ops!ClaimFunding, Ops!Claimable
<1>5. CASE Ops!RenewLease(p, x)
  <2>1. CASE q # p
    BY <1>2, <1>3, <1>5, <2>1 DEF Ops!RenewLease
  <2>2. CASE q = p
    <3>1. op'[q] = [op[q] EXCEPT !.live = TRUE]
      BY <1>2, <1>5, <2>2 DEF Ops!RenewLease
    <3>2. op'[q] = [[status |-> "PROCESSING", owner |-> r, live |-> TRUE] EXCEPT !.live = TRUE]
      BY <3>1, Zenon DEF Leased
    <3>3. op'[q] = [status |-> "PROCESSING", owner |-> r, live |-> TRUE]
      BY <3>2
    <3> QED
      BY <3>3 DEF Leased
  <2> QED
    BY <2>1, <2>2
<1>6. CASE (q # p \/ r # x) /\ \E s \in Ops!OperationStatus : Ops!Mark(p, x, s)
  BY <1>1, <1>2, <1>3, <1>6 DEF Ops!Mark, Ops!Owned
<1>7. CASE r # x /\ Ops!OwnerDies(x)
  BY <1>1, <1>2, <1>3, <1>7 DEF Ops!OwnerDies, Ops!Owned
<1> QED
  BY <1>3, <1>4, <1>5, <1>6, <1>7

\* No row is touched, or one is claimed or renewed.
LEMMA RowsKept ==
  ASSUME Inv,
         \/ op' = op
         \/ \E p \in Payments, x \in Replicas : Ops!ClaimFunding(p, x) \/ Ops!RenewLease(p, x)
  PROVE  LeasesKept
<1> SUFFICES ASSUME NEW q \in Payments, NEW r \in Replicas \cup {NoOne}, Leased(q, r)
             PROVE  Leased(q, r)'
  BY DEF LeasesKept
<1>1. CASE op' = op
  BY <1>1 DEF Leased
<1>2. CASE \E p \in Payments, x \in Replicas : Ops!ClaimFunding(p, x) \/ Ops!RenewLease(p, x)
  BY <1>2, LeaseKept
<1> QED
  BY <1>1, <1>2

\* A worker goes to another step of its payment, but for "transfer", or leaves it.
LEMMA GoesOn ==
  ASSUME Inv, NEW w \in Workers, ~Waits(w), UNCHANGED chainVars, LeasesKept, Job(w) \in Payments,
         \/ \E pc \in Pc \ {"transfer"} : Goto(w, pc) /\ (work[w].pc \in Busy \/ pc \notin Busy)
         \/ Finish(w)
         \/ Abort(w)
  PROVE  Goes(w)
<1>1. CASE Finish(w) \/ Abort(w)
  <2>1. /\ \A v \in Workers : v # w => work'[v] = work[v]
        /\ work'[w].pc \in {"idle", "claim"}
    BY <1>1, FinishMoves, AbortMoves, RestTruthful
  <2> QED
    BY <2>1 DEF Goes, Alone, Busy, Funding
<1>2. ASSUME NEW pc \in Pc \ {"transfer"}, Goto(w, pc), work[w].pc \in Busy \/ pc \notin Busy
      PROVE  Goes(w)
  <2>1. /\ \A v \in Workers : v # w => work'[v] = work[v]
        /\ work'[w].pc = pc /\ work'[w].job = work[w].job
    BY <1>2, GotoMoves
  <2> QED
    BY <1>2, <2>1 DEF Goes, Alone
<1> QED
  BY <1>1, <1>2

\* The worker's entry becomes f, and it is not about to send anything.
LEMMA GoesTo ==
  ASSUME Inv, NEW w \in Workers, ~Waits(w), UNCHANGED chainVars, LeasesKept,
         NEW f, work' = [work EXCEPT ![w] = f], f.pc # "transfer",
         f.pc \in Busy => work[w].pc \in Busy /\ f.job = work[w].job
  PROVE  Goes(w)
<1>1. work'[w] = f /\ \A v \in Workers : v # w => work'[v] = work[v]
  BY DEF Inv, TypeOK
<1> QED
  BY <1>1 DEF Goes, Alone

LEMMA ClaimIs ==
  ASSUME Inv, NEW w \in Workers, NEW p \in Payments, Claim(w, p)
  PROVE  Goes(w) \/ Takes(w, p)
<1> DEFINE f == [work[w] EXCEPT !.job = p, !.todo = @ \ {p}]
           g == [f EXCEPT !.pc = AfterClaim(w, f.copy[p])]
           h == [f EXCEPT !.pc = "confirm"]
<1>1. ~Waits(w) /\ UNCHANGED chainVars /\ work[w] \in Work /\ work[w].pc = "claim"
  BY DEF Claim, At, Inv, TypeOK
<1>2. f \in Work
  BY <1>1
<1>3. CASE Ops!ClaimFunding(p, Proc(w)) /\ work' = [work EXCEPT ![w] = g]
  <2>1. AfterClaim(w, f.copy[p]) \in {"deploy", "attach", "review"}
    BY DEF AfterClaim
  <2>2. g.pc # "transfer" /\ g.job = p
    BY <1>1, <2>1
  <2> HIDE DEF g
  <2>3. work'[w] = g /\ \A v \in Workers : v # w => work'[v] = work[v]
    BY <1>3 DEF Inv, TypeOK
  <2> QED
    BY <1>1, <1>3, <2>2, <2>3 DEF Takes, Alone
<1>4. CASE op' = op /\ (work' = [work EXCEPT ![w] = h] \/ work' = [work EXCEPT ![w] = Finished(f)])
  <2>1. LeasesKept
    BY <1>4, RowsKept
  <2>2. h.pc = "confirm"
    BY <1>1
  <2>3. Finished(f).pc \in {"idle", "claim"}
    <3> HIDE DEF f
    <3> QED
      BY <1>2 DEF Finished, Rest
  <2> HIDE DEF f, h
  <2>4. PICK x : work' = [work EXCEPT ![w] = x] /\ x.pc \in {"confirm", "idle", "claim"}
    BY <1>4, <2>2, <2>3
  <2> QED
    BY <1>1, <2>1, <2>4, GoesTo DEF Busy, Funding
<1> QED
  BY <1>3, <1>4 DEF Claim

LEMMA ForwardIs ==
  ASSUME Inv, NEW w \in Workers, Forward(w)
  PROVE  Goes(w)
<1> DEFINE d == JobDeal(w)
           f == [work[w] EXCEPT !.pc = NextCall(d), !.amount = Shortfall(d)]
<1>1. /\ ~Waits(w) /\ work[w].pc = "forward" /\ work[w] \in Work
      /\ Job(w) \in Payments /\ Proc(w) \in Replicas /\ d \in Deals
  BY AtJob DEF Forward
<1>2. UNCHANGED chainVars /\ LeasesKept
  BY <1>1, RowsKept DEF Forward
<1>3. f.job = work[w].job /\ f.pc = NextCall(d) /\ f.amount = Shortfall(d)
  BY <1>1
<1>4. work' = [work EXCEPT ![w] = f]
  BY DEF Forward
<1> HIDE DEF f
<1>5. work'[w] = f /\ \A v \in Workers : v # w => work'[v] = work[v]
  BY <1>4 DEF Inv, TypeOK
<1>6. NextCall(d) = "transfer" => ~isFundedOrLater(d) /\ Shortfall(d) > 0
  <2>1. held[d] \in Nat /\ Deposit[d] \in Nat
    BY <1>1, RelayAssumption DEF Inv, TypeOK, ChainOK
  <2> QED
    BY <2>1 DEF NextCall, Shortfall
<1> QED
  BY <1>1, <1>2, <1>3, <1>5, <1>6 DEF Goes, Alone, Busy, Funding

\* What a worker's step does.
LEMMA StepIs ==
  ASSUME Inv, NEW w \in Workers, Step(w)
  PROVE  \/ Goes(w)
         \/ Gives(w)
         \/ \E p \in Payments : Takes(w, p)
         \/ \E kind \in Kinds, n \in Nat : Sends(w, kind, n)
<1>0. Proc(w) \in Replicas /\ work[w] \in Work
  BY RelayAssumption DEF Proc, Inv, TypeOK
<1>1. ASSUME NEW p \in Payments, Claim(w, p)
      PROVE  Goes(w) \/ Takes(w, p)
  BY <1>1, ClaimIs
<1>2. CASE Deploy(w) \/ Transfer(w) \/ Notify(w)
  <2>1. PICK kind \in Kinds :
          /\ At(w, Place[kind])
          /\ \E n \in Nat : /\ kind = "transfer" => n = work[w].amount
                            /\ Broadcast(w, kind, JobDeal(w), n)
    <3>1. CASE Deploy(w)
      BY <3>1 DEF Deploy, Place, Kinds
    <3>2. CASE Transfer(w)
      BY <1>0, <3>2 DEF Transfer, Place, Kinds
    <3>3. CASE Notify(w)
      BY <3>3 DEF Notify, Place, Kinds
    <3> QED
      BY <1>2, <3>1, <3>2, <3>3
  <2>2. Place[kind] \in {"deploy", "transfer", "notify"}
    BY DEF Place, Kinds
  <2>3. ~Waits(w) /\ work[w].pc = Place[kind] /\ Job(w) \in Payments
    BY <2>1, <2>2, AtJob
  <2>4. work' = work /\ (op' = op \/ Ops!RenewLease(Job(w), Proc(w)))
    BY <1>2 DEF Deploy, Transfer, Notify, dbVars
  <2>5. LeasesKept
    BY <1>0, <2>3, <2>4, RowsKept
  <2> QED
    BY <2>1, <2>3, <2>4, <2>5 DEF Sends
<1>3. CASE Forward(w)
  BY <1>3, ForwardIs
<1>4. CASE Attach(w)
  <2> DEFINE f == [work[w] EXCEPT !.copy[Job(w)] = [Copy(w) EXCEPT !.address = TRUE],
                                  !.pc = IF w \in Hooks THEN "review" ELSE "forward"]
  <2>1. f.pc # "transfer" /\ f.job = work[w].job /\ work' = [work EXCEPT ![w] = f]
    BY <1>0, <1>4 DEF Attach
  <2> HIDE DEF f
  <2>2. ~Waits(w) /\ work[w].pc \in Busy /\ UNCHANGED chainVars
    BY <1>4, AtJob DEF Attach, Busy, Funding
  <2>3. LeasesKept
    BY <1>4, RowsKept DEF Attach
  <2> QED
    BY <2>1, <2>2, <2>3, GoesTo
<1>5. CASE Review(w) \/ MarkCompleted(w) \/ MarkRetryableFailure(w)
  <2>1. PICK pc \in {"review", "complete", "fail"} : At(w, pc)
    BY <1>5 DEF Review, MarkCompleted, MarkRetryableFailure
  <2>2. ~Waits(w) /\ Job(w) \in Payments /\ work[w].pc \in Busy
    BY <2>1, AtJob DEF Busy, Funding
  <2>3. UNCHANGED chainVars
    BY <1>5 DEF Review, MarkCompleted, MarkRetryableFailure
  <2>4. CASE op' = op /\ (Goto(w, "forward") \/ Goto(w, "fail") \/ Abort(w))
    BY <2>2, <2>3, <2>4, RowsKept, GoesOn
  <2>5. ASSUME NEW s \in Ops!OperationStatus, Ops!Mark(Job(w), Proc(w), s),
               Goto(w, "confirm") \/ Finish(w)
        PROVE  Gives(w)
    <3>1. work'[w].pc \notin Busy /\ \A v \in Workers : v # w => work'[v] = work[v]
      BY <2>2, <2>5, GotoMoves, FinishMoves DEF Busy, Funding
    <3> QED
      BY <2>2, <2>3, <2>5, <3>1 DEF Gives, Alone
  <2> QED
    BY <1>5, <2>4, <2>5 DEF Review, MarkCompleted, MarkRetryableFailure, Ops!OperationStatus
<1>6. CASE LeaseLost(w) \/ RecordFunding(w)
  <2>1. PICK pc \in {"deploy", "forward", "attach", "record"} : At(w, pc)
    BY <1>6 DEF LeaseLost, RecordFunding
  <2>2. ~Waits(w) /\ Job(w) \in Payments /\ work[w].pc \in Busy
    BY <2>1, AtJob DEF Busy, Funding
  <2>3. LeasesKept
    BY <1>6, RowsKept DEF LeaseLost, RecordFunding, dbVars
  <2> QED
    BY <1>6, <2>2, <2>3, GoesOn DEF LeaseLost, RecordFunding
<1>7. CASE LockFundingFx(w) \/ ConfirmPayment(w) \/ SavePaid(w)
  <2> DEFINE f == [work[w] EXCEPT !.copy[Job(w)] = deal[JobDeal(w)], !.pc = "confirming"]
  <2>1. ~Waits(w) /\ Job(w) \in Payments /\ UNCHANGED chainVars /\ op' = op
    BY <1>7, AtJob DEF LockFundingFx, ConfirmPayment, SavePaid, dbVars
  <2>2. f.pc = "confirming"
    BY <1>0
  <2>3. Goto(w, "claim") \/ Finish(w) \/ Abort(w) \/ work' = [work EXCEPT ![w] = f]
    BY <1>7 DEF LockFundingFx, ConfirmPayment, SavePaid
  <2> HIDE DEF f
  <2>4. LeasesKept
    BY <2>1, RowsKept
  <2>5. CASE work' = [work EXCEPT ![w] = f]
    BY <2>1, <2>2, <2>4, <2>5, GoesTo DEF Busy, Funding
  <2>6. CASE Goto(w, "claim") \/ Finish(w) \/ Abort(w)
    BY <2>1, <2>4, <2>6, GoesOn DEF Busy, Funding
  <2> QED
    BY <2>3, <2>5, <2>6
<1> QED
  BY <1>1, <1>2, <1>3, <1>4, <1>5, <1>6, <1>7 DEF Step

\* What any step does.
LEMMA NextIs ==
  ASSUME Inv, [Next]_vars
  PROVE  \/ /\ Spares
            /\ \/ Rests \/ MineNext
               \/ \E r \in Replicas : Crash(r)
               \/ \E w \in Workers :
                    \/ Goes(w) \/ Gives(w)
                    \/ \E p \in Payments : Takes(w, p)
                    \/ \E kind \in Kinds, n \in Nat : Sends(w, kind, n)
         \/ \E p \in Payments : LeaseExpires(p)
         \/ \E w \in Workers : AnswerLost(w)
<1>0. mishaps \in Mishaps
  BY DEF Inv, TypeOK
<1>1. ASSUME mishaps' = mishaps \/ Spend("crashes") \/ Spend("faults") \/ Spend("crowd")
             \/ Spend("swaps")
      PROVE  Spares
  BY <1>0, <1>1 DEF Spares, Lapsing, Spend, Mishaps
<1>2. ASSUME UNCHANGED <<work, op, chainVars>>
      PROVE  Rests
  BY <1>2, RowsKept DEF Rests, chainVars
<1>3. ASSUME NEW w \in Workers, RenewWhileWaiting(w)
      PROVE  Rests /\ Spares
  <2>1. work[w].pc \in Busy
    BY <1>3, WaitersAre DEF RenewWhileWaiting, Inv
  <2>2. Job(w) \in Payments /\ Proc(w) \in Replicas
    BY <2>1, RelayAssumption DEF Inv, JobsKnown, Known, Busy, Funding, Job, Proc
  <2>3. LeasesKept
    BY <1>3, <2>2, RowsKept DEF RenewWhileWaiting
  <2> QED
    BY <1>1, <1>3, <2>3 DEF Rests, RenewWhileWaiting, chainVars
<1>4. ASSUME NEW w \in Workers, work[w].pc = "idle", UNCHANGED <<op, chainVars>>,
             NEW f, f.pc \in {"claim", "price"}, work' = [work EXCEPT ![w] = f]
      PROVE  Goes(w)
  <2>1. ~Waits(w)
    BY <1>4, WaitersAre DEF Busy, Funding, Inv
  <2>2. LeasesKept
    BY <1>4, RowsKept
  <2> QED
    BY <1>4, <2>1, <2>2, GoesTo DEF Busy, Funding
<1>5. ASSUME NEW w \in Sweeps, StartSweep(w)
      PROVE  w \in Workers /\ Goes(w) /\ Spares
  <2>0. PICK seen \in SUBSET Completed :
          LET found == {p \in seen : deal[DealOf[p]].status = "PENDING_PAYMENT" /\ wallets[DealOf[p]]}
          IN  work' = [work EXCEPT ![w] =
                [Rest EXCEPT !.pc = "claim", !.todo = found,
                             !.copy = [p \in Payments |->
                                         IF p \in found THEN deal[DealOf[p]] ELSE NoCopy]]]
    BY <1>5 DEF StartSweep
  <2> DEFINE todo == {p \in seen : deal[DealOf[p]].status = "PENDING_PAYMENT" /\ wallets[DealOf[p]]}
             copy == [p \in Payments |-> IF p \in todo THEN deal[DealOf[p]] ELSE NoCopy]
             f == [Rest EXCEPT !.pc = "claim", !.todo = todo, !.copy = copy]
  <2>1. f.pc \in {"claim", "price"} /\ w \in Workers
    BY FundingAssumption DEF Rest
  <2>2. work' = [work EXCEPT ![w] = f] /\ work[w].pc = "idle" /\ UNCHANGED <<op, chainVars>>
    BY <1>5, <2>0 DEF StartSweep, dbVars
  <2>3. mishaps' = mishaps
    BY <1>5 DEF StartSweep
  <2> HIDE DEF f, todo, copy
  <2>4. Goes(w)
    <3>1. ~Waits(w)
      BY <2>1, <2>2, WaitersAre DEF Busy, Funding, Inv
    <3>2. UNCHANGED chainVars /\ op' = op
      BY <2>2
    <3>3. LeasesKept
      BY <3>2, RowsKept
    <3>4. f.pc # "transfer" /\ f.pc \notin Busy
      BY <2>1 DEF Busy, Funding
    <3>5. work' = [work EXCEPT ![w] = f]
      BY <2>2
    <3> QED
      BY <2>1, <3>1, <3>2, <3>3, <3>4, <3>5, GoesTo
  <2>5. Spares
    BY <1>1, <2>3
  <2> QED
    BY <2>1, <2>4, <2>5
<1>6. ASSUME NEW w \in Hooks, NEW p \in Payments, PaidWebhook(w, p)
      PROVE  w \in Workers /\ (Goes(w) \/ Rests) /\ Spares
  <2> DEFINE f == [Rest EXCEPT !.pc = "price", !.job = p, !.copy[p] = deal[DealOf[p]]]
  <2>1. f.pc = "price" /\ w \in Workers
    BY FundingAssumption DEF Rest
  <2>2. /\ work' = work \/ work' = [work EXCEPT ![w] = f]
        /\ work[w].pc = "idle" /\ UNCHANGED <<op, chainVars>>
    BY <1>6 DEF PaidWebhook
  <2> HIDE DEF f
  <2> QED
    BY <1>1, <1>2, <1>4, <1>6, <2>1, <2>2 DEF PaidWebhook
<1>7. CASE PartiesNext /\ UNCHANGED <<dbVars, work, mishaps>>
  <2>1. PICK d \in Deals : DeadlinePasses(d) \/ CloseClone(d) \/ RescueClone(d) \/ SettleClone(d)
    BY <1>7 DEF PartiesNext
  <2>2. UNCHANGED <<work, mempool, sent, op>>
    BY <1>7, <2>1 DEF DeadlinePasses, CloseClone, RescueClone, SettleClone, dbVars
  <2>3. /\ \A e \in Deals : clone[e] \in Void => clone'[e] \in Void
        /\ \A e \in Deals : clone'[e] \in Unfunded => clone[e] \in Unfunded /\ held'[e] = held[e]
    BY <2>1 DEF DeadlinePasses, CloseClone, RescueClone, SettleClone, Void, Unfunded, Inv, TypeOK, ChainOK
  <2> QED
    BY <1>1, <1>7, <2>2, <2>3, RowsKept DEF Rests
<1>8. ASSUME ProviderNext \/ UsersNext,
             ~(\E w \in Hooks, p \in Payments : PaidWebhook(w, p)),
             ~(PartiesNext /\ UNCHANGED <<dbVars, work, mishaps>>)
      PROVE  Rests /\ Spares
  <2>1. UNCHANGED <<work, op, chainVars, mishaps>>
    BY <1>8 DEF ProviderNext, NoticeWebhook, UsersNext, ReadToCancel, SaveCancelled, AttachWallets
  <2> QED
    BY <1>1, <1>2, <2>1
<1>9. CASE UNCHANGED vars
  BY <1>1, <1>2, <1>9 DEF vars, dbVars
<1>10. ASSUME NEW w \in Workers, Step(w)
       PROVE  mishaps' = mishaps
  BY <1>10
  DEF Step, LockFundingFx, Claim, LeaseLost, Deploy, Attach, Review, Forward, Transfer, Notify,
      RecordFunding, MarkCompleted, MarkRetryableFailure, ConfirmPayment, SavePaid
<1>11. ASSUME NEW w \in Workers, CallFails(w)
       PROVE  Goes(w) /\ Spares
  <2>1. ~Waits(w) /\ Job(w) \in Payments /\ work[w].pc \in Busy
    BY <1>11, AtJob DEF CallFails, Busy, Funding
  <2>2. Goto(w, "fail") /\ UNCHANGED chainVars /\ op' = op
    BY <1>11 DEF CallFails, dbVars
  <2> QED
    BY <1>1, <1>11, <2>1, <2>2, RowsKept, GoesOn DEF CallFails
<1>12. ASSUME NEW r \in Replicas, Crash(r)
       PROVE  Spares
  BY <1>1, <1>12 DEF Crash
<1>13. MineNext => Spares
  BY <1>1 DEF MineNext
<1>14. ASSUME NEW w \in Workers, Step(w)
       PROVE  /\ Spares
              /\ \/ Goes(w)
                 \/ Gives(w)
                 \/ \E p \in Payments : Takes(w, p)
                 \/ \E kind \in Kinds, n \in Nat : Sends(w, kind, n)
  BY <1>1, <1>10, <1>14, StepIs
<1>15. CASE OtherCompletes
  BY <1>1, <1>2, <1>15 DEF OtherCompletes, dbVars
<1>16. ASSUME NEW d \in Deals, DetachWallets(d)
       PROVE  Rests /\ Spares
  BY <1>1, <1>2, <1>16 DEF DetachWallets
<1> QED
  BY <1>3, <1>5, <1>6, <1>7, <1>8, <1>9, <1>11, <1>12, <1>13, <1>14, <1>15, <1>16
  DEF Next, ProviderNext, UsersNext, MishapNext

-----------------------------------------------------------------------------
(* Mishaps are counted                                                      *)

\* How often a kind of mishap has happened.
Gone(kind) == Allowed[kind] - mishaps[kind]

Counted == \A kind \in Lapsing : Gone(kind) \in Nat

LEMMA GoneInit == Init => Counted /\ \A kind \in Lapsing : Gone(kind) = 0
  BY FundingAssumption DEF Init, Counted, Gone, Lapsing, Allowed

\* One that has happened is never forgotten.
LEMMA GoneGrows ==
  ASSUME Inv, Counted, NEW kind \in Lapsing,
         mishaps' = mishaps \/ \E what \in DOMAIN Allowed : Spend(what)
  PROVE  /\ Gone(kind)' \in Nat /\ Gone(kind) <= Gone(kind)'
         /\ Spend(kind) => Gone(kind)' = Gone(kind) + 1
<1>1. mishaps \in Mishaps /\ Allowed[kind] \in Nat /\ mishaps[kind] \in Nat /\ Gone(kind) \in Nat
  BY FundingAssumption DEF Inv, TypeOK, Mishaps, Allowed, Lapsing, Counted
<1>2. Spend(kind) => mishaps'[kind] = mishaps[kind] - 1 /\ mishaps[kind] > 0
  BY <1>1 DEF Spend, Mishaps, Lapsing
<1>3. mishaps'[kind] \in Nat /\ mishaps'[kind] <= mishaps[kind]
  <2>1. ASSUME NEW what \in DOMAIN Allowed, Spend(what)
        PROVE  mishaps'[kind] \in Nat /\ mishaps'[kind] <= mishaps[kind]
    <3>1. mishaps[what] \in Nat /\ mishaps[what] > 0 /\ mishaps' = [mishaps EXCEPT ![what] = @ - 1]
      BY <1>1, <2>1 DEF Spend, Mishaps, Allowed
    <3>2. kind # what => mishaps'[kind] = mishaps[kind]
      BY <1>1, <3>1 DEF Mishaps, Lapsing
    <3>3. kind = what => mishaps'[kind] = mishaps[kind] - 1
      BY <1>2, <2>1
    <3> QED
      BY <1>1, <3>1, <3>2, <3>3
  <2> QED
    BY <1>1, <2>1
<1> QED
  BY <1>1, <1>2, <1>3 DEF Gone

\* The counts of the properties.
LEMMA HappenedIs ==
  ASSUME Inv, Counted
  PROVE  /\ Happened({"stalls"}) = Gone("stalls")
         /\ Happened(Lapsing) = Gone("stalls") + Gone("slow") + Gone("lost")
<1> DEFINE gone(S) == [kind \in S |-> Allowed[kind] - mishaps[kind]]
<1>1. \A kind \in Lapsing : Allowed[kind] - mishaps[kind] \in Nat
  BY DEF Counted, Gone
<1>2. ASSUME NEW S \in SUBSET Lapsing, IsFiniteSet(S)
      PROVE  /\ Happened(S) = Sum(gone(S), S) /\ Sum(gone(S), S) \in Nat
             /\ \A kind \in S : IsFiniteSet(S \ {kind}) /\ Happened(S) = Gone(kind) + Happened(S \ {kind})
  <2> DEFINE f == gone(S)
  <2>1. \A kind \in S : f[kind] = Gone(kind) /\ f[kind] \in Nat
    BY <1>1 DEF Gone
  <2>2. Happened(S) = Sum(f, S)
    BY <1>2, SumOfDifferences DEF Happened
  <2>3. ASSUME NEW kind \in S
        PROVE  IsFiniteSet(S \ {kind}) /\ Happened(S) = Gone(kind) + Happened(S \ {kind})
    <3> DEFINE T == S \ {kind}
               g == gone(T)
    <3>1. IsFiniteSet(T)
      BY <1>2, FS_Subset
    <3>2. \A k \in T : f[k] = g[k]
      OBVIOUS
    <3>3. Happened(T) = Sum(g, T)
      BY <3>1, SumOfDifferences DEF Happened
    <3> HIDE DEF f, g
    <3>4. Sum(f, S) = f[kind] + Sum(f, T)
      BY <1>2, <2>1, SumRemove
    <3>5. Sum(f, T) = Sum(g, T)
      BY <3>1, <3>2, SumSame
    <3> QED
      BY <2>1, <2>2, <3>1, <3>3, <3>4, <3>5
  <2> HIDE DEF f
  <2>4. Sum(f, S) \in Nat
    BY <1>2, <2>1, SumNat
  <2> QED
    BY <2>2, <2>3, <2>4 DEF f
<1>3. Happened({}) = 0
  <2>1. IsFiniteSet({})
    BY FS_EmptySet
  <2>2. Happened({}) = Sum(gone({}), {})
    BY <1>2, <2>1
  <2> QED
    BY <2>2, SumEmpty
<1>4. IsFiniteSet({"lost"}) /\ IsFiniteSet({"stalls"}) /\ IsFiniteSet({"slow", "lost"}) /\ IsFiniteSet(Lapsing)
  <2>1. IsFiniteSet({"lost"}) /\ IsFiniteSet({"stalls"})
    BY FS_Singleton
  <2>2. IsFiniteSet({"lost"} \cup {"slow"})
    BY <2>1, FS_AddElement
  <2>3. IsFiniteSet(({"lost"} \cup {"slow"}) \cup {"stalls"})
    BY <2>2, FS_AddElement
  <2>4. {"lost"} \cup {"slow"} = {"slow", "lost"} /\ ({"lost"} \cup {"slow"}) \cup {"stalls"} = Lapsing
    BY DEF Lapsing
  <2> QED
    BY <2>1, <2>2, <2>3, <2>4
<1>5. /\ {"stalls"} \ {"stalls"} = {} /\ {"lost"} \ {"lost"} = {}
      /\ {"slow", "lost"} \ {"slow"} = {"lost"} /\ Lapsing \ {"stalls"} = {"slow", "lost"}
      /\ {"stalls"} \subseteq Lapsing /\ {"lost"} \subseteq Lapsing /\ {"slow", "lost"} \subseteq Lapsing
  BY DEF Lapsing
<1> HIDE DEF gone
<1>6. Happened({"stalls"}) = Gone("stalls") + 0 /\ Happened({"lost"}) = Gone("lost") + 0
  BY <1>2, <1>3, <1>4, <1>5
<1>7. Happened({"slow", "lost"}) = Gone("slow") + Happened({"lost"})
  BY <1>2, <1>4, <1>5
<1>8. Happened(Lapsing) = Gone("stalls") + Happened({"slow", "lost"})
  BY <1>2, <1>4, <1>5 DEF Lapsing
<1>9. Gone("stalls") \in Nat /\ Gone("slow") \in Nat /\ Gone("lost") \in Nat
  BY DEF Counted, Lapsing
<1> QED
  BY <1>6, <1>7, <1>8, <1>9

LEMMA SparesKeep ==
  ASSUME Spares
  PROVE  \A kind \in Lapsing : Gone(kind)' = Gone(kind)
  BY DEF Spares, Gone

\* A lease that runs out, or a receipt that is lost, changes at most one of the counts.
LEMMA CountedNext ==
  ASSUME Inv, Counted, [Next]_vars
  PROVE  Counted' /\ \A kind \in Lapsing : Gone(kind) <= Gone(kind)'
<1>1. ASSUME mishaps' = mishaps \/ \E what \in DOMAIN Allowed : Spend(what)
      PROVE  Counted' /\ \A kind \in Lapsing : Gone(kind) <= Gone(kind)'
  BY <1>1, GoneGrows DEF Counted
<1>2. CASE Spares
  BY <1>2, SparesKeep DEF Counted
<1>3. ASSUME NEW p \in Payments, LeaseExpires(p)
      PROVE  mishaps' = mishaps \/ \E what \in DOMAIN Allowed : Spend(what)
  BY <1>3 DEF LeaseExpires, Allowed
<1>4. ASSUME NEW w \in Workers, AnswerLost(w)
      PROVE  \E what \in DOMAIN Allowed : Spend(what)
  BY <1>4 DEF AnswerLost, Allowed
<1> QED
  BY <1>1, <1>2, <1>3, <1>4, NextIs

-----------------------------------------------------------------------------
(* One payment, one worker, and one more for every stall                    *)

\* Whoever is busy with a payment has a seat of his own there.  One of a payment's seats
\* goes with its lease: who has that seat holds the lease.
Seated(at, key) ==
  /\ \A w \in Workers : work[w].pc \in Busy /\ at[w] = key[Job(w)] => Leased(Job(w), Proc(w))
  /\ \A v, w \in Workers :
       work[v].pc \in Busy /\ work[w].pc \in Busy /\ Job(v) = Job(w) /\ at[v] = at[w] => v = w

\* Seats are numbered, the first being 0.
Seats(n) == [Workers -> 0 .. n]
Keys(n) == [Payments -> 0 .. n]

LEMMA BusyHave ==
  ASSUME Inv, NEW w \in Workers, work[w].pc \in Busy
  PROVE  Job(w) \in Payments /\ Proc(w) \in Replicas /\ Proc(w) # NoOne
  BY RelayAssumption DEF Inv, JobsKnown, Known, Busy, Funding, Job, Proc

\* Nobody takes a seat, and leases are kept by those who stay.
LEMMA SeatsKept ==
  ASSUME Inv, NEW at, NEW key, Seated(at, key),
         \A v \in Workers : work'[v].pc \in Busy => work[v].pc \in Busy /\ work'[v].job = work[v].job,
         \A v \in Workers : work'[v].pc \in Busy /\ Leased(Job(v), Proc(v)) => Leased(Job(v), Proc(v))'
  PROVE  Seated(at, key)'
<1>1. \A v \in Workers : work'[v].pc \in Busy => work[v].pc \in Busy /\ Job(v)' = Job(v)
  BY DEF Job
<1> QED
  BY <1>1 DEF Seated

\* ... in particular, one worker goes on.
LEMMA SeatsGo ==
  ASSUME Inv, NEW at, NEW key, Seated(at, key), LeasesKept, NEW w \in Workers,
         \A v \in Workers : v # w => work'[v] = work[v],
         work'[w].pc \in Busy => work[w].pc \in Busy /\ work'[w].job = work[w].job
  PROVE  Seated(at, key)'
<1>1. ASSUME NEW v \in Workers, work'[v].pc \in Busy, Leased(Job(v), Proc(v))
      PROVE  Leased(Job(v), Proc(v))'
  <2>1. work[v].pc \in Busy /\ Job(v)' = Job(v) /\ Proc(v)' = Proc(v)
    BY <1>1 DEF Job, Proc
  <2>2. Job(v) \in Payments /\ Proc(v) \in Replicas
    BY <2>1, BusyHave
  <2> PICK p \in Payments : p = Job(v)
    BY <2>2
  <2> PICK r \in Replicas : r = Proc(v)
    BY <2>2
  <2>3. Leased(p, r)'
    BY <1>1 DEF LeasesKept
  <2> QED
    BY <2>1, <2>3 DEF Leased
<1> QED
  BY <1>1, SeatsKept

\* A claim takes the seat that goes with the lease, which is nobody's.
LEMMA SeatTaken ==
  ASSUME Inv, NEW at, NEW key, Seated(at, key), NEW w \in Workers, NEW p \in Payments, Takes(w, p),
         NEW at2, at2 = [v \in Workers |-> IF v = w THEN key[p] ELSE at[v]]
  PROVE  Seated(at2, key)'
<1>1. Leased(p, Proc(w))' /\ LeasesKept
  <2>1. Proc(w) \in Replicas /\ Proc(w)' = Proc(w)
    BY RelayAssumption DEF Proc
  <2>2. op' = [op EXCEPT ![p] = [status |-> "PROCESSING", owner |-> Proc(w), live |-> TRUE]]
    BY DEF Takes, Ops!ClaimFunding
  <2>3. LeasesKept
    BY <2>1, RowsKept DEF Takes
  <2> QED
    BY <2>1, <2>2, <2>3 DEF Leased, Inv, TypeOK, Ops!OperationsOK
<1>2. \A r : ~Leased(p, r)
  BY DEF Takes, Ops!ClaimFunding, Ops!Claimable, Leased
<1>3. \A v \in Workers : work[v].pc \in Busy /\ Job(v) = p => at[v] # key[p]
  BY <1>2 DEF Seated
<1>4. Job(w)' = p /\ \A v \in Workers : v # w => Job(v)' = Job(v) /\ work'[v] = work[v]
  BY DEF Takes, Alone, Job
<1>5. ASSUME NEW v \in Workers, v # w, work'[v].pc \in Busy
      PROVE  /\ work[v].pc \in Busy /\ Job(v) \in Payments
             /\ at2[v] = key[Job(v)'] => Leased(Job(v), Proc(v))'
             /\ Job(v)' = p => at2[v] # key[p]
  <2>1. work[v].pc \in Busy /\ Job(v)' = Job(v) /\ at2[v] = at[v] /\ Proc(v)' = Proc(v)
    BY <1>4, <1>5 DEF Proc
  <2> PICK q \in Payments : q = Job(v)
    BY <2>1, BusyHave
  <2> PICK r \in Replicas : r = Proc(v)
    BY <2>1, BusyHave
  <2>2. at[v] = key[q] => Leased(q, r)'
    BY <1>1, <2>1 DEF Seated, LeasesKept
  <2> QED
    BY <1>3, <2>1, <2>2 DEF Leased
<1>6. \A v \in Workers : work'[v].pc \in Busy /\ at2[v] = key[Job(v)'] => Leased(Job(v), Proc(v))'
  BY <1>1, <1>4, <1>5 DEF Leased
<1>7. ASSUME NEW u \in Workers, NEW v \in Workers, work'[u].pc \in Busy, work'[v].pc \in Busy,
             Job(u)' = Job(v)', at2[u] = at2[v]
      PROVE  u = v
  BY <1>4, <1>5, <1>7 DEF Seated
<1> QED
  BY <1>6, <1>7 DEF Seated

\* Whoever gives a lease up leaves his own seat to the next holder.
LEMMA SeatGiven ==
  ASSUME Inv, NEW at, NEW key, Seated(at, key), NEW w \in Workers, Gives(w),
         NEW p \in Payments, p = Job(w),
         NEW key2, key2 = [q \in Payments |-> IF q = p THEN at[w] ELSE key[q]]
  PROVE  Seated(at, key2)'
<1>1. \A q \in Payments : q # p => op'[q] = op[q]
  BY DEF Gives, Ops!Mark, Inv, TypeOK, Ops!OperationsOK
<1>2. \A v \in Workers : work'[v].pc \in Busy =>
        v # w /\ work[v].pc \in Busy /\ Job(v)' = Job(v) /\ Job(v) \in Payments
  BY BusyHave DEF Gives, Alone, Job
<1>3. work[w].pc \in Busy
  BY DEF Gives
<1>4. ASSUME NEW v \in Workers, work'[v].pc \in Busy, at[v] = key2[Job(v)']
      PROVE  Leased(Job(v), Proc(v))'
  <2>1. Job(v) # p
    BY <1>2, <1>3, <1>4 DEF Seated
  <2>2. Leased(Job(v), Proc(v))
    BY <1>2, <1>4, <2>1 DEF Seated
  <2> QED
    BY <1>1, <1>2, <1>4, <2>1, <2>2 DEF Leased, Proc
<1> QED
  BY <1>2, <1>4 DEF Seated

\* When a lease runs out under its holder, a new seat goes with it from now on.
LEMMA SeatAdded ==
  ASSUME Inv, NEW at, NEW key, Seated(at, key), NEW p \in Payments, work' = work,
         \A q \in Payments : q # p => op'[q] = op[q],
         NEW n, \A v \in Workers : at[v] # n,
         NEW key2, key2 = [q \in Payments |-> IF q = p THEN n ELSE key[q]]
  PROVE  Seated(at, key2)'
<1>1. \A v \in Workers : Job(v)' = Job(v) /\ Proc(v)' = Proc(v)
  BY DEF Job, Proc
<1>2. ASSUME NEW v \in Workers, work[v].pc \in Busy, at[v] = key2[Job(v)]
      PROVE  Leased(Job(v), Proc(v))'
  <2>1. Job(v) # p /\ Job(v) \in Payments
    BY <1>2, BusyHave
  <2>2. Leased(Job(v), Proc(v))
    BY <1>2, <2>1 DEF Seated
  <2> QED
    BY <1>1, <2>1, <2>2 DEF Leased
<1> QED
  BY <1>1, <1>2 DEF Seated

\* A lease that dies with its holder, or runs out after, takes no seat with it.
LEMMA SeatsSurvive ==
  ASSUME Inv, NEW at, NEW key, Seated(at, key),
         \/ \E r \in Replicas : Crash(r)
         \/ \E p \in Payments : LeaseExpires(p) /\ Orphaned(p)
  PROVE  Seated(at, key)'
<1>1. ASSUME NEW r \in Replicas, Crash(r)
      PROVE  Seated(at, key)'
  <2>1. ASSUME NEW v \in Workers, work'[v].pc \in Busy
        PROVE  work'[v] = work[v] /\ Proc(v) # r
    BY <1>1, <2>1, RestTruthful DEF Crash, Busy, Funding, Proc
  <2>2. ASSUME NEW v \in Workers, work'[v].pc \in Busy, Leased(Job(v), Proc(v))
        PROVE  Leased(Job(v), Proc(v))'
    <3>1. work[v].pc \in Busy /\ Job(v)' = Job(v)
      BY <2>1, <2>2 DEF Job
    <3> PICK p \in Payments : p = Job(v)
      BY <3>1, BusyHave
    <3> PICK x \in Replicas : x = Proc(v) /\ x # r
      BY <2>1, <2>2, <3>1, BusyHave
    <3>2. Ops!OwnerDies(r)
      BY <1>1 DEF Crash
    <3>3. Leased(p, x)'
      BY <2>2, <3>2, LeaseKept
    <3> QED
      BY <3>1, <3>3 DEF Leased, Proc
  <2> QED
    BY <2>1, <2>2, SeatsKept
<1>2. ASSUME NEW p \in Payments, LeaseExpires(p), Orphaned(p)
      PROVE  Seated(at, key)'
  <2>1. work' = work /\ \A q \in Payments : q # p => op'[q] = op[q]
    BY <1>2 DEF LeaseExpires, Ops!ExpireLease, Inv, TypeOK, Ops!OperationsOK
  <2>2. ASSUME NEW v \in Workers, work[v].pc \in Busy, Leased(Job(v), Proc(v))
        PROVE  Leased(Job(v), Proc(v))'
    <3>1. op[Job(v)].owner = Proc(v) /\ Proc(v) # NoOne /\ Job(v) \in Payments
      BY <2>2, BusyHave DEF Leased
    <3>2. Job(v) # p
      BY <1>2, <3>1 DEF Orphaned
    <3> QED
      BY <2>1, <2>2, <3>1, <3>2 DEF Leased, Job, Proc
  <2> QED
    BY <2>1, <2>2, SeatsKept
<1> QED
  BY <1>1, <1>2

\* A receipt moves the worker that waits for it, and nobody else.
LEMMA MineMoves ==
  ASSUME Inv, MineNext
  PROVE  /\ \A v \in Workers : v # Head(mempool).worker => work'[v] = work[v]
         /\ Head(mempool).worker # NoOne =>
              /\ Head(mempool).worker \in Workers /\ work[Head(mempool).worker].pc \in Busy
              /\ work'[Head(mempool).worker].job = work[Head(mempool).worker].job
              /\ work'[Head(mempool).worker].pc \in {"attach", "notify", "record", "fail"}
<1> PICK tx : tx = Head(mempool)
  OBVIOUS
<1> PICK next : next = IF Succeeds(tx) THEN AfterReceipt[tx.kind] ELSE "fail"
  OBVIOUS
<1>1. tx \in Tx /\ 1 \in DOMAIN mempool /\ mempool[1] = tx
  BY DEF Inv, TypeOK, ChainOK, MineNext, Mine
<1>2. next \in {"attach", "notify", "record", "fail"}
  BY <1>1 DEF Tx, AfterReceipt
<1>3. CASE tx.worker = NoOne
  <2>1. work' = work
    BY <1>3 DEF MineNext
  <2> QED
    BY <1>3, <2>1
<1>4. CASE tx.worker # NoOne
  <2>1. Goto(tx.worker, next)
    BY <1>4 DEF MineNext
  <2>2. tx.worker \in Workers /\ work[tx.worker].pc \in Busy
    BY <1>1, <1>4 DEF Tx, Inv, WaitersKnown
  <2>3. Job(tx.worker) \in Payments
    BY <2>2, BusyHave
  <2> QED
    BY <1>2, <1>4, <2>1, <2>2, <2>3, GotoMoves
<1> QED
  BY <1>3, <1>4

TurnsHeld ==
  \E at \in Seats(Gone("stalls")), key \in Keys(Gone("stalls")) : Seated(at, key)

LEMMA TurnsInit == Init => TurnsHeld
<1> SUFFICES ASSUME Init PROVE TurnsHeld
  OBVIOUS
<1>1. Gone("stalls") = 0
  BY GoneInit DEF Lapsing
<1> PICK at : at = [w \in Workers |-> 0]
  OBVIOUS
<1> PICK key : key = [p \in Payments |-> 0]
  OBVIOUS
<1>2. at \in Seats(0) /\ key \in Keys(0)
  BY DEF Seats, Keys
<1>3. Seated(at, key)
  BY DEF Init, Seated, Rest, Busy, Funding
<1> QED
  BY <1>1, <1>2, <1>3 DEF TurnsHeld

LEMMA TurnsNext ==
  ASSUME Inv, Counted, TurnsHeld, [Next]_vars
  PROVE  TurnsHeld'
<1> PICK n : n = Gone("stalls")
  OBVIOUS
<1> PICK at \in Seats(n), key \in Keys(n) : Seated(at, key)
  BY DEF TurnsHeld
<1> PICK m : m = Gone("stalls")'
  OBVIOUS
<1>1. n \in Nat /\ m \in Nat /\ n <= m
  BY CountedNext DEF Counted, Lapsing
<1>2. 0 .. n \subseteq 0 .. m
  BY <1>1
<1>3. at \in Seats(m) /\ key \in Keys(m)
  BY <1>2 DEF Seats, Keys
<1>4. ASSUME NEW at2 \in Seats(m), NEW key2 \in Keys(m), Seated(at2, key2)'
      PROVE  TurnsHeld'
  BY <1>4 DEF TurnsHeld
<1>5. CASE Rests
  <2>1. \A v \in Workers : Leased(Job(v), Proc(v)) /\ work[v].pc \in Busy => Leased(Job(v), Proc(v))'
    <3> SUFFICES ASSUME NEW v \in Workers, Leased(Job(v), Proc(v)), work[v].pc \in Busy
                 PROVE  Leased(Job(v), Proc(v))'
      OBVIOUS
    <3> PICK p \in Payments : p = Job(v)
      BY BusyHave
    <3> PICK r \in Replicas : r = Proc(v)
      BY BusyHave
    <3>1. Leased(p, r)'
      BY <1>5 DEF Rests, LeasesKept
    <3> QED
      BY <1>5, <3>1 DEF Rests, Leased, Job, Proc
  <2>2. Seated(at, key)'
    BY <1>5, <2>1, SeatsKept DEF Rests
  <2> QED
    BY <1>3, <1>4, <2>2
<1>6. ASSUME NEW w \in Workers, Goes(w)
      PROVE  TurnsHeld'
  <2>1. Seated(at, key)'
    BY <1>6, SeatsGo DEF Goes, Alone
  <2> QED
    BY <1>3, <1>4, <2>1
<1>7. ASSUME NEW w \in Workers, NEW kind \in Kinds, NEW k \in Nat, Sends(w, kind, k)
      PROVE  TurnsHeld'
  <2>1. Seated(at, key)'
    BY <1>7, SeatsGo DEF Sends
  <2> QED
    BY <1>3, <1>4, <2>1
<1>8. ASSUME NEW w \in Workers, NEW p \in Payments, Takes(w, p)
      PROVE  TurnsHeld'
  <2> PICK at2 : at2 = [v \in Workers |-> IF v = w THEN key[p] ELSE at[v]]
    OBVIOUS
  <2>1. at2 \in Seats(m)
    BY <1>3 DEF Seats, Keys
  <2>2. Seated(at2, key)'
    BY <1>8, SeatTaken
  <2> QED
    BY <1>3, <1>4, <2>1, <2>2
<1>9. ASSUME NEW w \in Workers, Gives(w)
      PROVE  TurnsHeld'
  <2> PICK p \in Payments : p = Job(w)
    BY <1>9, BusyHave DEF Gives
  <2> PICK key2 : key2 = [q \in Payments |-> IF q = p THEN at[w] ELSE key[q]]
    OBVIOUS
  <2>1. key2 \in Keys(m)
    BY <1>3 DEF Seats, Keys
  <2>2. Seated(at, key2)'
    BY <1>9, SeatGiven
  <2> QED
    BY <1>3, <1>4, <2>1, <2>2
<1>10. CASE MineNext
  <2>1. LeasesKept
    BY <1>10, RowsKept DEF MineNext, dbVars
  <2>2. CASE Head(mempool).worker # NoOne
    <3> PICK w \in Workers : w = Head(mempool).worker
      BY <1>10, <2>2, MineMoves
    <3>1. Seated(at, key)'
      BY <1>10, <2>1, <2>2, MineMoves, SeatsGo
    <3> QED
      BY <1>3, <1>4, <3>1
  <2>3. CASE Head(mempool).worker = NoOne
    <3>1. \A v \in Workers : work'[v] = work[v]
      BY <1>10, <2>3, MineMoves, RelayAssumption
    <3>2. op' = op
      BY <1>10 DEF MineNext, dbVars
    <3>3. Seated(at, key)'
      BY <3>1, <3>2, SeatsKept DEF Leased, Job, Proc
    <3> QED
      BY <1>3, <1>4, <3>3
  <2> QED
    BY <2>2, <2>3
<1>11. CASE (\E r \in Replicas : Crash(r)) \/ \E p \in Payments : LeaseExpires(p) /\ Orphaned(p)
  <2>1. Seated(at, key)'
    BY <1>11, SeatsSurvive
  <2> QED
    BY <1>3, <1>4, <2>1
<1>12. ASSUME NEW p \in Payments, LeaseExpires(p), ~Orphaned(p)
       PROVE  TurnsHeld'
  <2> PICK key2 : key2 = [q \in Payments |-> IF q = p THEN m ELSE key[q]]
    OBVIOUS
  <2>1. m = n + 1
    BY <1>12, GoneGrows DEF LeaseExpires, Lapsing, Allowed
  <2>2. \A v \in Workers : at[v] \in 0 .. n
    BY DEF Seats
  <2>3. key2 \in Keys(m)
    BY <1>1, <1>3 DEF Keys
  <2>4. \A v \in Workers : at[v] # m
    BY <1>1, <2>1, <2>2
  <2>5. work' = work /\ \A q \in Payments : q # p => op'[q] = op[q]
    BY <1>12 DEF LeaseExpires, Ops!ExpireLease, Inv, TypeOK, Ops!OperationsOK
  <2>6. Seated(at, key2)'
    BY <2>4, <2>5, SeatAdded
  <2> QED
    BY <1>3, <1>4, <2>3, <2>6
<1>13. ASSUME NEW w \in Workers, AnswerLost(w)
       PROVE  TurnsHeld'
  <2>1. work[w].pc \in Busy /\ Goto(w, "fail") /\ op' = op
    BY <1>13, WaitersAre DEF AnswerLost, Inv, dbVars
  <2>2. work'[w].job = work[w].job /\ \A v \in Workers : v # w => work'[v] = work[v]
    BY <2>1, BusyHave, GotoMoves
  <2>3. LeasesKept
    BY <2>1, RowsKept
  <2>4. Seated(at, key)'
    BY <2>1, <2>2, <2>3, SeatsGo
  <2> QED
    BY <1>3, <1>4, <2>4
<1> QED
  BY <1>5, <1>6, <1>7, <1>8, <1>9, <1>10, <1>11, <1>12, <1>13, NextIs

\* Duplicate deliveries and the sweep never fund a payment at the same time, but for one
\* more of them each time that a lease runs out under a process that is alive: crashes,
\* failed calls and lost receipts do not weaken the lease.
THEOREM LeasesExclude == Spec => []LeaseExclusive
<1>1. Init => Counted /\ TurnsHeld
  BY GoneInit, TurnsInit
<1>2. Inv /\ Counted /\ TurnsHeld /\ [Next]_vars => Counted' /\ TurnsHeld'
  BY CountedNext, TurnsNext
<1>3. Inv /\ Counted /\ TurnsHeld => LeaseExclusive
  <2> SUFFICES ASSUME Inv, Counted, TurnsHeld, NEW p \in Payments
               PROVE  Cardinality({w \in Workers : Job(w) = p /\ work[w].pc \in Funding})
                        <= 1 + Happened({"stalls"})
    BY DEF LeaseExclusive
  <2> DEFINE n == Gone("stalls")
             W == {w \in Workers : Job(w) = p /\ work[w].pc \in Funding}
  <2>1. n \in Nat /\ Happened({"stalls"}) = n
    BY HappenedIs DEF Counted, Lapsing
  <2> PICK at \in Seats(n), key \in Keys(n) : Seated(at, key)
    BY DEF TurnsHeld
  <2> DEFINE seat == [w \in W |-> at[w]]
  <2>2. seat \in [W -> 0 .. n]
    BY DEF Seats
  <2>3. \A v, w \in W : seat[v] = seat[w] => v = w
    BY DEF Seated, Busy
  <2>4. seat \in Injection(W, 0 .. n)
    BY <2>2, <2>3 DEF Injection, IsInjective
  <2>5. IsFiniteSet(0 .. n) /\ Cardinality(0 .. n) = n + 1
    BY <2>1, FS_Interval
  <2> HIDE DEF n, W, seat
  <2>6. IsFiniteSet(W) /\ Cardinality(W) <= n + 1
    BY <2>4, <2>5, FS_Injection
  <2>7. Cardinality(W) \in Nat
    BY <2>6, FS_CardinalityType
  <2>8. Cardinality(W) <= 1 + Happened({"stalls"})
    BY <2>1, <2>6, <2>7
  <2> QED
    BY <2>8 DEF W
<1> QED
  BY <1>1, <1>2, <1>3, TypesInit, TypesNext, PTL DEF Spec

-----------------------------------------------------------------------------
(* One deposit per order, and one more for every lapse                      *)

\* Leases that ran out too early, and receipts that got lost.
Lapses == Gone("stalls") + Gone("slow") + Gone("lost")

\* A slot is a right to send one deposit: every order may have the slot 0, and every lapse
\* gives one more to one order.
Slot == [order : Payments, n : Nat]

SlotsOK(slots) ==
  /\ slots \subseteq [order : Payments, n : 0 .. Lapses]
  /\ \A s, t \in slots : s.n = t.n /\ s.n # 0 => s = t

\* Whoever is busy with a payment has a slot of it, by his seat.
Seat(w, at) == [order |-> Job(w), n |-> at[w]]

\* The transaction is sent by right of slot s: by who has the slot and waits where it was
\* broadcast; or by somebody who has gone, and whose slot nobody else has got, nor will as
\* long as the dead worker's lease lasts.
Behind(tx, s, at, key) ==
  /\ DealOf[s.order] = tx.deal
  /\ tx.worker # NoOne => work[tx.worker].pc = Place[tx.kind] /\ Seat(tx.worker, at) = s
  /\ tx.worker = NoOne =>
       /\ s.n = key[s.order] => Leased(s.order, NoOne)
       /\ \A w \in Workers : work[w].pc \in Busy => Seat(w, at) # s

\* Every pending transaction has a slot of its own.
PoolOK(slots, at, key, of) ==
  /\ \A p \in Payments : [order |-> p, n |-> key[p]] \in slots
  /\ \A w \in Workers : work[w].pc \in Busy => Seat(w, at) \in slots
  /\ of \in [DOMAIN mempool -> slots]
  /\ \A i \in DOMAIN mempool : Behind(mempool[i], of[i], at, key)
  /\ \A i, j \in DOMAIN mempool : of[i] = of[j] => i = j

SlotsOf(d, slots) == {s \in slots : DealOf[s.order] = d}

\* What may still be sent for a deal.
Pledges == [Slot -> Nat]
Pledged(d, slots, pledge) == Sum(pledge, SlotsOf(d, slots))

Most(d) == (Cardinality(Orders(d)) + Lapses) * Deposit[d]

\* With that, a clone that is not closed has got a deposit for every slot at most.
Fits(d, slots, pledge) == clone[d] \notin Void => sent[d] + Pledged(d, slots, pledge) <= Most(d)

\* Before it is funded, a clone holds what has been sent to it, so that no slot pledges more
\* than a deposit; what is planned or pending has been pledged.
MoneyOK(slots, at, of, pledge) ==
  /\ \A d \in Deals : clone[d] \in Unfunded => held[d] = sent[d]
  /\ \A s \in slots : pledge[s] <= Deposit[DealOf[s.order]]
  /\ \A w \in Workers : work[w].pc = "transfer" => work[w].amount <= pledge[Seat(w, at)]
  /\ \A i \in DOMAIN mempool : mempool[i].kind = "transfer" => mempool[i].amount <= pledge[of[i]]
  /\ \A d \in Deals : Fits(d, slots, pledge)

Books(slots, at, key, of, pledge) ==
  /\ SlotsOK(slots)
  /\ at \in Seats(Lapses) /\ key \in Keys(Lapses) /\ Seated(at, key)
  /\ PoolOK(slots, at, key, of)
  /\ MoneyOK(slots, at, of, pledge)

BooksKeep == \E slots, at, key, of : \E pledge \in Pledges : Books(slots, at, key, of, pledge)

LEMMA OrdersFinite ==
  ASSUME NEW d \in Deals
  PROVE  /\ IsFiniteSet(Orders(d)) /\ Orders(d) \subseteq Payments
         /\ Cardinality(Orders(d)) \in Nat /\ Deposit[d] \in Nat
<1>1. Orders(d) \subseteq Payments
  BY DEF Orders
<1>2. IsFiniteSet(Orders(d))
  BY <1>1, FundingAssumption, FS_Subset
<1> QED
  BY <1>1, <1>2, FS_CardinalityType, RelayAssumption

LEMMA LapsesNat ==
  ASSUME Counted
  PROVE  /\ Lapses \in Nat
         /\ \A d \in Deals : Most(d) \in Nat
<1>1. Lapses \in Nat
  BY DEF Counted, Lapses, Lapsing
<1>2. ASSUME NEW d \in Deals PROVE Most(d) \in Nat
  BY <1>1, OrdersFinite DEF Most
<1> QED
  BY <1>1, <1>2

\* A deal has a slot for each of its orders and for each lapse, at most.
LEMMA SlotsFinite ==
  ASSUME Counted, NEW slots, SlotsOK(slots), NEW d \in Deals
  PROVE  /\ SlotsOf(d, slots) \subseteq slots /\ slots \subseteq Slot
         /\ IsFiniteSet(SlotsOf(d, slots))
         /\ Cardinality(SlotsOf(d, slots)) \in Nat
         /\ Cardinality(SlotsOf(d, slots)) <= Cardinality(Orders(d)) + Lapses
<1> DEFINE S == SlotsOf(d, slots)
           A == {s \in S : s.n = 0}
           B == {s \in S : s.n # 0}
           f == [s \in A |-> s.order]
           g == [s \in B |-> s.n]
<1>1. /\ Lapses \in Nat /\ slots \subseteq [order : Payments, n : 0 .. Lapses]
      /\ \A s \in S : s \in slots /\ s.order \in Orders(d) /\ s.n \in 0 .. Lapses
      /\ \A s \in S : s = [order |-> s.order, n |-> s.n]
  BY LapsesNat DEF SlotsOK, SlotsOf, Orders
<1>2. S \subseteq slots /\ slots \subseteq Slot
  BY <1>1 DEF Slot, SlotsOf
<1>3. f \in Injection(A, Orders(d))
  <2>1. f \in [A -> Orders(d)]
    BY <1>1
  <2>2. \A s, t \in A : s.order = t.order => s = t
    BY <1>1
  <2> QED
    BY <2>1, <2>2 DEF Injection, IsInjective
<1>4. g \in Injection(B, 1 .. Lapses)
  <2>1. g \in [B -> 1 .. Lapses]
    BY <1>1
  <2>2. \A s, t \in B : s.n = t.n => s = t
    BY <1>1 DEF SlotsOK
  <2> QED
    BY <2>1, <2>2 DEF Injection, IsInjective
<1>5. IsFiniteSet(1 .. Lapses) /\ Cardinality(1 .. Lapses) = Lapses
  BY <1>1, FS_Interval
<1>6. IsFiniteSet(Orders(d)) /\ Cardinality(Orders(d)) \in Nat
  BY OrdersFinite
<1> HIDE DEF f, g
<1>7. IsFiniteSet(A) /\ Cardinality(A) <= Cardinality(Orders(d))
  BY <1>3, <1>6, FS_Injection
<1>8. IsFiniteSet(B) /\ Cardinality(B) <= Lapses
  BY <1>4, <1>5, FS_Injection
<1>9. S = A \cup B /\ A \cap B = {}
  OBVIOUS
<1> HIDE DEF S, A, B
<1>10. IsFiniteSet(S) /\ Cardinality(S) = Cardinality(A) + Cardinality(B) - Cardinality({})
  BY <1>7, <1>8, <1>9, FS_Union
<1>11. Cardinality({}) = 0 /\ Cardinality(A) \in Nat /\ Cardinality(B) \in Nat
  BY <1>7, <1>8, FS_EmptySet, FS_CardinalityType
<1>12. Cardinality(S) \in Nat /\ Cardinality(S) <= Cardinality(Orders(d)) + Lapses
  BY <1>1, <1>6, <1>7, <1>8, <1>10, <1>11
<1> QED
  BY <1>2, <1>10, <1>12 DEF S

LEMMA PledgedNat ==
  ASSUME Counted, NEW slots, SlotsOK(slots), NEW pledge \in Pledges, NEW d \in Deals
  PROVE  Pledged(d, slots, pledge) \in Nat
<1>1. IsFiniteSet(SlotsOf(d, slots)) /\ \A s \in SlotsOf(d, slots) : pledge[s] \in Nat
  BY SlotsFinite DEF Pledges
<1> QED
  BY <1>1, SumNat DEF Pledged

\* One slot changes its pledge.
LEMMA PledgeChanges ==
  ASSUME Counted, NEW slots, SlotsOK(slots), NEW pledge \in Pledges, NEW s \in slots, NEW n \in Nat,
         NEW d \in Deals
  PROVE  /\ [pledge EXCEPT ![s] = n] \in Pledges
         /\ d # DealOf[s.order] =>
              Pledged(d, slots, [pledge EXCEPT ![s] = n]) = Pledged(d, slots, pledge)
         /\ d = DealOf[s.order] =>
              Pledged(d, slots, [pledge EXCEPT ![s] = n]) + pledge[s] = Pledged(d, slots, pledge) + n
<1> DEFINE S == SlotsOf(d, slots)
           other == [pledge EXCEPT ![s] = n]
<1>1. IsFiniteSet(S) /\ S \subseteq Slot /\ s \in Slot
  BY SlotsFinite
<1>2. other \in Pledges /\ other[s] = n /\ \A t \in Slot : t # s => other[t] = pledge[t]
  BY <1>1 DEF Pledges
<1>3. pledge[s] \in Nat /\ \A t \in Slot : pledge[t] \in Nat /\ other[t] \in Nat
  BY <1>1, <1>2 DEF Pledges
<1> HIDE DEF other
<1>4. ASSUME d # DealOf[s.order]
      PROVE  Sum(other, S) = Sum(pledge, S)
  <2>1. \A t \in S : other[t] = pledge[t]
    BY <1>1, <1>2, <1>4 DEF SlotsOf
  <2> QED
    BY <1>1, <2>1, SumSame
<1>5. ASSUME d = DealOf[s.order]
      PROVE  Sum(other, S) + pledge[s] = Sum(pledge, S) + n
  <2>1. s \in S
    BY <1>5 DEF SlotsOf
  <2>2. \A t \in S : pledge[t] \in Nat /\ other[t] \in Nat
    BY <1>1, <1>3
  <2> HIDE DEF S
  <2>3. Sum(other, S) = other[s] + Sum(other, S \ {s}) /\ Sum(pledge, S) = pledge[s] + Sum(pledge, S \ {s})
    BY <1>1, <2>1, <2>2, SumRemove
  <2>4. IsFiniteSet(S \ {s}) /\ \A t \in S \ {s} : other[t] = pledge[t]
    BY <1>1, <1>2, FS_Subset
  <2>5. Sum(other, S \ {s}) = Sum(pledge, S \ {s})
    BY <2>4, SumSame
  <2>6. Sum(pledge, S \ {s}) \in Nat
    BY <2>2, <2>4, SumNat
  <2> QED
    BY <1>2, <1>3, <2>3, <2>5, <2>6
<1> QED
  BY <1>2, <1>4, <1>5 DEF Pledged, other

LEMMA TimesGrows ==
  ASSUME NEW a \in Nat, NEW b \in Nat, a <= b, NEW c \in Nat
  PROVE  a * c \in Nat /\ b * c \in Nat /\ a * c <= b * c
<1>1. PICK k \in Nat : b = a + k
  <2>1. b - a \in Nat /\ b = a + (b - a)
    OBVIOUS
  <2> QED
    BY <2>1
<1>2. b * c = a * c + k * c
  BY <1>1
<1>3. a * c \in Nat /\ k * c \in Nat
  OBVIOUS
<1> QED
  BY <1>2, <1>3

\* What the others have pledged leaves room for a deposit.
LEMMA RoomForOne ==
  ASSUME Counted, NEW slots, SlotsOK(slots), NEW pledge \in Pledges, NEW s \in slots,
         \A t \in slots : pledge[t] <= Deposit[DealOf[t.order]]
  PROVE  Pledged(DealOf[s.order], slots, pledge) - pledge[s] + Deposit[DealOf[s.order]]
           <= Most(DealOf[s.order])
<1> DEFINE d == DealOf[s.order]
           S == SlotsOf(d, slots)
           c == Deposit[d]
           k == Cardinality(Orders(d)) + Lapses
<1>1. d \in Deals
  BY FundingAssumption DEF SlotsOK
<1>2. /\ IsFiniteSet(S) /\ S \subseteq Slot /\ S \subseteq slots /\ s \in S
      /\ Cardinality(S) \in Nat /\ Cardinality(S) <= k
  BY <1>1, SlotsFinite DEF SlotsOf
<1>3. c \in Nat /\ k \in Nat
  BY <1>1, OrdersFinite, LapsesNat
<1>4. \A t \in S : pledge[t] \in Nat /\ pledge[t] <= c
  BY <1>2 DEF SlotsOf, Pledges
<1>5. Most(d) = k * c
  BY DEF Most
<1> HIDE DEF S, c, k
<1>6. Sum(pledge, S) = pledge[s] + Sum(pledge, S \ {s})
  BY <1>2, <1>4, SumRemove
<1>7. IsFiniteSet(S \ {s}) /\ Cardinality(S \ {s}) = Cardinality(S) - 1
  BY <1>2, FS_RemoveElement
<1>8. Sum(pledge, S \ {s}) \in Nat /\ Sum(pledge, S \ {s}) <= Cardinality(S \ {s}) * c
  BY <1>2, <1>3, <1>4, <1>7, SumAtMost
<1>9. Cardinality(S \ {s}) \in Nat /\ pledge[s] \in Nat
  BY <1>2, <1>4, <1>7, FS_CardinalityType
<1>10. \A n \in Nat : (n + 1) * c = n * c + c /\ n * c \in Nat
  BY <1>3
<1>11. Cardinality(S) = Cardinality(S \ {s}) + 1
  BY <1>2, <1>7
<1>12. Cardinality(S) * c = Cardinality(S \ {s}) * c + c
  BY <1>9, <1>10, <1>11
<1>13. Cardinality(S) * c <= k * c /\ k * c \in Nat
  BY <1>2, <1>3, TimesGrows
<1>14. Sum(pledge, S) - pledge[s] + c <= k * c
  BY <1>2, <1>3, <1>6, <1>8, <1>9, <1>10, <1>12, <1>13
<1> QED
  BY <1>5, <1>14 DEF Pledged, S, c

\* A new slot, which pledges nothing.
Opens(slots, pledge, s, more, other) ==
  /\ s \in Slot /\ s \notin slots /\ more = slots \cup {s}
  /\ other \in Pledges /\ other[s] = 0 /\ \A t \in slots : other[t] = pledge[t]

\* A slot that pledges nothing changes nothing, and the lapse it comes from makes room.
LEMMA FitsStill ==
  ASSUME Counted, Counted', Lapses' = Lapses + 1,
         NEW slots, SlotsOK(slots), NEW pledge \in Pledges, NEW d \in Deals,
         NEW s, NEW more, NEW other, Opens(slots, pledge, s, more, other),
         clone'[d] = clone[d], sent'[d] = sent[d], sent[d] \in Nat, Fits(d, slots, pledge)
  PROVE  Fits(d, more, other)'
<1> DEFINE S == SlotsOf(d, slots)
           T == SlotsOf(d, more)
<1>1. IsFiniteSet(S) /\ S \subseteq slots /\ slots \subseteq Slot
  BY SlotsFinite
<1>2. T = S \/ T = S \cup {s}
  BY DEF SlotsOf, Opens
<1>3. \A t \in S : other[t] = pledge[t] /\ pledge[t] \in Nat
  BY <1>1 DEF Pledges, Opens
<1>4. s \notin S /\ other[s] = 0
  BY <1>1 DEF Opens
<1>5. Sum(other, T) = Sum(pledge, S) /\ Sum(pledge, S) \in Nat
  <2> HIDE DEF S, T
  <2> QED
    BY <1>1, <1>2, <1>3, <1>4, SumSkips
<1>6. Most(d) \in Nat /\ Most(d)' \in Nat /\ Most(d) <= Most(d)'
  <2> PICK c : c = Cardinality(Orders(d))
    OBVIOUS
  <2> PICK l \in Nat : l = Lapses
    BY LapsesNat
  <2>1. c \in Nat /\ Deposit[d] \in Nat
    BY OrdersFinite
  <2>2. Most(d) = (c + l) * Deposit[d]
    BY DEF Most
  <2>3. Most(d)' = (c + (l + 1)) * Deposit[d]
    <3>1. Lapses' = l + 1 /\ Cardinality(Orders(d))' = c
      BY DEF Orders
    <3> QED
      BY <3>1 DEF Most
  <2>4. c + l \in Nat /\ c + (l + 1) \in Nat /\ c + l <= c + (l + 1)
    BY <2>1
  <2> QED
    BY <2>1, <2>2, <2>3, <2>4, TimesGrows
<1>7. clone'[d] \notin Void => sent'[d] + Sum(other, T) <= Most(d)'
  BY <1>5, <1>6 DEF Fits, Pledged
<1> QED
  BY <1>7 DEF Fits, Pledged, SlotsOf

\* A lapse adds a slot.
LEMMA SlotAdded ==
  ASSUME Counted, Lapses' = Lapses + 1,
         NEW slots, SlotsOK(slots), NEW pledge \in Pledges, NEW p \in Payments
  PROVE  \E s, more, other :
           /\ s.order = p /\ s.n = Lapses + 1
           /\ Opens(slots, pledge, s, more, other)
           /\ SlotsOK(more)'
<1> PICK k : k = Lapses + 1
  OBVIOUS
<1> PICK s : s = [order |-> p, n |-> k]
  OBVIOUS
<1> PICK more : more = slots \cup {s}
  OBVIOUS
<1> PICK other : other = [pledge EXCEPT ![s] = 0]
  OBVIOUS
<1>1. Lapses \in Nat /\ k \in Nat
  BY LapsesNat
<1>2. s \in Slot /\ s \notin slots /\ slots \subseteq Slot /\ s.order = p /\ s.n = k
  BY <1>1 DEF Slot, SlotsOK
<1>3. SlotsOK(more)'
  <2>1. slots \subseteq [order : Payments, n : 0 .. Lapses]
    BY DEF SlotsOK
  <2>2. 0 .. Lapses \subseteq 0 .. Lapses' /\ k \in 0 .. Lapses'
    BY <1>1
  <2>3. more \subseteq [order : Payments, n : 0 .. Lapses']
    BY <2>1, <2>2
  <2>4. \A t \in slots : t.n # k
    BY <1>1, <2>1
  <2>5. \A t, u \in more : t.n = u.n /\ t.n # 0 => t = u
    BY <2>4 DEF SlotsOK
  <2> QED
    BY <2>3, <2>5 DEF SlotsOK
<1>4. other \in Pledges /\ other[s] = 0 /\ \A t \in slots : other[t] = pledge[t]
  BY <1>2 DEF Pledges
<1>5. Opens(slots, pledge, s, more, other)
  BY <1>2, <1>4 DEF Opens
<1> QED
  BY <1>2, <1>3, <1>5

-----------------------------------------------------------------------------
(* Steps that cost nothing                                                  *)

LEMMA SpareLapses == ASSUME Spares PROVE Lapses' = Lapses
  BY SparesKeep DEF Lapses, Lapsing

\* Who has the slot of a pending transaction is who waits for it.
LEMMA OnlySitter ==
  ASSUME Inv, NEW slots, NEW at, NEW key, NEW of, Seated(at, key), PoolOK(slots, at, key, of),
         NEW w \in Workers, work[w].pc \in Busy,
         NEW i \in DOMAIN mempool, of[i] = Seat(w, at)
  PROVE  mempool[i].worker = w
<1>1. mempool[i] \in Tx /\ Behind(mempool[i], of[i], at, key)
  BY DEF Inv, TypeOK, ChainOK, PoolOK
<1>2. CASE mempool[i].worker = NoOne
  BY <1>1, <1>2 DEF Behind
<1>3. CASE mempool[i].worker # NoOne
  <2> PICK v : v = mempool[i].worker
    OBVIOUS
  <2>1. v \in Workers /\ work[v].pc \in Busy
    BY <1>1, <1>3 DEF Tx, Inv, WaitersKnown
  <2>2. Seat(v, at) = Seat(w, at)
    BY <1>1, <1>3 DEF Behind
  <2>3. Job(v) = Job(w) /\ at[v] = at[w]
    BY <2>2 DEF Seat
  <2> QED
    BY <2>1, <2>3 DEF Seated
<1> QED
  BY <1>2, <1>3

\* A step that broadcasts and mines nothing, and moves nobody who waits.
LEMMA PoolFramed ==
  ASSUME Inv, NEW slots, NEW at, NEW key, NEW of, PoolOK(slots, at, key, of), mempool' = mempool,
         NEW more, slots \subseteq more, NEW at2, NEW key2,
         \A p \in Payments : [order |-> p, n |-> key2[p]] \in more,
         \A v \in Workers : work'[v].pc \in Busy => Seat(v, at2)' \in more,
         \A v \in Workers : Waits(v) => work'[v] = work[v] /\ at2[v] = at[v],
         \A i \in DOMAIN mempool : mempool[i].worker = NoOne =>
           /\ of[i].n = key2[of[i].order] => Leased(of[i].order, NoOne)'
           /\ \A v \in Workers : work'[v].pc \in Busy => Seat(v, at2)' # of[i]
  PROVE  PoolOK(more, at2, key2, of)'
<1>1. ASSUME NEW i \in DOMAIN mempool
      PROVE  Behind(mempool[i], of[i], at2, key2)'
  <2>1. mempool[i] \in Tx /\ Behind(mempool[i], of[i], at, key)
    BY DEF Inv, TypeOK, ChainOK, PoolOK
  <2>2. CASE mempool[i].worker = NoOne
    BY <2>1, <2>2 DEF Behind
  <2>3. CASE mempool[i].worker # NoOne
    <3>1. mempool[i].worker \in Workers /\ Waits(mempool[i].worker)
      BY <2>1, <2>3 DEF Tx, Waits, ToSet
    <3> QED
      BY <2>1, <2>3, <3>1 DEF Behind, Job, Seat
  <2> QED
    BY <2>2, <2>3
<1>2. of \in [DOMAIN mempool -> more]
  BY DEF PoolOK
<1> QED
  BY <1>1, <1>2 DEF PoolOK

\* ... and leads nobody to a transfer.
LEMMA MoneyFramed ==
  ASSUME Inv, NEW slots, NEW at, NEW of, NEW pledge \in Pledges, MoneyOK(slots, at, of, pledge),
         mempool' = mempool, sent' = sent, Lapses' = Lapses,
         \A d \in Deals : clone[d] \in Void => clone'[d] \in Void,
         \A d \in Deals : clone'[d] \in Unfunded => clone[d] \in Unfunded /\ held'[d] = held[d],
         NEW at2,
         \A v \in Workers : work'[v].pc = "transfer" => work'[v] = work[v] /\ at2[v] = at[v]
  PROVE  MoneyOK(slots, at2, of, pledge)'
<1>1. \A v \in Workers : work'[v].pc = "transfer" => work'[v].amount <= pledge[Seat(v, at2)']
  BY DEF MoneyOK, Seat, Job
<1>2. \A d \in Deals : clone'[d] \in Unfunded => held'[d] = sent'[d]
  BY DEF MoneyOK
<1>3. ASSUME NEW d \in Deals
      PROVE  Fits(d, slots, pledge)'
  <2>1. Most(d)' = Most(d) /\ Pledged(d, slots, pledge)' = Pledged(d, slots, pledge)
    BY DEF Most, Orders, Pledged, SlotsOf
  <2> QED
    BY <2>1 DEF MoneyOK, Fits
<1> QED
  BY <1>1, <1>2, <1>3 DEF MoneyOK

\* What does not depend on where the workers are.
LEMMA SlotsFramed ==
  ASSUME NEW slots, NEW at, NEW key, NEW of, NEW pledge, Books(slots, at, key, of, pledge), Spares
  PROVE  /\ SlotsOK(slots)' /\ at \in Seats(Lapses)' /\ key \in Keys(Lapses)' /\ Lapses' = Lapses
         /\ \A i \in DOMAIN mempool : of[i] \in slots /\ of[i].order \in Payments
<1>1. Lapses' = Lapses
  BY SpareLapses
<1>2. \A i \in DOMAIN mempool : of[i] \in slots /\ of[i].order \in Payments
  BY DEF Books, SlotsOK, PoolOK
<1> QED
  BY <1>1, <1>2 DEF Books, SlotsOK, Seats, Keys

\* Nobody moves.
LEMMA RestsBooks ==
  ASSUME Inv, Spares, Rests,
         NEW slots, NEW at, NEW key, NEW of, NEW pledge \in Pledges, Books(slots, at, key, of, pledge)
  PROVE  BooksKeep'
<1>1. SlotsOK(slots)' /\ at \in Seats(Lapses)' /\ key \in Keys(Lapses)' /\ Lapses' = Lapses
  BY SlotsFramed
<1>2. \A v \in Workers : work'[v] = work[v] /\ Seat(v, at)' = Seat(v, at) /\ Job(v)' = Job(v)
  BY DEF Rests, Seat, Job
<1>3. Seated(at, key)'
  <2>1. ASSUME NEW v \in Workers, work[v].pc \in Busy, Leased(Job(v), Proc(v))
        PROVE  Leased(Job(v), Proc(v))'
    <3> PICK p \in Payments : p = Job(v)
      BY <2>1, BusyHave
    <3> PICK r \in Replicas : r = Proc(v)
      BY <2>1, BusyHave
    <3>1. Leased(p, r)'
      BY <2>1 DEF Rests, LeasesKept
    <3> QED
      BY <1>2, <3>1 DEF Leased, Proc
  <2> QED
    BY <1>2, <2>1, SeatsKept DEF Books
<1>4. PoolOK(slots, at, key, of)'
  <2>1. \A i \in DOMAIN mempool : mempool[i].worker = NoOne =>
           /\ of[i].n = key[of[i].order] => Leased(of[i].order, NoOne)'
           /\ \A v \in Workers : work'[v].pc \in Busy => Seat(v, at)' # of[i]
    BY <1>2, SlotsFramed DEF Rests, LeasesKept, Books, PoolOK, Behind
  <2>2. /\ PoolOK(slots, at, key, of) /\ mempool' = mempool /\ slots \subseteq slots
        /\ \A p \in Payments : [order |-> p, n |-> key[p]] \in slots
        /\ \A v \in Workers : work'[v].pc \in Busy => Seat(v, at)' \in slots
        /\ \A v \in Workers : Waits(v) => work'[v] = work[v] /\ at[v] = at[v]
    BY <1>2 DEF Books, PoolOK, Rests
  <2> QED
    BY <2>1, <2>2, PoolFramed
<1>5. MoneyOK(slots, at, of, pledge)'
  BY <1>1, <1>2, MoneyFramed DEF Books, Rests
<1> QED
  BY <1>1, <1>3, <1>4, <1>5 DEF BooksKeep, Books

\* What a worker finds missing leaves the others what they have pledged.
LEMMA RoomForShortfall ==
  ASSUME Inv, Counted, NEW slots, SlotsOK(slots), NEW at, NEW of, NEW pledge \in Pledges,
         MoneyOK(slots, at, of, pledge), NEW s \in slots,
         NEW d, d = DealOf[s.order], ~isFundedOrLater(d), Shortfall(d) > 0
  PROVE  /\ Shortfall(d) \in Nat /\ Shortfall(d) <= Deposit[d]
         /\ \A e \in Deals : Fits(e, slots, [pledge EXCEPT ![s] = Shortfall(d)])
<1>1. d \in Deals /\ s.order \in Payments /\ s \in Slot
  BY FundingAssumption DEF SlotsOK, Slot
<1>2. /\ held[d] \in Nat /\ sent[d] \in Nat /\ Deposit[d] \in Nat /\ clone[d] \in CloneStatus
      /\ pledge[s] \in Nat
  BY <1>1, RelayAssumption DEF Inv, TypeOK, ChainOK, Pledges
<1>3. Shortfall(d) = Deposit[d] - held[d] /\ Shortfall(d) \in Nat /\ Shortfall(d) <= Deposit[d]
  BY <1>2 DEF Shortfall
<1> PICK n \in Nat : n = Shortfall(d)
  BY <1>3
<1>5. \A e \in Deals :
        /\ [pledge EXCEPT ![s] = n] \in Pledges
        /\ e # DealOf[s.order] =>
             Pledged(e, slots, [pledge EXCEPT ![s] = n]) = Pledged(e, slots, pledge)
        /\ e = DealOf[s.order] =>
             Pledged(e, slots, [pledge EXCEPT ![s] = n]) + pledge[s] = Pledged(e, slots, pledge) + n
  BY PledgeChanges
<1> PICK other : other = [pledge EXCEPT ![s] = n]
  OBVIOUS
<1>4. ASSUME NEW e \in Deals
      PROVE  Fits(e, slots, other)
  <2>1. /\ e # d => Pledged(e, slots, other) = Pledged(e, slots, pledge)
        /\ e = d => Pledged(e, slots, other) + pledge[s] = Pledged(e, slots, pledge) + n
    BY <1>5
  <2>2. Fits(e, slots, pledge)
    BY DEF MoneyOK
  <2>3. CASE e # d
    BY <2>1, <2>2, <2>3 DEF Fits
  <2>4. ASSUME e = d, clone[d] \notin Void
        PROVE  sent[d] + Pledged(d, slots, other) <= Most(d)
    <3>1. clone[d] \in Unfunded
      BY <1>2, <2>4 DEF CloneStatus, Void, Unfunded, isFundedOrLater
    <3>2. held[d] = sent[d]
      BY <1>1, <3>1 DEF MoneyOK
    <3>3. other \in Pledges
      BY <1>5, <2>4
    <3>4. Pledged(d, slots, other) \in Nat /\ Pledged(d, slots, pledge) \in Nat /\ Most(d) \in Nat
      BY <1>1, <3>3, PledgedNat, LapsesNat
    <3>5. Pledged(d, slots, pledge) - pledge[s] + Deposit[d] <= Most(d)
      BY RoomForOne DEF MoneyOK
    <3>6. Pledged(d, slots, other) + pledge[s] = Pledged(d, slots, pledge) + n
      BY <1>1, <2>1, <2>4
    <3> QED
      BY <1>2, <1>3, <3>2, <3>4, <3>5, <3>6
  <2> QED
    BY <2>3, <2>4 DEF Fits
<1> QED
  BY <1>3, <1>4

\* One worker gets on, and may find out what to transfer.
LEMMA GoesBooks ==
  ASSUME Inv, Counted, Spares, NEW w \in Workers, Goes(w),
         NEW slots, NEW at, NEW key, NEW of, NEW pledge \in Pledges, Books(slots, at, key, of, pledge)
  PROVE  BooksKeep'
<1>1. SlotsOK(slots)' /\ at \in Seats(Lapses)' /\ key \in Keys(Lapses)' /\ Lapses' = Lapses
  BY SlotsFramed
<1>2. /\ ~Waits(w) /\ mempool' = mempool /\ sent' = sent /\ held' = held /\ clone' = clone
      /\ \A v \in Workers : v # w => work'[v] = work[v]
  BY DEF Goes, Alone, chainVars
<1>3. \A v \in Workers : work'[v].pc \in Busy => work[v].pc \in Busy /\ Seat(v, at)' = Seat(v, at)
  BY <1>2 DEF Goes, Seat, Job
<1>4. Seated(at, key)'
  BY <1>2, SeatsGo DEF Goes, Books
<1>5. PoolOK(slots, at, key, of)'
  <2>1. \A i \in DOMAIN mempool : mempool[i].worker = NoOne =>
           /\ of[i].n = key[of[i].order] => Leased(of[i].order, NoOne)'
           /\ \A v \in Workers : work'[v].pc \in Busy => Seat(v, at)' # of[i]
    BY <1>3, SlotsFramed DEF Goes, LeasesKept, Books, PoolOK, Behind
  <2>2. /\ PoolOK(slots, at, key, of) /\ slots \subseteq slots
        /\ \A p \in Payments : [order |-> p, n |-> key[p]] \in slots
        /\ \A v \in Workers : work'[v].pc \in Busy => Seat(v, at)' \in slots
        /\ \A v \in Workers : Waits(v) => work'[v] = work[v] /\ at[v] = at[v]
    BY <1>2, <1>3 DEF Books, PoolOK
  <2> QED
    BY <1>2, <2>1, <2>2, PoolFramed
<1>6. CASE work'[w].pc # "transfer"
  <2>1. MoneyOK(slots, at, of, pledge)'
    BY <1>1, <1>2, <1>6, MoneyFramed DEF Books
  <2> QED
    BY <1>1, <1>4, <1>5, <2>1 DEF BooksKeep, Books
<1>7. CASE work'[w].pc = "transfer"
  <2> PICK s : s = Seat(w, at)
    OBVIOUS
  <2> PICK d : d = JobDeal(w)
    OBVIOUS
  <2> PICK n : n = Shortfall(d)
    OBVIOUS
  <2>1. work[w].pc \in Busy /\ s \in slots /\ s.order = Job(w) /\ d = DealOf[s.order]
    BY <1>3, <1>7 DEF Books, PoolOK, Seat, JobDeal, Busy, Funding
  <2>2. ~isFundedOrLater(d) /\ Shortfall(d) > 0 /\ work'[w].amount = n
    BY <1>7 DEF Goes
  <2>3. SlotsOK(slots) /\ MoneyOK(slots, at, of, pledge) /\ PoolOK(slots, at, key, of) /\ Seated(at, key)
    BY DEF Books
  <2>4. /\ n \in Nat /\ n <= Deposit[d]
        /\ \A e \in Deals : Fits(e, slots, [pledge EXCEPT ![s] = n])
    BY <2>1, <2>2, <2>3, RoomForShortfall
  <2>a. slots \subseteq Slot /\ s \in Slot
    BY <2>1, <2>3, SlotsFinite DEF SlotsOK, Slot
  <2> PICK other : other = [pledge EXCEPT ![s] = n]
    OBVIOUS
  <2>5. /\ other \in Pledges /\ other[s] = n /\ slots \subseteq Slot
        /\ \A t \in Slot : t # s => other[t] = pledge[t]
    <3>1. pledge \in [Slot -> Nat] /\ n \in Nat /\ s \in Slot
      BY <2>4, <2>a DEF Pledges
    <3> QED
      BY <2>a, <3>1 DEF Pledges
  <2>6. MoneyOK(slots, at, of, other)'
    <3>1. \A e \in Deals : clone'[e] \in Unfunded => held'[e] = sent'[e]
      BY <1>2, <2>3 DEF MoneyOK
    <3>2. \A t \in slots : other[t] <= Deposit[DealOf[t.order]]
      BY <2>1, <2>3, <2>4, <2>5 DEF MoneyOK
    <3>3. ASSUME NEW v \in Workers, work'[v].pc = "transfer"
          PROVE  work'[v].amount <= other[Seat(v, at)']
      <4>1. work[v].pc \in Busy /\ Seat(v, at)' = Seat(v, at) /\ Seat(v, at) \in slots
        BY <1>3, <2>3, <3>3 DEF Busy, Funding, PoolOK
      <4>2. CASE v = w
        BY <2>2, <2>4, <2>5, <4>1, <4>2
      <4>3. CASE v # w
        <5>1. Seat(v, at) # s
          BY <2>1, <2>3, <4>1, <4>3 DEF Seated, Seat
        <5>2. work[v].pc = "transfer" /\ work'[v].amount = work[v].amount
          BY <1>2, <3>3, <4>3
        <5>3. work[v].amount <= pledge[Seat(v, at)]
          BY <2>3, <5>2 DEF MoneyOK
        <5> QED
          BY <2>5, <4>1, <5>1, <5>2, <5>3
      <4> QED
        BY <4>2, <4>3
    <3>4. ASSUME NEW i \in DOMAIN mempool, mempool[i].kind = "transfer"
          PROVE  mempool[i].amount <= other[of[i]]
      <4>1. of[i] # s
        <5> SUFFICES ASSUME of[i] = s PROVE FALSE
          OBVIOUS
        <5>1. mempool[i].worker = w
          BY <2>1, <2>3, OnlySitter
        <5> QED
          BY <1>2, <5>1 DEF Waits, ToSet
      <4>2. of[i] \in Slot /\ mempool[i].amount <= pledge[of[i]]
        BY <2>3, <2>5, <3>4 DEF PoolOK, MoneyOK
      <4> QED
        BY <2>5, <4>1, <4>2
    <3>5. ASSUME NEW e \in Deals
          PROVE  Fits(e, slots, other)'
      <4>1. Most(e)' = Most(e) /\ Pledged(e, slots, other)' = Pledged(e, slots, other)
        BY <1>1 DEF Most, Orders, Pledged, SlotsOf
      <4> QED
        BY <1>2, <2>4, <4>1 DEF Fits
    <3> QED
      BY <1>2, <3>1, <3>2, <3>3, <3>4, <3>5 DEF MoneyOK
  <2> QED
    BY <1>1, <1>4, <1>5, <2>5, <2>6 DEF BooksKeep, Books
<1> QED
  BY <1>6, <1>7

\* A transaction is broadcast.
LEMMA SendsBooks ==
  ASSUME Inv, Counted, Spares, NEW w \in Workers, NEW kind \in Kinds, NEW amount \in Nat,
         Sends(w, kind, amount),
         NEW slots, NEW at, NEW key, NEW of, NEW pledge \in Pledges, Books(slots, at, key, of, pledge)
  PROVE  BooksKeep'
<1> DEFINE tx == [kind |-> kind, deal |-> JobDeal(w), amount |-> amount, worker |-> w]
<1> PICK s : s = Seat(w, at)
  OBVIOUS
<1> PICK of2 : of2 = [i \in DOMAIN mempool' |-> IF i \in DOMAIN mempool THEN of[i] ELSE s]
  OBVIOUS
<1>1. SlotsOK(slots)' /\ at \in Seats(Lapses)' /\ key \in Keys(Lapses)' /\ Lapses' = Lapses
  BY SlotsFramed
<1>2. /\ work[w].pc \in Busy /\ work[w].pc = Place[kind] /\ ~Waits(w)
      /\ kind = "transfer" => work[w].pc = "transfer" /\ amount = work[w].amount
  BY DEF Sends, Place, Kinds, Busy, Funding
<1>3. JobDeal(w) \in Deals /\ DealOf[s.order] = JobDeal(w) /\ s \in slots
  BY <1>2, BusyHave, FundingAssumption DEF JobDeal, Seat, Books, PoolOK
<1>4. tx \in Tx
  BY <1>3 DEF Tx, Kinds
<1>5. mempool' = Append(mempool, tx) /\ mempool \in Seq(Tx)
  BY DEF Sends, Broadcast, Inv, TypeOK, ChainOK
<1>6. tx.kind = kind /\ tx.deal = JobDeal(w) /\ tx.amount = amount /\ tx.worker = w /\ w # NoOne
  BY RelayAssumption
<1> HIDE DEF tx
<1>7. \A i \in DOMAIN mempool' :
        \/ i \in DOMAIN mempool /\ mempool'[i] = mempool[i] /\ of2[i] = of[i]
        \/ i \notin DOMAIN mempool /\ i = Len(mempool) + 1 /\ mempool'[i] = tx /\ of2[i] = s
  <2> SUFFICES ASSUME NEW i \in DOMAIN mempool'
               PROVE  \/ i \in DOMAIN mempool /\ mempool'[i] = mempool[i] /\ of2[i] = of[i]
                      \/ /\ i \notin DOMAIN mempool /\ i = Len(mempool) + 1
                         /\ mempool'[i] = tx /\ of2[i] = s
    OBVIOUS
  <2>1. CASE i \in DOMAIN mempool
    BY <1>4, <1>5, <2>1
  <2>2. CASE i \notin DOMAIN mempool
    BY <1>4, <1>5, <2>2
  <2> QED
    BY <2>1, <2>2
<1>8. \A i \in DOMAIN mempool : of[i] # s
  <2> SUFFICES ASSUME NEW i \in DOMAIN mempool, of[i] = s PROVE FALSE
    OBVIOUS
  <2>1. mempool[i].worker = w
    BY <1>2, OnlySitter DEF Books
  <2> QED
    BY <1>2, <2>1 DEF Waits, ToSet
<1>9. /\ clone' = clone /\ held' = held /\ sent' = sent /\ work' = work
      /\ \A v \in Workers : Seat(v, at)' = Seat(v, at)
  BY DEF Sends, Broadcast, Seat, Job
<1>10. Seated(at, key)'
  BY <1>9, SeatsGo DEF Sends, Books
<1>11. PoolOK(slots, at, key, of2)'
  <2>0. PoolOK(slots, at, key, of)
    BY DEF Books
  <2>1. ASSUME NEW i \in DOMAIN mempool'
        PROVE  Behind(mempool[i], of2[i], at, key)' /\ of2[i] \in slots
    <3>1. CASE mempool'[i] = tx /\ of2[i] = s
      BY <1>2, <1>3, <1>6, <1>9, <3>1 DEF Behind
    <3>2. CASE i \in DOMAIN mempool /\ mempool'[i] = mempool[i] /\ of2[i] = of[i]
      <4>1. Behind(mempool[i], of[i], at, key) /\ of[i] \in slots /\ of[i].order \in Payments
        BY <2>0, <3>2, SlotsFramed DEF PoolOK
      <4>2. Leased(of[i].order, NoOne) => Leased(of[i].order, NoOne)'
        BY <4>1 DEF Sends, LeasesKept
      <4>3. mempool[i].worker \in Workers \cup {NoOne}
        <5>1. mempool[i] \in Tx
          BY <3>2 DEF Inv, TypeOK, ChainOK
        <5> QED
          BY <5>1 DEF Tx
      <4> QED
        BY <1>9, <3>2, <4>1, <4>2, <4>3 DEF Behind
    <3> QED
      BY <1>7, <3>1, <3>2
  <2>2. ASSUME NEW i \in DOMAIN mempool', NEW j \in DOMAIN mempool', of2[i] = of2[j]
        PROVE  i = j
    BY <1>7, <1>8, <2>0, <2>2 DEF PoolOK
  <2>3. of2 \in [DOMAIN mempool' -> slots]
    BY <2>1
  <2>4. \A v \in Workers : work'[v].pc \in Busy => Seat(v, at)' \in slots
    BY <1>9, <2>0 DEF PoolOK
  <2> QED
    BY <2>0, <2>1, <2>2, <2>3, <2>4 DEF PoolOK
<1>12. MoneyOK(slots, at, of2, pledge)'
  <2>0. MoneyOK(slots, at, of, pledge)
    BY DEF Books
  <2>1. ASSUME NEW i \in DOMAIN mempool', mempool'[i].kind = "transfer"
        PROVE  mempool'[i].amount <= pledge[of2[i]]
    <3>1. CASE mempool'[i] = tx /\ of2[i] = s
      BY <1>2, <1>6, <2>0, <2>1, <3>1 DEF MoneyOK
    <3>2. CASE i \in DOMAIN mempool /\ mempool'[i] = mempool[i] /\ of2[i] = of[i]
      BY <2>0, <2>1, <3>2 DEF MoneyOK
    <3> QED
      BY <1>7, <3>1, <3>2
  <2>2. \A v \in Workers : work'[v].pc = "transfer" => work'[v].amount <= pledge[Seat(v, at)']
    BY <1>9, <2>0 DEF MoneyOK
  <2>3. ASSUME NEW e \in Deals
        PROVE  Fits(e, slots, pledge)'
    <3>1. Most(e)' = Most(e) /\ Pledged(e, slots, pledge)' = Pledged(e, slots, pledge)
      BY <1>1 DEF Most, Orders, Pledged, SlotsOf
    <3> QED
      BY <1>9, <2>0, <3>1 DEF Fits, MoneyOK
  <2> QED
    BY <1>9, <2>0, <2>1, <2>2, <2>3 DEF MoneyOK
<1> QED
  BY <1>1, <1>10, <1>11, <1>12 DEF BooksKeep, Books

\* A payment is claimed: whoever has sent something by right of the slot that goes with its
\* lease holds the lease, or has died holding it.
LEMMA TakesBooks ==
  ASSUME Inv, Spares, NEW w \in Workers, NEW p \in Payments, Takes(w, p),
         NEW slots, NEW at, NEW key, NEW of, NEW pledge \in Pledges, Books(slots, at, key, of, pledge)
  PROVE  BooksKeep'
<1> PICK at2 : at2 = [v \in Workers |-> IF v = w THEN key[p] ELSE at[v]]
  OBVIOUS
<1>1. SlotsOK(slots)' /\ at \in Seats(Lapses)' /\ key \in Keys(Lapses)' /\ Lapses' = Lapses
  BY SlotsFramed
<1>2. at2 \in Seats(Lapses)'
  BY <1>1 DEF Seats, Keys
<1>3. /\ ~Waits(w) /\ mempool' = mempool /\ sent' = sent /\ held' = held /\ clone' = clone
      /\ \A v \in Workers : v # w => work'[v] = work[v] /\ at2[v] = at[v]
  BY DEF Takes, Alone, chainVars
<1>4. Seated(at2, key)'
  BY SeatTaken DEF Books
<1>5. LeasesKept /\ ~Leased(p, NoOne)
  <2>1. Proc(w) \in Replicas
    BY RelayAssumption DEF Proc
  <2>2. ~Leased(p, NoOne)
    BY DEF Takes, Ops!ClaimFunding, Ops!Claimable, Leased
  <2> QED
    BY <2>1, <2>2, RowsKept DEF Takes
<1>6. Seat(w, at2)' = [order |-> p, n |-> key[p]]
  BY DEF Seat, Job, Takes
<1>7. \A v \in Workers : v # w /\ work'[v].pc \in Busy => work[v].pc \in Busy /\ Seat(v, at2)' = Seat(v, at)
  BY <1>3 DEF Seat, Job
<1>8. PoolOK(slots, at2, key, of)'
  <2>0. PoolOK(slots, at, key, of)
    BY DEF Books
  <2>1. ASSUME NEW i \in DOMAIN mempool, mempool[i].worker = NoOne
        PROVE  /\ of[i].n = key[of[i].order] => Leased(of[i].order, NoOne)'
               /\ \A v \in Workers : work'[v].pc \in Busy => Seat(v, at2)' # of[i]
    <3>1. of[i].order \in Payments /\ Behind(mempool[i], of[i], at, key)
      BY <2>0, SlotsFramed DEF PoolOK
    <3>2. of[i].n = key[of[i].order] => Leased(of[i].order, NoOne)
      BY <2>1, <3>1 DEF Behind
    <3>3. of[i] # [order |-> p, n |-> key[p]]
      BY <1>5, <3>2
    <3> QED
      BY <1>5, <1>6, <1>7, <2>1, <3>1, <3>2, <3>3 DEF LeasesKept, Behind
  <2>2. /\ slots \subseteq slots
        /\ \A q \in Payments : [order |-> q, n |-> key[q]] \in slots
        /\ \A v \in Workers : work'[v].pc \in Busy => Seat(v, at2)' \in slots
        /\ \A v \in Workers : Waits(v) => work'[v] = work[v] /\ at2[v] = at[v]
    BY <1>3, <1>6, <1>7, <2>0 DEF PoolOK
  <2> QED
    BY <1>3, <2>0, <2>1, <2>2, PoolFramed
<1>9. MoneyOK(slots, at2, of, pledge)'
  <2>1. \A v \in Workers : work'[v].pc = "transfer" => work'[v] = work[v] /\ at2[v] = at[v]
    BY <1>3 DEF Takes
  <2> QED
    BY <1>1, <1>3, <2>1, MoneyFramed DEF Books
<1> QED
  BY <1>1, <1>2, <1>4, <1>8, <1>9 DEF BooksKeep, Books

\* Whoever gives a lease up has nothing pending, and leaves the slot to the next holder.
LEMMA GivesBooks ==
  ASSUME Inv, Spares, NEW w \in Workers, Gives(w),
         NEW slots, NEW at, NEW key, NEW of, NEW pledge \in Pledges, Books(slots, at, key, of, pledge)
  PROVE  BooksKeep'
<1> PICK p \in Payments : p = Job(w)
  BY BusyHave DEF Gives
<1> PICK key2 : key2 = [q \in Payments |-> IF q = p THEN at[w] ELSE key[q]]
  OBVIOUS
<1>1. SlotsOK(slots)' /\ at \in Seats(Lapses)' /\ key \in Keys(Lapses)' /\ Lapses' = Lapses
  BY SlotsFramed
<1>2. key2 \in Keys(Lapses)'
  BY <1>1 DEF Seats, Keys
<1>3. /\ ~Waits(w) /\ mempool' = mempool /\ sent' = sent /\ held' = held /\ clone' = clone
      /\ \A v \in Workers : v # w => work'[v] = work[v]
      /\ work[w].pc \in Busy /\ work'[w].pc \notin Busy
  BY DEF Gives, Alone, chainVars
<1>4. Seated(at, key2)'
  BY SeatGiven DEF Books
<1>5. \A q \in Payments : q # p => op'[q] = op[q]
  BY DEF Gives, Ops!Mark, Inv, TypeOK, Ops!OperationsOK
<1>6. \A v \in Workers : work'[v].pc \in Busy => work[v].pc \in Busy /\ Seat(v, at)' = Seat(v, at)
  BY <1>3 DEF Seat, Job
<1>7. PoolOK(slots, at, key2, of)'
  <2>0. PoolOK(slots, at, key, of)
    BY DEF Books
  <2>1. ASSUME NEW i \in DOMAIN mempool, mempool[i].worker = NoOne
        PROVE  /\ of[i].n = key2[of[i].order] => Leased(of[i].order, NoOne)'
               /\ \A v \in Workers : work'[v].pc \in Busy => Seat(v, at)' # of[i]
    <3>1. of[i] \in slots /\ of[i].order \in Payments /\ Behind(mempool[i], of[i], at, key)
      BY <2>0, SlotsFramed DEF PoolOK
    <3>2. of[i] # Seat(w, at) /\ of[i] = [order |-> of[i].order, n |-> of[i].n]
      BY <1>3, <2>1, <3>1 DEF Behind, Books, SlotsOK
    <3>3. of[i].order = p => of[i].n # at[w]
      BY <3>2 DEF Seat
    <3>4. of[i].order # p /\ Leased(of[i].order, NoOne) => Leased(of[i].order, NoOne)'
      BY <1>5, <3>1 DEF Leased
    <3> QED
      BY <1>6, <2>1, <3>1, <3>3, <3>4 DEF Behind
  <2>2. /\ slots \subseteq slots
        /\ \A q \in Payments : [order |-> q, n |-> key2[q]] \in slots
        /\ \A v \in Workers : work'[v].pc \in Busy => Seat(v, at)' \in slots
        /\ \A v \in Workers : Waits(v) => work'[v] = work[v] /\ at[v] = at[v]
    <3>1. Seat(w, at) \in slots /\ Seat(w, at) = [order |-> p, n |-> at[w]]
      BY <1>3, <2>0 DEF PoolOK, Seat
    <3> QED
      BY <1>3, <1>6, <2>0, <3>1 DEF PoolOK
  <2> QED
    BY <1>3, <2>0, <2>1, <2>2, PoolFramed
<1>8. MoneyOK(slots, at, of, pledge)'
  <2>1. \A v \in Workers : work'[v].pc = "transfer" => work'[v] = work[v] /\ at[v] = at[v]
    BY <1>3 DEF Busy, Funding
  <2> QED
    BY <1>1, <1>3, <2>1, MoneyFramed DEF Books
<1> QED
  BY <1>1, <1>2, <1>4, <1>7, <1>8 DEF BooksKeep, Books

\* A transfer fulfils the pledge of its slot, and leaves the others alone.
LEMMA MineBooks ==
  ASSUME Inv, Counted, Spares, MineNext, [Next]_vars,
         NEW slots, NEW at, NEW key, NEW of, NEW pledge \in Pledges, Books(slots, at, key, of, pledge)
  PROVE  BooksKeep'
<1> PICK tx : tx = Head(mempool)
  OBVIOUS
<1> PICK s : s = of[1]
  OBVIOUS
<1> PICK of2 : of2 = [i \in DOMAIN mempool' |-> of[i + 1]]
  OBVIOUS
<1>0. /\ SlotsOK(slots) /\ PoolOK(slots, at, key, of) /\ MoneyOK(slots, at, of, pledge)
      /\ Seated(at, key)
  BY DEF Books
<1>1. SlotsOK(slots)' /\ at \in Seats(Lapses)' /\ key \in Keys(Lapses)' /\ Lapses' = Lapses
  BY SlotsFramed
<1>2. mempool \in Seq(Tx) /\ mempool # <<>> /\ mempool' = Tail(mempool)
  BY DEF Inv, TypeOK, ChainOK, MineNext, Mine
<1>3. /\ tx \in Tx /\ 1 \in DOMAIN mempool /\ mempool[1] = tx
      /\ \A i \in DOMAIN mempool' :
           i + 1 \in DOMAIN mempool /\ i + 1 # 1 /\ mempool'[i] = mempool[i + 1] /\ mempool'[i] \in Tx
  BY <1>2
<1>4. /\ tx.deal \in Deals /\ tx.amount \in Nat /\ s \in slots /\ s.order \in Payments
      /\ Behind(tx, s, at, key) /\ tx.deal = DealOf[s.order]
  BY <1>0, <1>3, SlotsFramed DEF Tx, PoolOK, Behind
<1>5. op' = op
  BY DEF MineNext, dbVars
<1>6. /\ \A v \in Workers : v # tx.worker => work'[v] = work[v]
      /\ tx.worker # NoOne =>
           /\ tx.worker \in Workers /\ work[tx.worker].pc \in Busy
           /\ work'[tx.worker].job = work[tx.worker].job
           /\ work'[tx.worker].pc \in {"attach", "notify", "record", "fail"}
  BY MineMoves
<1>7. /\ \A v \in Workers : work'[v].pc \in Busy => work[v].pc \in Busy /\ Seat(v, at)' = Seat(v, at)
      /\ \A v \in Workers : Proc(v)' = Proc(v) /\ Job(v)' = Job(v)
  BY <1>6, RelayAssumption DEF Seat, Job, Proc
<1>8. Seated(at, key)'
  BY <1>0, <1>5, <1>7, SeatsKept DEF Leased, Seat, Job, Proc
<1>9. \A i \in DOMAIN mempool' :
        /\ of2[i] = of[i + 1] /\ of2[i] \in slots /\ of2[i] # s
        /\ Behind(mempool'[i], of2[i], at, key)
  BY <1>0, <1>3 DEF PoolOK
<1>10. \A i \in DOMAIN mempool' : mempool'[i].worker # NoOne => mempool'[i].worker # tx.worker
  BY <1>4, <1>9 DEF Behind
<1>11. of2 \in [DOMAIN mempool' -> slots]
  BY <1>9
<1>12. \A i, j \in DOMAIN mempool' : of2[i] = of2[j] => i = j
  BY <1>0, <1>2, <1>3 DEF PoolOK
<1>13. PoolOK(slots, at, key, of2)'
  <2>1. ASSUME NEW i \in DOMAIN mempool'
        PROVE  Behind(mempool[i], of2[i], at, key)'
    <3> PICK x \in Tx : x = mempool'[i]
      BY <1>3
    <3> PICK t \in slots : t = of2[i]
      BY <1>9
    <3>1. Behind(x, t, at, key) /\ (x.worker # NoOne => x.worker # tx.worker)
      BY <1>9, <1>10
    <3>2. x.worker # NoOne => /\ work'[x.worker].pc = Place[x.kind]
                              /\ Seat(x.worker, at)' = t
      BY <1>6, <3>1 DEF Behind, Seat, Job, Tx
    <3>3. x.worker = NoOne =>
            /\ t.n = key[t.order] => Leased(t.order, NoOne)'
            /\ \A v \in Workers : work'[v].pc \in Busy => Seat(v, at)' # t
      BY <1>5, <1>7, <3>1 DEF Behind, Leased
    <3>4. Behind(x, t, at, key)'
      BY <3>1, <3>2, <3>3 DEF Behind
    <3> QED
      BY <3>4 DEF Behind
  <2>2. /\ \A p \in Payments : [order |-> p, n |-> key[p]] \in slots
        /\ \A v \in Workers : work'[v].pc \in Busy => Seat(v, at)' \in slots
    BY <1>0, <1>7 DEF PoolOK
  <2> QED
    BY <1>11, <1>12, <2>1, <2>2 DEF PoolOK
<1>14. /\ clone \in [Deals -> CloneStatus] /\ held \in [Deals -> Nat] /\ sent \in [Deals -> Nat]
       /\ Deposit \in [Deals -> Nat]
  BY RelayAssumption DEF Inv, TypeOK, ChainOK
<1>15. /\ \A d \in Deals : d # tx.deal => sent'[d] = sent[d] /\ held'[d] = held[d] /\ clone'[d] = clone[d]
       /\ clone[tx.deal] \in Void => clone'[tx.deal] \in Void
       /\ clone'[tx.deal] \in Unfunded =>
            /\ clone[tx.deal] \in Unfunded
            /\ held'[tx.deal] - held[tx.deal] = sent'[tx.deal] - sent[tx.deal]
       /\ \/ sent'[tx.deal] = sent[tx.deal]
          \/ tx.kind = "transfer" /\ sent'[tx.deal] = sent[tx.deal] + tx.amount
  <2>1. CASE ~Succeeds(tx)
    <3>1. sent' = sent /\ held' = held /\ clone' = clone
      BY <2>1 DEF MineNext, Mine
    <3> QED
      BY <1>4, <1>14, <3>1
  <2>2. CASE Succeeds(tx)
    <3>1. Effect(tx)
      BY <2>2 DEF MineNext, Mine
    <3>2. CASE tx.kind = "createEscrow"
      BY <1>4, <1>14, <2>2, <3>1, <3>2 DEF Effect, Succeeds, Void, Unfunded
    <3>3. CASE tx.kind = "transfer"
      BY <1>4, <1>14, <2>2, <3>1, <3>3 DEF Effect, Succeeds, Void, Unfunded
    <3>4. CASE tx.kind = "notifyFunded"
      BY <1>4, <1>14, <2>2, <3>1, <3>4 DEF Effect, Succeeds, Void, Unfunded
    <3> QED
      BY <1>3, <3>2, <3>3, <3>4 DEF Tx
  <2> QED
    BY <2>1, <2>2
<1>16. sent'[tx.deal] \in Nat /\ sent[tx.deal] \in Nat /\ held[tx.deal] \in Nat /\ held'[tx.deal] \in Nat
  BY <1>4, TypesNext DEF Inv, TypeOK, ChainOK
<1>17. \A d \in Deals :
         /\ [pledge EXCEPT ![s] = 0] \in Pledges
         /\ d # DealOf[s.order] => Pledged(d, slots, [pledge EXCEPT ![s] = 0]) = Pledged(d, slots, pledge)
         /\ d = DealOf[s.order] =>
              Pledged(d, slots, [pledge EXCEPT ![s] = 0]) + pledge[s] = Pledged(d, slots, pledge) + 0
  BY <1>0, <1>4, PledgeChanges
<1>18. slots \subseteq Slot /\ pledge \in [Slot -> Nat]
  BY <1>0, <1>4, SlotsFinite DEF Pledges
<1> PICK rest : rest = [pledge EXCEPT ![s] = 0]
  OBVIOUS
<1>19. rest \in Pledges /\ rest[s] = 0 /\ \A t \in slots : t # s => rest[t] = pledge[t]
  BY <1>4, <1>17, <1>18
<1>20. /\ \A d \in Deals : d # tx.deal => Pledged(d, slots, rest) = Pledged(d, slots, pledge)
       /\ Pledged(tx.deal, slots, rest) + pledge[s] = Pledged(tx.deal, slots, pledge)
       /\ Pledged(tx.deal, slots, rest) \in Nat /\ Pledged(tx.deal, slots, pledge) \in Nat
       /\ pledge[s] \in Nat
  <2>1. \A d \in Deals :
          /\ d # tx.deal => Pledged(d, slots, rest) = Pledged(d, slots, pledge)
          /\ d = tx.deal => Pledged(d, slots, rest) + pledge[s] = Pledged(d, slots, pledge) + 0
    BY <1>4, <1>17
  <2>2. Pledged(tx.deal, slots, rest) \in Nat /\ Pledged(tx.deal, slots, pledge) \in Nat
    BY <1>0, <1>4, <1>19, PledgedNat
  <2>3. pledge[s] \in Nat
    BY <1>4, <1>18
  <2> QED
    <3>1. Pledged(tx.deal, slots, rest) + pledge[s] = Pledged(tx.deal, slots, pledge) + 0
      BY <1>4, <2>1
    <3>2. Pledged(tx.deal, slots, pledge) + 0 = Pledged(tx.deal, slots, pledge)
      BY <2>2
    <3> QED
      BY <2>1, <2>2, <2>3, <3>1, <3>2
<1>21. MoneyOK(slots, at, of2, rest)'
  <2>1. ASSUME NEW d \in Deals, clone'[d] \in Unfunded
        PROVE  held'[d] = sent'[d]
    <3>1. CASE d # tx.deal
      BY <1>0, <1>15, <2>1, <3>1 DEF MoneyOK
    <3>2. CASE d = tx.deal
      <4>1. held[tx.deal] = sent[tx.deal]
        BY <1>0, <1>4, <1>15, <2>1, <3>2 DEF MoneyOK
      <4> QED
        BY <1>15, <1>16, <2>1, <3>2, <4>1
    <3> QED
      BY <3>1, <3>2
  <2>2. ASSUME NEW d \in Deals
        PROVE  Fits(d, slots, rest)'
    <3>1. Fits(d, slots, pledge)
      BY <1>0 DEF MoneyOK
    <3>2. Most(d)' = Most(d) /\ Pledged(d, slots, rest)' = Pledged(d, slots, rest)
      BY <1>1 DEF Most, Orders, Pledged, SlotsOf
    <3>3. CASE d # tx.deal
      BY <1>15, <1>20, <3>1, <3>2, <3>3 DEF Fits
    <3>4. CASE d = tx.deal
      <4>1. tx.kind = "transfer" => tx.amount <= pledge[s]
        BY <1>0, <1>3 DEF MoneyOK
      <4>2. Most(tx.deal) \in Nat
        BY <1>4, LapsesNat
      <4>3. clone'[tx.deal] \notin Void => sent[tx.deal] + Pledged(tx.deal, slots, pledge) <= Most(tx.deal)
        BY <1>15, <3>1, <3>4 DEF Fits
      <4>4. clone'[tx.deal] \notin Void => sent'[tx.deal] + Pledged(tx.deal, slots, rest) <= Most(tx.deal)
        BY <1>4, <1>15, <1>16, <1>20, <4>1, <4>2, <4>3
      <4> QED
        BY <3>2, <3>4, <4>4 DEF Fits
    <3> QED
      BY <3>3, <3>4
  <2>3. ASSUME NEW v \in Workers, work'[v].pc = "transfer"
        PROVE  work'[v].amount <= rest[Seat(v, at)']
    <3>1. v # tx.worker /\ work'[v] = work[v] /\ work[v].pc \in Busy
      BY <1>6, <2>3, RelayAssumption DEF Busy, Funding
    <3>2. Seat(v, at)' = Seat(v, at) /\ Seat(v, at) \in slots
      BY <1>0, <1>7, <3>1 DEF PoolOK
    <3>3. Seat(v, at) # s
      BY <1>0, <1>3, <3>1, OnlySitter
    <3>4. work[v].amount <= pledge[Seat(v, at)]
      BY <1>0, <2>3, <3>1 DEF MoneyOK
    <3> QED
      BY <1>19, <3>1, <3>2, <3>3, <3>4
  <2>4. ASSUME NEW i \in DOMAIN mempool', mempool'[i].kind = "transfer"
        PROVE  mempool'[i].amount <= rest[of2[i]]
    <3>1. mempool'[i].amount <= pledge[of2[i]]
      BY <1>0, <1>3, <1>9, <2>4 DEF MoneyOK
    <3> QED
      BY <1>9, <1>19, <3>1
  <2>5. \A t \in slots : rest[t] <= Deposit[DealOf[t.order]]
    <3>1. Deposit[DealOf[s.order]] >= 0
      BY <1>4, <1>14
    <3> QED
      BY <1>0, <1>19, <3>1 DEF MoneyOK
  <2> QED
    BY <2>1, <2>2, <2>3, <2>4, <2>5 DEF MoneyOK
<1> QED
  BY <1>1, <1>8, <1>13, <1>19, <1>21 DEF BooksKeep, Books

\* What is pending stays pending when nobody waits for it any more.
LEMMA AbandonedIs ==
  ASSUME Inv, NEW W \in SUBSET Workers, Abandon(W)
  PROVE  /\ DOMAIN mempool' = DOMAIN mempool
         /\ clone' = clone /\ held' = held /\ sent' = sent
         /\ \A i \in DOMAIN mempool :
              /\ mempool[i] \in Tx
              /\ mempool'[i].kind = mempool[i].kind /\ mempool'[i].deal = mempool[i].deal
              /\ mempool'[i].amount = mempool[i].amount
              /\ mempool'[i].worker = IF mempool[i].worker \in W THEN NoOne ELSE mempool[i].worker
<1>1. \A i \in DOMAIN mempool : mempool[i] \in Tx
  BY DEF Inv, TypeOK, ChainOK
<1>2. ASSUME NEW i \in DOMAIN mempool
      PROVE  /\ mempool'[i].kind = mempool[i].kind /\ mempool'[i].deal = mempool[i].deal
             /\ mempool'[i].amount = mempool[i].amount
             /\ mempool'[i].worker = IF mempool[i].worker \in W THEN NoOne ELSE mempool[i].worker
  <2>1. CASE mempool[i].worker \in W
    <3>1. mempool'[i] = [mempool[i] EXCEPT !.worker = NoOne]
      BY <2>1 DEF Abandon
    <3> QED
      BY <1>1, <2>1, <3>1 DEF Tx
  <2>2. CASE mempool[i].worker \notin W
    <3>1. mempool'[i] = mempool[i]
      BY <2>2 DEF Abandon
    <3> QED
      BY <2>2, <3>1
  <2> QED
    BY <2>1, <2>2
<1> QED
  BY <1>1, <1>2 DEF Abandon

\* A process dies: its leases stay, in nobody's name, with the slots of its transactions.
LEMMA CrashBooks ==
  ASSUME Inv, Spares, NEW r \in Replicas, Crash(r),
         NEW slots, NEW at, NEW key, NEW of, NEW pledge \in Pledges, Books(slots, at, key, of, pledge)
  PROVE  BooksKeep'
<1> PICK W \in SUBSET Workers : W = {w \in Workers : Replica[w] = r}
  OBVIOUS
<1>0. /\ SlotsOK(slots) /\ PoolOK(slots, at, key, of) /\ MoneyOK(slots, at, of, pledge)
      /\ Seated(at, key)
  BY DEF Books
<1>1. SlotsOK(slots)' /\ at \in Seats(Lapses)' /\ key \in Keys(Lapses)' /\ Lapses' = Lapses
  BY SlotsFramed
<1>2. Seated(at, key)'
  BY <1>0, SeatsSurvive
<1>3. Abandon(W) /\ Ops!OwnerDies(r)
  BY DEF Crash
<1>4. \A v \in Workers : work'[v].pc \in Busy =>
        v \notin W /\ work'[v] = work[v] /\ work[v].pc \in Busy /\ Seat(v, at)' = Seat(v, at)
  BY RestTruthful DEF Crash, Busy, Funding, Seat, Job
<1>5. ASSUME NEW i \in DOMAIN mempool
      PROVE  Behind(mempool[i], of[i], at, key)'
  <2> PICK x \in Tx : x = mempool[i]
    BY <1>3, AbandonedIs
  <2> PICK y : y = mempool'[i]
    OBVIOUS
  <2> PICK s \in slots : s = of[i] /\ s.order \in Payments
    BY SlotsFramed
  <2>1. Behind(x, s, at, key)
    BY <1>0 DEF PoolOK
  <2>2. y.kind = x.kind /\ y.deal = x.deal /\ y.worker = IF x.worker \in W THEN NoOne ELSE x.worker
    BY <1>3, AbandonedIs
  <2>3. CASE x.worker \in W
    <3> PICK w \in W : w = x.worker
      BY <2>3
    <3>1. work[w].pc \in Busy /\ w \in Workers /\ w # NoOne /\ Proc(w) = r
      BY RelayAssumption DEF Inv, WaitersKnown, Proc
    <3>2. Seat(w, at) = s
      BY <2>1, <3>1 DEF Behind
    <3>3. ASSUME s.n = key[s.order]
          PROVE  Leased(s.order, NoOne)'
      <4>1. Leased(s.order, r)
        BY <1>0, <3>1, <3>2, <3>3 DEF Seated, Seat
      <4> PICK q \in Payments : q = s.order
        OBVIOUS
      <4>2. op[q] = [status |-> "PROCESSING", owner |-> r, live |-> TRUE]
        BY <4>1 DEF Leased
      <4>3. op'[q] = [op[q] EXCEPT !.owner = NoOne]
        <5>1. op[q].owner = r
          BY <4>2
        <5> QED
          BY <1>3, <5>1 DEF Ops!OwnerDies, Ops!Owned
      <4>4. op'[q] = [[status |-> "PROCESSING", owner |-> r, live |-> TRUE] EXCEPT !.owner = NoOne]
        BY <4>2, <4>3, Zenon
      <4>5. op'[q] = [status |-> "PROCESSING", owner |-> NoOne, live |-> TRUE]
        BY <4>4
      <4> QED
        BY <4>5 DEF Leased
    <3>4. ASSUME NEW v \in Workers, work'[v].pc \in Busy
          PROVE  Seat(v, at)' # s
      <4>1. v \notin W /\ work[v].pc \in Busy /\ Seat(v, at)' = Seat(v, at)
        BY <1>4, <3>4
      <4>2. Seat(v, at) = Seat(w, at) => Job(v) = Job(w) /\ at[v] = at[w]
        BY DEF Seat
      <4>3. Seat(v, at) # Seat(w, at)
        BY <1>0, <3>1, <4>1, <4>2 DEF Seated
      <4> QED
        BY <3>2, <4>1, <4>3
    <3>5. y.worker = NoOne
      BY <2>2, <2>3
    <3>6. Behind(y, s, at, key)'
      BY <2>1, <2>2, <3>3, <3>4, <3>5 DEF Behind
    <3> QED
      BY <3>6 DEF Behind
  <2>4. CASE x.worker \notin W
    <3>1. y.worker = x.worker
      BY <2>2, <2>4
    <3>2. x.worker # NoOne => work'[x.worker] = work[x.worker] /\ x.worker \in Workers
      BY <2>4 DEF Tx, Crash
    <3>3. Leased(s.order, NoOne) => Leased(s.order, NoOne)'
      <4>1. NoOne # r
        BY RelayAssumption
      <4> QED
        BY <1>3, <4>1, LeaseKept
    <3>4. Behind(y, s, at, key)'
      BY <1>4, <2>1, <2>2, <3>1, <3>2, <3>3 DEF Behind, Seat, Job
    <3> QED
      BY <3>4 DEF Behind
  <2> QED
    BY <2>3, <2>4
<1>6. PoolOK(slots, at, key, of)'
  <2>1. DOMAIN mempool' = DOMAIN mempool
    BY <1>3, AbandonedIs
  <2> QED
    BY <1>0, <1>4, <1>5, <2>1 DEF PoolOK
<1>7. MoneyOK(slots, at, of, pledge)'
  <2>1. clone' = clone /\ held' = held /\ sent' = sent /\ DOMAIN mempool' = DOMAIN mempool
    BY <1>3, AbandonedIs
  <2>2. ASSUME NEW i \in DOMAIN mempool', mempool'[i].kind = "transfer"
        PROVE  mempool'[i].amount <= pledge[of[i]]
    BY <1>0, <1>3, <2>1, <2>2, AbandonedIs DEF MoneyOK
  <2>3. ASSUME NEW v \in Workers, work'[v].pc = "transfer"
        PROVE  work'[v].amount <= pledge[Seat(v, at)']
    BY <1>0, <1>4, <2>3 DEF MoneyOK, Busy, Funding
  <2>4. ASSUME NEW d \in Deals
        PROVE  Fits(d, slots, pledge)'
    <3>1. Most(d)' = Most(d) /\ Pledged(d, slots, pledge)' = Pledged(d, slots, pledge)
      BY <1>1 DEF Most, Orders, Pledged, SlotsOf
    <3> QED
      BY <1>0, <2>1, <3>1 DEF Fits, MoneyOK
  <2> QED
    BY <1>0, <2>1, <2>2, <2>3, <2>4 DEF MoneyOK
<1> QED
  BY <1>1, <1>2, <1>6, <1>7 DEF BooksKeep, Books

\* A dead worker's lease runs out when none of its transactions is pending any more.
LEMMA ExpiryBooks ==
  ASSUME Inv, Spares, NEW p \in Payments, LeaseExpires(p), Orphaned(p), Quiet(p),
         NEW slots, NEW at, NEW key, NEW of, NEW pledge \in Pledges, Books(slots, at, key, of, pledge)
  PROVE  BooksKeep'
<1>0. PoolOK(slots, at, key, of)
  BY DEF Books
<1>1. SlotsOK(slots)' /\ at \in Seats(Lapses)' /\ key \in Keys(Lapses)' /\ Lapses' = Lapses
  BY SlotsFramed
<1>2. /\ work' = work /\ mempool' = mempool /\ sent' = sent /\ held' = held /\ clone' = clone
      /\ \A q \in Payments : q # p => op'[q] = op[q]
      /\ \A v \in Workers : Seat(v, at)' = Seat(v, at)
  BY DEF LeaseExpires, Ops!ExpireLease, Inv, TypeOK, Ops!OperationsOK, chainVars, Seat, Job
<1>3. Seated(at, key)'
  BY SeatsSurvive DEF Books
<1>4. PoolOK(slots, at, key, of)'
  <2>1. ASSUME NEW i \in DOMAIN mempool, mempool[i].worker = NoOne
        PROVE  /\ of[i].n = key[of[i].order] => Leased(of[i].order, NoOne)'
               /\ \A v \in Workers : work'[v].pc \in Busy => Seat(v, at)' # of[i]
    <3>1. of[i].order \in Payments /\ Behind(mempool[i], of[i], at, key)
      BY <1>0, SlotsFramed DEF PoolOK
    <3>2. mempool[i].deal # DealOf[p]
      BY DEF Quiet, ToSet
    <3>3. of[i].order # p
      BY <3>1, <3>2 DEF Behind
    <3> QED
      BY <1>2, <2>1, <3>1, <3>3 DEF Behind, Leased
  <2>2. /\ slots \subseteq slots
        /\ \A q \in Payments : [order |-> q, n |-> key[q]] \in slots
        /\ \A v \in Workers : work'[v].pc \in Busy => Seat(v, at)' \in slots
        /\ \A v \in Workers : Waits(v) => work'[v] = work[v] /\ at[v] = at[v]
    BY <1>0, <1>2 DEF PoolOK
  <2> QED
    BY <1>0, <1>2, <2>1, <2>2, PoolFramed
<1>5. MoneyOK(slots, at, of, pledge)'
  BY <1>1, <1>2, MoneyFramed DEF Books
<1> QED
  BY <1>1, <1>3, <1>4, <1>5 DEF BooksKeep, Books

-----------------------------------------------------------------------------
(* What a lapse costs                                                       *)

LEMMA LapseCounts ==
  ASSUME Inv, Counted, NEW kind \in Lapsing, Spend(kind)
  PROVE  Counted' /\ Lapses' = Lapses + 1
<1>1. \E what \in DOMAIN Allowed : Spend(what)
  BY DEF Allowed, Lapsing
<1>2. Counted'
  BY <1>1, GoneGrows DEF Counted
<1>3. Gone(kind)' = Gone(kind) + 1
  BY <1>1, GoneGrows
<1>4. \A other \in Lapsing : other # kind => Gone(other)' = Gone(other)
  BY DEF Spend, Gone, Inv, TypeOK, Mishaps, Lapsing
<1>5. \A other \in Lapsing : Gone(other) \in Nat
  BY DEF Counted
<1> QED
  BY <1>2, <1>3, <1>4, <1>5 DEF Lapses, Lapsing

\* A new slot has pledged nothing yet.
LEMMA MoneyLapsed ==
  ASSUME Inv, Counted, Counted', Lapses' = Lapses + 1,
         NEW slots, SlotsOK(slots), NEW at, NEW key, NEW of, PoolOK(slots, at, key, of),
         NEW pledge \in Pledges, MoneyOK(slots, at, of, pledge),
         NEW s, NEW more, NEW other, Opens(slots, pledge, s, more, other),
         clone' = clone, held' = held, sent' = sent, DOMAIN mempool' = DOMAIN mempool,
         \A i \in DOMAIN mempool :
           mempool'[i].kind = mempool[i].kind /\ mempool'[i].amount = mempool[i].amount,
         NEW at2,
         \A v \in Workers : work'[v].pc = "transfer" => work'[v] = work[v] /\ at2[v] = at[v]
  PROVE  MoneyOK(more, at2, of, other)'
<1>1. \A d \in Deals : clone'[d] \in Unfunded => held'[d] = sent'[d]
  BY DEF MoneyOK
<1>2. \A t \in more : other[t] <= Deposit[DealOf[t.order]]
  <2>1. Deposit[DealOf[s.order]] >= 0
    BY FundingAssumption, RelayAssumption DEF Slot, Opens
  <2> QED
    BY <2>1 DEF MoneyOK, Opens
<1>3. ASSUME NEW v \in Workers, work'[v].pc = "transfer"
      PROVE  work'[v].amount <= other[Seat(v, at2)']
  <2>1. Seat(v, at2)' = Seat(v, at) /\ work[v].pc = "transfer" /\ work'[v].amount = work[v].amount
    BY <1>3 DEF Seat, Job
  <2>2. Seat(v, at) \in slots
    BY <2>1 DEF PoolOK, Busy, Funding
  <2>3. work[v].amount <= pledge[Seat(v, at)]
    BY <2>1 DEF MoneyOK
  <2> QED
    BY <2>1, <2>2, <2>3 DEF Opens
<1>4. ASSUME NEW i \in DOMAIN mempool', mempool'[i].kind = "transfer"
      PROVE  mempool'[i].amount <= other[of[i]]
  <2>1. of[i] \in slots
    BY <1>4 DEF PoolOK
  <2> QED
    BY <1>4, <2>1 DEF MoneyOK, Opens
<1>5. ASSUME NEW d \in Deals
      PROVE  Fits(d, more, other)'
  <2>1. Fits(d, slots, pledge) /\ sent[d] \in Nat /\ clone'[d] = clone[d] /\ sent'[d] = sent[d]
    BY DEF MoneyOK, Inv, TypeOK, ChainOK
  <2> QED
    BY <2>1, FitsStill
<1> QED
  BY <1>1, <1>2, <1>3, <1>4, <1>5 DEF MoneyOK

\* A lease that runs out while its holder lives, or while a dead one's transaction is pending:
\* the next holder gets a new slot.
LEMMA StallBooks ==
  ASSUME Inv, Counted, Counted', Lapses' = Lapses + 1, NEW p \in Payments, LeaseExpires(p),
         NEW slots, NEW at, NEW key, NEW of, NEW pledge \in Pledges, Books(slots, at, key, of, pledge)
  PROVE  BooksKeep'
<1>0. /\ SlotsOK(slots) /\ PoolOK(slots, at, key, of) /\ MoneyOK(slots, at, of, pledge)
      /\ Seated(at, key) /\ at \in Seats(Lapses) /\ key \in Keys(Lapses)
  BY DEF Books
<1> PICK s, more, other : /\ s.order = p /\ s.n = Lapses + 1
                          /\ Opens(slots, pledge, s, more, other)
                          /\ SlotsOK(more)'
  BY <1>0, SlotAdded
<1> PICK k : k = Lapses + 1
  OBVIOUS
<1> PICK key2 : key2 = [q \in Payments |-> IF q = p THEN k ELSE key[q]]
  OBVIOUS
<1>1. Lapses \in Nat /\ k \in Nat /\ 0 .. Lapses \subseteq 0 .. Lapses' /\ k \in 0 .. Lapses'
  BY LapsesNat
<1>2. /\ SlotsOK(more)' /\ other \in Pledges /\ s \notin slots /\ more = slots \cup {s}
      /\ s = [order |-> p, n |-> k]
  BY DEF Opens, Slot
<1>3. at \in Seats(Lapses)' /\ key2 \in Keys(Lapses)'
  BY <1>0, <1>1 DEF Seats, Keys
<1>4. /\ work' = work /\ mempool' = mempool /\ sent' = sent /\ held' = held /\ clone' = clone
      /\ \A q \in Payments : q # p => op'[q] = op[q]
      /\ \A v \in Workers : Seat(v, at)' = Seat(v, at)
  BY DEF LeaseExpires, Ops!ExpireLease, Inv, TypeOK, Ops!OperationsOK, chainVars, Seat, Job
<1>5. \A v \in Workers : at[v] # k
  BY <1>0, <1>1 DEF Seats
<1>6. Seated(at, key2)'
  BY <1>0, <1>4, <1>5, SeatAdded
<1>7. \A t \in slots : t.order \in Payments /\ t.n # k
  BY <1>0, <1>1 DEF SlotsOK
<1>8. PoolOK(more, at, key2, of)'
  <2>1. ASSUME NEW i \in DOMAIN mempool, mempool[i].worker = NoOne
        PROVE  /\ of[i].n = key2[of[i].order] => Leased(of[i].order, NoOne)'
               /\ \A v \in Workers : work'[v].pc \in Busy => Seat(v, at)' # of[i]
    <3>1. of[i] \in slots /\ Behind(mempool[i], of[i], at, key)
      BY <1>0 DEF PoolOK
    <3>2. of[i].n = key2[of[i].order] => of[i].order # p /\ of[i].n = key[of[i].order]
      BY <1>7, <3>1
    <3> QED
      BY <1>4, <1>7, <2>1, <3>1, <3>2 DEF Behind, Leased
  <2>2. /\ slots \subseteq more
        /\ \A q \in Payments : [order |-> q, n |-> key2[q]] \in more
        /\ \A v \in Workers : work'[v].pc \in Busy => Seat(v, at)' \in more
        /\ \A v \in Workers : Waits(v) => work'[v] = work[v] /\ at[v] = at[v]
    BY <1>0, <1>2, <1>4 DEF PoolOK
  <2> QED
    BY <1>0, <1>4, <2>1, <2>2, PoolFramed
<1>9. MoneyOK(more, at, of, other)'
  <2>1. /\ DOMAIN mempool' = DOMAIN mempool
        /\ \A i \in DOMAIN mempool :
             mempool'[i].kind = mempool[i].kind /\ mempool'[i].amount = mempool[i].amount
        /\ \A v \in Workers : work'[v].pc = "transfer" => work'[v] = work[v] /\ at[v] = at[v]
    BY <1>4
  <2> QED
    BY <1>0, <1>4, <2>1, MoneyLapsed
<1> QED
  BY <1>2, <1>3, <1>6, <1>8, <1>9 DEF BooksKeep, Books

\* A receipt that never arrives: its transaction keeps the slot, and its worker goes on with
\* a new one, and with the lease if he had it.
LEMMA LostBooks ==
  ASSUME Inv, Counted, Counted', Lapses' = Lapses + 1, NEW w \in Workers, AnswerLost(w),
         NEW slots, NEW at, NEW key, NEW of, NEW pledge \in Pledges, Books(slots, at, key, of, pledge)
  PROVE  BooksKeep'
<1>11. /\ work[w].pc \in Busy /\ Goto(w, "fail") /\ op' = op /\ Abandon({w})
      /\ Job(w) \in Payments
  BY WaitersAre, BusyHave DEF AnswerLost, Inv, dbVars
<1> PICK p \in Payments : p = Job(w)
  BY <1>11
<1>0. /\ SlotsOK(slots) /\ PoolOK(slots, at, key, of) /\ MoneyOK(slots, at, of, pledge)
      /\ Seated(at, key) /\ at \in Seats(Lapses) /\ key \in Keys(Lapses)
  BY DEF Books
<1> PICK s, more, other : /\ s.order = p /\ s.n = Lapses + 1
                          /\ Opens(slots, pledge, s, more, other)
                          /\ SlotsOK(more)'
  BY <1>0, SlotAdded
<1> PICK k : k = Lapses + 1
  OBVIOUS
<1> PICK at2 : at2 = [v \in Workers |-> IF v = w THEN k ELSE at[v]]
  OBVIOUS
<1> PICK key2 : key2 = [q \in Payments |-> IF q = p /\ key[p] = at[w] THEN k ELSE key[q]]
  OBVIOUS
<1>1. Lapses \in Nat /\ k \in Nat /\ 0 .. Lapses \subseteq 0 .. Lapses' /\ k \in 0 .. Lapses'
  BY LapsesNat
<1>2. /\ SlotsOK(more)' /\ other \in Pledges /\ s \notin slots /\ more = slots \cup {s}
      /\ s = [order |-> p, n |-> k]
  BY DEF Opens, Slot
<1>3. at2 \in Seats(Lapses)' /\ key2 \in Keys(Lapses)'
  BY <1>0, <1>1 DEF Seats, Keys
<1>4. /\ work'[w].pc = "fail" /\ work'[w].job = work[w].job
      /\ \A v \in Workers : v # w => work'[v] = work[v] /\ at2[v] = at[v]
      /\ \A v \in Workers : at[v] \in 0 .. Lapses /\ at[v] # k
      /\ \A q \in Payments : key[q] \in 0 .. Lapses /\ key[q] # k
      /\ at2[w] = k
  <2>1. /\ work'[w].pc = "fail" /\ work'[w].job = work[w].job
        /\ \A v \in Workers : v # w => work'[v] = work[v]
    BY <1>11, GotoMoves
  <2> QED
    BY <1>0, <1>1, <2>1 DEF Seats, Keys
<1>5. /\ \A v \in Workers : work'[v].pc \in Busy => work[v].pc \in Busy
      /\ \A v \in Workers : Job(v)' = Job(v) /\ Proc(v)' = Proc(v)
      /\ \A v \in Workers : v # w => Seat(v, at2)' = Seat(v, at)
      /\ Seat(w, at2)' = s
  BY <1>11, <1>2, <1>4 DEF Job, Proc, Seat
<1>6. Seated(at2, key2)'
  <2>1. ASSUME NEW v \in Workers, work'[v].pc \in Busy, at2[v] = key2[Job(v)']
        PROVE  Leased(Job(v), Proc(v))'
    <3> PICK q \in Payments : q = Job(v)
      BY <1>5, <2>1, BusyHave
    <3>1. work[v].pc \in Busy /\ Job(v)' = q
      BY <1>5, <2>1
    <3>2. at[v] = key[q]
      <4>1. CASE v = w
        BY <1>4, <2>1, <3>1, <4>1
      <4>2. CASE v # w
        BY <1>4, <2>1, <3>1, <4>2
      <4> QED
        BY <4>1, <4>2
    <3>3. Leased(Job(v), Proc(v))
      BY <1>0, <3>1, <3>2 DEF Seated
    <3> QED
      BY <1>11, <1>5, <3>3 DEF Leased
  <2>2. ASSUME NEW u \in Workers, NEW v \in Workers, work'[u].pc \in Busy, work'[v].pc \in Busy,
               Job(u)' = Job(v)', at2[u] = at2[v]
        PROVE  u = v
    <3>1. work[u].pc \in Busy /\ work[v].pc \in Busy /\ Job(u) = Job(v)
      BY <1>5, <2>2
    <3>2. (u = w <=> v = w) /\ (u # w => at[u] = at[v])
      BY <1>4, <2>2
    <3> QED
      BY <1>0, <3>1, <3>2 DEF Seated
  <2> QED
    BY <2>1, <2>2 DEF Seated
<1>7. \A t \in slots : t.order \in Payments /\ t.n # k /\ t # s
  BY <1>0, <1>1, <1>2 DEF SlotsOK
<1>8. ASSUME NEW i \in DOMAIN mempool
      PROVE  Behind(mempool[i], of[i], at2, key2)'
  <2> PICK x \in Tx : x = mempool[i]
    BY <1>11, AbandonedIs
  <2> PICK y : y = mempool'[i]
    OBVIOUS
  <2> PICK t \in slots : t = of[i]
    BY <1>0 DEF PoolOK
  <2>1. Behind(x, t, at, key)
    BY <1>0 DEF PoolOK
  <2>2. y.kind = x.kind /\ y.deal = x.deal /\ y.worker = IF x.worker = w THEN NoOne ELSE x.worker
    BY <1>11, AbandonedIs
  <2>3. CASE x.worker = w
    <3>1. Seat(w, at) = t /\ w # NoOne
      BY <2>1, <2>3, RelayAssumption DEF Behind
    <3>2. t.order = p /\ t.n = at[w]
      BY <3>1 DEF Seat
    <3>3. t.n # key2[t.order]
      BY <1>4, <3>2
    <3>4. ASSUME NEW v \in Workers, work'[v].pc \in Busy
          PROVE  Seat(v, at2)' # t
      <4>1. CASE v = w
        BY <1>5, <1>7, <4>1
      <4>2. CASE v # w
        <5>1. Seat(v, at) = Seat(w, at) => Job(v) = Job(w) /\ at[v] = at[w]
          BY DEF Seat
        <5>2. Seat(v, at) # Seat(w, at)
          BY <1>11, <1>0, <1>5, <3>4, <4>2, <5>1 DEF Seated
        <5> QED
          BY <1>5, <3>1, <4>2, <5>2
      <4> QED
        BY <4>1, <4>2
    <3>5. Behind(y, t, at2, key2)'
      BY <2>1, <2>2, <2>3, <3>3, <3>4 DEF Behind
    <3> QED
      BY <3>5 DEF Behind
  <2>4. CASE x.worker # w
    <3>1. y.worker = x.worker
      BY <2>2, <2>4
    <3>2. x.worker # NoOne => /\ x.worker \in Workers /\ work'[x.worker] = work[x.worker]
                              /\ Seat(x.worker, at2)' = Seat(x.worker, at)
      BY <1>4, <1>5, <2>4 DEF Tx
    <3>3. t.n = key2[t.order] => t.n = key[t.order]
      BY <1>7
    <3>4. Leased(t.order, NoOne) => Leased(t.order, NoOne)'
      BY <1>11 DEF Leased
    <3>5. ASSUME NEW v \in Workers, work'[v].pc \in Busy, x.worker = NoOne
          PROVE  Seat(v, at2)' # t
      <4>1. CASE v = w
        BY <1>5, <1>7, <4>1
      <4>2. CASE v # w
        BY <1>5, <2>1, <3>5, <4>2 DEF Behind
      <4> QED
        BY <4>1, <4>2
    <3>6. Behind(y, t, at2, key2)'
      BY <2>1, <2>2, <3>1, <3>2, <3>3, <3>4, <3>5 DEF Behind
    <3> QED
      BY <3>6 DEF Behind
  <2> QED
    BY <2>3, <2>4
<1>9. PoolOK(more, at2, key2, of)'
  <2>1. DOMAIN mempool' = DOMAIN mempool
    BY <1>11, AbandonedIs
  <2>2. \A q \in Payments : [order |-> q, n |-> key2[q]] \in more
    BY <1>0, <1>2 DEF PoolOK
  <2>3. \A v \in Workers : work'[v].pc \in Busy => Seat(v, at2)' \in more
    BY <1>0, <1>2, <1>5 DEF PoolOK
  <2>4. of \in [DOMAIN mempool -> more] /\ \A i, j \in DOMAIN mempool : of[i] = of[j] => i = j
    BY <1>0, <1>2 DEF PoolOK
  <2> QED
    BY <1>8, <2>1, <2>2, <2>3, <2>4 DEF PoolOK
<1>10. MoneyOK(more, at2, of, other)'
  <2>1. /\ clone' = clone /\ held' = held /\ sent' = sent
        /\ DOMAIN mempool' = DOMAIN mempool
        /\ \A i \in DOMAIN mempool :
             mempool'[i].kind = mempool[i].kind /\ mempool'[i].amount = mempool[i].amount
    BY <1>11, AbandonedIs
  <2>2. \A v \in Workers : work'[v].pc = "transfer" => work'[v] = work[v] /\ at2[v] = at[v]
    BY <1>4
  <2> QED
    BY <1>0, <2>1, <2>2, MoneyLapsed
<1> QED
  BY <1>2, <1>3, <1>6, <1>9, <1>10 DEF BooksKeep, Books

LEMMA BooksInit == Init => BooksKeep
<1> SUFFICES ASSUME Init PROVE BooksKeep
  OBVIOUS
<1> PICK slots : slots = [order : Payments, n : {0}]
  OBVIOUS
<1> PICK at : at = [w \in Workers |-> 0]
  OBVIOUS
<1> PICK key : key = [p \in Payments |-> 0]
  OBVIOUS
<1> PICK pledge : pledge = [s \in Slot |-> 0]
  OBVIOUS
<1>1. Counted /\ Lapses = 0
  BY GoneInit DEF Lapses, Lapsing
<1>2. slots \subseteq Slot /\ pledge \in Pledges /\ \A s \in slots : pledge[s] = 0 /\ s.order \in Payments
  BY DEF Slot, Pledges
<1>3. SlotsOK(slots) /\ at \in Seats(Lapses) /\ key \in Keys(Lapses)
  BY <1>1 DEF SlotsOK, Seats, Keys
<1>4. /\ \A w \in Workers : work[w].pc = "idle"
      /\ mempool = <<>> /\ \A d \in Deals : held[d] = 0 /\ sent[d] = 0
  BY DEF Init, ChainInit, Rest
<1>5. Seated(at, key)
  BY <1>4 DEF Seated, Busy, Funding
<1>6. PoolOK(slots, at, key, <<>>)
  BY <1>4 DEF PoolOK, Busy, Funding
<1>7. ASSUME NEW d \in Deals
      PROVE  Fits(d, slots, pledge)
  <2>1. IsFiniteSet(SlotsOf(d, slots)) /\ \A s \in SlotsOf(d, slots) : pledge[s] = 0
    BY <1>1, <1>2, <1>3, SlotsFinite
  <2>2. Pledged(d, slots, pledge) = 0
    BY <2>1, SumZero DEF Pledged
  <2>3. Most(d) \in Nat
    BY <1>1, LapsesNat
  <2> QED
    BY <1>4, <2>2, <2>3 DEF Fits
<1>8. \A s \in slots : pledge[s] <= Deposit[DealOf[s.order]]
  <2> SUFFICES ASSUME NEW s \in slots PROVE pledge[s] <= Deposit[DealOf[s.order]]
    OBVIOUS
  <2>1. pledge[s] = 0 /\ DealOf[s.order] \in Deals
    BY <1>2, FundingAssumption
  <2>2. Deposit[DealOf[s.order]] \in Nat
    BY <2>1, RelayAssumption
  <2> QED
    BY <2>1, <2>2
<1>9. MoneyOK(slots, at, <<>>, pledge)
  <2>1. \A d \in Deals : clone[d] \in Unfunded => held[d] = sent[d]
    BY <1>4
  <2>2. \A w \in Workers : work[w].pc # "transfer"
    BY <1>4
  <2>3. \A i \in DOMAIN mempool : FALSE
    BY <1>4
  <2>4. \A d \in Deals : Fits(d, slots, pledge)
    BY <1>7, Zenon
  <2> QED
    BY <2>1, <2>2, <2>3, <2>4, <1>8, Zenon DEF MoneyOK
<1> QED
  BY <1>2, <1>3, <1>5, <1>6, <1>9 DEF BooksKeep, Books

LEMMA BooksNext ==
  ASSUME Inv, Counted, BooksKeep, [Next]_vars
  PROVE  BooksKeep'
<1> PICK slots, at, key, of : \E pledge \in Pledges : Books(slots, at, key, of, pledge)
  BY DEF BooksKeep
<1> PICK pledge \in Pledges : Books(slots, at, key, of, pledge)
  OBVIOUS
<1>1. CASE Spares /\ Rests
  BY <1>1, RestsBooks
<1>2. CASE Spares /\ MineNext
  BY <1>2, MineBooks
<1>3. ASSUME Spares, NEW r \in Replicas, Crash(r)
      PROVE  BooksKeep'
  BY <1>3, CrashBooks
<1>4. ASSUME Spares, NEW w \in Workers, Goes(w)
      PROVE  BooksKeep'
  BY <1>4, GoesBooks
<1>5. ASSUME Spares, NEW w \in Workers, Gives(w)
      PROVE  BooksKeep'
  BY <1>5, GivesBooks
<1>6. ASSUME Spares, NEW w \in Workers, NEW p \in Payments, Takes(w, p)
      PROVE  BooksKeep'
  BY <1>6, TakesBooks
<1>7. ASSUME Spares, NEW w \in Workers, NEW kind \in Kinds, NEW n \in Nat, Sends(w, kind, n)
      PROVE  BooksKeep'
  BY <1>7, SendsBooks
<1>8. ASSUME NEW p \in Payments, LeaseExpires(p)
      PROVE  BooksKeep'
  <2>1. CASE Orphaned(p) /\ Quiet(p) /\ mishaps' = mishaps
    <3>1. Spares
      BY <2>1 DEF Spares
    <3> QED
      BY <1>8, <2>1, <3>1, ExpiryBooks
  <2>2. CASE Spend("slow") \/ Spend("stalls")
    <3>1. Counted' /\ Lapses' = Lapses + 1
      BY <2>2, LapseCounts DEF Lapsing
    <3> QED
      BY <1>8, <3>1, StallBooks
  <2> QED
    BY <1>8, <2>1, <2>2 DEF LeaseExpires
<1>9. ASSUME NEW w \in Workers, AnswerLost(w)
      PROVE  BooksKeep'
  <2>1. Counted' /\ Lapses' = Lapses + 1
    BY <1>9, LapseCounts DEF AnswerLost, Lapsing
  <2> QED
    BY <1>9, <2>1, LostBooks
<1> QED
  BY <1>1, <1>2, <1>3, <1>4, <1>5, <1>6, <1>7, <1>8, <1>9, NextIs

\* What is pending for a deal has been pledged by its slots.
LEMMA PendingIsPledged ==
  ASSUME Inv, Counted,
         NEW slots, NEW at, NEW key, NEW of, NEW pledge \in Pledges, Books(slots, at, key, of, pledge),
         NEW d \in Deals
  PROVE  Pending(d) \in Nat /\ Pending(d) <= Pledged(d, slots, pledge)
<1> DEFINE S == PendingTransfers(d)
           amount == [i \in S |-> mempool[i].amount]
<1>0. SlotsOK(slots) /\ PoolOK(slots, at, key, of) /\ MoneyOK(slots, at, of, pledge)
  BY DEF Books
<1>1. S \subseteq DOMAIN mempool /\ \A i \in S : mempool[i].kind = "transfer" /\ mempool[i].deal = d
  BY DEF PendingTransfers
<1>2. IsFiniteSet(S)
  <2>1. mempool \in Seq(Tx)
    BY DEF Inv, TypeOK, ChainOK
  <2>2. DOMAIN mempool = 1 .. Len(mempool) /\ Len(mempool) \in Nat
    BY <2>1
  <2>3. IsFiniteSet(DOMAIN mempool)
    BY <2>2, FS_Interval
  <2> QED
    BY <1>1, <2>3, FS_Subset
<1> HIDE DEF S
<1>3. Pending(d) = Sum(amount, S)
  BY <1>2, SumOfAmounts DEF Pending, S
<1>4. \A i \in S : amount[i] \in Nat /\ of[i] \in SlotsOf(d, slots) /\ amount[i] <= pledge[of[i]]
  <2> SUFFICES ASSUME NEW i \in S
               PROVE  amount[i] \in Nat /\ of[i] \in SlotsOf(d, slots) /\ amount[i] <= pledge[of[i]]
    OBVIOUS
  <2>1. mempool[i] \in Tx
    BY <1>1 DEF Inv, TypeOK, ChainOK
  <2>2. of[i] \in slots /\ DealOf[of[i].order] = d
    BY <1>0, <1>1 DEF PoolOK, Behind
  <2> QED
    BY <1>0, <1>1, <2>1, <2>2 DEF SlotsOf, MoneyOK, Tx
<1>5. \A i, j \in S : of[i] = of[j] => i = j
  BY <1>0, <1>1 DEF PoolOK
<1>6. IsFiniteSet(SlotsOf(d, slots)) /\ \A s \in SlotsOf(d, slots) : pledge[s] \in Nat
  BY <1>0, SlotsFinite DEF Pledges
<1> HIDE DEF amount
<1>7. Sum(amount, S) \in Nat
  BY <1>2, <1>4, SumNat
<1>8. Sum(amount, S) <= Sum(pledge, SlotsOf(d, slots))
  BY <1>2, <1>4, <1>5, <1>6, SumMatched
<1> QED
  BY <1>3, <1>7, <1>8 DEF Pledged

\* The hot wallet sends a clone that can be funded one deposit at most for each order of its
\* deal, what is still pending included, and one more for each lease that runs out under a
\* process that is alive or while a transaction is pending and for each receipt that is
\* lost: however often payments are delivered, swept and retried, however often processes
\* die and calls fail, and although the orders of a deal have a lease each.
THEOREM DepositsPerLapse == Spec => []PaidOncePerLapse
<1>1. Init => Counted /\ BooksKeep
  BY GoneInit, BooksInit
<1>2. Inv /\ Counted /\ BooksKeep /\ [Next]_vars => Counted' /\ BooksKeep'
  BY CountedNext, BooksNext
<1>3. Inv /\ Counted /\ BooksKeep => PaidOncePerLapse
  <2> SUFFICES ASSUME Inv, Counted, BooksKeep, NEW d \in Deals, clone[d] \notin Void
               PROVE  sent[d] + Pending(d) <= Most(d)
    BY HappenedIs DEF PaidOncePerLapse, Most, Lapses, Lapsing
  <2> PICK slots, at, key, of : \E pledge \in Pledges : Books(slots, at, key, of, pledge)
    BY DEF BooksKeep
  <2> PICK pledge \in Pledges : Books(slots, at, key, of, pledge)
    OBVIOUS
  <2>1. sent[d] + Pledged(d, slots, pledge) <= Most(d)
    BY DEF Books, MoneyOK, Fits
  <2>2. sent[d] \in Nat /\ Pledged(d, slots, pledge) \in Nat /\ Most(d) \in Nat
    BY PledgedNat, LapsesNat DEF Inv, TypeOK, ChainOK, Books
  <2>3. Pending(d) \in Nat /\ Pending(d) <= Pledged(d, slots, pledge)
    BY PendingIsPledged
  <2> QED
    BY <2>1, <2>2, <2>3
<1> QED
  BY <1>1, <1>2, <1>3, TypesInit, TypesNext, PTL DEF Spec
====
