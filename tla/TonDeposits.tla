---- MODULE TonDeposits ----
(***************************************************************************)
(* The direct rails: a buyer pays USDT or Toncoin to the platform's wallet *)
(* in TON with the payment's memo in the comment, or USDT straight to the  *)
(* clone, and the backend funds the clone from its float (BaseTonRail,     *)
(* DirectUsdtRail, PaymentService).  The watcher, the buyer's checks and   *)
(* the administrators work on the same rows, through the relay of          *)
(* RelayChain; one clone is funded under the lock of TonFundingLockService.*)
(* Deposits nobody claims are recorded, credited by hand or ignored        *)
(* (TonUnmatchedScanner, TonRecoveryService), and a funding deadline that  *)
(* has passed is extended (EscrowDeadlineService).  A step ends at an      *)
(* await that others can get between.                                      *)
(***************************************************************************)
EXTENDS RelayChain, FiniteSetsExt

CONSTANTS
  Watchers,       \* workers that run the cron job over open payments
  Admins,         \* workers that serve an administrator; every worker serves a buyer's check
  Payments,
  DealOf,         \* the deal a payment is for
  Methods,        \* the rails in use
  Transfers,      \* what buyers send to the platform's wallet
  Units,          \* how much, in the payment's own unit at its locked rate
  Mishaps,        \* what may go wrong: a process dies ("crash"), a lock runs out under a
                  \* holder or a transaction ("stall"), Redis does not answer ("outage"),
                  \* a call to the chain fails before the broadcast ("fault") or after it
                  \* ("lost"), a payment of another deal is completed ("crowd"); and an
                  \* administrator extends a deadline ("extension")
  MaxMishaps,     \* bound: how many of them in a behaviour
  SweepLimit      \* 100: take, the completed payments a sweep reads

Assets == {"USDT", "TON"}

\* A transfer's comment is a payment's memo, or something else.
Wire == [memo : Payments \cup {NoOne}, asset : Assets]

ASSUME DepositsAssumption ==
  /\ Watchers \cup Admins \subseteq Workers
  /\ DealOf \in [Payments -> Deals]
  /\ Methods \subseteq {"crypto", "crypto_ton", "crypto_toncoin"}
  /\ Units \in [Transfers -> Nat \ {0}]
  /\ Mishaps \subseteq {"crash", "stall", "outage", "fault", "lost", "crowd", "extension"}
  /\ MaxMishaps \in Nat /\ SweepLimit \in Nat
  /\ IsFiniteSet(Transfers)
  /\ NoOne \notin Payments \cup Transfers \cup {"unmatched", "matched", "ignored"}
  /\ NoOne \notin Wire
  /\ Predeployed = Deals   \* createInvoice deploys the clone

VARIABLES
  method,   \* the rail of every payment
  payment,  \* the payment rows
  deal,     \* status of every deal row
  wire,     \* what has arrived in the wallet
  row,      \* the ledger of unmatched deposits
  scan,     \* deposits a scan has found and not recorded yet
  lapsed,   \* how many rate locks of a payment have run out
  others,   \* how many payments of other deals are completed
  credits,  \* history: how often match has credited a deposit to a payment
  keys,     \* deals whose lock is set in Redis
  locals,   \* ... in the memory of a process
  work,     \* where every worker is
  mishaps   \* how often each mishap has happened

rowVars == <<method, payment, deal, row, scan>>
lockVars == <<keys, locals>>
worldVars == <<wire, lapsed, others, credits>>
vars == <<chainVars, rowVars, lockVars, worldVars, work, mishaps>>

\* credited: how often each deposit is listed in manualMatches; rate: how often the rate
\* lock has been extended.
Payment == [ status : {"pending", "processing", "completed", "expired"},
             credited : [Transfers -> Nat], rate : Nat ]

Pc == {"idle", "look", "lock", "setnx", "forward", "transfer", "notify",
       "release", "save", "finalize", "credit", "mark", "extend", "extended"}

\* copy: the row as the worker has read it; renew: an extension renews the rate lock too;
\* result: what checkStatus is about to return; amount: what it is about to forward.
Work == [ pc : Pc, job : Payments \cup {NoOne}, deposit : Transfers \cup {NoOne},
          copy : Payment, renew : BOOLEAN,
          result : {"none", "completed", "expired", "received"}, amount : Nat ]

Unpaid == [status |-> "pending", credited |-> [t \in Transfers |-> 0], rate |-> 0]

Rest == [ pc |-> "idle", job |-> NoOne, deposit |-> NoOne, copy |-> Unpaid, renew |-> FALSE,
          result |-> "none", amount |-> 0 ]

Init ==
  /\ ChainInit
  /\ method \in [Payments -> Methods]
  /\ payment = [p \in Payments |-> Unpaid]
  /\ deal = [d \in Deals |-> "PENDING_PAYMENT"]
  /\ wire = [t \in Transfers |-> NoOne]
  /\ row = [t \in Transfers |-> NoOne]
  /\ scan = {}
  /\ lapsed = [p \in Payments |-> 0]
  /\ others = 0
  /\ credits = [p \in Payments |-> [t \in Transfers |-> 0]]
  /\ keys = {}
  /\ locals = [r \in Replicas |-> {}]
  /\ work = [w \in Workers |-> Rest]
  /\ mishaps = [m \in Mishaps |-> 0]

-----------------------------------------------------------------------------
(* Helpers                                                                 *)

\* A worker that waits for a receipt does nothing else.
At(w, pc)  == work[w].pc = pc /\ ~Waits(w)
Job(w)     == work[w].job
JobDeal(w) == DealOf[Job(w)]
Proc(w)    == Replica[w]

Goto(w, pc) == work' = [work EXCEPT ![w].pc = pc]
Finish(w)   == work' = [work EXCEPT ![w] = Rest]

Befalls(m) ==
  /\ m \in Mishaps
  /\ MapThenSumSet(LAMBDA x : mishaps[x], Mishaps) < MaxMishaps
  /\ mishaps' = [mishaps EXCEPT ![m] = @ + 1]

Open(p)    == payment[p].status \in {"pending", "processing"}
Direct(p)  == method[p] = "crypto"
AssetOf(p) == IF method[p] = "crypto_toncoin" THEN "TON" ELSE "USDT"

\* The memo is the payment's and the asset its rail's.
Claims(p, t) == wire[t] = [memo |-> p, asset |-> AssetOf(p)]

\* checkStatus returns; a check that has found nothing new saves nothing.
Return(w, result) ==
  IF result = "none" THEN Finish(w)
  ELSE work' = [work EXCEPT ![w].pc = "save", ![w].result = result]

-----------------------------------------------------------------------------
(* checkPaymentStatus                                                      *)

\* A payment that is still open is looked at.
Start(w, p) ==
  work' = [work EXCEPT ![w] =
             IF Open(p) THEN [Rest EXCEPT !.pc = "look", !.job = p, !.copy = payment[p]]
             ELSE Rest]

\* The watcher comes to a payment, or its buyer asks; the row is read.
Begin(w, p) ==
  /\ work[w].pc = "idle"
  /\ Open(p)
  /\ Start(w, p)
  /\ UNCHANGED <<chainVars, rowVars, lockVars, worldVars, mishaps>>

\* What has arrived for a payment with its memo; what deposits credited so often are worth.
Claimed(p) == MapThenSumSet(LAMBDA t : Units[t], {t \in Transfers : Claims(p, t)})

Worth(credited) == MapThenSumSet(LAMBDA t : Units[t] * credited[t], Transfers)

\* Slip: any transfer with the memo counts.
Counted_AnyAsset(w) ==
  MapThenSumSet(LAMBDA t : Units[t], {t \in Transfers : wire[t] # NoOne /\ wire[t].memo = Job(w)})
  + Worth(work[w].copy.credited)

\* What the rail counts: with what an administrator has credited by hand.
Counted(w) == Claimed(Job(w)) + Worth(work[w].copy.credited)

\* The Toncoin rail's deadline is the end of the rate lock, when that comes first.
RateLockOver(p, copy) == method[p] = "crypto_toncoin" /\ copy.rate < lapsed[p]

Expired(w) == late[JobDeal(w)] \/ RateLockOver(Job(w), work[w].copy)

\* What has come in already, as the rail measures it.
Progress(w) == IF Direct(Job(w)) THEN held[JobDeal(w)] ELSE Counted(w)

Enough(w) == Progress(w) >= Deposit[JobDeal(w)]

\* checkStatus looks at the clone and the wallet, and funds the clone when the money is
\* there in time: a direct deposit has only to be notified.
Look(w) ==
  LET d == JobDeal(w)
      waiting == clone[d] = "AWAITING_FUNDING"
  IN  /\ At(w, "look")
      /\ \/ isFundedOrLater(d) /\ Return(w, "completed")
         \/ clone[d] \in Void /\ Return(w, "expired")
         \/ waiting /\ Expired(w) /\ Return(w, "expired")
         \/ /\ waiting /\ ~Expired(w) /\ Enough(w)
            /\ Goto(w, IF Direct(Job(w)) THEN "notify" ELSE "lock")
         \/ /\ waiting /\ ~Expired(w) /\ ~Enough(w)
            /\ Return(w, IF Progress(w) > 0 THEN "received" ELSE "none")
      /\ UNCHANGED <<chainVars, rowVars, lockVars, worldVars, mishaps>>

-----------------------------------------------------------------------------
(* The funding lock                                                        *)

\* acquire asks the memory of the process first ...
Lock(w) ==
  /\ At(w, "lock")
  /\ IF JobDeal(w) \in locals[Proc(w)] THEN Return(w, "received") ELSE Goto(w, "setnx")
  /\ UNCHANGED <<chainVars, rowVars, lockVars, worldVars, mishaps>>

TakeLocal(w) == locals' = [locals EXCEPT ![Proc(w)] = @ \cup {JobDeal(w)}]

\* Slip: SET without NX.
Locked_Never(d) == FALSE

Locked(d) == d \in keys

\* ... then Redis, whose failure leaves the memory's word.
SetNx(w) ==
  LET d == JobDeal(w)
  IN  /\ At(w, "setnx")
      /\ \/ /\ ~Locked(d)
            /\ keys' = keys \cup {d} /\ TakeLocal(w) /\ Goto(w, "forward")
            /\ UNCHANGED mishaps
         \/ Locked(d) /\ Return(w, "received") /\ UNCHANGED <<lockVars, mishaps>>
         \/ Befalls("outage") /\ TakeLocal(w) /\ Goto(w, "forward") /\ UNCHANGED keys
      /\ UNCHANGED <<chainVars, rowVars, worldVars>>

\* Slip: only the key in Redis is deleted.
ReleaseLocal_Kept(w) == locals' = locals

ReleaseLocal(w) == locals' = [locals EXCEPT ![Proc(w)] = @ \ {JobDeal(w)}]

\* release deletes the key, whoever has set it.
Release(w) ==
  /\ At(w, "release")
  /\ ReleaseLocal(w)
  /\ \/ keys' = keys \ {JobDeal(w)} /\ UNCHANGED mishaps
     \/ Befalls("outage") /\ UNCHANGED keys
  /\ Goto(w, "save")
  /\ UNCHANGED <<chainVars, rowVars, worldVars>>

Holds(w, d) ==
  /\ work[w].pc \in {"forward", "transfer", "notify", "release"}
  /\ Job(w) # NoOne /\ JobDeal(w) = d /\ ~Direct(Job(w))

Quiet(d) == \A tx \in ToSet(mempool) : tx.deal # d

\* Nobody holds the key any more who could still send something.
Orphaned(d) == Quiet(d) /\ \A w \in Workers : ~Holds(w, d)

\* The key's time to live runs out.
LockExpires(d) ==
  /\ d \in keys
  /\ keys' = keys \ {d}
  /\ IF Orphaned(d) THEN UNCHANGED mishaps ELSE Befalls("stall")
  /\ UNCHANGED <<chainVars, rowVars, worldVars, locals, work>>

-----------------------------------------------------------------------------
(* forwardAndFund and notifyFundedOnly                                     *)

\* The rail logs an error of forwardAndFund and reports progress; one of
\* notifyFundedOnly leaves the handler.
Fail(w) ==
  IF Direct(Job(w)) THEN Finish(w)
  ELSE work' = [work EXCEPT ![w].pc = "release", ![w].result = "received"]

Succeed(w) ==
  work' = [work EXCEPT ![w].pc = IF Direct(Job(w)) THEN "save" ELSE "release",
                       ![w].result = "completed"]

\* forwardAndFund looks at the clone, and does what is missing.
Forward(w) ==
  LET d == JobDeal(w)
  IN  /\ At(w, "forward")
      /\ \/ isFundedOrLater(d) /\ Succeed(w)
         \/ /\ ~isFundedOrLater(d) /\ Shortfall(d) > 0 /\ float >= Shortfall(d)
            /\ work' = [work EXCEPT ![w].pc = "transfer", ![w].amount = Shortfall(d)]
         \/ ~isFundedOrLater(d) /\ Shortfall(d) > 0 /\ float < Shortfall(d) /\ Fail(w)
         \/ ~isFundedOrLater(d) /\ Shortfall(d) = 0 /\ Goto(w, "notify")
      /\ UNCHANGED <<chainVars, rowVars, lockVars, worldVars, mishaps>>

Transfer(w) ==
  /\ At(w, "transfer")
  /\ Broadcast(w, "transfer", JobDeal(w), work[w].amount)
  /\ UNCHANGED <<rowVars, lockVars, worldVars, work, mishaps>>

Notify(w) ==
  /\ At(w, "notify")
  /\ Broadcast(w, "notifyFunded", JobDeal(w), 0)
  /\ UNCHANGED <<rowVars, lockVars, worldVars, work, mishaps>>

\* The next transaction is mined, and whoever waits for it goes on.
MineNext ==
  /\ Mine
  /\ LET tx == Head(mempool)
     IN  \/ tx.worker = NoOne /\ UNCHANGED work
         \/ tx.worker # NoOne /\ ~Succeeds(tx) /\ Fail(tx.worker)
         \/ tx.worker # NoOne /\ Succeeds(tx) /\ tx.kind = "transfer" /\ Goto(tx.worker, "notify")
         \/ tx.worker # NoOne /\ Succeeds(tx) /\ tx.kind = "notifyFunded" /\ Succeed(tx.worker)
  /\ UNCHANGED <<rowVars, lockVars, worldVars, mishaps>>

-----------------------------------------------------------------------------
(* What the check has found is written down                                *)

\* repository.save(payment) writes back every column of the copy.
SavePayment(p, copy) == payment' = [payment EXCEPT ![p] = copy]

NewStatus == [completed |-> "completed", expired |-> "expired", received |-> "processing"]

\* applyRailStatus; what it does next with a completed payment is left out for Toncoin.
SaveResult(w) ==
  LET p == Job(w)
      result == work[w].result
  IN  /\ At(w, "save")
      /\ SavePayment(p, [work[w].copy EXCEPT !.status = NewStatus[result]])
      /\ IF result = "completed" /\ method[p] # "crypto_toncoin" THEN Goto(w, "finalize")
         ELSE Finish(w)
      /\ UNCHANGED <<chainVars, method, deal, row, scan, lockVars, worldVars, mishaps>>

Confirm(d) ==
  IF deal[d] = "PENDING_PAYMENT" THEN deal' = [deal EXCEPT ![d] = "IN_PROGRESS"]
  ELSE UNCHANGED deal

\* finalizeDirectPayment.
Finalize(w) ==
  /\ At(w, "finalize")
  /\ Confirm(JobDeal(w))
  /\ Finish(w)
  /\ UNCHANGED <<chainVars, method, payment, row, scan, lockVars, worldVars, mishaps>>

\* A sweep reads so many completed payments, in no order and whatever has become of their
\* deals.  When there are more, the payment may be among those it reads, or never.
Crowded ==
  others + Cardinality({p \in Payments : payment[p].status = "completed"}) > SweepLimit

\* The sweep of PaymentFunding meets a completed payment whose deal is still to be paid;
\* with the clone funded it comes down to the confirmation.
Sweep(p) ==
  /\ payment[p].status = "completed"
  /\ deal[DealOf[p]] = "PENDING_PAYMENT"
  /\ isFundedOrLater(DealOf[p])
  /\ Confirm(DealOf[p])
  /\ UNCHANGED <<chainVars, method, payment, row, scan, lockVars, worldVars, work, mishaps>>

-----------------------------------------------------------------------------
(* Deposits nobody claims                                                  *)

\* The scanner reads the wallet's transfers and the payments' memos ...
ScanRead ==
  LET found == {t \in Transfers :
                  /\ wire[t] # NoOne /\ row[t] = NoOne
                  /\ ~\E p \in Payments : Claims(p, t) /\ payment[p].status # "expired"}
  IN  /\ scan = {} /\ found # {}
      /\ scan' = found
      /\ UNCHANGED <<chainVars, method, payment, deal, row, lockVars, worldVars, work, mishaps>>

\* ... and records what no payment that accepts money claims.
ScanRecord(t) ==
  /\ t \in scan
  /\ scan' = scan \ {t}
  /\ row' = [row EXCEPT ![t] = IF @ = NoOne THEN "unmatched" ELSE @]
  /\ UNCHANGED <<chainVars, method, payment, deal, lockVars, worldVars, work, mishaps>>

\* match reads the deposit and a payment whose rail takes its asset ...
MatchRead(a, t, p) ==
  /\ work[a].pc = "idle"
  /\ row[t] = "unmatched"
  /\ Open(p) /\ ~Direct(p) /\ AssetOf(p) = wire[t].asset
  /\ work' = [work EXCEPT ![a] = [Rest EXCEPT !.pc = "credit", !.job = p, !.deposit = t,
                                              !.copy = payment[p]]]
  /\ UNCHANGED <<chainVars, rowVars, lockVars, worldVars, mishaps>>

\* ... saves the credited payment ...
MatchCredit(a) ==
  /\ At(a, "credit")
  /\ SavePayment(Job(a), [work[a].copy EXCEPT !.credited[work[a].deposit] = @ + 1])
  /\ credits' = [credits EXCEPT ![Job(a)][work[a].deposit] = @ + 1]
  /\ Goto(a, "mark")
  /\ UNCHANGED <<chainVars, method, deal, row, scan, lockVars, wire, lapsed, others, mishaps>>

\* ... then the deposit, and has the payment checked.
MatchMark(a) ==
  /\ At(a, "mark")
  /\ row' = [row EXCEPT ![work[a].deposit] = "matched"]
  /\ Start(a, Job(a))
  /\ UNCHANGED <<chainVars, method, payment, deal, scan, lockVars, worldVars, mishaps>>

Ignore(t) ==
  /\ row[t] = "unmatched"
  /\ row' = [row EXCEPT ![t] = "ignored"]
  /\ UNCHANGED <<chainVars, method, payment, deal, scan, lockVars, worldVars, work, mishaps>>

-----------------------------------------------------------------------------
(* A deadline is extended                                                  *)

\* extend reads the payment and its clone; a rate lock that is over will be renewed ...
ExtendRead(a, p) ==
  /\ work[a].pc = "idle"
  /\ payment[p].status # "completed"
  /\ clone[DealOf[p]] = "AWAITING_FUNDING"
  /\ work' = [work EXCEPT ![a] = [Rest EXCEPT !.pc = "extend", !.job = p, !.copy = payment[p],
                                              !.renew = RateLockOver(p, payment[p])]]
  /\ Befalls("extension")
  /\ UNCHANGED <<chainVars, rowVars, lockVars, worldVars>>

\* ... has the relay extend the funding deadline ...
ExtendMined(a) ==
  LET d == JobDeal(a)
  IN  /\ At(a, "extend")
      /\ IF clone[d] = "AWAITING_FUNDING"
           THEN late' = [late EXCEPT ![d] = FALSE] /\ Goto(a, "extended")
           ELSE UNCHANGED late /\ Finish(a)
      /\ UNCHANGED <<clone, held, float, sent, mempool, rowVars, lockVars, worldVars, mishaps>>

\* ... and revives the payment.
ExtendSave(a) ==
  /\ At(a, "extended")
  /\ SavePayment(Job(a),
       [work[a].copy EXCEPT !.status = IF @ = "expired" THEN "pending" ELSE @,
                            !.rate = IF work[a].renew THEN lapsed[Job(a)] ELSE @])
  /\ Finish(a)
  /\ UNCHANGED <<chainVars, method, deal, row, scan, lockVars, worldVars, mishaps>>

-----------------------------------------------------------------------------
(* Buyers and time                                                         *)

\* A transfer to the platform's wallet is final.
Arrive(t) ==
  /\ wire[t] = NoOne
  /\ \E p \in Payments : ~Direct(p)
  /\ \E x \in Wire : wire' = [wire EXCEPT ![t] = x]
  /\ UNCHANGED <<chainVars, rowVars, lockVars, lapsed, others, credits, work, mishaps>>

\* A buyer pays the clone itself.
PayClone(p) ==
  LET d == DealOf[p]
  IN  /\ Direct(p) /\ clone[d] = "AWAITING_FUNDING" /\ held[d] < Deposit[d]
      /\ held' = [held EXCEPT ![d] = @ + Deposit[d]]
      /\ UNCHANGED <<clone, late, float, sent, mempool, rowVars, lockVars, worldVars, work,
                     mishaps>>

RateLapses(p) ==
  /\ method[p] = "crypto_toncoin" /\ payment[p].rate = lapsed[p]
  /\ lapsed' = [lapsed EXCEPT ![p] = @ + 1]
  /\ UNCHANGED <<chainVars, rowVars, lockVars, wire, others, credits, work, mishaps>>

\* The funding deadline passes, after the rate locks it bounds, or a party cancels on chain.
\* An expired clone looks like a cancelled one from here, and a settled one like a funded one.
CloneNext ==
  \E d \in Deals :
    \/ /\ DeadlinePasses(d)
       /\ \A p \in Payments :
            DealOf[p] = d /\ method[p] = "crypto_toncoin" => RateLockOver(p, payment[p])
    \/ CloseClone(d) /\ clone'[d] = "CANCELLED"

\* A payment of another deal is completed, and stays so.
OtherCompletes ==
  /\ Befalls("crowd")
  /\ others' = others + 1
  /\ UNCHANGED <<chainVars, rowVars, lockVars, wire, lapsed, credits, work>>

CancelDeal(d) ==
  /\ deal[d] = "PENDING_PAYMENT"
  /\ deal' = [deal EXCEPT ![d] = "CANCELLED"]
  /\ UNCHANGED <<chainVars, method, payment, row, scan, lockVars, worldVars, work, mishaps>>

-----------------------------------------------------------------------------
(* Mishaps                                                                 *)

\* A process dies and another takes its place; the key in Redis stays.
Crash(r) ==
  LET W == {w \in Workers : Replica[w] = r}
  IN  /\ Befalls("crash")
      /\ Abandon(W)
      /\ locals' = [locals EXCEPT ![r] = {}]
      /\ work' = [w \in Workers |-> IF w \in W THEN Rest ELSE work[w]]
      /\ UNCHANGED <<rowVars, keys, worldVars>>

\* A call to the chain or the wallet's index fails.
CallFails(w) ==
  /\ \/ (\E pc \in {"look", "extend"} : At(w, pc)) /\ Finish(w)
     \/ (\E pc \in {"forward", "transfer", "notify"} : At(w, pc)) /\ Fail(w)
  /\ Befalls("fault")
  /\ UNCHANGED <<chainVars, rowVars, lockVars, worldVars>>

\* The transaction is broadcast, and its receipt never reaches the worker.
AnswerLost(w) ==
  /\ Waits(w)
  /\ Befalls("lost")
  /\ Abandon({w})
  /\ Fail(w)
  /\ UNCHANGED <<rowVars, lockVars, worldVars>>

-----------------------------------------------------------------------------

Step(w) ==
  \/ Look(w) \/ Lock(w) \/ SetNx(w)
  \/ Forward(w) \/ Transfer(w) \/ Notify(w) \/ Release(w)
  \/ SaveResult(w) \/ Finalize(w)
  \/ MatchCredit(w) \/ MatchMark(w) \/ ExtendMined(w) \/ ExtendSave(w)

AdminNext ==
  \/ \E a \in Admins, p \in Payments : ExtendRead(a, p) \/ \E t \in Transfers : MatchRead(a, t, p)
  \/ \E t \in Transfers : Ignore(t)

WorldNext ==
  \/ \E t \in Transfers : Arrive(t)
  \/ \E p \in Payments : PayClone(p) \/ RateLapses(p)
  \/ OtherCompletes \/ \E d \in Deals : CancelDeal(d)
  \/ CloneNext /\ UNCHANGED <<rowVars, lockVars, worldVars, work, mishaps>>

MishapNext ==
  \/ \E r \in Replicas : Crash(r)
  \/ \E w \in Workers : CallFails(w) \/ AnswerLost(w)

Next ==
  \/ \E w \in Workers : Step(w)
  \/ \E w \in Workers, p \in Payments : Begin(w, p)
  \/ \E d \in Deals : LockExpires(d)
  \/ \E p \in Payments : Sweep(p)
  \/ ScanRead \/ \E t \in Transfers : ScanRecord(t)
  \/ MineNext
  \/ AdminNext
  \/ WorldNext
  \/ MishapNext

Spec == Init /\ [][Next]_vars

\* A process that lives goes on, the cron job comes to every open payment, the sweep is a
\* cron job too and reads every completed payment as long as they fit, the chain mines what
\* has been broadcast, and a key in Redis runs out.
Fairness ==
  /\ \A w \in Workers : WF_vars(Step(w))
  /\ \A p \in Payments : WF_vars(\E w \in Watchers : Begin(w, p)) /\ WF_vars(~Crowded /\ Sweep(p))
  /\ WF_vars(MineNext)
  /\ \A d \in Deals : WF_vars(Orphaned(d) /\ LockExpires(d))

FairSpec == Spec /\ Fairness

-----------------------------------------------------------------------------
(* What the rails promise                                                  *)

\* Every variable has its type.
TypeOK ==
  /\ ChainOK
  /\ method \in [Payments -> Methods]
  /\ payment \in [Payments -> Payment]
  /\ deal \in [Deals -> {"PENDING_PAYMENT", "IN_PROGRESS", "CANCELLED"}]
  /\ wire \in [Transfers -> Wire \cup {NoOne}]
  /\ row \in [Transfers -> {NoOne, "unmatched", "matched", "ignored"}]
  /\ scan \subseteq Transfers
  /\ lapsed \in [Payments -> Nat]
  /\ others \in Nat
  /\ credits \in [Payments -> [Transfers -> Nat]]
  /\ keys \subseteq Deals
  /\ locals \in [Replicas -> SUBSET Deals]
  /\ work \in [Workers -> Work]
  /\ mishaps \in [Mishaps -> Nat]

PendingTransfers(d) == {i \in DOMAIN mempool : mempool[i].kind = "transfer" /\ mempool[i].deal = d}

Pending(d) == MapThenSumSet(LAMBDA i : mempool[i].amount, PendingTransfers(d))

\* How often a lock has run out under its holder, Redis has not answered, or a receipt has
\* been lost.
Lapses == MapThenSumSet(LAMBDA m : mishaps[m], Mishaps \cap {"stall", "outage", "lost"})

\* However the watcher, buyers and administrators race, from one process or several, and
\* whatever dies or fails before a broadcast, the float pays a clone one deposit at most as
\* long as it can be funded; and one more for every lapse.
OneDepositPerLapse ==
  \A d \in Deals : clone[d] \notin Void => sent[d] + Pending(d) <= (1 + Lapses) * Deposit[d]

\* The transfers that claim a payment, and what match has credited to it by hand.
Backing(p) == Claimed(p) + Worth(credits[p])

\* The float stands in for money: it pays for a clone only when transfers with the memo, in
\* the asset of the rail, and what administrators have credited cover the deposit of one
\* payment; whatever is saved from an old copy, retried, revived or lost.
FloatBacked ==
  \A d \in Deals : sent[d] + Pending(d) > 0 =>
    \E p \in Payments : DealOf[p] = d /\ Backing(p) >= Deposit[d]

Funded(d) == clone[d] \in {"FUNDED", "RELEASED"}

\* A payment is completed, and its deal in progress, only when the clone is funded.
CompletedTruthful ==
  /\ \A p \in Payments : payment[p].status = "completed" => Funded(DealOf[p])
  /\ \A d \in Deals : deal[d] = "IN_PROGRESS" => Funded(d)

\* The money is there, on TON with the memo or in the clone.
Paid(p) ==
  \/ Funded(DealOf[p])
  \/ ~Direct(p) /\ Claimed(p) >= Deposit[DealOf[p]]
  \/ Direct(p) /\ held[DealOf[p]] >= Deposit[DealOf[p]]

Settled(p) ==
  \/ payment[p].status = "expired"
  \/ payment[p].status = "completed" /\ deal[DealOf[p]] # "PENDING_PAYMENT"

\* A payment whose money has come does not hang: it is completed and its deal confirmed or
\* cancelled, or the payment has expired, or the float has run dry; or it is one of more
\* completed payments than a sweep reads.
DepositsSettle ==
  \A p \in Payments : Open(p) /\ Paid(p) ~>
    \/ Settled(p)
    \/ float < Shortfall(DealOf[p])
    \/ payment[p].status = "completed" /\ Crowded
====
