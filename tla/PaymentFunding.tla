---- MODULE PaymentFunding ----
(***************************************************************************)
(* How a Cryptomus payment becomes a funded escrow: the handler of the     *)
(* provider's webhook (PaymentWebhookService) and the periodic sweep       *)
(* (ReconciliationService) work on the same payments, in several           *)
(* processes, under the lease of PaymentOperations, through the relay of   *)
(* RelayChain.  A step ends at an await that others can get between.       *)
(***************************************************************************)
EXTENDS RelayChain, FiniteSetsExt

CONSTANTS
  Hooks,      \* workers that handle webhook deliveries
  Sweeps,     \* workers that sweep
  Payments,
  DealOf,     \* the deal a payment is for
  Notices,    \* other statuses the provider reports, at any time
  MaxCrashes, \* how many times a process dies
  MaxStalls,  \* how many times a lease runs out under a process that is alive
  MaxSlow,    \* how many times the lease of a dead one does while a transaction is pending
  MaxFaults,  \* how many calls to the chain fail before the broadcast
  MaxLost,    \* how many fail after it
  MaxCrowd,   \* how many payments of other deals are completed
  MaxSwaps,   \* how many times a party takes its wallet off its account
  MaxMishaps, \* how much of this happens together, but for leases that follow a crash
  SweepLimit  \* 100: take, the completed payments a sweep reads

ASSUME FundingAssumption ==
  /\ Workers = Hooks \cup Sweeps /\ Hooks \cap Sweeps = {}
  /\ DealOf \in [Payments -> Deals]
  /\ Notices \subseteq {"processing", "refunded", "failed"}
  /\ {MaxCrashes, MaxStalls, MaxSlow, MaxFaults, MaxLost, MaxCrowd, MaxSwaps,
      MaxMishaps, SweepLimit} \subseteq Nat
  /\ NoOne \notin Payments
  /\ IsFiniteSet(Payments)

VARIABLES
  payment,  \* status of every payment row
  wallets,  \* buyer and seller have both attached their wallets
  deal,     \* the deal rows
  cancels,  \* what a user's cancellation in progress has read of the deal
  op,       \* the operation rows
  ledger,   \* payments with an entry in the money ledger
  work,     \* where every worker is
  mishaps   \* how many of each bounded mishap may still happen

Ops == INSTANCE PaymentOperations WITH Owners <- Replicas, Nobody <- NoOne

dbVars == <<payment, wallets, deal, cancels, op, ledger>>
vars   == <<chainVars, dbVars, work, mishaps>>

PaymentStatus == {"pending", "completed"} \cup Notices
DealStatus    == {"PENDING_PAYMENT", "IN_PROGRESS", "CANCELLED"}

\* address: escrowAddress is set; paid: paidAt and fundedAt are.
Deal == [status : DealStatus, address : BOOLEAN, paid : BOOLEAN]

NoCopy == [status |-> "PENDING_PAYMENT", address |-> FALSE, paid |-> FALSE]

Pc == {"idle", "price", "claim", "deploy", "attach", "review", "forward", "transfer", "notify",
       "record", "complete", "confirm", "confirming", "fail"}

\* todo: the payments a sweep has still to see; copy: the worker's copy of the deal
\* of every payment it has read; amount: what it is about to forward.
Work == [ pc : Pc, job : Payments \cup {NoOne}, todo : SUBSET Payments,
          copy : [Payments -> Deal], amount : Nat ]

Rest == [ pc |-> "idle", job |-> NoOne, todo |-> {}, copy |-> [p \in Payments |-> NoCopy],
          amount |-> 0 ]

Mishaps == [crashes : Nat, stalls : Nat, slow : Nat, faults : Nat, lost : Nat, crowd : Nat,
            swaps : Nat]

Allowed == [crashes |-> MaxCrashes, stalls |-> MaxStalls, slow |-> MaxSlow,
            faults |-> MaxFaults, lost |-> MaxLost, crowd |-> MaxCrowd,
            swaps |-> MaxSwaps]

Init ==
  /\ ChainInit
  /\ payment = [p \in Payments |-> "pending"]
  /\ wallets \in [Deals -> BOOLEAN]
  /\ deal = [d \in Deals |->
               IF d \in Predeployed THEN [NoCopy EXCEPT !.address = TRUE] ELSE NoCopy]
  /\ cancels = [d \in Deals |-> {}]
  /\ Ops!OperationsInit
  /\ ledger = {}
  /\ work = [w \in Workers |-> Rest]
  /\ mishaps = Allowed

-----------------------------------------------------------------------------
(* Helpers                                                                 *)

\* A worker that waits for a receipt does nothing else.
At(w, pc)  == work[w].pc = pc /\ ~Waits(w)
Job(w)     == work[w].job
JobDeal(w) == DealOf[Job(w)]
Copy(w)    == work[w].copy[Job(w)]
Proc(w)    == Replica[w]

Goto(w, pc) == work' = [work EXCEPT ![w].pc = pc]

\* The worker is done with its payment; a sweep goes on with the next one.
Finished(f) ==
  IF f.todo = {} THEN Rest ELSE [f EXCEPT !.pc = "claim", !.job = NoOne, !.amount = 0]

Finish(w) == work' = [work EXCEPT ![w] = Finished(@)]

\* An exception leaves the handler; a sweep drops the rest of its payments.
Abort(w) == work' = [work EXCEPT ![w] = Rest]

\* repository.save(entity) writes back every column of the copy, whatever has become
\* of the row since it was read.
Save(d, copy) == deal' = [deal EXCEPT ![d] = copy]

Happened(kinds) == MapThenSumSet(LAMBDA kind : Allowed[kind] - mishaps[kind], kinds)

Spend(what) ==
  /\ mishaps[what] > 0
  /\ what # "slow" => Happened(DOMAIN Allowed \ {"slow"}) < MaxMishaps
  /\ mishaps' = [mishaps EXCEPT ![what] = @ - 1]

-----------------------------------------------------------------------------
(* How a worker comes by a payment                                         *)

MarkPaid(p) == payment' = [payment EXCEPT ![p] = "completed"]

\* A PAID webhook is delivered, for the first time or again: the payment and its
\* deal are read, and the payment is saved as completed.  Without wallets that is all.
PaidWebhook(w, p) ==
  /\ work[w].pc = "idle"
  /\ MarkPaid(p)
  /\ IF wallets[DealOf[p]]
       THEN work' = [work EXCEPT ![w] = [Rest EXCEPT !.pc = "price", !.job = p,
                                                     !.copy[p] = deal[DealOf[p]]]]
       ELSE UNCHANGED work
  /\ UNCHANGED <<chainVars, wallets, deal, cancels, op, ledger, mishaps>>

\* Any other report of the provider overwrites the status, a late one too.
NoticeWebhook(p, s) ==
  /\ payment' = [payment EXCEPT ![p] = s]
  /\ UNCHANGED <<chainVars, wallets, deal, cancels, op, ledger, work, mishaps>>

Completed == {p \in Payments : payment[p] = "completed"}

\* Completed payments stay what they are, whatever becomes of their deals, and those of other
\* deals count too: there may be more of them than a sweep reads.
Crowded == Happened({"crowd"}) + Cardinality(Completed) > SweepLimit

\* A sweep reads SweepLimit completed payments with their deals, in no order, and keeps those
\* whose deal is still to be paid.
StartSweep(w) ==
  \E seen \in SUBSET Completed :
    LET found == {p \in seen : deal[DealOf[p]].status = "PENDING_PAYMENT" /\ wallets[DealOf[p]]}
    IN  /\ work[w].pc = "idle"
        /\ Cardinality(seen) <= SweepLimit /\ (~Crowded => seen = Completed)
        /\ found # {}
        /\ work' = [work EXCEPT ![w] =
             [Rest EXCEPT !.pc = "claim", !.todo = found,
                          !.copy = [p \in Payments |->
                                      IF p \in found THEN deal[DealOf[p]] ELSE NoCopy]]]
        /\ UNCHANGED <<chainVars, dbVars, mishaps>>

\* lockFundingFx: the webhook's copy goes back to the database with the rate, unless the
\* webhook brings none and the row has one.
LockFundingFx(w) ==
  /\ At(w, "price")
  /\ Save(JobDeal(w), Copy(w)) \/ UNCHANGED deal
  /\ Goto(w, "claim")
  /\ UNCHANGED <<chainVars, payment, wallets, cancels, op, ledger, mishaps>>

-----------------------------------------------------------------------------
(* Funding under the lease                                                 *)

Candidates(w) == IF w \in Hooks THEN {Job(w)} ELSE work[w].todo

\* A webhook asks whether its copy of the deal is to be paid once the clone is there,
\* a sweep saves its copy once more.
AfterClaim(w, copy) ==
  CASE ~copy.address -> "deploy"
    [] copy.address /\ w \in Sweeps -> "attach"
    [] OTHER -> "review"

\* The payment is claimed; or it turns out to be funded and only the deal may have to
\* follow; or it is left to whoever holds the lease.
Claim(w, p) ==
  LET f == [work[w] EXCEPT !.job = p, !.todo = @ \ {p}]
      funded == /\ op[p].status = "COMPLETED"
                /\ w \in Hooks => f.copy[p].status = "PENDING_PAYMENT"
  IN  /\ At(w, "claim")
      /\ p \in Candidates(w)
      /\ \/ /\ Ops!ClaimFunding(p, Proc(w))
            /\ work' = [work EXCEPT ![w] = [f EXCEPT !.pc = AfterClaim(w, f.copy[p])]]
         \/ /\ ~Ops!Claimable(p)
            /\ work' = [work EXCEPT ![w] =
                          IF funded THEN [f EXCEPT !.pc = "confirm"] ELSE Finished(f)]
            /\ UNCHANGED op
      /\ UNCHANGED <<chainVars, payment, wallets, deal, cancels, ledger, mishaps>>

\* withLease renews before it starts; without the lease the worker gives up.
LeaseLost(w) ==
  /\ \/ At(w, "deploy") \/ At(w, "forward")
     \/ At(w, "attach") /\ ~Copy(w).address \* what a renewal meanwhile has
     \/ At(w, "record")                     \* found out is raised at the end
  /\ ~Ops!Renewable(Job(w), Proc(w))
  /\ Goto(w, "fail")
  /\ UNCHANGED <<chainVars, dbVars, mishaps>>

\* ... and goes on renewing while it waits.
RenewWhileWaiting(w) ==
  /\ Waits(w)
  /\ Ops!RenewLease(Job(w), Proc(w))
  /\ UNCHANGED <<chainVars, payment, wallets, deal, cancels, ledger, work, mishaps>>

Deploy(w) ==
  /\ At(w, "deploy")
  /\ Ops!RenewLease(Job(w), Proc(w))
  /\ Broadcast(w, "createEscrow", JobDeal(w), 0)
  /\ UNCHANGED <<payment, wallets, deal, cancels, ledger, work, mishaps>>

\* The address is saved, with the rest of the worker's copy.
Attach(w) ==
  LET copy == [Copy(w) EXCEPT !.address = TRUE]
  IN  /\ At(w, "attach")
      /\ Save(JobDeal(w), copy)
      /\ work' = [work EXCEPT ![w].copy[Job(w)] = copy,
                              ![w].pc = IF w \in Hooks THEN "review" ELSE "forward"]
      /\ UNCHANGED <<chainVars, payment, wallets, cancels, op, ledger, mishaps>>

\* A webhook parks the payment of a deal that was not to be paid when it was read.
Review(w) ==
  /\ At(w, "review")
  /\ IF Copy(w).status = "PENDING_PAYMENT" THEN Goto(w, "forward") /\ UNCHANGED op
     ELSE \/ Ops!Mark(Job(w), Proc(w), "MANUAL_REVIEW") /\ Finish(w)
          \/ ~Ops!Owned(Job(w), Proc(w)) /\ Abort(w) /\ UNCHANGED op
  /\ UNCHANGED <<chainVars, payment, wallets, deal, cancels, ledger, mishaps>>

\* forwardAndFund looks at the clone, and does what is missing.
NextCall(d) ==
  CASE isFundedOrLater(d) -> "record"
    [] ~isFundedOrLater(d) /\ Shortfall(d) > 0 ->
         IF float >= Shortfall(d) THEN "transfer" ELSE "fail"
    [] ~isFundedOrLater(d) /\ Shortfall(d) = 0 -> "notify"

Forward(w) ==
  LET d == JobDeal(w)
  IN  /\ At(w, "forward")
      /\ Ops!RenewLease(Job(w), Proc(w))
      /\ work' = [work EXCEPT ![w].pc = NextCall(d), ![w].amount = Shortfall(d)]
      /\ UNCHANGED <<chainVars, payment, wallets, deal, cancels, ledger, mishaps>>

Transfer(w) ==
  /\ At(w, "transfer")
  /\ Broadcast(w, "transfer", JobDeal(w), work[w].amount)
  /\ UNCHANGED <<dbVars, work, mishaps>>

Notify(w) ==
  /\ At(w, "notify")
  /\ Broadcast(w, "notifyFunded", JobDeal(w), 0)
  /\ UNCHANGED <<dbVars, work, mishaps>>

\* Slip: the transfer is taken for the funding.
AfterReceipt_NoNotify ==
  [createEscrow |-> "attach", transfer |-> "record", notifyFunded |-> "record"]

AfterReceipt ==
  [createEscrow |-> "attach", transfer |-> "notify", notifyFunded |-> "record"]

\* The next transaction is mined, and whoever waits for it goes on.
MineNext ==
  /\ Mine
  /\ LET tx == Head(mempool)
         next == IF Succeeds(tx) THEN AfterReceipt[tx.kind] ELSE "fail"
     IN  IF tx.worker = NoOne THEN UNCHANGED work ELSE Goto(tx.worker, next)
  /\ UNCHANGED <<dbVars, mishaps>>

\* The ledger's entry is unique per operation.
RecordFunding(w) ==
  /\ At(w, "record")
  /\ ledger' = ledger \cup {Job(w)}
  /\ Goto(w, "complete")
  /\ UNCHANGED <<chainVars, payment, wallets, deal, cancels, op, mishaps>>

MarkCompleted(w) ==
  /\ At(w, "complete")
  /\ \/ Ops!Mark(Job(w), Proc(w), "COMPLETED") /\ Goto(w, "confirm")
     \/ ~Ops!Owned(Job(w), Proc(w)) /\ Goto(w, "fail") /\ UNCHANGED op
  /\ UNCHANGED <<chainVars, payment, wallets, deal, cancels, ledger, mishaps>>

MarkRetryableFailure(w) ==
  /\ At(w, "fail")
  /\ \/ Ops!Mark(Job(w), Proc(w), "FAILED_RETRYABLE") /\ Finish(w)
     \/ ~Ops!Owned(Job(w), Proc(w)) /\ Abort(w) /\ UNCHANGED op
  /\ UNCHANGED <<chainVars, payment, wallets, deal, cancels, ledger, mishaps>>

-----------------------------------------------------------------------------
(* The deal follows                                                        *)

\* confirmPayment reads the deal.  What it throws is logged by a webhook and ends a
\* sweep.
ConfirmPayment(w) ==
  LET row == deal[JobDeal(w)]
  IN  /\ At(w, "confirm")
      /\ \/ row.paid /\ Finish(w)
         \/ /\ ~row.paid /\ row.status # "PENDING_PAYMENT"
            /\ IF w \in Hooks THEN Finish(w) ELSE Abort(w)
         \/ /\ ~row.paid /\ row.status = "PENDING_PAYMENT"
            /\ work' = [work EXCEPT ![w].copy[Job(w)] = row, ![w].pc = "confirming"]
      /\ UNCHANGED <<chainVars, dbVars, mishaps>>

\* ... and saves it in progress.
SavePaid(w) ==
  /\ At(w, "confirming")
  /\ Save(JobDeal(w), [Copy(w) EXCEPT !.status = "IN_PROGRESS", !.paid = TRUE])
  /\ Finish(w)
  /\ UNCHANGED <<chainVars, payment, wallets, cancels, op, ledger, mishaps>>

\* DealService.cancel reads the deal, and lets a party cancel what is not paid ...
ReadToCancel(d) ==
  /\ cancels[d] = {}
  /\ deal[d].status = "PENDING_PAYMENT" /\ ~deal[d].paid
  /\ cancels' = [cancels EXCEPT ![d] = {deal[d]}]
  /\ UNCHANGED <<chainVars, payment, wallets, deal, op, ledger, work, mishaps>>

\* ... and saves it cancelled.
SaveCancelled(d) ==
  /\ \E copy \in cancels[d] : Save(d, [copy EXCEPT !.status = "CANCELLED"])
  /\ cancels' = [cancels EXCEPT ![d] = {}]
  /\ UNCHANGED <<chainVars, payment, wallets, op, ledger, work, mishaps>>

AttachWallets(d) ==
  /\ ~wallets[d]
  /\ wallets' = [wallets EXCEPT ![d] = TRUE]
  /\ UNCHANGED <<chainVars, payment, deal, cancels, op, ledger, work, mishaps>>

\* A party that is about to swap its wallet takes the old one off.
DetachWallets(d) ==
  /\ wallets[d]
  /\ Spend("swaps")
  /\ wallets' = [wallets EXCEPT ![d] = FALSE]
  /\ UNCHANGED <<chainVars, payment, deal, cancels, op, ledger, work>>

-----------------------------------------------------------------------------
(* Mishaps                                                                 *)

\* A process dies and another takes its place.
Crash(r) ==
  LET W == {w \in Workers : Replica[w] = r}
  IN  /\ Spend("crashes")
      /\ Abandon(W)
      /\ Ops!OwnerDies(r)
      /\ work' = [w \in Workers |-> IF w \in W THEN Rest ELSE work[w]]
      /\ UNCHANGED <<payment, wallets, deal, cancels, ledger>>

\* The holder of p's lease has died.
Orphaned(p) == op[p].owner = NoOne

\* None of the deal's transactions is pending.
Quiet(p) == \A tx \in ToSet(mempool) : tx.deal # DealOf[p]

LeaseExpires(p) ==
  /\ Ops!ExpireLease(p)
  /\ \/ Orphaned(p) /\ Quiet(p) /\ UNCHANGED mishaps
     \/ Orphaned(p) /\ ~Quiet(p) /\ Spend("slow")
     \/ ~Orphaned(p) /\ Spend("stalls")
  /\ UNCHANGED <<chainVars, payment, wallets, deal, cancels, ledger, work>>

\* A call to the chain, or the gate before the relay's queue, fails before anything
\* is broadcast.
CallFails(w) ==
  /\ \E pc \in {"deploy", "forward", "transfer", "notify"} : At(w, pc)
  /\ Spend("faults")
  /\ Goto(w, "fail")
  /\ UNCHANGED <<chainVars, dbVars>>

\* The transaction is broadcast, and its receipt never reaches the worker.
AnswerLost(w) ==
  /\ Waits(w)
  /\ Spend("lost")
  /\ Abandon({w})
  /\ Goto(w, "fail")
  /\ UNCHANGED dbVars

\* A payment of another deal is completed.
OtherCompletes ==
  /\ Spend("crowd")
  /\ UNCHANGED <<chainVars, dbVars, work>>

-----------------------------------------------------------------------------

Step(w) ==
  \/ LockFundingFx(w) \/ (\E p \in Payments : Claim(w, p)) \/ LeaseLost(w)
  \/ Deploy(w) \/ Attach(w) \/ Review(w)
  \/ Forward(w) \/ Transfer(w) \/ Notify(w)
  \/ RecordFunding(w) \/ MarkCompleted(w) \/ MarkRetryableFailure(w)
  \/ ConfirmPayment(w) \/ SavePaid(w)

ProviderNext ==
  \/ \E w \in Hooks, p \in Payments : PaidWebhook(w, p)
  \/ \E p \in Payments, s \in Notices : NoticeWebhook(p, s)

UsersNext ==
  \/ \E d \in Deals : ReadToCancel(d) \/ SaveCancelled(d) \/ AttachWallets(d)
  \/ PartiesNext /\ UNCHANGED <<dbVars, work, mishaps>>

MishapNext ==
  \/ \E r \in Replicas : Crash(r)
  \/ \E p \in Payments : LeaseExpires(p)
  \/ \E w \in Workers : CallFails(w) \/ AnswerLost(w)
  \/ OtherCompletes
  \/ \E d \in Deals : DetachWallets(d)

Next ==
  \/ \E w \in Workers : Step(w) \/ RenewWhileWaiting(w)
  \/ \E w \in Sweeps : StartSweep(w)
  \/ MineNext
  \/ ProviderNext
  \/ UsersNext
  \/ MishapNext

Spec == Init /\ [][Next]_vars

\* A process that lives goes on, the sweep is a cron job, which reads what there is when that
\* is within its limit, the chain mines what has been broadcast, and the lease of a dead
\* process runs out.
Fairness ==
  /\ \A w \in Workers : WF_vars(Step(w))
  /\ \A w \in Sweeps : WF_vars(~Crowded /\ StartSweep(w))
  /\ WF_vars(MineNext)
  /\ \A p \in Payments : WF_vars(Orphaned(p) /\ Quiet(p) /\ LeaseExpires(p))

FairSpec == Spec /\ Fairness

-----------------------------------------------------------------------------
(* What funding promises                                                   *)

\* Every variable has its type.
TypeOK ==
  /\ ChainOK
  /\ payment \in [Payments -> PaymentStatus]
  /\ wallets \in [Deals -> BOOLEAN]
  /\ deal \in [Deals -> Deal]
  /\ cancels \in [Deals -> SUBSET Deal]
  /\ Ops!OperationsOK
  /\ ledger \in SUBSET Payments
  /\ work \in [Workers -> Work]
  /\ mishaps \in Mishaps

\* The deposit is in the escrow, or has been paid out of it by the parties.
Locked(d) == clone[d] \in {"FUNDED", "RELEASED"}

\* A seller is told to deliver only when the deposit is in the escrow: no order of
\* deliveries, sweeps, failures and stale saves sets a deal in progress before.
DeliveryBacked ==
  \A d \in Deals : deal[d].status = "IN_PROGRESS" => Locked(d)

\* The books tell the truth: an entry in the ledger and a completed operation stand
\* for an escrow that is funded on chain.
BooksTruthful ==
  \A p \in Payments :
    p \in ledger \/ op[p].status = "COMPLETED" => Locked(DealOf[p])

Orders(d) == {p \in Payments : DealOf[p] = d}

PendingTransfers(d) == {i \in DOMAIN mempool : mempool[i].kind = "transfer" /\ mempool[i].deal = d}

Pending(d) == MapThenSumSet(LAMBDA i : mempool[i].amount, PendingTransfers(d))

\* However often its orders are delivered, retried and recovered, the hot wallet pays a
\* clone at most one deposit for each of them as long as the clone can still be funded,
\* transfers that outlive their worker included, a worker's crash notwithstanding.  The code's
\* comments promise that nothing repeats a transfer; it does repeat one, but only when a
\* lease runs out under a process that is alive or while a transaction is pending, or when a
\* receipt is lost: one more deposit for each of these lapses at most.
PaidOncePerLapse ==
  \A d \in Deals : clone[d] \notin Void =>
    sent[d] + Pending(d) <=
      (Cardinality(Orders(d)) + Happened({"stalls", "slow", "lost"})) * Deposit[d]

Funding == {"deploy", "attach", "review", "forward", "transfer", "notify", "record", "complete"}

\* Duplicate deliveries and the sweep never fund a payment at the same time, but for one
\* more of them each time that a lease runs out under a process that is alive.
LeaseExclusive ==
  \A p \in Payments :
    Cardinality({w \in Workers : Job(w) = p /\ work[w].pc \in Funding}) <= 1 + Happened({"stalls"})

Settled(p) ==
  \/ deal[DealOf[p]].status \in {"IN_PROGRESS", "CANCELLED"}
  \/ clone[DealOf[p]] \in Void \/ late[DealOf[p]]
  \/ op[p].status = "MANUAL_REVIEW" \/ payment[p] # "completed" \/ ~wallets[DealOf[p]]

\* A process has died after the clone was deployed and before its address was saved:
\* every later createEscrow reverts.
Orphan(d) == clone[d] # "UNINITIALIZED" /\ ~deal[d].address

\* A payment that is completed, between parties with wallets, does not hang: the deal
\* gets under way, unless a party cancels it, the clone closes or its funding deadline
\* passes, an operator is asked, a late notice of the provider calls the payment
\* something else, a party takes its wallet off, its clone is an orphan, or there are
\* more completed payments than a sweep reads.
PaymentsSettle ==
  \A p \in Payments :
    (payment[p] = "completed" /\ wallets[DealOf[p]]) ~> Settled(p) \/ Orphan(DealOf[p]) \/ Crowded
====
