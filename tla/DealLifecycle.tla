---- MODULE DealLifecycle ----
(***************************************************************************)
(* deal/deal.service.ts: the life of one deal under concurrent requests,   *)
(* with the other services that write its row: those of the disputes and   *)
(* of the payment.  Most operations read the row, decide, do what else     *)
(* they have to, save the whole row they read with their changes, and      *)
(* enqueue an event; each of these is an await that other requests, and a  *)
(* crash, get between.  Only the acceptance of an invitation locks the     *)
(* rows it changes.  The deal settles on Polygon: how transactions on TON  *)
(* move a deal is in TonNativeWatch and TonJettonIngestion.                *)
(*                                                                         *)
(* `reached` and `forced` are history: the statuses the row has had, and   *)
(* whether an administrator has completed it.  `counted` are the parties'  *)
(* statistics and reputation, as the number of times they were raised for  *)
(* this deal.  `clone` is the escrow on Polygon; `published` the types of  *)
(* the events in the outbox, whose delivery is the subject of Outbox.      *)
(***************************************************************************)
EXTENDS Integers, DealStatus

CONSTANTS
  Callers,   \* requests in progress
  Sellers, Invites,
  NoOne,     \* no seller
  MaxCalls,  \* bound: requests that write the row
  MaxMishaps \* bound: requests that die, or whose question to the chain fails

ASSUME DealAssumption ==
  /\ NoOne \notin Sellers
  /\ {MaxCalls, MaxMishaps} \subseteq Nat

VARIABLES
  deal,      \* the row: status, sellerId, fundedAt, escrowReleaseRequired
  invites,   \* [Invites -> status]
  clone,     \* status on chain
  disputes,  \* dispute rows of the deal: [open, closed]
  counted, reached, forced, published,
  calls, begun, mishaps

vars == <<deal, invites, clone, disputes, counted, reached, forced, published, calls, begun, mishaps>>

NoCall == [pc |-> "idle"]
None == "none"

\* create: with a seller the row and its event are committed together; when both parties have
\* wallets the request goes on to deploy the clone, and saves the row again with its address.
Init ==
  /\ deal \in {[status |-> "DRAFT", seller |-> NoOne, funded |-> FALSE, release |-> FALSE]}
       \union {[status |-> "PENDING_ACCEPTANCE", seller |-> s, funded |-> FALSE, release |-> FALSE] : s \in Sellers}
  /\ invites = [i \in Invites |-> "NONE"]
  /\ clone = "awaiting_funding" /\ disputes = [open |-> 0, closed |-> 0]
  /\ counted = [completed |-> 0, disputed |-> 0]
  /\ reached = {deal.status} /\ forced = FALSE
  /\ published = IF deal.seller = NoOne THEN {} ELSE {"deal.created"}
  /\ begun = 0 /\ mishaps = 0
  /\ \E creating \in {{}} \union {{c} : c \in {d \in Callers : deal.seller # NoOne}} :
       calls = [c \in Callers |->
         IF c \in creating THEN [pc |-> "save", op |-> "create", read |-> deal, row |-> deal] ELSE NoCall]

Operations == {"update", "cancel", "accept", "reject", "confirmPayment", "markShipped",
               "confirmReceipt", "openDispute", "syncEscrowRelease", "forceComplete", "forceCancel",
               "lockFundingFx", "arbitrateDispute", "recordResolution"}

\* These write a status without asking the state machine or the row.
Administrative == {"forceComplete", "forceCancel", "recordResolution"}

Target == [op \in Operations |->
  CASE op \in {"cancel", "reject", "forceCancel"} -> "CANCELLED"
    [] op = "accept" -> "PENDING_PAYMENT"
    [] op = "confirmPayment" -> "IN_PROGRESS"
    [] op = "markShipped" -> "PENDING_CONFIRMATION"
    [] op \in {"confirmReceipt", "forceComplete"} -> "COMPLETED"
    [] op \in {"openDispute", "arbitrateDispute"} -> "DISPUTED"
    [] op = "recordResolution" -> "DISPUTE_RESOLVED"
    [] OTHER -> None]

\* What the operation asks of the row it has read.
Permits(op, row) ==
  CASE op = "update" -> row.status \in {"DRAFT", "PENDING_ACCEPTANCE"}
    [] op = "cancel" -> CanBeCancelled(row.status)
    [] op \in {"accept", "reject"} -> row.status = "PENDING_ACCEPTANCE"
    [] op = "confirmPayment" -> ~row.funded /\ row.status = "PENDING_PAYMENT"
    [] op = "markShipped" -> row.status = "IN_PROGRESS"
    [] op = "confirmReceipt" -> CanBeConfirmed(row.status)
    [] op \in {"openDispute", "arbitrateDispute"} -> CanBeDisputed(row.status)
    [] op = "recordResolution" -> row.status # "DISPUTE_RESOLVED"
    [] op = "syncEscrowRelease" -> row.release
    [] OTHER -> TRUE

\* The state machine changes the object at once; it is saved later.
After(op, row) ==
  [row EXCEPT !.status = IF Target[op] = None THEN @ ELSE Target[op],
              !.funded = @ \/ op = "confirmPayment",
              !.release = @ /\ op # "syncEscrowRelease"]

\* Slip: no dispute row.
FirstStep_NoDispute(op) ==
  CASE op \in {"openDispute", "confirmReceipt"} -> "count"
    [] op = "arbitrateDispute" -> "lookup"
    [] op = "syncEscrowRelease" -> "inspect"
    [] OTHER -> "save"

\* Where the operation goes from its read.
FirstStep(op) ==
  CASE op \in {"openDispute", "arbitrateDispute"} -> "lookup"
    [] op = "confirmReceipt" -> "count"
    [] op = "syncEscrowRelease" -> "inspect"
    [] OTHER -> "save"

\* Slip: the completion is announced at once.
CompletionEvent_AtOnce(row) == "deal.completed"

CompletionEvent(row) == IF row.release THEN "deal.release_required" ELSE "deal.completed"

\* The event of the operation; the seller is told of a completion when nothing is left to release.
EventOf(call) ==
  CASE call.op = "cancel" -> IF call.row.seller = NoOne THEN None ELSE "deal.cancelled"
    [] call.op = "confirmPayment" -> "deal.payment_received"
    [] call.op = "markShipped" -> "deal.confirmation_requested"
    [] call.op = "confirmReceipt" -> CompletionEvent(call.row)
    [] call.op = "syncEscrowRelease" -> "deal.completed"
    [] call.op \in {"openDispute", "arbitrateDispute"} -> "dispute.opened"
    [] call.op = "acceptInvite" -> "invite.accepted"
    [] call.op = "expireUnpaidDeals" -> "deal.payment_expired"
    [] call.op = "autoConfirmStalePendingDeals" -> "deal.auto_confirmed"
    [] OTHER -> None

Goes(c, pc) == calls' = [calls EXCEPT ![c].pc = pc]
Ends(c) == calls' = [calls EXCEPT ![c] = NoCall]
Counts == begun < MaxCalls /\ begun' = begun + 1

Recorded == disputes.open + disputes.closed > 0

\* confirmPayment is called when the escrow has been funded (PaymentFunding), and the outcome
\* of a dispute is recorded by its arbitrator.
Begin(c, op) ==
  /\ calls[c] = NoCall /\ Counts
  /\ Permits(op, deal)
  /\ op = "confirmPayment" => clone # "awaiting_funding"
  /\ op = "recordResolution" => Recorded
  /\ calls' = [calls EXCEPT ![c] =
       [pc |-> FirstStep(op), op |-> op, read |-> deal, row |-> After(op, deal)]]
  /\ UNCHANGED <<deal, invites, clone, disputes, counted, reached, forced, mishaps, published>>

\* Both ways to open a dispute look for one dispute of the deal, whichever comes first.  When
\* that is open createDisputeForDeal returns it, and DisputeService.openDispute refuses.
LookUpDispute(c) ==
  /\ calls[c].pc = "lookup"
  /\ \/ /\ disputes.open > 0
        /\ IF calls[c].op = "openDispute" THEN Goes(c, "count") ELSE Ends(c)
     \/ /\ disputes.closed > 0 \/ disputes.open = 0
        /\ Goes(c, IF calls[c].op = "openDispute" THEN "insert" ELSE "arbitrate")
  /\ UNCHANGED <<deal, invites, clone, disputes, counted, reached, forced, begun, mishaps, published>>

InsertDispute(c) ==
  /\ calls[c].pc = "insert" /\ Goes(c, "count")
  /\ disputes' = [disputes EXCEPT !.open = @ + 1]
  /\ UNCHANGED <<deal, invites, clone, counted, reached, forced, begun, mishaps, published>>

\* DisputeService.openDispute writes dispute, deal and event in one transaction, and counts
\* nothing.
Arbitrate(c) ==
  /\ calls[c].pc = "arbitrate" /\ Ends(c)
  /\ disputes' = [disputes EXCEPT !.open = @ + 1]
  /\ deal' = calls[c].row /\ reached' = reached \union {deal'.status}
  /\ published' = published \union {EventOf(calls[c])}
  /\ UNCHANGED <<invites, clone, counted, forced, begun, mishaps>>

\* The arbitrator closes a dispute, or his decision on it is enforced.
CloseDispute ==
  /\ disputes.open > 0
  /\ disputes' = [open |-> disputes.open - 1, closed |-> disputes.closed + 1]
  /\ UNCHANGED <<deal, invites, clone, counted, reached, forced, calls, begun, mishaps, published>>

\* Statistics and reputation, before the row is saved.
Count(c) ==
  /\ calls[c].pc = "count"
  /\ IF calls[c].op = "openDispute"
     THEN Goes(c, "save") /\ counted' = [counted EXCEPT !.disputed = @ + 1]
     ELSE Goes(c, "inspect") /\ counted' = [counted EXCEPT !.completed = @ + 1]
  /\ UNCHANGED <<deal, invites, clone, disputes, reached, forced, begun, mishaps, published>>

\* confirmReceipt asks whether the clone still holds the deposit, syncEscrowRelease whether it
\* has been released.
Inspect(c) ==
  /\ calls[c].pc = "inspect"
  /\ IF calls[c].op = "confirmReceipt"
     THEN calls' = [calls EXCEPT ![c].pc = "save", ![c].row.release = @ \/ clone = "funded"]
     ELSE IF clone = "released" THEN Goes(c, "save") ELSE Ends(c)
  /\ UNCHANGED <<deal, invites, clone, disputes, counted, reached, forced, begun, mishaps, published>>

Save(c) ==
  /\ calls[c].pc = "save"
  /\ deal' = calls[c].row /\ reached' = reached \union {deal'.status}
  /\ forced' = (forced \/ calls[c].op = "forceComplete")
  /\ IF EventOf(calls[c]) = None THEN Ends(c) ELSE Goes(c, "enqueue")
  /\ UNCHANGED <<invites, clone, disputes, counted, begun, mishaps, published>>

Publish(c) ==
  /\ calls[c].pc = "enqueue" /\ Ends(c)
  /\ published' = published \union {EventOf(calls[c])}
  /\ UNCHANGED <<deal, invites, clone, disputes, counted, reached, forced, begun, mishaps>>

\* The reminders' cron jobs find deals that have waited for long, and enqueue; no row changes.
Remind(c, op) ==
  /\ calls[c] = NoCall /\ Counts
  /\ \/ op = "expireUnpaidDeals" /\ deal.status = "PENDING_PAYMENT"
     \/ op = "autoConfirmStalePendingDeals" /\ deal.status = "PENDING_CONFIRMATION"
  /\ calls' = [calls EXCEPT ![c] = [pc |-> "enqueue", op |-> op, read |-> deal, row |-> deal]]
  /\ UNCHANGED <<deal, invites, clone, disputes, counted, reached, forced, mishaps, published>>

-----------------------------------------------------------------------------
(* Invitations *)

\* createInvite: an open invitation is returned, otherwise one is inserted.
LookUpInvite(c) ==
  /\ calls[c] = NoCall /\ Counts
  /\ deal.seller = NoOne /\ deal.status = "DRAFT"
  /\ \A i \in Invites : invites[i] # "PENDING"
  /\ calls' = [calls EXCEPT ![c] = [pc |-> "invite", op |-> "createInvite"]]
  /\ UNCHANGED <<deal, invites, clone, disputes, counted, reached, forced, mishaps, published>>

InsertInvite(c, i) ==
  /\ calls[c].pc = "invite" /\ Ends(c)
  /\ invites[i] = "NONE" /\ invites' = [invites EXCEPT ![i] = "PENDING"]
  /\ UNCHANGED <<deal, clone, disputes, counted, reached, forced, begun, mishaps, published>>

\* acceptInvite: one transaction over the locked invitation and deal.  Who is the seller already
\* is answered the same, and nothing changes.
Accepts(i, seller) ==
  /\ deal.seller = NoOne /\ deal.status = "DRAFT"
  /\ deal' = [deal EXCEPT !.seller = seller, !.status = "PENDING_PAYMENT"]
  /\ reached' = reached \union {"PENDING_PAYMENT"}
  /\ invites' = [j \in Invites |->
       IF j = i THEN "ACCEPTED" ELSE IF invites[j] = "PENDING" THEN "CANCELLED" ELSE invites[j]]

AcceptInvite(c, i, seller) ==
  /\ calls[c] = NoCall /\ Counts
  /\ invites[i] = "PENDING"
  /\ \/ Accepts(i, seller)
     \/ /\ deal.seller = seller /\ deal.status = "PENDING_PAYMENT"
        /\ UNCHANGED <<deal, reached, invites>>
  /\ calls' = [calls EXCEPT ![c] = [pc |-> "enqueue", op |-> "acceptInvite", read |-> deal, row |-> deal']]
  /\ UNCHANGED <<clone, disputes, counted, forced, mishaps, published>>

ExpireInvite(i) ==
  /\ invites[i] = "PENDING" /\ invites' = [invites EXCEPT ![i] = "EXPIRED"]
  /\ UNCHANGED <<deal, clone, disputes, counted, reached, forced, calls, begun, mishaps, published>>

-----------------------------------------------------------------------------
(* The chain, and what goes wrong *)

Fund ==
  /\ clone = "awaiting_funding" /\ deal.status = "PENDING_PAYMENT" /\ clone' = "funded"
  /\ UNCHANGED <<deal, invites, disputes, counted, reached, forced, calls, begun, mishaps, published>>

\* The buyer releases, the seller refunds or either disputes, when they like.
Settle(status) ==
  /\ clone = "funded" /\ clone' = status
  /\ UNCHANGED <<deal, invites, disputes, counted, reached, forced, calls, begun, mishaps, published>>

\* A request dies with its process, or an await of it throws.
Breaks(c) ==
  /\ calls[c] # NoCall /\ Ends(c)
  /\ mishaps < MaxMishaps /\ mishaps' = mishaps + 1
  /\ UNCHANGED <<deal, invites, clone, disputes, counted, reached, forced, begun, published>>

Step(c) ==
  \/ LookUpDispute(c) \/ InsertDispute(c) \/ Arbitrate(c) \/ Count(c) \/ Inspect(c) \/ Save(c) \/ Publish(c)
  \/ LookUpInvite(c) \/ Breaks(c)
  \/ \E op \in Operations : Begin(c, op)
  \/ \E op \in {"expireUnpaidDeals", "autoConfirmStalePendingDeals"} : Remind(c, op)
  \/ \E i \in Invites : InsertInvite(c, i) \/ \E seller \in Sellers : AcceptInvite(c, i, seller)

Next ==
  \/ \E c \in Callers : Step(c)
  \/ \E i \in Invites : ExpireInvite(i)
  \/ CloseDispute
  \/ Fund \/ \E status \in {"released", "refunded", "disputed"} : Settle(status)

Spec == Init /\ [][Next]_vars

-----------------------------------------------------------------------------

EventTypes == {"deal.created", "invite.accepted", "deal.payment_received", "deal.confirmation_requested",
               "dispute.opened", "deal.cancelled", "deal.release_required", "deal.completed",
               "deal.payment_expired", "deal.auto_confirmed"}

DealRows == [status : DealStatuses, seller : Sellers \union {NoOne}, funded : BOOLEAN, release : BOOLEAN]
CloneStatuses == {"awaiting_funding", "funded", "released", "refunded", "disputed"}
Calls == [pc : {"lookup", "insert", "arbitrate", "count", "inspect", "save", "enqueue"},
          op : Operations \union {"create", "acceptInvite", "expireUnpaidDeals", "autoConfirmStalePendingDeals"},
          read : DealRows, row : DealRows]
Inviting == [pc |-> "invite", op |-> "createInvite"]

\* The row, what belongs to it and the requests keep their types.
TypeOK ==
  /\ deal \in DealRows
  /\ invites \in [Invites -> {"NONE", "PENDING", "ACCEPTED", "CANCELLED", "EXPIRED"}]
  /\ clone \in CloneStatuses
  /\ disputes \in [open : Nat, closed : Nat] /\ counted \in [{"completed", "disputed"} -> Nat]
  /\ reached \subseteq DealStatuses /\ forced \in BOOLEAN
  /\ published \subseteq EventTypes
  /\ calls \in [Callers -> Calls \union {NoCall, Inviting}]
  /\ begun \in 0..MaxCalls /\ mishaps \in 0..MaxMishaps

\* What an event tells its recipients.
Meaning == [event \in EventTypes |->
  CASE event = "deal.created" -> "PENDING_ACCEPTANCE"
    [] event = "invite.accepted" -> "PENDING_PAYMENT"
    [] event = "deal.payment_received" -> "IN_PROGRESS"
    [] event = "deal.confirmation_requested" -> "PENDING_CONFIRMATION"
    [] event = "dispute.opened" -> "DISPUTED"
    [] event = "deal.cancelled" -> "CANCELLED"
    [] event = "deal.payment_expired" -> "PENDING_PAYMENT"
    [] event = "deal.auto_confirmed" -> "PENDING_CONFIRMATION"
    [] OTHER -> "COMPLETED"]

\* No event announces what was never saved, however requests overlap and wherever they break
\* off; and the seller is told that a deal is completed only once the clone does not hold the
\* deposit any more.
EventsTruthful ==
  /\ \A event \in published : Meaning[event] \in reached
  /\ "deal.completed" \in published => clone # "funded"

\* The steps that come before the save have been taken whenever the row shows it, whichever of
\* the deal service, the disputes' and the payment's has written it: a disputed deal has a
\* dispute to work on; what its buyer has completed has been counted; and a deal that he
\* completes while the clone holds the deposit asks him to release it, until he has.
EffectsPrecedeRow ==
  /\ deal.status = "DISPUTED" => Recorded
  /\ deal.status = "COMPLETED" /\ ~forced =>
       counted.completed > 0 /\ (clone = "funded" => deal.release)

\* An administrator, the arbitrator who records an outcome on chain, or a request that saves
\* over a row it has not read.
Overwrites == \E c \in Callers :
  /\ calls[c].pc \in {"save", "arbitrate"} /\ calls'[c].pc # calls[c].pc
  /\ calls[c].op \in Administrative \/ calls[c].read # deal

\* Apart from those, the status follows the state machine, although not all operations ask it,
\* or an invitation brings the draft its seller; a seller is never replaced, and what is funded
\* stays so.
StateMachineFollowed ==
  [][~Overwrites =>
       /\ deal'.status # deal.status =>
            \/ CanTransition(deal.status, deal'.status)
            \/ <<deal.status, deal'.status>> = <<"DRAFT", "PENDING_PAYMENT">> /\ invites' # invites
       /\ deal.seller # NoOne => deal'.seller = deal.seller
       /\ deal.funded => deal'.funded]_vars

====
