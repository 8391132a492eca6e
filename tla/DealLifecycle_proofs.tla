---- MODULE DealLifecycle_proofs ----
(***************************************************************************)
(* Theorems about DealLifecycle, for any number of requests, sellers and   *)
(* invitations and any number of requests that die.                        *)
(***************************************************************************)
EXTENDS DealLifecycle, TLAPS

\* The clone does not hold the deposit any more.
Done == {"released", "refunded", "disputed"}

\* What its buyer has completed is released, or asks him to release it.
Releasing(row) ==
  row.status = "COMPLETED" /\ ~forced => clone \in Done \/ (clone = "funded" /\ row.release)

\* What the history and the row of the deal have in common.
RowOK ==
  /\ deal.status \in reached
  /\ deal.release => "COMPLETED" \in reached
  /\ reached \intersect {"IN_PROGRESS", "PENDING_CONFIRMATION", "DISPUTED"} # {} => clone # "awaiting_funding"
  /\ "DISPUTED" \in reached => Recorded
  /\ "COMPLETED" \in reached /\ ~forced => counted.completed > 0
  /\ Releasing(deal)

\* What has been published was reached, and a completion is not taken back.
EventsOK ==
  /\ \A event \in published : Meaning[event] \in reached
  /\ "deal.completed" \in published => clone \in Done

\* The row a request is going to save, given the one that it has read.
Changes(op, read, row) ==
  /\ op \in Operations \union {"create"}
  /\ IF op = "create" THEN read.status = "PENDING_ACCEPTANCE" ELSE Permits(op, read)
  /\ row.status = IF op = "create" \/ Target[op] = None THEN read.status ELSE Target[op]
  /\ row.seller = read.seller
  /\ row.funded = (read.funded \/ op = "confirmPayment")
  /\ row.release => read.release \/ op = "confirmReceipt"
  /\ read.release => row.release \/ op = "syncEscrowRelease"

\* What a request has done and seen by the time that it is at its place.
Progress(pc, op, row) ==
  /\ pc = "lookup" => op \in {"openDispute", "arbitrateDispute"}
  /\ pc = "insert" => op = "openDispute"
  /\ pc = "arbitrate" => op = "arbitrateDispute"
  /\ pc = "count" => op \in {"openDispute", "confirmReceipt"}
  /\ pc = "inspect" => op \in {"confirmReceipt", "syncEscrowRelease"}
  /\ op = "confirmPayment" => clone # "awaiting_funding"
  /\ op = "openDispute" => (pc \in {"count", "save"} => Recorded)
  /\ op = "arbitrateDispute" => pc \in {"lookup", "arbitrate"}
  /\ op = "confirmReceipt" =>
       /\ pc \in {"inspect", "save"} => counted.completed > 0
       /\ pc = "save" => row.release \/ clone \in Done
  /\ op = "syncEscrowRelease" /\ pc = "save" => clone = "released"

\* What a request is going to announce.
Announces(call) ==
  /\ EventOf(call) \in EventTypes /\ Meaning[EventOf(call)] \in reached
  /\ EventOf(call) = "deal.completed" => clone \in Done

CallOK(call) ==
  call \in Calls =>
    /\ call.read.status \in reached
    /\ call.read.release => "COMPLETED" \in reached
    /\ Releasing(call.read)
    /\ call.pc = "enqueue" => Announces(call)
    /\ call.pc # "enqueue" =>
         Changes(call.op, call.read, call.row) /\ Progress(call.pc, call.op, call.row)

Inv == TypeOK /\ RowOK /\ EventsOK /\ \A c \in Callers : CallOK(calls[c])

-----------------------------------------------------------------------------
(* What every step preserves of the other requests                         *)

\* Statuses are reached, disputes opened and statistics counted for good; the clone is funded
\* and settled once.
Onward ==
  /\ reached \subseteq reached' /\ (forced => forced')
  /\ Recorded => Recorded'
  /\ counted.completed > 0 => counted'.completed > 0
  /\ clone # "awaiting_funding" => clone' # "awaiting_funding"
  /\ clone = "funded" => clone' \in Done \union {"funded"}
  /\ clone \in Done => clone' = clone

LEMMA Busy ==
  ASSUME TypeOK, NEW c \in Callers, calls[c].pc \notin {"idle", "invite"}
  PROVE  calls[c] \in Calls
  BY DEF TypeOK, NoCall, Inviting

LEMMA Resting == NoCall \notin Calls /\ Inviting \notin Calls
  BY DEF NoCall, Inviting, Calls

LEMMA CallKept ==
  ASSUME NEW c \in Callers, CallOK(calls[c]), Onward, calls'[c] = calls[c]
  PROVE  CallOK(calls[c])'
<1> SUFFICES ASSUME calls[c] \in Calls PROVE CallOK(calls[c])'
  BY DEF CallOK
<1>1. /\ calls[c].read.status \in reached' /\ (calls[c].read.release => "COMPLETED" \in reached')
      /\ Releasing(calls[c].read)'
  BY DEF CallOK, Onward, Releasing
<1>2. CASE calls[c].pc = "enqueue"
  BY <1>1, <1>2 DEF CallOK, Announces, Onward, Done
<1>3. CASE calls[c].pc # "enqueue"
  <2> DEFINE call == calls[c]
  <2>1. Changes(call.op, call.read, call.row) /\ Progress(call.pc, call.op, call.row)
    BY <1>3 DEF CallOK
  <2>2. Progress(call.pc, call.op, call.row)'
    BY <2>1 DEF Progress, Onward, Done
  <2> QED
    BY <1>1, <1>3, <2>1, <2>2 DEF CallOK
<1> QED
  BY <1>2, <1>3

\* What has to be shown of a request that goes on to another place.
LEMMA CallGoes ==
  ASSUME Inv, NEW c \in Callers, calls[c] \in Calls, calls[c].pc # "enqueue",
         calls'[c] \in Calls, calls'[c].pc # "enqueue", calls'[c].op = calls[c].op,
         calls'[c].read = calls[c].read, calls'[c].row = calls[c].row, UNCHANGED <<reached, forced, clone>>,
         Progress(calls[c].pc, calls[c].op, calls[c].row) =>
           Progress(calls[c].pc, calls[c].op, calls[c].row)'
  PROVE  CallOK(calls[c])'
<1>1. /\ Changes(calls[c].op, calls[c].read, calls[c].row)
      /\ Progress(calls[c].pc, calls[c].op, calls[c].row)
      /\ calls[c].read.status \in reached
      /\ calls[c].read.release => "COMPLETED" \in reached
      /\ Releasing(calls[c].read)
  BY DEF Inv, CallOK
<1>2. Changes(calls[c].op, calls[c].read, calls[c].row)'
  BY <1>1 DEF Changes
<1>3. Releasing(calls[c].read)'
  BY <1>1 DEF Releasing
<1> QED
  BY <1>1, <1>2, <1>3 DEF CallOK

LEMMA StepKeepsInv ==
  ASSUME Inv, NEW c \in Callers, TypeOK', RowOK', EventsOK', Onward,
         \A d \in Callers \ {c} : calls'[d] = calls[d], CallOK(calls[c])'
  PROVE  Inv'
<1>1. ASSUME NEW d \in Callers PROVE CallOK(calls[d])'
  <2>1. CASE d = c
    BY <2>1
  <2>2. CASE d # c
    BY <2>2, CallKept DEF Inv
  <2> QED
    BY <2>1, <2>2
<1> QED
  BY <1>1 DEF Inv

\* What has to be shown when no request moves.
LEMMA WorldKeepsInv ==
  ASSUME Inv, TypeOK', RowOK', EventsOK', Onward, calls' = calls
  PROVE  Inv'
<1>1. ASSUME NEW d \in Callers PROVE CallOK(calls[d])'
  BY CallKept DEF Inv
<1> QED
  BY <1>1 DEF Inv

\* One request moves on or ends.
LEMMA CallMoves ==
  ASSUME TypeOK, NEW c \in Callers, NEW call \in Calls \union {NoCall, Inviting},
         calls' = [calls EXCEPT ![c] = call]
  PROVE  /\ calls' \in [Callers -> Calls \union {NoCall, Inviting}]
         /\ calls'[c] = call /\ \A d \in Callers \ {c} : calls'[d] = calls[d]
  BY DEF TypeOK

\* A request that goes on to another place.
LEMMA PlaceMoves ==
  ASSUME TypeOK, NEW c \in Callers, calls[c] \in Calls,
         NEW pc \in {"lookup", "insert", "arbitrate", "count", "inspect", "save", "enqueue"}, Goes(c, pc)
  PROVE  /\ calls' \in [Callers -> Calls \union {NoCall, Inviting}]
         /\ \A d \in Callers \ {c} : calls'[d] = calls[d]
         /\ calls'[c] \in Calls /\ calls'[c].pc = pc /\ calls'[c].op = calls[c].op
         /\ calls'[c].read = calls[c].read /\ calls'[c].row = calls[c].row
<1> DEFINE call == [calls[c] EXCEPT !.pc = pc]
<1>1. /\ call \in Calls /\ call.pc = pc /\ call.op = calls[c].op
      /\ call.read = calls[c].read /\ call.row = calls[c].row
  BY DEF Calls
<1>2. calls' = [calls EXCEPT ![c] = call]
  BY DEF Goes
<1> HIDE DEF call
<1> QED
  BY <1>1, <1>2, CallMoves

\* A request that ends asks nothing of the state.
LEMMA CallEnds ==
  ASSUME TypeOK, NEW c \in Callers, Ends(c)
  PROVE  /\ calls' \in [Callers -> Calls \union {NoCall, Inviting}]
         /\ \A d \in Callers \ {c} : calls'[d] = calls[d]
         /\ CallOK(calls[c])'
<1>1. calls' = [calls EXCEPT ![c] = NoCall]
  BY DEF Ends
<1>2. calls'[c] = NoCall
  BY <1>1, CallMoves
<1> QED
  BY <1>1, <1>2, CallMoves, Resting DEF CallOK

\* What depends on nothing but the row, the clone and the history.
LEMMA RowKept ==
  ASSUME Inv, UNCHANGED <<deal, reached, forced, published, clone>>,
         Recorded => Recorded',
         counted.completed > 0 => counted'.completed > 0
  PROVE  RowOK' /\ EventsOK' /\ Onward
<1>1. RowOK'
  BY DEF Inv, RowOK, Releasing
<1>2. EventsOK'
  BY DEF Inv, EventsOK
<1>3. Onward
  BY DEF Onward
<1> QED
  BY <1>1, <1>2, <1>3

-----------------------------------------------------------------------------
(* The state at the beginning                                              *)

LEMMA StatusesAre ==
  /\ {"DRAFT", "PENDING_ACCEPTANCE", "PENDING_PAYMENT", "IN_PROGRESS", "PENDING_CONFIRMATION",
      "COMPLETED", "CANCELLED", "DISPUTED", "DISPUTE_RESOLVED"} \subseteq DealStatuses
  /\ \A op \in Operations : Target[op] \in DealStatuses \union {None}
  /\ None \notin DealStatuses
  BY DEF DealStatuses, Operations, Target, None

LEMMA InvStart == Init => Inv
<1> SUFFICES ASSUME Init PROVE Inv
  OBVIOUS
<1>1. /\ deal \in DealRows /\ deal.status \in {"DRAFT", "PENDING_ACCEPTANCE"} /\ ~deal.release
      /\ deal.seller # NoOne => deal.status = "PENDING_ACCEPTANCE"
  <2>1. \/ deal = [status |-> "DRAFT", seller |-> NoOne, funded |-> FALSE, release |-> FALSE]
        \/ \E s \in Sellers :
             deal = [status |-> "PENDING_ACCEPTANCE", seller |-> s, funded |-> FALSE, release |-> FALSE]
    BY DEF Init
  <2>2. {"DRAFT", "PENDING_ACCEPTANCE"} \subseteq DealStatuses
    BY DEF DealStatuses
  <2>3. CASE deal = [status |-> "DRAFT", seller |-> NoOne, funded |-> FALSE, release |-> FALSE]
    BY <2>2, <2>3 DEF DealRows
  <2>4. CASE \E s \in Sellers :
             deal = [status |-> "PENDING_ACCEPTANCE", seller |-> s, funded |-> FALSE, release |-> FALSE]
    BY <2>2, <2>4 DEF DealRows
  <2> QED
    BY <2>1, <2>3, <2>4
<1>2. ASSUME NEW c \in Callers
      PROVE  /\ calls[c] \in Calls \union {NoCall, Inviting}
             /\ calls[c] \in Calls => calls[c] = [pc |-> "save", op |-> "create", read |-> deal, row |-> deal]
  <2>1. \/ calls[c] = NoCall
        \/ calls[c] = [pc |-> "save", op |-> "create", read |-> deal, row |-> deal]
    BY DEF Init
  <2> QED
    BY <1>1, <2>1, Resting DEF Calls
<1>3. calls \in [Callers -> Calls \union {NoCall, Inviting}]
  <2>1. PICK creating : calls = [c \in Callers |->
            IF c \in creating THEN [pc |-> "save", op |-> "create", read |-> deal, row |-> deal] ELSE NoCall]
    BY DEF Init
  <2> QED
    BY <1>2, <2>1
<1>4. published \subseteq EventTypes /\ reached = {deal.status} /\ forced = FALSE
  BY DEF Init, EventTypes
<1>5. TypeOK
  <2>1. clone \in CloneStatuses /\ disputes \in [open : Nat, closed : Nat] /\ begun \in 0..MaxCalls /\ mishaps \in 0..MaxMishaps
    BY DealAssumption DEF Init, CloneStatuses
  <2>2. counted \in [{"completed", "disputed"} -> Nat]
    BY DEF Init
  <2>3. invites \in [Invites -> {"NONE", "PENDING", "ACCEPTED", "CANCELLED", "EXPIRED"}]
    BY DEF Init
  <2>4. reached \subseteq DealStatuses /\ forced \in BOOLEAN
    BY <1>1, <1>4 DEF DealRows
  <2> QED
    BY <1>1, <1>3, <1>4, <2>1, <2>2, <2>3, <2>4 DEF TypeOK
<1>6. RowOK
  BY <1>1, <1>4 DEF RowOK, Releasing
<1>7. EventsOK
  <2>1. CASE deal.seller = NoOne
    BY <2>1 DEF Init, EventsOK
  <2>2. CASE deal.seller # NoOne
    <3>1. published = {"deal.created"} /\ "PENDING_ACCEPTANCE" \in reached
      BY <1>1, <1>4, <2>2 DEF Init
    <3>2. Meaning["deal.created"] = "PENDING_ACCEPTANCE"
      BY DEF Meaning, EventTypes
    <3> QED
      BY <3>1, <3>2 DEF EventsOK
  <2> QED
    BY <2>1, <2>2
<1>8. ASSUME NEW c \in Callers PROVE CallOK(calls[c])
  <2> SUFFICES ASSUME calls[c] \in Calls PROVE CallOK(calls[c])
    BY DEF CallOK
  <2>1. /\ calls[c].pc = "save" /\ calls[c].op = "create"
        /\ calls[c].read = deal /\ calls[c].row = deal
    BY <1>2
  <2>2. deal.status = "PENDING_ACCEPTANCE"
    <3>1. calls[c] # NoCall
      BY Resting
    <3>2. deal.seller # NoOne
      <4>1. SUFFICES ASSUME deal.seller = NoOne PROVE FALSE
        OBVIOUS
      <4>2. PICK creating \in {{}} \union {{d} : d \in {e \in Callers : deal.seller # NoOne}} :
              calls = [d \in Callers |->
                   IF d \in creating THEN [pc |-> "save", op |-> "create", read |-> deal, row |-> deal] ELSE NoCall]
        BY DEF Init
      <4> QED
        BY <3>1, <4>1, <4>2
    <3> QED
      BY <1>1, <3>2
  <2> QED
    BY <1>1, <1>4, <2>1, <2>2 DEF CallOK, Changes, Progress, Operations, DealRows, Releasing
<1> QED
  BY <1>5, <1>6, <1>7, <1>8 DEF Inv

-----------------------------------------------------------------------------
(* One step for each action                                                *)

\* A request that reads the row and has work to do.
LEMMA BeginStep ==
  ASSUME Inv, NEW c \in Callers, NEW op \in Operations, Begin(c, op)
  PROVE  Inv'
<1> DEFINE call == [pc |-> FirstStep(op), op |-> op, read |-> deal, row |-> After(op, deal)]
<1>1. /\ TypeOK /\ RowOK /\ deal \in DealRows /\ Permits(op, deal)
      /\ op = "confirmPayment" => clone # "awaiting_funding"
      /\ calls' = [calls EXCEPT ![c] = call] /\ begun < MaxCalls /\ begun' = begun + 1
      /\ UNCHANGED <<deal, invites, clone, disputes, counted, reached, forced, mishaps, published>>
  BY DEF Inv, TypeOK, Begin, Counts
<1>2. /\ After(op, deal).status = IF Target[op] = None THEN deal.status ELSE Target[op]
      /\ After(op, deal).seller = deal.seller
      /\ After(op, deal).funded = (deal.funded \/ op = "confirmPayment")
      /\ After(op, deal).release => deal.release
      /\ deal.release => After(op, deal).release \/ op = "syncEscrowRelease"
      /\ After(op, deal) \in DealRows
  <2>1. (IF Target[op] = None THEN deal.status ELSE Target[op]) \in DealStatuses
    BY <1>1, StatusesAre DEF DealRows
  <2> QED
    BY <1>1, <2>1 DEF After, DealRows
<1>3. /\ FirstStep(op) \in {"lookup", "count", "inspect", "save"}
      /\ FirstStep(op) = "lookup" => op \in {"openDispute", "arbitrateDispute"}
      /\ FirstStep(op) = "count" => op = "confirmReceipt"
      /\ FirstStep(op) = "inspect" => op = "syncEscrowRelease"
      /\ FirstStep(op) = "save" => op \notin {"openDispute", "arbitrateDispute", "confirmReceipt", "syncEscrowRelease"}
  BY DEF FirstStep, Operations
<1>4. call \in Calls
  BY <1>1, <1>2, <1>3 DEF Calls
<1>5. /\ calls' \in [Callers -> Calls \union {NoCall, Inviting}]
      /\ calls'[c] = call /\ \A d \in Callers \ {c} : calls'[d] = calls[d]
  BY <1>1, <1>4, CallMoves
<1>6. TypeOK'
  BY <1>1, <1>5, DealAssumption DEF TypeOK
<1>7. RowOK' /\ EventsOK' /\ Onward
  BY <1>1, RowKept DEF Recorded
<1>8. CallOK(calls[c])'
  <2>1. /\ call.pc = FirstStep(op) /\ call.op = op /\ call.read = deal /\ call.row = After(op, deal)
    OBVIOUS
  <2> HIDE DEF call
  <2>2. op # "create"
    BY DEF Operations
  <2>3. Changes(op, deal, After(op, deal))
    BY <1>1, <1>2, <2>1, <2>2 DEF Changes
  <2>4. Progress(FirstStep(op), op, After(op, deal))'
    BY <1>1, <1>3 DEF Progress
  <2>5. deal.status \in reached' /\ (deal.release => "COMPLETED" \in reached') /\ Releasing(deal)'
    BY <1>1 DEF RowOK, Releasing
  <2>6. call.pc # "enqueue"
    BY <1>3, <2>1
  <2> QED
    BY <1>1, <1>5, <2>1, <2>3, <2>4, <2>5, <2>6 DEF CallOK
<1> QED
  BY <1>5, <1>6, <1>7, <1>8, StepKeepsInv

LEMMA LookUpDisputeStep ==
  ASSUME Inv, NEW c \in Callers, LookUpDispute(c)
  PROVE  Inv'
<1>1. /\ TypeOK /\ CallOK(calls[c]) /\ calls[c].pc = "lookup"
      /\ UNCHANGED <<deal, invites, clone, disputes, counted, reached, forced, begun, mishaps, published>>
  BY DEF Inv, LookUpDispute
<1>2. calls[c] \in Calls
  BY <1>1, Busy
<1>3. Recorded' <=> Recorded
  BY <1>1 DEF Recorded
<1>4. RowOK' /\ EventsOK' /\ Onward
  BY <1>1, <1>3, RowKept
<1>5. calls[c].op \in {"openDispute", "arbitrateDispute"}
  BY <1>1, <1>2 DEF CallOK, Progress
<1>6. CASE Ends(c)
  <2>1. /\ calls' \in [Callers -> Calls \union {NoCall, Inviting}]
        /\ \A d \in Callers \ {c} : calls'[d] = calls[d]
        /\ CallOK(calls[c])'
    BY <1>1, <1>6, CallEnds
  <2>2. TypeOK'
    BY <1>1, <2>1 DEF TypeOK
  <2> QED
    BY <1>4, <2>1, <2>2, StepKeepsInv
<1>7. ASSUME NEW pc \in {"count", "insert", "arbitrate"}, Goes(c, pc),
             pc = "count" => Recorded /\ calls[c].op = "openDispute",
             pc = "insert" => calls[c].op = "openDispute",
             pc = "arbitrate" => calls[c].op = "arbitrateDispute"
      PROVE  Inv'
  <2>1. /\ calls' \in [Callers -> Calls \union {NoCall, Inviting}]
        /\ \A d \in Callers \ {c} : calls'[d] = calls[d]
        /\ calls'[c] \in Calls /\ calls'[c].pc = pc /\ calls'[c].op = calls[c].op
        /\ calls'[c].read = calls[c].read /\ calls'[c].row = calls[c].row
    BY <1>1, <1>2, <1>7, PlaceMoves
  <2>2. TypeOK'
    BY <1>1, <2>1 DEF TypeOK
  <2>3. Progress(calls[c].pc, calls[c].op, calls[c].row)'
    BY <1>1, <1>3, <1>5, <1>7, <2>1 DEF Progress
  <2>4. CallOK(calls[c])'
    BY <1>1, <1>2, <1>7, <2>1, <2>3, CallGoes
  <2> QED
    BY <1>4, <2>1, <2>2, <2>4, StepKeepsInv
<1>8. CASE disputes.open > 0 /\ IF calls[c].op = "openDispute" THEN Goes(c, "count") ELSE Ends(c)
  <2>1. Recorded
    BY <1>1, <1>8 DEF Recorded, TypeOK
  <2> QED
    BY <1>6, <1>7, <1>8, <2>1
<1>9. CASE Goes(c, IF calls[c].op = "openDispute" THEN "insert" ELSE "arbitrate")
  <2>1. CASE calls[c].op = "openDispute"
    <3>1. Goes(c, "insert")
      BY <1>9, <2>1
    <3> QED
      BY <1>7, <2>1, <3>1
  <2>2. CASE calls[c].op = "arbitrateDispute"
    <3>1. Goes(c, "arbitrate")
      BY <1>9, <2>2
    <3> QED
      BY <1>7, <2>2, <3>1
  <2> QED
    BY <1>5, <2>1, <2>2
<1> QED
  BY <1>8, <1>9 DEF LookUpDispute

\* One dispute more, which is open, or one that is closed.
LEMMA DisputesMove ==
  ASSUME TypeOK,
         \/ disputes' = [disputes EXCEPT !.open = @ + 1]
         \/ /\ disputes.open > 0
            /\ disputes' = [open |-> disputes.open - 1, closed |-> disputes.closed + 1]
  PROVE  disputes' \in [open : Nat, closed : Nat] /\ Recorded'
<1>1. disputes \in [open : Nat, closed : Nat]
  BY DEF TypeOK
<1>2. CASE disputes' = [disputes EXCEPT !.open = @ + 1]
  <2>1. disputes'.open = disputes.open + 1 /\ disputes'.closed = disputes.closed
    BY <1>1, <1>2
  <2>2. disputes' \in [open : Nat, closed : Nat]
    BY <1>1, <1>2
  <2> QED
    BY <1>1, <2>1, <2>2 DEF Recorded
<1>3. CASE disputes.open > 0 /\ disputes' = [open |-> disputes.open - 1, closed |-> disputes.closed + 1]
  <2>1. disputes'.open = disputes.open - 1 /\ disputes'.closed = disputes.closed + 1
    BY <1>3
  <2>2. disputes' \in [open : Nat, closed : Nat]
    BY <1>1, <1>3
  <2> QED
    BY <1>1, <1>3, <2>1, <2>2 DEF Recorded
<1> QED
  BY <1>2, <1>3

LEMMA InsertDisputeStep ==
  ASSUME Inv, NEW c \in Callers, InsertDispute(c)
  PROVE  Inv'
<1>1. /\ TypeOK /\ CallOK(calls[c]) /\ calls[c].pc = "insert" /\ Goes(c, "count")
      /\ disputes' = [disputes EXCEPT !.open = @ + 1]
      /\ UNCHANGED <<deal, invites, clone, counted, reached, forced, begun, mishaps, published>>
  BY DEF Inv, InsertDispute
<1>2. calls[c] \in Calls
  BY <1>1, Busy
<1>3. disputes' \in [open : Nat, closed : Nat] /\ Recorded'
  BY <1>1, DisputesMove
<1>4. /\ calls' \in [Callers -> Calls \union {NoCall, Inviting}]
      /\ \A d \in Callers \ {c} : calls'[d] = calls[d]
      /\ calls'[c] \in Calls /\ calls'[c].pc = "count" /\ calls'[c].op = calls[c].op
      /\ calls'[c].read = calls[c].read /\ calls'[c].row = calls[c].row
  BY <1>1, <1>2, PlaceMoves
<1>5. TypeOK'
  BY <1>1, <1>3, <1>4 DEF TypeOK
<1>6. RowOK' /\ EventsOK' /\ Onward
  BY <1>1, <1>3, RowKept
<1>7. Progress(calls[c].pc, calls[c].op, calls[c].row)'
  BY <1>1, <1>2, <1>3, <1>4 DEF Progress, CallOK
<1>8. CallOK(calls[c])'
  BY <1>1, <1>2, <1>4, <1>7, CallGoes
<1> QED
  BY <1>4, <1>5, <1>6, <1>8, StepKeepsInv

\* The arbitration module opens a dispute: its row, the deal and the event together.
LEMMA ArbitrateStep ==
  ASSUME Inv, NEW c \in Callers, Arbitrate(c)
  PROVE  Inv'
<1> DEFINE row == calls[c].row
           event == EventOf(calls[c])
<1>1. /\ TypeOK /\ RowOK /\ EventsOK /\ CallOK(calls[c]) /\ calls[c].pc = "arbitrate" /\ Ends(c)
      /\ disputes' = [disputes EXCEPT !.open = @ + 1]
      /\ deal' = row /\ reached' = reached \union {row.status}
      /\ published' = published \union {event}
      /\ UNCHANGED <<invites, clone, counted, forced, begun, mishaps>>
  BY DEF Inv, Arbitrate
<1>2. calls[c] \in Calls /\ row \in DealRows
  <2>1. calls[c] \in Calls
    BY <1>1, Busy
  <2> QED
    BY <2>1 DEF Calls
<1>3. /\ calls[c].op = "arbitrateDispute" /\ Changes(calls[c].op, calls[c].read, row)
      /\ calls[c].read.status \in reached
      /\ calls[c].read.release => "COMPLETED" \in reached
  BY <1>1, <1>2 DEF CallOK, Progress
<1>4. /\ row.status = "DISPUTED"
      /\ row.release => "COMPLETED" \in reached
      /\ calls[c].read.status \in {"IN_PROGRESS", "PENDING_CONFIRMATION"}
  BY <1>3 DEF Changes, Permits, CanBeDisputed, Target, Operations, None
<1>5. event = "dispute.opened" /\ "dispute.opened" \in EventTypes
      /\ Meaning["dispute.opened"] = "DISPUTED"
  BY <1>3 DEF EventOf, Meaning, EventTypes
<1> HIDE DEF row, event
<1>6. disputes' \in [open : Nat, closed : Nat] /\ Recorded'
  BY <1>1, DisputesMove
<1>7. /\ calls' \in [Callers -> Calls \union {NoCall, Inviting}]
      /\ \A d \in Callers \ {c} : calls'[d] = calls[d]
      /\ CallOK(calls[c])'
  BY <1>1, CallEnds
<1>8. reached' \subseteq DealStatuses /\ published' \subseteq EventTypes
  BY <1>1, <1>4, <1>5, StatusesAre DEF TypeOK
<1>9. TypeOK'
  BY <1>1, <1>2, <1>6, <1>7, <1>8 DEF TypeOK
<1>10. clone # "awaiting_funding"
  BY <1>1, <1>3, <1>4 DEF RowOK
<1>11. RowOK'
  BY <1>1, <1>4, <1>6, <1>10 DEF RowOK, Releasing
<1>12. EventsOK'
  BY <1>1, <1>4, <1>5 DEF EventsOK
<1>13. Onward
  BY <1>1, <1>6 DEF Onward
<1> QED
  BY <1>7, <1>9, <1>11, <1>12, <1>13, StepKeepsInv

LEMMA CloseDisputeStep ==
  ASSUME Inv, CloseDispute
  PROVE  Inv'
<1>1. /\ TypeOK /\ disputes.open > 0
      /\ disputes' = [open |-> disputes.open - 1, closed |-> disputes.closed + 1]
      /\ UNCHANGED <<deal, invites, clone, counted, reached, forced, calls, begun, mishaps, published>>
  BY DEF Inv, CloseDispute
<1>2. disputes' \in [open : Nat, closed : Nat] /\ Recorded'
  BY <1>1, DisputesMove
<1>3. TypeOK'
  BY <1>1, <1>2 DEF TypeOK
<1>4. RowOK' /\ EventsOK' /\ Onward
  BY <1>1, <1>2, RowKept
<1> QED
  BY <1>1, <1>3, <1>4, WorldKeepsInv

LEMMA CountStep ==
  ASSUME Inv, NEW c \in Callers, Count(c)
  PROVE  Inv'
<1> DEFINE which == IF calls[c].op = "openDispute" THEN "disputed" ELSE "completed"
           pc == IF calls[c].op = "openDispute" THEN "save" ELSE "inspect"
<1>1. /\ TypeOK /\ CallOK(calls[c]) /\ calls[c].pc = "count" /\ Goes(c, pc)
      /\ counted' = [counted EXCEPT ![which] = @ + 1]
      /\ counted \in [{"completed", "disputed"} -> Nat]
      /\ UNCHANGED <<deal, invites, clone, disputes, reached, forced, begun, mishaps, published>>
  BY DEF Inv, Count, TypeOK
<1>2. calls[c] \in Calls
  BY <1>1, Busy
<1>3. /\ calls' \in [Callers -> Calls \union {NoCall, Inviting}]
      /\ \A d \in Callers \ {c} : calls'[d] = calls[d]
      /\ calls'[c] \in Calls /\ calls'[c].pc = pc /\ calls'[c].op = calls[c].op
      /\ calls'[c].read = calls[c].read /\ calls'[c].row = calls[c].row
  BY <1>1, <1>2, PlaceMoves
<1>4. /\ counted' \in [{"completed", "disputed"} -> Nat] /\ counted'[which] > 0
      /\ counted.completed > 0 => counted'.completed > 0
  BY <1>1
<1>5. TypeOK'
  BY <1>1, <1>3, <1>4 DEF TypeOK
<1>6. RowOK' /\ EventsOK' /\ Onward
  BY <1>1, <1>4, RowKept DEF Recorded
<1>7. CallOK(calls[c])'
  BY <1>1, <1>2, <1>3, <1>4, CallGoes DEF Progress, Recorded
<1> QED
  BY <1>3, <1>5, <1>6, <1>7, StepKeepsInv

\* The rows that the operations save, by what they have read.
LEMMA SavedRows ==
  ASSUME NEW op, NEW read, NEW row, Changes(op, read, row)
  PROVE  /\ row.status \in {"IN_PROGRESS", "PENDING_CONFIRMATION", "DISPUTED"} =>
              \/ row.status = read.status \/ op = "confirmPayment"
              \/ read.status \in {"IN_PROGRESS", "PENDING_CONFIRMATION", "DISPUTED"}
         /\ row.status = "DISPUTED" => row.status = read.status \/ op \in {"openDispute", "arbitrateDispute"}
         /\ row.status = "COMPLETED" =>
              \/ op \in {"confirmReceipt", "forceComplete"}
              \/ op = "syncEscrowRelease" /\ row.status = read.status
              \/ op = "lockFundingFx" /\ row.status = read.status /\ (read.release => row.release)
         /\ op = "confirmReceipt" => row.status = "COMPLETED" /\ read.status = "PENDING_CONFIRMATION"
         /\ op = "syncEscrowRelease" => read.release
         /\ row.release => read.release \/ (op = "confirmReceipt" /\ row.status = "COMPLETED")
  BY DEF Changes, Permits, Target, Operations, CanBeCancelled, CanBeConfirmed, CanBeDisputed, None

LEMMA InspectStep ==
  ASSUME Inv, NEW c \in Callers, Inspect(c)
  PROVE  Inv'
<1>1. /\ TypeOK /\ RowOK /\ CallOK(calls[c]) /\ calls[c].pc = "inspect"
      /\ UNCHANGED <<deal, invites, clone, disputes, counted, reached, forced, begun, mishaps, published>>
  BY DEF Inv, Inspect
<1>2. calls[c] \in Calls
  BY <1>1, Busy
<1>3. RowOK' /\ EventsOK' /\ Onward
  BY <1>1, RowKept DEF Recorded
<1>4. /\ Changes(calls[c].op, calls[c].read, calls[c].row)
      /\ Progress(calls[c].pc, calls[c].op, calls[c].row)
      /\ calls[c].read.status \in reached
      /\ calls[c].read.release => "COMPLETED" \in reached
      /\ Releasing(calls[c].read)
  BY <1>1, <1>2 DEF CallOK
<1>5. CASE calls[c].op = "confirmReceipt"
  <2> DEFINE row == [calls[c].row EXCEPT !.release = @ \/ clone = "funded"]
             call == [calls[c] EXCEPT !.pc = "save", !.row = row]
  <2>1. /\ row \in DealRows /\ row.status = calls[c].row.status /\ row.seller = calls[c].row.seller
        /\ row.funded = calls[c].row.funded
        /\ row.release = (calls[c].row.release \/ clone = "funded")
    BY <1>2 DEF Calls, DealRows
  <2>2. /\ call \in Calls /\ call.pc = "save" /\ call.op = "confirmReceipt"
        /\ call.read = calls[c].read /\ call.row = row
    BY <1>2, <1>5, <2>1 DEF Calls
  <2>3. calls' = [calls EXCEPT ![c] = call]
    BY <1>1, <1>2, <1>5 DEF Inspect, Calls, TypeOK
  <2> HIDE DEF row, call
  <2>4. /\ calls' \in [Callers -> Calls \union {NoCall, Inviting}]
        /\ calls'[c] = call /\ \A d \in Callers \ {c} : calls'[d] = calls[d]
    BY <1>1, <2>2, <2>3, CallMoves
  <2>5. TypeOK'
    BY <1>1, <2>4 DEF TypeOK
  <2>6. Changes("confirmReceipt", calls[c].read, row)
    BY <1>4, <1>5, <2>1 DEF Changes
  <2>7. row.release \/ clone \in Done
    <3>1. calls[c].read.status = "PENDING_CONFIRMATION"
      BY <1>4, <1>5, SavedRows
    <3>2. clone # "awaiting_funding"
      BY <1>1, <1>4, <3>1 DEF RowOK
    <3> QED
      BY <1>1, <2>1, <3>2 DEF TypeOK, CloneStatuses, Done
  <2>8. counted.completed > 0
    BY <1>1, <1>4, <1>5 DEF Progress
  <2>9. /\ calls'[c] \in Calls /\ calls'[c].pc = "save" /\ calls'[c].op = "confirmReceipt"
        /\ calls'[c].read = calls[c].read /\ calls'[c].row = row
    BY <2>2, <2>4
  <2>10. CallOK(calls[c])'
    <3>1. Progress(calls[c].pc, calls[c].op, calls[c].row)'
      BY <1>1, <2>7, <2>8, <2>9 DEF Progress
    <3>2. Changes(calls[c].op, calls[c].read, calls[c].row)'
      BY <2>6, <2>9
    <3>3. calls'[c].read.status \in reached' /\ (calls'[c].read.release => "COMPLETED" \in reached')
      BY <1>1, <1>4, <2>9
    <3>4. Releasing(calls[c].read)'
      BY <1>1, <1>4, <2>9 DEF Releasing
    <3> QED
      BY <2>9, <3>1, <3>2, <3>3, <3>4 DEF CallOK
  <2> QED
    BY <1>3, <2>4, <2>5, <2>10, StepKeepsInv
<1>6. CASE calls[c].op # "confirmReceipt" /\ clone = "released"
  <2>1. Goes(c, "save")
    BY <1>6 DEF Inspect
  <2>2. /\ calls' \in [Callers -> Calls \union {NoCall, Inviting}]
        /\ \A d \in Callers \ {c} : calls'[d] = calls[d]
        /\ calls'[c] \in Calls /\ calls'[c].pc = "save" /\ calls'[c].op = calls[c].op
        /\ calls'[c].read = calls[c].read /\ calls'[c].row = calls[c].row
    BY <1>1, <1>2, <2>1, PlaceMoves
  <2>3. TypeOK'
    BY <1>1, <2>2 DEF TypeOK
  <2>4. CallOK(calls[c])'
    BY <1>1, <1>2, <1>6, <2>2, CallGoes DEF Progress, Recorded
  <2> QED
    BY <1>3, <2>2, <2>3, <2>4, StepKeepsInv
<1>7. CASE calls[c].op # "confirmReceipt" /\ clone # "released"
  <2>1. Ends(c)
    BY <1>7 DEF Inspect
  <2>2. /\ calls' \in [Callers -> Calls \union {NoCall, Inviting}]
        /\ \A d \in Callers \ {c} : calls'[d] = calls[d]
        /\ CallOK(calls[c])'
    BY <1>1, <2>1, CallEnds
  <2>3. TypeOK'
    BY <1>1, <2>2 DEF TypeOK
  <2> QED
    BY <1>3, <2>2, <2>3, StepKeepsInv
<1> QED
  BY <1>5, <1>6, <1>7

\* What a request announces once it has saved its row has been reached by it.
LEMMA SavedEvents ==
  ASSUME NEW call \in Calls, Changes(call.op, call.read, call.row), EventOf(call) # None
  PROVE  /\ \/ Meaning[EventOf(call)] = "COMPLETED" /\ call.op = "syncEscrowRelease"
            \/ Meaning[EventOf(call)] = call.row.status
         /\ EventOf(call) = "deal.completed" =>
              call.op = "syncEscrowRelease" \/ (call.op = "confirmReceipt" /\ ~call.row.release)
<1>1. call.op \in Operations \union {"create"}
  BY DEF Changes
<1>2. /\ EventOf(call) \in EventTypes
      /\ call.op \in {"cancel", "confirmPayment", "markShipped", "confirmReceipt", "syncEscrowRelease",
                     "openDispute", "arbitrateDispute"}
  BY <1>1 DEF EventOf, Operations, CompletionEvent, EventTypes, None
<1>3. call.row.status = IF Target[call.op] = None THEN call.read.status ELSE Target[call.op]
  BY <1>2 DEF Changes
<1>4. CASE call.op = "cancel"
  <2>1. Target["cancel"] = "CANCELLED" /\ EventOf(call) = "deal.cancelled"
    BY <1>2, <1>4 DEF Target, Operations, EventOf, EventTypes, None
  <2> QED
    BY <1>3, <1>4, <2>1 DEF Meaning, EventTypes, None
<1>5. CASE call.op = "confirmPayment"
  <2>1. Target["confirmPayment"] = "IN_PROGRESS" /\ EventOf(call) = "deal.payment_received"
    BY <1>5 DEF Target, Operations, EventOf
  <2> QED
    BY <1>3, <1>5, <2>1 DEF Meaning, EventTypes, None
<1>6. CASE call.op = "markShipped"
  <2>1. Target["markShipped"] = "PENDING_CONFIRMATION" /\ EventOf(call) = "deal.confirmation_requested"
    BY <1>6 DEF Target, Operations, EventOf
  <2> QED
    BY <1>3, <1>6, <2>1 DEF Meaning, EventTypes, None
<1>7. CASE call.op = "confirmReceipt"
  <2>1. Target["confirmReceipt"] = "COMPLETED"
          /\ EventOf(call) = IF call.row.release THEN "deal.release_required" ELSE "deal.completed"
    BY <1>7 DEF Target, Operations, EventOf, CompletionEvent
  <2>2. Meaning["deal.release_required"] = "COMPLETED" /\ Meaning["deal.completed"] = "COMPLETED"
    BY DEF Meaning, EventTypes
  <2>3. call.row.status = "COMPLETED"
    BY <1>3, <1>7, <2>1 DEF None
  <2> QED
    BY <1>7, <2>1, <2>2, <2>3
<1>8. CASE call.op = "syncEscrowRelease"
  <2>1. EventOf(call) = "deal.completed"
    BY <1>8 DEF EventOf
  <2> QED
    BY <1>8, <2>1 DEF Meaning, EventTypes
<1>9. CASE call.op \in {"openDispute", "arbitrateDispute"}
  <2>1. Target[call.op] = "DISPUTED" /\ EventOf(call) = "dispute.opened"
    BY <1>9 DEF Target, Operations, EventOf
  <2> QED
    BY <1>3, <1>9, <2>1 DEF Meaning, EventTypes, None
<1> QED
  BY <1>2, <1>4, <1>5, <1>6, <1>7, <1>8, <1>9

LEMMA EventsAre ==
  ASSUME NEW call
  PROVE  EventOf(call) # None => EventOf(call) \in EventTypes
  BY DEF EventOf, CompletionEvent, EventTypes, None

LEMMA SaveStep ==
  ASSUME Inv, NEW c \in Callers, Save(c)
  PROVE  Inv'
<1> DEFINE op == calls[c].op
           read == calls[c].read
           row == calls[c].row
<1>1. /\ TypeOK /\ RowOK /\ EventsOK /\ CallOK(calls[c]) /\ calls[c].pc = "save"
      /\ deal' = row /\ reached' = reached \union {row.status}
      /\ forced' = (forced \/ op = "forceComplete")
      /\ UNCHANGED <<invites, clone, disputes, counted, begun, mishaps, published>>
  BY DEF Inv, Save
<1>2. calls[c] \in Calls /\ row \in DealRows
  <2>1. calls[c] \in Calls
    BY <1>1, Busy
  <2> QED
    BY <2>1 DEF Calls
<1>3. /\ Changes(op, read, row) /\ Progress("save", op, row)
      /\ read.status \in reached /\ (read.release => "COMPLETED" \in reached) /\ Releasing(read)
  BY <1>1, <1>2 DEF CallOK
<1>4. /\ row.status \in {"IN_PROGRESS", "PENDING_CONFIRMATION", "DISPUTED"} =>
           \/ row.status = read.status \/ op = "confirmPayment"
           \/ read.status \in {"IN_PROGRESS", "PENDING_CONFIRMATION", "DISPUTED"}
      /\ row.status = "DISPUTED" => row.status = read.status \/ op \in {"openDispute", "arbitrateDispute"}
      /\ row.status = "COMPLETED" =>
           \/ op \in {"confirmReceipt", "forceComplete"}
           \/ op = "syncEscrowRelease" /\ row.status = read.status
           \/ op = "lockFundingFx" /\ row.status = read.status /\ (read.release => row.release)
      /\ op = "confirmReceipt" => row.status = "COMPLETED" /\ read.status = "PENDING_CONFIRMATION"
      /\ op = "syncEscrowRelease" => read.release
      /\ row.release => read.release \/ (op = "confirmReceipt" /\ row.status = "COMPLETED")
  BY <1>3, SavedRows
<1>5. Onward /\ (Recorded' <=> Recorded)
  BY <1>1 DEF Onward, Recorded
<1>6. op \in {"confirmReceipt", "openDispute"} => clone # "awaiting_funding"
  <2>1. op = "openDispute" => read.status \in {"IN_PROGRESS", "PENDING_CONFIRMATION"}
    BY <1>3 DEF Changes, Permits, CanBeDisputed
  <2> QED
    BY <1>1, <1>3, <1>4, <2>1 DEF RowOK
<1>7. /\ op = "confirmPayment" => clone # "awaiting_funding"
      /\ op = "openDispute" => Recorded
      /\ op # "arbitrateDispute"
      /\ op = "confirmReceipt" => counted.completed > 0 /\ (row.release \/ clone \in Done)
      /\ op = "syncEscrowRelease" => clone = "released"
  BY <1>3 DEF Progress
<1> HIDE DEF op, read, row
<1>8. RowOK'
  <2>1. row.status \in reached' /\ (row.release => "COMPLETED" \in reached')
    BY <1>1, <1>3, <1>4
  <2>2. reached' \intersect {"IN_PROGRESS", "PENDING_CONFIRMATION", "DISPUTED"} # {} => clone # "awaiting_funding"
    BY <1>1, <1>3, <1>4, <1>7 DEF RowOK
  <2>3. "DISPUTED" \in reached' => Recorded'
    BY <1>1, <1>3, <1>4, <1>5, <1>7 DEF RowOK
  <2>4. "COMPLETED" \in reached' /\ ~forced' => counted.completed > 0
    BY <1>1, <1>3, <1>4, <1>7 DEF RowOK
  <2>5. row.status = "COMPLETED" /\ ~forced' => clone \in Done \/ (clone = "funded" /\ row.release)
    <3>1. clone \in CloneStatuses
      BY <1>1 DEF TypeOK
    <3>2. CASE op = "lockFundingFx"
      BY <1>1, <1>3, <1>4, <3>2 DEF Releasing
    <3>3. CASE op # "lockFundingFx"
      BY <1>1, <1>4, <1>6, <1>7, <3>1, <3>3 DEF CloneStatuses, Done
    <3> QED
      BY <3>2, <3>3
  <2>6. Releasing(deal)'
    BY <1>1, <2>5 DEF Releasing
  <2> QED
    BY <1>1, <2>1, <2>2, <2>3, <2>4, <2>6 DEF RowOK
<1>9. EventsOK'
  BY <1>1 DEF EventsOK
<1>10. row.status \in DealStatuses /\ reached' \subseteq DealStatuses /\ forced' \in BOOLEAN
  BY <1>1, <1>2 DEF TypeOK, DealRows
<1>11. CASE EventOf(calls[c]) = None
  <2>1. Ends(c)
    BY <1>11 DEF Save
  <2>2. /\ calls' \in [Callers -> Calls \union {NoCall, Inviting}]
        /\ \A d \in Callers \ {c} : calls'[d] = calls[d]
        /\ CallOK(calls[c])'
    BY <1>1, <2>1, CallEnds
  <2>3. TypeOK'
    BY <1>1, <1>2, <1>10, <2>2 DEF TypeOK
  <2> QED
    BY <1>5, <1>8, <1>9, <2>2, <2>3, StepKeepsInv
<1>12. CASE EventOf(calls[c]) # None
  <2>1. Goes(c, "enqueue")
    BY <1>12 DEF Save
  <2>2. /\ calls' \in [Callers -> Calls \union {NoCall, Inviting}]
        /\ \A d \in Callers \ {c} : calls'[d] = calls[d]
        /\ calls'[c] \in Calls /\ calls'[c].pc = "enqueue" /\ calls'[c].op = op
        /\ calls'[c].read = read /\ calls'[c].row = row
    BY <1>1, <1>2, <2>1, PlaceMoves DEF op, read, row
  <2>3. TypeOK'
    BY <1>1, <1>2, <1>10, <2>2 DEF TypeOK
  <2>4. EventOf(calls'[c]) = EventOf(calls[c])
    BY <2>2 DEF EventOf, op, row
  <2>5. /\ \/ Meaning[EventOf(calls[c])] = "COMPLETED" /\ op = "syncEscrowRelease"
           \/ Meaning[EventOf(calls[c])] = row.status
        /\ EventOf(calls[c]) = "deal.completed" =>
             op = "syncEscrowRelease" \/ (op = "confirmReceipt" /\ ~row.release)
    BY <1>2, <1>3, <1>12, SavedEvents DEF op, read, row
  <2>6. Meaning[EventOf(calls'[c])] \in reached'
    BY <1>1, <1>3, <1>4, <2>4, <2>5
  <2>7. EventOf(calls'[c]) = "deal.completed" => clone' \in Done
    BY <1>1, <1>7, <2>4, <2>5 DEF Done
  <2>8. /\ read.status \in reached' /\ (read.release => "COMPLETED" \in reached')
        /\ Releasing(calls[c].read)'
    BY <1>1, <1>3, <2>2 DEF Releasing
  <2>9. CallOK(calls[c])'
    BY <1>12, <2>2, <2>4, <2>6, <2>7, <2>8, EventsAre DEF CallOK, Announces
  <2> QED
    BY <1>5, <1>8, <1>9, <2>2, <2>3, <2>9, StepKeepsInv
<1> QED
  BY <1>11, <1>12

LEMMA PublishStep ==
  ASSUME Inv, NEW c \in Callers, Publish(c)
  PROVE  Inv'
<1> DEFINE event == EventOf(calls[c])
<1>1. /\ TypeOK /\ RowOK /\ EventsOK /\ CallOK(calls[c]) /\ calls[c].pc = "enqueue" /\ Ends(c)
      /\ published' = published \union {event}
      /\ UNCHANGED <<deal, invites, clone, disputes, counted, reached, forced, begun, mishaps>>
  BY DEF Inv, Publish
<1>2. calls[c] \in Calls
  BY <1>1, Busy
<1>3. event \in EventTypes /\ Meaning[event] \in reached /\ (event = "deal.completed" => clone \in Done)
  BY <1>1, <1>2 DEF CallOK, Announces
<1> HIDE DEF event
<1>4. /\ calls' \in [Callers -> Calls \union {NoCall, Inviting}]
      /\ \A d \in Callers \ {c} : calls'[d] = calls[d]
      /\ CallOK(calls[c])'
  BY <1>1, CallEnds
<1>5. TypeOK'
  BY <1>1, <1>3, <1>4 DEF TypeOK
<1>6. RowOK' /\ EventsOK' /\ Onward
  BY <1>1, <1>3 DEF RowOK, EventsOK, Onward, Releasing, Recorded
<1> QED
  BY <1>4, <1>5, <1>6, StepKeepsInv

\* A request that has nothing to save, and announces what the row says.
LEMMA RemindStep ==
  ASSUME Inv, NEW c \in Callers, NEW op \in {"expireUnpaidDeals", "autoConfirmStalePendingDeals"},
         Remind(c, op)
  PROVE  Inv'
<1> DEFINE call == [pc |-> "enqueue", op |-> op, read |-> deal, row |-> deal]
<1>1. /\ TypeOK /\ RowOK /\ deal \in DealRows /\ calls' = [calls EXCEPT ![c] = call]
      /\ begun < MaxCalls /\ begun' = begun + 1
      /\ \/ op = "expireUnpaidDeals" /\ deal.status = "PENDING_PAYMENT"
         \/ op = "autoConfirmStalePendingDeals" /\ deal.status = "PENDING_CONFIRMATION"
      /\ UNCHANGED <<deal, invites, clone, disputes, counted, reached, forced, mishaps, published>>
  BY DEF Inv, TypeOK, Remind, Counts
<1>2. call \in Calls /\ call.pc = "enqueue" /\ call.read = deal /\ call.op = op
  BY <1>1 DEF Calls
<1> HIDE DEF call
<1>3. /\ calls' \in [Callers -> Calls \union {NoCall, Inviting}]
      /\ calls'[c] = call /\ \A d \in Callers \ {c} : calls'[d] = calls[d]
  BY <1>1, <1>2, CallMoves
<1>4. TypeOK'
  BY <1>1, <1>3, DealAssumption DEF TypeOK
<1>5. RowOK' /\ EventsOK' /\ Onward
  BY <1>1, RowKept DEF Recorded
<1>6. /\ EventOf(call) \in EventTypes /\ EventOf(call) # "deal.completed"
      /\ Meaning[EventOf(call)] = deal.status
  <2>1. CASE op = "expireUnpaidDeals"
    <3>1. EventOf(call) = "deal.payment_expired"
      BY <1>2, <2>1 DEF EventOf
    <3> QED
      BY <1>1, <2>1, <3>1 DEF Meaning, EventTypes
  <2>2. CASE op = "autoConfirmStalePendingDeals"
    <3>1. EventOf(call) = "deal.auto_confirmed"
      BY <1>2, <2>2 DEF EventOf
    <3> QED
      BY <1>1, <2>2, <3>1 DEF Meaning, EventTypes
  <2> QED
    BY <2>1, <2>2
<1>7. deal.status \in reached /\ (deal.release => "COMPLETED" \in reached) /\ Releasing(deal)'
  BY <1>1 DEF RowOK, Releasing
<1>8. CallOK(calls[c])'
  BY <1>1, <1>2, <1>3, <1>6, <1>7 DEF CallOK, Announces, Releasing
<1> QED
  BY <1>3, <1>4, <1>5, <1>8, StepKeepsInv

LEMMA LookUpInviteStep ==
  ASSUME Inv, NEW c \in Callers, LookUpInvite(c)
  PROVE  Inv'
<1>1. /\ TypeOK /\ calls' = [calls EXCEPT ![c] = Inviting]
      /\ begun < MaxCalls /\ begun' = begun + 1
      /\ UNCHANGED <<deal, invites, clone, disputes, counted, reached, forced, mishaps, published>>
  BY DEF Inv, LookUpInvite, Counts, Inviting
<1>2. /\ calls' \in [Callers -> Calls \union {NoCall, Inviting}]
      /\ calls'[c] = Inviting /\ \A d \in Callers \ {c} : calls'[d] = calls[d]
  BY <1>1, CallMoves
<1>3. TypeOK'
  BY <1>1, <1>2, DealAssumption DEF TypeOK
<1>4. RowOK' /\ EventsOK' /\ Onward
  BY <1>1, RowKept DEF Recorded
<1>5. CallOK(calls[c])'
  BY <1>2, Resting DEF CallOK
<1> QED
  BY <1>2, <1>3, <1>4, <1>5, StepKeepsInv

LEMMA InsertInviteStep ==
  ASSUME Inv, NEW c \in Callers, NEW i \in Invites, InsertInvite(c, i)
  PROVE  Inv'
<1>1. /\ TypeOK /\ Ends(c) /\ invites' = [invites EXCEPT ![i] = "PENDING"]
      /\ UNCHANGED <<deal, clone, disputes, counted, reached, forced, begun, mishaps, published>>
  BY DEF Inv, InsertInvite
<1>2. /\ calls' \in [Callers -> Calls \union {NoCall, Inviting}]
      /\ \A d \in Callers \ {c} : calls'[d] = calls[d]
      /\ CallOK(calls[c])'
  BY <1>1, CallEnds
<1>3. TypeOK'
  BY <1>1, <1>2 DEF TypeOK
<1>4. RowOK' /\ EventsOK' /\ Onward
  BY <1>1, RowKept DEF Recorded
<1> QED
  BY <1>2, <1>3, <1>4, StepKeepsInv

\* The draft gets its seller, and waits for the payment.
LEMMA AcceptInviteStep ==
  ASSUME Inv, NEW c \in Callers, NEW i \in Invites, NEW seller \in Sellers, AcceptInvite(c, i, seller)
  PROVE  Inv'
<1> DEFINE call == [pc |-> "enqueue", op |-> "acceptInvite", read |-> deal, row |-> deal']
           States == {"NONE", "PENDING", "ACCEPTED", "CANCELLED", "EXPIRED"}
<1>1. /\ TypeOK /\ RowOK /\ EventsOK /\ deal \in DealRows /\ calls' = [calls EXCEPT ![c] = call]
      /\ invites \in [Invites -> States] /\ reached \subseteq DealStatuses
      /\ begun < MaxCalls /\ begun' = begun + 1
      /\ UNCHANGED <<clone, disputes, counted, forced, mishaps, published>>
  BY DEF Inv, TypeOK, AcceptInvite, Counts
<1>2. /\ deal' \in DealRows /\ invites' \in [Invites -> States]
      /\ reached' = reached \union {"PENDING_PAYMENT"}
      /\ deal'.status = "PENDING_PAYMENT" /\ deal'.release = deal.release
  <2>1. CASE Accepts(i, seller)
    <3>1. deal' = [deal EXCEPT !.seller = seller, !.status = "PENDING_PAYMENT"]
            /\ reached' = reached \union {"PENDING_PAYMENT"}
      BY <2>1 DEF Accepts
    <3>2. deal' \in DealRows /\ deal'.status = "PENDING_PAYMENT" /\ deal'.release = deal.release
      BY <1>1, <3>1, StatusesAre DEF DealRows
    <3>3. invites' \in [Invites -> States]
      BY <1>1, <2>1 DEF Accepts
    <3> QED
      BY <3>1, <3>2, <3>3
  <2>2. CASE deal.seller = seller /\ deal.status = "PENDING_PAYMENT" /\ UNCHANGED <<deal, reached, invites>>
    BY <1>1, <2>2 DEF RowOK
  <2> QED
    BY <2>1, <2>2 DEF AcceptInvite
<1>3. call \in Calls /\ call.pc = "enqueue" /\ call.read = deal /\ call.op = "acceptInvite"
  BY <1>1, <1>2 DEF Calls
<1> HIDE DEF call
<1>4. /\ calls' \in [Callers -> Calls \union {NoCall, Inviting}]
      /\ calls'[c] = call /\ \A d \in Callers \ {c} : calls'[d] = calls[d]
  BY <1>1, <1>3, CallMoves
<1>5. reached' \subseteq DealStatuses
  BY <1>1, <1>2, StatusesAre
<1>6. TypeOK'
  BY <1>1, <1>2, <1>4, <1>5, DealAssumption DEF TypeOK
<1>7. RowOK' /\ EventsOK' /\ Onward
  BY <1>1, <1>2 DEF RowOK, EventsOK, Onward, Releasing, Recorded
<1>8. /\ EventOf(call) = "invite.accepted" /\ "invite.accepted" \in EventTypes
      /\ Meaning["invite.accepted"] = "PENDING_PAYMENT"
  BY <1>3 DEF EventOf, Meaning, EventTypes
<1>9. deal.status \in reached' /\ (deal.release => "COMPLETED" \in reached')
  BY <1>1, <1>2 DEF RowOK
<1>10. Releasing(calls[c].read)'
  BY <1>1, <1>3, <1>4 DEF RowOK, Releasing
<1>11. CallOK(calls[c])'
  BY <1>2, <1>3, <1>4, <1>8, <1>9, <1>10 DEF CallOK, Announces
<1> QED
  BY <1>4, <1>6, <1>7, <1>11, StepKeepsInv

LEMMA ExpireInviteStep ==
  ASSUME Inv, NEW i \in Invites, ExpireInvite(i)
  PROVE  Inv'
<1>1. /\ TypeOK /\ invites' = [invites EXCEPT ![i] = "EXPIRED"]
      /\ UNCHANGED <<deal, clone, disputes, counted, reached, forced, calls, begun, mishaps, published>>
  BY DEF Inv, ExpireInvite
<1>2. TypeOK'
  BY <1>1 DEF TypeOK
<1>3. RowOK' /\ EventsOK' /\ Onward
  BY <1>1, RowKept DEF Recorded
<1> QED
  BY <1>1, <1>2, <1>3, WorldKeepsInv

LEMMA FundStep ==
  ASSUME Inv, Fund
  PROVE  Inv'
<1>1. /\ TypeOK /\ RowOK /\ EventsOK /\ clone = "awaiting_funding" /\ deal.status = "PENDING_PAYMENT"
      /\ clone' = "funded"
      /\ UNCHANGED <<deal, invites, disputes, counted, reached, forced, calls, begun, mishaps, published>>
  BY DEF Inv, Fund
<1>2. TypeOK'
  BY <1>1 DEF TypeOK, CloneStatuses
<1>3. RowOK' /\ EventsOK' /\ Onward
  BY <1>1 DEF RowOK, EventsOK, Onward, Done, Releasing, Recorded
<1> QED
  BY <1>1, <1>2, <1>3, WorldKeepsInv

LEMMA SettleStep ==
  ASSUME Inv, NEW status \in {"released", "refunded", "disputed"}, Settle(status)
  PROVE  Inv'
<1>1. /\ TypeOK /\ RowOK /\ EventsOK /\ clone = "funded" /\ clone' = status
      /\ UNCHANGED <<deal, invites, disputes, counted, reached, forced, calls, begun, mishaps, published>>
  BY DEF Inv, Settle
<1>2. TypeOK'
  BY <1>1 DEF TypeOK, CloneStatuses
<1>3. RowOK' /\ EventsOK' /\ Onward
  BY <1>1 DEF RowOK, EventsOK, Onward, Done, Releasing, Recorded
<1> QED
  BY <1>1, <1>2, <1>3, WorldKeepsInv

LEMMA BreaksStep ==
  ASSUME Inv, NEW c \in Callers, Breaks(c)
  PROVE  Inv'
<1>1. /\ TypeOK /\ Ends(c) /\ mishaps < MaxMishaps /\ mishaps' = mishaps + 1
      /\ UNCHANGED <<deal, invites, clone, disputes, counted, reached, forced, begun, published>>
  BY DEF Inv, Breaks
<1>2. /\ calls' \in [Callers -> Calls \union {NoCall, Inviting}]
      /\ \A d \in Callers \ {c} : calls'[d] = calls[d]
      /\ CallOK(calls[c])'
  BY <1>1, CallEnds
<1>3. TypeOK'
  BY <1>1, <1>2, DealAssumption DEF TypeOK
<1>4. RowOK' /\ EventsOK' /\ Onward
  BY <1>1, RowKept DEF Recorded
<1> QED
  BY <1>2, <1>3, <1>4, StepKeepsInv

LEMMA InvKept == Inv /\ [Next]_vars => Inv'
<1> SUFFICES ASSUME Inv, [Next]_vars PROVE Inv'
  OBVIOUS
<1>1. CASE UNCHANGED vars
  <2>1. UNCHANGED <<deal, invites, clone, disputes, counted, reached, forced, published, calls, begun, mishaps>>
    BY <1>1 DEF vars
  <2>2. TypeOK'
    BY <2>1 DEF Inv, TypeOK
  <2> QED
    BY <2>1, <2>2, RowKept, WorldKeepsInv DEF Recorded
<1>2. ASSUME NEW c \in Callers, Step(c) PROVE Inv'
  BY <1>2, BeginStep, LookUpDisputeStep, InsertDisputeStep, ArbitrateStep, CountStep, InspectStep, SaveStep,
     PublishStep, RemindStep, LookUpInviteStep, InsertInviteStep, AcceptInviteStep, BreaksStep DEF Step
<1>3. CASE Next
  BY <1>2, <1>3, ExpireInviteStep, CloseDisputeStep, FundStep, SettleStep DEF Next
<1> QED
  BY <1>1, <1>3

THEOREM Invariance == Spec => []Inv
  BY InvStart, InvKept, PTL DEF Spec

-----------------------------------------------------------------------------
(* The theorems                                                            *)

\* The row, its invitations and disputes and the requests keep their types.
THEOREM Typed == Spec => []TypeOK
<1>1. Inv => TypeOK
  BY DEF Inv
<1> QED
  BY <1>1, Invariance, PTL

\* No event announces what was never saved, for any number of overlapping requests and crashes.
THEOREM EventsAreTruthful == Spec => []EventsTruthful
<1>1. Inv => EventsTruthful
  BY DEF Inv, EventsOK, EventsTruthful, Done
<1> QED
  BY <1>1, Invariance, PTL

\* The dispute, the statistics and the reminder to release precede the row that shows them,
\* whichever of the services has written it.
THEOREM EffectsComeFirst == Spec => []EffectsPrecedeRow
<1>1. Inv => EffectsPrecedeRow
  BY DEF Inv, RowOK, Releasing, EffectsPrecedeRow, Done
<1> QED
  BY <1>1, Invariance, PTL

-----------------------------------------------------------------------------
(* How the row changes                                                     *)

LEMMA TransitionsAre ==
  /\ CanTransition("DRAFT", "CANCELLED") /\ CanTransition("PENDING_ACCEPTANCE", "CANCELLED")
  /\ CanTransition("PENDING_PAYMENT", "CANCELLED")
  /\ CanTransition("PENDING_ACCEPTANCE", "PENDING_PAYMENT")
  /\ CanTransition("PENDING_PAYMENT", "IN_PROGRESS")
  /\ CanTransition("IN_PROGRESS", "PENDING_CONFIRMATION")
  /\ CanTransition("PENDING_CONFIRMATION", "COMPLETED")
  /\ CanTransition("IN_PROGRESS", "DISPUTED") /\ CanTransition("PENDING_CONFIRMATION", "DISPUTED")
  BY DEF CanTransition, Transitions, From

\* What an operation of the parties makes of the row it has read is allowed by the state machine,
\* whether or not the operation asks it.
LEMMA ChangesFollow ==
  ASSUME NEW op, NEW read, NEW row, Changes(op, read, row), op \notin Administrative
  PROVE  /\ row.status # read.status => CanTransition(read.status, row.status)
         /\ row.seller = read.seller
         /\ read.funded => row.funded
<1>1. row.seller = read.seller /\ (read.funded => row.funded)
  BY DEF Changes
<1>2. CASE op \in {"create", "update", "syncEscrowRelease", "lockFundingFx"}
  <2>1. op # "create" => Target[op] = None
    BY <1>2 DEF Target, Operations, None
  <2> QED
    BY <1>1, <1>2, <2>1 DEF Changes
<1>3. CASE op \in {"cancel", "reject"}
  <2>1. Target[op] = "CANCELLED" /\ read.status \in {"DRAFT", "PENDING_ACCEPTANCE", "PENDING_PAYMENT"}
    BY <1>3 DEF Changes, Permits, CanBeCancelled, Target, Operations
  <2>2. row.status = "CANCELLED"
    BY <1>3, <2>1 DEF Changes, None
  <2> QED
    BY <1>1, <2>1, <2>2, TransitionsAre
<1>4. CASE op \in {"accept", "confirmPayment", "markShipped", "confirmReceipt"}
  <2>1. /\ op = "accept" => Target[op] = "PENDING_PAYMENT" /\ read.status = "PENDING_ACCEPTANCE"
        /\ op = "confirmPayment" => Target[op] = "IN_PROGRESS" /\ read.status = "PENDING_PAYMENT"
        /\ op = "markShipped" => Target[op] = "PENDING_CONFIRMATION" /\ read.status = "IN_PROGRESS"
        /\ op = "confirmReceipt" => Target[op] = "COMPLETED" /\ read.status = "PENDING_CONFIRMATION"
    BY <1>4 DEF Changes, Permits, CanBeConfirmed, Target, Operations
  <2>2. row.status = Target[op]
    BY <1>4, <2>1 DEF Changes, None
  <2> QED
    BY <1>1, <1>4, <2>1, <2>2, TransitionsAre
<1>5. CASE op \in {"openDispute", "arbitrateDispute"}
  <2>1. Target[op] = "DISPUTED" /\ read.status \in {"IN_PROGRESS", "PENDING_CONFIRMATION"}
    BY <1>5 DEF Changes, Permits, CanBeDisputed, Target, Operations
  <2>2. row.status = "DISPUTED"
    BY <1>5, <2>1 DEF Changes, None
  <2> QED
    BY <1>1, <2>1, <2>2, TransitionsAre
<1>6. op \in {"create", "update", "syncEscrowRelease", "cancel", "reject", "accept", "confirmPayment",
              "markShipped", "confirmReceipt", "openDispute", "arbitrateDispute", "lockFundingFx"}
  BY DEF Changes, Operations, Administrative
<1> QED
  BY <1>2, <1>3, <1>4, <1>5, <1>6

\* What StateMachineFollowed says of a step.
Follows ==
  /\ deal'.status # deal.status =>
       \/ CanTransition(deal.status, deal'.status)
       \/ <<deal.status, deal'.status>> = <<"DRAFT", "PENDING_PAYMENT">> /\ invites' # invites
  /\ deal.seller # NoOne => deal'.seller = deal.seller
  /\ deal.funded => deal'.funded

LEMMA SaveFollows ==
  ASSUME Inv, NEW c \in Callers, Save(c), ~Overwrites
  PROVE  Follows
<1>1. /\ TypeOK /\ CallOK(calls[c]) /\ calls[c].pc = "save" /\ deal' = calls[c].row
  BY DEF Inv, Save
<1>2. calls[c] \in Calls
  BY <1>1, Busy
<1>3. calls'[c].pc # "save"
  <2>1. CASE EventOf(calls[c]) = None
    <3>1. calls' = [calls EXCEPT ![c] = NoCall]
      BY <2>1 DEF Save, Ends
    <3> QED
      BY <1>1, <3>1 DEF TypeOK, NoCall
  <2>2. CASE EventOf(calls[c]) # None
    <3>1. Goes(c, "enqueue")
      BY <2>2 DEF Save
    <3> QED
      BY <1>1, <1>2, <3>1, PlaceMoves
  <2> QED
    BY <2>1, <2>2
<1>4. calls[c].op \notin Administrative /\ calls[c].read = deal
  BY <1>1, <1>3 DEF Overwrites
<1>5. Changes(calls[c].op, deal, calls[c].row)
  BY <1>1, <1>2, <1>4 DEF CallOK
<1> QED
  BY <1>1, <1>4, <1>5, ChangesFollow DEF Follows

LEMMA ArbitrateFollows ==
  ASSUME Inv, NEW c \in Callers, Arbitrate(c), ~Overwrites
  PROVE  Follows
<1>1. /\ TypeOK /\ CallOK(calls[c]) /\ calls[c].pc = "arbitrate" /\ deal' = calls[c].row
      /\ calls' = [calls EXCEPT ![c] = NoCall]
  BY DEF Inv, Arbitrate, Ends
<1>2. calls[c] \in Calls
  BY <1>1, Busy
<1>3. calls'[c].pc # "arbitrate"
  BY <1>1 DEF TypeOK, NoCall
<1>4. calls[c].op \notin Administrative /\ calls[c].read = deal
  BY <1>1, <1>3 DEF Overwrites
<1>5. Changes(calls[c].op, deal, calls[c].row)
  BY <1>1, <1>2, <1>4 DEF CallOK
<1> QED
  BY <1>1, <1>4, <1>5, ChangesFollow DEF Follows

LEMMA AcceptInviteFollows ==
  ASSUME Inv, NEW c \in Callers, NEW i \in Invites, NEW seller \in Sellers, AcceptInvite(c, i, seller)
  PROVE  Follows
<1>1. CASE Accepts(i, seller)
  <2>1. /\ deal.seller = NoOne /\ deal.status = "DRAFT" /\ invites[i] = "PENDING" /\ deal \in DealRows
        /\ deal' = [deal EXCEPT !.seller = seller, !.status = "PENDING_PAYMENT"]
        /\ invites'[i] = "ACCEPTED"
    BY <1>1 DEF Accepts, AcceptInvite, Inv, TypeOK
  <2>2. deal'.status = "PENDING_PAYMENT" /\ deal'.funded = deal.funded /\ invites' # invites
    BY <2>1 DEF DealRows
  <2> QED
    BY <2>1, <2>2 DEF Follows
<1>2. CASE UNCHANGED <<deal, reached, invites>>
  BY <1>2 DEF Follows
<1> QED
  BY <1>1, <1>2 DEF AcceptInvite

\* Every other step leaves the row alone.
LEMMA NextFollows ==
  ASSUME Inv, Next, ~Overwrites
  PROVE  Follows
<1>1. deal' = deal => Follows
  BY DEF Follows
<1>2. ASSUME NEW c \in Callers, Step(c) PROVE Follows
  <2>1. CASE \/ LookUpDispute(c) \/ InsertDispute(c) \/ Count(c) \/ Inspect(c) \/ Publish(c)
             \/ LookUpInvite(c) \/ Breaks(c) \/ \E op \in Operations : Begin(c, op)
             \/ \E op \in {"expireUnpaidDeals", "autoConfirmStalePendingDeals"} : Remind(c, op)
             \/ \E i \in Invites : InsertInvite(c, i)
    BY <1>1, <2>1 DEF LookUpDispute, InsertDispute, Count, Inspect, Publish, LookUpInvite, Breaks,
       Begin, Remind, InsertInvite
  <2> QED
    BY <1>2, <2>1, SaveFollows, ArbitrateFollows, AcceptInviteFollows DEF Step
<1>3. CASE (\E i \in Invites : ExpireInvite(i)) \/ CloseDispute \/ Fund
           \/ \E status \in {"released", "refunded", "disputed"} : Settle(status)
  BY <1>1, <1>3 DEF ExpireInvite, CloseDispute, Fund, Settle
<1> QED
  BY <1>2, <1>3 DEF Next

\* Apart from administrators, the arbitrator and requests that save over a row they have not read, the
\* status follows the state machine, for any number of requests.
THEOREM StatusFollows == Spec => StateMachineFollowed
<1>1. Inv /\ [Next]_vars => [~Overwrites => Follows]_vars
  BY NextFollows
<1> QED
  BY <1>1, Invariance, PTL DEF Spec, StateMachineFollowed, Follows
====
