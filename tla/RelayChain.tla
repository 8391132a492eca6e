---- MODULE RelayChain ----
(***************************************************************************)
(* The Polygon side of a Cryptomus payment as the backend meets it: the    *)
(* clone of every deal, the relay's hot wallet, and the relay's            *)
(* transactions, which are broadcast by a worker and mined later, in the   *)
(* order of their nonces.  EscrowContracts has the contracts in full; here *)
(* is what the relay's calls and the parties can do to a clone.            *)
(***************************************************************************)
EXTENDS Naturals, Sequences, SequencesExt

CONSTANTS
  Deals,
  Deposit,      \* what notifyFunded requires of a deal's clone: amount + buyerFee
  Float,        \* what the hot wallet holds at first
  Predeployed,  \* deals whose clone a direct-deposit invoice has already deployed
  Workers,      \* the handlers that use the relay
  Replicas,     \* the processes of the backend
  Replica,      \* the process a worker runs in
  NoOne         \* nobody

ASSUME RelayAssumption ==
  /\ Deposit \in [Deals -> Nat \ {0}]
  /\ Float \in Nat
  /\ Predeployed \subseteq Deals
  /\ Replica \in [Workers -> Replicas]
  /\ NoOne \notin Workers \cup Replicas

VARIABLES
  clone,     \* status of every deal's clone
  late,      \* its funding deadline has passed
  held,      \* its balance
  float,     \* the hot wallet's balance
  sent,      \* history: what the hot wallet has sent to a clone, mined transfers only
  mempool    \* the relay's transactions that are broadcast and not mined, by nonce

chainVars == <<clone, late, held, float, sent, mempool>>

CloneStatus ==
  {"UNINITIALIZED", "AWAITING_FUNDING", "FUNDED", "RELEASED", "CANCELLED", "EXPIRED"}

Void == {"CANCELLED", "EXPIRED"}

\* Slip: whatever comes after FUNDED in the enumeration is later.
isFundedOrLater_Any(d) == clone[d] \notin {"UNINITIALIZED", "AWAITING_FUNDING"}

isFundedOrLater(d) == clone[d] \in {"FUNDED", "RELEASED"}

\* Slip: whatever it holds, the whole deposit.
Shortfall_Blind(d) == Deposit[d]

\* What the clone still lacks.
Shortfall(d) == IF held[d] < Deposit[d] THEN Deposit[d] - held[d] ELSE 0

\* worker is who waits for the receipt, NoOne when nobody does any more.
Tx == [ kind : {"createEscrow", "transfer", "notifyFunded"}, deal : Deals, amount : Nat,
        worker : Workers \cup {NoOne} ]

ChainInit ==
  /\ clone = [d \in Deals |->
                IF d \in Predeployed THEN "AWAITING_FUNDING" ELSE "UNINITIALIZED"]
  /\ late = [d \in Deals |-> FALSE]
  /\ held = [d \in Deals |-> 0]
  /\ float = Float
  /\ sent = [d \in Deals |-> 0]
  /\ mempool = <<>>

-----------------------------------------------------------------------------
(* The relay's transactions                                                *)

Waits(w) == \E tx \in ToSet(mempool) : tx.worker = w

\* RelayTxQueue: a process has one transaction under way at a time.
QueueFree(r) == \A w \in Workers : Replica[w] = r => ~Waits(w)

Broadcast(w, kind, d, amount) ==
  /\ QueueFree(Replica[w])
  /\ mempool' = Append(mempool, [kind |-> kind, deal |-> d, amount |-> amount, worker |-> w])
  /\ UNCHANGED <<clone, late, held, float, sent>>

\* The workers in W stop waiting; what they have broadcast goes its way.
Abandon(W) ==
  /\ mempool' = [i \in DOMAIN mempool |->
                   IF mempool[i].worker \in W THEN [mempool[i] EXCEPT !.worker = NoOne]
                   ELSE mempool[i]]
  /\ UNCHANGED <<clone, late, held, float, sent>>

Succeeds(tx) ==
  \/ tx.kind = "createEscrow" /\ clone[tx.deal] = "UNINITIALIZED"
  \/ tx.kind = "transfer" /\ float >= tx.amount
  \/ /\ tx.kind = "notifyFunded"
     /\ clone[tx.deal] = "AWAITING_FUNDING" /\ ~late[tx.deal]
     /\ held[tx.deal] >= Deposit[tx.deal]

\* What a mined transaction changes, when it is not reverted.
Effect(tx) ==
  LET d == tx.deal
  IN  \/ /\ tx.kind = "createEscrow"
         /\ clone' = [clone EXCEPT ![d] = "AWAITING_FUNDING"]
         /\ UNCHANGED <<held, float, sent>>
      \/ /\ tx.kind = "transfer"
         /\ float' = float - tx.amount
         /\ held' = [held EXCEPT ![d] = @ + tx.amount]
         /\ sent' = [sent EXCEPT ![d] = @ + tx.amount]
         /\ UNCHANGED clone
      \/ /\ tx.kind = "notifyFunded"
         /\ clone' = [clone EXCEPT ![d] = "FUNDED"]
         /\ UNCHANGED <<held, float, sent>>

\* The next transaction is mined, successful or reverted.
Mine ==
  /\ mempool # <<>>
  /\ mempool' = Tail(mempool)
  /\ IF Succeeds(Head(mempool)) THEN Effect(Head(mempool))
     ELSE UNCHANGED <<clone, held, float, sent>>
  /\ UNCHANGED late

-----------------------------------------------------------------------------
(* What the parties and the clock do to a clone                            *)

DeadlinePasses(d) ==
  /\ clone[d] = "AWAITING_FUNDING"
  /\ ~late[d]
  /\ late' = [late EXCEPT ![d] = TRUE]
  /\ UNCHANGED <<clone, held, float, sent, mempool>>

\* A party cancels the deal on chain, or anybody expires it.
CloseClone(d) ==
  /\ clone[d] = "AWAITING_FUNDING"
  /\ \E s \in Void :
       /\ s = "EXPIRED" => late[d]
       /\ clone' = [clone EXCEPT ![d] = s]
  /\ UNCHANGED <<late, held, float, sent, mempool>>

\* What a void clone holds goes to the buyer.
RescueClone(d) ==
  /\ clone[d] \in Void
  /\ held[d] # 0
  /\ held' = [held EXCEPT ![d] = 0]
  /\ UNCHANGED <<clone, late, float, sent, mempool>>

\* The buyer releases the deposit; refunds and disputes look the same from here.
SettleClone(d) ==
  /\ clone[d] = "FUNDED"
  /\ clone' = [clone EXCEPT ![d] = "RELEASED"]
  /\ held' = [held EXCEPT ![d] = @ - Deposit[d]]
  /\ UNCHANGED <<late, float, sent, mempool>>

PartiesNext ==
  \E d \in Deals : DeadlinePasses(d) \/ CloseClone(d) \/ RescueClone(d) \/ SettleClone(d)

ChainOK ==
  /\ clone \in [Deals -> CloneStatus]
  /\ late \in [Deals -> BOOLEAN]
  /\ held \in [Deals -> Nat]
  /\ float \in Nat
  /\ sent \in [Deals -> Nat]
  /\ mempool \in Seq(Tx)
====
