---- MODULE DealCustody ----
(***************************************************************************)
(* What an escrow promises, whatever holds the money: a deal is offered,   *)
(* one deposit is locked for it, and the locked deposit is paid out in one *)
(* step, once.  The principal is the part of the deposit the parties trade *)
(* over: without a dispute it goes to one side, and a disputed principal   *)
(* goes to the two parties in full.                                        *)
(*                                                                         *)
(* Amounts are chosen freely, so an action says what its new amounts must  *)
(* satisfy; the module is for refinement and is not run on its own.        *)
(***************************************************************************)
EXTENDS Integers

CONSTANT Deals

VARIABLES
  stage,     \* where a deal is
  deposit,   \* what was locked for it
  principal, \* the part of it the parties trade over
  toBuyer,   \* what its settlement paid the buyer
  toSeller   \* what its settlement paid the seller

custodyVars == <<stage, deposit, principal, toBuyer, toSeller>>

CustodyInit ==
  /\ stage = [d \in Deals |-> "none"]
  /\ deposit = [d \in Deals |-> 0]
  /\ principal = [d \in Deals |-> 0]
  /\ toBuyer = [d \in Deals |-> 0]
  /\ toSeller = [d \in Deals |-> 0]

Moves(d, from, to) ==
  /\ stage[d] = from
  /\ stage' = [stage EXCEPT ![d] = to]

Sets(f, d, new) == new = [f EXCEPT ![d] = new[d]]

Offer(d) ==
  /\ Moves(d, "none", "offered")
  /\ UNCHANGED <<deposit, principal, toBuyer, toSeller>>

Withdraw(d) ==
  /\ Moves(d, "offered", "void")
  /\ UNCHANGED <<deposit, principal, toBuyer, toSeller>>

Lock(d) ==
  /\ Moves(d, "offered", "locked")
  /\ Sets(deposit, d, deposit')
  /\ Sets(principal, d, principal')
  /\ principal'[d] <= deposit'[d]
  /\ UNCHANGED <<toBuyer, toSeller>>

Contest(d) ==
  /\ Moves(d, "locked", "contested")
  /\ UNCHANGED <<deposit, principal, toBuyer, toSeller>>

\* The buyer is satisfied: the seller gets the principal less his fee, the buyer
\* nothing.
PaySeller(d) ==
  /\ Moves(d, "locked", "paid")
  /\ Sets(toSeller, d, toSeller')
  /\ toSeller'[d] <= principal[d]
  /\ UNCHANGED <<deposit, principal, toBuyer>>

\* The seller gives up: the buyer gets the whole deposit back.
PayBuyer(d) ==
  /\ Moves(d, "locked", "paid")
  /\ toBuyer' = [toBuyer EXCEPT ![d] = deposit[d]]
  /\ UNCHANGED <<deposit, principal, toSeller>>

\* A decision divides at least the principal between the two.
Award(d) ==
  /\ Moves(d, "contested", "paid")
  /\ Sets(toBuyer, d, toBuyer')
  /\ Sets(toSeller, d, toSeller')
  /\ toBuyer'[d] + toSeller'[d] >= principal[d]
  /\ toSeller'[d] <= principal[d]
  /\ UNCHANGED <<deposit, principal>>

CustodyStep(d) ==
  \/ Offer(d) \/ Withdraw(d) \/ Lock(d) \/ Contest(d)
  \/ PaySeller(d) \/ PayBuyer(d) \/ Award(d)

CustodyNext == \E d \in Deals : CustodyStep(d)

CustodySpec == CustodyInit /\ [][CustodyNext]_custodyVars
====
