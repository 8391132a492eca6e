---- MODULE PayoutPlan ----
(***************************************************************************)
(* What a TON escrow promises about a funded deal, whichever asset it is   *)
(* in: the total is divided once between the buyer, the seller and the     *)
(* treasury; each of them is paid his part at most once and never another  *)
(* amount; and the deal is closed only when everybody has been paid.       *)
(*                                                                         *)
(* A contract that pays in its own currency decides and pays in one step.  *)
(* One that pays in a token sends payments that arrive, each on its own,   *)
(* later.  The module is for refinement and is not run on its own.         *)
(***************************************************************************)
EXTENDS Integers

CONSTANT Total

VARIABLES
  phase,    \* "open", "decided", "closed"
  plan,     \* what each is to get
  credited  \* what each has got

planVars == <<phase, plan, credited>>

Payees == {"buyer", "seller", "treasury"}
Nothing == [p \in Payees |-> 0]
DividesTotal(division) == division.buyer + division.seller + division.treasury = Total

PlanInit == phase = "open" /\ plan = Nothing /\ credited = Nothing

Decide ==
  /\ phase = "open" /\ phase' = "decided"
  /\ plan' \in [Payees -> Nat] /\ DividesTotal(plan')
  /\ UNCHANGED credited

Credit(p) ==
  /\ phase = "decided" /\ credited[p] = 0
  /\ credited' = [credited EXCEPT ![p] = plan[p]]
  /\ UNCHANGED <<phase, plan>>

Close ==
  /\ phase = "decided" /\ phase' = "closed"
  /\ credited = plan
  /\ UNCHANGED <<plan, credited>>

PayAtOnce ==
  /\ phase = "open" /\ phase' = "closed"
  /\ plan' \in [Payees -> Nat] /\ DividesTotal(plan')
  /\ credited' = plan'

PlanNext == Decide \/ Close \/ PayAtOnce \/ \E p \in Payees : Credit(p)

PlanSpec == PlanInit /\ [][PlanNext]_planVars
====
