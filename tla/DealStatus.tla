---- MODULE DealStatus ----
(***************************************************************************)
(* The statuses of a deal and the two tables that say how they may change: *)
(* deal/fsm/deal-state-machine.ts, which most operations of the deal       *)
(* service go through, and canTransitionTo of deal/entities/deal.entity.ts,*)
(* which the jetton ingestion asks.  They differ: the first lacks          *)
(* PENDING_ACCEPTANCE to IN_PROGRESS, the second IN_PROGRESS to REFUNDED.  *)
(***************************************************************************)

DealStatuses == {"DRAFT", "PENDING_ACCEPTANCE", "PENDING_PAYMENT", "IN_PROGRESS",
                 "PENDING_CONFIRMATION", "COMPLETED", "CANCELLED", "REFUNDED",
                 "DISPUTED", "DISPUTE_RESOLVED", "FROZEN"}

From(status, successors) == {status} \X successors

\* A transition into FROZEN also asks for an arbitrator on the deal, which no code sets;
\* one that cancels an unpaid deal asks that it is unpaid.
Transitions ==
  From("DRAFT", {"PENDING_ACCEPTANCE", "CANCELLED"})
  \union From("PENDING_ACCEPTANCE", {"PENDING_PAYMENT", "CANCELLED"})
  \union From("PENDING_PAYMENT", {"IN_PROGRESS", "CANCELLED", "REFUNDED"})
  \union From("IN_PROGRESS", {"PENDING_CONFIRMATION", "DISPUTED", "REFUNDED"})
  \union From("PENDING_CONFIRMATION", {"COMPLETED", "DISPUTED", "REFUNDED"})
  \union From("DISPUTED", {"DISPUTE_RESOLVED"})
  \union From("DISPUTE_RESOLVED", {"COMPLETED", "REFUNDED"})
  \union From("FROZEN", {"IN_PROGRESS", "REFUNDED"})

CanTransition(from, to) == <<from, to>> \in Transitions

EntityTransitions ==
  (Transitions \ {<<"IN_PROGRESS", "REFUNDED">>})
  \union {<<"PENDING_ACCEPTANCE", "IN_PROGRESS">>}
  \union {<<status, "FROZEN">> : status \in {"IN_PROGRESS", "DISPUTED"}}

CanTransitionTo(from, to) == <<from, to>> \in EntityTransitions

CanBeCancelled(status) == status \in {"DRAFT", "PENDING_ACCEPTANCE", "PENDING_PAYMENT"}
CanBeConfirmed(status) == status = "PENDING_CONFIRMATION"

\* Slip: after the completion too.
CanBeDisputed_Completed(status) == status \in {"IN_PROGRESS", "PENDING_CONFIRMATION", "COMPLETED"}

CanBeDisputed(status) == status \in {"IN_PROGRESS", "PENDING_CONFIRMATION"}

====
