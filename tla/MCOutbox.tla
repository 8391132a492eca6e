---- MODULE MCOutbox ----
(* Instances of Outbox for TLC. *)
EXTENDS Outbox, TLC

CONSTANTS buyer, seller

\* An event type without a template, one for one party, and one for both.
TemplateRecipients ==
  ("deal.confirmation_requested" :> <<>>) @@ ("deal.created" :> <<seller>>)
  @@ ("dispute.decision_made" :> <<buyer, seller>>)
====
