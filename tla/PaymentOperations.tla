---- MODULE PaymentOperations ----
(***************************************************************************)
(* PaymentOperationService: one durable operation per payment, leased to   *)
(* the process that funds its escrow.  Every step is one UPDATE, whose     *)
(* WHERE clause is its guard.                                              *)
(***************************************************************************)
CONSTANTS
  Payments,
  Owners,   \* the processes that may hold a lease
  Nobody    \* leaseOwner is null, or the token of a process that has died

VARIABLE op  \* the row of every payment's funding operation

OperationStatus == {"NONE", "PROCESSING", "COMPLETED", "FAILED_RETRYABLE", "MANUAL_REVIEW"}

\* live is: leaseExpiresAt is in the future.
Operation == [status : OperationStatus, owner : Owners \cup {Nobody}, live : BOOLEAN]

NoOperation == [status |-> "NONE", owner |-> Nobody, live |-> FALSE]

OperationsInit == op = [p \in Payments |-> NoOperation]

\* Slip: a lease is taken over without looking whether it has expired.
Claimable_Running(p) == op[p].status \in {"NONE", "FAILED_RETRYABLE", "PROCESSING"}

\* Slip: an expired lease is left to its holder.
Claimable_NotExpired(p) == op[p].status \in {"NONE", "FAILED_RETRYABLE"}

\* No row yet, retryable work, or an expired holder.
Claimable(p) ==
  \/ op[p].status \in {"NONE", "FAILED_RETRYABLE"}
  \/ op[p].status = "PROCESSING" /\ ~op[p].live

ClaimFunding(p, r) ==
  /\ Claimable(p)
  /\ op' = [op EXCEPT ![p] = [status |-> "PROCESSING", owner |-> r, live |-> TRUE]]

Owned(p, r) == op[p].owner = r

\* A lease can be renewed while it is held, even when it has expired meanwhile.
Renewable(p, r) == Owned(p, r) /\ op[p].status = "PROCESSING"

RenewLease(p, r) ==
  /\ Renewable(p, r)
  /\ op' = [op EXCEPT ![p].live = TRUE]

\* markCompleted, markRetryableFailure and markManualReview: they ask who owns the
\* lease, and not what the status is.
Mark(p, r, s) ==
  /\ Owned(p, r)
  /\ op' = [op EXCEPT ![p] = [status |-> s, owner |-> Nobody, live |-> FALSE]]

\* Time passes.
ExpireLease(p) ==
  /\ op[p].status = "PROCESSING"
  /\ op[p].live
  /\ op' = [op EXCEPT ![p].live = FALSE]

\* A process dies; the one that replaces it draws another token.
OwnerDies(r) ==
  op' = [p \in Payments |-> IF Owned(p, r) THEN [op[p] EXCEPT !.owner = Nobody] ELSE op[p]]

OperationsOK == op \in [Payments -> Operation]
====
