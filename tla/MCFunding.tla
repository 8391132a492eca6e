---- MODULE MCFunding ----
(***************************************************************************)
(* Small instances of PaymentFunding for TLC.                              *)
(***************************************************************************)
EXTENDS PaymentFunding

CONSTANTS h1, h2, s1, s2, r1, r2, d1, p1, p2  \* workers, processes, deals, payments

MCReplica == [w \in Workers |-> IF w \in {h1, s1} THEN r1 ELSE r2]
MCDeposit == [d \in Deals |-> 2]
MCDealOf  == [p \in Payments |-> d1]  \* a second order, when the first ran out unpaid
====
