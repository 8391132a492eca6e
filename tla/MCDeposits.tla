---- MODULE MCDeposits ----
(* Small instances of TonDeposits for TLC. *)
EXTENDS TonDeposits

CONSTANTS w1, c1, a1, r1, r2, d1, t1, t2  \* workers, processes, a deal, transfers

MCReplica == [w \in Workers |-> IF w = a1 THEN r2 ELSE r1]
MCDeposit == [d \in Deals |-> 2]
MCDealOf  == [p \in Payments |-> d1]
MCUnits   == [t \in Transfers |-> IF t = t1 THEN 2 ELSE 1]
====
