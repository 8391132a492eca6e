---- MODULE MCEscrow ----
(***************************************************************************)
(* Small instances of EscrowContracts for TLC.                             *)
(***************************************************************************)
EXTENDS EscrowAccounts, TLC

CONSTANTS
  Buyer, Seller,  \* the parties
  Hot,            \* a relay
  BuyerFunds, ArbFunds, SafeFunds

MCEndowment ==
  [u \in Users |-> CASE u = Buyer -> BuyerFunds
                     [] u \in Arbitrators -> ArbFunds
                     [] u = Safe -> SafeFunds
                     [] OTHER -> 0]

\* A fee of 10% from 10 tokens on, and one token below that.
Percent == {[threshold |-> 10, flatFee |-> 1, percentFeeBps |-> 1000]}
NoFee == {[threshold |-> 0, flatFee |-> 0, percentFeeBps |-> 0]}

Fine10 == {[fineMin |-> 2, fineMax |-> 3, fineBps |-> 1000]}
FineOfOne == {[fineMin |-> 1, fineMax |-> 1, fineBps |-> 0]}

NoStake    == {[min |-> 0, senior |-> 0]}
StakeOfTwo == {[min |-> 2, senior |-> 1]}
AnyPolicy == StakeOfTwo \cup {[min |-> 3, senior |-> 2]}
DealSymmetry == Permutations(Deals)
====
