---- MODULE EscrowAccounts ----
(***************************************************************************)
(* More properties of EscrowContracts: sums over deals and arbitrators     *)
(* (proved in EscrowContracts_proofs), calls that must never revert (for   *)
(* TLC), and a statement of the repository's comments that the contracts   *)
(* do not keep.                                                            *)
(***************************************************************************)
EXTENDS EscrowContracts, FiniteSetsExt

\* The registry holds exactly the stakes of its arbitrators, through deposits,
\* slashes to either beneficiary and withdrawals of amounts requested earlier.
StakesBacked ==
  registryTokens = MapThenSumSet(LAMBDA a : stake[a], Arbitrators)

\* The fine that is due for every deal.
FineOf == [d \in Deals |-> computeFine(terms[d].fine, terms[d].amount)]

\* Every arbitrator has received, or is still owed by the treasury, exactly the fines
\* of the disputes he decided, however the payments were split between the escrow,
\* the reserve and later claims (resolve, payArbitratorFromReserve,
\* claimDeferredArbitratorReward).
RewardsAccounted ==
  \A a \in Arbitrators :
    rewards[a] + deferred[a] = MapThenSumSet(LAMBDA d : FineOf[d], DealsOf(a, "RESOLVED"))

\* A decision cannot be blocked: the assigned arbitrator's resolve goes through for
\* every division of the principal, whatever the reserve, the fine and the balance
\* are, as long as he has not been struck from the registry (resolve calls two other
\* contracts and makes up to five transfers, and any of them could revert).
AwardsNeverBlocked ==
  \A d \in Deals, a \in Arbitrators, p \in Shares :
    status[d] = "DISPUTED" /\ assignedArbitrator[d] = a /\ arbStatus[a] # "NONE"
      => ENABLED Resolve(d, a, p)

====
