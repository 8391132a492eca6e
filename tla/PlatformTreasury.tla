---- MODULE PlatformTreasury ----
(***************************************************************************)
(* PlatformTreasury.sol: the platform's fees (main), the reserve that pays *)
(* arbitrators and victims, and the rewards the reserve could not pay yet. *)
(*                                                                         *)
(* A function another contract calls in the middle of its own transaction  *)
(* is an operator on the storage; a function an account calls directly is  *)
(* an action.                                                              *)
(***************************************************************************)
EXTENDS Usdt, FeeSchedule

CONSTANTS
  ReserveRates,    \* values the admin may set reserveBps to
  TreasuryAmounts  \* amounts used in the admin's and in strangers' calls

MAX_RESERVE_BPS == 5000

ASSUME TreasuryAssumption ==
  /\ ReserveRates \subseteq 0 .. MAX_RESERVE_BPS
  /\ TreasuryAmounts \subseteq Nat \ {0}

VARIABLES
  treasuryTokens, \* token.balanceOf(treasury)
  mainBalance,
  reserveBalance,
  deferred,       \* deferredArbitratorRewards
  reserveBps

balances     == <<treasuryTokens, mainBalance, reserveBalance>>
treasuryVars == <<balances, deferred, reserveBps>>

TreasuryOK ==
  /\ treasuryTokens \in Nat
  /\ mainBalance \in Nat
  /\ reserveBalance \in Nat
  /\ deferred \in [Arbitrators -> Nat]
  /\ reserveBps \in 0 .. MAX_RESERVE_BPS

TreasuryInit ==
  /\ treasuryTokens = 0 /\ mainBalance = 0 /\ reserveBalance = 0
  /\ deferred = [a \in Arbitrators |-> 0]
  /\ reserveBps = 2000

-----------------------------------------------------------------------------
(* Calls made by escrow clones and by the registry                         *)

\* How depositFee divides a fee.
ToReserve(amount) == Portion(amount, reserveBps, BPS_DENOMINATOR)
\* Slip: the reserve's part counted twice.
ToMain_Gross(amount) == amount
ToMain(amount)       == amount - ToReserve(amount)

\* What payArbitratorFromReserve transfers: the reserve pays what it has.
PaidFromReserve(amount) == AtMost(amount, reserveBalance)

\* A fee arrives and is accounted for.
DepositFee(amount) ==
  /\ treasuryTokens' = treasuryTokens + amount
  /\ mainBalance' = mainBalance + ToMain(amount)
  /\ reserveBalance' = reserveBalance + ToReserve(amount)
  /\ UNCHANGED <<deferred, reserveBps>>

\* Slip: a reserve that cannot pay in full reverts, and the award with it.
PayArbitratorAndDepositFee_OrRevert(a, reward, fee) ==
  /\ reward <= reserveBalance
  /\ treasuryTokens' = treasuryTokens - reward + fee
  /\ mainBalance' = mainBalance + ToMain(fee)
  /\ reserveBalance' = reserveBalance - reward + ToReserve(fee)
  /\ UNCHANGED <<deferred, reserveBps>>

\* payArbitratorFromReserve(a, reward), then depositFee(fee), in one transaction.
PayArbitratorAndDepositFee(a, reward, fee) ==
  LET paid == PaidFromReserve(reward)
  IN  /\ treasuryTokens' = treasuryTokens - paid + fee
      /\ mainBalance' = mainBalance + ToMain(fee)
      /\ reserveBalance' = reserveBalance - paid + ToReserve(fee)
      /\ deferred' = [deferred EXCEPT ![a] = @ + (reward - paid)]
      /\ UNCHANGED reserveBps

DepositSlashedStake(amount) ==
  /\ treasuryTokens' = treasuryTokens + amount
  /\ reserveBalance' = reserveBalance + amount
  /\ UNCHANGED <<mainBalance, deferred, reserveBps>>

\* Tokens arriving without a call: nobody accounts for them.
Receive(amount) ==
  /\ treasuryTokens' = treasuryTokens + amount
  /\ UNCHANGED <<mainBalance, reserveBalance, deferred, reserveBps>>

-----------------------------------------------------------------------------
(* Calls made by accounts                                                  *)

\* Tokens leave the reserve for u.
ReservePays(u, amount) ==
  /\ reserveBalance' = reserveBalance - amount
  /\ treasuryTokens' = treasuryTokens - amount
  /\ wallet' = Credit(wallet, u, amount)

\* What of a's deferred reward the reserve can pay now.
Claimable(a) == AtMost(deferred[a], reserveBalance)

\* Slip: the debt stays on the books.
ClaimDeferredArbitratorReward_KeepsDebt(a) ==
  /\ Claimable(a) > 0
  /\ ReservePays(a, Claimable(a))
  /\ UNCHANGED <<mainBalance, deferred, reserveBps>>

\* Anyone may settle what is owed to a; nothing changes while the reserve
\* is empty (the call returns 0).
ClaimDeferredArbitratorReward(a) ==
  /\ Claimable(a) > 0
  /\ deferred' = [deferred EXCEPT ![a] = @ - Claimable(a)]
  /\ ReservePays(a, Claimable(a))
  /\ UNCHANGED <<mainBalance, reserveBps>>

CompensateUser(u, amount) ==
  /\ amount <= reserveBalance
  /\ ReservePays(u, amount)
  /\ UNCHANGED <<mainBalance, deferred, reserveBps>>

WithdrawMain(u, amount) ==
  /\ amount <= mainBalance
  /\ mainBalance' = mainBalance - amount
  /\ treasuryTokens' = treasuryTokens - amount
  /\ wallet' = Credit(wallet, u, amount)
  /\ UNCHANGED <<reserveBalance, deferred, reserveBps>>

FundReserve(amount) ==
  /\ Pays(Safe, amount)
  /\ treasuryTokens' = treasuryTokens + amount
  /\ reserveBalance' = reserveBalance + amount
  /\ UNCHANGED <<mainBalance, deferred, reserveBps>>

MoveToReserve(amount) ==
  /\ amount <= mainBalance
  /\ mainBalance' = mainBalance - amount
  /\ reserveBalance' = reserveBalance + amount
  /\ UNCHANGED <<wallet, treasuryTokens, deferred, reserveBps>>

SetReserveBps(newBps) ==
  /\ reserveBps' = newBps
  /\ UNCHANGED <<wallet, balances, deferred>>

Reconcile ==
  LET accounted == mainBalance + reserveBalance
  IN  /\ treasuryTokens > accounted
      /\ mainBalance' = mainBalance + (treasuryTokens - accounted)
      /\ UNCHANGED <<wallet, treasuryTokens, reserveBalance, deferred, reserveBps>>

\* A plain token transfer to the contract's address, outside its functions.
TransferToTreasury(u, amount) == Pays(u, amount) /\ Receive(amount)

\* The calls that pay no arbitrator.
TreasuryNext ==
  \/ \E u \in Parties, x \in TreasuryAmounts : CompensateUser(u, x)
  \/ \E x \in TreasuryAmounts : WithdrawMain(Safe, x)
  \/ \E x \in TreasuryAmounts : FundReserve(x)
  \/ \E x \in TreasuryAmounts : MoveToReserve(x)
  \/ \E bps \in ReserveRates : SetReserveBps(bps)
  \/ Reconcile
  \/ \E u \in Parties, x \in TreasuryAmounts : TransferToTreasury(u, x)

-----------------------------------------------------------------------------
\* The balances the contract accounts for are backed by tokens it holds, so no
\* payout it agrees to can be refused by the token (PlatformTreasury.sol keeps
\* mainBalance and reserveBalance by hand, next to token.balanceOf).
TreasurySolvent == treasuryTokens >= mainBalance + reserveBalance
====
