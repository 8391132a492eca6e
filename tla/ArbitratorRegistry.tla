---- MODULE ArbitratorRegistry ----
(***************************************************************************)
(* ArbitratorRegistry.sol: who may arbitrate, the stake behind each        *)
(* arbitrator, the two-step withdrawal of a stake, and the count of        *)
(* disputes each one is assigned to.                                       *)
(*                                                                         *)
(* Left out: arbitratorList and its index, hiredAt and totalSlashed, which *)
(* the contracts write and never read.                                     *)
(***************************************************************************)
EXTENDS PlatformTreasury

CONSTANTS
  StakeAmounts,   \* amounts of deposits, withdrawal requests and slashes
  StakePolicies,  \* [min, senior] pairs the admin may set
  Cooldowns,      \* values the admin may set withdrawCooldown to
  Levels,         \* levels the admin hands out
  AdminStatuses,  \* statuses the admin sets
  MaxTime         \* bound on the clock, for model checking

ArbLevel  == {"TRAINEE", "JUNIOR", "SENIOR", "HEAD"}
ArbStatus == {"NONE", "ACTIVE", "PROBATION", "SUSPENDED", "TERMINATED"}

ASSUME RegistryAssumption ==
  /\ StakeAmounts \subseteq Nat \ {0}
  /\ StakePolicies \subseteq [min : Nat, senior : Nat] /\ StakePolicies # {}
  /\ Cooldowns \subseteq Nat /\ Cooldowns # {}
  /\ Levels \subseteq ArbLevel /\ AdminStatuses \subseteq ArbStatus
  /\ MaxTime \in Nat \ {0}

VARIABLES
  arbStatus, level, stake, totalResolved, activeDisputes, \* _arbitrators
  withdrawRequestAt, withdrawRequestAmount,
  registryTokens,     \* token.balanceOf(registry)
  stakePolicy,        \* minStake and seniorMinStake
  withdrawCooldown,
  now                 \* block.timestamp; it is never 0

standingVars == <<arbStatus, level>>
stakeVars    == <<stake, registryTokens>>
disputeVars  == <<totalResolved, activeDisputes>>
requestVars  == <<withdrawRequestAt, withdrawRequestAmount>>
paramVars    == <<stakePolicy, withdrawCooldown>>
registryVars == <<standingVars, stakeVars, disputeVars, requestVars, paramVars>>

RegistryOK ==
  /\ arbStatus \in [Arbitrators -> ArbStatus]
  /\ level \in [Arbitrators -> ArbLevel]
  /\ stake \in [Arbitrators -> Nat]
  /\ totalResolved \in [Arbitrators -> Nat]
  /\ activeDisputes \in [Arbitrators -> Nat]
  /\ withdrawRequestAt \in [Arbitrators -> Nat]
  /\ withdrawRequestAmount \in [Arbitrators -> Nat]
  /\ registryTokens \in Nat
  /\ stakePolicy \in [min : Nat, senior : Nat]
  /\ withdrawCooldown \in Nat
  /\ now \in Nat \ {0}

RegistryInit ==
  /\ arbStatus = [a \in Arbitrators |-> "NONE"]
  /\ level = [a \in Arbitrators |-> "TRAINEE"]
  /\ stake = [a \in Arbitrators |-> 0]
  /\ totalResolved = [a \in Arbitrators |-> 0]
  /\ activeDisputes = [a \in Arbitrators |-> 0]
  /\ withdrawRequestAt = [a \in Arbitrators |-> 0]
  /\ withdrawRequestAmount = [a \in Arbitrators |-> 0]
  /\ registryTokens = 0
  /\ stakePolicy \in StakePolicies
  /\ withdrawCooldown \in Cooldowns
  /\ now = 1

minStakeForLevel(l) == IF l = "SENIOR" THEN stakePolicy.senior ELSE stakePolicy.min

\* Slip: a withdrawal under way does not count.
isEligible_DuringWithdrawal(a) ==
  arbStatus[a] = "ACTIVE" /\ stake[a] >= minStakeForLevel(level[a])

isEligible(a) ==
  /\ arbStatus[a] = "ACTIVE"
  /\ stake[a] >= minStakeForLevel(level[a])
  /\ withdrawRequestAt[a] = 0

-----------------------------------------------------------------------------
(* Calls made by escrow clones                                             *)

BeginDispute(a) ==
  /\ arbStatus[a] # "NONE"
  /\ activeDisputes' = [activeDisputes EXCEPT ![a] = @ + 1]
  /\ UNCHANGED <<standingVars, stakeVars, totalResolved, requestVars, paramVars>>

EndDispute(a) ==
  /\ arbStatus[a] # "NONE"
  /\ activeDisputes[a] # 0
  /\ activeDisputes' = [activeDisputes EXCEPT ![a] = @ - 1]
  /\ totalResolved' = [totalResolved EXCEPT ![a] = @ + 1]
  /\ UNCHANGED <<standingVars, stakeVars, requestVars, paramVars>>

\* x leaves a's stake and the contract.
\* Slip: the arbitrator's stake stays.
TakesStake_KeepsStake(a, x) ==
  registryTokens >= x /\ registryTokens' = registryTokens - x /\ UNCHANGED stake

TakesStake(a, x) ==
  /\ registryTokens >= x
  /\ stake' = [stake EXCEPT ![a] = @ - x]
  /\ registryTokens' = registryTokens - x

-----------------------------------------------------------------------------
(* The admin's calls                                                       *)

Hire(a, l) ==
  /\ arbStatus[a] = "NONE"
  /\ arbStatus' = [arbStatus EXCEPT ![a] = "ACTIVE"]
  /\ level' = [level EXCEPT ![a] = l]
  /\ UNCHANGED <<wallet, treasuryVars, stakeVars, disputeVars, requestVars, paramVars>>

\* Any status may be set, NONE included.
SetStatus(a, newStatus) ==
  /\ arbStatus[a] # "NONE"
  /\ arbStatus' = [arbStatus EXCEPT ![a] = newStatus]
  /\ UNCHANGED <<wallet, treasuryVars, level, stakeVars, disputeVars, requestVars, paramVars>>

SetLevel(a, newLevel) ==
  /\ arbStatus[a] # "NONE"
  /\ level' = [level EXCEPT ![a] = newLevel]
  /\ UNCHANGED <<wallet, treasuryVars, arbStatus, stakeVars, disputeVars, requestVars,
                 paramVars>>

\* A slash is cut down to the stake; without a beneficiary it goes to the reserve.
Slash(a, amount, beneficiary) ==
  LET actual == AtMost(amount, stake[a])
  IN  /\ arbStatus[a] # "NONE"
      /\ actual > 0
      /\ TakesStake(a, actual)
      /\ \/ /\ beneficiary = NoOne
            /\ DepositSlashedStake(actual)
            /\ UNCHANGED wallet
         \/ /\ beneficiary # NoOne
            /\ wallet' = Credit(wallet, beneficiary, actual)
            /\ UNCHANGED treasuryVars
      /\ UNCHANGED <<standingVars, disputeVars, requestVars, paramVars>>

SetMinStake(policy) ==
  /\ stakePolicy' = policy
  /\ UNCHANGED <<wallet, treasuryVars, standingVars, stakeVars, disputeVars, requestVars,
                 withdrawCooldown>>

SetWithdrawCooldown(c) ==
  /\ withdrawCooldown' = c
  /\ UNCHANGED <<wallet, treasuryVars, standingVars, stakeVars, disputeVars, requestVars,
                 stakePolicy>>

-----------------------------------------------------------------------------
(* The arbitrator's calls                                                  *)

DepositStake(a, amount) ==
  /\ arbStatus[a] # "NONE"
  /\ Pays(a, amount)
  /\ stake' = [stake EXCEPT ![a] = @ + amount]
  /\ registryTokens' = registryTokens + amount
  /\ UNCHANGED <<treasuryVars, standingVars, disputeVars, requestVars, paramVars>>

RequestWithdraw(a, amount) ==
  /\ arbStatus[a] \notin {"NONE", "PROBATION", "SUSPENDED"}
  /\ amount <= stake[a]
  /\ withdrawRequestAt[a] = 0
  /\ activeDisputes[a] = 0
  /\ arbStatus[a] = "TERMINATED" \/ stake[a] - amount >= minStakeForLevel(level[a])
  /\ withdrawRequestAt' = [withdrawRequestAt EXCEPT ![a] = now]
  /\ withdrawRequestAmount' = [withdrawRequestAmount EXCEPT ![a] = amount]
  /\ UNCHANGED <<wallet, treasuryVars, standingVars, stakeVars, disputeVars, paramVars>>

ClearRequest(a) ==
  /\ withdrawRequestAt[a] # 0
  /\ withdrawRequestAt' = [withdrawRequestAt EXCEPT ![a] = 0]
  /\ withdrawRequestAmount' = [withdrawRequestAmount EXCEPT ![a] = 0]

\* The minimum stake is not looked at again.
Withdraw(a) ==
  LET amount == withdrawRequestAmount[a]
  IN  /\ ClearRequest(a)
      /\ now >= withdrawRequestAt[a] + withdrawCooldown
      /\ arbStatus[a] \notin {"PROBATION", "SUSPENDED"}
      /\ activeDisputes[a] = 0
      /\ amount <= stake[a]
      /\ TakesStake(a, amount)
      /\ wallet' = Credit(wallet, a, amount)
      /\ UNCHANGED <<treasuryVars, standingVars, disputeVars, paramVars>>

CancelWithdrawRequest(a) ==
  /\ ClearRequest(a)
  /\ UNCHANGED <<wallet, treasuryVars, standingVars, stakeVars, disputeVars, paramVars>>

RegistryNext ==
  \E a \in Arbitrators :
    \/ \E l \in Levels : Hire(a, l)
    \/ \E s \in AdminStatuses : SetStatus(a, s)
    \/ \E l \in Levels : SetLevel(a, l)
    \/ \E x \in StakeAmounts, b \in Parties \cup {NoOne} : Slash(a, x, b)
    \/ \E x \in StakeAmounts : DepositStake(a, x)
    \/ \E x \in StakeAmounts : RequestWithdraw(a, x)
    \/ Withdraw(a)
    \/ CancelWithdrawRequest(a)

RegistryAdminNext ==
  \/ \E p \in StakePolicies : SetMinStake(p)
  \/ \E c \in Cooldowns : SetWithdrawCooldown(c)

-----------------------------------------------------------------------------
\* An arbitrator with a dispute in hand has no withdrawal under way, so the stake
\* behind a dispute cannot start leaving before the dispute is decided: the check
\* of activeDisputes in requestWithdraw and that of withdrawRequestAt in
\* isEligible together exclude both orders of the two calls.
WithdrawalExcludesDisputes ==
  \A a \in Arbitrators : withdrawRequestAt[a] # 0 => activeDisputes[a] = 0
====
