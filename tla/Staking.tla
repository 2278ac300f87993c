------------------------------ MODULE Staking ------------------------------
(***************************************************************************)
(* Staking on dominators and the shares of their fees (pallets/verifier).  *)
(*                                                                         *)
(* Stakers lock native tokens on a dominator, which is online while enough *)
(* is staked on it.  The fees of trades (put_profit) collect per season,   *)
(* a season being SeasonDuration blocks from the dominator's start.  When  *)
(* a season ends, on_initialize writes down how much was staked; from then *)
(* on a staker may take profit * own stake / that amount.  stake, unstake  *)
(* and claim_shares all pay what is due up to the season before the        *)
(* current one and move the staking's from_season on.  Unstaked tokens     *)
(* stay reserved until a later block, whose on_initialize gives them back. *)
(*                                                                         *)
(* One quote token carries the profits; the native token is the only one   *)
(* staked.  Every extrinsic is atomic and runs inside one block.           *)
(***************************************************************************)
EXTENDS Integers, Sums

CONSTANTS
    NStakers,         \* stakers are 1..NStakers
    NDominators,      \* dominators are 1..NDominators
    SeasonDuration,   \* blocks of a season
    GracePeriod,      \* DominatorCheckGracePeriod
    UnstakeDelay,     \* UNSTAKE_DELAY_BLOCKS
    OnlineThreshold,  \* DominatorOnlineThreshold
    MinStake,         \* MinimalStakingAmount
    Parts,            \* the accuracy of Perquintill
    Funds,            \* the native tokens each staker starts with
    Amounts,          \* the amounts a staker may name in a call (a bound)
    Profits,          \* the fees one trade may leave (a bound)
    MaxProfit,        \* the fees of one season at most (a bound)
    MaxBlock          \* the last block (a bound)

Stakers == 1..NStakers
Dominators == 1..NDominators
Positions == Stakers \X Dominators
Blocks == 0..MaxBlock
UnlockBlocks == 0..(MaxBlock + UnstakeDelay)
Seasons == 0..MaxBlock
SeasonKeys == Dominators \X Seasons

ASSUME CountAssumption == NStakers \in Nat /\ NDominators \in Nat /\ MaxBlock \in Nat
ASSUME PeriodAssumption ==
    /\ GracePeriod \in Nat \ {0} /\ SeasonDuration \in Nat \ {0} /\ UnstakeDelay \in Nat \ {0}
    /\ SeasonDuration % GracePeriod = 0 /\ UnstakeDelay % GracePeriod = 0
ASSUME AmountAssumption ==
    /\ OnlineThreshold \in Nat \ {0} /\ MinStake \in Nat \ {0} /\ Parts \in Nat \ {0}
    /\ Amounts \subseteq Nat /\ Profits \subseteq Nat \ {0} /\ MaxProfit \in Nat
    /\ Funds \in [Stakers -> Nat]

VARIABLES
    now,       \* the current block
    status,    \* Dominators[d].status, or "None" before register
    start,     \* Dominators[d].start_from
    staked,    \* Dominators[d].staked
    staking,   \* Stakings[d][u], keyed <<u, d>>; amount 0 if there is none
    bonuses,   \* Bonuses[d][season], keyed <<d, season>>
    locked,    \* Reserves with RESERVE_FOR_STAKING, keyed <<u, d>>
    unlocking, \* Reserves with RESERVE_FOR_PENDING_UNSTAKE, by staker
    pending,   \* PendingUnstakings, keyed <<block, u>>
    free,      \* the native token's free balance
    reserved,  \* the native token's reserved balance
    earned     \* the quote tokens a staker has been paid

vars == <<now, status, start, staked, staking, bonuses, locked, unlocking, pending,
          free, reserved, earned>>
dominators == <<status, start, staked>>
accounts == <<free, reserved, earned>>

NoStaking == [amount |-> 0, from |-> 0]

TypeOK ==
    /\ now \in Blocks
    /\ status \in [Dominators -> {"None", "Registered", "Inactive", "Active", "Evicted"}]
    /\ start \in [Dominators -> Blocks]
    /\ staked \in [Dominators -> Nat]
    /\ staking \in [Positions -> [amount : Nat, from : Seasons]]
    /\ bonuses \in [SeasonKeys -> [staked : Nat, profit : Nat]]
    /\ locked \in [Positions -> Nat]
    /\ unlocking \in [Stakers -> Nat]
    /\ pending \in [UnlockBlocks \X Stakers -> Nat]
    /\ free \in [Stakers -> Nat]
    /\ reserved \in [Stakers -> Nat]
    /\ earned \in [Stakers -> Nat]

Init ==
    /\ now = 0
    /\ status = [d \in Dominators |-> "None"]
    /\ start = [d \in Dominators |-> 0]
    /\ staked = [d \in Dominators |-> 0]
    /\ staking = [p \in Positions |-> NoStaking]
    /\ bonuses = [k \in SeasonKeys |-> [staked |-> 0, profit |-> 0]]
    /\ locked = [p \in Positions |-> 0]
    /\ unlocking = [u \in Stakers |-> 0]
    /\ pending = [k \in UnlockBlocks \X Stakers |-> 0]
    /\ free = Funds
    /\ reserved = [u \in Stakers |-> 0]
    /\ earned = [u \in Stakers |-> 0]

-----------------------------------------------------------------------------
(* Seasons and shares. *)

current_season(d) == IF now <= start[d] THEN 0 ELSE (now - start[d]) \div SeasonDuration

(* The block rounded down to the check of on_initialize. *)
CheckBlock(b) == b - (b % GracePeriod)

(* Perquintill::from_rational rounds down, Perquintill * Balance rounds to *)
(* the nearest, halves down.                                               *)
FromRational(x, total) == (x * Parts) \div total
MulNearest(r, x) == (2 * r * x + Parts - 1) \div (2 * Parts)

(* What a stake of x gets of the profit of a season. *)
Share(d, season, x) ==
    LET bonus == bonuses[<<d, season>>]
    IN  IF bonus.staked = 0 THEN 0 ELSE MulNearest(FromRational(x, bonus.staked), bonus.profit)

(* The loop of take_shares, which pending_shares_of_dominator repeats. *)
SharesUntil(u, d, to) ==
    LET s == staking[<<u, d>>]
        n == IF to > s.from THEN to - s.from ELSE 0
    IN  SumTo([i \in 1..n |-> Share(d, s.from + i - 1, s.amount)], n)

PendingShares(u, d) ==
    IF staking[<<u, d>>].amount = 0 THEN 0 ELSE SharesUntil(u, d, current_season(d))

take_shares(u, d) == earned' = [earned EXCEPT ![u] = @ + PendingShares(u, d)]

-----------------------------------------------------------------------------
(* Governance. *)

Register(d) ==
    /\ now >= GracePeriod
    /\ status[d] = "None"
    /\ status' = [status EXCEPT ![d] = "Registered"]
    /\ start' = [start EXCEPT ![d] = CheckBlock(now)]
    /\ UNCHANGED <<now, staked, staking, bonuses, locked, unlocking, pending, accounts>>

Launch(d) ==
    /\ status[d] = "Registered"
    /\ status' = [status EXCEPT ![d] = "Inactive"]
    /\ UNCHANGED <<now, start, staked, staking, bonuses, locked, unlocking, pending, accounts>>

Evict(d) ==
    /\ status[d] # "None"
    /\ status' = [status EXCEPT ![d] = "Evicted"]
    /\ UNCHANGED <<now, start, staked, staking, bonuses, locked, unlocking, pending, accounts>>

(* A trade leaves a fee: the first one of the current season or one more.  *)
PutProfit(d, x) ==
    LET k == <<d, current_season(d)>>
    IN  /\ status[d] = "Active"
        /\ bonuses[k].profit + x <= MaxProfit
        /\ bonuses' = [bonuses EXCEPT ![k].profit = @ + x]
        /\ UNCHANGED <<now, dominators, staking, locked, unlocking, pending, accounts>>

-----------------------------------------------------------------------------
(* What stakers call. *)

OnlineAbove(total) == IF total > OnlineThreshold THEN "Active" ELSE "Inactive" \* mutant
Online(total) == IF total >= OnlineThreshold THEN "Active" ELSE "Inactive"

(* The reserve for staking.  Mutant: whatever the free balance is. *)
LockUnfunded(u, d, x) ==
    /\ free' = [free EXCEPT ![u] = @ - x]
    /\ reserved' = [reserved EXCEPT ![u] = @ + x]
    /\ locked' = [locked EXCEPT ![<<u, d>>] = @ + x]
Lock(u, d, x) ==
    /\ free[u] >= x
    /\ free' = [free EXCEPT ![u] = @ - x]
    /\ reserved' = [reserved EXCEPT ![u] = @ + x]
    /\ locked' = [locked EXCEPT ![<<u, d>>] = @ + x]

(* Mutant: the staking keeps its season. *)
StakeOnKeepsSeason(u, d, x) ==
    /\ x >= MinStake
    /\ status[d] \in {"Active", "Inactive"}
    /\ Lock(u, d, x)
    /\ take_shares(u, d)
    /\ staking' = [staking EXCEPT ![<<u, d>>].amount = @ + x]
    /\ staked' = [staked EXCEPT ![d] = @ + x]
    /\ status' = [status EXCEPT ![d] = Online(staked[d] + x)]
    /\ UNCHANGED <<now, start, bonuses, unlocking, pending>>

StakeOn(u, d, x) ==
    /\ x >= MinStake
    /\ status[d] \in {"Active", "Inactive"}
    /\ Lock(u, d, x)
    /\ take_shares(u, d)
    /\ staking' = [staking EXCEPT ![<<u, d>>] =
           [amount |-> @.amount + x, from |-> current_season(d)]]
    /\ staked' = [staked EXCEPT ![d] = @ + x]
    /\ status' = [status EXCEPT ![d] = Online(staked[d] + x)]
    /\ UNCHANGED <<now, start, bonuses, unlocking, pending>>

(* Where an unstaking moves the amount: the token pallet gives it free and *)
(* reserves it again.                                                      *)
MoveToUnlocking(u, d, x) ==
    /\ locked[<<u, d>>] >= x /\ reserved[u] >= x
    /\ locked' = [locked EXCEPT ![<<u, d>>] = @ - x]
    /\ unlocking' = [unlocking EXCEPT ![u] = @ + x]
    /\ pending' = [pending EXCEPT ![<<CheckBlock(now) + UnstakeDelay, u>>] = @ + x]

(* What is left of the staking.  Mutant: the minimum goes too. *)
RemainsAboveMin(p, x, season) ==
    LET remain == staking[p].amount - x
    IN  /\ staking[p].amount > 0
        /\ remain = 0 \/ remain >= MinStake
        /\ staking' = [staking EXCEPT ![p] =
               IF remain <= MinStake THEN NoStaking ELSE [amount |-> remain, from |-> season]]
Remains(p, x, season) ==
    LET remain == staking[p].amount - x
    IN  /\ staking[p].amount > 0
        /\ remain = 0 \/ remain >= MinStake
        /\ staking' = [staking EXCEPT ![p] =
               IF remain = 0 THEN NoStaking ELSE [amount |-> remain, from |-> season]]

(* Mutant: the shares of the ended seasons are not taken first. *)
UnstakeFromForfeits(u, d, x) ==
    /\ status[d] \notin {"None", "Registered"}
    /\ staked[d] >= x
    /\ Remains(<<u, d>>, x, current_season(d))
    /\ MoveToUnlocking(u, d, x)
    /\ staked' = [staked EXCEPT ![d] = @ - x]
    /\ status' = [status EXCEPT ![d] = IF @ = "Evicted" THEN @ ELSE Online(staked[d] - x)]
    /\ UNCHANGED <<now, start, bonuses, free, reserved, earned>>

UnstakeFrom(u, d, x) ==
    /\ status[d] \notin {"None", "Registered"}
    /\ staked[d] >= x
    /\ Remains(<<u, d>>, x, current_season(d))
    /\ MoveToUnlocking(u, d, x)
    /\ take_shares(u, d)
    /\ staked' = [staked EXCEPT ![d] = @ - x]
    /\ status' = [status EXCEPT ![d] = IF @ = "Evicted" THEN @ ELSE Online(staked[d] - x)]
    /\ UNCHANGED <<now, start, bonuses, free, reserved>>

ClaimSharesAgain(u, d) == \* mutant: the staking stays where it is
    /\ status[d] \notin {"None", "Registered"}
    /\ staking[<<u, d>>].amount > 0
    /\ take_shares(u, d)
    /\ UNCHANGED <<now, dominators, staking, bonuses, locked, unlocking, pending, free, reserved>>

ClaimShares(u, d) ==
    /\ status[d] \notin {"None", "Registered"}
    /\ staking[<<u, d>>].amount > 0
    /\ take_shares(u, d)
    /\ staking' = [staking EXCEPT ![<<u, d>>].from = current_season(d)]
    /\ UNCHANGED <<now, dominators, bonuses, locked, unlocking, pending, free, reserved>>

-----------------------------------------------------------------------------
(* A new block: on_initialize.  Only every GracePeriod blocks does it look *)
(* at the dominators whose season ends here and at the tokens to unlock.   *)

EndsSeason(d, b) ==
    status[d] # "None" /\ b # start[d] /\ (b - start[d]) % SeasonDuration = 0

EndedSeason(d, b) == (b - start[d]) \div SeasonDuration - 1

Snapshot(b) ==
    bonuses' = [k \in SeasonKeys |->
        IF EndsSeason(k[1], b) /\ k[2] = EndedSeason(k[1], b)
        THEN [bonuses[k] EXCEPT !.staked = staked[k[1]]]
        ELSE bonuses[k]]

(* Mutant: the reserve entry stays. *)
UnlockKeepsEntry(b) ==
    LET due(u) == pending[<<b, u>>]
        ok(u) == unlocking[u] >= due(u) /\ reserved[u] >= due(u)
        paid == [u \in Stakers |-> IF ok(u) THEN due(u) ELSE 0]
    IN  /\ pending' = [k \in UnlockBlocks \X Stakers |-> IF k[1] = b THEN 0 ELSE pending[k]]
        /\ reserved' = [u \in Stakers |-> reserved[u] - paid[u]]
        /\ free' = [u \in Stakers |-> free[u] + paid[u]]
        /\ UNCHANGED unlocking

(* The entries are drained whether or not the unreserve succeeds. *)
Unlock(b) ==
    LET due(u) == pending[<<b, u>>]
        ok(u) == unlocking[u] >= due(u) /\ reserved[u] >= due(u)
        paid == [u \in Stakers |-> IF ok(u) THEN due(u) ELSE 0]
    IN  /\ pending' = [k \in UnlockBlocks \X Stakers |-> IF k[1] = b THEN 0 ELSE pending[k]]
        /\ unlocking' = [u \in Stakers |-> unlocking[u] - paid[u]]
        /\ reserved' = [u \in Stakers |-> reserved[u] - paid[u]]
        /\ free' = [u \in Stakers |-> free[u] + paid[u]]

(* Mutant: it looks once a season only. *)
NewBlockEachSeason ==
    /\ now < MaxBlock
    /\ now' = now + 1
    /\ IF now' % SeasonDuration = 0
       THEN Snapshot(now') /\ Unlock(now')
       ELSE UNCHANGED <<bonuses, pending, unlocking, reserved, free>>
    /\ UNCHANGED <<dominators, staking, locked, earned>>

NewBlock ==
    /\ now < MaxBlock
    /\ now' = now + 1
    /\ IF now' % GracePeriod = 0
       THEN Snapshot(now') /\ Unlock(now')
       ELSE UNCHANGED <<bonuses, pending, unlocking, reserved, free>>
    /\ UNCHANGED <<dominators, staking, locked, earned>>

-----------------------------------------------------------------------------
Governance(d) == Register(d) \/ Launch(d) \/ Evict(d) \/ \E x \in Profits : PutProfit(d, x)

StakerCall(u, d) ==
    \/ \E x \in Amounts : StakeOn(u, d, x) \/ UnstakeFrom(u, d, x)
    \/ ClaimShares(u, d)

Next ==
    \/ NewBlock
    \/ \E d \in Dominators : Governance(d) \/ \E u \in Stakers : StakerCall(u, d)

Spec == Init /\ [][Next]_vars

(* Blocks keep being produced. *)
FairSpec == Spec /\ WF_vars(NewBlock)

-----------------------------------------------------------------------------
(* Properties. *)

(* What a dominator counts as staked, what its stakers have staked and     *)
(* what is reserved for it are the same amount.                            *)
StakedIsSum ==
    /\ \A d \in Dominators :
          staked[d] = SumTo([u \in Stakers |-> staking[<<u, d>>].amount], NStakers)
    /\ \A p \in Positions : locked[p] = staking[p].amount

(* A launched dominator that is not evicted is online exactly while the    *)
(* threshold is staked on it, whatever order stakes and unstakes come in.  *)
OnlineAtThreshold ==
    \A d \in Dominators : status[d] \in {"Active", "Inactive"}
        => (status[d] = "Active" <=> staked[d] >= OnlineThreshold)

(* Those who may still take shares of an ended season have no more staked  *)
(* than on_initialize wrote down when it ended: however stakes, unstakes   *)
(* and claims interleave with the end of a season, no profit is promised   *)
(* twice.                                                                  *)
SnapshotCoversUnclaimed ==
    \A d \in Dominators : \A season \in 0..(current_season(d) - 1) :
        SumTo([u \in Stakers |-> IF staking[<<u, d>>].from <= season
                                 THEN staking[<<u, d>>].amount ELSE 0], NStakers)
            <= bonuses[<<d, season>>].staked

(* What a staker has been paid or may still claim. *)
Entitled(u) ==
    earned[u] + SumTo([d \in Dominators |-> PendingShares(u, d)], NDominators)

(* No call changes what any staker is entitled to from ended seasons, the  *)
(* caller's included: staking more, unstaking and claiming early pay       *)
(* exactly what waiting would.                                             *)
CallsKeepEntitlements ==
    [][now' = now => \A u \in Stakers : Entitled(u)' = Entitled(u)]_vars

(* The profit of the seasons that have ended. *)
EndedProfit(d) ==
    LET n == current_season(d)
    IN  SumTo([i \in 1..n |-> bonuses[<<d, i - 1>>].profit], n)

(* Stakers get no more than the profit, but for the rounding of each share *)
(* to the nearest unit: less than half a unit for each staker and season.  *)
PaidFromProfit ==
    2 * SumTo([u \in Stakers |-> Entitled(u)], NStakers)
      <= SumTo([d \in Dominators |-> 2 * EndedProfit(d) + NStakers * current_season(d)],
               NDominators)

(* What is reserved is either staked or waits to be unlocked: stakes on    *)
(* several dominators and unstakes of several blocks share one reserved    *)
(* balance, no unlock finds less than it is to give back, and what waits   *)
(* does so for a later block, one at which on_initialize looks.            *)
ReservedIsStakedOrPending ==
    \A u \in Stakers :
        /\ unlocking[u] = SumTo([b \in 1..(MaxBlock + UnstakeDelay) |-> pending[<<b, u>>]],
                                MaxBlock + UnstakeDelay)
        /\ reserved[u] = unlocking[u]
                           + SumTo([d \in Dominators |-> locked[<<u, d>>]], NDominators)
        /\ \A b \in UnlockBlocks : pending[<<b, u>>] > 0 => b > now /\ b % GracePeriod = 0

(* Stakings, reserves and the token pallet's balances agree. *)
StakesAreReserved == TypeOK /\ StakedIsSum /\ ReservedIsStakedOrPending

(* Every unstaked amount becomes free again: whatever waits for a block is *)
(* given back when the block comes.                                        *)
UnstakedIsFreed ==
    \A u \in Stakers, b \in {x \in Blocks : x % GracePeriod = 0 /\ x > UnstakeDelay} :
        pending[<<b, u>>] > 0 ~> pending[<<b, u>>] = 0
=============================================================================
