------------------------------ MODULE MCReward ------------------------------
(***************************************************************************)
(* An instance of Reward for TLC: the first account still has a share of   *)
(* the first era from before the present rules.  At most MaxOpen orders    *)
(* are open, one account provides liquidity at a time, and the treasury    *)
(* lowers the rewards once, in the second era.                             *)
(***************************************************************************)
EXTENDS Reward, FiniteSets

CONSTANT MaxOpen

MCLegacyRewards ==
    [u \in Users |-> IF u = 1 THEN [confirmed |-> 0, pending_vol |-> 1, last_modify |-> 0]
                     ELSE NoReward]
MCLegacyVolumes == [e \in Eras |-> IF e = 0 THEN 2 ELSE 0]

Permitted ==
    /\ Cardinality({o \in Orders : orders[o].left > 0}) <= MaxOpen
    /\ \A u, v \in Users : pool[u].volume > 0 /\ pool[v].volume > 0 => u = v
    /\ era_rewards # RewardsPerEra => now >= EraDuration

MCNext ==
    /\ Next
    /\ Permitted'
    /\ era_rewards' # era_rewards => era_rewards = RewardsPerEra /\ now = EraDuration
MCSpec == Init /\ [][MCNext]_vars
=============================================================================
