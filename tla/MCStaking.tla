----------------------------- MODULE MCStaking -----------------------------
(***************************************************************************)
(* An instance of Staking for TLC.  In a behavior there are either two     *)
(* stakers and the first dominator, with fees to share, or the first       *)
(* staker and two dominators, whose unstaked tokens share a reserve.       *)
(***************************************************************************)
EXTENDS Staking

VARIABLE setup

MCFunds == [u \in Stakers |-> 2]

Permitted ==
    IF setup = "two stakers"
    THEN status[2] = "None"
    ELSE /\ \A d \in Dominators : staking[<<2, d>>].amount = 0
         /\ \A k \in SeasonKeys : bonuses[k].profit = 0

MCInit == Init /\ setup \in {"two stakers", "two dominators"}
MCNext == Next /\ UNCHANGED setup /\ Permitted'
MCSpec == MCInit /\ [][MCNext]_<<vars, setup>> /\ WF_<<vars, setup>>(NewBlock /\ UNCHANGED setup)
=============================================================================
