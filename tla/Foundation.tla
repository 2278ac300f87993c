----------------------------- MODULE Foundation -----------------------------
(***************************************************************************)
(* Vaults (pallets/foundation).  A seller pays a beneficiary an amount     *)
(* that stays reserved: first_amount until epoch delay, then amount every  *)
(* interval epochs, times times.  If the seller has asked for approvals, a *)
(* part that is not approved in time goes back to the seller.  An epoch is *)
(* Duration blocks; on_initialize releases at its first block.             *)
(*                                                                         *)
(* Anybody may put any fund into the vault of anybody who has none: the    *)
(* total wraps, and neither times nor the interval is looked at.           *)
(***************************************************************************)
EXTENDS Native

CONSTANTS
    Duration,   \* blocks of an epoch
    Width,      \* of a balance (2^128)
    EpochWidth  \* of an epoch, an interval and a number of parts (2^32)

(* The issuance is a balance, so that no sum of balances wraps. *)
ASSUME FoundationAssumption ==
    /\ Duration \in Nat \ {0}
    /\ Width \in Nat \ {0} /\ SumTo(InitFree, NUsers) < Width
    /\ EpochWidth \in Nat \ {0, 1} /\ MaxBlock < EpochWidth

VARIABLES
    vaults,     \* Foundation, by beneficiary; NoVault if there is none
    approvals,  \* Approvals, by <<beneficiary, epoch>>; Nobody if there is none
    stuck,      \* what could not be returned and stays reserved (history)
    unsound     \* the beneficiaries of funds that are not Sound (history)

foundationVars == <<vaults, approvals, stuck, unsound>>

Nobody == 0
Epochs == 0..(MaxBlock \div Duration)
NoVault == [delay |-> 0, interval |-> 1, times |-> 0, amount |-> 0, first |-> 0]
Amounts == 0..(Width - 1)
Numbers == 0..(EpochWidth - 1)
VaultType == [delay : Numbers, interval : Numbers, times : Numbers, amount : Amounts, first : Amounts]

FoundationTypeOK ==
    /\ vaults \in [Users -> VaultType]
    /\ approvals \in [Users \X Epochs -> Users \cup {Nobody}]
    /\ stuck \in [Users -> Nat]
    /\ unsound \subseteq Users

FoundationInit ==
    /\ vaults = [b \in Users |-> NoVault]
    /\ approvals = [k \in Users \X Epochs |-> Nobody]
    /\ stuck = [b \in Users |-> 0]
    /\ unsound = {}

epoch == now \div Duration
TotalOf(v) == (v.amount * v.times + v.first) % Width
LastEpoch(v) == v.delay + v.times * v.interval

(* What a fund should be: at least one part, an epoch or more between the  *)
(* parts, and a total that is a balance.                                   *)
Sound(v) == v.times > 0 /\ v.interval > 0 /\ v.amount * v.times + v.first < Width

(* An unlock_fund of epoch e concerns vault v: also one without parts.     *)
IsRelease(v, e) ==
    v # NoVault /\ v.interval > 0 /\ e >= v.delay /\ (e - v.delay) % v.interval = 0

(* An unlock_fund of epoch e takes a remainder by zero. *)
Panics(v, e) == e >= v.delay /\ v.interval = 0

-----------------------------------------------------------------------------
(* Extrinsics, of an account with the free balances f. *)

(* That its last part would be due by the last block is a bound; within it *)
(* no epoch wraps.                                                         *)
can_put_into_vault(f, seller, b, fund) ==
    /\ vaults[b] = NoVault
    /\ epoch < fund.delay
    /\ CanMove(f, seller, TotalOf(fund))
    /\ LastEpoch(fund) \in Epochs

put_into_vault(f, seller, b, fund, need_to_approve) ==
    LET paid == Moved(f, seller, b, TotalOf(fund))
        asked == {fund.delay + i * fund.interval : i \in 0..(fund.times - 1)}
    IN  /\ free' = [paid EXCEPT ![b] = @ - TotalOf(fund)]
        /\ reserved' = [reserved EXCEPT ![b] = @ + TotalOf(fund)]
        /\ vaults' = [vaults EXCEPT ![b] = fund]
        /\ approvals' = [k \in Users \X Epochs |->
               IF need_to_approve /\ k[1] = b /\ k[2] \in asked THEN seller ELSE approvals[k]]
        /\ unsound' = IF Sound(fund) THEN unsound ELSE unsound \cup {b}
        /\ UNCHANGED stuck

(* Approving what needs no approval succeeds as well. *)
can_approve(u, b, e) == approvals[<<b, e>>] \in {u, Nobody}

approve(f, u, b, e) ==
    /\ free' = f
    /\ approvals' = [approvals EXCEPT ![<<b, e>>] = Nobody]
    /\ UNCHANGED <<reserved, vaults, stuck, unsound>>

-----------------------------------------------------------------------------
(* on_initialize. *)

(* The balances l after vault b: what is due becomes free, for the         *)
(* beneficiary, or for the approver if it is alive.                        *)
AfterVault(l, b, e) ==
    LET v == vaults[b]
        due == IF ~IsRelease(v, e) THEN 0 ELSE IF e = v.delay THEN v.first ELSE v.amount
        x == IF l.reserved[b] < due THEN l.reserved[b] ELSE due
        a == approvals[<<b, e>>]
        to == IF a = Nobody THEN b ELSE a
    IN  IF x = 0 THEN l
        ELSE IF ~Alive(l.free, l.reserved, to) THEN [l EXCEPT !.stuck[b] = @ + x]
        ELSE [l EXCEPT !.free[to] = @ + x, !.reserved[b] = @ - x]

(* The vaults one after another. *)
AfterVaults(e) ==
    LET l[b \in 0..NUsers] ==
            IF b = 0 THEN [free |-> free, reserved |-> reserved, stuck |-> stuck]
            ELSE AfterVault(l[b - 1], b, e)
    IN  l[NUsers]

VaultAfterKept(v, e) == \* mutant: the empty vault is written back
    IF ~IsRelease(v, e) \/ e = v.delay THEN v
    ELSE [v EXCEPT !.times = IF @ = 0 THEN EpochWidth - 1 ELSE @ - 1]

(* After the first amount a part less; a vault without parts has all of    *)
(* them again, less one.                                                   *)
VaultAfter(v, e) ==
    IF ~IsRelease(v, e) \/ e = v.delay THEN v
    ELSE IF v.times = 1 THEN NoVault
    ELSE [v EXCEPT !.times = IF @ = 0 THEN EpochWidth - 1 ELSE @ - 1]

(* Mutant: the vault is removed one part early. *)
unlock_fund_early(e) ==
    LET l == AfterVaults(e)
    IN  /\ \A b \in Users : ~Panics(vaults[b], e)
        /\ UNCHANGED unsound
        /\ free' = l.free /\ reserved' = l.reserved /\ stuck' = l.stuck
        /\ vaults' = [b \in Users |->
               IF vaults[b].times = 2 /\ IsRelease(vaults[b], e) /\ e # vaults[b].delay
               THEN NoVault ELSE VaultAfter(vaults[b], e)]
        /\ approvals' = [k \in Users \X Epochs |->
               IF k[2] = e /\ IsRelease(vaults[k[1]], e) THEN Nobody ELSE approvals[k]]

(* With a vault that makes it panic there is no block. *)
unlock_fund(e) ==
    LET l == AfterVaults(e)
    IN  /\ \A b \in Users : ~Panics(vaults[b], e)
        /\ UNCHANGED unsound
        /\ free' = l.free /\ reserved' = l.reserved /\ stuck' = l.stuck
        /\ vaults' = [b \in Users |-> VaultAfter(vaults[b], e)]
        /\ approvals' = [k \in Users \X Epochs |->
               IF k[2] = e /\ IsRelease(vaults[k[1]], e) THEN Nobody ELSE approvals[k]]

initialize(b) ==
    IF b % Duration = 0 THEN unlock_fund(b \div Duration)
    ELSE UNCHANGED <<ledger, foundationVars>>

-----------------------------------------------------------------------------
(* What a vault has still to release after epoch e. *)
Remaining(v, e) == v.amount * v.times + (IF e < v.delay THEN v.first ELSE 0)

(* The epoch of the last part after epoch e: times counts down, while      *)
(* delay stays what it was.                                                *)
PartsBy(v, e) == IF e < v.delay THEN 0 ELSE (e - v.delay) \div v.interval
LastRelease(v, e) == v.delay + (v.times + PartsBy(v, e)) * v.interval

(* An approval that is asked for is about a part that is still to come,    *)
(* and not about the last one: an old one never decides about a later      *)
(* vault of the same beneficiary.                                          *)
ApprovalsArePending ==
    \A b \in Users \ unsound, e \in Epochs : approvals[<<b, e>>] # Nobody
        => e > epoch /\ IsRelease(vaults[b], e) /\ e < LastRelease(vaults[b], epoch)
=============================================================================
