------------------------------- MODULE Reward -------------------------------
(***************************************************************************)
(* Rewards of liquidity providers (pallets/reward), driven by the trades   *)
(* and cancellations the verifier accepts (verify_and_update).             *)
(*                                                                         *)
(* Who places an order provides liquidity: the pool remembers how much and *)
(* since when.  When somebody takes an order, its maker contributes the    *)
(* volume times the age of the liquidity to the era of the trade.  When an *)
(* account is touched in a later era its contribution turns into its share *)
(* of the rewards of that era, which take_reward mints.                    *)
(*                                                                         *)
(* One symbol; an account has at most one open bid and one open ask.  The  *)
(* matcher is honest, fills at the maker's price and takes no fees.  The   *)
(* liquidity the verifier puts is what the taker has frozen in the quote   *)
(* token; what it removes on a cancellation is the amount of the order.    *)
(***************************************************************************)
EXTENDS Integers, Sums

CONSTANTS
    NUsers,             \* accounts are 1..NUsers
    EraDuration,        \* blocks of an era
    TimeCoefficientZoom,
    RewardTerminateAt,  \* the last block at which an era is worth anything
    Parts,              \* the accuracy of Perquintill
    EraRewardsSet,      \* what the treasury may set as rewards of an era
    RewardsPerEra,      \* and what they are before
    LegacyRewards,      \* Rewards, which nothing adds to any more
    LegacyVolumes,      \* Volumes, by era
    Prices, Amounts,    \* of the orders (bounds)
    MaxTaken,           \* the contributions of an era (a bound)
    MaxBlock            \* the last block (a bound)

Users == 1..NUsers
Blocks == 0..MaxBlock
Sides == {"Ask", "Bid"}
Orders == Users \X Sides

ASSUME CountAssumption == NUsers \in Nat /\ MaxBlock \in Nat /\ MaxTaken \in Nat
ASSUME PeriodAssumption ==
    EraDuration \in Nat \ {0} /\ TimeCoefficientZoom \in Nat \ {0} /\ RewardTerminateAt \in Nat
ASSUME AmountAssumption ==
    /\ Parts \in Nat \ {0} /\ EraRewardsSet \subseteq Nat /\ RewardsPerEra \in EraRewardsSet
    /\ Prices \subseteq Nat \ {0} /\ Amounts \subseteq Nat \ {0}

begin_of_era(b) == b - (b % EraDuration)
Eras == {begin_of_era(b) : b \in Blocks}

RewardOf == [confirmed : Nat, pending_vol : Nat, last_modify : Eras]
NoReward == [confirmed |-> 0, pending_vol |-> 0, last_modify |-> 0]

(* The legacy records are of the era the model starts in. *)
ASSUME LegacyAssumption ==
    /\ LegacyRewards \in [Users -> RewardOf] /\ LegacyVolumes \in [Eras -> Nat]
    /\ \A u \in Users : LegacyRewards[u].last_modify = 0
    /\ \A e \in Eras : SumTo([u \in Users |-> IF LegacyRewards[u].last_modify = e
                                              THEN LegacyRewards[u].pending_vol ELSE 0], NUsers)
                           <= LegacyVolumes[e]

VARIABLES
    now,          \* the current block
    orders,       \* the open orders, kept by the matcher
    pool,         \* LiquidityPool of the symbol; volume 0 if there is none
    taken,        \* TakenLiquidity
    volumes,      \* TradingVolumes
    rewards,      \* MarketingRewards
    legacy,       \* Rewards
    era_rewards,  \* EraRewards
    free,         \* the native tokens minted to an account
    paid          \* what was confirmed for each era (history)

vars == <<now, orders, pool, taken, volumes, rewards, legacy, era_rewards, free, paid>>
market == <<orders, pool>>
records == <<rewards, legacy, paid>>

NoOrder == [price |-> 0, left |-> 0]
NoLiquidity == [volume |-> 0, start_from |-> 0]

TypeOK ==
    /\ now \in Blocks
    /\ orders \in [Orders -> [price : Nat, left : Nat]]
    /\ pool \in [Users -> [volume : Nat, start_from : Blocks]]
    /\ taken \in [Eras -> Nat] /\ volumes \in [Eras -> Nat]
    /\ rewards \in [Users -> RewardOf] /\ legacy \in [Users -> RewardOf]
    /\ era_rewards \in EraRewardsSet
    /\ free \in [Users -> Nat] /\ paid \in [Eras -> Nat]

Init ==
    /\ now = 0
    /\ orders = [o \in Orders |-> NoOrder]
    /\ pool = [u \in Users |-> NoLiquidity]
    /\ taken = [e \in Eras |-> 0] /\ volumes = [e \in Eras |-> 0]
    /\ rewards = [u \in Users |-> NoReward]
    /\ legacy = LegacyRewards
    /\ era_rewards = RewardsPerEra
    /\ free = [u \in Users |-> 0]
    /\ paid = [e \in Eras |-> 0]

-----------------------------------------------------------------------------
(* The rotation of a record, which rotate_reward and rotate_legacy_reward  *)
(* share: r is the record, total the contributions of the era of r.        *)

(* Perquintill::from_rational rounds down and is 1 at most, Perquintill *  *)
(* Balance rounds to the nearest, halves down.                             *)
FromRational(x, total) == IF x > total THEN Parts ELSE (x * Parts) \div total
MulNearest(r, x) == (2 * r * x + Parts - 1) \div (2 * Parts)

EraReward == IF now > RewardTerminateAt THEN 0 ELSE era_rewards

IsDue(r, e) == r.last_modify # e /\ r.pending_vol # 0
Due(r, total, e) ==
    IF IsDue(r, e) THEN MulNearest(FromRational(r.pending_vol, total), EraReward) ELSE 0

(* Otherwise DivideByZero. *)
CanRotate(r, total, e) == IsDue(r, e) => total > 0

(* Mutants: what was pending is lost, or stays pending. *)
RotatedForfeit(r, total, e, x) ==
    [confirmed |-> r.confirmed,
     pending_vol |-> IF r.last_modify = e THEN r.pending_vol + x ELSE x,
     last_modify |-> e]
RotatedKeepsPending(r, total, e, x) ==
    [confirmed |-> r.confirmed + Due(r, total, e),
     pending_vol |-> r.pending_vol + x,
     last_modify |-> IF IsDue(r, e) THEN r.last_modify ELSE e]

Rotated(r, total, e, x) ==
    [confirmed |-> r.confirmed + Due(r, total, e),
     pending_vol |-> IF r.last_modify = e THEN r.pending_vol + x ELSE x,
     last_modify |-> e]

(* The record after a claim: gone unless something is pending in it. *)
Claimed(r) ==
    IF r.confirmed > 0 THEN IF r.pending_vol > 0 THEN [r EXCEPT !.confirmed = 0] ELSE NoReward
    ELSE r

-----------------------------------------------------------------------------
(* Liquidity. *)

PutLiquidity(p, u, vol) ==
    IF vol = 0 THEN p ELSE [p EXCEPT ![u] = [volume |-> vol, start_from |-> now]]

CanRemove(u, vol) == vol > 0 /\ pool[u].volume > 0 /\ pool[u].volume >= vol

RemoveLiquidity(u, vol) ==
    IF ~CanRemove(u, vol) THEN pool
    ELSE [pool EXCEPT ![u] = IF @.volume = vol THEN NoLiquidity
                             ELSE [volume |-> @.volume - vol, start_from |-> @.start_from]]

(* At least 1, however young the liquidity is. *)
Coefficient(age) ==
    LET c == (IF age < EraDuration THEN age ELSE EraDuration) \div TimeCoefficientZoom
    IN  IF c > 1 THEN c ELSE 1

(* What the maker contributes; without liquidity nothing. *)
Contribution(u, vol) ==
    IF CanRemove(u, vol) THEN Coefficient(now - pool[u].start_from) * vol ELSE 0

(* The records of maker u, mutant: the era of the trade is not touched. *)
ConsumeLiquidityUntaken(u, vol) ==
    LET e == begin_of_era(now)
        c == Contribution(u, vol)
    IN  IF ~CanRemove(u, vol) THEN UNCHANGED <<taken, volumes, rewards, paid>>
        ELSE /\ CanRotate(rewards[u], taken[rewards[u].last_modify], e)
             /\ volumes' = [volumes EXCEPT ![e] = @ + vol]
             /\ rewards' = [rewards EXCEPT ![u] = Rotated(@, taken[@.last_modify], e, c)]
             /\ paid' = [paid EXCEPT ![rewards[u].last_modify] =
                    @ + Due(rewards[u], taken[rewards[u].last_modify], e)]
             /\ UNCHANGED taken

(* The records of maker u when volume vol is taken from it. *)
ConsumeLiquidity(u, vol) ==
    LET e == begin_of_era(now)
        c == Contribution(u, vol)
        taken1 == [taken EXCEPT ![e] = @ + c]
        last == rewards[u].last_modify
    IN  IF ~CanRemove(u, vol) THEN UNCHANGED <<taken, volumes, rewards, paid>>
        ELSE /\ taken[e] + c <= MaxTaken
             /\ CanRotate(rewards[u], taken1[last], e)
             /\ taken' = taken1
             /\ volumes' = [volumes EXCEPT ![e] = @ + vol]
             /\ rewards' = [rewards EXCEPT ![u] = Rotated(@, taken1[last], e, c)]
             /\ paid' = [paid EXCEPT ![last] = @ + Due(rewards[u], taken1[last], e)]

-----------------------------------------------------------------------------
(* What the verifier calls. *)

Opposite(side) == IF side = "Ask" THEN "Bid" ELSE "Ask"
Meets(side, price, best) == IF side = "Ask" THEN price <= best ELSE price >= best

(* The quote tokens an account has frozen, which is its unfilled_volume. *)
Frozen(os, u) == os[<<u, "Bid">>].price * os[<<u, "Bid">>].left

(* An order that meets none: AskLimit or BidLimit without makers. *)
Place(t, side, price, amount) ==
    /\ orders[<<t, side>>].left = 0
    /\ \A m \in Users : LET o == orders[<<m, Opposite(side)>>]
                       IN  o.left > 0 => ~Meets(side, price, o.price)
    /\ orders' = [orders EXCEPT ![<<t, side>>] = [price |-> price, left |-> amount]]
    /\ pool' = PutLiquidity(pool, t, Frozen(orders', t))
    /\ UNCHANGED <<now, taken, volumes, records, era_rewards, free>>

(* An order that takes that of m, or a part of it.  What is left of it, in *)
(* rest, is placed, or cancelled by the matcher, and then rest is 0.       *)
Trade(t, side, price, amount, m, fill, rest) ==
    LET o == orders[<<m, Opposite(side)>>]
        filled == [orders EXCEPT ![<<m, Opposite(side)>>] =
                      IF @.left = fill THEN NoOrder ELSE [price |-> @.price, left |-> @.left - fill]]
    IN  /\ m # t /\ orders[<<t, side>>].left = 0
        /\ fill <= amount /\ fill <= o.left
        /\ rest > 0 => rest = amount - fill /\ fill = o.left
        /\ Meets(side, price, o.price)
        /\ orders' = [filled EXCEPT ![<<t, side>>] =
               IF rest = 0 THEN NoOrder ELSE [price |-> price, left |-> rest]]
        /\ ConsumeLiquidity(m, fill * o.price)
        /\ pool' = PutLiquidity(RemoveLiquidity(m, fill * o.price), t, Frozen(orders', t))
        /\ UNCHANGED <<now, legacy, era_rewards, free>>

(* The liquidity is removed by amount; that it fails is ignored. *)
Cancel(u, side) ==
    /\ orders[<<u, side>>].left > 0
    /\ pool' = RemoveLiquidity(u, orders[<<u, side>>].left)
    /\ orders' = [orders EXCEPT ![<<u, side>>] = NoOrder]
    /\ UNCHANGED <<now, taken, volumes, records, era_rewards, free>>

-----------------------------------------------------------------------------
(* What accounts, the treasury and time do. *)

(* The legacy record is claimed first. *)
TakeReward(u) ==
    LET e == begin_of_era(now)
        last == rewards[u].last_modify
        old == Rotated(legacy[u], LegacyVolumes[legacy[u].last_modify], e, 0)
        new == Rotated(rewards[u], taken[last], e, 0)
    IN  /\ CanRotate(legacy[u], LegacyVolumes[legacy[u].last_modify], e)
        /\ CanRotate(rewards[u], taken[last], e)
        /\ legacy' = [legacy EXCEPT ![u] = Claimed(old)]
        /\ rewards' = [rewards EXCEPT ![u] = Claimed(new)]
        /\ paid' = [paid EXCEPT ![last] = @ + Due(rewards[u], taken[last], e)]
        /\ free' = [free EXCEPT ![u] = @ + old.confirmed + new.confirmed]
        /\ UNCHANGED <<now, market, taken, volumes, era_rewards>>

SetEraRewards(r) ==
    /\ era_rewards' = r
    /\ UNCHANGED <<now, market, taken, volumes, records, free>>

NewBlock ==
    /\ now < MaxBlock
    /\ now' = now + 1
    /\ UNCHANGED <<market, taken, volumes, records, era_rewards, free>>

-----------------------------------------------------------------------------
Next ==
    \/ NewBlock
    \/ \E r \in EraRewardsSet : SetEraRewards(r)
    \/ \E u \in Users :
          \/ TakeReward(u)
          \/ \E side \in Sides :
                \/ Cancel(u, side)
                \/ \E price \in Prices, amount \in Amounts :
                      \/ Place(u, side, price, amount)
                      \/ \E m \in Users, fill \in 1..amount :
                            \E rest \in {0, amount - fill} :
                                Trade(u, side, price, amount, m, fill, rest)

Spec == Init /\ [][Next]_vars

-----------------------------------------------------------------------------
(* Properties. *)

PendingOf(rs, e) ==
    [u \in Users |-> IF rs[u].last_modify = e THEN rs[u].pending_vol ELSE 0]

(* What the accounts have pending of an era is covered by the              *)
(* contributions of that era: nobody's share exceeds the whole, shares of  *)
(* an era that is over do not depend on who claims first, and no trade     *)
(* fails because its maker's old share divides by zero.                    *)
SharesFit == TypeOK /\ \A e \in Eras : SumTo(PendingOf(rewards, e), NUsers) <= taken[e]

(* An era is paid once: what is confirmed for it never exceeds the highest *)
(* rewards, but for half a unit per account that rounding may add.         *)
EraIsPaidOnce ==
    \A e \in Eras : \A r \in EraRewardsSet :
        (\A x \in EraRewardsSet : x <= r) => 2 * paid[e] <= 2 * r + NUsers

(* What account u has or could claim, of the eras that are over. *)
Entitlement(u) ==
    LET e == begin_of_era(now)
    IN  free[u] + rewards[u].confirmed + legacy[u].confirmed
        + Due(rewards[u], taken[rewards[u].last_modify], e)
        + Due(legacy[u], LegacyVolumes[legacy[u].last_modify], e)

(* Whatever is traded, cancelled and claimed, and in whichever order, no   *)
(* account gets less for the eras that are over, unless the treasury       *)
(* changes the rewards or they terminate.                                  *)
EntitlementsKept ==
    [][(era_rewards' = era_rewards /\ (now' > RewardTerminateAt <=> now > RewardTerminateAt))
          => \A u \in Users : Entitlement(u)' >= Entitlement(u)]_vars
=============================================================================
