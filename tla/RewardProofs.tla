---------------------------- MODULE RewardProofs ----------------------------
(***************************************************************************)
(* The shares of an era fit into it (SharesFit of Reward), nobody's share  *)
(* of a past era is lost (EntitlementsKept) and no era is paid twice       *)
(* (EraIsPaidOnce), for any number of accounts, any length of eras,        *)
(* orders, prices and rewards.                                             *)
(***************************************************************************)
EXTENDS Reward, SumsProofs, TLAPS

-----------------------------------------------------------------------------
(* Eras. *)

LEMMA EraOfBlock ==
  ASSUME NEW b \in Blocks
  PROVE  begin_of_era(b) \in Eras /\ begin_of_era(b) \in Nat
<1>1. EraDuration \in Nat /\ EraDuration > 0 /\ b \in Nat
  BY PeriodAssumption DEF Blocks
<1>2. begin_of_era(b) \in Nat
  BY <1>1 DEF begin_of_era
<1> QED
  BY <1>2 DEF Eras

LEMMA FirstEra == 0 \in Eras
<1>1. 0 \in Blocks
  BY CountAssumption DEF Blocks
<1>2. begin_of_era(0) = 0
  BY PeriodAssumption DEF begin_of_era
<1> QED
  BY <1>1, <1>2 DEF Eras

-----------------------------------------------------------------------------
(* Rotation. *)

(* What an era is worth to a record is a number, whatever the total. *)
DueAt(r, total, e, reward) ==
    IF IsDue(r, e) THEN MulNearest(FromRational(r.pending_vol, total), reward) ELSE 0

LEMMA DueAtIsNatural ==
  ASSUME NEW r \in RewardOf, NEW total \in Nat, NEW e, NEW reward \in Nat
  PROVE  DueAt(r, total, e, reward) \in Nat
<1>1. CASE ~IsDue(r, e)
  BY <1>1 DEF DueAt
<1>2. CASE IsDue(r, e)
  <2>1. r.pending_vol \in Nat /\ r.pending_vol > 0 /\ Parts \in Nat /\ Parts > 0
    BY <1>2, AmountAssumption DEF RewardOf, IsDue
  <2>2. r.pending_vol * Parts \in Nat
    BY <2>1
  <2>3. FromRational(r.pending_vol, total) \in Nat
    BY <2>1, <2>2 DEF FromRational
  <2> DEFINE q == FromRational(r.pending_vol, total)
  <2>4. 2 * q * reward + Parts - 1 \in Nat /\ 2 * Parts \in Nat /\ 2 * Parts > 0
    <3>1. q * reward \in Nat /\ 2 * q * reward = 2 * (q * reward)
      BY <2>3
    <3> QED
      BY <3>1, <2>1
  <2>5. MulNearest(q, reward) \in Nat
    BY <2>4 DEF MulNearest
  <2> QED
    BY <2>5, <1>2 DEF DueAt
<1> QED
  BY <1>1, <1>2

LEMMA DueIsNatural ==
  ASSUME TypeOK, NEW r \in RewardOf, NEW total \in Nat, NEW e
  PROVE  EraReward \in Nat /\ Due(r, total, e) \in Nat
<1>1. EraReward \in Nat
  BY AmountAssumption DEF EraReward, TypeOK
<1>2. Due(r, total, e) = DueAt(r, total, e, EraReward)
  BY DEF Due, DueAt
<1> QED
  BY <1>1, <1>2, DueAtIsNatural

(* A rotated record has nothing pending of another era, and of its own no  *)
(* more than it had and is given.                                          *)
LEMMA RotatedRecord ==
  ASSUME TypeOK, NEW r \in RewardOf, NEW total \in Nat, NEW e \in Eras, NEW x \in Nat,
         CanRotate(r, total, e)
  PROVE  /\ Rotated(r, total, e, x) \in RewardOf
         /\ Rotated(r, total, e, x).last_modify = e
         /\ Rotated(r, total, e, x).pending_vol
              = (IF r.last_modify = e THEN r.pending_vol ELSE 0) + x
<1>1. r.confirmed \in Nat /\ r.pending_vol \in Nat
  BY DEF RewardOf
<1>2. Due(r, total, e) \in Nat
  BY DueIsNatural
<1> QED
  BY <1>1, <1>2 DEF Rotated, RewardOf

(* A claim takes nothing that is pending, and adds nothing. *)
LEMMA ClaimedRecord ==
  ASSUME NEW r \in RewardOf
  PROVE  /\ Claimed(r) \in RewardOf
         /\ \/ /\ Claimed(r).pending_vol = r.pending_vol
               /\ Claimed(r).last_modify = r.last_modify
            \/ Claimed(r).pending_vol = 0
<1>1. NoReward \in RewardOf
  BY FirstEra DEF NoReward, RewardOf
<1>2. [r EXCEPT !.confirmed = 0] \in RewardOf
  BY DEF RewardOf
<1> QED
  BY <1>1, <1>2 DEF Claimed, RewardOf, NoReward

-----------------------------------------------------------------------------
(* Sums of what is pending. *)

LEMMA PendingIsNatural ==
  ASSUME NEW rs \in [Users -> RewardOf], NEW e
  PROVE  PendingOf(rs, e) \in [1..NUsers -> Nat]
BY DEF PendingOf, RewardOf, Users

(* If the record of one account changes, the sum changes by as much. *)
LEMMA PendingChange ==
  ASSUME NEW rs \in [Users -> RewardOf], NEW u \in Users, NEW r \in RewardOf, NEW e
  PROVE  /\ SumTo(PendingOf(rs, e), NUsers) \in Nat
         /\ PendingOf(rs, e)[u] \in Nat
         /\ SumTo(PendingOf([rs EXCEPT ![u] = r], e), NUsers)
              = SumTo(PendingOf(rs, e), NUsers)
                + (IF r.last_modify = e THEN r.pending_vol ELSE 0) - PendingOf(rs, e)[u]
<1> DEFINE rs1 == [rs EXCEPT ![u] = r]
           f == PendingOf(rs, e)
           g == PendingOf(rs1, e)
<1>1. NUsers \in Nat /\ u \in 1..NUsers
  BY CountAssumption DEF Users
<1>2. rs1 \in [Users -> RewardOf]
  OBVIOUS
<1>3. f \in [1..NUsers -> Nat] /\ g \in [1..NUsers -> Nat]
  BY <1>2, PendingIsNatural
<1>4. \A v \in 1..NUsers : v # u => g[v] = f[v]
  BY DEF PendingOf, Users
<1>5. g[u] = IF r.last_modify = e THEN r.pending_vol ELSE 0
  BY <1>1 DEF PendingOf, Users
<1> HIDE DEF f, g
<1>6. f \in [1..NUsers -> Int] /\ g \in [1..NUsers -> Int]
  BY <1>3
<1>7. SumTo(g, NUsers) = SumTo(f, NUsers) + g[u] - f[u]
  BY <1>1, <1>4, <1>6, SumToChange
<1>8. SumTo(f, NUsers) \in Nat
  BY <1>1, <1>3, SumToNat
<1> QED
  BY <1>1, <1>3, <1>5, <1>7, <1>8 DEF f, g

-----------------------------------------------------------------------------
(* Orders and liquidity. *)

OrderType == [Orders -> [price : Nat, left : Nat]]
PoolType == [Users -> [volume : Nat, start_from : Blocks]]

LEMMA FrozenIsNatural ==
  ASSUME NEW os \in OrderType, NEW u \in Users
  PROVE  Frozen(os, u) \in Nat
<1>1. <<u, "Bid">> \in Orders
  BY DEF Orders, Sides
<1>2. os[<<u, "Bid">>].price \in Nat /\ os[<<u, "Bid">>].left \in Nat
  BY <1>1 DEF OrderType
<1> QED
  BY <1>2 DEF Frozen

LEMMA PutKeepsType ==
  ASSUME TypeOK, NEW p \in PoolType, NEW u \in Users, NEW vol \in Nat
  PROVE  PutLiquidity(p, u, vol) \in PoolType
<1>1. [volume |-> vol, start_from |-> now] \in [volume : Nat, start_from : Blocks]
  BY DEF TypeOK
<1> QED
  BY <1>1 DEF PutLiquidity, PoolType

LEMMA RemoveKeepsType ==
  ASSUME TypeOK, NEW u \in Users, NEW vol \in Nat
  PROVE  RemoveLiquidity(u, vol) \in PoolType
<1>1. pool \in PoolType
  BY DEF TypeOK, PoolType
<1>2. CASE ~CanRemove(u, vol)
  BY <1>1, <1>2 DEF RemoveLiquidity
<1>3. CASE CanRemove(u, vol)
  <2>1. pool[u].volume \in Nat /\ pool[u].start_from \in Blocks
    BY <1>1 DEF PoolType
  <2>2. pool[u].volume - vol \in Nat
    BY <1>3, <2>1 DEF CanRemove
  <2>3. 0 \in Blocks
    BY CountAssumption DEF Blocks
  <2> DEFINE l == IF pool[u].volume = vol THEN NoLiquidity
                  ELSE [volume |-> pool[u].volume - vol, start_from |-> pool[u].start_from]
  <2>4. l \in [volume : Nat, start_from : Blocks]
    BY <2>1, <2>2, <2>3 DEF NoLiquidity
  <2>5. RemoveLiquidity(u, vol) = [pool EXCEPT ![u] = l]
    BY <1>3 DEF RemoveLiquidity
  <2> HIDE DEF l
  <2> QED
    BY <1>1, <2>4, <2>5 DEF PoolType
<1> QED
  BY <1>2, <1>3

LEMMA ContributionIsNatural ==
  ASSUME TypeOK, NEW u \in Users, NEW vol \in Nat
  PROVE  Contribution(u, vol) \in Nat
<1>1. now \in Int /\ pool[u].start_from \in Int
  BY DEF TypeOK, Blocks
<1> DEFINE age == now - pool[u].start_from
           c == (IF age < EraDuration THEN age ELSE EraDuration) \div TimeCoefficientZoom
<1>2. c \in Int
  BY <1>1, PeriodAssumption
<1>3. Coefficient(age) \in Nat
  BY <1>2 DEF Coefficient
<1> HIDE DEF age
<1>4. Coefficient(age) * vol \in Nat
  BY <1>3
<1> QED
  BY <1>4 DEF Contribution, age

-----------------------------------------------------------------------------
(* The records when liquidity is consumed, and when rewards are taken. *)

(* Every record is below the contributions of its era, so that it is       *)
(* never rotated by a division by zero.                                    *)
LEMMA RecordFits ==
  ASSUME SharesFit, NEW u \in Users
  PROVE  rewards[u] \in RewardOf /\ rewards[u].last_modify \in Eras
         /\ rewards[u].pending_vol <= taken[rewards[u].last_modify]
<1>1. rewards \in [Users -> RewardOf] /\ taken \in [Eras -> Nat]
  BY DEF SharesFit, TypeOK
<1>2. rewards[u] \in RewardOf /\ rewards[u].last_modify \in Eras /\ rewards[u].pending_vol \in Nat
  BY <1>1 DEF RewardOf
<1> DEFINE e == rewards[u].last_modify
           f == PendingOf(rewards, e)
<1>3. f \in [1..NUsers -> Nat]
  BY <1>1, PendingIsNatural
<1>4. f[u] = rewards[u].pending_vol
  BY DEF PendingOf
<1> HIDE DEF f
<1>5. NUsers \in Nat /\ u \in 1..NUsers
  BY CountAssumption DEF Users
<1>6. SumTo(f, NUsers) \in Nat /\ f[u] <= SumTo(f, NUsers)
  BY <1>3, <1>5, SumToNat
<1>7. SumTo(f, NUsers) <= taken[e]
  BY <1>2 DEF SharesFit, f
<1>8. taken[e] \in Nat
  BY <1>1, <1>2
<1> QED
  BY <1>2, <1>4, <1>6, <1>7, <1>8

(* A trade or a claim never fails because its account's share would be     *)
(* divided by the contributions of an era that has none.                   *)
LEMMA RotationIsDefined ==
  ASSUME SharesFit, NEW u \in Users, NEW e
  PROVE  CanRotate(rewards[u], taken[rewards[u].last_modify], e)
<1>1. taken[rewards[u].last_modify] \in Nat /\ rewards[u].pending_vol \in Nat
  BY RecordFits DEF SharesFit, TypeOK, RewardOf
<1> QED
  BY <1>1, RecordFits DEF CanRotate, IsDue

(* SharesFit of the records rs and contributions tk that a step leaves. *)
FitsAfter(rs, tk) ==
  /\ rs \in [Users -> RewardOf] /\ tk \in [Eras -> Nat]
  /\ \A e \in Eras : SumTo(PendingOf(rs, e), NUsers) <= tk[e]

(* One record is rotated to era e and given x, which era e gets as well. *)
LEMMA RotationFits ==
  ASSUME SharesFit, NEW u \in Users, NEW r \in RewardOf, NEW e \in Eras, NEW x \in Nat,
         r.pending_vol <= (IF rewards[u].last_modify = e THEN rewards[u].pending_vol ELSE 0) + x,
         r.last_modify = e \/ r.pending_vol = 0
  PROVE  FitsAfter([rewards EXCEPT ![u] = r], [taken EXCEPT ![e] = @ + x])
<1> DEFINE rs == [rewards EXCEPT ![u] = r]
           tk == [taken EXCEPT ![e] = @ + x]
<1>1. rewards \in [Users -> RewardOf] /\ taken \in [Eras -> Nat]
  BY DEF SharesFit, TypeOK
<1>2. rs \in [Users -> RewardOf] /\ tk \in [Eras -> Nat]
  BY <1>1
<1>3. ASSUME NEW d \in Eras PROVE SumTo(PendingOf(rs, d), NUsers) <= tk[d]
  <2> DEFINE old == SumTo(PendingOf(rewards, d), NUsers)
             gone == PendingOf(rewards, d)[u]
             added == IF r.last_modify = d THEN r.pending_vol ELSE 0
  <2>1. old \in Nat /\ gone \in Nat /\ SumTo(PendingOf(rs, d), NUsers) = old + added - gone
    BY <1>1, PendingChange
  <2>2. gone = IF rewards[u].last_modify = d THEN rewards[u].pending_vol ELSE 0
    BY DEF PendingOf
  <2>3. old <= taken[d] /\ taken[d] \in Nat
    BY <1>1 DEF SharesFit
  <2>4. r.pending_vol \in Nat
    BY DEF RewardOf
  <2>5. tk[d] = IF d = e THEN taken[d] + x ELSE taken[d]
    BY <1>1
  <2> HIDE DEF old, gone, added, rs, tk
  <2>6. added \in Nat /\ added <= gone + (IF d = e THEN x ELSE 0)
    BY <2>1, <2>2, <2>4 DEF added
  <2> QED
    BY <2>1, <2>3, <2>5, <2>6
<1> QED
  BY <1>2, <1>3 DEF FitsAfter

LEMMA ConsumeFits ==
  ASSUME SharesFit, NEW m \in Users, NEW vol \in Nat, ConsumeLiquidity(m, vol)
  PROVE  /\ FitsAfter(rewards', taken')
         /\ volumes' \in [Eras -> Nat] /\ paid' \in [Eras -> Nat]
<1>1. TypeOK /\ taken \in [Eras -> Nat] /\ volumes \in [Eras -> Nat] /\ paid \in [Eras -> Nat]
      /\ rewards \in [Users -> RewardOf]
  BY DEF SharesFit, TypeOK
<1>2. CASE ~CanRemove(m, vol)
  BY <1>1, <1>2 DEF ConsumeLiquidity, FitsAfter, SharesFit
<1>3. CASE CanRemove(m, vol)
  <2> DEFINE e == begin_of_era(now)
             c == Contribution(m, vol)
             tk == [taken EXCEPT ![e] = @ + c]
             last == rewards[m].last_modify
             r == Rotated(rewards[m], tk[last], e, c)
             due == Due(rewards[m], tk[last], e)
  <2>1. e \in Eras
    BY <1>1, EraOfBlock DEF TypeOK
  <2>2. c \in Nat
    BY <1>1, ContributionIsNatural
  <2>3. rewards[m] \in RewardOf /\ last \in Eras
    BY RecordFits
  <2>4. /\ CanRotate(rewards[m], tk[last], e)
        /\ taken' = tk
        /\ volumes' = [volumes EXCEPT ![e] = @ + vol]
        /\ rewards' = [rewards EXCEPT ![m] = r]
        /\ paid' = [paid EXCEPT ![last] = @ + due]
    BY <1>3 DEF ConsumeLiquidity
  <2> HIDE DEF e, c
  <2>5. tk[last] \in Nat
    BY <1>1, <2>1, <2>2, <2>3
  <2>6. due \in Nat
    BY <1>1, <2>1, <2>3, <2>4, <2>5, DueIsNatural
  <2>7. /\ r \in RewardOf /\ r.last_modify = e
        /\ r.pending_vol = (IF last = e THEN rewards[m].pending_vol ELSE 0) + c
    BY <1>1, <2>1, <2>2, <2>3, <2>4, <2>5, RotatedRecord
  <2> HIDE DEF r, due
  <2>8. rewards[m].pending_vol \in Nat
    BY <2>3 DEF RewardOf
  <2>9. r.pending_vol <= (IF rewards[m].last_modify = e THEN rewards[m].pending_vol ELSE 0) + c
    BY <2>2, <2>7, <2>8
  <2>10. FitsAfter([rewards EXCEPT ![m] = r], tk)
    BY <2>1, <2>2, <2>7, <2>9, RotationFits
  <2>11. volumes' \in [Eras -> Nat]
    BY <1>1, <2>1, <2>4
  <2>12. paid' \in [Eras -> Nat]
    BY <1>1, <2>3, <2>4, <2>6
  <2> QED
    BY <2>4, <2>10, <2>11, <2>12
<1> QED
  BY <1>2, <1>3

-----------------------------------------------------------------------------
(* The steps. *)

LEMMA FitsIsInvariant ==
  ASSUME SharesFit, FitsAfter(rewards', taken'),
         now' \in Blocks, orders' \in OrderType, pool' \in PoolType,
         volumes' \in [Eras -> Nat], legacy' \in [Users -> RewardOf],
         era_rewards' \in EraRewardsSet, free' \in [Users -> Nat], paid' \in [Eras -> Nat]
  PROVE  SharesFit'
BY DEF SharesFit, TypeOK, FitsAfter, OrderType, PoolType

(* Everything has its type and fits if it is left alone. *)
LEMMA FitsNow ==
  ASSUME SharesFit
  PROVE  /\ FitsAfter(rewards, taken)
         /\ now \in Blocks /\ orders \in OrderType /\ pool \in PoolType
         /\ volumes \in [Eras -> Nat] /\ legacy \in [Users -> RewardOf]
         /\ era_rewards \in EraRewardsSet /\ free \in [Users -> Nat] /\ paid \in [Eras -> Nat]
BY DEF SharesFit, TypeOK, FitsAfter, OrderType, PoolType

LEMMA InitFits == Init => SharesFit
<1> SUFFICES ASSUME Init PROVE SharesFit
  OBVIOUS
<1>1. NoReward \in RewardOf /\ 0 \in Blocks
  BY FirstEra, CountAssumption DEF NoReward, RewardOf, Blocks
<1>2. TypeOK
  BY <1>1, LegacyAssumption, AmountAssumption DEF Init, TypeOK, NoOrder, NoLiquidity
<1>3. ASSUME NEW e \in Eras PROVE SumTo(PendingOf(rewards, e), NUsers) <= taken[e]
  <2> DEFINE f == PendingOf(rewards, e)
  <2>1. f \in [1..NUsers -> Nat]
    BY <1>2, PendingIsNatural DEF TypeOK
  <2>2. \A i \in 1..NUsers : f[i] = 0
    BY DEF Init, NoReward, PendingOf, Users
  <2> HIDE DEF f
  <2>3. f \in [1..NUsers -> Int] /\ NUsers \in Nat
    BY <2>1, CountAssumption
  <2>4. SumTo(f, NUsers) = 0
    BY <2>2, <2>3, SumToZeros
  <2>5. taken[e] = 0
    BY DEF Init
  <2> QED
    BY <2>4, <2>5 DEF f
<1> QED
  BY <1>2, <1>3 DEF SharesFit

LEMMA PlaceFits ==
  ASSUME SharesFit, NEW t \in Users, NEW side \in Sides, NEW price \in Prices,
         NEW amount \in Amounts, Place(t, side, price, amount)
  PROVE  SharesFit'
<1>1. price \in Nat /\ amount \in Nat
  BY AmountAssumption
<1>2. orders \in OrderType /\ pool \in PoolType /\ TypeOK
  BY FitsNow DEF SharesFit
<1>3. orders' \in OrderType
  <2>1. orders' = [orders EXCEPT ![<<t, side>>] = [price |-> price, left |-> amount]]
    BY DEF Place
  <2> QED
    BY <1>1, <1>2, <2>1 DEF OrderType
<1>4. Frozen(orders', t) \in Nat
  BY <1>3, FrozenIsNatural
<1>5. pool' \in PoolType
  BY <1>2, <1>4, PutKeepsType DEF Place
<1> QED
  BY <1>3, <1>5, FitsNow, FitsIsInvariant DEF Place, records

LEMMA TradeFits ==
  ASSUME SharesFit, NEW t \in Users, NEW m \in Users, NEW side \in Sides, NEW price \in Prices,
         NEW amount \in Amounts, NEW fill \in 1..amount, NEW rest \in {0, amount - fill},
         Trade(t, side, price, amount, m, fill, rest)
  PROVE  SharesFit'
<1> DEFINE k == <<m, Opposite(side)>>
           o == orders[k]
           new == IF rest = 0 THEN NoOrder ELSE [price |-> price, left |-> rest]
           left == IF o.left = fill THEN NoOrder ELSE [price |-> o.price, left |-> o.left - fill]
<1>1. price \in Nat /\ fill \in Nat /\ rest \in Nat
  BY AmountAssumption
<1>2. orders \in OrderType /\ pool \in PoolType /\ TypeOK
  BY FitsNow DEF SharesFit
<1>3. k \in Orders
  BY DEF Orders, Sides, Opposite
<1>4. o.price \in Nat /\ o.left \in Nat
  BY <1>2, <1>3 DEF OrderType
<1>5. orders' \in OrderType
  <2>1. fill <= o.left
    BY DEF Trade
  <2>2. left \in [price : Nat, left : Nat] /\ new \in [price : Nat, left : Nat]
    BY <1>1, <1>4, <2>1 DEF NoOrder
  <2>3. orders' = [[orders EXCEPT ![k] = left] EXCEPT ![<<t, side>>] = new]
    BY DEF Trade
  <2> HIDE DEF left, new, k
  <2> QED
    BY <1>2, <2>2, <2>3 DEF OrderType
<1>6. fill * o.price \in Nat
  BY <1>1, <1>4
<1>7. Frozen(orders', t) \in Nat
  BY <1>5, FrozenIsNatural
<1>8. RemoveLiquidity(m, fill * o.price) \in PoolType
  BY <1>2, <1>6, RemoveKeepsType
<1>9. pool' \in PoolType
  BY <1>2, <1>7, <1>8, PutKeepsType DEF Trade
<1>10. /\ FitsAfter(rewards', taken')
       /\ volumes' \in [Eras -> Nat] /\ paid' \in [Eras -> Nat]
  BY <1>6, ConsumeFits DEF Trade
<1> QED
  BY <1>5, <1>9, <1>10, FitsNow, FitsIsInvariant DEF Trade

LEMMA CancelFits ==
  ASSUME SharesFit, NEW u \in Users, NEW side \in Sides, Cancel(u, side)
  PROVE  SharesFit'
<1>1. orders \in OrderType /\ TypeOK
  BY FitsNow DEF SharesFit
<1>2. <<u, side>> \in Orders
  BY DEF Orders
<1>3. orders[<<u, side>>].left \in Nat
  BY <1>1, <1>2 DEF OrderType
<1>4. pool' \in PoolType
  BY <1>1, <1>3, RemoveKeepsType DEF Cancel
<1>5. NoOrder \in [price : Nat, left : Nat]
  BY DEF NoOrder
<1>6. orders' \in OrderType
  BY <1>1, <1>5 DEF Cancel, OrderType
<1> QED
  BY <1>4, <1>6, FitsNow, FitsIsInvariant DEF Cancel, records

LEMMA TakeRewardFits ==
  ASSUME SharesFit, NEW u \in Users, TakeReward(u)
  PROVE  SharesFit'
<1> DEFINE e == begin_of_era(now)
           last == rewards[u].last_modify
           lastOld == legacy[u].last_modify
           old == Rotated(legacy[u], LegacyVolumes[lastOld], e, 0)
           new == Rotated(rewards[u], taken[last], e, 0)
           due == Due(rewards[u], taken[last], e)
<1>1. TypeOK /\ rewards \in [Users -> RewardOf] /\ legacy \in [Users -> RewardOf]
      /\ taken \in [Eras -> Nat] /\ paid \in [Eras -> Nat] /\ free \in [Users -> Nat]
  BY DEF SharesFit, TypeOK
<1>2. e \in Eras
  BY <1>1, EraOfBlock DEF TypeOK
<1>3. rewards[u] \in RewardOf /\ legacy[u] \in RewardOf /\ last \in Eras /\ lastOld \in Eras
  BY <1>1 DEF RewardOf
<1>4. taken[last] \in Nat /\ LegacyVolumes[lastOld] \in Nat
  BY <1>1, <1>3, LegacyAssumption
<1>5. /\ CanRotate(legacy[u], LegacyVolumes[lastOld], e)
      /\ CanRotate(rewards[u], taken[last], e)
      /\ legacy' = [legacy EXCEPT ![u] = Claimed(old)]
      /\ rewards' = [rewards EXCEPT ![u] = Claimed(new)]
      /\ paid' = [paid EXCEPT ![last] = @ + due]
      /\ free' = [free EXCEPT ![u] = @ + old.confirmed + new.confirmed]
      /\ UNCHANGED <<now, orders, pool, taken, volumes, era_rewards>>
  BY DEF TakeReward, market
<1> HIDE DEF e
<1>6. due \in Nat
  BY <1>1, <1>2, <1>3, <1>4, <1>5, DueIsNatural
<1>7. old \in RewardOf
  BY <1>1, <1>2, <1>3, <1>4, <1>5, RotatedRecord
<1>8. /\ new \in RewardOf /\ new.last_modify = e
      /\ new.pending_vol = (IF last = e THEN rewards[u].pending_vol ELSE 0) + 0
  BY <1>1, <1>2, <1>3, <1>4, <1>5, RotatedRecord
<1> HIDE DEF old, new, due
<1>9. Claimed(old) \in RewardOf
  BY <1>7, ClaimedRecord
<1>10. /\ Claimed(new) \in RewardOf
       /\ \/ Claimed(new).pending_vol = new.pending_vol /\ Claimed(new).last_modify = e
          \/ Claimed(new).pending_vol = 0
  BY <1>8, ClaimedRecord
<1> DEFINE r == Claimed(new)
<1>11. rewards[u].pending_vol \in Nat
  BY <1>3 DEF RewardOf
<1>12. /\ r.pending_vol <= (IF rewards[u].last_modify = e THEN rewards[u].pending_vol ELSE 0) + 0
       /\ r.last_modify = e \/ r.pending_vol = 0
  BY <1>8, <1>10, <1>11
<1>13. r \in RewardOf
  BY <1>10
<1> HIDE DEF r
<1>14. FitsAfter([rewards EXCEPT ![u] = r], [taken EXCEPT ![e] = @ + 0])
  BY <1>2, <1>12, <1>13, RotationFits
<1>15. [taken EXCEPT ![e] = @ + 0] = taken
  BY <1>1, <1>2
<1>16. FitsAfter(rewards', taken')
  BY <1>5, <1>14, <1>15 DEF r
<1>17. legacy' \in [Users -> RewardOf]
  BY <1>1, <1>5, <1>9
<1>18. old.confirmed \in Nat /\ new.confirmed \in Nat
  BY <1>7, <1>8 DEF RewardOf
<1>19. free' \in [Users -> Nat]
  BY <1>1, <1>5, <1>18
<1>20. paid' \in [Eras -> Nat]
  BY <1>1, <1>3, <1>5, <1>6
<1> QED
  BY <1>5, <1>16, <1>17, <1>19, <1>20, FitsNow, FitsIsInvariant

LEMMA StepFits == SharesFit /\ [Next]_vars => SharesFit'
<1> SUFFICES ASSUME SharesFit, [Next]_vars PROVE SharesFit'
  OBVIOUS
<1>1. CASE NewBlock
  <2>1. now' \in Blocks
    BY <1>1, FitsNow, CountAssumption DEF NewBlock, Blocks
  <2> QED
    BY <1>1, <2>1, FitsNow, FitsIsInvariant DEF NewBlock, market, records
<1>2. CASE \E r \in EraRewardsSet : SetEraRewards(r)
  BY <1>2, FitsNow, FitsIsInvariant DEF SetEraRewards, market, records
<1>3. CASE \E u \in Users : TakeReward(u)
  BY <1>3, TakeRewardFits
<1>4. CASE \E u \in Users, side \in Sides : Cancel(u, side)
  BY <1>4, CancelFits
<1>5. CASE \E u \in Users, side \in Sides, price \in Prices, amount \in Amounts :
             Place(u, side, price, amount)
  BY <1>5, PlaceFits
<1>6. CASE \E u \in Users, side \in Sides, price \in Prices, amount \in Amounts :
             \E m \in Users, fill \in 1..amount :
               \E rest \in {0, amount - fill} : Trade(u, side, price, amount, m, fill, rest)
  BY <1>6, TradeFits
<1>7. CASE UNCHANGED vars
  BY <1>7, FitsNow, FitsIsInvariant DEF vars
<1> QED
  BY <1>1, <1>2, <1>3, <1>4, <1>5, <1>6, <1>7 DEF Next

(* What accounts have pending of an era never exceeds the contributions of *)
(* the era, for any number of accounts and any orders: the shares          *)
(* rotate_reward hands out are shares of a whole.                          *)
THEOREM SharesAlwaysFit == Spec => []SharesFit
BY InitFits, StepFits, PTL DEF Spec

-----------------------------------------------------------------------------
(* Entitlements. *)

(* Eras go by with the blocks. *)
LEMMA ErasAdvance ==
  ASSUME NEW b \in Nat
  PROVE  begin_of_era(b) <= begin_of_era(b + 1)
<1> DEFINE D == EraDuration
           r == b % D
           s == (b + 1) % D
           q == b \div D
           p == (b + 1) \div D
<1>1. D \in Nat /\ D > 0
  BY PeriodAssumption
<1> HIDE DEF D
<1>2. b = D * q + r /\ r \in 0..(D-1) /\ q \in Nat
  BY <1>1
<1>3. b + 1 = D * p + s /\ s \in 0..(D-1) /\ p \in Nat
  BY <1>1
<1> HIDE DEF r, s, q, p
<1>4. q <= p
  <2>1. SUFFICES ASSUME p + 1 <= q PROVE FALSE
    BY <1>2, <1>3
  <2>2. D * (p + 1) <= D * q
    BY <1>1, <1>2, <1>3, <2>1
  <2>3. D * (p + 1) = D * p + D
    BY <1>1, <1>3
  <2> QED
    BY <1>1, <1>2, <1>3, <2>2, <2>3
<1>5. D * q <= D * p
  BY <1>1, <1>2, <1>3, <1>4
<1>6. b - r <= (b + 1) - s
  BY <1>1, <1>2, <1>3, <1>5
<1> QED
  BY <1>6 DEF begin_of_era, r, s, D

(* No record is of an era to come. *)
LastsArePast ==
    \A u \in Users : /\ rewards[u].last_modify <= begin_of_era(now)
                     /\ legacy[u].last_modify <= begin_of_era(now)

Settled == SharesFit /\ LastsArePast

LEMMA LastsOfTypes ==
  ASSUME SharesFit
  PROVE  /\ begin_of_era(now) \in Nat /\ now \in Nat
         /\ \A u \in Users : /\ rewards[u] \in RewardOf /\ rewards[u].last_modify \in Nat
                             /\ legacy[u] \in RewardOf /\ legacy[u].last_modify \in Nat
<1>1. \A e \in Eras : e \in Nat
  <2>1. ASSUME NEW b \in Blocks PROVE begin_of_era(b) \in Nat
    BY <2>1, EraOfBlock
  <2> QED
    BY <2>1 DEF Eras
<1>2. now \in Blocks /\ rewards \in [Users -> RewardOf] /\ legacy \in [Users -> RewardOf]
  BY DEF SharesFit, TypeOK
<1>3. \A r \in RewardOf : r.last_modify \in Nat
  BY <1>1 DEF RewardOf
<1> QED
  BY <1>2, <1>3, EraOfBlock DEF Blocks

(* The era of the records a trade touches is that of the trade. *)
LEMMA ConsumeLasts ==
  ASSUME SharesFit, NEW m \in Users, NEW vol, ConsumeLiquidity(m, vol), NEW u \in Users
  PROVE  rewards'[u].last_modify \in {rewards[u].last_modify, begin_of_era(now)}
<1> DEFINE e == begin_of_era(now)
           c == Contribution(m, vol)
           tk == [taken EXCEPT ![e] = @ + c]
           r == Rotated(rewards[m], tk[rewards[m].last_modify], e, c)
<1>1. r.last_modify = e
  BY DEF Rotated
<1>2. rewards \in [Users -> RewardOf]
  BY DEF SharesFit, TypeOK
<1>3. rewards' = rewards \/ rewards' = [rewards EXCEPT ![m] = r]
  BY DEF ConsumeLiquidity
<1> HIDE DEF r, e
<1> QED
  BY <1>1, <1>2, <1>3 DEF e

(* And so is that of those a claim touches, unless nothing is left. *)
LEMMA TakeRewardLasts ==
  ASSUME SharesFit, NEW v \in Users, TakeReward(v), NEW u \in Users
  PROVE  /\ rewards'[u].last_modify \in {rewards[u].last_modify, begin_of_era(now), 0}
         /\ legacy'[u].last_modify \in {legacy[u].last_modify, begin_of_era(now), 0}
<1> DEFINE e == begin_of_era(now)
           old == Rotated(legacy[v], LegacyVolumes[legacy[v].last_modify], e, 0)
           new == Rotated(rewards[v], taken[rewards[v].last_modify], e, 0)
<1>1. rewards \in [Users -> RewardOf] /\ legacy \in [Users -> RewardOf]
  BY DEF SharesFit, TypeOK
<1>2. /\ legacy' = [legacy EXCEPT ![v] = Claimed(old)]
      /\ rewards' = [rewards EXCEPT ![v] = Claimed(new)]
  BY DEF TakeReward
<1>3. Claimed(old).last_modify \in {e, 0} /\ Claimed(new).last_modify \in {e, 0}
  BY DEF Claimed, Rotated, NoReward
<1> HIDE DEF e, old, new
<1> QED
  BY <1>1, <1>2, <1>3 DEF e

LEMMA InitSettled == Init => Settled
<1> SUFFICES ASSUME Init PROVE LastsArePast
  BY InitFits DEF Settled
<1>1. begin_of_era(0) = 0
  BY PeriodAssumption DEF begin_of_era
<1> QED
  BY <1>1, LegacyAssumption DEF Init, LastsArePast, NoReward

LEMMA StepSettled == Settled /\ [Next]_vars => Settled'
<1> SUFFICES ASSUME Settled, [Next]_vars PROVE LastsArePast'
  BY StepFits DEF Settled
<1> USE DEF Settled
<1>1. CASE NewBlock
  <2>1. begin_of_era(now) <= begin_of_era(now + 1) /\ now' = now + 1
        /\ rewards' = rewards /\ legacy' = legacy
    BY <1>1, LastsOfTypes, ErasAdvance DEF NewBlock, records
  <2>2. now + 1 \in Blocks
    BY <1>1, LastsOfTypes, CountAssumption DEF NewBlock, Blocks
  <2>3. begin_of_era(now + 1) \in Nat
    BY <2>2, EraOfBlock
  <2>4. begin_of_era(now)' = begin_of_era(now + 1)
    BY <2>1 DEF begin_of_era
  <2>5. ASSUME NEW u \in Users
        PROVE  rewards[u].last_modify <= begin_of_era(now + 1)
               /\ legacy[u].last_modify <= begin_of_era(now + 1)
    BY <2>1, <2>3, LastsOfTypes DEF LastsArePast
  <2> QED
    BY <2>1, <2>4, <2>5 DEF LastsArePast
<1>2. CASE now' = now /\ rewards' = rewards /\ legacy' = legacy
  BY <1>2 DEF LastsArePast, begin_of_era
<1>3. ASSUME now' = now, legacy' = legacy,
             \A u \in Users : rewards'[u].last_modify \in {rewards[u].last_modify, begin_of_era(now)}
      PROVE  LastsArePast'
  <2>1. begin_of_era(now)' = begin_of_era(now)
    BY <1>3 DEF begin_of_era
  <2> QED
    BY <1>3, <2>1, LastsOfTypes DEF LastsArePast
<1>4. ASSUME NEW v \in Users, TakeReward(v) PROVE LastsArePast'
  <2>1. begin_of_era(now)' = begin_of_era(now)
    BY <1>4 DEF begin_of_era, TakeReward
  <2>2. \A u \in Users :
          /\ rewards'[u].last_modify \in {rewards[u].last_modify, begin_of_era(now), 0}
          /\ legacy'[u].last_modify \in {legacy[u].last_modify, begin_of_era(now), 0}
    BY <1>4, TakeRewardLasts
  <2> QED
    BY <2>1, <2>2, LastsOfTypes DEF LastsArePast
<1>5. ASSUME NEW t \in Users, NEW m \in Users, NEW side, NEW price, NEW amount, NEW fill, NEW rest,
             Trade(t, side, price, amount, m, fill, rest)
      PROVE  LastsArePast'
  BY <1>3, <1>5, ConsumeLasts DEF Trade
<1>6. CASE \E u \in Users : TakeReward(u)
  BY <1>4, <1>6
<1>7. CASE \E r \in EraRewardsSet : SetEraRewards(r)
  BY <1>2, <1>7 DEF SetEraRewards, records
<1>8. CASE \E u \in Users, side \in Sides : Cancel(u, side)
  BY <1>2, <1>8 DEF Cancel, records
<1>9. CASE \E u \in Users, side \in Sides, price \in Prices, amount \in Amounts :
             Place(u, side, price, amount)
  BY <1>2, <1>9 DEF Place, records
<1>10. CASE \E u \in Users, side \in Sides, price \in Prices, amount \in Amounts :
              \E m \in Users, fill \in 1..amount :
                \E rest \in {0, amount - fill} : Trade(u, side, price, amount, m, fill, rest)
  BY <1>5, <1>10
<1>11. CASE UNCHANGED vars
  BY <1>2, <1>11 DEF vars, records
<1> QED
  BY <1>1, <1>6, <1>7, <1>8, <1>9, <1>10, <1>11 DEF Next

(* What an account may expect, of the balance f and the records r and l:   *)
(* Entitlement with the state it depends on as parameters.                 *)
EntitledTo(f, r, l, total, old, e, reward) ==
    f + r.confirmed + l.confirmed + DueAt(r, total, e, reward) + DueAt(l, old, e, reward)

OldTotal(l) == LegacyVolumes[l.last_modify]

LEMMA EntitlementIs ==
  ASSUME NEW u \in Users
  PROVE  /\ Entitlement(u) =
              EntitledTo(free[u], rewards[u], legacy[u], taken[rewards[u].last_modify],
                         OldTotal(legacy[u]), begin_of_era(now), EraReward)
         /\ Entitlement(u)' =
              EntitledTo(free'[u], rewards'[u], legacy'[u], taken'[rewards'[u].last_modify],
                         OldTotal(legacy'[u]), begin_of_era(now'), EraReward')
<1>1. Entitlement(u) =
        EntitledTo(free[u], rewards[u], legacy[u], taken[rewards[u].last_modify],
                   OldTotal(legacy[u]), begin_of_era(now), EraReward)
  BY DEF Entitlement, EntitledTo, Due, DueAt, OldTotal
<1>2. Entitlement(u)' =
        EntitledTo(free'[u], rewards'[u], legacy'[u], taken'[rewards'[u].last_modify],
                   OldTotal(legacy'[u]), begin_of_era(now'), EraReward')
  BY DEF Entitlement, EntitledTo, Due, DueAt, OldTotal, begin_of_era
<1> QED
  BY <1>1, <1>2

(* A share stays what it is in later eras. *)
LEMMA DueLater ==
  ASSUME NEW r \in RewardOf, NEW total \in Nat, NEW reward \in Nat, NEW e \in Int, NEW d \in Int,
         r.last_modify <= e, e <= d, r.last_modify \in Int
  PROVE  DueAt(r, total, e, reward) <= DueAt(r, total, d, reward)
<1>1. DueAt(r, total, d, reward) \in Nat
  BY DueAtIsNatural
<1>2. CASE ~IsDue(r, e)
  BY <1>1, <1>2 DEF DueAt
<1>3. CASE IsDue(r, e)
  <2>1. IsDue(r, d)
    BY <1>3 DEF IsDue
  <2> QED
    BY <1>1, <1>3, <2>1 DEF DueAt
<1> QED
  BY <1>2, <1>3

(* The record of the maker of a trade: what was due is confirmed. *)
LEMMA RotationKeeps ==
  ASSUME NEW f \in Nat, NEW r \in RewardOf, NEW l \in RewardOf, NEW total \in Nat,
         NEW old \in Nat, NEW e, NEW reward \in Nat, NEW x, NEW any,
         NEW r1, r1.confirmed = r.confirmed + DueAt(r, total, e, reward), r1.last_modify = e
  PROVE  EntitledTo(f, r1, l, any, old, e, reward) = EntitledTo(f, r, l, total, old, e, reward)
<1>1. DueAt(r, total, e, reward) \in Nat /\ DueAt(l, old, e, reward) \in Nat
      /\ r.confirmed \in Nat /\ l.confirmed \in Nat
  BY DueAtIsNatural DEF RewardOf
<1>2. DueAt(r1, any, e, reward) = 0
  BY DEF DueAt, IsDue
<1> QED
  BY <1>1, <1>2 DEF EntitledTo

(* The era, and what it is worth, are the same after the step. *)
SameEra == now' = now /\ EraReward' = EraReward

LEMMA ConsumeKeeps ==
  ASSUME SharesFit, SameEra, NEW m \in Users, NEW vol \in Nat, ConsumeLiquidity(m, vol),
         legacy' = legacy, free' = free, NEW u \in Users
  PROVE  Entitlement(u)' = Entitlement(u)
<1> DEFINE e == begin_of_era(now)
           c == Contribution(m, vol)
           tk == [taken EXCEPT ![e] = @ + c]
           last == rewards[m].last_modify
           r == Rotated(rewards[m], tk[last], e, c)
           total == taken[rewards[u].last_modify]
           L == OldTotal(legacy[u])
<1>1. /\ TypeOK /\ rewards \in [Users -> RewardOf] /\ legacy \in [Users -> RewardOf]
      /\ taken \in [Eras -> Nat] /\ free \in [Users -> Nat]
  BY DEF SharesFit, TypeOK
<1>2. CASE ~CanRemove(m, vol)
  BY <1>2, EntitlementIs DEF ConsumeLiquidity, SameEra
<1>3. CASE CanRemove(m, vol)
  <2>1. taken' = tk /\ rewards' = [rewards EXCEPT ![m] = r] /\ CanRotate(rewards[m], tk[last], e)
    BY <1>3 DEF ConsumeLiquidity
  <2>2. e \in Eras /\ c \in Nat /\ EraReward \in Nat
    BY <1>1, EraOfBlock, ContributionIsNatural, DueIsNatural, FitsNow DEF TypeOK
  <2>3. /\ rewards[u] \in RewardOf /\ rewards[u].last_modify \in Eras /\ rewards[m] \in RewardOf
        /\ last \in Eras /\ legacy[u] \in RewardOf /\ legacy[u].last_modify \in Eras
    BY <1>1 DEF RewardOf
  <2>4. total \in Nat /\ L \in Nat /\ free[u] \in Nat /\ tk[last] \in Nat
    BY <1>1, <2>2, <2>3, LegacyAssumption DEF OldTotal
  <2>5. \A d \in Eras : d # e => tk[d] = taken[d]
    BY <1>1
  <2>6. CASE u = m
    <3>1. r.confirmed = rewards[m].confirmed + DueAt(rewards[m], tk[last], e, EraReward)
          /\ r.last_modify = e
      BY DEF Rotated, Due, DueAt
    <3>2. DueAt(rewards[m], tk[last], e, EraReward) = DueAt(rewards[m], taken[last], e, EraReward)
      <4>1. CASE last = e
        BY <4>1 DEF DueAt, IsDue
      <4>2. CASE last # e
        BY <4>2, <2>3, <2>5
      <4> QED
        BY <4>1, <4>2
    <3>3. rewards'[u] = r
      BY <1>1, <2>1, <2>6
    <3> HIDE DEF r, e, tk
    <3>4. EntitledTo(free[u], r, legacy[u], tk[r.last_modify], L, e, EraReward)
            = EntitledTo(free[u], rewards[u], legacy[u], total, L, e, EraReward)
      BY <2>2, <2>3, <2>4, <2>6, <3>1, <3>2, RotationKeeps
    <3> QED
      BY <2>1, <3>3, <3>4, EntitlementIs DEF SameEra, e
  <2>7. CASE u # m
    <3>1. rewards'[u] = rewards[u]
      BY <1>1, <2>1, <2>7
    <3>2. DueAt(rewards[u], tk[rewards[u].last_modify], e, EraReward)
            = DueAt(rewards[u], taken[rewards[u].last_modify], e, EraReward)
      <4>1. CASE rewards[u].last_modify = e
        BY <4>1 DEF DueAt, IsDue
      <4>2. CASE rewards[u].last_modify # e
        BY <4>2, <2>3, <2>5
      <4> QED
        BY <4>1, <4>2
    <3> HIDE DEF e, tk
    <3> QED
      BY <2>1, <3>1, <3>2, EntitlementIs DEF SameEra, EntitledTo, e
  <2> QED
    BY <2>6, <2>7
<1> QED
  BY <1>2, <1>3

(* Nothing is left to expect of a record that was claimed. *)
LEMMA ClaimedIsSpent ==
  ASSUME NEW r \in RewardOf, NEW e, r.last_modify = e, NEW total, NEW reward
  PROVE  Claimed(r).confirmed = 0 /\ DueAt(Claimed(r), total, e, reward) = 0
<1>1. r.confirmed \in Nat
  BY DEF RewardOf
<1>2. Claimed(r).confirmed = 0
  BY <1>1 DEF Claimed, NoReward, RewardOf
<1>3. Claimed(r).last_modify = e \/ Claimed(r).pending_vol = 0
  BY ClaimedRecord
<1> QED
  BY <1>2, <1>3 DEF DueAt, IsDue

LEMMA TakeRewardKeeps ==
  ASSUME SharesFit, SameEra, NEW v \in Users, TakeReward(v), NEW u \in Users
  PROVE  Entitlement(u)' = Entitlement(u)
<1> DEFINE e == begin_of_era(now)
           last == rewards[v].last_modify
           lastOld == legacy[v].last_modify
           old == Rotated(legacy[v], LegacyVolumes[lastOld], e, 0)
           new == Rotated(rewards[v], taken[last], e, 0)
<1>1. TypeOK /\ rewards \in [Users -> RewardOf] /\ legacy \in [Users -> RewardOf]
      /\ taken \in [Eras -> Nat] /\ free \in [Users -> Nat]
  BY DEF SharesFit, TypeOK
<1>2. e \in Eras /\ EraReward \in Nat
  BY <1>1, EraOfBlock, DueIsNatural, FitsNow DEF TypeOK
<1>3. rewards[v] \in RewardOf /\ legacy[v] \in RewardOf /\ last \in Eras /\ lastOld \in Eras
      /\ rewards[v].confirmed \in Nat /\ legacy[v].confirmed \in Nat
  BY <1>1 DEF RewardOf
<1>4. taken[last] \in Nat /\ LegacyVolumes[lastOld] \in Nat
  BY <1>1, <1>3, LegacyAssumption
<1>5. /\ CanRotate(legacy[v], LegacyVolumes[lastOld], e)
      /\ CanRotate(rewards[v], taken[last], e)
      /\ legacy' = [legacy EXCEPT ![v] = Claimed(old)]
      /\ rewards' = [rewards EXCEPT ![v] = Claimed(new)]
      /\ free' = [free EXCEPT ![v] = @ + old.confirmed + new.confirmed]
      /\ taken' = taken
  BY DEF TakeReward
<1>6. CASE u # v
  <2>1. legacy'[u] = legacy[u] /\ rewards'[u] = rewards[u] /\ free'[u] = free[u]
    BY <1>1, <1>5, <1>6
  <2> QED
    BY <1>5, <2>1, EntitlementIs DEF SameEra
<1>7. CASE u = v
  <2> DEFINE dueOld == DueAt(legacy[v], LegacyVolumes[lastOld], e, EraReward)
             dueNew == DueAt(rewards[v], taken[last], e, EraReward)
  <2>1. /\ old.confirmed = legacy[v].confirmed + dueOld /\ old.last_modify = e
        /\ new.confirmed = rewards[v].confirmed + dueNew /\ new.last_modify = e
    BY DEF Rotated, Due, DueAt
  <2>2. dueOld \in Nat /\ dueNew \in Nat
    BY <1>2, <1>3, <1>4, DueAtIsNatural
  <2>3. legacy'[v] = Claimed(old) /\ rewards'[v] = Claimed(new)
        /\ free'[v] = free[v] + old.confirmed + new.confirmed
    BY <1>1, <1>5
  <2>4. old \in RewardOf
    <3> HIDE DEF e
    <3> QED
      BY <1>1, <1>2, <1>3, <1>4, <1>5, RotatedRecord
  <2>5. new \in RewardOf
    <3> HIDE DEF e
    <3> QED
      BY <1>1, <1>2, <1>3, <1>4, <1>5, RotatedRecord
  <2> HIDE DEF old, new, e
  <2>6. /\ Claimed(old).confirmed = 0 /\ Claimed(new).confirmed = 0
        /\ DueAt(Claimed(old), OldTotal(Claimed(old)), e, EraReward) = 0
        /\ DueAt(Claimed(new), taken[Claimed(new).last_modify], e, EraReward) = 0
    BY <2>1, <2>4, <2>5, ClaimedIsSpent
  <2>7. Entitlement(v)' = free[v] + old.confirmed + new.confirmed
    <3>1. Entitlement(v)' = EntitledTo(free'[v], Claimed(new), Claimed(old),
                                       taken[Claimed(new).last_modify], OldTotal(Claimed(old)),
                                       e, EraReward)
      BY <1>5, <2>3, EntitlementIs DEF SameEra, e
    <3>2. free'[v] = free[v] + old.confirmed + new.confirmed /\ free'[v] \in Int
      BY <1>1, <1>3, <2>1, <2>2, <2>3
    <3> QED
      BY <2>6, <3>1, <3>2 DEF EntitledTo
  <2>8. Entitlement(v) = free[v] + rewards[v].confirmed + legacy[v].confirmed + dueNew + dueOld
    BY EntitlementIs DEF EntitledTo, OldTotal, e
  <2>9. free[v] \in Nat
    BY <1>1
  <2> HIDE DEF dueOld, dueNew
  <2> QED
    BY <1>3, <1>7, <2>1, <2>2, <2>7, <2>8, <2>9
<1> QED
  BY <1>6, <1>7

LEMMA NewBlockKeeps ==
  ASSUME Settled, NewBlock, EraReward' = EraReward, NEW u \in Users
  PROVE  Entitlement(u)' >= Entitlement(u)
<1> DEFINE e == begin_of_era(now)
           d == begin_of_era(now + 1)
           R == EraReward
           r == rewards[u]
           l == legacy[u]
           total == taken[r.last_modify]
           L == OldTotal(l)
<1>1. /\ TypeOK /\ rewards \in [Users -> RewardOf] /\ legacy \in [Users -> RewardOf]
      /\ taken \in [Eras -> Nat] /\ free \in [Users -> Nat]
  BY DEF Settled, SharesFit, TypeOK
<1>2. r \in RewardOf /\ l \in RewardOf /\ r.last_modify \in Eras /\ l.last_modify \in Eras
      /\ r.confirmed \in Nat /\ l.confirmed \in Nat
  BY <1>1 DEF RewardOf
<1>3. total \in Nat /\ L \in Nat /\ free[u] \in Nat
  BY <1>1, <1>2, LegacyAssumption DEF OldTotal
<1>4. r.last_modify \in Nat /\ l.last_modify \in Nat /\ e \in Nat /\ now \in Nat
  BY LastsOfTypes DEF Settled
<1>5. r.last_modify <= e /\ l.last_modify <= e
  BY DEF Settled, LastsArePast
<1>6. now' = now + 1 /\ UNCHANGED <<taken, rewards, legacy, free>>
  BY DEF NewBlock, records
<1>7. now + 1 \in Blocks
  BY <1>4, CountAssumption DEF NewBlock, Blocks
<1>8. d \in Nat /\ e <= d
  BY <1>4, <1>7, EraOfBlock, ErasAdvance
<1>9. R \in Nat
  BY <1>1, <1>2, <1>3, DueIsNatural
<1>10. /\ Entitlement(u) = EntitledTo(free[u], r, l, total, L, e, R)
       /\ Entitlement(u)' = EntitledTo(free[u], r, l, total, L, d, R)
  BY <1>6, EntitlementIs
<1> HIDE DEF e, d, r, l, total, L, R
<1>11. /\ DueAt(r, total, e, R) <= DueAt(r, total, d, R) /\ DueAt(l, L, e, R) <= DueAt(l, L, d, R)
  BY <1>2, <1>3, <1>4, <1>5, <1>8, <1>9, DueLater
<1>12. /\ DueAt(r, total, e, R) \in Nat /\ DueAt(r, total, d, R) \in Nat
       /\ DueAt(l, L, e, R) \in Nat /\ DueAt(l, L, d, R) \in Nat
  BY <1>2, <1>3, <1>9, DueAtIsNatural
<1> QED
  BY <1>2, <1>3, <1>10, <1>11, <1>12 DEF EntitledTo

LEMMA EntitlementIsNumber ==
  ASSUME SharesFit, NEW u \in Users
  PROVE  Entitlement(u) \in Int
<1>1. /\ TypeOK /\ rewards \in [Users -> RewardOf] /\ legacy \in [Users -> RewardOf]
      /\ taken \in [Eras -> Nat] /\ free \in [Users -> Nat]
  BY DEF SharesFit, TypeOK
<1>2. /\ rewards[u] \in RewardOf /\ rewards[u].last_modify \in Eras /\ rewards[u].confirmed \in Nat
      /\ legacy[u] \in RewardOf /\ legacy[u].last_modify \in Eras /\ legacy[u].confirmed \in Nat
  BY <1>1 DEF RewardOf
<1>3. taken[rewards[u].last_modify] \in Nat /\ LegacyVolumes[legacy[u].last_modify] \in Nat
      /\ free[u] \in Nat
  BY <1>1, <1>2, LegacyAssumption
<1>4. /\ Due(rewards[u], taken[rewards[u].last_modify], begin_of_era(now)) \in Nat
      /\ Due(legacy[u], LegacyVolumes[legacy[u].last_modify], begin_of_era(now)) \in Nat
  BY <1>1, <1>2, <1>3, DueIsNatural
<1> QED
  BY <1>2, <1>3, <1>4 DEF Entitlement

LEMMA StepKeeps ==
  ASSUME Settled, [Next]_vars, era_rewards' = era_rewards,
         now' > RewardTerminateAt <=> now > RewardTerminateAt, NEW u \in Users
  PROVE  Entitlement(u)' >= Entitlement(u)
<1>1. EraReward' = EraReward
  BY DEF EraReward
<1>2. SharesFit /\ Entitlement(u) \in Int
  BY EntitlementIsNumber DEF Settled
<1>3. CASE NewBlock
  BY <1>1, <1>3, NewBlockKeeps
<1>4. CASE now' = now /\ UNCHANGED <<rewards, legacy, taken, free>>
  BY <1>1, <1>2, <1>4, EntitlementIs
<1>5. ASSUME NEW v \in Users, TakeReward(v) PROVE Entitlement(u)' >= Entitlement(u)
  <2>1. SameEra
    BY <1>1, <1>5 DEF SameEra, TakeReward
  <2> QED
    BY <1>2, <1>5, <2>1, TakeRewardKeeps
<1>6. ASSUME NEW t \in Users, NEW side \in Sides, NEW price, NEW amount \in Amounts,
             NEW m \in Users, NEW fill \in 1..amount, NEW rest,
             Trade(t, side, price, amount, m, fill, rest)
      PROVE  Entitlement(u)' >= Entitlement(u)
  <2> DEFINE k == <<m, Opposite(side)>>
             vol == fill * orders[k].price
  <2>1. k \in Orders
    BY DEF Orders, Sides, Opposite
  <2>2. orders[k].price \in Nat
    BY <1>2, <2>1, FitsNow DEF OrderType
  <2>3. vol \in Nat
    BY <2>2, AmountAssumption
  <2>4. ConsumeLiquidity(m, vol) /\ legacy' = legacy /\ free' = free /\ SameEra
    BY <1>1, <1>6 DEF Trade, SameEra
  <2> HIDE DEF vol
  <2> QED
    BY <1>2, <2>3, <2>4, ConsumeKeeps
<1>7. CASE \E v \in Users : TakeReward(v)
  BY <1>5, <1>7
<1>8. CASE \E r \in EraRewardsSet : SetEraRewards(r)
  BY <1>4, <1>8 DEF SetEraRewards, records
<1>9. CASE \E v \in Users, side \in Sides : Cancel(v, side)
  BY <1>4, <1>9 DEF Cancel, records
<1>10. CASE \E v \in Users, side \in Sides, price \in Prices, amount \in Amounts :
              Place(v, side, price, amount)
  BY <1>4, <1>10 DEF Place, records
<1>11. CASE \E v \in Users, side \in Sides, price \in Prices, amount \in Amounts :
              \E m \in Users, fill \in 1..amount :
                \E rest \in {0, amount - fill} : Trade(v, side, price, amount, m, fill, rest)
  BY <1>6, <1>11
<1>12. CASE UNCHANGED vars
  BY <1>4, <1>12 DEF vars, records
<1> QED
  BY <1>3, <1>7, <1>8, <1>9, <1>10, <1>11, <1>12 DEF Next

(* Whatever is traded, cancelled and claimed, nobody gets less for the     *)
(* eras that are over than before, for any number of accounts and eras, as *)
(* long as the treasury leaves the rewards and they do not terminate.      *)
THEOREM PastErasAreKept == Spec => EntitlementsKept
<1>1. Settled /\ [Next]_vars =>
        [(era_rewards' = era_rewards /\ (now' > RewardTerminateAt <=> now > RewardTerminateAt))
            => \A u \in Users : Entitlement(u)' >= Entitlement(u)]_vars
  BY StepKeeps
<1> QED
  BY <1>1, InitSettled, StepSettled, PTL DEF Spec, EntitlementsKept

-----------------------------------------------------------------------------
(* What an era is paid. *)

(* Who has something pending of era e. *)
Holding(rs, e) ==
    [u \in Users |-> IF rs[u].last_modify = e /\ rs[u].pending_vol # 0 THEN 1 ELSE 0]

(* What a rounded share of r is worth of the whole, in units of the whole. *)
LEMMA ShareIsSmall ==
  ASSUME NEW T \in Nat \ {0}, NEW x \in Nat, x <= T, NEW reward \in Nat, NEW r \in Nat, reward <= r
  PROVE  /\ MulNearest(FromRational(x, T), reward) \in Nat
         /\ 2 * (T * MulNearest(FromRational(x, T), reward)) <= 2 * (r * x) + T
<1> DEFINE q == (x * Parts) \div T
           m == (2 * q * reward + Parts - 1) \div (2 * Parts)
<1>3. Parts \in Nat \ {0}
  BY AmountAssumption
<1>4. /\ q \in Nat /\ T * q <= Parts * x
      /\ m \in Nat /\ (2 * Parts) * m <= (2 * reward) * q + Parts
  BY <1>3, RoundedShare, Zenon
<1>6. FromRational(x, T) = q
  BY DEF FromRational
<1> HIDE DEF q
<1>7. MulNearest(FromRational(x, T), reward) = m
  BY <1>6, Zenon DEF MulNearest
<1> HIDE DEF m
<1>5. 2 * (T * m) <= 2 * (r * x) + T
  BY <1>3, <1>4, ShareOfWhole
<1> QED
  BY <1>4, <1>5, <1>7, Zenon

(* The contributions t of an era, counted once for each half unit that     *)
(* rounding may add and twice r for the rewards, cover what has been paid  *)
(* and what the holders have pending.                                      *)
Covers(r, t, sum, pending, holders) ==
    2 * (t * sum) + 2 * (r * pending) + t * holders <= 2 * (r * t) + t * NUsers

LEMMA CoversUnpaid ==
  ASSUME NEW r \in Nat, NEW t \in Nat, NEW a \in Nat, a <= t, NEW h \in Nat, h <= NUsers
  PROVE  Covers(r, t, 0, a, h)
<1>1. NUsers \in Nat
  BY CountAssumption
<1>2. r * a <= r * t /\ t * h <= t * NUsers /\ t * 0 = 0
  BY <1>1, ProductMonotone
<1>3. r * a \in Nat /\ r * t \in Nat /\ t * h \in Nat /\ t * NUsers \in Nat
  BY <1>1, ProductNat
<1> DEFINE z == t * 0
           ra == r * a
           rt == r * t
           th == t * h
           tn == t * NUsers
<1> SUFFICES 2 * z + 2 * ra + th <= 2 * rt + tn
  BY DEF Covers
<1> HIDE DEF z, ra, rt, th, tn
<1> QED
  BY <1>2, <1>3 DEF z, ra, rt, th, tn

LEMMA CoversPaid ==
  ASSUME NEW r \in Nat, NEW t \in Nat, NEW s \in Nat, NEW a \in Nat, NEW h \in Nat,
         Covers(r, t, s, a, h),
         NEW x \in Nat, NEW m \in Nat, 2 * (t * m) <= 2 * (r * x) + t, x <= a, 1 <= h
  PROVE  Covers(r, t, s + m, a - x, h - 1)
<1>1. NUsers \in Nat
  BY CountAssumption
<1> DEFINE ts == t * s
           tm == t * m
           ra == r * a
           rx == r * x
           rt == r * t
           th == t * h
           tn == t * NUsers
<1>2. ts \in Nat /\ tm \in Nat /\ ra \in Nat /\ rx \in Nat /\ rt \in Nat /\ th \in Nat /\ tn \in Nat
  BY <1>1, ProductNat
<1>3. t * (s + m) = ts + tm
  BY Products
<1>4. r * (a - x) = ra - rx
  BY Products
<1>5. t * (h - 1) = th - t
  <2>1. t * (h - 1) = t * h - t * 1 /\ t * 1 = t
    BY Products
  <2> QED
    BY <2>1
<1>6. 2 * ts + 2 * ra + th <= 2 * rt + tn
  BY DEF Covers
<1>7. 2 * tm <= 2 * rx + t
  OBVIOUS
<1> HIDE DEF ts, tm, ra, rx, rt, th, tn
<1>8. 2 * (ts + tm) + 2 * (ra - rx) + (th - t) <= 2 * rt + tn
  BY <1>2, <1>6, <1>7
<1> QED
  BY <1>3, <1>4, <1>5, <1>8, Zenon DEF Covers, rt, tn

LEMMA CoversBounds ==
  ASSUME NEW r \in Nat, NEW t \in Nat \ {0}, NEW s \in Nat, NEW a \in Nat, NEW h \in Nat,
         Covers(r, t, s, a, h)
  PROVE  2 * s <= 2 * r + NUsers
<1>1. NUsers \in Nat
  BY CountAssumption
<1>2. t * s \in Nat /\ r * a \in Nat /\ t * h \in Nat /\ r * t \in Nat /\ t * NUsers \in Nat
  BY <1>1, ProductNat
<1>3. 2 * (t * s) <= 2 * (r * t) + t * NUsers
  <2> DEFINE ts == t * s
             ra == r * a
             th == t * h
             rt == r * t
             tn == t * NUsers
  <2>1. 2 * ts + 2 * ra + th <= 2 * rt + tn
    BY DEF Covers
  <2>2. ts \in Nat /\ ra \in Nat /\ th \in Nat /\ rt \in Nat /\ tn \in Nat
    BY <1>2
  <2> HIDE DEF ts, ra, th, rt, tn
  <2>3. 2 * ts <= 2 * rt + tn
    BY <2>1, <2>2
  <2> QED
    BY <2>3 DEF ts, rt, tn
<1>4. t * (2 * s) = 2 * (t * s)
  OBVIOUS
<1>5. t * (2 * r + NUsers) = 2 * (r * t) + t * NUsers
  BY <1>1
<1>6. t * (2 * s) <= t * (2 * r + NUsers)
  BY <1>3, <1>4, <1>5, Zenon
<1> QED
  BY <1>1, <1>6, ProductCancel

LEMMA HoldingIsNatural ==
  ASSUME NEW rs, NEW e
  PROVE  /\ Holding(rs, e) \in [1..NUsers -> Nat] /\ Holding(rs, e) \in [1..NUsers -> Int]
         /\ SumTo(Holding(rs, e), NUsers) \in Nat /\ SumTo(Holding(rs, e), NUsers) <= NUsers
         /\ \A u \in Users : Holding(rs, e)[u] <= SumTo(Holding(rs, e), NUsers)
<1> DEFINE f == Holding(rs, e)
           one == [u \in 1..NUsers |-> 1]
<1>1. /\ f \in [1..NUsers -> Nat] /\ f \in [1..NUsers -> Int] /\ NUsers \in Nat
      /\ \A u \in 1..NUsers : f[u] <= one[u]
  BY CountAssumption DEF Holding, Users
<1>2. one \in [1..NUsers -> Int] /\ \A u \in 1..NUsers : one[u] = 1
  OBVIOUS
<1> HIDE DEF f, one
<1>3. SumTo(one, NUsers) = NUsers * 1
  BY <1>1, <1>2, 1 \in Int, SumToConstant, Zenon
<1>4. SumTo(f, NUsers) <= SumTo(one, NUsers)
  BY <1>1, <1>2, SumToMonotone
<1>5. SumTo(f, NUsers) \in Nat /\ \A u \in 1..NUsers : f[u] <= SumTo(f, NUsers)
  BY <1>1, SumToNat
<1> QED
  BY <1>1, <1>3, <1>4, <1>5 DEF f, Users

(* One record changes to one that has nothing pending of e. *)
LEMMA HoldingChange ==
  ASSUME NEW rs \in [Users -> RewardOf], NEW u \in Users, NEW r \in RewardOf, NEW e,
         r.last_modify # e \/ r.pending_vol = 0
  PROVE  /\ SumTo(Holding([rs EXCEPT ![u] = r], e), NUsers)
              = SumTo(Holding(rs, e), NUsers) - Holding(rs, e)[u]
         /\ SumTo(PendingOf([rs EXCEPT ![u] = r], e), NUsers)
              = SumTo(PendingOf(rs, e), NUsers) - PendingOf(rs, e)[u]
<1> DEFINE rs1 == [rs EXCEPT ![u] = r]
           f == Holding(rs, e)
           g == Holding(rs1, e)
<1>1. /\ f \in [1..NUsers -> Int] /\ g \in [1..NUsers -> Int]
  BY HoldingIsNatural
<1>2. \A v \in 1..NUsers : v # u => g[v] = f[v]
  BY DEF Holding, Users
<1>3. g[u] = 0 /\ f[u] \in Int /\ SumTo(f, NUsers) \in Int
  <2>1. rs1[u] = r
    OBVIOUS
  <2>2. SumTo(f, NUsers) \in Int
    BY HoldingIsNatural
  <2> HIDE DEF rs1
  <2> QED
    BY <1>1, <2>1, <2>2 DEF Holding, Users
<1> HIDE DEF f, g, rs1
<1>4. SumTo(g, NUsers) = SumTo(f, NUsers) + g[u] - f[u]
  BY <1>1, <1>2, CountAssumption, SumToChange DEF Users
<1>5. SumTo(g, NUsers) = SumTo(f, NUsers) - f[u]
  BY <1>3, <1>4
<1>6. /\ SumTo(PendingOf(rs, e), NUsers) \in Nat /\ PendingOf(rs, e)[u] \in Nat
      /\ SumTo(PendingOf([rs EXCEPT ![u] = r], e), NUsers)
           = SumTo(PendingOf(rs, e), NUsers)
             + (IF r.last_modify = e THEN r.pending_vol ELSE 0) - PendingOf(rs, e)[u]
  BY PendingChange
<1>7. (IF r.last_modify = e THEN r.pending_vol ELSE 0) = 0
  OBVIOUS
<1> QED
  BY <1>5, <1>6, <1>7 DEF f, g, rs1

(* The inductive invariant: eras that are not over are not paid, an era    *)
(* without contributions never is, and no era is paid too much.            *)
PaidWithin ==
  /\ \A e \in Eras : e >= begin_of_era(now) \/ taken[e] = 0 => paid[e] = 0
  /\ \A r \in EraRewardsSet : (\A x \in EraRewardsSet : x <= r) =>
        \A e \in Eras : Covers(r, taken[e], paid[e], SumTo(PendingOf(rewards, e), NUsers),
                               SumTo(Holding(rewards, e), NUsers))

Accounted == Settled /\ PaidWithin

LEMMA InitAccounted == Init => Accounted
<1> SUFFICES ASSUME Init PROVE PaidWithin
  BY InitSettled DEF Accounted
<1>1. SharesFit
  BY InitFits
<1>2. \A e \in Eras : paid[e] = 0
  BY DEF Init
<1>3. ASSUME NEW r \in EraRewardsSet, NEW e \in Eras
      PROVE  Covers(r, taken[e], 0, SumTo(PendingOf(rewards, e), NUsers), SumTo(Holding(rewards, e), NUsers))
  <2>1. r \in Nat /\ taken[e] \in Nat /\ SumTo(PendingOf(rewards, e), NUsers) <= taken[e]
    BY <1>1, AmountAssumption DEF SharesFit, TypeOK
  <2>2. SumTo(PendingOf(rewards, e), NUsers) \in Nat
    <3>1. rewards \in [Users -> RewardOf]
      BY <1>1 DEF SharesFit, TypeOK
    <3> QED
      BY <3>1, PendingIsNatural, SumToNat, CountAssumption
  <2>3. SumTo(Holding(rewards, e), NUsers) \in Nat /\ SumTo(Holding(rewards, e), NUsers) <= NUsers
    BY HoldingIsNatural
  <2> QED
    BY <2>1, <2>2, <2>3, CoversUnpaid
<1> QED
  BY <1>2, <1>3 DEF PaidWithin

(* The record of account u is rotated: what is due of its era is paid, and *)
(* nothing is left pending of any era but the current one.                 *)
LEMMA RotationPays ==
  ASSUME Accounted, SharesFit', now' = now,
         NEW u \in Users, NEW r1 \in RewardOf,
         rewards' = [rewards EXCEPT ![u] = r1],
         r1.last_modify = begin_of_era(now) \/ r1.pending_vol = 0,
         \A d \in Eras : d # begin_of_era(now) => taken'[d] = taken[d],
         paid' = [paid EXCEPT ![rewards[u].last_modify] =
                    @ + Due(rewards[u], taken[rewards[u].last_modify], begin_of_era(now))]
  PROVE  PaidWithin'
<1> DEFINE e == begin_of_era(now)
           last == rewards[u].last_modify
           x == rewards[u].pending_vol
           due == Due(rewards[u], taken[last], e)
<1>1. /\ rewards \in [Users -> RewardOf] /\ taken \in [Eras -> Nat] /\ paid \in [Eras -> Nat]
      /\ rewards' \in [Users -> RewardOf] /\ taken' \in [Eras -> Nat] /\ TypeOK
      /\ \A d \in Eras : SumTo(PendingOf(rewards', d), NUsers) <= taken'[d]
      /\ \A d \in Eras : SumTo(PendingOf(rewards, d), NUsers) <= taken[d]
  BY DEF Accounted, Settled, SharesFit, TypeOK
<1>2. /\ e \in Eras /\ e \in Nat /\ \A d \in Eras : d \in Nat
  <2>1. now \in Blocks
    BY <1>1 DEF TypeOK
  <2> QED
    BY <2>1, EraOfBlock DEF Eras
<1>3. last \in Eras /\ last <= e /\ x \in Nat /\ rewards[u] \in RewardOf /\ x <= taken[last]
  BY RecordFits DEF Accounted, Settled, LastsArePast, RewardOf
<1>4. due \in Nat /\ EraReward \in Nat
  BY <1>1, <1>3, DueIsNatural
<1>5. \A d \in Eras : paid'[d] = IF d = last THEN paid[d] + due ELSE paid[d]
  BY <1>1, <1>3
<1>6. last = e \/ x = 0 => due = 0
  BY DEF Due, IsDue
<1>7. last # e /\ x # 0 => due = MulNearest(FromRational(x, taken[last]), EraReward)
  BY DEF Due, IsDue
<1> HIDE DEF due
<1>8. ASSUME NEW d \in Eras, d >= e PROVE paid'[d] = 0
  <2>1. paid[d] = 0
    BY <1>8 DEF Accounted, PaidWithin
  <2>2. CASE d = last
    <3>1. last = e
      BY <1>2, <1>3, <1>8, <2>2
    <3> QED
      BY <1>5, <1>6, <2>1, <2>2, <3>1
  <2>3. CASE d # last
    BY <1>5, <2>1, <2>3
  <2> QED
    BY <2>2, <2>3
<1>9. ASSUME NEW d \in Eras, taken'[d] = 0 PROVE paid'[d] = 0
  <2>1. CASE d = e
    BY <1>2, <1>8, <2>1
  <2>2. CASE d # e
    <3>1. taken[d] = 0
      BY <1>9, <2>2
    <3>2. paid[d] = 0
      BY <3>1 DEF Accounted, PaidWithin
    <3>3. d = last => x = 0
      BY <1>3, <3>1
    <3> QED
      BY <1>5, <1>6, <3>2, <3>3
  <2> QED
    BY <2>1, <2>2
<1>10. ASSUME NEW r \in EraRewardsSet, \A y \in EraRewardsSet : y <= r, NEW d \in Eras
       PROVE  Covers(r, taken'[d], paid'[d], SumTo(PendingOf(rewards', d), NUsers),
                     SumTo(Holding(rewards', d), NUsers))
  <2> DEFINE a == SumTo(PendingOf(rewards, d), NUsers)
             h == SumTo(Holding(rewards, d), NUsers)
             an == SumTo(PendingOf(rewards', d), NUsers)
             hn == SumTo(Holding(rewards', d), NUsers)
             ga == PendingOf(rewards, d)[u]
             gh == Holding(rewards, d)[u]
  <2>1. /\ r \in Nat /\ taken[d] \in Nat /\ taken'[d] \in Nat /\ paid[d] \in Nat
        /\ a <= taken[d] /\ an <= taken'[d]
    BY <1>1, AmountAssumption
  <2>2. a \in Nat /\ an \in Nat
    BY <1>1, PendingIsNatural, SumToNat, CountAssumption
  <2>3. h \in Nat /\ hn \in Nat /\ hn <= NUsers /\ gh <= h
    BY HoldingIsNatural
  <2>4. Covers(r, taken[d], paid[d], a, h)
    BY <1>10 DEF Accounted, PaidWithin
  <2>5. /\ ga = IF last = d THEN x ELSE 0
        /\ gh = IF last = d /\ x # 0 THEN 1 ELSE 0
    BY DEF PendingOf, Holding
  <2> HIDE DEF a, h, an, hn, ga, gh
  <2>6. CASE d >= e
    <3>1. paid'[d] = 0
      BY <1>8, <2>6
    <3>2. Covers(r, taken'[d], 0, an, hn)
      BY <2>1, <2>2, <2>3, CoversUnpaid
    <3> QED
      BY <3>1, <3>2 DEF an, hn
  <2>7. CASE d < e
    <3>1. taken'[d] = taken[d] /\ d # e
      BY <1>2, <2>7
    <3>2. an = a - ga /\ hn = h - gh
      <4>1. r1.last_modify # d \/ r1.pending_vol = 0
        BY <3>1
      <4>2. rewards \in [Users -> RewardOf]
        BY <1>1
      <4>3. /\ SumTo(Holding([rewards EXCEPT ![u] = r1], d), NUsers)
                 = SumTo(Holding(rewards, d), NUsers) - Holding(rewards, d)[u]
            /\ SumTo(PendingOf([rewards EXCEPT ![u] = r1], d), NUsers)
                 = SumTo(PendingOf(rewards, d), NUsers) - PendingOf(rewards, d)[u]
        BY <4>1, <4>2, HoldingChange
      <4> QED
        BY <4>3, Zenon DEF an, hn, a, h, ga, gh
    <3>3. CASE last # d \/ x = 0
      <4>1. an = a /\ hn = h
        BY <2>2, <2>3, <2>5, <3>2, <3>3
      <4>2. paid'[d] = paid[d]
        BY <1>5, <1>6, <2>1, <3>3
      <4> QED
        BY <2>4, <3>1, <4>1, <4>2 DEF an, hn
    <3>4. CASE last = d /\ x # 0
      <4>1. an = a - x /\ hn = h - 1 /\ 1 <= h
        BY <2>3, <2>5, <3>2, <3>4
      <4>2. x <= a
        <5>1. ga <= a
          <6>1. PendingOf(rewards, d) \in [1..NUsers -> Nat] /\ u \in 1..NUsers
            BY <1>1, PendingIsNatural DEF Users
          <6> QED
            BY <6>1, CountAssumption, SumToNat DEF ga, a
        <5> QED
          BY <2>5, <3>4, <5>1
      <4>3. paid'[d] = paid[d] + due
        BY <1>5, <3>4
      <4>4. EraReward <= r
        BY <1>1, <1>4, <1>10, <2>1 DEF EraReward, TypeOK
      <4>5. taken[d] \in Nat \ {0} /\ x <= taken[d]
        BY <1>3, <2>1, <3>4
      <4>6. 2 * (taken[d] * due) <= 2 * (r * x) + taken[d]
        <5>1. due = MulNearest(FromRational(x, taken[d]), EraReward)
          BY <1>7, <3>1, <3>4
        <5>2. 2 * (taken[d] * MulNearest(FromRational(x, taken[d]), EraReward)) <= 2 * (r * x) + taken[d]
          <6> HIDE DEF x
          <6> QED
            BY <1>3, <1>4, <2>1, <4>4, <4>5, ShareIsSmall
        <5> QED
          BY <5>1, <5>2, Zenon
      <4>7. Covers(r, taken[d], paid[d] + due, a - x, h - 1)
        <5> HIDE DEF x
        <5> QED
          BY <1>3, <1>4, <2>1, <2>2, <2>3, <2>4, <4>1, <4>2, <4>6, CoversPaid
      <4> QED
        BY <3>1, <4>1, <4>3, <4>7 DEF an, hn
    <3> QED
      BY <3>3, <3>4
  <2> QED
    BY <1>2, <2>6, <2>7
<1> QED
  BY <1>8, <1>9, <1>10 DEF PaidWithin

LEMMA ConsumePays ==
  ASSUME Accounted, SharesFit', now' = now, NEW m \in Users, NEW vol \in Nat, ConsumeLiquidity(m, vol)
  PROVE  PaidWithin'
<1> DEFINE e == begin_of_era(now)
           c == Contribution(m, vol)
           tk == [taken EXCEPT ![e] = @ + c]
           last == rewards[m].last_modify
           r == Rotated(rewards[m], tk[last], e, c)
<1>1. TypeOK /\ taken \in [Eras -> Nat] /\ SharesFit /\ now \in Blocks
  BY DEF Accounted, Settled, SharesFit, TypeOK
<1>2. CASE ~CanRemove(m, vol)
  BY <1>2 DEF ConsumeLiquidity, Accounted, PaidWithin
<1>3. CASE CanRemove(m, vol)
  <2>1. /\ taken' = tk /\ CanRotate(rewards[m], tk[last], e)
        /\ rewards' = [rewards EXCEPT ![m] = r]
        /\ paid' = [paid EXCEPT ![last] = @ + Due(rewards[m], tk[last], e)]
    BY <1>3 DEF ConsumeLiquidity
  <2>2. e \in Eras /\ c \in Nat /\ rewards[m] \in RewardOf /\ last \in Eras
    BY <1>1, EraOfBlock, ContributionIsNatural, RecordFits
  <2> HIDE DEF c, e
  <2>3. \A d \in Eras : d # e => tk[d] = taken[d]
    BY <1>1
  <2>4. Due(rewards[m], tk[last], e) = Due(rewards[m], taken[last], e)
    <3>1. CASE last = e
      BY <3>1 DEF Due, IsDue
    <3>2. CASE last # e
      BY <2>2, <2>3, <3>2
    <3> QED
      BY <3>1, <3>2
  <2>5. tk[last] \in Nat
    BY <1>1, <2>2
  <2>6. r \in RewardOf /\ r.last_modify = e
    BY <1>1, <2>1, <2>2, <2>5, RotatedRecord
  <2> HIDE DEF r, tk
  <2> QED
    BY <2>1, <2>2, <2>3, <2>4, <2>6, RotationPays DEF e
<1> QED
  BY <1>2, <1>3

LEMMA TakeRewardPays ==
  ASSUME Accounted, SharesFit', NEW u \in Users, TakeReward(u)
  PROVE  PaidWithin'
<1> DEFINE e == begin_of_era(now)
           last == rewards[u].last_modify
           new == Rotated(rewards[u], taken[last], e, 0)
<1>1. /\ now' = now /\ taken' = taken /\ CanRotate(rewards[u], taken[last], e)
      /\ rewards' = [rewards EXCEPT ![u] = Claimed(new)]
      /\ paid' = [paid EXCEPT ![last] = @ + Due(rewards[u], taken[last], e)]
  BY DEF TakeReward
<1>2. TypeOK /\ SharesFit /\ e \in Eras /\ rewards[u] \in RewardOf /\ last \in Eras /\ taken[last] \in Nat
  <2>1. TypeOK /\ SharesFit /\ now \in Blocks /\ taken \in [Eras -> Nat]
    BY DEF Accounted, Settled, SharesFit, TypeOK
  <2> QED
    BY <2>1, EraOfBlock, RecordFits
<1> HIDE DEF e
<1>3. new \in RewardOf /\ new.last_modify = e
  BY <1>1, <1>2, RotatedRecord
<1> HIDE DEF new
<1>4. Claimed(new) \in RewardOf /\ (Claimed(new).last_modify = e \/ Claimed(new).pending_vol = 0)
  BY <1>3, ClaimedRecord
<1> QED
  BY <1>1, <1>4, RotationPays DEF e

LEMMA StepAccounted == Accounted /\ [Next]_vars => Accounted'
<1> SUFFICES ASSUME Accounted, [Next]_vars PROVE PaidWithin'
  BY StepSettled DEF Accounted
<1>1. SharesFit'
  BY StepSettled DEF Accounted, Settled
<1>2. CASE NewBlock
  <2>1. rewards' = rewards /\ taken' = taken /\ paid' = paid /\ now' = now + 1
    BY <1>2 DEF NewBlock, records
  <2>2. begin_of_era(now) <= begin_of_era(now') /\ begin_of_era(now) \in Nat /\ begin_of_era(now') \in Nat
    <3>1. now \in Blocks /\ now' \in Blocks /\ now \in Nat
      BY <1>1 DEF Accounted, Settled, SharesFit, TypeOK, Blocks
    <3> QED
      BY <2>1, <3>1, ErasAdvance, EraOfBlock
  <2>3. \A e \in Eras : e >= begin_of_era(now') => e >= begin_of_era(now)
    <3>1. \A e \in Eras : e \in Nat
      BY EraOfBlock DEF Eras
    <3> QED
      BY <2>2, <3>1
  <2> QED
    BY <2>1, <2>3 DEF Accounted, PaidWithin
<1>3. CASE UNCHANGED <<now, rewards, taken, paid>>
  BY <1>3 DEF Accounted, PaidWithin
<1>4. CASE \E r \in EraRewardsSet : SetEraRewards(r)
  BY <1>3, <1>4 DEF SetEraRewards, records
<1>5. CASE \E u \in Users : TakeReward(u)
  BY <1>1, <1>5, TakeRewardPays
<1>6. CASE \E u \in Users, side \in Sides : Cancel(u, side)
  BY <1>3, <1>6 DEF Cancel, records
<1>7. CASE \E u \in Users, side \in Sides, price \in Prices, amount \in Amounts :
             Place(u, side, price, amount)
  BY <1>3, <1>7 DEF Place, records
<1>8. CASE \E u \in Users, side \in Sides, price \in Prices, amount \in Amounts :
             \E m \in Users, fill \in 1..amount :
               \E rest \in {0, amount - fill} : Trade(u, side, price, amount, m, fill, rest)
  <2>1. PICK u \in Users, side \in Sides, price \in Prices, amount \in Amounts :
               \E m \in Users, fill \in 1..amount :
                 \E rest \in {0, amount - fill} : Trade(u, side, price, amount, m, fill, rest)
    BY <1>8
  <2>2. PICK m \in Users, fill \in 1..amount : \E rest \in {0, amount - fill} :
               Trade(u, side, price, amount, m, fill, rest)
    BY <2>1
  <2> DEFINE o == orders[<<m, Opposite(side)>>]
  <2>3. ConsumeLiquidity(m, fill * o.price) /\ now' = now
    BY <2>2 DEF Trade
  <2>4. fill * o.price \in Nat
    <3>1. <<m, Opposite(side)>> \in Orders
      BY DEF Orders, Sides, Opposite
    <3>2. o \in [price : Nat, left : Nat] /\ fill \in Nat
      BY <3>1, AmountAssumption DEF Accounted, Settled, SharesFit, TypeOK
    <3>3. o.price \in Nat
      BY <3>2
    <3> HIDE DEF o
    <3> QED
      BY <3>2, <3>3, ProductNat
  <2> HIDE DEF o
  <2> QED
    BY <1>1, <2>3, <2>4, ConsumePays
<1>9. CASE UNCHANGED vars
  BY <1>3, <1>9 DEF vars
<1> QED
  BY <1>2, <1>4, <1>5, <1>6, <1>7, <1>8, <1>9 DEF Next

LEMMA AccountedIsOnce == Accounted => EraIsPaidOnce
<1> SUFFICES ASSUME Accounted, NEW e \in Eras, NEW r \in EraRewardsSet, \A x \in EraRewardsSet : x <= r
             PROVE  2 * paid[e] <= 2 * r + NUsers
  BY DEF EraIsPaidOnce
<1>1. /\ r \in Nat /\ NUsers \in Nat /\ paid[e] \in Nat /\ taken[e] \in Nat
      /\ rewards \in [Users -> RewardOf]
  BY AmountAssumption, CountAssumption DEF Accounted, Settled, SharesFit, TypeOK
<1> DEFINE a == SumTo(PendingOf(rewards, e), NUsers)
           h == SumTo(Holding(rewards, e), NUsers)
<1>2. a \in Nat /\ h \in Nat
  BY <1>1, PendingIsNatural, HoldingIsNatural, SumToNat
<1>3. Covers(r, taken[e], paid[e], a, h)
  BY DEF Accounted, PaidWithin
<1>4. CASE taken[e] = 0
  <2>1. paid[e] = 0
    BY <1>4 DEF Accounted, PaidWithin
  <2> QED
    BY <1>1, <2>1
<1>5. CASE taken[e] # 0
  <2> HIDE DEF a, h
  <2> QED
    BY <1>1, <1>2, <1>3, <1>5, CoversBounds
<1> QED
  BY <1>4, <1>5

(* An era is paid once: whatever accounts trade and claim, in whatever     *)
(* order and with whatever changes of the rewards, what is confirmed for   *)
(* an era never exceeds the highest rewards, but for half a unit per       *)
(* account that rounding may add (EraIsPaidOnce).                          *)
THEOREM EraPaidOnce == Spec => []EraIsPaidOnce
<1>1. Spec => []Accounted
  BY InitAccounted, StepAccounted, PTL DEF Spec
<1> QED
  BY <1>1, AccountedIsOnce, PTL

=============================================================================
