--------------------------- MODULE StakingProofs ---------------------------
(***************************************************************************)
(* Proofs about Staking, for any number of stakers and dominators, any     *)
(* periods, amounts and balances: stakings, reserves and balances agree    *)
(* (StakesAreReserved), dominators are online exactly at the threshold     *)
(* (OnlineAtThreshold), no profit of an ended season is promised twice     *)
(* (SnapshotCoversUnclaimed), no call changes what anybody is entitled to  *)
(* (CallsKeepEntitlements), and stakers get no more than the profit        *)
(* (PaidFromProfit).                                                       *)
(***************************************************************************)
EXTENDS Staking, SumsProofs, TLAPS

-----------------------------------------------------------------------------
(* The calendar: seasons, checks and shares. *)

LEMMA Constants ==
  /\ NStakers \in Nat /\ NDominators \in Nat /\ MaxBlock \in Nat
  /\ GracePeriod \in Nat \ {0} /\ SeasonDuration \in Nat \ {0} /\ UnstakeDelay \in Nat \ {0}
  /\ MaxBlock + UnstakeDelay \in Nat
BY CountAssumption, PeriodAssumption

LEMMA SeasonOfNow ==
  ASSUME TypeOK, NEW d \in Dominators
  PROVE  /\ current_season(d) \in Seasons /\ current_season(d) \in Nat
         /\ now \in Nat /\ now <= MaxBlock /\ start[d] \in Nat
<1>1. now \in Nat /\ now <= MaxBlock /\ start[d] \in Nat
  BY Constants DEF TypeOK, Blocks
<1>2. CASE now <= start[d]
  BY <1>1, <1>2, Constants DEF current_season, Seasons
<1>3. CASE ~(now <= start[d])
  <2>1. now - start[d] \in Nat /\ now - start[d] <= MaxBlock
    BY <1>1, <1>3, Constants
  <2>2. /\ (now - start[d]) \div SeasonDuration \in Nat
        /\ (now - start[d]) \div SeasonDuration <= now - start[d]
    BY <2>1, Constants, DivMod, DivBelow
  <2>3. current_season(d) = (now - start[d]) \div SeasonDuration
    BY <1>3 DEF current_season
  <2> HIDE DEF current_season
  <2> QED
    BY <1>1, <2>1, <2>2, <2>3, Constants DEF Seasons
<1> QED
  BY <1>2, <1>3

(* The block an unstaked amount waits for. *)
LEMMA CheckOfNow ==
  ASSUME TypeOK
  PROVE  /\ CheckBlock(now) \in Blocks /\ CheckBlock(now) <= now /\ now - CheckBlock(now) < GracePeriod
         /\ CheckBlock(now) % GracePeriod = 0
         /\ CheckBlock(now) + UnstakeDelay \in UnlockBlocks
         /\ CheckBlock(now) + UnstakeDelay > now
         /\ (CheckBlock(now) + UnstakeDelay) % GracePeriod = 0
<1> DEFINE q == now \div GracePeriod
           r == now % GracePeriod
           c == CheckBlock(now)
<1>1. now \in Nat /\ now <= MaxBlock
  BY Constants DEF TypeOK, Blocks
<1>2. q \in Nat /\ r \in 0..(GracePeriod - 1) /\ now = GracePeriod * q + r /\ c = now - r
  BY <1>1, Constants, DivMod DEF CheckBlock
<1>3. UnstakeDelay >= GracePeriod /\ UnstakeDelay % GracePeriod = 0
  BY Constants, PeriodAssumption, MultipleAbove
<1> HIDE DEF q, r, c
<1>4. c = GracePeriod * q + 0 /\ 0 \in 0..(GracePeriod - 1) /\ c \in Nat
  BY <1>2, Constants
<1>5. c % GracePeriod = 0
  BY <1>2, <1>4, Constants, DivUnique
<1>6. (c + UnstakeDelay) % GracePeriod = 0
  BY <1>3, <1>4, <1>5, Constants, MultipleSum
<1> QED
  BY <1>1, <1>2, <1>3, <1>4, <1>5, <1>6, Constants DEF c, Blocks, UnlockBlocks

LEMMA ShareIsNatural ==
  ASSUME TypeOK, NEW d \in Dominators, NEW season \in Seasons, NEW x \in Nat
  PROVE  Share(d, season, x) \in Nat
<1> DEFINE b == bonuses[<<d, season>>]
<1>1. b \in [staked : Nat, profit : Nat]
  BY DEF TypeOK, SeasonKeys
<1>2. b.staked \in Nat /\ b.profit \in Nat /\ Parts \in Nat \ {0}
  BY <1>1, AmountAssumption
<1>3. CASE b.staked = 0
  BY <1>3 DEF Share
<1>4. CASE b.staked # 0
  <2> DEFINE q == FromRational(x, b.staked)
  <2>1. x * Parts \in Nat
    BY <1>2
  <2>2. q \in Nat
    BY <1>2, <1>4, <2>1, DivMod DEF FromRational
  <2> HIDE DEF q
  <2>3. 2 * q * b.profit \in Nat
    <3>1. q * b.profit \in Nat /\ 2 * q * b.profit = 2 * (q * b.profit)
      BY <1>2, <2>2
    <3> QED
      BY <3>1
  <2>4. 2 * q * b.profit + Parts - 1 \in Nat /\ 2 * Parts \in Nat \ {0}
    BY <1>2, <2>3
  <2>5. MulNearest(q, b.profit) \in Nat
    BY <2>4, DivMod DEF MulNearest
  <2> QED
    BY <1>4, <2>5 DEF Share, q
<1> QED
  BY <1>3, <1>4

LEMMA SharesAreNatural ==
  ASSUME TypeOK, NEW u \in Stakers, NEW d \in Dominators
  PROVE  PendingShares(u, d) \in Nat
<1> DEFINE s == staking[<<u, d>>]
           to == current_season(d)
           n == IF to > s.from THEN to - s.from ELSE 0
           f == [i \in 1..n |-> Share(d, s.from + i - 1, s.amount)]
<1>1. s.amount \in Nat /\ s.from \in Nat /\ s.from \in Seasons
  <2>1. s \in [amount : Nat, from : Seasons]
    BY DEF TypeOK, Positions
  <2> QED
    BY <2>1, Constants DEF Seasons
<1>2. to \in Nat /\ to \in Seasons
  BY SeasonOfNow
<1>3. n \in Nat /\ \A i \in 1..n : s.from + i - 1 \in Seasons
  BY <1>1, <1>2, Constants DEF Seasons
<1>4. \A i \in 1..n : Share(d, s.from + i - 1, s.amount) \in Nat
  BY <1>1, <1>3, ShareIsNatural
<1> HIDE DEF n, s, to
<1>5. f \in [1..n -> Nat]
  BY <1>4
<1>6. SumTo(f, n) \in Nat
  BY <1>3, <1>5, SumToNat
<1>7. SharesUntil(u, d, to) = SumTo(f, n)
  BY DEF SharesUntil, s, to, n
<1> QED
  BY <1>6, <1>7 DEF PendingShares, to

-----------------------------------------------------------------------------
(* Sums over stakers, dominators and blocks. *)

StakedBy(a, d) == SumTo([u \in Stakers |-> a[<<u, d>>]], NStakers)
LockedBy(a, u) == SumTo([d \in Dominators |-> a[<<u, d>>]], NDominators)
Waiting(w, u) ==
    SumTo([b \in 1..(MaxBlock + UnstakeDelay) |-> w[<<b, u>>]], MaxBlock + UnstakeDelay)

LEMMA StakedChange ==
  ASSUME NEW a \in [Positions -> Nat], NEW b \in [Positions -> Nat],
         NEW u \in Stakers, NEW d \in Dominators,
         \A p \in Positions : p # <<u, d>> => b[p] = a[p]
  PROVE  /\ StakedBy(a, d) \in Nat /\ LockedBy(a, u) \in Nat
         /\ a[<<u, d>>] <= StakedBy(a, d) /\ a[<<u, d>>] <= LockedBy(a, u)
         /\ StakedBy(b, d) = StakedBy(a, d) + b[<<u, d>>] - a[<<u, d>>]
         /\ LockedBy(b, u) = LockedBy(a, u) + b[<<u, d>>] - a[<<u, d>>]
         /\ \A e \in Dominators \ {d} : StakedBy(b, e) = StakedBy(a, e)
         /\ \A v \in Stakers \ {u} : LockedBy(b, v) = LockedBy(a, v)
<1> DEFINE row(c, e) == [v \in Stakers |-> c[<<v, e>>]]
           col(c, v) == [e \in Dominators |-> c[<<v, e>>]]
<1>1. /\ \A e \in Dominators : row(a, e) \in [1..NStakers -> Nat] /\ row(b, e) \in [1..NStakers -> Nat]
      /\ \A v \in Stakers : col(a, v) \in [1..NDominators -> Nat] /\ col(b, v) \in [1..NDominators -> Nat]
  BY DEF Stakers, Dominators, Positions
<1>2. /\ \A v \in Stakers : v # u => row(b, d)[v] = row(a, d)[v]
      /\ \A e \in Dominators : e # d => col(b, u)[e] = col(a, u)[e]
      /\ row(a, d)[u] = a[<<u, d>>] /\ row(b, d)[u] = b[<<u, d>>]
      /\ col(a, u)[d] = a[<<u, d>>] /\ col(b, u)[d] = b[<<u, d>>]
  BY DEF Positions
<1>3. /\ \A e \in Dominators \ {d} : row(b, e) = row(a, e)
      /\ \A v \in Stakers \ {u} : col(b, v) = col(a, v)
  BY DEF Positions
<1>4. /\ \A c, e : StakedBy(c, e) = SumTo(row(c, e), NStakers)
      /\ \A c, v : LockedBy(c, v) = SumTo(col(c, v), NDominators)
  BY DEF StakedBy, LockedBy
<1> HIDE DEF row, col
<1>5. /\ SumTo(row(a, d), NStakers) \in Nat /\ a[<<u, d>>] <= SumTo(row(a, d), NStakers)
      /\ SumTo(col(a, u), NDominators) \in Nat /\ a[<<u, d>>] <= SumTo(col(a, u), NDominators)
  BY <1>1, <1>2, Constants, SumToNat DEF Stakers, Dominators
<1>6. /\ row(a, d) \in [1..NStakers -> Int] /\ row(b, d) \in [1..NStakers -> Int]
      /\ col(a, u) \in [1..NDominators -> Int] /\ col(b, u) \in [1..NDominators -> Int]
  BY <1>1
<1>7. /\ SumTo(row(b, d), NStakers) = SumTo(row(a, d), NStakers) + row(b, d)[u] - row(a, d)[u]
      /\ SumTo(col(b, u), NDominators) = SumTo(col(a, u), NDominators) + col(b, u)[d] - col(a, u)[d]
  <2>1. SumTo(row(b, d), NStakers) = SumTo(row(a, d), NStakers) + row(b, d)[u] - row(a, d)[u]
    BY <1>2, <1>6, Constants, SumToChange DEF Stakers
  <2>2. SumTo(col(b, u), NDominators) = SumTo(col(a, u), NDominators) + col(b, u)[d] - col(a, u)[d]
    BY <1>2, <1>6, Constants, SumToChange DEF Dominators
  <2> QED
    BY <2>1, <2>2
<1> QED
  BY <1>2, <1>3, <1>4, <1>5, <1>7

LEMMA WaitingChange ==
  ASSUME NEW w \in [UnlockBlocks \X Stakers -> Nat], NEW z \in [UnlockBlocks \X Stakers -> Nat],
         NEW b \in UnlockBlocks \ {0}, NEW u \in Stakers,
         \A c \in UnlockBlocks : c # b => z[<<c, u>>] = w[<<c, u>>]
  PROVE  /\ Waiting(w, u) \in Nat /\ w[<<b, u>>] <= Waiting(w, u)
         /\ Waiting(z, u) = Waiting(w, u) + z[<<b, u>>] - w[<<b, u>>]
<1> DEFINE M == MaxBlock + UnstakeDelay
           f == [c \in 1..M |-> w[<<c, u>>]]
           g == [c \in 1..M |-> z[<<c, u>>]]
<1>1. M \in Nat /\ 1..M \subseteq UnlockBlocks /\ b \in 1..M
  BY Constants DEF UnlockBlocks
<1>2. f \in [1..M -> Nat] /\ g \in [1..M -> Nat] /\ f \in [1..M -> Int] /\ g \in [1..M -> Int]
  BY <1>1
<1>3. \A c \in 1..M : c # b => g[c] = f[c]
  BY <1>1
<1>4. f[b] = w[<<b, u>>] /\ g[b] = z[<<b, u>>]
  BY <1>1
<1>5. Waiting(w, u) = SumTo(f, M) /\ Waiting(z, u) = SumTo(g, M)
  BY DEF Waiting
<1> HIDE DEF f, g, M
<1>6. SumTo(f, M) \in Nat /\ f[b] <= SumTo(f, M)
  BY <1>1, <1>2, SumToNat
<1>7. SumTo(g, M) = SumTo(f, M) + g[b] - f[b]
  BY <1>1, <1>2, <1>3, SumToChange
<1> QED
  BY <1>4, <1>5, <1>6, <1>7

LEMMA WaitingSame ==
  ASSUME NEW w, NEW z, NEW u \in Stakers,
         \A c \in UnlockBlocks : z[<<c, u>>] = w[<<c, u>>]
  PROVE  Waiting(z, u) = Waiting(w, u)
<1>1. 1..(MaxBlock + UnstakeDelay) \subseteq UnlockBlocks
  BY Constants DEF UnlockBlocks
<1>2. [c \in 1..(MaxBlock + UnstakeDelay) |-> z[<<c, u>>]]
        = [c \in 1..(MaxBlock + UnstakeDelay) |-> w[<<c, u>>]]
  BY <1>1
<1> QED
  BY <1>2 DEF Waiting

-----------------------------------------------------------------------------
(* The inductive invariant: the balances, and the calendar.                *)

Books ==
  /\ \A p \in Positions : locked[p] = staking[p].amount
  /\ \A d \in Dominators : staked[d] = StakedBy(locked, d)
  /\ \A u \in Stakers : /\ unlocking[u] = Waiting(pending, u)
                        /\ reserved[u] = unlocking[u] + LockedBy(locked, u)
  /\ \A u \in Stakers, b \in UnlockBlocks :
        pending[<<b, u>>] > 0 => b > now /\ b % GracePeriod = 0

(* Dominators start at a block that on_initialize looks at, stakings do    *)
(* not run ahead of the current season, and nothing is staked on a         *)
(* dominator that is not launched.                                         *)
Timed ==
  /\ \A d \in Dominators : start[d] <= now /\ start[d] % GracePeriod = 0
  /\ \A p \in Positions : staking[p].amount > 0 => staking[p].from <= current_season(p[2])
  /\ \A u \in Stakers, d \in Dominators :
        status[d] \in {"None", "Registered"} => staking[<<u, d>>].amount = 0

Sound == TypeOK /\ Books /\ Timed /\ OnlineAtThreshold

(* The invariant says what the run checks. *)
LEMMA SoundIsReserved == Sound => StakesAreReserved
<1> SUFFICES ASSUME Sound PROVE StakedIsSum /\ ReservedIsStakedOrPending
  BY DEF Sound, StakesAreReserved
<1>1. StakedIsSum
  <2>1. \A d \in Dominators :
          [u \in Stakers |-> staking[<<u, d>>].amount] = [u \in Stakers |-> locked[<<u, d>>]]
    BY DEF Sound, Books, Positions
  <2> QED
    BY <2>1 DEF Sound, Books, StakedBy, StakedIsSum
<1>2. ReservedIsStakedOrPending
  BY DEF Sound, Books, LockedBy, Waiting, ReservedIsStakedOrPending
<1> QED
  BY <1>1, <1>2

LEMMA NothingStaked ==
  ASSUME Sound, NEW d \in Dominators, \A u \in Stakers : staking[<<u, d>>].amount = 0
  PROVE  staked[d] = 0
<1> DEFINE f == [u \in Stakers |-> locked[<<u, d>>]]
<1>1. \A u \in Stakers : locked[<<u, d>>] = 0
  BY DEF Sound, Books, Positions
<1>2. f \in [1..NStakers -> Int] /\ \A u \in 1..NStakers : f[u] = 0
  BY <1>1 DEF Stakers
<1>3. SumTo(f, NStakers) = 0
  BY <1>2, Constants, SumToZeros
<1> QED
  BY <1>3 DEF Sound, Books, StakedBy

LEMMA InitSound == Init => Sound
<1> SUFFICES ASSUME Init PROVE Sound
  OBVIOUS
<1>1. 0 \in Blocks /\ 0 \in Seasons
  BY Constants DEF Blocks, Seasons
<1>2. TypeOK
  BY <1>1, AmountAssumption DEF Init, TypeOK, NoStaking
<1>3. Timed
  <2>1. 0 % GracePeriod = 0
    BY Constants
  <2> QED
    BY <2>1 DEF Init, Timed, NoStaking, Positions
<1>4. \A d \in Dominators : StakedBy(locked, d) = 0
  <2> TAKE d \in Dominators
  <2> DEFINE f == [u \in Stakers |-> locked[<<u, d>>]]
  <2>1. f \in [1..NStakers -> Int] /\ \A u \in 1..NStakers : f[u] = 0
    BY DEF Init, Stakers, Positions
  <2> QED
    BY <2>1, Constants, SumToZeros DEF StakedBy
<1>5. \A u \in Stakers : LockedBy(locked, u) = 0
  <2> TAKE u \in Stakers
  <2> DEFINE f == [d \in Dominators |-> locked[<<u, d>>]]
  <2>1. f \in [1..NDominators -> Int] /\ \A d \in 1..NDominators : f[d] = 0
    BY DEF Init, Dominators, Positions
  <2> QED
    BY <2>1, Constants, SumToZeros DEF LockedBy
<1>6. \A u \in Stakers : Waiting(pending, u) = 0
  <2> TAKE u \in Stakers
  <2> DEFINE M == MaxBlock + UnstakeDelay
             f == [b \in 1..M |-> pending[<<b, u>>]]
  <2>1. M \in Nat /\ 1..M \subseteq UnlockBlocks
    BY Constants DEF UnlockBlocks
  <2>2. f \in [1..M -> Int] /\ \A b \in 1..M : f[b] = 0
    BY <2>1 DEF Init
  <2> QED
    BY <2>1, <2>2, SumToZeros DEF Waiting
<1>7. Books
  BY <1>4, <1>5, <1>6 DEF Init, Books, NoStaking
<1>8. OnlineAtThreshold
  BY DEF Init, OnlineAtThreshold
<1> QED
  BY <1>2, <1>3, <1>7, <1>8 DEF Sound

-----------------------------------------------------------------------------
(* What stakers call. *)

LEMMA StakeOnSound ==
  ASSUME Sound, NEW u \in Stakers, NEW d \in Dominators, NEW x \in Amounts, StakeOn(u, d, x)
  PROVE  Sound'
<1> DEFINE p == <<u, d>>
           cs == current_season(d)
<1>1. p \in Positions /\ x \in Nat /\ x > 0 /\ cs \in Seasons /\ PendingShares(u, d) \in Nat
      /\ OnlineThreshold \in Nat
  BY AmountAssumption, SeasonOfNow, SharesAreNatural DEF Sound, Positions, StakeOn
<1>2. /\ now' = now /\ start' = start /\ bonuses' = bonuses /\ unlocking' = unlocking /\ pending' = pending
      /\ status[d] \in {"Active", "Inactive"} /\ free[u] >= x
      /\ free' = [free EXCEPT ![u] = @ - x]
      /\ reserved' = [reserved EXCEPT ![u] = @ + x]
      /\ locked' = [locked EXCEPT ![p] = @ + x]
      /\ earned' = [earned EXCEPT ![u] = @ + PendingShares(u, d)]
      /\ staking' = [staking EXCEPT ![p] = [amount |-> @.amount + x, from |-> cs]]
      /\ staked' = [staked EXCEPT ![d] = @ + x]
      /\ status' = [status EXCEPT ![d] = Online(staked[d] + x)]
  BY DEF StakeOn, Lock, take_shares
<1> HIDE DEF p, cs
<1>3. TypeOK'
  BY <1>1, <1>2 DEF Sound, TypeOK, Online
<1>4. \A e \in Dominators : current_season(e)' = current_season(e)
  BY <1>2 DEF current_season
<1>5. /\ staking'[p].amount = staking[p].amount + x /\ staking'[p].from = cs
      /\ \A q \in Positions : q # p => staking'[q] = staking[q] /\ locked'[q] = locked[q]
      /\ locked'[p] = locked[p] + x
      /\ staked'[d] = staked[d] + x /\ reserved'[u] = reserved[u] + x
      /\ \A e \in Dominators \ {d} : staked'[e] = staked[e] /\ status'[e] = status[e]
      /\ \A v \in Stakers \ {u} : reserved'[v] = reserved[v]
  BY <1>1, <1>2 DEF Sound, TypeOK
<1>6. locked \in [Positions -> Nat] /\ locked' \in [Positions -> Nat]
  BY <1>3 DEF Sound, TypeOK
<1>7. /\ StakedBy(locked', d) = StakedBy(locked, d) + x
      /\ LockedBy(locked', u) = LockedBy(locked, u) + x
      /\ \A e \in Dominators \ {d} : StakedBy(locked', e) = StakedBy(locked, e)
      /\ \A v \in Stakers \ {u} : LockedBy(locked', v) = LockedBy(locked, v)
  <2>1. /\ StakedBy(locked, d) \in Nat /\ LockedBy(locked, u) \in Nat
        /\ StakedBy(locked', d) = StakedBy(locked, d) + locked'[<<u, d>>] - locked[<<u, d>>]
        /\ LockedBy(locked', u) = LockedBy(locked, u) + locked'[<<u, d>>] - locked[<<u, d>>]
        /\ \A e \in Dominators \ {d} : StakedBy(locked', e) = StakedBy(locked, e)
        /\ \A v \in Stakers \ {u} : LockedBy(locked', v) = LockedBy(locked, v)
    BY <1>5, <1>6, StakedChange DEF p
  <2>2. locked[p] \in Nat
    BY <1>1, <1>6
  <2> QED
    BY <1>1, <1>5, <2>1, <2>2 DEF p
<1>8. Books'
  <2>1. \A q \in Positions : locked'[q] = staking'[q].amount
    BY <1>5 DEF Sound, Books
  <2>2. \A e \in Dominators : staked'[e] = StakedBy(locked', e)
    BY <1>5, <1>7 DEF Sound, Books
  <2>3. \A v \in Stakers : reserved'[v] = unlocking[v] + LockedBy(locked', v)
    <3>1. \A v \in Stakers : unlocking[v] \in Nat /\ LockedBy(locked, v) \in Nat
      BY <1>6, StakedChange DEF Sound, TypeOK
    <3> QED
      BY <1>1, <1>5, <1>7, <3>1 DEF Sound, Books
  <2> QED
    BY <1>2, <2>1, <2>2, <2>3 DEF Sound, Books
<1>9. Timed'
  <2>1. cs <= cs /\ p[2] = d /\ \A q \in Positions : q[2] \in Dominators
    BY <1>1, Constants DEF p, Positions, Seasons
  <2>2. \A q \in Positions : staking'[q].amount > 0 => staking'[q].from <= current_season(q[2])
    BY <1>1, <1>5, <2>1 DEF Sound, Timed, cs
  <2>3. \A v \in Stakers, e \in Dominators :
            status'[e] \in {"None", "Registered"} => staking'[<<v, e>>].amount = 0
    <3>1. status'[d] \in {"Active", "Inactive"}
      BY <1>2 DEF Sound, TypeOK, Online
    <3>2. \A v \in Stakers, e \in Dominators : e # d => <<v, e>> \in Positions /\ <<v, e>> # p
      BY DEF Positions, p
    <3> QED
      BY <1>5, <3>1, <3>2 DEF Sound, Timed
  <2> QED
    BY <1>2, <1>4, <2>1, <2>2, <2>3 DEF Sound, Timed
<1>10. OnlineAtThreshold'
  <2>1. status'[d] = Online(staked[d] + x)
    BY <1>2 DEF Sound, TypeOK
  <2> QED
    BY <1>1, <1>5, <2>1 DEF Sound, OnlineAtThreshold, Online, TypeOK
<1> QED
  BY <1>3, <1>8, <1>9, <1>10 DEF Sound

(* What an unstaking leaves. *)
LEMMA RemainsOf ==
  ASSUME TypeOK, NEW p \in Positions, NEW x \in Nat, NEW season \in Seasons, Remains(p, x, season)
  PROVE  /\ staking'[p] \in [amount : Nat, from : Seasons]
         /\ staking'[p].amount = staking[p].amount - x /\ x <= staking[p].amount
         /\ staking'[p].amount > 0 => staking'[p].from = season
         /\ staking[p].amount > 0
         /\ \A q \in Positions : q # p => staking'[q] = staking[q]
<1>1. staking[p].amount \in Nat /\ 0 \in Seasons
  BY Constants DEF TypeOK, Seasons
<1>2. staking[p].amount - x \in Nat /\ staking[p].amount > 0
  BY <1>1, AmountAssumption DEF Remains
<1>3. staking'[p] = IF staking[p].amount - x = 0 THEN NoStaking
                    ELSE [amount |-> staking[p].amount - x, from |-> season]
  BY DEF Remains, TypeOK
<1>4. \A q \in Positions : q # p => staking'[q] = staking[q]
  BY DEF Remains, TypeOK
<1> QED
  BY <1>1, <1>2, <1>3, <1>4 DEF NoStaking

LEMMA UnstakeFromSound ==
  ASSUME Sound, NEW u \in Stakers, NEW d \in Dominators, NEW x \in Amounts, UnstakeFrom(u, d, x)
  PROVE  Sound'
<1> DEFINE p == <<u, d>>
           cs == current_season(d)
           b == CheckBlock(now) + UnstakeDelay
<1>1. /\ p \in Positions /\ x \in Nat /\ cs \in Seasons /\ cs \in Nat /\ PendingShares(u, d) \in Nat
      /\ OnlineThreshold \in Nat
      /\ b \in UnlockBlocks \ {0} /\ b > now /\ b % GracePeriod = 0
  BY AmountAssumption, Constants, SeasonOfNow, SharesAreNatural, CheckOfNow DEF Sound, Positions, UnstakeFrom
<1>2. /\ now' = now /\ start' = start /\ bonuses' = bonuses /\ free' = free /\ reserved' = reserved
      /\ status[d] \notin {"None", "Registered"} /\ staked[d] >= x
      /\ Remains(p, x, cs)
      /\ locked[p] >= x /\ reserved[u] >= x
      /\ locked' = [locked EXCEPT ![p] = @ - x]
      /\ unlocking' = [unlocking EXCEPT ![u] = @ + x]
      /\ pending' = [pending EXCEPT ![<<b, u>>] = @ + x]
      /\ earned' = [earned EXCEPT ![u] = @ + PendingShares(u, d)]
      /\ staked' = [staked EXCEPT ![d] = @ - x]
      /\ status' = [status EXCEPT ![d] = IF @ = "Evicted" THEN @ ELSE Online(staked[d] - x)]
  BY DEF UnstakeFrom, MoveToUnlocking, take_shares
<1> HIDE DEF p, cs, b
<1>3. /\ staking'[p] \in [amount : Nat, from : Seasons]
      /\ staking'[p].amount = staking[p].amount - x
      /\ staking'[p].amount > 0 => staking'[p].from = cs
      /\ \A q \in Positions : q # p => staking'[q] = staking[q]
  BY <1>1, <1>2, RemainsOf DEF Sound
<1>4. TypeOK'
  <2>1. staking' \in [Positions -> [amount : Nat, from : Seasons]]
    BY <1>2, <1>3 DEF Sound, TypeOK, Remains
  <2>2. /\ locked' \in [Positions -> Nat] /\ unlocking' \in [Stakers -> Nat]
        /\ pending' \in [UnlockBlocks \X Stakers -> Nat]
        /\ earned' \in [Stakers -> Nat] /\ staked' \in [Dominators -> Nat]
    BY <1>1, <1>2 DEF Sound, TypeOK
  <2>3. status' \in [Dominators -> {"None", "Registered", "Inactive", "Active", "Evicted"}]
    BY <1>1, <1>2 DEF Sound, TypeOK, Online
  <2> QED
    BY <1>2, <2>1, <2>2, <2>3 DEF Sound, TypeOK
<1>5. \A e \in Dominators : current_season(e)' = current_season(e)
  BY <1>2 DEF current_season
<1>6. /\ \A q \in Positions : q # p => locked'[q] = locked[q]
      /\ locked'[p] = locked[p] - x
      /\ staked'[d] = staked[d] - x /\ unlocking'[u] = unlocking[u] + x
      /\ pending'[<<b, u>>] = pending[<<b, u>>] + x
      /\ \A e \in Dominators \ {d} : staked'[e] = staked[e] /\ status'[e] = status[e]
      /\ \A v \in Stakers \ {u} : unlocking'[v] = unlocking[v]
      /\ \A v \in Stakers, c \in UnlockBlocks : <<c, v>> # <<b, u>> => pending'[<<c, v>>] = pending[<<c, v>>]
  BY <1>1, <1>2 DEF Sound, TypeOK
<1>7. locked \in [Positions -> Nat] /\ locked' \in [Positions -> Nat]
  BY <1>4 DEF Sound, TypeOK
<1>8. /\ StakedBy(locked', d) = StakedBy(locked, d) - x
      /\ LockedBy(locked', u) = LockedBy(locked, u) - x
      /\ StakedBy(locked, d) \in Nat /\ LockedBy(locked, u) \in Nat
      /\ \A e \in Dominators \ {d} : StakedBy(locked', e) = StakedBy(locked, e)
      /\ \A v \in Stakers \ {u} : LockedBy(locked', v) = LockedBy(locked, v)
  <2>1. /\ StakedBy(locked, d) \in Nat /\ LockedBy(locked, u) \in Nat
        /\ StakedBy(locked', d) = StakedBy(locked, d) + locked'[<<u, d>>] - locked[<<u, d>>]
        /\ LockedBy(locked', u) = LockedBy(locked, u) + locked'[<<u, d>>] - locked[<<u, d>>]
        /\ \A e \in Dominators \ {d} : StakedBy(locked', e) = StakedBy(locked, e)
        /\ \A v \in Stakers \ {u} : LockedBy(locked', v) = LockedBy(locked, v)
    BY <1>6, <1>7, StakedChange DEF p
  <2>2. locked[p] \in Nat
    BY <1>1, <1>7
  <2> QED
    BY <1>1, <1>6, <2>1, <2>2 DEF p
<1>9. /\ Waiting(pending, u) \in Nat /\ Waiting(pending', u) = Waiting(pending, u) + x
      /\ \A v \in Stakers \ {u} : Waiting(pending', v) = Waiting(pending, v)
  <2>1. pending \in [UnlockBlocks \X Stakers -> Nat] /\ pending' \in [UnlockBlocks \X Stakers -> Nat]
    BY <1>4 DEF Sound, TypeOK
  <2>2. \A c \in UnlockBlocks : c # b => pending'[<<c, u>>] = pending[<<c, u>>]
    BY <1>6
  <2>3. /\ Waiting(pending, u) \in Nat
        /\ Waiting(pending', u) = Waiting(pending, u) + pending'[<<b, u>>] - pending[<<b, u>>]
    <3>1. b \in UnlockBlocks \ {0}
      BY <1>1
    <3> QED
      BY <2>1, <2>2, <3>1, WaitingChange
  <2>4. pending[<<b, u>>] \in Nat
    BY <1>1, <2>1
  <2>5. \A v \in Stakers \ {u} : Waiting(pending', v) = Waiting(pending, v)
    BY <1>6, WaitingSame
  <2> QED
    BY <1>1, <1>6, <2>3, <2>4, <2>5
<1>10. Books'
  <2>1. \A q \in Positions : locked'[q] = staking'[q].amount
    BY <1>3, <1>6 DEF Sound, Books
  <2>2. \A e \in Dominators : staked'[e] = StakedBy(locked', e)
    BY <1>6, <1>8 DEF Sound, Books
  <2>3. \A v \in Stakers : unlocking'[v] = Waiting(pending', v)
    BY <1>6, <1>9 DEF Sound, Books
  <2>4. \A v \in Stakers : reserved'[v] = unlocking'[v] + LockedBy(locked', v)
    <3>1. unlocking[u] \in Nat
      BY DEF Sound, TypeOK
    <3>2. reserved[u] = unlocking[u] + LockedBy(locked, u)
      BY DEF Sound, Books
    <3>3. reserved'[u] = unlocking'[u] + LockedBy(locked', u)
      <4>1. reserved'[u] = reserved[u] /\ unlocking'[u] = unlocking[u] + x
        BY <1>2, <1>6
      <4>2. LockedBy(locked', u) = LockedBy(locked, u) - x /\ LockedBy(locked, u) \in Nat /\ x \in Nat
        BY <1>1, <1>8
      <4> QED
        BY <3>1, <3>2, <4>1, <4>2
    <3>4. \A v \in Stakers \ {u} : reserved'[v] = unlocking'[v] + LockedBy(locked', v)
      BY <1>2, <1>6, <1>8 DEF Sound, Books
    <3> QED
      BY <3>3, <3>4
  <2>5. \A v \in Stakers, c \in UnlockBlocks :
          pending'[<<c, v>>] > 0 => c > now' /\ c % GracePeriod = 0
    BY <1>1, <1>2, <1>6 DEF Sound, Books
  <2> QED
    BY <2>1, <2>2, <2>3, <2>4, <2>5 DEF Books
<1>11. Timed'
  <2>1. p[2] = d /\ \A q \in Positions : q[2] \in Dominators
    BY DEF p, Positions
  <2>2. \A q \in Positions : staking'[q].amount > 0 => staking'[q].from <= current_season(q[2])
    BY <1>1, <1>3, <2>1 DEF Sound, Timed, cs
  <2>3. \A v \in Stakers, e \in Dominators :
            status'[e] \in {"None", "Registered"} => staking'[<<v, e>>].amount = 0
    <3>1. status'[d] \notin {"None", "Registered"}
      BY <1>2 DEF Sound, TypeOK, Online
    <3>2. \A v \in Stakers, e \in Dominators : e # d => <<v, e>> \in Positions /\ <<v, e>> # p
      BY DEF Positions, p
    <3> QED
      BY <1>3, <1>6, <3>1, <3>2 DEF Sound, Timed
  <2> QED
    BY <1>2, <1>5, <2>1, <2>2, <2>3 DEF Sound, Timed
<1>12. OnlineAtThreshold'
  <2>1. status'[d] = IF status[d] = "Evicted" THEN "Evicted" ELSE Online(staked[d] - x)
    BY <1>2 DEF Sound, TypeOK
  <2> QED
    BY <1>1, <1>6, <2>1 DEF Sound, OnlineAtThreshold, Online, TypeOK
<1> QED
  BY <1>4, <1>10, <1>11, <1>12 DEF Sound

LEMMA ClaimSharesSound ==
  ASSUME Sound, NEW u \in Stakers, NEW d \in Dominators, ClaimShares(u, d)
  PROVE  Sound'
<1> DEFINE p == <<u, d>>
           cs == current_season(d)
<1>1. p \in Positions /\ p[2] = d /\ cs \in Seasons /\ cs \in Nat /\ PendingShares(u, d) \in Nat
  BY SeasonOfNow, SharesAreNatural DEF Sound, Positions
<1>2. /\ now' = now /\ start' = start /\ bonuses' = bonuses /\ free' = free /\ reserved' = reserved
      /\ status' = status /\ staked' = staked /\ locked' = locked /\ unlocking' = unlocking
      /\ pending' = pending
      /\ earned' = [earned EXCEPT ![u] = @ + PendingShares(u, d)]
      /\ staking' = [staking EXCEPT ![p].from = cs]
  BY DEF ClaimShares, take_shares, dominators
<1> HIDE DEF p, cs
<1>3. TypeOK'
  BY <1>1, <1>2 DEF Sound, TypeOK
<1>4. /\ \A q \in Positions : staking'[q].amount = staking[q].amount
      /\ \A q \in Positions : staking'[q].from \in {staking[q].from, cs}
      /\ \A q \in Positions : q # p => staking'[q] = staking[q]
  BY <1>1, <1>2 DEF Sound, TypeOK
<1>5. Books'
  BY <1>2, <1>4 DEF Sound, Books
<1>6. Timed'
  <2>1. \A e \in Dominators : current_season(e)' = current_season(e)
    BY <1>2 DEF current_season
  <2>2. \A q \in Positions : q[2] \in Dominators
    BY DEF Positions
  <2>3. \A q \in Positions : staking'[q].amount > 0 => staking'[q].from <= current_season(q[2])
    BY <1>1, <1>2, <1>4, <2>2 DEF Sound, Timed, cs, TypeOK
  <2>4. \A v \in Stakers, e \in Dominators : <<v, e>> \in Positions
    BY DEF Positions
  <2> QED
    BY <1>2, <1>4, <2>1, <2>2, <2>3, <2>4 DEF Sound, Timed
<1>7. OnlineAtThreshold'
  BY <1>2 DEF Sound, OnlineAtThreshold
<1> QED
  BY <1>3, <1>5, <1>6, <1>7 DEF Sound

-----------------------------------------------------------------------------
(* Governance and trades. *)

(* A dominator nothing is staked on starts or goes; what is staked and     *)
(* reserved is left alone.                                                 *)
LEMMA GovernanceSound ==
  ASSUME Sound, NEW d \in Dominators, Register(d) \/ Launch(d) \/ Evict(d)
  PROVE  Sound'
<1>1. /\ now' = now /\ staked' = staked /\ staking' = staking /\ bonuses' = bonuses /\ locked' = locked
      /\ unlocking' = unlocking /\ pending' = pending /\ free' = free /\ reserved' = reserved
      /\ earned' = earned
  BY DEF Register, Launch, Evict, accounts
<1>2. /\ \A e \in Dominators : e # d => status'[e] = status[e] /\ start'[e] = start[e]
      /\ status' \in [Dominators -> {"None", "Registered", "Inactive", "Active", "Evicted"}]
      /\ status'[d] \in {"Registered", "Inactive", "Evicted"}
      /\ status'[d] = "Registered" => status[d] = "None" /\ start'[d] = CheckBlock(now)
      /\ status'[d] # "Registered" => start'[d] = start[d]
      /\ status'[d] = "Inactive" => status[d] = "Registered"
  BY DEF Register, Launch, Evict, Sound, TypeOK
<1>3. CheckBlock(now) \in Blocks /\ CheckBlock(now) <= now /\ CheckBlock(now) % GracePeriod = 0
  BY CheckOfNow DEF Sound
<1>4. start' \in [Dominators -> Blocks] /\ \A e \in Dominators : start'[e] \in {start[e], CheckBlock(now)}
  BY <1>1, <1>2, <1>3 DEF Register, Launch, Evict, Sound, TypeOK
<1>5. TypeOK'
  BY <1>1, <1>2, <1>4 DEF Sound, TypeOK
<1>6. Books'
  BY <1>1 DEF Sound, Books
<1>7. Timed'
  <2>1. \A e \in Dominators : start'[e] <= now' /\ start'[e] % GracePeriod = 0
    BY <1>1, <1>3, <1>4 DEF Sound, Timed
  <2>2. \A v \in Stakers, e \in Dominators :
            status'[e] \in {"None", "Registered"} => staking'[<<v, e>>].amount = 0
    BY <1>1, <1>2 DEF Sound, Timed
  <2>3. ASSUME NEW q \in Positions, staking'[q].amount > 0 PROVE staking'[q].from <= current_season(q[2])'
    <3>1. q = <<q[1], q[2]>> /\ q[1] \in Stakers /\ q[2] \in Dominators
      BY DEF Positions
    <3>2. staking[q].amount > 0 /\ staking[q].from <= current_season(q[2])
      BY <1>1, <2>3 DEF Sound, Timed
    <3>3. status'[q[2]] \notin {"None", "Registered"}
      BY <2>2, <2>3, <3>1
    <3>4. start'[q[2]] = start[q[2]]
      BY <1>2, <3>1, <3>3
    <3> QED
      BY <1>1, <3>2, <3>4 DEF current_season
  <2> QED
    BY <2>1, <2>2, <2>3 DEF Timed
<1>8. OnlineAtThreshold'
  <2>1. status'[d] = "Inactive" => staked[d] = 0
    BY <1>2, NothingStaked DEF Sound, Timed
  <2>2. OnlineThreshold \in Nat /\ ~(0 >= OnlineThreshold)
    BY AmountAssumption
  <2>3. ASSUME NEW e \in Dominators, status'[e] \in {"Active", "Inactive"}
        PROVE  status'[e] = "Active" <=> staked[e] >= OnlineThreshold
    <3>1. CASE e = d
      BY <1>2, <2>1, <2>2, <2>3, <3>1
    <3>2. CASE e # d
      BY <1>2, <2>3, <3>2 DEF Sound, OnlineAtThreshold
    <3> QED
      BY <3>1, <3>2
  <2> QED
    BY <1>1, <2>3 DEF OnlineAtThreshold
<1> QED
  BY <1>5, <1>6, <1>7, <1>8 DEF Sound

LEMMA PutProfitSound ==
  ASSUME Sound, NEW d \in Dominators, NEW x \in Profits, PutProfit(d, x)
  PROVE  Sound'
<1> DEFINE k == <<d, current_season(d)>>
<1>1. k \in SeasonKeys /\ x \in Nat
  BY SeasonOfNow, AmountAssumption DEF Sound, SeasonKeys
<1>2. /\ now' = now /\ status' = status /\ start' = start /\ staked' = staked /\ staking' = staking
      /\ locked' = locked /\ unlocking' = unlocking /\ pending' = pending
      /\ free' = free /\ reserved' = reserved /\ earned' = earned
      /\ bonuses' = [bonuses EXCEPT ![k].profit = @ + x]
  BY DEF PutProfit, accounts, dominators
<1> HIDE DEF k
<1>3. TypeOK'
  BY <1>1, <1>2 DEF Sound, TypeOK
<1>4. Books' /\ Timed' /\ OnlineAtThreshold'
  BY <1>2 DEF Sound, Books, Timed, OnlineAtThreshold, current_season
<1> QED
  BY <1>3, <1>4 DEF Sound

-----------------------------------------------------------------------------
(* A new block. *)

(* The season of a block, one after another. *)
LEMMA NextSeason ==
  ASSUME TypeOK, Timed, NEW d \in Dominators, now' = now + 1, start' = start
  PROVE  /\ current_season(d)' = IF (now' - start[d]) % SeasonDuration = 0
                                 THEN current_season(d) + 1 ELSE current_season(d)
         /\ (now' - start[d]) % SeasonDuration = 0 =>
              now' % GracePeriod = 0 /\ EndedSeason(d, now') = current_season(d)
         /\ now' # start[d]
<1> DEFINE a == now - start[d]
<1>1. a \in Nat /\ now' - start[d] = a + 1 /\ now \in Nat /\ start[d] \in Nat
  BY SeasonOfNow DEF Timed
<1>2. current_season(d)' = (a + 1) \div SeasonDuration
  BY <1>1 DEF current_season
<1>3. current_season(d) = a \div SeasonDuration
  <2>1. 0 \div SeasonDuration = 0
    BY Constants
  <2> QED
    BY <1>1, <2>1 DEF current_season
<1>4. (a + 1) \div SeasonDuration
        = IF (a + 1) % SeasonDuration = 0 THEN a \div SeasonDuration + 1 ELSE a \div SeasonDuration
  BY <1>1, Constants, DivNext
<1>5. a \div SeasonDuration \in Nat
  BY <1>1, Constants, DivMod
<1>6. (a + 1) % SeasonDuration = 0 => now' % GracePeriod = 0
  <2> SUFFICES ASSUME (a + 1) % SeasonDuration = 0 PROVE now' % GracePeriod = 0
    OBVIOUS
  <2>1. (a + 1) % GracePeriod = 0
    BY <1>1, Constants, PeriodAssumption, MultipleOfMultiple
  <2>2. start[d] % GracePeriod = 0 /\ now' = (a + 1) + start[d] /\ a + 1 \in Nat
    BY <1>1 DEF Timed
  <2> HIDE DEF a
  <2> QED
    BY <1>1, <2>1, <2>2, Constants, MultipleSum
<1> HIDE DEF a
<1> QED
  BY <1>1, <1>2, <1>3, <1>4, <1>5, <1>6 DEF EndedSeason

LEMMA NewBlockSound ==
  ASSUME Sound, NewBlock
  PROVE  Sound'
<1> DEFINE b == now + 1
           due(u) == pending[<<b, u>>]
<1>1. /\ now' = b /\ now < MaxBlock /\ status' = status /\ start' = start /\ staked' = staked
      /\ staking' = staking /\ locked' = locked /\ earned' = earned
  BY DEF NewBlock, dominators
<1>2. b \in Blocks /\ b \in UnlockBlocks \ {0} /\ now \in Nat /\ b > now
  BY <1>1, Constants DEF Sound, TypeOK, Blocks, UnlockBlocks
<1>3. ASSUME b % GracePeriod # 0 PROVE TypeOK' /\ Books'
  <2>1. /\ bonuses' = bonuses /\ pending' = pending /\ unlocking' = unlocking
        /\ reserved' = reserved /\ free' = free
    BY <1>1, <1>3 DEF NewBlock
  <2>2. TypeOK'
    BY <1>1, <1>2, <2>1 DEF Sound, TypeOK
  <2>3. Books'
    <3>1. \A u \in Stakers, c \in UnlockBlocks :
             pending[<<c, u>>] > 0 => c > b /\ c % GracePeriod = 0
      <4> SUFFICES ASSUME NEW u \in Stakers, NEW c \in UnlockBlocks, pending[<<c, u>>] > 0
                   PROVE  c > b /\ c % GracePeriod = 0
        OBVIOUS
      <4>1. c > now /\ c % GracePeriod = 0 /\ c \in Nat
        BY Constants DEF Sound, Books, UnlockBlocks
      <4>2. c # b
        BY <1>3, <4>1
      <4> QED
        BY <1>2, <4>1, <4>2
    <3> QED
      BY <1>1, <2>1, <3>1 DEF Sound, Books
  <2> QED
    BY <2>2, <2>3
<1>4. ASSUME b % GracePeriod = 0 PROVE TypeOK' /\ Books'
  <2>1. Snapshot(b) /\ Unlock(b)
    BY <1>1, <1>4 DEF NewBlock
  (* Every unlock finds what it is to give back. *)
  <2>2. \A u \in Stakers : /\ due(u) \in Nat /\ unlocking[u] \in Nat /\ reserved[u] \in Nat
                           /\ LockedBy(locked, u) \in Nat
                           /\ unlocking[u] >= due(u) /\ reserved[u] >= due(u)
    <3> TAKE u \in Stakers
    <3>1. pending \in [UnlockBlocks \X Stakers -> Nat] /\ locked \in [Positions -> Nat]
      BY DEF Sound, TypeOK
    <3>2. due(u) \in Nat /\ due(u) <= Waiting(pending, u)
      BY <1>2, <3>1, WaitingChange
    <3>3. LockedBy(locked, u) \in Nat
      <4> DEFINE f == [d \in Dominators |-> locked[<<u, d>>]]
      <4>1. f \in [1..NDominators -> Nat]
        BY <3>1 DEF Dominators, Positions
      <4> QED
        BY <4>1, Constants, SumToNat DEF LockedBy
    <3>4. unlocking[u] \in Nat /\ reserved[u] \in Nat
      BY DEF Sound, TypeOK
    <3>5. unlocking[u] = Waiting(pending, u) /\ reserved[u] = unlocking[u] + LockedBy(locked, u)
      BY DEF Sound, Books
    <3> HIDE DEF due
    <3> QED
      BY <3>2, <3>3, <3>4, <3>5
  <2>3. /\ pending' = [k \in UnlockBlocks \X Stakers |-> IF k[1] = b THEN 0 ELSE pending[k]]
        /\ unlocking' = [u \in Stakers |-> unlocking[u] - due(u)]
        /\ reserved' = [u \in Stakers |-> reserved[u] - due(u)]
        /\ free' = [u \in Stakers |-> free[u] + due(u)]
    BY <2>1, <2>2 DEF Unlock
  <2> HIDE DEF due
  <2>4. /\ unlocking' \in [Stakers -> Nat] /\ reserved' \in [Stakers -> Nat] /\ free' \in [Stakers -> Nat]
        /\ pending' \in [UnlockBlocks \X Stakers -> Nat]
    BY <2>2, <2>3 DEF Sound, TypeOK
  <2>5. bonuses' \in [SeasonKeys -> [staked : Nat, profit : Nat]]
    <3>1. \A k \in SeasonKeys : k[1] \in Dominators
      BY DEF SeasonKeys
    <3> QED
      BY <2>1, <3>1 DEF Snapshot, Sound, TypeOK
  <2>6. TypeOK'
    BY <1>1, <1>2, <2>4, <2>5 DEF Sound, TypeOK
  <2>7. \A u \in Stakers : unlocking'[u] = Waiting(pending', u)
    <3> TAKE u \in Stakers
    <3>1. pending \in [UnlockBlocks \X Stakers -> Nat] /\ pending' \in [UnlockBlocks \X Stakers -> Nat]
      BY <2>4 DEF Sound, TypeOK
    <3>2. \A c \in UnlockBlocks : c # b => pending'[<<c, u>>] = pending[<<c, u>>]
      BY <2>3
    <3>3. pending'[<<b, u>>] = 0
      BY <1>2, <2>3
    <3>4. b \in UnlockBlocks \ {0}
      BY <1>2
    <3>5. /\ Waiting(pending, u) \in Nat
          /\ Waiting(pending', u) = Waiting(pending, u) + pending'[<<b, u>>] - pending[<<b, u>>]
      BY <3>1, <3>2, <3>4, WaitingChange
    <3>6. due(u) \in Nat /\ due(u) = pending[<<b, u>>] /\ unlocking'[u] = unlocking[u] - due(u)
      BY <2>2, <2>3 DEF due
    <3> QED
      BY <3>3, <3>5, <3>6 DEF Sound, Books
  <2>8. \A u \in Stakers : reserved'[u] = unlocking'[u] + LockedBy(locked, u)
    BY <2>2, <2>3 DEF Sound, Books
  <2>9. \A u \in Stakers, c \in UnlockBlocks :
           pending'[<<c, u>>] > 0 => c > b /\ c % GracePeriod = 0
    <3> SUFFICES ASSUME NEW u \in Stakers, NEW c \in UnlockBlocks, pending'[<<c, u>>] > 0
                 PROVE  c > b /\ c % GracePeriod = 0
      OBVIOUS
    <3>1. c # b /\ pending[<<c, u>>] > 0 /\ c \in Nat
      BY <2>3, Constants DEF UnlockBlocks
    <3>2. c > now /\ c % GracePeriod = 0
      BY <3>1 DEF Sound, Books
    <3> QED
      BY <1>2, <3>1, <3>2
  <2>10. Books'
    BY <1>1, <2>7, <2>8, <2>9 DEF Sound, Books
  <2> QED
    BY <2>6, <2>10
<1>5. Timed'
  <2>1. \A d \in Dominators : start'[d] <= now' /\ start'[d] % GracePeriod = 0
    BY <1>1, <1>2, SeasonOfNow DEF Sound, Timed
  <2>2. \A d \in Dominators : current_season(d)' \in {current_season(d), current_season(d) + 1}
    BY <1>1, NextSeason DEF Sound
  <2>3. ASSUME NEW q \in Positions, staking'[q].amount > 0 PROVE staking'[q].from <= current_season(q[2])'
    <3>1. q[2] \in Dominators
      BY DEF Positions
    <3>2. current_season(q[2]) \in Nat /\ staking[q].from \in Nat
      BY <3>1, SeasonOfNow, Constants DEF Sound, TypeOK, Seasons
    <3>3. staking[q].from <= current_season(q[2])
      BY <1>1, <2>3 DEF Sound, Timed
    <3> QED
      BY <1>1, <2>2, <3>1, <3>2, <3>3
  <2> QED
    BY <1>1, <2>1, <2>3 DEF Sound, Timed
<1>6. OnlineAtThreshold'
  BY <1>1 DEF Sound, OnlineAtThreshold
<1> QED
  BY <1>3, <1>4, <1>5, <1>6 DEF Sound

-----------------------------------------------------------------------------
(* The balances, for every behavior. *)

LEMMA StepSound == Sound /\ [Next]_vars => Sound'
<1> SUFFICES ASSUME Sound, [Next]_vars PROVE Sound'
  OBVIOUS
<1>1. CASE NewBlock
  BY <1>1, NewBlockSound
<1>2. ASSUME NEW d \in Dominators, Governance(d) PROVE Sound'
  BY <1>2, GovernanceSound, PutProfitSound DEF Governance
<1>3. ASSUME NEW d \in Dominators, NEW u \in Stakers, StakerCall(u, d) PROVE Sound'
  BY <1>3, StakeOnSound, UnstakeFromSound, ClaimSharesSound DEF StakerCall
<1>4. CASE UNCHANGED vars
  BY <1>4 DEF vars, Sound, TypeOK, Books, Timed, OnlineAtThreshold, current_season
<1> QED
  BY <1>1, <1>2, <1>3, <1>4 DEF Next

(* What a dominator counts as staked, what its stakers have staked and     *)
(* what is reserved for it agree, and what is reserved beyond that waits   *)
(* for a later block to be given back: stakes on several dominators and    *)
(* unstakes of several blocks share a reserved balance that is never short *)
(* (StakesAreReserved).                                                    *)
THEOREM StakesReserved == Spec => []StakesAreReserved
<1>1. Spec => []Sound
  BY InitSound, StepSound, PTL DEF Spec
<1> QED
  BY <1>1, SoundIsReserved, PTL

(* A launched dominator that is not evicted is online exactly while the    *)
(* threshold is staked on it (OnlineAtThreshold).                          *)
THEOREM OnlineExactly == Spec => []OnlineAtThreshold
<1>1. Spec => []Sound
  BY InitSound, StepSound, PTL DEF Spec
<1>2. Sound => OnlineAtThreshold
  BY DEF Sound
<1> QED
  BY <1>1, <1>2, PTL

-----------------------------------------------------------------------------
(* What may still be claimed of an ended season. *)

Unclaimed(d, season) ==
    SumTo([u \in Stakers |-> IF staking[<<u, d>>].from <= season
                             THEN staking[<<u, d>>].amount ELSE 0], NStakers)

LEMMA StakingType ==
  ASSUME TypeOK, NEW u \in Stakers, NEW d \in Dominators
  PROVE  staking[<<u, d>>].amount \in Nat /\ staking[<<u, d>>].from \in Nat
<1>1. staking[<<u, d>>] \in [amount : Nat, from : Seasons]
  BY DEF TypeOK, Positions
<1> QED
  BY <1>1, Constants DEF Seasons

(* A call of a staker: at most the caller's staking changes, and what is   *)
(* left of it starts in the current season.                                *)
LEMMA CallOnStaking ==
  ASSUME Sound, NEW u \in Stakers, NEW d \in Dominators, StakerCall(u, d)
  PROVE  /\ now' = now /\ start' = start /\ bonuses' = bonuses
         /\ \A q \in Positions : q # <<u, d>> => staking'[q] = staking[q]
         /\ staking'[<<u, d>>].amount > 0 => staking'[<<u, d>>].from = current_season(d)
         /\ earned' = [earned EXCEPT ![u] = @ + PendingShares(u, d)]
<1> DEFINE p == <<u, d>>
<1>1. p \in Positions /\ current_season(d) \in Seasons
  BY SeasonOfNow DEF Positions, Sound
<1>2. ASSUME NEW x \in Amounts, StakeOn(u, d, x)
      PROVE  /\ \A q \in Positions : q # p => staking'[q] = staking[q]
             /\ staking'[p].from = current_season(d)
  BY <1>1, <1>2 DEF StakeOn, Sound, TypeOK
<1>3. ASSUME NEW x \in Amounts, UnstakeFrom(u, d, x)
      PROVE  /\ \A q \in Positions : q # p => staking'[q] = staking[q]
             /\ staking'[p].amount > 0 => staking'[p].from = current_season(d)
  <2>1. x \in Nat /\ Remains(p, x, current_season(d))
    BY <1>3, AmountAssumption DEF UnstakeFrom
  <2> HIDE DEF p
  <2> QED
    BY <1>1, <2>1, RemainsOf DEF Sound
<1>4. ASSUME ClaimShares(u, d)
      PROVE  /\ \A q \in Positions : q # p => staking'[q] = staking[q]
             /\ staking'[p].from = current_season(d)
  BY <1>1, <1>4 DEF ClaimShares, Sound, TypeOK
<1>5. /\ now' = now /\ start' = start /\ bonuses' = bonuses
      /\ earned' = [earned EXCEPT ![u] = @ + PendingShares(u, d)]
  BY DEF StakerCall, StakeOn, UnstakeFrom, ClaimShares, dominators, take_shares
<1> QED
  BY <1>2, <1>3, <1>4, <1>5 DEF StakerCall

Covered == Sound /\ SnapshotCoversUnclaimed

LEMMA UnclaimedTyped ==
  ASSUME TypeOK, NEW d \in Dominators, NEW season
  PROVE  /\ [u \in Stakers |-> IF staking[<<u, d>>].from <= season
                               THEN staking[<<u, d>>].amount ELSE 0] \in [1..NStakers -> Nat]
         /\ Unclaimed(d, season) \in Nat
<1> DEFINE f == [u \in Stakers |-> IF staking[<<u, d>>].from <= season
                                   THEN staking[<<u, d>>].amount ELSE 0]
<1>1. f \in [1..NStakers -> Nat]
  BY StakingType DEF Stakers
<1> HIDE DEF f
<1>2. SumTo(f, NStakers) \in Nat
  BY <1>1, Constants, SumToNat
<1> QED
  BY <1>1, <1>2 DEF Unclaimed, f

LEMMA CallCovered ==
  ASSUME Covered, Sound', NEW u \in Stakers, NEW d \in Dominators, StakerCall(u, d)
  PROVE  SnapshotCoversUnclaimed'
<1>1. /\ now' = now /\ start' = start /\ bonuses' = bonuses
      /\ \A q \in Positions : q # <<u, d>> => staking'[q] = staking[q]
      /\ staking'[<<u, d>>].amount > 0 => staking'[<<u, d>>].from = current_season(d)
  BY CallOnStaking DEF Covered
<1>2. \A e \in Dominators : current_season(e)' = current_season(e)
  BY <1>1 DEF current_season
<1> SUFFICES ASSUME NEW e \in Dominators, NEW season \in 0..(current_season(e) - 1)
             PROVE  Unclaimed(e, season)' <= bonuses[<<e, season>>].staked
  BY <1>1, <1>2 DEF SnapshotCoversUnclaimed, Unclaimed
<1> DEFINE f == [v \in Stakers |-> IF staking[<<v, e>>].from <= season
                                   THEN staking[<<v, e>>].amount ELSE 0]
           g == [v \in Stakers |-> IF staking'[<<v, e>>].from <= season
                                   THEN staking'[<<v, e>>].amount ELSE 0]
<1>3. f \in [1..NStakers -> Nat] /\ g \in [1..NStakers -> Nat]
  <2>1. \A v \in Stakers : staking[<<v, e>>].amount \in Nat /\ staking'[<<v, e>>].amount \in Nat
    <3>1. \A v \in Stakers : <<v, e>> \in Positions
      BY DEF Positions
    <3> QED
      BY <3>1 DEF Covered, Sound, TypeOK
  <2> QED
    BY <2>1 DEF Stakers
<1>4. \A v \in Stakers : g[v] <= f[v]
  <2> TAKE v \in Stakers
  <2>1. <<v, e>> \in Positions /\ current_season(e) \in Nat /\ season \in Int /\ season < current_season(e)
    BY SeasonOfNow DEF Positions, Covered, Sound
  <2>2. f[v] \in Nat
    BY <1>3 DEF Stakers
  <2>3. CASE <<v, e>> = <<u, d>>
    <3>1. d = e /\ v = u
      BY <2>3
    <3>2. staking'[<<v, e>>].amount \in Nat
      BY <2>1 DEF Sound, TypeOK
    <3>3. g[v] = 0
      BY <1>1, <2>1, <3>1, <3>2
    <3> QED
      BY <2>2, <3>3
  <2>4. CASE <<v, e>> # <<u, d>>
    <3>1. staking'[<<v, e>>] = staking[<<v, e>>]
      BY <1>1, <2>1, <2>4
    <3>2. g[v] = f[v]
      BY <3>1
    <3> QED
      BY <2>2, <3>2
  <2> QED
    BY <2>3, <2>4
<1>5. Unclaimed(e, season) <= bonuses[<<e, season>>].staked
  BY DEF Covered, SnapshotCoversUnclaimed, Unclaimed
<1>6. Unclaimed(e, season) = SumTo(f, NStakers) /\ Unclaimed(e, season)' = SumTo(g, NStakers)
  BY DEF Unclaimed
<1> HIDE DEF f, g
<1>7. SumTo(g, NStakers) <= SumTo(f, NStakers)
  BY <1>3, <1>4, Constants, SumToMonotone DEF Stakers
<1>8. SumTo(g, NStakers) \in Nat /\ SumTo(f, NStakers) \in Nat
  BY <1>3, Constants, SumToNat
<1>9. bonuses[<<e, season>>].staked \in Nat
  <2>1. season \in Seasons
    BY SeasonOfNow, Constants DEF Covered, Sound, Seasons
  <2> QED
    BY <2>1 DEF Covered, Sound, TypeOK, SeasonKeys
<1> QED
  BY <1>5, <1>6, <1>7, <1>8, <1>9

LEMMA GovernanceCovered ==
  ASSUME Covered, NEW d \in Dominators, Governance(d)
  PROVE  SnapshotCoversUnclaimed'
<1>1. now' = now /\ staking' = staking
  BY DEF Governance, Register, Launch, Evict, PutProfit
<1>2. \A k \in SeasonKeys : bonuses'[k].staked = bonuses[k].staked
  <2>1. ASSUME NEW x \in Profits, PutProfit(d, x) PROVE \A k \in SeasonKeys : bonuses'[k].staked = bonuses[k].staked
    BY <2>1 DEF PutProfit, Covered, Sound, TypeOK
  <2> QED
    BY <2>1 DEF Governance, Register, Launch, Evict
<1>3. \A e \in Dominators : current_season(e)' = current_season(e) \/ current_season(e)' = 0
  <2>1. CASE Register(d)
    <3> TAKE e \in Dominators
    <3>1. e # d => start'[e] = start[e]
      BY <2>1 DEF Register, Covered, Sound, TypeOK
    <3>2. start'[d] = CheckBlock(now)
      BY <2>1 DEF Register, Covered, Sound, TypeOK
    <3>3. /\ CheckBlock(now) \in Nat /\ CheckBlock(now) <= now /\ now - CheckBlock(now) < GracePeriod
          /\ now \in Nat
      BY CheckOfNow, SeasonOfNow DEF Covered, Sound, Blocks
    <3>4. now - CheckBlock(now) \in Nat /\ now - CheckBlock(now) < SeasonDuration
      BY <3>3, Constants, PeriodAssumption, MultipleAbove
    <3>5. (now - CheckBlock(now)) \div SeasonDuration = 0
      BY <3>4, Constants, DivBelow
    <3>6. CASE e = d
      BY <1>1, <3>2, <3>5, <3>6 DEF current_season
    <3>7. CASE e # d
      BY <1>1, <3>1, <3>7 DEF current_season
    <3> QED
      BY <3>6, <3>7
  <2>2. CASE ~Register(d)
    <3>1. start' = start
      BY <2>2 DEF Governance, Launch, Evict, PutProfit, dominators
    <3> QED
      BY <1>1, <3>1 DEF current_season
  <2> QED
    BY <2>1, <2>2
<1> SUFFICES ASSUME NEW e \in Dominators, NEW season \in 0..(current_season(e)' - 1)
             PROVE  Unclaimed(e, season)' <= bonuses'[<<e, season>>].staked
  BY DEF SnapshotCoversUnclaimed, Unclaimed
<1>4. current_season(e)' = current_season(e) /\ season \in Seasons
  BY <1>3, SeasonOfNow, Constants DEF Covered, Sound, Seasons
<1>5. Unclaimed(e, season)' = Unclaimed(e, season)
  BY <1>1 DEF Unclaimed
<1>6. Unclaimed(e, season) <= bonuses[<<e, season>>].staked
  BY <1>4 DEF Covered, SnapshotCoversUnclaimed, Unclaimed
<1> QED
  BY <1>2, <1>4, <1>5, <1>6 DEF SeasonKeys

LEMMA NewBlockCovered ==
  ASSUME Covered, NewBlock
  PROVE  SnapshotCoversUnclaimed'
<1> DEFINE b == now + 1
<1>1. now' = b /\ status' = status /\ start' = start /\ staked' = staked /\ staking' = staking
  BY DEF NewBlock, dominators
<1>2. ASSUME NEW e \in Dominators, NEW season \in 0..(current_season(e)' - 1)
      PROVE  Unclaimed(e, season) <= bonuses'[<<e, season>>].staked
  <2>1. /\ current_season(e)' = IF (b - start[e]) % SeasonDuration = 0
                                THEN current_season(e) + 1 ELSE current_season(e)
        /\ (b - start[e]) % SeasonDuration = 0 =>
              b % GracePeriod = 0 /\ EndedSeason(e, b) = current_season(e)
        /\ b # start[e]
    BY <1>1, NextSeason DEF Covered, Sound
  <2>2. current_season(e) \in Nat /\ current_season(e) \in Seasons /\ season \in Nat
    BY SeasonOfNow DEF Covered, Sound
  <2>3. <<e, season>> \in SeasonKeys
    <3>1. season <= current_season(e)
      BY <2>1, <2>2
    <3> QED
      BY <2>2, <3>1, Constants DEF SeasonKeys, Seasons
  <2>4. Unclaimed(e, season) \in Nat
    BY UnclaimedTyped DEF Covered, Sound
  <2>5. CASE season < current_season(e)
    <3>1. bonuses'[<<e, season>>] = bonuses[<<e, season>>]
      <4>1. EndsSeason(e, b) => season # EndedSeason(e, b)
        BY <2>1, <2>2, <2>5 DEF EndsSeason
      <4> QED
        BY <1>1, <2>3, <4>1 DEF NewBlock, Snapshot
    <3>2. season \in 0..(current_season(e) - 1)
      BY <2>2, <2>5
    <3> QED
      BY <3>1, <3>2 DEF Covered, SnapshotCoversUnclaimed, Unclaimed
  <2>6. CASE season = current_season(e)
    <3>1. (b - start[e]) % SeasonDuration = 0
      BY <2>1, <2>2, <2>6
    <3>2. b % GracePeriod = 0 /\ season = EndedSeason(e, b)
      BY <2>1, <2>6, <3>1
    <3> DEFINE f == [v \in Stakers |-> IF staking[<<v, e>>].from <= season
                                       THEN staking[<<v, e>>].amount ELSE 0]
               g == [v \in Stakers |-> locked[<<v, e>>]]
    <3>3. f \in [1..NStakers -> Nat] /\ g \in [1..NStakers -> Nat] /\ \A v \in Stakers : f[v] <= g[v]
      <4>1. \A v \in Stakers : /\ staking[<<v, e>>].amount \in Nat
                               /\ locked[<<v, e>>] = staking[<<v, e>>].amount
        BY StakingType DEF Covered, Sound, Books, Positions
      <4> QED
        BY <4>1 DEF Stakers
    <3>4. Unclaimed(e, season) = SumTo(f, NStakers) /\ staked[e] = SumTo(g, NStakers)
      BY DEF Unclaimed, Covered, Sound, Books, StakedBy
    <3> HIDE DEF f, g
    <3>5. SumTo(f, NStakers) <= SumTo(g, NStakers)
      BY <3>3, Constants, SumToMonotone DEF Stakers
    <3>6. status[e] # "None" => bonuses'[<<e, season>>].staked = staked[e]
      <4>1. status[e] # "None" => EndsSeason(e, b)
        BY <2>1, <3>1 DEF EndsSeason
      <4> QED
        BY <1>1, <2>3, <3>2, <4>1 DEF NewBlock, Snapshot, Covered, Sound, TypeOK
    (* Before it is registered, nothing is staked on a dominator. *)
    <3>7. CASE status[e] = "None"
      <4>1. \A v \in Stakers : f[v] = 0
        BY <3>7 DEF f, Covered, Sound, Timed
      <4>2. SumTo(f, NStakers) = 0
        BY <3>3, <4>1, Constants, SumToZeros DEF Stakers
      <4>3. bonuses'[<<e, season>>] = bonuses[<<e, season>>]
        BY <1>1, <2>3, <3>7 DEF NewBlock, Snapshot, EndsSeason
      <4>4. bonuses[<<e, season>>].staked \in Nat
        BY <2>3 DEF Covered, Sound, TypeOK
      <4> QED
        BY <3>4, <4>2, <4>3, <4>4
    <3> QED
      BY <3>4, <3>5, <3>6, <3>7
  <2> QED
    BY <2>1, <2>2, <2>5, <2>6
<1>3. \A e \in Dominators : \A season : Unclaimed(e, season)' = Unclaimed(e, season)
  BY <1>1 DEF Unclaimed
<1> QED
  BY <1>2, <1>3 DEF SnapshotCoversUnclaimed, Unclaimed

LEMMA StepCovered == Covered /\ [Next]_vars => Covered'
<1> SUFFICES ASSUME Covered, [Next]_vars PROVE Covered'
  OBVIOUS
<1>1. Sound'
  BY StepSound DEF Covered
<1>2. ASSUME NEW d \in Dominators, NEW u \in Stakers, StakerCall(u, d) PROVE SnapshotCoversUnclaimed'
  BY <1>1, <1>2, CallCovered
<1>3. ASSUME NEW d \in Dominators, Governance(d) PROVE SnapshotCoversUnclaimed'
  BY <1>3, GovernanceCovered
<1>4. CASE NewBlock
  BY <1>1, <1>4, NewBlockCovered DEF Covered
<1>5. CASE UNCHANGED vars
  BY <1>1, <1>5 DEF vars, Covered, SnapshotCoversUnclaimed, current_season
<1> QED
  BY <1>1, <1>2, <1>3, <1>4, <1>5 DEF Next, Covered

LEMMA InitCovered == Init => Covered
<1> SUFFICES ASSUME Init PROVE SnapshotCoversUnclaimed
  BY InitSound DEF Covered
<1>1. \A d \in Dominators : current_season(d) = 0
  BY DEF Init, current_season
<1> QED
  BY <1>1 DEF SnapshotCoversUnclaimed

(* Those who may still take shares of an ended season have no more staked  *)
(* than on_initialize wrote down when it ended: no profit is promised      *)
(* twice, however stakes, unstakes and claims interleave with the end of a *)
(* season (SnapshotCoversUnclaimed).                                       *)
THEOREM SnapshotCovers == Spec => []SnapshotCoversUnclaimed
<1>1. Spec => []Covered
  BY InitCovered, StepCovered, PTL DEF Spec
<1>2. Covered => SnapshotCoversUnclaimed
  BY DEF Covered
<1> QED
  BY <1>1, <1>2, PTL
-----------------------------------------------------------------------------
(* What calls do to what is still to be claimed. *)

(* The shares depend on the staking, the current season and the ended      *)
(* seasons' bonuses.                                                       *)
LEMMA SharesKept ==
  ASSUME TypeOK, NEW v \in Stakers, NEW d \in Dominators,
         staking'[<<v, d>>] = staking[<<v, d>>],
         current_season(d)' = current_season(d),
         \A season \in Seasons : season < current_season(d) => bonuses'[<<d, season>>] = bonuses[<<d, season>>]
  PROVE  PendingShares(v, d)' = PendingShares(v, d)
<1> DEFINE s == staking[<<v, d>>]
           to == current_season(d)
           n == IF to > s.from THEN to - s.from ELSE 0
           f == [i \in 1..n |-> Share(d, s.from + i - 1, s.amount)]
           g == [i \in 1..n |-> LET bonus == bonuses'[<<d, s.from + i - 1>>]
                                IN  IF bonus.staked = 0 THEN 0
                                    ELSE MulNearest(FromRational(s.amount, bonus.staked), bonus.profit)]
<1>1. s.from \in Nat /\ to \in Nat /\ to <= MaxBlock
  BY SeasonOfNow, StakingType, Constants DEF Seasons
<1>2. \A i \in 1..n : s.from + i - 1 \in Seasons /\ s.from + i - 1 < to
  BY <1>1, Constants DEF Seasons
<1>3. f = g
  <2>1. \A i \in 1..n : bonuses'[<<d, s.from + i - 1>>] = bonuses[<<d, s.from + i - 1>>]
    BY <1>2
  <2> QED
    BY <2>1 DEF Share
<1>4. PendingShares(v, d) = IF s.amount = 0 THEN 0 ELSE SumTo(f, n)
  BY DEF PendingShares, SharesUntil
<1>5. PendingShares(v, d)' = IF s.amount = 0 THEN 0 ELSE SumTo(g, n)
  BY DEF PendingShares, SharesUntil, Share
<1> HIDE DEF f, g, n, s
<1> QED
  BY <1>3, <1>4, <1>5, Zenon

(* Nothing is pending without a stake, or when it starts now. *)
NothingDue ==
  \A u \in Stakers, d \in Dominators :
    TypeOK /\ (staking[<<u, d>>].amount = 0 \/ staking[<<u, d>>].from = current_season(d))
      => PendingShares(u, d) = 0

LEMMA NothingPending == NothingDue
<1> SUFFICES ASSUME NEW u \in Stakers, NEW d \in Dominators, TypeOK,
                    staking[<<u, d>>].amount # 0, staking[<<u, d>>].from = current_season(d)
             PROVE  PendingShares(u, d) = 0
  BY DEF NothingDue, PendingShares
<1> DEFINE s == staking[<<u, d>>]
           f == [i \in 1..0 |-> Share(d, s.from + i - 1, s.amount)]
<1>1. current_season(d) \in Nat
  BY SeasonOfNow
<1>2. SharesUntil(u, d, current_season(d)) = SumTo(f, 0)
  BY <1>1 DEF SharesUntil
<1>3. f \in [1..0 -> Int]
  OBVIOUS
<1> HIDE DEF f
<1>4. SumTo(f, 0) = 0
  BY <1>3, SumToZero
<1> QED
  BY <1>2, <1>4 DEF PendingShares

LEMMA SharesTyped ==
  TypeOK => \A u \in Stakers : [d \in Dominators |-> PendingShares(u, d)] \in [1..NDominators -> Nat]
BY SharesAreNatural DEF Dominators

LEMMA CallKeeps ==
  ASSUME Sound, Sound', NEW u \in Stakers, NEW d \in Dominators, StakerCall(u, d), NEW v \in Stakers
  PROVE  Entitled(v)' = Entitled(v)
<1>1. /\ now' = now /\ start' = start /\ bonuses' = bonuses
      /\ \A q \in Positions : q # <<u, d>> => staking'[q] = staking[q]
      /\ staking'[<<u, d>>].amount > 0 => staking'[<<u, d>>].from = current_season(d)
      /\ earned' = [earned EXCEPT ![u] = @ + PendingShares(u, d)]
  BY CallOnStaking
<1>2. \A e \in Dominators : current_season(e)' = current_season(e)
  BY <1>1 DEF current_season
<1>3. \A w \in Stakers, e \in Dominators : <<w, e>> # <<u, d>> => PendingShares(w, e)' = PendingShares(w, e)
  <2> SUFFICES ASSUME NEW w \in Stakers, NEW e \in Dominators, <<w, e>> # <<u, d>>
               PROVE  PendingShares(w, e)' = PendingShares(w, e)
    OBVIOUS
  <2>1. staking'[<<w, e>>] = staking[<<w, e>>]
    BY <1>1 DEF Positions
  <2> QED
    BY <1>1, <1>2, <2>1, SharesKept DEF Sound
<1>4. PendingShares(u, d)' = 0
  <2>1. (TypeOK /\ (staking[<<u, d>>].amount = 0 \/ staking[<<u, d>>].from = current_season(d)))'
    <3>1. staking'[<<u, d>>].amount \in Nat
      <4>1. <<u, d>> \in Positions
        BY DEF Positions
      <4> QED
        BY <4>1 DEF Sound, TypeOK
    <3> QED
      BY <1>1, <1>2, <3>1 DEF Sound
  <2>2. NothingDue'
    BY NothingPending, PTL
  <2> QED
    BY <2>1, <2>2, Zenon DEF NothingDue
<1> DEFINE f == [e \in Dominators |-> PendingShares(v, e)]
           g == [e \in Dominators |-> PendingShares(v, e)']
<1>5. f \in [1..NDominators -> Nat] /\ f \in [1..NDominators -> Int]
  BY SharesTyped DEF Sound
<1>6. g \in [1..NDominators -> Int]
  <2>1. \A e \in Dominators : f[e] \in Int
    BY <1>5 DEF Dominators
  <2>2. \A e \in Dominators : PendingShares(v, e)' \in Int
    BY <1>3, <1>4, <2>1
  <2> QED
    BY <2>2 DEF Dominators
<1>7. Entitled(v) = earned[v] + SumTo(f, NDominators) /\ Entitled(v)' = earned'[v] + SumTo(g, NDominators)
  BY DEF Entitled
<1>8. CASE v # u
  <2>1. g = f
    BY <1>3, <1>8
  <2>2. earned'[v] = earned[v]
    BY <1>1, <1>8 DEF Sound, TypeOK
  <2> QED
    BY <1>7, <2>1, <2>2
<1>9. CASE v = u
  <2>1. \A e \in 1..NDominators : e # d => g[e] = f[e]
    BY <1>3, <1>9 DEF Dominators
  <2>2. f[d] = PendingShares(u, d) /\ g[d] = 0
    BY <1>4, <1>9
  <2>3. earned'[v] = earned[v] + f[d] /\ earned[v] \in Nat /\ f[d] \in Nat
    BY <1>1, <1>5, <1>9, <2>2 DEF Sound, TypeOK, Dominators
  <2> HIDE DEF f, g
  <2>4. SumTo(g, NDominators) = SumTo(f, NDominators) + g[d] - f[d]
    BY <1>5, <1>6, <2>1, Constants, SumToChange DEF Dominators
  <2>5. SumTo(f, NDominators) \in Int
    BY <1>5, Constants, SumToNat
  <2> QED
    BY <1>7, <2>2, <2>3, <2>4, <2>5
<1> QED
  BY <1>8, <1>9

(* Governance keeps every pending share: a dominator is registered before  *)
(* anything is staked on it, and a fee goes to the current season.         *)
LEMMA GovernanceKeepsShares ==
  ASSUME Sound, Sound', NEW d \in Dominators, Governance(d), NEW v \in Stakers, NEW e \in Dominators
  PROVE  PendingShares(v, e)' = PendingShares(v, e)
<1>1. now' = now /\ staking' = staking
  BY DEF Governance, Register, Launch, Evict, PutProfit
<1>2. CASE Register(d) /\ e = d
  <2>1. staking[<<v, e>>].amount = 0 /\ staking'[<<v, e>>].amount = 0
    BY <1>1, <1>2 DEF Register, Sound, Timed
  <2> QED
    BY <2>1 DEF PendingShares
<1>3. CASE ~(Register(d) /\ e = d)
  <2>1. start'[e] = start[e]
    BY <1>3 DEF Governance, Register, Launch, Evict, PutProfit, dominators, Sound, TypeOK
  <2>2. current_season(e)' = current_season(e)
    BY <1>1, <2>1 DEF current_season
  <2>3. \A season \in Seasons : season < current_season(e) => bonuses'[<<e, season>>] = bonuses[<<e, season>>]
    <3>1. ASSUME NEW x \in Profits, PutProfit(d, x), NEW season \in Seasons, season < current_season(e)
          PROVE  bonuses'[<<e, season>>] = bonuses[<<e, season>>]
      <4>1. <<e, season>> \in SeasonKeys /\ current_season(d) \in Nat
        BY SeasonOfNow DEF SeasonKeys, Sound
      <4>2. <<e, season>> # <<d, current_season(d)>>
        BY <3>1, <4>1, Constants DEF Seasons
      <4> QED
        BY <3>1, <4>1, <4>2 DEF PutProfit, Sound, TypeOK
    <3> QED
      BY <3>1 DEF Governance, Register, Launch, Evict
  <2> QED
    BY <1>1, <2>2, <2>3, SharesKept DEF Sound
<1> QED
  BY <1>2, <1>3

LEMMA EntitlementsKept ==
  ASSUME Sound, Sound', [Next]_vars, now' = now, NEW v \in Stakers
  PROVE  Entitled(v)' = Entitled(v)
<1>1. ASSUME NEW d \in Dominators, NEW u \in Stakers, StakerCall(u, d)
      PROVE  Entitled(v)' = Entitled(v)
  BY <1>1, CallKeeps
<1>2. ASSUME NEW d \in Dominators, Governance(d)
      PROVE  Entitled(v)' = Entitled(v)
  <2>1. [e \in Dominators |-> PendingShares(v, e)'] = [e \in Dominators |-> PendingShares(v, e)]
    BY <1>2, GovernanceKeepsShares
  <2>2. earned' = earned
    BY <1>2 DEF Governance, Register, Launch, Evict, PutProfit, accounts
  <2> QED
    BY <2>1, <2>2 DEF Entitled
<1>3. ~NewBlock
  BY DEF NewBlock, Sound, TypeOK, Blocks
<1>4. CASE UNCHANGED vars
  BY <1>4 DEF vars, Entitled, PendingShares, SharesUntil, Share, current_season
<1> QED
  BY <1>1, <1>2, <1>3, <1>4 DEF Next

(* No call changes what any staker is entitled to from ended seasons, the  *)
(* caller's included: staking more, unstaking and claiming early pay       *)
(* exactly what waiting would (CallsKeepEntitlements).                     *)
THEOREM EntitlementsAreKept == Spec => CallsKeepEntitlements
<1>1. Sound /\ [Next]_vars
        => [now' = now => \A u \in Stakers : Entitled(u)' = Entitled(u)]_vars
  BY StepSound, EntitlementsKept
<1>2. Spec => []Sound
  BY InitSound, StepSound, PTL DEF Spec
<1> QED
  BY <1>1, <1>2, PTL DEF Spec, CallsKeepEntitlements

-----------------------------------------------------------------------------
(* What stakers get out of the profit. *)

(* What the end of a season, if one ends at the next block, adds to the    *)
(* pending shares.                                                         *)
Ends(d) == ((now + 1) - start[d]) % SeasonDuration = 0
Due(v, d) ==
    IF ~Ends(d) \/ staking[<<v, d>>].amount = 0 THEN 0
    ELSE MulNearest(FromRational(staking[<<v, d>>].amount, staked[d]),
                    bonuses[<<d, current_season(d)>>].profit)

(* Nobody has more staked on a dominator than is staked on it. *)
LEMMA StakedAtLeast ==
  ASSUME Sound, NEW v \in Stakers, NEW d \in Dominators
  PROVE  staked[d] \in Nat /\ staking[<<v, d>>].amount \in Nat /\ staking[<<v, d>>].amount <= staked[d]
<1>1. locked \in [Positions -> Nat] /\ <<v, d>> \in Positions
  BY DEF Sound, TypeOK, Positions
<1>2. locked[<<v, d>>] <= StakedBy(locked, d)
  BY <1>1, StakedChange
<1> QED
  BY <1>1, <1>2 DEF Sound, TypeOK, Books

LEMMA DueIsNatural ==
  ASSUME Sound, NEW v \in Stakers, NEW d \in Dominators
  PROVE  Due(v, d) \in Nat
<1> DEFINE x == staking[<<v, d>>].amount
           p == bonuses[<<d, current_season(d)>>].profit
<1>1. <<d, current_season(d)>> \in SeasonKeys
  BY SeasonOfNow DEF Sound, SeasonKeys
<1>2. x \in Nat /\ staked[d] \in Nat /\ x <= staked[d] /\ p \in Nat /\ Parts \in Nat \ {0}
  BY <1>1, StakedAtLeast, AmountAssumption DEF Sound, TypeOK
<1> HIDE DEF x, p
<1>3. CASE x = 0
  BY <1>3 DEF Due, x
<1>4. CASE x # 0
  <2>1. staked[d] \in Nat \ {0}
    BY <1>2, <1>4
  <2>2. MulNearest(FromRational(x, staked[d]), p) \in Nat
    BY <1>2, <2>1, RoundedShare DEF MulNearest, FromRational
  <2> QED
    BY <2>2 DEF Due, x, p
<1> QED
  BY <1>3, <1>4

(* The bonuses of the seasons that had ended stay, and the one that ends   *)
(* is written down.                                                        *)
LEMMA BlockOnBonuses ==
  ASSUME Sound, NewBlock, NEW d \in Dominators
  PROVE  /\ current_season(d)' = IF Ends(d) THEN current_season(d) + 1 ELSE current_season(d)
         /\ \A season \in Seasons : season < current_season(d) => bonuses'[<<d, season>>] = bonuses[<<d, season>>]
         /\ \A season \in Seasons : bonuses'[<<d, season>>].profit = bonuses[<<d, season>>].profit
         /\ status[d] # "None" /\ Ends(d) => bonuses'[<<d, current_season(d)>>].staked = staked[d]
<1> DEFINE b == now + 1
           cs == current_season(d)
<1>1. now' = b /\ status' = status /\ start' = start /\ staked' = staked /\ staking' = staking
  BY DEF NewBlock, dominators
<1>2. /\ cs' = IF Ends(d) THEN cs + 1 ELSE cs
      /\ Ends(d) => b % GracePeriod = 0 /\ EndedSeason(d, b) = cs
      /\ b # start[d]
  <2>1. /\ current_season(d)' = IF (b - start[d]) % SeasonDuration = 0
                                THEN current_season(d) + 1 ELSE current_season(d)
        /\ (b - start[d]) % SeasonDuration = 0 =>
              b % GracePeriod = 0 /\ EndedSeason(d, b) = current_season(d)
        /\ b # start[d]
    BY <1>1, NextSeason DEF Sound
  <2>2. Ends(d) <=> (b - start[d]) % SeasonDuration = 0
    BY DEF Ends
  <2> HIDE DEF b
  <2> QED
    BY <2>1, <2>2
<1>3. /\ cs \in Nat /\ cs \in Seasons /\ bonuses \in [SeasonKeys -> [staked : Nat, profit : Nat]]
      /\ \A season \in Seasons : <<d, season>> \in SeasonKeys
  BY SeasonOfNow DEF Sound, TypeOK, SeasonKeys
<1>4. \A season \in Seasons : /\ <<d, season>>[1] = d /\ <<d, season>>[2] = season
  OBVIOUS
<1>5. /\ b % GracePeriod = 0 =>
            \A season \in Seasons :
               bonuses'[<<d, season>>] = IF EndsSeason(d, b) /\ season = EndedSeason(d, b)
                                         THEN [bonuses[<<d, season>>] EXCEPT !.staked = staked[d]]
                                         ELSE bonuses[<<d, season>>]
      /\ b % GracePeriod # 0 => bonuses' = bonuses
  BY <1>1, <1>3 DEF NewBlock, Snapshot
<1>6. EndsSeason(d, b) <=> status[d] # "None" /\ Ends(d)
  <2>1. Ends(d) <=> (b - start[d]) % SeasonDuration = 0
    BY DEF Ends
  <2> HIDE DEF b
  <2> QED
    BY <1>2, <2>1 DEF EndsSeason
<1> HIDE DEF b, cs
<1>7. \A season \in Seasons : season < cs => bonuses'[<<d, season>>] = bonuses[<<d, season>>]
  <2> SUFFICES ASSUME NEW season \in Seasons, season < cs
               PROVE  bonuses'[<<d, season>>] = bonuses[<<d, season>>]
    OBVIOUS
  <2>1. season # cs
    BY <1>3
  <2>2. ~(EndsSeason(d, b) /\ season = EndedSeason(d, b))
    BY <1>2, <1>6, <2>1
  <2> QED
    BY <1>5, <2>2
<1>8. \A season \in Seasons : bonuses'[<<d, season>>].profit = bonuses[<<d, season>>].profit
  BY <1>3, <1>5
<1>9. status[d] # "None" /\ Ends(d) => bonuses'[<<d, cs>>].staked = staked[d]
  BY <1>2, <1>3, <1>5, <1>6
<1> QED
  BY <1>2, <1>7, <1>8, <1>9 DEF cs

LEMMA BlockOnShares ==
  ASSUME Sound, NewBlock, NEW v \in Stakers, NEW d \in Dominators
  PROVE  PendingShares(v, d)' = PendingShares(v, d) + Due(v, d)
<1> DEFINE s == staking[<<v, d>>]
           cs == current_season(d)
<1>1. staking' = staking
  BY DEF NewBlock
<1>2. PendingShares(v, d) \in Nat /\ s.amount \in Nat /\ s.from \in Nat /\ cs \in Nat /\ cs <= MaxBlock
  BY SharesAreNatural, StakingType, SeasonOfNow, Constants DEF Sound, Seasons
<1>3. /\ cs' = IF Ends(d) THEN cs + 1 ELSE cs
      /\ \A season \in Seasons : season < cs => bonuses'[<<d, season>>] = bonuses[<<d, season>>]
  BY BlockOnBonuses
<1>4. CASE s.amount = 0
  <2>1. PendingShares(v, d) = 0 /\ PendingShares(v, d)' = 0 /\ Due(v, d) = 0
    BY <1>1, <1>4 DEF PendingShares, Due
  <2> QED
    BY <2>1
<1>5. CASE s.amount # 0 /\ ~Ends(d)
  <2>1. PendingShares(v, d)' = PendingShares(v, d)
    BY <1>1, <1>3, <1>5, SharesKept DEF Sound
  <2>2. Due(v, d) = 0
    BY <1>5 DEF Due
  <2> QED
    BY <1>2, <2>1, <2>2
<1>6. CASE s.amount # 0 /\ Ends(d)
  <2> DEFINE n == cs - s.from
             m == cs + 1 - s.from
             f == [i \in 1..n |-> Share(d, s.from + i - 1, s.amount)]
             g == [i \in 1..m |-> LET bonus == bonuses'[<<d, s.from + i - 1>>]
                                  IN  IF bonus.staked = 0 THEN 0
                                      ELSE MulNearest(FromRational(s.amount, bonus.staked), bonus.profit)]
  <2>1. s.from <= cs /\ status[d] # "None"
    <3>1. <<v, d>> \in Positions /\ <<v, d>>[2] = d
      BY DEF Positions
    <3> QED
      BY <1>2, <1>6, <3>1 DEF Sound, Timed
  <2>2. n \in Nat /\ m = n + 1 /\ \A i \in 1..n : s.from + i - 1 \in Seasons /\ s.from + i - 1 < cs
    BY <1>2, <2>1, Constants DEF Seasons
  <2>3. \A i \in 1..n : f[i] \in Nat
    BY <1>2, <2>2, ShareIsNatural DEF Sound
  <2>4. \A i \in 1..n : g[i] = f[i]
    <3>1. \A i \in 1..n : bonuses'[<<d, s.from + i - 1>>] = bonuses[<<d, s.from + i - 1>>]
      BY <1>3, <2>2
    <3>2. \A i \in 1..n : i \in 1..m
      BY <2>2
    <3> QED
      BY <3>1, <3>2 DEF Share
  <2>5. g[m] = Due(v, d)
    <3>1. m \in 1..m /\ s.from + m - 1 = cs /\ cs \in Seasons
      BY <1>2, <2>1, Constants DEF Seasons
    <3>2. bonuses'[<<d, cs>>].staked = staked[d] /\ bonuses'[<<d, cs>>].profit = bonuses[<<d, cs>>].profit
      BY <1>6, <2>1, <3>1, BlockOnBonuses
    <3>3. staked[d] # 0
      BY <1>2, <1>6, StakedAtLeast
    <3>4. Due(v, d) = MulNearest(FromRational(s.amount, staked[d]), bonuses[<<d, cs>>].profit)
      BY <1>6 DEF Due
    <3> HIDE DEF s, m, cs
    <3> QED
      BY <3>1, <3>2, <3>3, <3>4
  <2>6. PendingShares(v, d)' = SumTo(g, m)
    <3> DEFINE to == current_season(d)'
               k == IF to > s.from THEN to - s.from ELSE 0
               h == [i \in 1..k |-> LET bonus == bonuses'[<<d, s.from + i - 1>>]
                                    IN  IF bonus.staked = 0 THEN 0
                                        ELSE MulNearest(FromRational(s.amount, bonus.staked), bonus.profit)]
    <3>1. to = cs + 1 /\ cs + 1 > s.from
      BY <1>2, <1>3, <1>6, <2>1
    <3>2. PendingShares(v, d)' = IF s.amount = 0 THEN 0 ELSE SumTo(h, k)
      BY <1>1 DEF PendingShares, SharesUntil, Share
    <3>3. k = m
      BY <1>2, <3>1
    <3> HIDE DEF k, s, m
    <3>4. h = g
      BY <3>3
    <3> HIDE DEF h, g
    <3> QED
      BY <1>6, <3>2, <3>3, <3>4
  <2>7. PendingShares(v, d) = SumTo(f, n)
    <3>1. n = IF cs > s.from THEN cs - s.from ELSE 0
      BY <1>2, <2>1
    <3> QED
      BY <1>6, <3>1 DEF PendingShares, SharesUntil
  <2>8. Due(v, d) \in Nat
    BY DueIsNatural
  <2>9. f \in [1..n -> Int]
    <3>1. f = [i \in 1..n |-> f[i]]
      OBVIOUS
    <3> HIDE DEF f
    <3> QED
      BY <2>3, <3>1
  <2>10. g \in [1..m -> Int]
    <3>1. \A i \in 1..m : i \in 1..n \/ i = m
      BY <2>2
    <3>2. DOMAIN g = 1..m /\ g = [i \in 1..m |-> g[i]]
      OBVIOUS
    <3> HIDE DEF f, g, n, m
    <3>3. \A i \in 1..m : g[i] \in Int
      BY <2>3, <2>4, <2>5, <2>8, <3>1
    <3> QED
      BY <3>2, <3>3
  <2> HIDE DEF f, g, n, m
  <2>11. SumTo(f, n) = SumTo(g, n)
    <3>1. n <= n /\ n <= m /\ m \in Nat
      BY <2>2
    <3> QED
      BY <2>2, <2>4, <2>9, <2>10, <3>1, SumToAgree
  <2>12. SumTo(g, m) = SumTo(g, n) + g[m]
    <3>1. m \in Nat /\ m \in 1..m /\ m - 1 = n
      BY <2>2
    <3>2. SumTo(g, m) = SumTo(g, m - 1) + g[m]
      BY <2>10, <3>1, SumToStep
    <3> QED
      BY <3>1, <3>2
  <2> QED
    BY <2>5, <2>6, <2>7, <2>11, <2>12
<1> QED
  BY <1>4, <1>5, <1>6

(* The shares of one season, rounded, take no more than its profit and     *)
(* half a unit each.                                                       *)
LEMMA DuesFromProfit ==
  ASSUME Sound, NEW d \in Dominators
  PROVE  2 * SumTo([v \in Stakers |-> Due(v, d)], NStakers)
           <= 2 * bonuses[<<d, current_season(d)>>].profit + NStakers
<1> DEFINE p == bonuses[<<d, current_season(d)>>].profit
           x == [v \in Stakers |-> locked[<<v, d>>]]
           m == [v \in Stakers |-> Due(v, d)]
<1>1. p \in Nat /\ Parts \in Nat \ {0}
  <2>1. <<d, current_season(d)>> \in SeasonKeys
    BY SeasonOfNow DEF Sound, SeasonKeys
  <2> QED
    BY <2>1, AmountAssumption DEF Sound, TypeOK
<1>2. m \in [1..NStakers -> Nat] /\ x \in [1..NStakers -> Nat]
  BY DueIsNatural DEF Sound, TypeOK, Stakers, Positions
<1>3. SumTo(x, NStakers) = staked[d] /\ staked[d] \in Nat
  BY DEF Sound, Books, StakedBy, TypeOK
<1>4. \A v \in 1..NStakers : x[v] = staking[<<v, d>>].amount /\ staking[<<v, d>>].amount <= staked[d]
  BY StakedAtLeast DEF Sound, Books, Positions, Stakers
<1>5. CASE staked[d] = 0
  <2>1. \A v \in 1..NStakers : m[v] = 0
    BY <1>2, <1>4, <1>5, StakedAtLeast DEF Due, Stakers
  <2> HIDE DEF m, p
  <2>2. m \in [1..NStakers -> Int]
    BY <1>2
  <2>3. SumTo(m, NStakers) = 0
    BY <2>1, <2>2, Constants, SumToZeros
  <2> QED
    BY <1>1, <2>3, Constants DEF m, p
<1>6. CASE staked[d] # 0
  <2>1. \A v \in 1..NStakers :
          m[v] = 0 \/ m[v] = (2 * ((x[v] * Parts) \div staked[d]) * p + Parts - 1) \div (2 * Parts)
    BY <1>4 DEF Due, MulNearest, FromRational, Stakers
  <2>2. staked[d] \in Nat \ {0} /\ SumTo(x, NStakers) <= staked[d]
    BY <1>3, <1>6
  <2> HIDE DEF m, p, x
  <2>3. 2 * SumTo(m, NStakers) <= 2 * p + NStakers
    BY <1>1, <1>2, <2>1, <2>2, Constants, RoundedShares
  <2> QED
    BY <2>3 DEF m, p
<1> QED
  BY <1>5, <1>6

(* What the ended seasons of a dominator may pay at most. *)
Payable(d) ==
    IF status[d] = "None" THEN 0 ELSE 2 * EndedProfit(d) + NStakers * current_season(d)

LEMMA EndedProfitTyped ==
  ASSUME TypeOK, NEW d \in Dominators
  PROVE  /\ [i \in 1..current_season(d) |-> bonuses[<<d, i - 1>>].profit]
              \in [1..current_season(d) -> Nat]
         /\ EndedProfit(d) \in Nat /\ Payable(d) \in Nat
         /\ NStakers * current_season(d) \in Nat
<1> DEFINE n == current_season(d)
           f == [i \in 1..n |-> bonuses[<<d, i - 1>>].profit]
<1>1. n \in Nat /\ n <= MaxBlock
  BY SeasonOfNow, Constants DEF Seasons
<1>2. f \in [1..n -> Nat]
  <2>1. \A i \in 1..n : <<d, i - 1>> \in SeasonKeys
    BY <1>1, Constants DEF SeasonKeys, Seasons
  <2> QED
    BY <2>1 DEF TypeOK
<1>3. EndedProfit(d) = SumTo(f, n)
  BY DEF EndedProfit
<1> HIDE DEF n, f
<1>4. SumTo(f, n) \in Nat
  BY <1>1, <1>2, SumToNat
<1>5. NStakers * n \in Nat
  BY <1>1, Constants, ProductNat
<1>6. 2 * EndedProfit(d) + NStakers * n \in Nat
  BY <1>3, <1>4, <1>5
<1> QED
  BY <1>2, <1>3, <1>4, <1>5, <1>6 DEF n, f, Payable

(* The profit counted up to a season does not change with later fees. *)
LEMMA EndedProfitKept ==
  ASSUME TypeOK, NEW d \in Dominators, current_season(d)' = current_season(d),
         \A season \in Seasons : season < current_season(d) =>
            bonuses'[<<d, season>>].profit = bonuses[<<d, season>>].profit
  PROVE  EndedProfit(d)' = EndedProfit(d)
<1> DEFINE n == current_season(d)
           m == current_season(d)'
<1>1. n \in Nat /\ n <= MaxBlock
  BY SeasonOfNow, Constants DEF Seasons
<1>2. [i \in 1..n |-> bonuses'[<<d, i - 1>>].profit] = [i \in 1..n |-> bonuses[<<d, i - 1>>].profit]
  BY <1>1, Constants DEF Seasons
<1>3. EndedProfit(d)' = SumTo([i \in 1..m |-> bonuses'[<<d, i - 1>>].profit], m)
  BY DEF EndedProfit
<1>4. EndedProfit(d) = SumTo([i \in 1..n |-> bonuses[<<d, i - 1>>].profit], n)
  BY DEF EndedProfit
<1>5. m = n
  OBVIOUS
<1> HIDE DEF n, m
<1> QED
  BY <1>2, <1>3, <1>4, <1>5

(* The end of a season adds its profit, and half a unit for each staker.   *)
LEMMA BlockOnPayable ==
  ASSUME Sound, NewBlock, NEW d \in Dominators
  PROVE  /\ Payable(d)' \in Nat
         /\ 2 * SumTo([v \in Stakers |-> Due(v, d)], NStakers) <= Payable(d)' - Payable(d)
<1> DEFINE n == current_season(d)
           m == current_season(d)'
           f == [i \in 1..n |-> bonuses[<<d, i - 1>>].profit]
           g == [i \in 1..m |-> bonuses'[<<d, i - 1>>].profit]
           due == [v \in Stakers |-> Due(v, d)]
           p == bonuses[<<d, n>>].profit
<1>1. status' = status
  BY DEF NewBlock, dominators
<1>2. /\ m = IF Ends(d) THEN n + 1 ELSE n
      /\ \A season \in Seasons : bonuses'[<<d, season>>].profit = bonuses[<<d, season>>].profit
  BY BlockOnBonuses
<1>3. /\ n \in Nat /\ n \in Seasons /\ n <= MaxBlock /\ Payable(d) \in Nat /\ EndedProfit(d) \in Nat
      /\ f \in [1..n -> Nat] /\ f \in [1..n -> Int] /\ p \in Nat /\ NStakers \in Nat
  <2>1. <<d, n>> \in SeasonKeys
    BY SeasonOfNow DEF Sound, SeasonKeys
  <2>2. p \in Nat
    BY <2>1 DEF Sound, TypeOK
  <2>3. f \in [1..n -> Nat]
    BY EndedProfitTyped DEF Sound
  <2> HIDE DEF f, p
  <2> QED
    BY <2>2, <2>3, SeasonOfNow, EndedProfitTyped, Constants DEF Sound, Seasons
<1>4. due \in [1..NStakers -> Nat] /\ due \in [1..NStakers -> Int]
  BY DueIsNatural DEF Stakers
<1>5. ASSUME \A v \in 1..NStakers : due[v] = 0 PROVE SumTo(due, NStakers) = 0
  <2> HIDE DEF due
  <2> QED
    BY <1>4, <1>5, Constants, SumToZeros
(* No season ends, or the dominator has none yet: nothing is due. *)
<1>6. CASE ~Ends(d) \/ status[d] = "None"
  <2>1. \A v \in 1..NStakers : due[v] = 0
    <3>1. status[d] = "None" => \A v \in Stakers : staking[<<v, d>>].amount = 0
      BY DEF Sound, Timed
    <3> QED
      BY <1>6, <3>1 DEF Due, Stakers
  <2>2. SumTo(due, NStakers) = 0
    BY <1>5, <2>1
  <2>3. Payable(d)' = Payable(d)
    <3>1. CASE status[d] = "None"
      BY <1>1, <3>1 DEF Payable
    <3>2. CASE status[d] # "None"
      <4>1. m = n
        BY <1>2, <1>6, <3>2
      <4>2. EndedProfit(d)' = EndedProfit(d)
        BY <1>2, <4>1, EndedProfitKept DEF Sound
      <4> QED
        BY <1>1, <4>1, <4>2 DEF Payable
    <3> QED
      BY <3>1, <3>2
  <2> HIDE DEF due
  <2>4. 2 * SumTo(due, NStakers) = 0
    BY <2>2
  <2> QED
    BY <1>3, <2>3, <2>4 DEF due
<1>7. CASE Ends(d) /\ status[d] # "None"
  <2>1. m = n + 1
    BY <1>2, <1>7
  <2>2. \A i \in 1..m : g[i] = bonuses[<<d, i - 1>>].profit
    BY <1>2, <1>3, <2>1, Constants DEF Seasons
  <2>3. \A i \in 1..n : g[i] = f[i] /\ i \in 1..m
    BY <1>3, <2>1, <2>2
  <2>4. g[m] = p
    <3>1. m \in 1..m /\ m - 1 = n
      BY <1>3, <2>1
    <3> HIDE DEF g, m
    <3> QED
      BY <2>2, <3>1
  <2>5. g = [i \in 1..m |-> g[i]]
    OBVIOUS
  <2>6. EndedProfit(d) = SumTo(f, n) /\ EndedProfit(d)' = SumTo(g, m)
    BY DEF EndedProfit
  <2> HIDE DEF f, g, m, n, p
  <2>7. g \in [1..m -> Int]
    <3>1. \A i \in 1..m : g[i] \in Int
      <4>1. \A i \in 1..m : i \in 1..n \/ i = m
        BY <1>3, <2>1
      <4> QED
        BY <1>3, <2>3, <2>4, <4>1
    <3> QED
      BY <2>5, <3>1
  <2>8. SumTo(g, m) = SumTo(f, n) + p
    <3>1. m \in Nat /\ m \in 1..m /\ m - 1 = n /\ n <= n /\ n <= m
      BY <1>3, <2>1
    <3>2. SumTo(g, m) = SumTo(g, m - 1) + g[m]
      BY <2>7, <3>1, SumToStep
    <3>3. SumTo(f, n) = SumTo(g, n)
      BY <1>3, <2>3, <2>7, <3>1, SumToAgree
    <3> QED
      BY <2>4, <3>1, <3>2, <3>3
  <2>9. NStakers * m = NStakers * n + NStakers /\ NStakers * n \in Nat
    <3>1. NStakers * (n + 1) = NStakers * n + NStakers * 1 /\ NStakers * n \in Nat
      BY <1>3, Products, ProductNat
    <3> QED
      BY <1>3, <2>1, <3>1
  <2>10. /\ Payable(d) = 2 * EndedProfit(d) + NStakers * n
         /\ Payable(d)' = 2 * EndedProfit(d)' + NStakers * m
    BY <1>1, <1>7 DEF Payable, n, m
  <2>11. 2 * SumTo(due, NStakers) <= 2 * p + NStakers
    BY DuesFromProfit DEF p, n
  <2> HIDE DEF due
  <2>12. SumTo(due, NStakers) \in Int
    BY <1>4, <1>3, SumToNat
  <2>13. Payable(d)' \in Nat /\ 2 * SumTo(due, NStakers) <= Payable(d)' - Payable(d)
    <3> DEFINE a == NStakers * n
               c == NStakers * m
               e == SumTo(f, n)
               z == SumTo(due, NStakers)
    <3>1. a \in Nat /\ c = a + NStakers /\ e \in Nat /\ z \in Int /\ 2 * z <= 2 * p + NStakers
      BY <1>3, <2>6, <2>9, <2>11, <2>12
    <3>2. Payable(d) = 2 * e + a /\ Payable(d)' = 2 * (e + p) + c
      BY <2>6, <2>8, <2>10
    <3> HIDE DEF a, c, e, z
    <3>3. Payable(d)' \in Nat /\ 2 * z <= Payable(d)' - Payable(d)
      BY <1>3, <3>1, <3>2
    <3> QED
      BY <3>3 DEF z
  <2> QED
    BY <2>13 DEF due
<1> QED
  BY <1>6, <1>7

(* The profit of seasons that ended before a dominator was registered does *)
(* not count.                                                              *)
PaidFromLaunched ==
    2 * SumTo([u \in Stakers |-> Entitled(u)], NStakers)
      <= SumTo([d \in Dominators |-> Payable(d)], NDominators)

LEMMA EntitledTyped ==
  ASSUME Sound
  PROVE  /\ \A u \in Stakers : Entitled(u) \in Nat
         /\ [u \in Stakers |-> Entitled(u)] \in [1..NStakers -> Nat]
         /\ [u \in Stakers |-> Entitled(u)] \in [1..NStakers -> Int]
<1>1. \A u \in Stakers : Entitled(u) \in Nat
  <2> TAKE u \in Stakers
  <2> DEFINE f == [d \in Dominators |-> PendingShares(u, d)]
  <2>1. f \in [1..NDominators -> Nat] /\ earned[u] \in Nat
    BY SharesTyped DEF Sound, TypeOK
  <2>2. Entitled(u) = earned[u] + SumTo(f, NDominators)
    BY DEF Entitled
  <2> HIDE DEF f
  <2>3. SumTo(f, NDominators) \in Nat
    BY <2>1, Constants, SumToNat
  <2> QED
    BY <2>1, <2>2, <2>3
<1> QED
  BY <1>1 DEF Stakers

LEMMA PayableTyped ==
  ASSUME Sound
  PROVE  /\ [d \in Dominators |-> Payable(d)] \in [1..NDominators -> Nat]
         /\ [d \in Dominators |-> Payable(d)] \in [1..NDominators -> Int]
BY EndedProfitTyped DEF Sound, Dominators

LEMMA PaidFromLaunchedIsEnough == Sound /\ PaidFromLaunched => PaidFromProfit
<1> SUFFICES ASSUME Sound, PaidFromLaunched PROVE PaidFromProfit
  OBVIOUS
<1> DEFINE f == [d \in Dominators |-> Payable(d)]
           g == [d \in Dominators |-> 2 * EndedProfit(d) + NStakers * current_season(d)]
           e == [u \in Stakers |-> Entitled(u)]
<1>1. \A d \in Dominators : /\ EndedProfit(d) \in Nat /\ NStakers * current_season(d) \in Nat
                            /\ Payable(d) \in Nat
  BY EndedProfitTyped DEF Sound
<1>2. f \in [1..NDominators -> Int] /\ g \in [1..NDominators -> Int]
  <2>1. \A d \in Dominators : Payable(d) \in Int
    BY <1>1
  <2>2. \A d \in Dominators : 2 * EndedProfit(d) + NStakers * current_season(d) \in Int
    BY <1>1
  <2> QED
    BY <2>1, <2>2 DEF Dominators
<1>3. \A d \in 1..NDominators : f[d] <= g[d]
  <2>1. \A d \in Dominators : Payable(d) <= 2 * EndedProfit(d) + NStakers * current_season(d)
    <3> TAKE d \in Dominators
    <3> DEFINE a == NStakers * current_season(d)
    <3>1. EndedProfit(d) \in Nat /\ a \in Nat
      BY <1>1
    <3>2. Payable(d) = IF status[d] = "None" THEN 0 ELSE 2 * EndedProfit(d) + a
      BY DEF Payable
    <3> HIDE DEF a
    <3>3. Payable(d) <= 2 * EndedProfit(d) + a
      BY <3>1, <3>2
    <3> QED
      BY <3>3 DEF a
  <2> QED
    BY <2>1 DEF Dominators
<1>4. e \in [1..NStakers -> Nat]
  BY EntitledTyped
<1>5. /\ PaidFromLaunched <=> 2 * SumTo(e, NStakers) <= SumTo(f, NDominators)
      /\ PaidFromProfit <=> 2 * SumTo(e, NStakers) <= SumTo(g, NDominators)
  BY DEF PaidFromLaunched, PaidFromProfit
<1> HIDE DEF e, f, g
<1>6. SumTo(f, NDominators) <= SumTo(g, NDominators)
  BY <1>2, <1>3, Constants, SumToMonotone
<1>7. SumTo(e, NStakers) \in Nat /\ SumTo(f, NDominators) \in Int /\ SumTo(g, NDominators) \in Int
  <2>1. NDominators \in 0..NDominators
    BY Constants
  <2> QED
    BY <1>2, <1>4, <2>1, Constants, SumToNat, SumToInt
<1> QED
  BY <1>5, <1>6, <1>7

LEMMA InitPaid == Init => PaidFromLaunched
<1> SUFFICES ASSUME Init PROVE PaidFromLaunched
  OBVIOUS
<1> DEFINE e == [u \in Stakers |-> Entitled(u)]
           f == [d \in Dominators |-> Payable(d)]
<1>1. Sound
  BY InitSound
<1>2. \A u \in Stakers : Entitled(u) = 0
  <2> TAKE u \in Stakers
  <2> DEFINE h == [d \in Dominators |-> PendingShares(u, d)]
  <2>1. \A d \in Dominators : PendingShares(u, d) = 0
    BY <1>1, NothingPending DEF NothingDue, Sound, Init, NoStaking, Positions
  <2>2. h \in [1..NDominators -> Int] /\ \A d \in 1..NDominators : h[d] = 0
    BY <2>1 DEF Dominators
  <2>3. Entitled(u) = 0 + SumTo(h, NDominators)
    BY DEF Entitled, Init
  <2> HIDE DEF h
  <2>4. SumTo(h, NDominators) = 0
    BY <2>2, Constants, SumToZeros
  <2> QED
    BY <2>3, <2>4
<1>3. e \in [1..NStakers -> Int] /\ \A u \in 1..NStakers : e[u] = 0
  BY <1>2 DEF Stakers
<1>4. f \in [1..NDominators -> Nat]
  BY <1>1, PayableTyped
<1> HIDE DEF e, f
<1>5. SumTo(e, NStakers) = 0 /\ SumTo(f, NDominators) \in Nat
  BY <1>3, <1>4, Constants, SumToZeros, SumToNat
<1> QED
  BY <1>5 DEF PaidFromLaunched, e, f

(* Calls keep both sides. *)
LEMMA CallPaid ==
  ASSUME Sound, Sound', PaidFromLaunched, [Next]_vars, now' = now
  PROVE  PaidFromLaunched'
<1>1. [u \in Stakers |-> Entitled(u)'] = [u \in Stakers |-> Entitled(u)]
  BY EntitlementsKept
<1>2. ASSUME NEW e \in Dominators,
             status'[e] = "None" <=> status[e] = "None",
             start'[e] = start[e],
             \A season \in Seasons : season < current_season(e) =>
               bonuses'[<<e, season>>].profit = bonuses[<<e, season>>].profit
      PROVE  Payable(e)' = Payable(e)
  <2>1. current_season(e)' = current_season(e)
    BY <1>2 DEF current_season
  <2>2. EndedProfit(e)' = EndedProfit(e)
    BY <1>2, <2>1, EndedProfitKept DEF Sound
  <2> QED
    BY <1>2, <2>1, <2>2 DEF Payable
<1>3. ASSUME NEW d \in Dominators, NEW u \in Stakers, StakerCall(u, d), NEW e \in Dominators
      PROVE  Payable(e)' = Payable(e)
  <2>1. start' = start /\ bonuses' = bonuses
    BY <1>3, CallOnStaking
  <2>2. status'[e] = "None" <=> status[e] = "None"
    BY <1>3 DEF StakerCall, StakeOn, UnstakeFrom, ClaimShares, dominators, Online, Sound, TypeOK
  <2> QED
    BY <1>2, <2>1, <2>2
<1>4. ASSUME NEW d \in Dominators, Governance(d), NEW e \in Dominators
      PROVE  Payable(e)' = Payable(e)
  <2>1. CASE Register(d) /\ e = d
    <3>1. status[e] = "None" /\ start'[e] = CheckBlock(now)
      BY <2>1 DEF Register, Sound, TypeOK
    <3>2. /\ CheckBlock(now) \in Nat /\ CheckBlock(now) <= now /\ now - CheckBlock(now) < GracePeriod
          /\ now \in Nat
      BY CheckOfNow, SeasonOfNow DEF Sound, Blocks
    <3>3. now - CheckBlock(now) \in Nat /\ now - CheckBlock(now) < SeasonDuration
      BY <3>2, Constants, PeriodAssumption, MultipleAbove
    <3>4. (now - CheckBlock(now)) \div SeasonDuration = 0
      BY <3>3, Constants, DivBelow
    <3>5. current_season(e)' = 0
      BY <3>1, <3>4 DEF current_season
    <3> DEFINE m == current_season(e)'
               g == [i \in 1..m |-> bonuses'[<<e, i - 1>>].profit]
    <3>6. EndedProfit(e)' = SumTo(g, m) /\ g \in [1..m -> Int]
      BY <3>5 DEF EndedProfit
    <3> HIDE DEF g
    <3>7. SumTo(g, m) = 0
      <4>1. m = 0
        BY <3>5
      <4> HIDE DEF m
      <4> QED
        BY <3>6, <4>1, SumToZero
    <3>8. NStakers * 0 = 0
      BY Constants
    <3>9. Payable(e) = 0
      BY <3>1 DEF Payable
    <3>10. Payable(e)' = 0
      <4>1. Payable(e)' = IF status'[e] = "None" THEN 0 ELSE 2 * EndedProfit(e)' + NStakers * m
        BY DEF Payable
      <4>2. m = 0 /\ EndedProfit(e)' = 0
        BY <3>5, <3>6, <3>7
      <4> HIDE DEF m
      <4>3. 2 * EndedProfit(e)' + NStakers * m = 0
        BY <3>8, <4>2
      <4> QED
        BY <4>1, <4>3
    <3> QED
      BY <3>9, <3>10
  <2>2. CASE ~(Register(d) /\ e = d)
    <3>1. start'[e] = start[e]
      BY <1>4, <2>2 DEF Governance, Register, Launch, Evict, PutProfit, dominators, Sound, TypeOK
    <3>2. status'[e] = "None" <=> status[e] = "None"
      BY <1>4, <2>2 DEF Governance, Register, Launch, Evict, PutProfit, dominators, Sound, TypeOK
    <3>3. \A season \in Seasons : season < current_season(e) =>
            bonuses'[<<e, season>>].profit = bonuses[<<e, season>>].profit
      <4>1. ASSUME NEW x \in Profits, PutProfit(d, x), NEW season \in Seasons, season < current_season(e)
            PROVE  bonuses'[<<e, season>>].profit = bonuses[<<e, season>>].profit
        <5>1. <<e, season>> \in SeasonKeys /\ current_season(d) \in Nat
          BY SeasonOfNow DEF SeasonKeys, Sound
        <5>2. <<e, season>> # <<d, current_season(d)>>
          BY <4>1, <5>1, Constants DEF Seasons
        <5> QED
          BY <4>1, <5>1, <5>2 DEF PutProfit, Sound, TypeOK
      <4> QED
        BY <1>4, <4>1 DEF Governance, Register, Launch, Evict
    <3> QED
      BY <1>2, <3>1, <3>2, <3>3
  <2> QED
    BY <2>1, <2>2
<1>5. CASE UNCHANGED vars
  BY <1>5 DEF vars, PaidFromLaunched, Payable, EndedProfit, Entitled, PendingShares, SharesUntil, Share,
              current_season
<1>6. ~NewBlock
  BY DEF NewBlock, Sound, TypeOK, Blocks
<1>7. CASE \A e \in Dominators : Payable(e)' = Payable(e)
  <2>1. [e \in Dominators |-> Payable(e)'] = [e \in Dominators |-> Payable(e)]
    BY <1>7
  <2> QED
    BY <1>1, <2>1 DEF PaidFromLaunched
<1> QED
  BY <1>3, <1>4, <1>5, <1>6, <1>7 DEF Next

(* A block adds to each staker what the ended seasons' profits give it. *)
LEMMA BlockPaid ==
  ASSUME Sound, Sound', PaidFromLaunched, NewBlock
  PROVE  PaidFromLaunched'
<1> DEFINE e == [u \in Stakers |-> Entitled(u)]
           z == [u \in Stakers |-> Entitled(u)']
           f == [d \in Dominators |-> Payable(d)]
           g == [d \in Dominators |-> Payable(d)']
           t == [k \in (1..NStakers) \X (1..NDominators) |-> Due(k[1], k[2])]
           mine == [u \in 1..NStakers |-> SumTo([d \in 1..NDominators |-> t[<<u, d>>]], NDominators)]
           theirs == [d \in 1..NDominators |-> SumTo([u \in 1..NStakers |-> t[<<u, d>>]], NStakers)]
           twice == [d \in 1..NDominators |-> 2 * theirs[d]]
           both == [d \in 1..NDominators |-> f[d] + twice[d]]
<1>1. /\ \A u \in Stakers, d \in Dominators : Due(u, d) \in Nat
      /\ \A u \in Stakers, d \in Dominators : t[<<u, d>>] = Due(u, d)
      /\ t \in [(1..NStakers) \X (1..NDominators) -> Int]
  BY DueIsNatural DEF Stakers, Dominators
<1>2. \A u \in Stakers : mine[u] \in Nat /\ z[u] = e[u] + mine[u]
  <2> TAKE u \in Stakers
  <2> DEFINE h == [d \in Dominators |-> PendingShares(u, d)]
             hn == [d \in Dominators |-> PendingShares(u, d)']
             due == [d \in 1..NDominators |-> t[<<u, d>>]]
  <2>1. h \in [1..NDominators -> Nat] /\ h \in [1..NDominators -> Int]
    BY SharesTyped DEF Sound
  <2>2. due \in [1..NDominators -> Nat] /\ due \in [1..NDominators -> Int]
    <3> HIDE DEF t
    <3>1. \A d \in 1..NDominators : t[<<u, d>>] \in Nat
      BY <1>1 DEF Dominators
    <3> QED
      BY <3>1
  <2>3. \A d \in Dominators : hn[d] = h[d] + due[d]
    <3>1. \A d \in Dominators : PendingShares(u, d)' = PendingShares(u, d) + Due(u, d)
      BY BlockOnShares
    <3>2. \A d \in Dominators : due[d] = Due(u, d)
      BY <1>1 DEF Dominators
    <3> QED
      BY <3>1, <3>2
  <2>4. hn \in [1..NDominators -> Int]
    <3>1. \A d \in 1..NDominators : h[d] + due[d] \in Int
      <4> HIDE DEF h, due
      <4> QED
        BY <2>1, <2>2
    <3>2. hn = [d \in 1..NDominators |-> hn[d]]
      BY DEF Dominators
    <3> HIDE DEF hn, h, due
    <3> QED
      BY <2>3, <3>1, <3>2 DEF Dominators
  <2>5. Entitled(u) = earned[u] + SumTo(h, NDominators) /\ earned' = earned /\ earned[u] \in Nat
    BY DEF Entitled, NewBlock, Sound, TypeOK
  <2>6. Entitled(u)' = earned'[u] + SumTo(hn, NDominators)
    BY DEF Entitled
  <2>7. mine[u] = SumTo(due, NDominators) /\ e[u] = Entitled(u) /\ z[u] = Entitled(u)'
    BY DEF Stakers
  <2> HIDE DEF h, hn, due, mine, e, z
  <2>8. SumTo(hn, NDominators) = SumTo(h, NDominators) + SumTo(due, NDominators)
    BY <2>1, <2>2, <2>3, <2>4, Constants, SumToAdd DEF Dominators
  <2>9. SumTo(h, NDominators) \in Nat /\ SumTo(due, NDominators) \in Nat
    BY <2>1, <2>2, Constants, SumToNat
  <2> QED
    BY <2>5, <2>6, <2>7, <2>8, <2>9
<1>3. \A d \in Dominators : /\ theirs[d] \in Nat /\ f[d] \in Nat /\ g[d] \in Nat
                            /\ twice[d] = 2 * theirs[d] /\ both[d] = f[d] + twice[d]
                            /\ both[d] <= g[d]
  <2> TAKE d \in Dominators
  <2> DEFINE due == [u \in 1..NStakers |-> t[<<u, d>>]]
             own == [u \in Stakers |-> Due(u, d)]
  <2>1. due = own /\ own \in [1..NStakers -> Nat]
    BY <1>1 DEF Stakers
  <2>2. theirs[d] = SumTo(due, NStakers) /\ f[d] = Payable(d) /\ g[d] = Payable(d)'
        /\ twice[d] = 2 * theirs[d] /\ both[d] = f[d] + twice[d]
    BY DEF Dominators
  <2>3. Payable(d)' \in Nat /\ 2 * SumTo(own, NStakers) <= Payable(d)' - Payable(d)
    BY BlockOnPayable
  <2>4. Payable(d) \in Nat
    BY EndedProfitTyped DEF Sound
  <2> HIDE DEF due, own, theirs, twice, both, f, g
  <2>5. SumTo(own, NStakers) \in Nat
    BY <2>1, Constants, SumToNat
  <2> QED
    BY <2>1, <2>2, <2>3, <2>4, <2>5
<1>4. e \in [1..NStakers -> Int] /\ f \in [1..NDominators -> Int]
  BY EntitledTyped, PayableTyped
<1>5. /\ mine = [u \in 1..NStakers |-> mine[u]] /\ z = [u \in 1..NStakers |-> z[u]]
      /\ theirs = [d \in 1..NDominators |-> theirs[d]] /\ g = [d \in 1..NDominators |-> g[d]]
      /\ twice = [d \in 1..NDominators |-> twice[d]] /\ both = [d \in 1..NDominators |-> both[d]]
  BY DEF Stakers, Dominators
<1>6. SumTo(mine, NStakers) = SumTo(theirs, NDominators)
  <2> HIDE DEF t
  <2> QED
    BY <1>1, Constants, SumToSwap
<1>7. /\ PaidFromLaunched <=> 2 * SumTo(e, NStakers) <= SumTo(f, NDominators)
      /\ PaidFromLaunched' <=> 2 * SumTo(z, NStakers) <= SumTo(g, NDominators)
  BY DEF PaidFromLaunched
<1> HIDE DEF e, z, f, g, t, mine, theirs, twice, both
<1>8. mine \in [1..NStakers -> Int] /\ z \in [1..NStakers -> Int]
  <2>1. \A u \in 1..NStakers : mine[u] \in Int /\ z[u] \in Int
    BY <1>2, <1>4 DEF Stakers
  <2> QED
    BY <1>5, <2>1
<1>9. /\ theirs \in [1..NDominators -> Int] /\ g \in [1..NDominators -> Int]
      /\ twice \in [1..NDominators -> Int] /\ both \in [1..NDominators -> Int]
  <2>1. \A d \in 1..NDominators : theirs[d] \in Int /\ g[d] \in Int /\ twice[d] \in Int /\ both[d] \in Int
    BY <1>3 DEF Dominators
  <2> QED
    BY <1>5, <2>1
<1>10. SumTo(z, NStakers) = SumTo(e, NStakers) + SumTo(mine, NStakers)
  BY <1>2, <1>4, <1>8, Constants, SumToAdd DEF Stakers
<1>11. SumTo(twice, NDominators) = 2 * SumTo(theirs, NDominators)
  <2>1. \A d \in 1..NDominators : twice[d] = 2 * theirs[d]
    BY <1>3 DEF Dominators
  <2> QED
    BY <1>9, <2>1, 2 \in Int, Constants, SumToScale, Zenon
<1>12. SumTo(both, NDominators) = SumTo(f, NDominators) + SumTo(twice, NDominators)
  BY <1>3, <1>4, <1>9, Constants, SumToAdd DEF Dominators
<1>13. SumTo(both, NDominators) <= SumTo(g, NDominators)
  BY <1>3, <1>9, Constants, SumToMonotone DEF Dominators
<1>14. /\ SumTo(e, NStakers) \in Int /\ SumTo(mine, NStakers) \in Int
       /\ SumTo(f, NDominators) \in Int /\ SumTo(g, NDominators) \in Int
       /\ SumTo(theirs, NDominators) \in Int
  <2>1. NStakers \in 0..NStakers /\ NDominators \in 0..NDominators
    BY Constants
  <2> QED
    BY <1>4, <1>8, <1>9, <2>1, Constants, SumToInt
<1> QED
  BY <1>6, <1>7, <1>10, <1>11, <1>12, <1>13, <1>14

(* Stakers get no more than the profit of the ended seasons, but for the   *)
(* rounding of each share to the nearest unit, whatever is staked,         *)
(* unstaked and claimed in whatever order (PaidFromProfit).                *)
THEOREM PaidFromProfits == Spec => []PaidFromProfit
<1>1. Sound /\ PaidFromLaunched /\ [Next]_vars => (Sound /\ PaidFromLaunched)'
  <2> SUFFICES ASSUME Sound, PaidFromLaunched, [Next]_vars PROVE Sound' /\ PaidFromLaunched'
    OBVIOUS
  <2>1. Sound'
    BY StepSound
  <2>2. CASE now' = now
    BY <2>1, <2>2, CallPaid
  <2>3. CASE now' # now
    <3>1. NewBlock
      <4>1. ASSUME NEW d \in Dominators, Governance(d) PROVE FALSE
        BY <2>3, <4>1 DEF Governance, Register, Launch, Evict, PutProfit
      <4>2. ASSUME NEW d \in Dominators, NEW u \in Stakers, StakerCall(u, d) PROVE FALSE
        BY <2>3, <4>2 DEF StakerCall, StakeOn, UnstakeFrom, ClaimShares
      <4>3. ~UNCHANGED vars
        BY <2>3 DEF vars
      <4> QED
        BY <4>1, <4>2, <4>3 DEF Next
    <3> QED
      BY <2>1, <3>1, BlockPaid
  <2> QED
    BY <2>1, <2>2, <2>3
<1>2. Init => Sound /\ PaidFromLaunched
  BY InitSound, InitPaid
<1> QED
  BY <1>1, <1>2, PaidFromLaunchedIsEnough, PTL DEF Spec

=============================================================================
