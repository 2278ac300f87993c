---------------------------- MODULE BettingProofs ----------------------------
(***************************************************************************)
(* Proofs about Betting: for any number of accounts, battles, bettings and *)
(* items, any odds, scores, start times and amounts.                       *)
(***************************************************************************)
EXTENDS Betting, SumsProofs, SequenceTheorems

USE DEF Accounts, Bettings, Battles, Items, NGrades, Grades, NLedger, Ledger, Slots

(* What an account wins is a natural number. *)
LEMMA WonNat ==
  ASSUME NEW amount \in Nat, NEW k \in Grades
  PROVE  Won(amount, k) \in Nat
<1>1. OddsValues[k] \in Nat
  BY OddsAssumption, ElementOfSeq
<1>2. OddsValues[k] * amount \in Nat
  BY <1>1
<1>3. \A y \in Nat : y \div 100 \in Nat
  OBVIOUS
<1>4. QED
  BY <1>2, <1>3 DEF Won

LEMMA GradesNat == NGrades \in Nat
BY OddsAssumption, LenProperties

LEMMA PayoutNat ==
  ASSUME TypeOK, NEW b \in Bettings, NEW u \in Accounts, NEW i \in Items
  PROVE  Payout(b, u, i) \in Nat
<1> DEFINE f == [k \in Grades |-> Won(stake[b, u, i, k], k)]
<1>1. \A k \in Grades : stake[b, u, i, k] \in Nat
  BY DEF TypeOK
<1>2. f \in [1..NGrades -> Nat]
  BY <1>1, WonNat
<1>3. SumTo(f, NGrades) \in Nat
  BY <1>2, GradesNat, SumToNat
<1>4. QED
  BY <1>3 DEF Payout

(* The accounts of bettings are none of the people's. *)
LEMMA PledgeAccounts ==
  /\ Organizer \in Ledger
  /\ \A u \in Accounts : u \in Ledger
  /\ \A b \in Bettings : PledgeAccount(b) \in Ledger /\ PledgeAccount(b) \notin Accounts
  /\ \A b, c \in Bettings : PledgeAccount(b) = PledgeAccount(c) => b = c
  /\ Organizer \in Accounts
BY CountAssumption DEF PledgeAccount, Organizer

(* A transfer that can be made changes two balances and makes none negative. *)
LEMMA Transferred ==
  ASSUME TypeOK, NEW from \in Ledger, NEW to \in Ledger, NEW amount \in Nat,
         CanTransfer(from, amount, to)
  PROVE  LET f == TransferToken(from, amount, to) IN
         /\ f \in [Ledger -> Nat]
         /\ \A x \in Ledger : x # from => f[x] >= free[x]
         /\ \A x \in Ledger : x # from /\ x # to => f[x] = free[x]
         /\ from # to => f[from] = free[from] - amount /\ f[to] = free[to] + amount
<1>1. free \in [Ledger -> Nat]
  BY DEF TypeOK
<1>2. CASE from = to
  BY <1>1, <1>2 DEF TransferToken
<1>3. CASE from # to
  <2>1. free[from] >= amount
    BY <1>1, <1>3 DEF CanTransfer
  <2>2. TransferToken(from, amount, to)
          = [free EXCEPT ![from] = @ - amount, ![to] = @ + amount]
    BY <1>3 DEF TransferToken
  <2>3. free[from] \in Nat /\ free[to] \in Nat /\ \A x \in Ledger : free[x] \in Nat
    BY <1>1
  <2>4. free[from] - amount \in Nat /\ free[to] + amount \in Nat
    BY <2>1, <2>3
  <2> DEFINE f == TransferToken(from, amount, to)
  <2>5. /\ f[from] = free[from] - amount
        /\ f[to] = free[to] + amount
        /\ \A x \in Ledger : x # from /\ x # to => f[x] = free[x]
    BY <1>1, <1>3, <2>2
  <2>6. f \in [Ledger -> Nat]
    BY <1>1, <2>2, <2>4
  <2>7. f[to] >= free[to]
    BY <2>3, <2>5
  <2>8. \A x \in Ledger : x # from => f[x] >= free[x]
    BY <2>3, <2>5, <2>7
  <2>9. QED
    BY <1>3, <2>5, <2>6, <2>8
<1>4. QED
  BY <1>2, <1>3

LEMMA InitTypeOK == Init => TypeOK
<1> SUFFICES ASSUME Init PROVE TypeOK
  OBVIOUS
<1>1. free \in [Ledger -> Nat]
  BY AmountAssumption DEF Init
<1>2. betting \in [Bettings -> BettingInfo]
  <2>1. <<>> \in Seq(OddsItem)
    OBVIOUS
  <2>2. NoBetting \in BettingInfo
    BY <2>1, CountAssumption DEF NoBetting, BettingInfo
  <2>3. QED
    BY <2>2 DEF Init
<1>3. battle \in [Battles -> [type : BattleTypes \cup {"None"},
                              status : {"None", "Running", "Completed", "Finalized"},
                              start : StartTimes \cup {0}, score : Scores \cup {<<>>}]]
  BY DEF Init, NoBattle
<1>4. now \in 0..MaxTime /\ next_battle \in 1..(NBattles + 1) /\ next_betting \in 1..(NBettings + 1)
  BY CountAssumption, AmountAssumption DEF Init
<1>5. \A b \in Bettings : DOMAIN betting[b].items \subseteq Items
  BY DEF Init, NoBetting
<1>6. QED
  BY <1>1, <1>2, <1>3, <1>4, <1>5 DEF Init, TypeOK

(* Replacing one item of one betting. *)
WithItem(b, i, e) == [betting EXCEPT ![b].items[i] = e]

LEMMA ItemChanged ==
  ASSUME TypeOK, NEW b \in Bettings, NEW i \in DOMAIN betting[b].items, NEW e \in OddsItem
  PROVE  /\ WithItem(b, i, e) \in [Bettings -> BettingInfo]
         /\ \A c \in Bettings : c # b => WithItem(b, i, e)[c] = betting[c]
         /\ DOMAIN WithItem(b, i, e)[b].items = DOMAIN betting[b].items
         /\ \A j \in DOMAIN betting[b].items :
              WithItem(b, i, e)[b].items[j] = IF j = i THEN e ELSE betting[b].items[j]
         /\ WithItem(b, i, e)[b].type = betting[b].type
         /\ WithItem(b, i, e)[b].total_pledge = betting[b].total_pledge
<1> DEFINE s == betting[b].items
           t == [s EXCEPT ![i] = e]
           bb == WithItem(b, i, e)
<1>1. betting \in [Bettings -> BettingInfo] /\ betting[b] \in BettingInfo
  BY DEF TypeOK
<1>2. s \in Seq(OddsItem)
  BY <1>1 DEF BettingInfo
<1>3. DOMAIN s = 1..Len(s) /\ Len(s) \in Nat
  BY <1>2, LenProperties
<1>4. t \in Seq(OddsItem) /\ Len(t) = Len(s)
      /\ \A j \in 1..Len(s) : t[j] = IF j = i THEN e ELSE s[j]
  BY <1>2, <1>3, ExceptSeq
<1>5. DOMAIN t = DOMAIN s
  OBVIOUS
<1>6. bb = [betting EXCEPT ![b] = [@ EXCEPT !.items = t]]
  BY DEF WithItem
<1>7. [betting[b] EXCEPT !.items = t] \in BettingInfo
  BY <1>1, <1>4 DEF BettingInfo
<1>8. bb \in [Bettings -> BettingInfo]
  BY <1>1, <1>6, <1>7
<1>9. bb[b].items = t
  BY <1>1, <1>6 DEF BettingInfo
<1>10. bb[b].type = betting[b].type /\ bb[b].total_pledge = betting[b].total_pledge
  BY <1>1, <1>6 DEF BettingInfo
<1>11. QED
  BY <1>1, <1>3, <1>4, <1>5, <1>6, <1>8, <1>9, <1>10

(* Replacing the total pledge of one betting. *)
WithPledge(b, n) == [betting EXCEPT ![b].total_pledge = n]

LEMMA PledgeChanged ==
  ASSUME TypeOK, NEW b \in Bettings, NEW n \in Nat
  PROVE  /\ WithPledge(b, n) \in [Bettings -> BettingInfo]
         /\ \A c \in Bettings : WithPledge(b, n)[c].items = betting[c].items
         /\ \A c \in Bettings : WithPledge(b, n)[c].type = betting[c].type
         /\ \A c \in Bettings : c # b => WithPledge(b, n)[c] = betting[c]
         /\ WithPledge(b, n)[b].total_pledge = n
<1> DEFINE r == [betting[b] EXCEPT !.total_pledge = n]
           bb == WithPledge(b, n)
<1>1. betting \in [Bettings -> BettingInfo] /\ betting[b] \in BettingInfo
  BY DEF TypeOK
<1>2. r \in BettingInfo /\ r.items = betting[b].items
  BY <1>1 DEF BettingInfo
<1>3. bb = [betting EXCEPT ![b] = r]
  BY DEF WithPledge
<1>4. bb \in [Bettings -> BettingInfo]
  BY <1>1, <1>2, <1>3
<1>5. \A c \in Bettings : bb[c] = IF c = b THEN r ELSE betting[c]
  BY <1>1, <1>3
<1>6. r.type = betting[b].type /\ r.total_pledge = n
  BY <1>1 DEF BettingInfo
<1> HIDE DEF r, bb
<1>7. QED
  BY <1>2, <1>4, <1>5, <1>6 DEF bb

-----------------------------------------------------------------------------
(* The inductive invariant: types, and every booking backed. *)
Backed == TypeOK /\ BookedIsBacked

(* The calls on battles change no betting and no balance. *)
LEMMA BattleCallBacked ==
  ASSUME Backed,
         \/ Tick
         \/ \E type \in BattleTypes, t \in StartTimes :
              \/ CreateBattle(type, t)
              \/ \E m \in Battles : UpdateBattle(m, type, t)
         \/ \E m \in Battles :
              \/ \E s \in Scores : SetResult(m, s)
              \/ FinalsSettle(m)
              \/ LeagueSettle(m)
  PROVE  Backed'
<1> USE DEF Backed
<1>1. UNCHANGED <<next_betting, betting, records, free, history>>
  BY DEF Tick, CreateBattle, UpdateBattle, SetResult, FinalsSettle, LeagueSettle, Finalize
<1>2. BookedIsBacked'
  BY <1>1 DEF BookedIsBacked, ItemsOf, Item, Pledge, history
<1> DEFINE info == [type : BattleTypes \cup {"None"},
                    status : {"None", "Running", "Completed", "Finalized"},
                    start : StartTimes \cup {0}, score : Scores \cup {<<>>}]
           goal == /\ now' \in 0..MaxTime
                   /\ next_battle' \in 1..(NBattles + 1)
                   /\ battle' \in [Battles -> info]
<1>3. now \in 0..MaxTime /\ next_battle \in 1..(NBattles + 1) /\ battle \in [Battles -> info]
  BY DEF TypeOK
<1>4. ASSUME Tick PROVE goal
  BY <1>3, <1>4, AmountAssumption DEF Tick, battles
<1>5. ASSUME NEW type \in BattleTypes, NEW t \in StartTimes, CreateBattle(type, t)
      PROVE  goal
  <2>1. NewBattle(type, t) \in info
    BY DEF NewBattle
  <2>2. battle' \in [Battles -> info]
    BY <1>3, <1>5, <2>1 DEF CreateBattle
  <2>3. next_battle' \in 1..(NBattles + 1) /\ now' = now
    BY <1>3, <1>5, CountAssumption DEF CreateBattle
  <2>4. QED
    BY <1>3, <2>2, <2>3
<1>6. ASSUME NEW type \in BattleTypes, NEW t \in StartTimes, NEW m \in Battles,
             UpdateBattle(m, type, t)
      PROVE  goal
  <2>1. NewBattle(type, t) \in info
    BY DEF NewBattle
  <2>2. QED
    BY <1>3, <1>6, <2>1 DEF UpdateBattle
<1>7. ASSUME NEW m \in Battles, NEW s \in Scores, SetResult(m, s)
      PROVE  goal
  BY <1>3, <1>7 DEF SetResult
<1>8. ASSUME NEW m \in Battles, Finalize(m)
      PROVE  goal
  BY <1>3, <1>8 DEF Finalize
<1>9. goal
  BY <1>4, <1>5, <1>6, <1>7, <1>8 DEF FinalsSettle, LeagueSettle
<1>10. QED
  BY <1>1, <1>2, <1>9 DEF TypeOK, records, history

(* The items of a betting are items, and what they have booked a number. *)
LEMMA ItemTyped ==
  ASSUME TypeOK, NEW b \in Bettings, NEW i \in DOMAIN betting[b].items
  PROVE  betting[b].items[i] \in OddsItem
<1>1. betting[b].items \in Seq(OddsItem)
  BY DEF TypeOK, BettingInfo
<1>2. QED
  BY <1>1, LenProperties, ElementOfSeq

LEMMA CompNat ==
  ASSUME TypeOK, NEW b \in Bettings, NEW i \in DOMAIN betting[b].items
  PROVE  betting[b].items[i].comp \in Nat
BY ItemTyped DEF OddsItem

(* A step that leaves the items alone, takes nothing out of a pledge       *)
(* account that it does not count, keeps bookings backed.                  *)
LEMMA BackedKept ==
  ASSUME Backed, TypeOK',
         \A b \in Bettings : betting'[b].items = betting[b].items,
         \A b \in Bettings : Pledge(b)' + paid'[b] + withdrawn'[b]
                                >= Pledge(b) + paid[b] + withdrawn[b]
  PROVE  Backed'
<1> SUFFICES ASSUME NEW b \in Bettings, NEW i \in DOMAIN betting'[b].items
             PROVE  betting'[b].items[i].comp <= Pledge(b)' + paid'[b] + withdrawn'[b]
  BY DEF Backed, BookedIsBacked, ItemsOf, Item
<1>1. betting[b].items[i].comp <= Pledge(b) + paid[b] + withdrawn[b]
  BY DEF Backed, BookedIsBacked, ItemsOf, Item
<1>2. betting[b].items[i].comp \in Nat
  BY CompNat DEF Backed
<1>3. /\ Pledge(b) \in Nat /\ paid[b] \in Nat /\ withdrawn[b] \in Nat
      /\ Pledge(b)' \in Nat /\ paid'[b] \in Nat /\ withdrawn'[b] \in Nat
  BY PledgeAccounts DEF Backed, TypeOK, Pledge
<1>4. QED
  BY <1>1, <1>2, <1>3

-----------------------------------------------------------------------------
(* The calls on bettings, one lemma each. *)

LEMMA HitsAreItems ==
  ASSUME TypeOK, NEW b \in Bettings
  PROVE  Hits(b) \subseteq Items
BY DEF Hits, TypeOK

LEMMA CreateBettingBacked ==
  ASSUME Backed, NEW type \in {"WinLose", "Score"}, NEW list \in OddsLists,
         NEW m \in Battles, NEW pledge \in Amounts, CreateBetting(type, list, m, pledge)
  PROVE  Backed'
<1> DEFINE n == next_betting
           its == [i \in DOMAIN list |->
                    [out |-> list[i].out, o |-> list[i].o, comp |-> 0, accounts |-> 0, buy_in |-> 0]]
           r == [battle |-> m, type |-> type, total_pledge |-> pledge, items |-> its]
<1>1. TypeOK /\ BookedIsBacked /\ pledge \in Nat /\ n \in Bettings
  BY AmountAssumption DEF Backed, CreateBetting
<1>2. list \in Seq([out : Seq(Nat), o : Grades])
  BY OddsAssumption
<1>3. its \in Seq(OddsItem)
  <2>1. DOMAIN list = 1..Len(list) /\ Len(list) \in Nat
    BY <1>2, LenProperties
  <2>2. \A i \in 1..Len(list) : list[i] \in [out : Seq(Nat), o : Grades]
    BY <1>2, ElementOfSeq
  <2>3. \A i \in 1..Len(list) : its[i] \in OddsItem
    BY <2>1, <2>2 DEF OddsItem
  <2>4. QED
    BY <2>1, <2>3, IsASeq
<1>4. r \in BettingInfo
  BY <1>1, <1>3 DEF BettingInfo
<1>5. betting' = [betting EXCEPT ![n] = r]
  BY DEF CreateBetting
<1>6. betting' \in [Bettings -> BettingInfo]
  BY <1>1, <1>4, <1>5 DEF TypeOK
<1>7. /\ free' \in [Ledger -> Nat]
      /\ \A b \in Bettings : Pledge(b)' >= Pledge(b)
  BY <1>1, PledgeAccounts, Transferred DEF CreateBetting, Pledge
<1>8. next_betting' \in 1..(NBettings + 1)
  BY <1>1, CountAssumption DEF CreateBetting, TypeOK
<1>9. TypeOK'
  <2>1. DOMAIN its \subseteq Items
    BY <1>2, OddsAssumption, CountAssumption, LenProperties
  <2>2. \A b \in Bettings : DOMAIN betting'[b].items \subseteq Items
    BY <1>1, <1>5, <2>1 DEF TypeOK
  <2>3. QED
    BY <1>1, <1>6, <1>7, <1>8, <2>2 DEF CreateBetting, TypeOK, battles, records, history
<1>10. ASSUME NEW b \in Bettings, NEW i \in DOMAIN betting'[b].items
       PROVE  betting'[b].items[i].comp <= Pledge(b)' + paid'[b] + withdrawn'[b]
  <2>1. /\ Pledge(b) \in Nat /\ paid[b] \in Nat /\ withdrawn[b] \in Nat
        /\ Pledge(b)' \in Nat /\ paid'[b] = paid[b] /\ withdrawn'[b] = withdrawn[b]
    BY <1>1, <1>9, PledgeAccounts DEF TypeOK, Pledge, CreateBetting, history
  <2>2. CASE b = n
    <3>1. betting'[b].items = its
      BY <1>1, <1>5, <2>2 DEF TypeOK
    <3>2. betting'[b].items[i].comp = 0
      BY <1>10, <3>1
    <3>3. QED
      BY <2>1, <3>2
  <2>3. CASE b # n
    <3>1. betting'[b] = betting[b]
      BY <1>1, <1>5, <2>3 DEF TypeOK
    <3>2. betting[b].items[i].comp <= Pledge(b) + paid[b] + withdrawn[b]
      BY <1>1, <1>10, <3>1 DEF BookedIsBacked, ItemsOf, Item
    <3>3. betting[b].items[i].comp \in Nat
      BY <1>1, <1>10, <3>1, CompNat
    <3>4. QED
      BY <1>7, <2>1, <3>1, <3>2, <3>3
  <2>4. QED
    BY <2>2, <2>3
<1>11. QED
  BY <1>9, <1>10 DEF Backed, BookedIsBacked, ItemsOf, Item

(* New odds leave the bookings as they are. *)
LEMMA UpdateOddsBacked ==
  ASSUME Backed, NEW b \in Bettings, NEW i \in Items, NEW k \in Grades, UpdateOdds(b, i, k)
  PROVE  Backed'
<1> DEFINE e == [betting[b].items[i] EXCEPT !.o = k]
<1>1. TypeOK /\ BookedIsBacked /\ i \in DOMAIN betting[b].items
  BY DEF Backed, UpdateOdds
<1>2. betting[b].items[i] \in OddsItem
  BY <1>1, ItemTyped
<1>3. e \in OddsItem /\ e.comp = betting[b].items[i].comp
  BY <1>2 DEF OddsItem
<1>4. betting' = WithItem(b, i, e)
  BY DEF UpdateOdds, WithItem
<1> HIDE DEF e
<1>5. /\ betting' \in [Bettings -> BettingInfo]
      /\ \A c \in Bettings : c # b => betting'[c] = betting[c]
      /\ DOMAIN betting'[b].items = DOMAIN betting[b].items
      /\ \A j \in DOMAIN betting[b].items :
           betting'[b].items[j] = IF j = i THEN e ELSE betting[b].items[j]
  BY <1>1, <1>3, <1>4, ItemChanged
<1>6. TypeOK'
  BY <1>1, <1>5 DEF UpdateOdds, TypeOK, battles, records, history
<1>7. \A c \in Bettings : \A j \in DOMAIN betting'[c].items :
        /\ j \in DOMAIN betting[c].items
        /\ betting'[c].items[j].comp = betting[c].items[j].comp
  BY <1>3, <1>5
<1>8. BookedIsBacked'
  BY <1>1, <1>7 DEF BookedIsBacked, ItemsOf, Item, Pledge, UpdateOdds, history
<1>9. QED
  BY <1>6, <1>8 DEF Backed

LEMMA DropBettingBacked ==
  ASSUME Backed, NEW b \in Bettings, DropBetting(b)
  PROVE  Backed'
<1>1. TypeOK /\ BookedIsBacked
  BY DEF Backed
<1>2. Pledge(b) \in Nat /\ CanTransfer(PledgeAccount(b), Pledge(b), Organizer)
  BY <1>1, PledgeAccounts DEF TypeOK, Pledge, CanTransfer
<1>3. /\ free' \in [Ledger -> Nat]
      /\ \A c \in Bettings : c # b => Pledge(c)' >= Pledge(c)
  BY <1>1, <1>2, PledgeAccounts, Transferred DEF DropBetting, Pledge
<1>4. /\ betting' \in [Bettings -> BettingInfo]
      /\ \A c \in Bettings : betting'[c].items = betting[c].items
  <2>1. betting' = WithPledge(b, 0) /\ 0 \in Nat
    BY DEF DropBetting, WithPledge
  <2>2. QED
    BY <1>1, <2>1, PledgeChanged
<1>5. TypeOK'
  BY <1>1, <1>3, <1>4 DEF DropBetting, TypeOK, battles, records
<1>6. ASSUME NEW c \in Bettings, NEW i \in DOMAIN betting'[c].items
      PROVE  betting'[c].items[i].comp <= Pledge(c)' + paid'[c] + withdrawn'[c]
  <2>1. i \in DOMAIN betting[c].items /\ betting[c].items[i].comp \in Nat
    BY <1>1, <1>4, CompNat
  <2>2. /\ Pledge(c) \in Nat /\ paid[c] \in Nat /\ withdrawn[c] \in Nat
        /\ Pledge(c)' \in Nat /\ paid'[c] = paid[c] /\ withdrawn'[c] = withdrawn[c]
    BY <1>1, <1>5, PledgeAccounts DEF TypeOK, Pledge, DropBetting
  <2>3. CASE c = b
    BY <1>4, <2>1, <2>2, <2>3 DEF DropBetting
  <2>4. CASE c # b
    <3>1. betting[c].items[i].comp <= Pledge(c) + paid[c] + withdrawn[c]
      BY <1>1, <2>1 DEF BookedIsBacked, ItemsOf, Item
    <3>2. betting'[c].items[i].comp = betting[c].items[i].comp
      BY <1>4
    <3>3. Pledge(c)' >= Pledge(c)
      BY <1>3, <2>4
    <3>4. QED
      BY <2>1, <2>2, <3>1, <3>2, <3>3
  <2>5. QED
    BY <2>3, <2>4
<1>7. QED
  BY <1>5, <1>6 DEF Backed, BookedIsBacked, ItemsOf, Item

(* What the organizer takes back is counted. *)
LEMMA RevokeBacked ==
  ASSUME Backed, NEW b \in Bettings, RevokeRemainCompensate(b)
  PROVE  Backed'
<1>1. TypeOK
  BY DEF Backed
<1> DEFINE remain(hit) == betting[b].total_pledge - betting[b].items[hit].comp
<1>2. PICK hit \in Hits(b) :
        /\ remain(hit) > 0
        /\ CanTransfer(PledgeAccount(b), remain(hit), Organizer)
        /\ free' = TransferToken(PledgeAccount(b), remain(hit), Organizer)
        /\ withdrawn' = [withdrawn EXCEPT ![b] = @ + remain(hit)]
        /\ revoked' = [revoked EXCEPT ![b] = TRUE]
        /\ UNCHANGED <<now, battles, next_betting, betting, records, paid, paidOn>>
  BY DEF RevokeRemainCompensate
<1>3. remain(hit) \in Nat
  <2>1. hit \in DOMAIN betting[b].items
    BY DEF Hits
  <2>2. betting[b].total_pledge \in Nat
    BY <1>1 DEF TypeOK, BettingInfo
  <2>3. QED
    BY <1>1, <1>2, <2>1, <2>2, CompNat
<1> DEFINE x == remain(hit)
<1> HIDE DEF remain
<1>4. /\ free' \in [Ledger -> Nat]
      /\ \A c \in Bettings : c # b => Pledge(c)' >= Pledge(c)
      /\ Pledge(b)' = Pledge(b) - x
  BY <1>1, <1>2, <1>3, PledgeAccounts, Transferred DEF Pledge
<1>5. TypeOK'
  <2>1. withdrawn' \in [Bettings -> Nat] /\ revoked' \in [Bettings -> BOOLEAN]
    <3>1. withdrawn \in [Bettings -> Nat] /\ revoked \in [Bettings -> BOOLEAN]
      BY <1>1 DEF TypeOK
    <3>2. withdrawn' = [withdrawn EXCEPT ![b] = @ + x]
      BY <1>2
    <3>3. withdrawn' \in [Bettings -> Nat]
      BY <1>3, <3>1, <3>2
    <3>4. revoked' \in [Bettings -> BOOLEAN]
      BY <1>2, <3>1
    <3>5. QED
      BY <3>3, <3>4
  <2>2. QED
    BY <1>1, <1>2, <1>4, <2>1 DEF TypeOK, battles, records
<1>6. \A c \in Bettings : Pledge(c) \in Nat /\ Pledge(c)' \in Nat /\ paid[c] \in Nat
                         /\ paid'[c] \in Nat /\ withdrawn[c] \in Nat
  BY <1>1, <1>5, PledgeAccounts DEF TypeOK, Pledge
<1>7. \A c \in Bettings : Pledge(c)' + paid'[c] + withdrawn'[c]
                            >= Pledge(c) + paid[c] + withdrawn[c]
  <2>1. withdrawn'[b] = withdrawn[b] + x
        /\ \A c \in Bettings : c # b => withdrawn'[c] = withdrawn[c]
    BY <1>1, <1>2 DEF TypeOK
  <2>2. paid' = paid
    BY <1>2
  <2>3. ASSUME NEW c \in Bettings
        PROVE  Pledge(c)' + paid'[c] + withdrawn'[c] >= Pledge(c) + paid[c] + withdrawn[c]
    <3>1. /\ Pledge(c) \in Nat /\ Pledge(c)' \in Nat /\ paid[c] \in Nat
          /\ paid'[c] = paid[c] /\ withdrawn[c] \in Nat
      BY <1>6, <2>2
    <3>2. CASE c = b
      BY <1>3, <1>4, <2>1, <3>1, <3>2
    <3>3. CASE c # b
      BY <1>4, <2>1, <3>1, <3>3
    <3>4. QED
      BY <3>2, <3>3
  <2>4. QED
    BY <2>3
<1>8. QED
  BY <1>2, <1>5, <1>7, BackedKept

(* A top-up, by the call or by a plain transfer. *)
LEMMA TopUpBacked ==
  ASSUME Backed, NEW u \in Accounts, NEW b \in Bettings, NEW amount \in Amounts,
         AppendBettingPledge(u, b, amount) \/ Transfer(u, b, amount)
  PROVE  Backed'
<1>1. TypeOK /\ amount \in Nat
  BY AmountAssumption DEF Backed
<1>2. /\ free' \in [Ledger -> Nat]
      /\ \A c \in Bettings : Pledge(c)' >= Pledge(c)
  <2>1. /\ CanTransfer(u, amount, PledgeAccount(b))
        /\ free' = TransferToken(u, amount, PledgeAccount(b))
    BY DEF AppendBettingPledge, Transfer
  <2>2. /\ u \in Ledger /\ PledgeAccount(b) \in Ledger
        /\ \A c \in Bettings : PledgeAccount(c) \in Ledger /\ PledgeAccount(c) # u
    BY PledgeAccounts
  <2>3. QED
    BY <1>1, <2>1, <2>2, Transferred DEF Pledge
<1>3. free'[PledgeAccount(b)] \in Nat
  BY <1>2, PledgeAccounts
<1>4. /\ betting' \in [Bettings -> BettingInfo]
      /\ \A c \in Bettings : betting'[c].items = betting[c].items
  <2>1. CASE AppendBettingPledge(u, b, amount)
    <3>1. betting' = WithPledge(b, free'[PledgeAccount(b)])
      BY <2>1 DEF AppendBettingPledge, WithPledge
    <3>2. QED
      BY <1>1, <1>3, <3>1, PledgeChanged
  <2>2. CASE Transfer(u, b, amount)
    BY <1>1, <2>2 DEF Transfer, TypeOK
  <2>3. QED
    BY <2>1, <2>2
<1>5. TypeOK'
  BY <1>1, <1>2, <1>4 DEF AppendBettingPledge, Transfer, TypeOK, battles, records, history
<1>6. \A c \in Bettings : Pledge(c) \in Nat /\ Pledge(c)' \in Nat /\ paid[c] \in Nat
                         /\ withdrawn[c] \in Nat /\ paid'[c] = paid[c] /\ withdrawn'[c] = withdrawn[c]
  BY <1>1, <1>5, PledgeAccounts DEF TypeOK, Pledge, AppendBettingPledge, Transfer, history
<1>7. \A c \in Bettings : Pledge(c)' + paid'[c] + withdrawn'[c]
                            >= Pledge(c) + paid[c] + withdrawn[c]
  BY <1>2, <1>6
<1>8. QED
  BY <1>4, <1>5, <1>7, BackedKept

(* go_bet compares the booking with the pledge account before it books. *)
LEMMA BetBacked ==
  ASSUME Backed, NEW u \in Accounts, NEW b \in Bettings, NEW i \in DOMAIN betting[b].items,
         NEW amount \in Amounts, Bet(u, b, i, amount), invited' \in [Accounts -> Nat]
  PROVE  Backed'
<1> DEFINE item == betting[b].items[i]
           add == Won(amount, item.o)
           e == Booked(item, amount, add)
<1>1. TypeOK /\ BookedIsBacked /\ amount \in Nat
  BY AmountAssumption DEF Backed
<1>2. item \in OddsItem
  BY <1>1, ItemTyped
<1>3. add \in Nat
  BY <1>1, <1>2, WonNat DEF OddsItem
<1>4. e \in OddsItem /\ e.comp = item.comp + add
  <2>1. /\ item.comp \in Nat /\ item.accounts \in Nat /\ item.buy_in \in Nat
    BY <1>2 DEF OddsItem
  <2> HIDE DEF item, add
  <2>2. item.comp + add \in Nat /\ item.accounts + 1 \in Nat /\ item.buy_in + amount \in Nat
    BY <1>1, <1>3, <2>1
  <2>3. QED
    BY <1>2, <2>2 DEF OddsItem, Booked
<1>5. betting' = WithItem(b, i, e)
  BY DEF Bet, WithItem
<1> HIDE DEF e
<1>6. /\ betting' \in [Bettings -> BettingInfo]
      /\ \A c \in Bettings : c # b => betting'[c] = betting[c]
      /\ DOMAIN betting'[b].items = DOMAIN betting[b].items
      /\ \A j \in DOMAIN betting[b].items :
           betting'[b].items[j] = IF j = i THEN e ELSE betting[b].items[j]
  BY <1>1, <1>4, <1>5, ItemChanged
<1>7. /\ free' \in [Ledger -> Nat]
      /\ \A c \in Bettings : Pledge(c)' = Pledge(c)
  <2>1. CanTransfer(u, amount, Organizer) /\ free' = TransferToken(u, amount, Organizer)
    BY DEF Bet
  <2>2. /\ u \in Ledger /\ Organizer \in Ledger
        /\ \A c \in Bettings : /\ PledgeAccount(c) \in Ledger
                               /\ PledgeAccount(c) # u /\ PledgeAccount(c) # Organizer
    BY PledgeAccounts
  <2>3. QED
    BY <1>1, <2>1, <2>2, Transferred DEF Pledge
<1>8. stake' \in [Slots -> Nat]
  <2>1. item.o \in Grades /\ i \in Items
    BY <1>1, <1>2 DEF OddsItem, TypeOK
  <2>2. stake' = [stake EXCEPT ![<<b, u, i, item.o>>] = @ + amount]
    BY Zenon DEF Bet
  <2> HIDE DEF item
  <2>3. <<b, u, i, item.o>> \in Slots /\ stake \in [Slots -> Nat]
    BY <1>1, <2>1 DEF TypeOK
  <2> HIDE DEF Slots
  <2>4. stake[<<b, u, i, item.o>>] + amount \in Nat
    BY <1>1, <2>3
  <2>5. QED
    BY <2>2, <2>3, <2>4
<1>9. TypeOK'
  BY <1>1, <1>6, <1>7, <1>8 DEF Bet, TypeOK, battles, history
<1>10. ASSUME NEW c \in Bettings, NEW j \in DOMAIN betting'[c].items
       PROVE  betting'[c].items[j].comp <= Pledge(c)' + paid'[c] + withdrawn'[c]
  <2>1. /\ Pledge(c) \in Nat /\ Pledge(c)' = Pledge(c)
        /\ paid[c] \in Nat /\ paid'[c] = paid[c]
        /\ withdrawn[c] \in Nat /\ withdrawn'[c] = withdrawn[c]
    BY <1>1, <1>7, PledgeAccounts DEF TypeOK, Pledge, Bet, history
  <2>2. CASE c = b /\ j = i
    <3>1. betting'[c].items[j].comp = item.comp + add
      BY <1>4, <1>6, <2>2
    <3>2. item.comp + add <= Pledge(b)
      BY DEF Bet, Covered
    <3>3. item.comp \in Nat
      BY <1>2 DEF OddsItem
    <3>4. QED
      BY <1>3, <2>1, <2>2, <3>1, <3>2, <3>3
  <2>3. CASE ~(c = b /\ j = i)
    <3>1. j \in DOMAIN betting[c].items /\ betting'[c].items[j] = betting[c].items[j]
      BY <1>6, <2>3
    <3>2. betting[c].items[j].comp <= Pledge(c) + paid[c] + withdrawn[c]
      BY <1>1, <3>1 DEF BookedIsBacked, ItemsOf, Item
    <3>3. QED
      BY <2>1, <3>1, <3>2
  <2>4. QED
    BY <2>2, <2>3
<1>11. QED
  BY <1>9, <1>10 DEF Backed, BookedIsBacked, ItemsOf, Item

(* What a claim pays is counted. *)
LEMMA ClaimBacked ==
  ASSUME Backed, NEW u \in Accounts, NEW b \in Bettings, BettingClaim(u, b)
  PROVE  Backed'
<1>1. TypeOK
  BY DEF Backed
<1>2. PICK hit \in Hits(b) :
        /\ CanTransfer(PledgeAccount(b), Payout(b, u, hit), u)
        /\ free' = TransferToken(PledgeAccount(b), Payout(b, u, hit), u)
        /\ paid' = [paid EXCEPT ![b] = @ + Payout(b, u, hit)]
        /\ paidOn' = [paidOn EXCEPT ![b] = IF Payout(b, u, hit) > 0 THEN @ \cup {hit} ELSE @]
  BY DEF BettingClaim
<1> DEFINE x == Payout(b, u, hit)
<1>3. hit \in Items /\ x \in Nat
  BY <1>1, HitsAreItems, PayoutNat
<1> HIDE DEF x
<1>4. /\ free' \in [Ledger -> Nat]
      /\ \A c \in Bettings : c # b => Pledge(c)' >= Pledge(c)
      /\ Pledge(b)' = Pledge(b) - x
  <2>1. /\ u \in Ledger /\ PledgeAccount(b) \in Ledger /\ PledgeAccount(b) # u
        /\ \A c \in Bettings : /\ PledgeAccount(c) \in Ledger
                               /\ c # b => PledgeAccount(c) # PledgeAccount(b)
    BY PledgeAccounts
  <2>2. CanTransfer(PledgeAccount(b), x, u) /\ free' = TransferToken(PledgeAccount(b), x, u)
    BY <1>2 DEF x
  <2>3. QED
    BY <1>1, <1>3, <2>1, <2>2, Transferred DEF Pledge
<1>5. /\ paid' \in [Bettings -> Nat] /\ paid'[b] = paid[b] + x
      /\ \A c \in Bettings : c # b => paid'[c] = paid[c]
  <2>1. paid' = [paid EXCEPT ![b] = @ + x]
    BY <1>2 DEF x
  <2>2. paid \in [Bettings -> Nat]
    BY <1>1 DEF TypeOK
  <2>3. QED
    BY <1>3, <2>1, <2>2
<1>6. paidOn' \in [Bettings -> SUBSET Items]
  BY <1>1, <1>2, <1>3 DEF TypeOK
<1>7. claimed' \in [Bettings \X Accounts -> BOOLEAN]
  BY <1>1 DEF TypeOK, BettingClaim
<1>8. TypeOK'
  BY <1>1, <1>4, <1>5, <1>6, <1>7 DEF BettingClaim, TypeOK, battles
<1>9. \A c \in Bettings : Pledge(c) \in Nat /\ Pledge(c)' \in Nat /\ paid[c] \in Nat
                         /\ withdrawn[c] \in Nat /\ withdrawn'[c] = withdrawn[c]
  BY <1>1, <1>8, PledgeAccounts DEF TypeOK, Pledge, BettingClaim
<1>10. \A c \in Bettings : Pledge(c)' + paid'[c] + withdrawn'[c]
                             >= Pledge(c) + paid[c] + withdrawn[c]
  <2>1. ASSUME NEW c \in Bettings
        PROVE  Pledge(c)' + paid'[c] + withdrawn'[c] >= Pledge(c) + paid[c] + withdrawn[c]
    <3>1. /\ Pledge(c) \in Nat /\ Pledge(c)' \in Nat /\ paid[c] \in Nat
          /\ withdrawn'[c] = withdrawn[c] /\ withdrawn[c] \in Nat
      BY <1>9
    <3>2. CASE c = b
      BY <1>3, <1>4, <1>5, <3>1, <3>2
    <3>3. CASE c # b
      BY <1>4, <1>5, <3>1, <3>3
    <3>4. QED
      BY <3>2, <3>3
  <2>2. QED
    BY <2>1
<1>11. \A c \in Bettings : betting'[c].items = betting[c].items
  BY DEF BettingClaim
<1>12. QED
  BY <1>8, <1>10, <1>11, BackedKept

-----------------------------------------------------------------------------
LEMMA InitBacked == Init => Backed
<1>1. ASSUME Init PROVE BookedIsBacked
  BY <1>1 DEF Init, NoBetting, BookedIsBacked, ItemsOf
<1>2. QED
  BY <1>1, InitTypeOK DEF Backed

LEMMA NextBacked == Backed /\ [Next]_vars => Backed'
<1> SUFFICES ASSUME Backed, [Next]_vars PROVE Backed'
  OBVIOUS
<1>1. CASE Tick
  BY <1>1, BattleCallBacked
<1>2. CASE OrganizerCall
  <2>1. ASSUME NEW type \in BattleTypes, NEW t \in StartTimes,
               CreateBattle(type, t) \/ \E m \in Battles : UpdateBattle(m, type, t)
        PROVE  Backed'
    BY <2>1, BattleCallBacked
  <2>2. ASSUME NEW m \in Battles,
               \/ \E s \in Scores : SetResult(m, s)
               \/ FinalsSettle(m)
               \/ LeagueSettle(m)
        PROVE  Backed'
    BY <2>2, BattleCallBacked
  <2>3. ASSUME NEW m \in Battles, NEW type \in {"WinLose", "Score"}, NEW list \in OddsLists,
               NEW pledge \in Amounts, CreateBetting(type, list, m, pledge)
        PROVE  Backed'
    BY <2>3, CreateBettingBacked
  <2>4. ASSUME NEW b \in Bettings, NEW i \in Items, NEW k \in Grades, UpdateOdds(b, i, k)
        PROVE  Backed'
    BY <2>4, UpdateOddsBacked
  <2>5. ASSUME NEW b \in Bettings, DropBetting(b) \/ RevokeRemainCompensate(b)
        PROVE  Backed'
    BY <2>5, DropBettingBacked, RevokeBacked
  <2>6. QED
    BY <1>2, <2>1, <2>2, <2>3, <2>4, <2>5 DEF OrganizerCall
<1>3. CASE UserCall
  <2>1. ASSUME NEW u \in Accounts, NEW b \in Bettings, NEW amount \in Amounts,
               AppendBettingPledge(u, b, amount) \/ Transfer(u, b, amount)
        PROVE  Backed'
    BY <2>1, TopUpBacked
  <2>2. ASSUME NEW u \in Accounts, NEW b \in Bettings, NEW amount \in Amounts, NEW i \in Items,
               GoBet(u, b, i, amount)
        PROVE  Backed'
    <3>1. invited' \in [Accounts -> Nat]
      BY <2>2 DEF Backed, TypeOK, GoBet
    <3>2. QED
      BY <2>2, <3>1, BetBacked DEF GoBet
  <2>3. ASSUME NEW u \in Accounts, NEW b \in Bettings, NEW amount \in Amounts, NEW i \in Items,
               NEW inviter \in Inviters, GoBetWithInvite(u, b, i, amount, inviter)
        PROVE  Backed'
    <3>1. inviter \in Accounts /\ amount \in Nat
      BY AmountAssumption
    <3>2. invited \in [Accounts -> Nat] /\ invited[inviter] + amount \in Nat
      <4>1. invited \in [Accounts -> Nat]
        BY DEF Backed, TypeOK
      <4>2. QED
        BY <3>1, <4>1
    <3>3. invited' \in [Accounts -> Nat]
      BY <2>3, <3>1, <3>2 DEF GoBetWithInvite
    <3>4. QED
      BY <2>3, <3>3, BetBacked DEF GoBetWithInvite
  <2>4. ASSUME NEW u \in Accounts, NEW b \in Bettings, BettingClaim(u, b)
        PROVE  Backed'
    BY <2>4, ClaimBacked
  <2>5. QED
    BY <1>3, <2>1, <2>2, <2>3, <2>4 DEF UserCall
<1>4. CASE UNCHANGED vars
  BY <1>4 DEF Backed, TypeOK, BookedIsBacked, ItemsOf, Item, Pledge, vars
<1>5. QED
  BY <1>1, <1>2, <1>3, <1>4 DEF Next

(* The inductive invariant: BookedIsBacked needs the types, because what   *)
(* is added to and taken from a pledge account must be a natural number.   *)
THEOREM BackedInvariant == Spec => []Backed
<1>1. Init => Backed
  BY InitBacked
<1>2. Backed /\ [Next]_vars => Backed'
  BY NextBacked
<1>3. QED
  BY <1>1, <1>2, PTL DEF Spec

(* No balance, pledge, stake or booking goes below zero. *)
THEOREM BettingTypeCorrect == Spec => []TypeOK
<1>1. Backed => TypeOK
  BY DEF Backed
<1>2. QED
  BY <1>1, BackedInvariant, PTL

(* What an item has booked is in the pledge account, unless claims or the  *)
(* organizer took it: no order of bets, odds, top-ups, results and drops   *)
(* leaves a booking that was never covered.                                *)
THEOREM BookingsAreBacked == Spec => []BookedIsBacked
<1>1. Backed => BookedIsBacked
  BY DEF Backed
<1>2. QED
  BY <1>1, BackedInvariant, PTL

-----------------------------------------------------------------------------
(* What winnings and stakes add up to. *)

(* A bet is rounded down, and so is the sum of the bets with the same odds. *)
LEMMA WonAdd ==
  ASSUME NEW s \in Nat, NEW a \in Nat, NEW k \in Grades
  PROVE  /\ Won(0, k) = 0
         /\ Won(s, k) + Won(a, k) <= Won(s + a, k)
         /\ Won(s + a, k) <= Won(s, k) + Won(a, k) + 1
<1>1. OddsValues[k] \in Nat
  BY OddsAssumption, ElementOfSeq
<1> DEFINE o == OddsValues[k]
           P == o * s
           Q == o * a
           R == o * (s + a)
           Z == o * 0
<1>2. P \in Nat /\ Q \in Nat /\ R = P + Q /\ Z = 0
  <2> HIDE DEF o
  <2>1. o \in Nat
    BY <1>1 DEF o
  <2>2. o * (s + a) = o * s + o * a /\ o * s = s * o /\ o * 0 = 0
    BY <2>1
  <2>3. o * s \in Nat /\ o * a \in Nat
    BY <2>1
  <2> QED
    BY <2>2, <2>3
<1>3. /\ Won(s, k) = P \div 100 /\ Won(a, k) = Q \div 100
      /\ Won(s + a, k) = R \div 100 /\ Won(0, k) = Z \div 100
  BY DEF Won
<1> HIDE DEF P, Q, R, Z
<1>4. \A x, y \in Nat : /\ x \div 100 + y \div 100 <= (x + y) \div 100
                        /\ (x + y) \div 100 <= x \div 100 + y \div 100 + 1
                        /\ 0 \div 100 = 0
  OBVIOUS
<1> QED
  BY <1>2, <1>3, <1>4

LEMMA StakedNat ==
  ASSUME TypeOK, NEW b \in Bettings, NEW i \in Items
  PROVE  /\ [u \in Accounts |-> Payout(b, u, i)] \in [1..NAccounts -> Nat]
         /\ TotalPayout(b, i) \in Nat
         /\ \A u \in Accounts : SumTo([k \in Grades |-> stake[b, u, i, k]], NGrades) \in Nat
         /\ Staked(b, i) \in Nat
         /\ \A u \in Accounts, k \in Grades : stake[b, u, i, k] <= Staked(b, i)
<1>1. NAccounts \in Nat /\ NGrades \in Nat
  BY CountAssumption, GradesNat
<1>2. \A u \in Accounts, k \in Grades : stake[b, u, i, k] \in Nat
  BY DEF TypeOK
<1>3. [u \in Accounts |-> Payout(b, u, i)] \in [1..NAccounts -> Nat]
  BY PayoutNat
<1>4. TotalPayout(b, i) \in Nat
  BY <1>1, <1>3, SumToNat DEF TotalPayout
<1> DEFINE f(u) == [k \in Grades |-> stake[b, u, i, k]]
           g == [u \in Accounts |-> SumTo(f(u), NGrades)]
<1>5. ASSUME NEW u \in Accounts
      PROVE  /\ SumTo(f(u), NGrades) \in Nat
             /\ \A k \in Grades : stake[b, u, i, k] <= SumTo(f(u), NGrades)
  <2>1. f(u) \in [1..NGrades -> Nat] /\ \A k \in Grades : f(u)[k] = stake[b, u, i, k]
    BY <1>2
  <2> HIDE DEF f
  <2> QED
    BY <1>1, <2>1, SumToNat
<1>6. g \in [1..NAccounts -> Nat] /\ \A u \in Accounts : g[u] = SumTo(f(u), NGrades)
  BY <1>5
<1>7. Staked(b, i) = SumTo(g, NAccounts)
  BY DEF Staked
<1> HIDE DEF f, g
<1>8. Staked(b, i) \in Nat /\ \A u \in Accounts : g[u] <= Staked(b, i)
  BY <1>1, <1>6, <1>7, SumToNat
<1>9. ASSUME NEW u \in Accounts, NEW k \in Grades PROVE stake[b, u, i, k] <= Staked(b, i)
  <2> DEFINE x == stake[b, u, i, k]
             y == SumTo(f(u), NGrades)
             z == Staked(b, i)
  <2>1. x \in Nat /\ y \in Nat /\ z \in Nat
    BY <1>2, <1>5, <1>8
  <2>2. x <= y /\ y <= z
    BY <1>5, <1>6, <1>8
  <2> HIDE DEF x, y, z
  <2>3. x <= z
    BY <2>1, <2>2
  <2> QED
    BY <2>3 DEF x, z
<1> QED
  BY <1>3, <1>4, <1>5, <1>8, <1>9 DEF f

(* What a bet adds to the stakes and the winnings of its item, and that it *)
(* adds nothing elsewhere.                                                 *)
LEMMA SlotChange ==
  ASSUME TypeOK, NEW b \in Bettings, NEW u \in Accounts, NEW i \in Items, NEW k \in Grades,
         NEW amount \in Nat, stake' = [stake EXCEPT ![<<b, u, i, k>>] = @ + amount]
  PROVE  LET s == stake[b, u, i, k]
             d == Won(s + amount, k) - Won(s, k)
         IN  /\ Payout(b, u, i)' = Payout(b, u, i) + d
             /\ TotalPayout(b, i)' = TotalPayout(b, i) + d
             /\ Staked(b, i)' = Staked(b, i) + amount
             /\ \A c \in Bettings, v \in Accounts, j \in Items :
                  ~(c = b /\ v = u /\ j = i) => Payout(c, v, j)' = Payout(c, v, j)
             /\ \A c \in Bettings, j \in Items :
                  ~(c = b /\ j = i) => /\ TotalPayout(c, j)' = TotalPayout(c, j)
                                       /\ Staked(c, j)' = Staked(c, j)
<1>0. NAccounts \in Nat /\ NGrades \in Nat
  BY CountAssumption, GradesNat
<1>1. stake \in [Slots -> Nat] /\ <<b, u, i, k>> \in Slots
  BY DEF TypeOK
<1>2. stake' \in [Slots -> Nat] /\ stake'[<<b, u, i, k>>] = stake[<<b, u, i, k>>] + amount
      /\ \A x \in Slots : x # <<b, u, i, k>> => stake'[x] = stake[x]
  <2> HIDE DEF Slots
  <2> QED
    BY <1>1
<1> DEFINE a(c, v, j, l) == stake[c, v, j, l]
           aa(c, v, j, l) == stake'[c, v, j, l]
<1>3. ASSUME NEW c \in Bettings, NEW v \in Accounts, NEW j \in Items, NEW l \in Grades
      PROVE  /\ a(c, v, j, l) \in Nat /\ aa(c, v, j, l) \in Nat
             /\ ~(c = b /\ v = u /\ j = i /\ l = k) => aa(c, v, j, l) = a(c, v, j, l)
  <2>1. <<c, v, j, l>> \in Slots
    OBVIOUS
  <2>2. ~(c = b /\ v = u /\ j = i /\ l = k) => <<c, v, j, l>> # <<b, u, i, k>>
    OBVIOUS
  <2> HIDE DEF Slots
  <2> QED
    BY <1>1, <1>2, <2>1, <2>2
<1> DEFINE s == a(b, u, i, k)
           d == Won(s + amount, k) - Won(s, k)
           t(v, j) == [l \in Grades |-> a(b, v, j, l)]
           tt(v, j) == [l \in Grades |-> aa(b, v, j, l)]
           p(v, j) == [l \in Grades |-> Won(a(b, v, j, l), l)]
           pp(v, j) == [l \in Grades |-> Won(aa(b, v, j, l), l)]
<1>4. \A c \in Bettings, v \in Accounts, j \in Items : ~(c = b /\ v = u /\ j = i) =>
         /\ Payout(c, v, j)' = Payout(c, v, j)
         /\ SumTo([l \in Grades |-> stake'[c, v, j, l]], NGrades)
              = SumTo([l \in Grades |-> stake[c, v, j, l]], NGrades)
  <2> SUFFICES ASSUME NEW c \in Bettings, NEW v \in Accounts, NEW j \in Items,
                      ~(c = b /\ v = u /\ j = i)
               PROVE  /\ [l \in Grades |-> Won(aa(c, v, j, l), l)]
                           = [l \in Grades |-> Won(a(c, v, j, l), l)]
                      /\ [l \in Grades |-> aa(c, v, j, l)] = [l \in Grades |-> a(c, v, j, l)]
    BY DEF Payout
  <2> HIDE DEF a, aa
  <2>1. \A l \in Grades : aa(c, v, j, l) = a(c, v, j, l)
    BY <1>3
  <2> QED
    BY <2>1, Zenon
<1>5. Payout(b, u, i)' = Payout(b, u, i) + d /\ d \in Int
  <2>4. Payout(b, u, i) = SumTo(p(u, i), NGrades) /\ Payout(b, u, i)' = SumTo(pp(u, i), NGrades)
    BY DEF Payout
  <2>0. aa(b, u, i, k) = s + amount
    BY <1>2
  <2> HIDE DEF a, aa
  <2>1. p(u, i) \in [1..NGrades -> Int] /\ pp(u, i) \in [1..NGrades -> Int]
    <3>1. \A l \in Grades : a(b, u, i, l) \in Nat /\ aa(b, u, i, l) \in Nat
      BY <1>3
    <3>2. \A l \in Grades : Won(a(b, u, i, l), l) \in Nat /\ Won(aa(b, u, i, l), l) \in Nat
      BY <3>1, WonNat
    <3> QED
      BY <3>2
  <2>2. \A l \in 1..NGrades : l # k => pp(u, i)[l] = p(u, i)[l]
    BY <1>3
  <2>3. k \in 1..NGrades /\ p(u, i)[k] = Won(s, k) /\ pp(u, i)[k] = Won(s + amount, k)
    BY <2>0
  <2>5. s \in Nat /\ s + amount \in Nat
    BY <1>3
  <2>6. Won(s, k) \in Nat /\ Won(s + amount, k) \in Nat
    BY <2>5, WonNat
  <2> HIDE DEF p, pp, s
  <2>7. SumTo(pp(u, i), NGrades) = SumTo(p(u, i), NGrades) + pp(u, i)[k] - p(u, i)[k]
    BY <1>0, <2>1, <2>2, <2>3, SumToChange
  <2>8. Payout(b, u, i) \in Nat
    BY PayoutNat
  <2> QED
    BY <2>3, <2>4, <2>6, <2>7, <2>8
<1>6. SumTo(tt(u, i), NGrades) = SumTo(t(u, i), NGrades) + amount
  <2>0. aa(b, u, i, k) = s + amount
    BY <1>2
  <2> HIDE DEF a, aa
  <2>1. t(u, i) \in [1..NGrades -> Int] /\ tt(u, i) \in [1..NGrades -> Int]
    BY <1>3
  <2>2. \A l \in 1..NGrades : l # k => tt(u, i)[l] = t(u, i)[l]
    BY <1>3
  <2>3. k \in 1..NGrades /\ t(u, i)[k] = s /\ tt(u, i)[k] = s + amount /\ s \in Nat
    BY <1>3, <2>0
  <2> HIDE DEF t, tt, s
  <2>4. SumTo(tt(u, i), NGrades) = SumTo(t(u, i), NGrades) + tt(u, i)[k] - t(u, i)[k]
    BY <1>0, <2>1, <2>2, <2>3, SumToChange
  <2>5. NGrades \in 0..NGrades
    BY <1>0
  <2>6. SumTo(t(u, i), NGrades) \in Int
    BY <1>0, <2>1, <2>5, SumToInt
  <2> QED
    BY <2>3, <2>4, <2>6
<1> DEFINE q == [v \in Accounts |-> Payout(b, v, i)]
           qq == [v \in Accounts |-> Payout(b, v, i)']
           r == [v \in Accounts |-> SumTo(t(v, i), NGrades)]
           rr == [v \in Accounts |-> SumTo(tt(v, i), NGrades)]
<1>7. /\ q \in [1..NAccounts -> Int] /\ r \in [1..NAccounts -> Int]
      /\ TotalPayout(b, i) \in Int /\ Staked(b, i) \in Int
  <2>1. q \in [1..NAccounts -> Nat] /\ TotalPayout(b, i) \in Nat /\ Staked(b, i) \in Nat
        /\ \A v \in Accounts : SumTo(t(v, i), NGrades) \in Nat
    BY StakedNat
  <2> HIDE DEF t
  <2> QED
    BY <2>1
<1>8. TotalPayout(b, i)' = TotalPayout(b, i) + d
  <2>1. \A v \in Accounts : v # u => Payout(b, v, i)' = Payout(b, v, i)
    BY <1>4
  <2>2. TotalPayout(b, i) = SumTo(q, NAccounts) /\ TotalPayout(b, i)' = SumTo(qq, NAccounts)
    BY DEF TotalPayout
  <2>3. \A v \in Accounts : q[v] = Payout(b, v, i) /\ qq[v] = Payout(b, v, i)'
    OBVIOUS
  <2>4. qq = [v \in Accounts |-> qq[v]] /\ u \in 1..NAccounts
    OBVIOUS
  <2> HIDE DEF q, qq, d
  <2>0. \A v \in 1..NAccounts : q[v] \in Int
    BY <1>7
  <2>5. \A v \in 1..NAccounts : qq[v] \in Int /\ (v # u => qq[v] = q[v])
    <3>1. qq[u] \in Int
      BY <1>5, <2>0, <2>3
    <3>2. ASSUME NEW v \in 1..NAccounts, v # u PROVE qq[v] = q[v]
      BY <2>1, <2>3, <3>2
    <3> QED
      BY <2>0, <3>1, <3>2
  <2>6. qq \in [1..NAccounts -> Int]
    BY <2>4, <2>5
  <2>7. SumTo(qq, NAccounts) = SumTo(q, NAccounts) + qq[u] - q[u]
    BY <1>0, <1>7, <2>4, <2>5, <2>6, SumToChange
  <2>8. qq[u] = q[u] + d /\ q[u] \in Int
    BY <1>5, <1>7, <2>3
  <2> DEFINE x == q[u]
             y == qq[u]
             w == SumTo(q, NAccounts)
  <2>9. y = x + d /\ x \in Int /\ w \in Int /\ d \in Int
    BY <1>5, <1>7, <2>2, <2>8
  <2>10. TotalPayout(b, i)' = w + y - x /\ TotalPayout(b, i) = w
    BY <2>2, <2>7
  <2> HIDE DEF x, y, w
  <2> QED
    BY <2>9, <2>10
<1>9. Staked(b, i)' = Staked(b, i) + amount
  <2>1. \A v \in Accounts : v # u => SumTo(tt(v, i), NGrades) = SumTo(t(v, i), NGrades)
    BY <1>4
  <2>2. Staked(b, i) = SumTo(r, NAccounts) /\ Staked(b, i)' = SumTo(rr, NAccounts)
    BY DEF Staked
  <2>3. \A v \in Accounts : r[v] = SumTo(t(v, i), NGrades) /\ rr[v] = SumTo(tt(v, i), NGrades)
    OBVIOUS
  <2>4. rr = [v \in Accounts |-> rr[v]] /\ u \in 1..NAccounts
    OBVIOUS
  <2> HIDE DEF r, rr, t, tt
  <2>0. \A v \in 1..NAccounts : r[v] \in Int
    BY <1>7
  <2>5. \A v \in 1..NAccounts : rr[v] \in Int /\ (v # u => rr[v] = r[v])
    <3>1. rr[u] \in Int
      BY <1>6, <2>0, <2>3
    <3>2. ASSUME NEW v \in 1..NAccounts, v # u PROVE rr[v] = r[v]
      BY <2>1, <2>3, <3>2
    <3> QED
      BY <2>0, <3>1, <3>2
  <2>6. rr \in [1..NAccounts -> Int]
    BY <2>4, <2>5
  <2>7. SumTo(rr, NAccounts) = SumTo(r, NAccounts) + rr[u] - r[u]
    BY <1>0, <1>7, <2>4, <2>5, <2>6, SumToChange
  <2>8. rr[u] = r[u] + amount /\ r[u] \in Int
    BY <1>6, <1>7, <2>3
  <2> QED
    BY <1>7, <2>2, <2>7, <2>8
<1>10. \A c \in Bettings, j \in Items : ~(c = b /\ j = i) =>
         TotalPayout(c, j)' = TotalPayout(c, j) /\ Staked(c, j)' = Staked(c, j)
  <2> SUFFICES ASSUME NEW c \in Bettings, NEW j \in Items, ~(c = b /\ j = i)
               PROVE  /\ [v \in Accounts |-> Payout(c, v, j)'] = [v \in Accounts |-> Payout(c, v, j)]
                      /\ [v \in Accounts |-> SumTo([l \in Grades |-> stake'[c, v, j, l]], NGrades)]
                           = [v \in Accounts |-> SumTo([l \in Grades |-> stake[c, v, j, l]], NGrades)]
    BY DEF TotalPayout, Staked
  <2>1. \A v \in Accounts :
           /\ Payout(c, v, j)' = Payout(c, v, j)
           /\ SumTo([l \in Grades |-> stake'[c, v, j, l]], NGrades)
                = SumTo([l \in Grades |-> stake[c, v, j, l]], NGrades)
    BY <1>4
  <2> QED
    BY <2>1, Zenon
<1> HIDE DEF d
<1>11. QED
  BY <1>4, <1>5, <1>8, <1>9, <1>10 DEF d

LEMMA PayoutGrows ==
  ASSUME TypeOK, NEW b \in Bettings, NEW u \in Accounts, NEW i \in Items, NEW k \in Grades,
         NEW amount \in Nat, stake' = [stake EXCEPT ![<<b, u, i, k>>] = @ + amount]
  PROVE  \A x \in Bettings, y \in Accounts, z \in Items :
           Payout(x, y, z)' \in Nat /\ Payout(x, y, z) <= Payout(x, y, z)'
<1>0. LET s0 == stake[b, u, i, k]
            d0 == Won(s0 + amount, k) - Won(s0, k)
        IN  /\ Payout(b, u, i)' = Payout(b, u, i) + d0
            /\ TotalPayout(b, i)' = TotalPayout(b, i) + d0
            /\ Staked(b, i)' = Staked(b, i) + amount
            /\ \A c \in Bettings, v \in Accounts, j \in Items :
                 ~(c = b /\ v = u /\ j = i) => Payout(c, v, j)' = Payout(c, v, j)
            /\ \A c \in Bettings, j \in Items :
                 ~(c = b /\ j = i) => /\ TotalPayout(c, j)' = TotalPayout(c, j)
                                      /\ Staked(c, j)' = Staked(c, j)
  BY SlotChange, Zenon
<1> TAKE x \in Bettings, y \in Accounts, z \in Items
<1> DEFINE s == stake[b, u, i, k]
           d == Won(s + amount, k) - Won(s, k)
<1>1. /\ Payout(b, u, i)' = Payout(b, u, i) + d
      /\ ~(x = b /\ y = u /\ z = i) => Payout(x, y, z)' = Payout(x, y, z)
  BY <1>0, Zenon
<1>2. d \in Nat
  <2>1. s \in Nat
    BY DEF TypeOK
  <2> HIDE DEF s
  <2>2. s + amount \in Nat
    BY <2>1
  <2>3. Won(s, k) \in Nat /\ Won(amount, k) \in Nat /\ Won(s + amount, k) \in Nat
    BY <2>1, <2>2, WonNat
  <2>4. Won(s, k) + Won(amount, k) <= Won(s + amount, k)
    BY <2>1, WonAdd
  <2> QED
    BY <2>3, <2>4
<1>3. Payout(x, y, z) \in Nat
  BY PayoutNat
<1> HIDE DEF d
<1>4. CASE x = b /\ y = u /\ z = i
  BY <1>1, <1>2, <1>3, <1>4
<1>5. CASE ~(x = b /\ y = u /\ z = i)
  BY <1>1, <1>3, <1>5
<1> QED
  BY <1>4, <1>5

-----------------------------------------------------------------------------
(* The kinds of steps. *)

(* A step that changes no booking and no stake. *)
Quiet ==
    /\ UNCHANGED <<next_betting, stake>>
    /\ \A c \in Bettings : /\ betting'[c].type = betting[c].type
                           /\ DOMAIN betting'[c].items = DOMAIN betting[c].items
    /\ \A c \in Bettings : \A i \in ItemsOf(c) :
         /\ betting'[c].items[i].out = betting[c].items[i].out
         /\ betting'[c].items[i].comp = betting[c].items[i].comp
         /\ betting'[c].items[i].accounts = betting[c].items[i].accounts
         /\ betting'[c].items[i].buy_in = betting[c].items[i].buy_in

LEMMA UpdateOddsQuiet ==
  ASSUME TypeOK, NEW b \in Bettings, NEW i \in Items, NEW k \in Grades, UpdateOdds(b, i, k)
  PROVE  Quiet
<1> DEFINE e == [betting[b].items[i] EXCEPT !.o = k]
<1>1. i \in DOMAIN betting[b].items
  BY DEF UpdateOdds
<1>2. betting[b].items[i] \in OddsItem
  BY <1>1, ItemTyped
<1>3. /\ e \in OddsItem /\ e.comp = betting[b].items[i].comp /\ e.out = betting[b].items[i].out
      /\ e.accounts = betting[b].items[i].accounts /\ e.buy_in = betting[b].items[i].buy_in
  BY <1>2 DEF OddsItem
<1>4. betting' = WithItem(b, i, e)
  BY DEF UpdateOdds, WithItem
<1> HIDE DEF e
<1>5. /\ \A c \in Bettings : c # b => betting'[c] = betting[c]
      /\ DOMAIN betting'[b].items = DOMAIN betting[b].items
      /\ \A j \in DOMAIN betting[b].items :
           betting'[b].items[j] = IF j = i THEN e ELSE betting[b].items[j]
      /\ betting'[b].type = betting[b].type
  BY <1>1, <1>3, <1>4, ItemChanged
<1>6. UNCHANGED <<next_betting, stake>>
  BY DEF UpdateOdds, records
<1> QED
  BY <1>3, <1>5, <1>6 DEF Quiet, ItemsOf

LEMMA StepKinds ==
  ASSUME TypeOK, [Next]_vars
  PROVE  \/ Quiet
         \/ \E type \in {"WinLose", "Score"}, list \in OddsLists, m \in Battles, pledge \in Amounts :
              CreateBetting(type, list, m, pledge)
         \/ \E u \in Accounts, b \in Bettings, amount \in Amounts :
              \E i \in DOMAIN betting[b].items : Exists(b) /\ Bet(u, b, i, amount)
<1>0. ASSUME UNCHANGED <<next_betting, stake, betting>> PROVE Quiet
  BY <1>0 DEF Quiet, ItemsOf
<1>1. ASSUME NEW b \in Bettings, NEW n \in Nat, betting' = WithPledge(b, n),
             UNCHANGED <<next_betting, stake>>
      PROVE  Quiet
  BY <1>1, PledgeChanged DEF Quiet, ItemsOf
<1>2. CASE Tick \/ UNCHANGED vars
  BY <1>0, <1>2 DEF Tick, records, vars
<1>3. CASE OrganizerCall
  <2>1. ASSUME NEW type \in BattleTypes, NEW t \in StartTimes,
               CreateBattle(type, t) \/ \E m \in Battles : UpdateBattle(m, type, t)
        PROVE  Quiet
    BY <1>0, <2>1 DEF CreateBattle, UpdateBattle, records
  <2>2. ASSUME NEW m \in Battles,
               \/ \E s \in Scores : SetResult(m, s)
               \/ FinalsSettle(m)
               \/ LeagueSettle(m)
        PROVE  Quiet
    BY <1>0, <2>2 DEF SetResult, FinalsSettle, LeagueSettle, Finalize, records
  <2>3. ASSUME NEW b \in Bettings, DropBetting(b) \/ RevokeRemainCompensate(b)
        PROVE  Quiet
    <3>1. CASE DropBetting(b)
      <4>1. betting' = WithPledge(b, 0) /\ 0 \in Nat /\ UNCHANGED <<next_betting, stake>>
        BY <3>1 DEF DropBetting, WithPledge, records
      <4> QED
        BY <1>1, <4>1
    <3>2. CASE RevokeRemainCompensate(b)
      BY <1>0, <3>2 DEF RevokeRemainCompensate, records
    <3> QED
      BY <2>3, <3>1, <3>2
  <2> QED
    BY <1>3, <2>1, <2>2, <2>3, UpdateOddsQuiet DEF OrganizerCall
<1>4. CASE UserCall
  <2>1. ASSUME NEW u \in Accounts, NEW b \in Bettings, NEW amount \in Amounts,
               AppendBettingPledge(u, b, amount) \/ Transfer(u, b, amount)
        PROVE  Quiet
    <3>1. CASE AppendBettingPledge(u, b, amount)
      <4>1. amount \in Nat /\ CanTransfer(u, amount, PledgeAccount(b))
            /\ free' = TransferToken(u, amount, PledgeAccount(b))
        BY <3>1, AmountAssumption DEF AppendBettingPledge
      <4>2. free'[PledgeAccount(b)] \in Nat
        <5>1. u \in Ledger /\ PledgeAccount(b) \in Ledger
          BY PledgeAccounts
        <5>2. free' \in [Ledger -> Nat]
          BY <4>1, <5>1, Transferred
        <5> QED
          BY <5>1, <5>2
      <4>3. betting' = WithPledge(b, free'[PledgeAccount(b)]) /\ UNCHANGED <<next_betting, stake>>
        BY <3>1 DEF AppendBettingPledge, WithPledge, records
      <4> QED
        BY <1>1, <4>2, <4>3
    <3>2. CASE Transfer(u, b, amount)
      BY <1>0, <3>2 DEF Transfer, records
    <3> QED
      BY <2>1, <3>1, <3>2
  <2>2. ASSUME NEW u \in Accounts, NEW b \in Bettings, BettingClaim(u, b)
        PROVE  Quiet
    BY <1>0, <2>2 DEF BettingClaim
  <2> QED
    BY <1>4, <2>1, <2>2 DEF UserCall, GoBet, GoBetWithInvite
<1> QED
  BY <1>2, <1>3, <1>4 DEF Next

(* Whatever a step does to the balances is one transfer that can be made. *)
LEMMA StepsMove ==
  ASSUME TypeOK, [Next]_vars
  PROVE  \/ free' = free
         \/ \E from \in Ledger, to \in Ledger, amount \in Nat :
              CanTransfer(from, amount, to) /\ free' = TransferToken(from, amount, to)
<1> DEFINE move(from, amount, to) ==
             CanTransfer(from, amount, to) /\ free' = TransferToken(from, amount, to)
           goal == \/ free' = free
                   \/ \E from \in Ledger, to \in Ledger, amount \in Nat : move(from, amount, to)
<1>0. Amounts \subseteq Nat /\ Organizer \in Ledger /\ Accounts \subseteq Ledger
      /\ \A b \in Bettings : PledgeAccount(b) \in Ledger /\ Pledge(b) \in Nat
  BY AmountAssumption, PledgeAccounts DEF TypeOK, Pledge
<1>1. CASE Tick \/ UNCHANGED vars
  BY <1>1 DEF Tick, vars
<1>2. CASE OrganizerCall
  <2>1. ASSUME NEW type \in BattleTypes, NEW t \in StartTimes,
               CreateBattle(type, t) \/ \E m \in Battles : UpdateBattle(m, type, t)
        PROVE  goal
    BY <2>1 DEF CreateBattle, UpdateBattle
  <2>2. ASSUME NEW m \in Battles,
               \/ \E s \in Scores : SetResult(m, s)
               \/ FinalsSettle(m)
               \/ LeagueSettle(m)
        PROVE  goal
    BY <2>2 DEF SetResult, FinalsSettle, LeagueSettle, Finalize
  <2>3. ASSUME NEW m \in Battles, NEW type \in {"WinLose", "Score"}, NEW list \in OddsLists,
               NEW pledge \in Amounts, CreateBetting(type, list, m, pledge)
        PROVE  goal
    <3>1. next_betting \in Bettings /\ move(Organizer, pledge, PledgeAccount(next_betting))
      BY <2>3 DEF CreateBetting
    <3> HIDE DEF move
    <3> QED
      BY <1>0, <3>1
  <2>4. ASSUME NEW b \in Bettings, NEW i \in Items, NEW k \in Grades, UpdateOdds(b, i, k)
        PROVE  goal
    BY <2>4 DEF UpdateOdds
  <2>5. ASSUME NEW b \in Bettings, DropBetting(b) PROVE goal
    <3>1. move(PledgeAccount(b), Pledge(b), Organizer)
      BY <1>0, <2>5 DEF DropBetting, CanTransfer, Pledge
    <3> HIDE DEF move
    <3> QED
      BY <1>0, <3>1
  <2>6. ASSUME NEW b \in Bettings, RevokeRemainCompensate(b) PROVE goal
    <3>1. PICK hit \in Hits(b) :
            LET remain == betting[b].total_pledge - betting[b].items[hit].comp
            IN  remain > 0 /\ move(PledgeAccount(b), remain, Organizer)
      BY <2>6 DEF RevokeRemainCompensate
    <3> DEFINE remain == betting[b].total_pledge - betting[b].items[hit].comp
    <3>2. hit \in DOMAIN betting[b].items
      BY DEF Hits
    <3>3. betting[b].total_pledge \in Nat /\ betting[b].items[hit].comp \in Nat
      BY <3>2, CompNat DEF TypeOK, BettingInfo
    <3>4. remain \in Nat /\ move(PledgeAccount(b), remain, Organizer)
      BY <3>1, <3>3
    <3> HIDE DEF move, remain
    <3> QED
      BY <1>0, <3>4
  <2> QED
    BY <1>2, <2>1, <2>2, <2>3, <2>4, <2>5, <2>6 DEF OrganizerCall
<1>3. CASE UserCall
  <2>1. ASSUME NEW u \in Accounts, NEW b \in Bettings, NEW amount \in Amounts,
               AppendBettingPledge(u, b, amount) \/ Transfer(u, b, amount)
        PROVE  goal
    <3>1. move(u, amount, PledgeAccount(b))
      BY <2>1 DEF AppendBettingPledge, Transfer
    <3> HIDE DEF move
    <3> QED
      BY <1>0, <3>1
  <2>2. ASSUME NEW u \in Accounts, NEW b \in Bettings, NEW i \in Items, NEW amount \in Amounts,
               Bet(u, b, i, amount)
        PROVE  goal
    <3>1. move(u, amount, Organizer)
      BY <2>2 DEF Bet
    <3> HIDE DEF move
    <3> QED
      BY <1>0, <3>1
  <2>3. ASSUME NEW u \in Accounts, NEW b \in Bettings, BettingClaim(u, b)
        PROVE  goal
    <3>1. PICK hit \in Hits(b) : move(PledgeAccount(b), Payout(b, u, hit), u)
      BY <2>3 DEF BettingClaim
    <3>2. Payout(b, u, hit) \in Nat
      BY HitsAreItems, PayoutNat
    <3> HIDE DEF move
    <3> QED
      BY <1>0, <3>1, <3>2
  <2> QED
    BY <1>3, <2>1, <2>2, <2>3 DEF UserCall, GoBet, GoBetWithInvite
<1> QED
  BY <1>1, <1>2, <1>3 DEF Next

LEMMA TransferKeepsSum ==
  ASSUME TypeOK, NEW from \in Ledger, NEW to \in Ledger, NEW amount \in Nat,
         CanTransfer(from, amount, to)
  PROVE  SumTo(TransferToken(from, amount, to), NLedger) = SumTo(free, NLedger)
<1> DEFINE f == TransferToken(from, amount, to)
<1>1. CASE from = to
  BY <1>1 DEF TransferToken
<1>2. CASE from # to
  <2>1. free \in [Ledger -> Nat] /\ f \in [Ledger -> Nat]
    BY Transferred DEF TypeOK
  <2>2. f[from] = free[from] - amount /\ f[to] = free[to] + amount
        /\ \A x \in Ledger : x # from /\ x # to => f[x] = free[x]
    BY <1>2, <2>1 DEF TransferToken
  <2>3. NLedger \in Nat /\ NLedger \in 0..NLedger
    BY CountAssumption
  <2> HIDE DEF f, NLedger
  <2>4. free \in [1..NLedger -> Int] /\ f \in [1..NLedger -> Int]
    BY <2>1
  <2>5. SumTo(f, NLedger) = SumTo(free, NLedger) + f[from] - free[from] + f[to] - free[to]
    BY <1>2, <2>2, <2>3, <2>4, SumToChangeTwo
  <2>6. SumTo(free, NLedger) \in Int
    BY <2>3, <2>4, SumToInt
  <2>7. free[from] \in Int /\ free[to] \in Int
    BY <2>4
  <2> QED
    BY <2>2, <2>5, <2>6, <2>7 DEF f
<1> QED
  BY <1>1, <1>2

LEMMA InitConservation == Init => Conservation
<1> SUFFICES ASSUME Init PROVE Conservation
  OBVIOUS
<1>1. Funds \in [1..NAccounts -> Int] /\ NAccounts \in Nat /\ NLedger \in Nat /\ NAccounts <= NLedger
  BY AmountAssumption, CountAssumption
<1>2. /\ free \in [Ledger -> Nat]
      /\ \A x \in 1..NAccounts : free[x] = Funds[x]
      /\ \A x \in 1..NLedger : x > NAccounts => free[x] = 0
  BY InitTypeOK, CountAssumption DEF Init, TypeOK
<1> HIDE DEF NLedger
<1>3. free \in [1..NLedger -> Int]
  BY <1>2
<1>4. SumTo(free, NLedger) = SumTo(free, NAccounts)
  BY <1>1, <1>2, <1>3, SumToPad
<1>5. SumTo(free, NAccounts) = SumTo(Funds, NAccounts)
  BY <1>1, <1>2, <1>3, SumToAgree
<1> QED
  BY <1>4, <1>5 DEF Conservation

LEMMA StepConserves ==
  ASSUME TypeOK, Conservation, [Next]_vars
  PROVE  Conservation'
<1>1. SumTo(free, NLedger)' = SumTo(free, NLedger)
  BY StepsMove, TransferKeepsSum
<1> QED
  BY <1>1 DEF Conservation

-----------------------------------------------------------------------------
(* The books of a betting match its records. *)

(* No stake is kept for a betting before it is created. *)
Fresh ==
    /\ \A b \in Bettings, u \in Accounts, i \in Items, k \in Grades :
         b >= next_betting => stake[b, u, i, k] = 0
    /\ \A b \in Bettings : Exists(b) => b < next_betting

(* An item without bets has no buy-in. *)
Untouched ==
    \A b \in Bettings : \A i \in ItemsOf(b) : Item(b, i).accounts = 0 => Item(b, i).buy_in = 0

(* Every outcome can be bet on once. *)
Distinct ==
    \A b \in Bettings : \A i, j \in ItemsOf(b) : Item(b, i).out = Item(b, j).out => i = j

Matched == TypeOK /\ BooksMatchRecords /\ Fresh /\ Untouched /\ Distinct

LEMMA InitMatched == Init => Matched
<1> SUFFICES ASSUME Init PROVE Matched
  OBVIOUS
<1>1. \A b \in Bettings : ItemsOf(b) = {} /\ ~Exists(b)
  BY DEF Init, NoBetting, ItemsOf, Exists
<1>2. BooksMatchRecords /\ Untouched /\ Distinct
  BY <1>1 DEF BooksMatchRecords, Untouched, Distinct
<1>3. Fresh
  BY <1>1 DEF Fresh, Init
<1> QED
  BY <1>2, <1>3, InitTypeOK DEF Matched

LEMMA QuietMatched ==
  ASSUME Matched, Quiet, TypeOK'
  PROVE  Matched'
<1>1. stake' = stake /\ next_betting' = next_betting
  BY DEF Quiet
<1>2. \A b \in Bettings, i \in Items : TotalPayout(b, i)' = TotalPayout(b, i) /\ Staked(b, i)' = Staked(b, i)
  BY <1>1 DEF TotalPayout, Payout, Staked
<1>3. \A b \in Bettings : ItemsOf(b)' = ItemsOf(b) /\ ItemsOf(b) \subseteq Items
                         /\ Exists(b)' = Exists(b)
  BY DEF Quiet, ItemsOf, Exists, Matched, TypeOK
<1>4. \A b \in Bettings : \A i \in ItemsOf(b) :
        /\ Item(b, i)'.out = Item(b, i).out /\ Item(b, i)'.comp = Item(b, i).comp
        /\ Item(b, i)'.accounts = Item(b, i).accounts /\ Item(b, i)'.buy_in = Item(b, i).buy_in
  BY DEF Quiet, Item
<1>5. BooksMatchRecords'
  <2> SUFFICES ASSUME NEW b \in Bettings, NEW i \in ItemsOf(b)
               PROVE  /\ Item(b, i)'.comp <= TotalPayout(b, i)'
                      /\ IF Item(b, i)'.accounts = 0 THEN TotalPayout(b, i)' = 0
                         ELSE TotalPayout(b, i)' < Item(b, i)'.comp + Item(b, i)'.accounts
                      /\ Item(b, i)'.buy_in = Staked(b, i)'
    BY <1>3 DEF BooksMatchRecords
  <2>1. /\ Item(b, i).comp <= TotalPayout(b, i)
        /\ IF Item(b, i).accounts = 0 THEN TotalPayout(b, i) = 0
           ELSE TotalPayout(b, i) < Item(b, i).comp + Item(b, i).accounts
        /\ Item(b, i).buy_in = Staked(b, i)
    BY DEF Matched, BooksMatchRecords
  <2>2. i \in Items
    BY <1>3
  <2>3. /\ Item(b, i)'.comp = Item(b, i).comp /\ Item(b, i)'.accounts = Item(b, i).accounts
        /\ Item(b, i)'.buy_in = Item(b, i).buy_in
        /\ TotalPayout(b, i)' = TotalPayout(b, i) /\ Staked(b, i)' = Staked(b, i)
    BY <1>2, <1>4, <2>2
  <2> QED
    BY <2>1, <2>3, Zenon
<1>6. Untouched' /\ Distinct'
  BY <1>3, <1>4 DEF Matched, Untouched, Distinct
<1>7. Fresh'
  BY <1>1, <1>3 DEF Matched, Fresh
<1> QED
  BY <1>5, <1>6, <1>7 DEF Matched

(* A new betting has no stake yet, and one item for each outcome. *)
LEMMA CreateMatched ==
  ASSUME Matched, TypeOK', NEW type \in {"WinLose", "Score"}, NEW list \in OddsLists,
         NEW m \in Battles, NEW pledge \in Amounts, CreateBetting(type, list, m, pledge),
         NEW n \in Bettings, n = next_betting
  PROVE  Matched'
<1> DEFINE its == [i \in DOMAIN list |->
                    [out |-> list[i].out, o |-> list[i].o, comp |-> 0, accounts |-> 0, buy_in |-> 0]]
           r == [battle |-> m, type |-> type, total_pledge |-> pledge, items |-> its]
<1>1. TypeOK /\ next_betting' = n + 1 /\ stake' = stake
  BY DEF Matched, CreateBetting, records
<1>2. betting' = [betting EXCEPT ![n] = r]
  BY DEF CreateBetting
<1>3. betting'[n] = r /\ \A b \in Bettings : b # n => betting'[b] = betting[b]
  BY <1>1, <1>2 DEF TypeOK
<1>4. \A b \in Bettings : b # n => /\ ItemsOf(b)' = ItemsOf(b) /\ Exists(b)' = Exists(b)
                                   /\ \A i \in ItemsOf(b) : Item(b, i)' = Item(b, i)
  BY <1>3 DEF ItemsOf, Exists, Item
<1>5. /\ ItemsOf(n)' = DOMAIN list
      /\ \A i \in DOMAIN list : /\ Item(n, i)'.out = list[i].out /\ Item(n, i)'.comp = 0
                                /\ Item(n, i)'.accounts = 0 /\ Item(n, i)'.buy_in = 0
  <2>1. ItemsOf(n)' = DOMAIN its /\ DOMAIN its = DOMAIN list
    BY <1>3 DEF ItemsOf
  <2>2. ASSUME NEW i \in DOMAIN list
        PROVE  Item(n, i)' = [out |-> list[i].out, o |-> list[i].o, comp |-> 0,
                              accounts |-> 0, buy_in |-> 0]
    BY <1>3, <2>2 DEF Item
  <2> HIDE DEF its
  <2> QED
    BY <2>1, <2>2
<1>6. \A b \in Bettings, i \in Items : TotalPayout(b, i)' = TotalPayout(b, i) /\ Staked(b, i)' = Staked(b, i)
  BY <1>1 DEF TotalPayout, Payout, Staked
<1>7. ASSUME NEW i \in Items PROVE TotalPayout(n, i) = 0 /\ Staked(n, i) = 0
  <2>0. NAccounts \in Nat /\ NGrades \in Nat /\ n >= next_betting
    BY <1>1, CountAssumption, GradesNat DEF TypeOK
  <2>1. ASSUME NEW u \in Accounts
        PROVE  /\ Payout(n, u, i) = 0
               /\ SumTo([k \in Grades |-> stake[n, u, i, k]], NGrades) = 0
    <3> DEFINE f == [k \in Grades |-> Won(stake[n, u, i, k], k)]
               g == [k \in Grades |-> stake[n, u, i, k]]
    <3>1. \A k \in Grades : stake[n, u, i, k] = 0
      BY <1>1, <2>0 DEF Matched, Fresh
    <3>2. \A k \in Grades : Won(0, k) = 0
      BY WonAdd
    <3>3. f = [k \in Grades |-> 0] /\ g = [k \in Grades |-> 0]
      BY <3>1, <3>2
    <3> HIDE DEF f, g
    <3>4. f \in [1..NGrades -> Int] /\ \A k \in 1..NGrades : f[k] = 0
      BY <3>3
    <3>5. SumTo(f, NGrades) = 0 /\ f = g
      BY <2>0, <3>3, <3>4, SumToZeros
    <3> QED
      BY <3>5 DEF Payout, f, g
  <2> DEFINE p == [u \in Accounts |-> Payout(n, u, i)]
             q == [u \in Accounts |-> SumTo([k \in Grades |-> stake[n, u, i, k]], NGrades)]
  <2>2. p = [u \in Accounts |-> 0] /\ q = [u \in Accounts |-> 0]
    BY <2>1
  <2>3. TotalPayout(n, i) = SumTo(p, NAccounts) /\ Staked(n, i) = SumTo(q, NAccounts)
    BY DEF TotalPayout, Staked
  <2> HIDE DEF p, q
  <2>4. p \in [1..NAccounts -> Int] /\ \A u \in 1..NAccounts : p[u] = 0
    BY <2>2
  <2>5. SumTo(p, NAccounts) = 0 /\ p = q
    BY <2>0, <2>2, <2>4, SumToZeros
  <2> QED
    BY <2>3, <2>5
<1>8. DOMAIN list \subseteq Items /\ \A i, j \in DOMAIN list : i # j => list[i].out # list[j].out
  <2>1. DOMAIN betting'[n].items \subseteq Items
    BY <1>1 DEF TypeOK
  <2>2. Check(type, list)
    BY DEF CreateBetting
  <2> QED
    BY <1>3, <2>1, <2>2 DEF Check
<1> HIDE DEF its, r
<1>9. ASSUME NEW b \in Bettings, NEW i \in ItemsOf(b)'
      PROVE  /\ Item(b, i)'.comp <= TotalPayout(b, i)'
             /\ IF Item(b, i)'.accounts = 0 THEN TotalPayout(b, i)' = 0
                ELSE TotalPayout(b, i)' < Item(b, i)'.comp + Item(b, i)'.accounts
             /\ Item(b, i)'.buy_in = Staked(b, i)'
             /\ Item(b, i)'.accounts = 0 => Item(b, i)'.buy_in = 0
  <2>1. CASE b = n
    <3>1. i \in DOMAIN list /\ i \in Items
      BY <1>5, <1>8, <2>1
    <3>2. TotalPayout(b, i)' = 0 /\ Staked(b, i)' = 0
      BY <1>1, <1>6, <1>7, <2>1, <3>1
    <3>3. Item(b, i)'.comp = 0 /\ Item(b, i)'.accounts = 0 /\ Item(b, i)'.buy_in = 0
      BY <1>5, <2>1, <3>1
    <3> QED
      BY <3>2, <3>3
  <2>2. CASE b # n
    <3>1. i \in ItemsOf(b) /\ i \in Items /\ Item(b, i)' = Item(b, i)
          /\ TotalPayout(b, i)' = TotalPayout(b, i) /\ Staked(b, i)' = Staked(b, i)
      <4>1. i \in ItemsOf(b) /\ Item(b, i)' = Item(b, i)
        BY <1>4, <2>2
      <4>2. i \in Items
        BY <1>1, <4>1 DEF TypeOK, ItemsOf
      <4> QED
        BY <1>6, <4>1, <4>2
    <3>2. /\ Item(b, i).comp <= TotalPayout(b, i)
          /\ IF Item(b, i).accounts = 0 THEN TotalPayout(b, i) = 0
             ELSE TotalPayout(b, i) < Item(b, i).comp + Item(b, i).accounts
          /\ Item(b, i).buy_in = Staked(b, i)
          /\ Item(b, i).accounts = 0 => Item(b, i).buy_in = 0
      BY <3>1 DEF Matched, BooksMatchRecords, Untouched
    <3> QED
      BY <3>1, <3>2, Zenon
  <2> QED
    BY <2>1, <2>2
<1>10. BooksMatchRecords' /\ Untouched'
  BY <1>9 DEF BooksMatchRecords, Untouched
<1>11. Distinct'
  <2> SUFFICES ASSUME NEW b \in Bettings, NEW i \in ItemsOf(b)', NEW j \in ItemsOf(b)',
                      Item(b, i)'.out = Item(b, j)'.out
               PROVE  i = j
    BY DEF Distinct
  <2>1. CASE b = n
    <3>1. i \in DOMAIN list /\ j \in DOMAIN list
      BY <1>5, <2>1
    <3>2. Item(b, i)'.out = list[i].out /\ Item(b, j)'.out = list[j].out
      BY <1>5, <2>1, <3>1
    <3> QED
      BY <1>8, <3>1, <3>2
  <2>2. CASE b # n
    BY <1>4, <2>2 DEF Matched, Distinct
  <2> QED
    BY <2>1, <2>2
<1>12. Fresh'
  <2>1. next_betting \in Nat /\ \A b \in Bettings : b >= n + 1 => b >= next_betting
    BY DEF TypeOK, Matched
  <2>2. ASSUME NEW b \in Bettings, NEW u \in Accounts, NEW i \in Items, NEW k \in Grades,
               b >= next_betting'
        PROVE  stake'[b, u, i, k] = 0
    <3>1. b >= next_betting
      BY <1>1, <2>1, <2>2
    <3> QED
      BY <1>1, <3>1 DEF Matched, Fresh
  <2>3. ASSUME NEW b \in Bettings, Exists(b)' PROVE b < next_betting'
    <3>1. CASE b = n
      BY <1>1, <2>1, <3>1
    <3>2. CASE b # n
      <4>1. b < next_betting
        BY <1>4, <2>3, <3>2 DEF Matched, Fresh
      <4> QED
        BY <1>1, <2>1, <4>1
    <3> QED
      BY <3>1, <3>2
  <2> QED
    BY <2>2, <2>3 DEF Fresh
<1> QED
  BY <1>10, <1>11, <1>12 DEF Matched

(* A bet books what it wins, rounded down, and adds its stake to the       *)
(* record; the first bet on an item finds no stake to be rounded with.     *)
LEMMA BetMatched ==
  ASSUME Matched, TypeOK', NEW u \in Accounts, NEW b \in Bettings, NEW amount \in Nat,
         NEW i \in DOMAIN betting[b].items, Exists(b), Bet(u, b, i, amount)
  PROVE  Matched'
<1> DEFINE item == betting[b].items[i]
           add == Won(amount, item.o)
           e == Booked(item, amount, add)
<1>1. TypeOK /\ i \in Items /\ item \in OddsItem
  BY ItemTyped DEF Matched, TypeOK
<1>2. item.o \in Grades /\ item.comp \in Nat /\ item.accounts \in Nat /\ item.buy_in \in Nat
  BY <1>1 DEF OddsItem
<1>3. add \in Nat
  BY <1>2, WonNat
<1>4. /\ e \in OddsItem /\ e.comp = item.comp + add /\ e.accounts = item.accounts + 1
      /\ e.buy_in = item.buy_in + amount /\ e.out = item.out
  <2> HIDE DEF item, add
  <2>1. item.comp + add \in Nat /\ item.accounts + 1 \in Nat /\ item.buy_in + amount \in Nat
    BY <1>2, <1>3
  <2> QED
    BY <1>1, <2>1 DEF OddsItem, Booked
<1>5. betting' = WithItem(b, i, e)
  BY DEF Bet, WithItem
<1>5a. PICK k \in Grades : k = item.o
  BY <1>2
<1>6. stake' = [stake EXCEPT ![<<b, u, i, k>>] = @ + amount] /\ next_betting' = next_betting
  <2>1. stake' = [stake EXCEPT ![<<b, u, i, item.o>>] = @ + amount] /\ next_betting' = next_betting
    BY Zenon DEF Bet
  <2> HIDE DEF item
  <2> QED
    BY <1>5a, <2>1
<1>7. Item(b, i) = item
  BY DEF Item
<1> HIDE DEF e, item
<1>8. /\ \A c \in Bettings : c # b => betting'[c] = betting[c]
      /\ DOMAIN betting'[b].items = DOMAIN betting[b].items
      /\ \A j \in DOMAIN betting[b].items :
           betting'[b].items[j] = IF j = i THEN e ELSE betting[b].items[j]
      /\ betting'[b].type = betting[b].type
  BY <1>1, <1>4, <1>5, ItemChanged
<1>9. /\ \A c \in Bettings : ItemsOf(c)' = ItemsOf(c) /\ Exists(c)' = Exists(c)
                             /\ ItemsOf(c) \subseteq Items
      /\ \A c \in Bettings : \A j \in ItemsOf(c) : ~(c = b /\ j = i) => Item(c, j)' = Item(c, j)
      /\ Item(b, i)' = e /\ i \in ItemsOf(b)
  BY <1>1, <1>8 DEF ItemsOf, Exists, Item, TypeOK
<1> DEFINE s == stake[b, u, i, k]
           d == Won(s + amount, k) - Won(s, k)
<1>9a. LET s0 == stake[b, u, i, k]
            d0 == Won(s0 + amount, k) - Won(s0, k)
        IN  /\ Payout(b, u, i)' = Payout(b, u, i) + d0
            /\ TotalPayout(b, i)' = TotalPayout(b, i) + d0
            /\ Staked(b, i)' = Staked(b, i) + amount
            /\ \A c \in Bettings, v \in Accounts, j \in Items :
                 ~(c = b /\ v = u /\ j = i) => Payout(c, v, j)' = Payout(c, v, j)
            /\ \A c \in Bettings, j \in Items :
                 ~(c = b /\ j = i) => /\ TotalPayout(c, j)' = TotalPayout(c, j)
                                      /\ Staked(c, j)' = Staked(c, j)
  BY <1>1, <1>6, SlotChange, Zenon
<1>10. /\ TotalPayout(b, i)' = TotalPayout(b, i) + d
       /\ Staked(b, i)' = Staked(b, i) + amount
       /\ \A c \in Bettings, j \in Items :
            ~(c = b /\ j = i) => /\ TotalPayout(c, j)' = TotalPayout(c, j)
                                 /\ Staked(c, j)' = Staked(c, j)
  BY <1>9a, Zenon
<1>11. k \in Grades /\ s \in Nat /\ s <= Staked(b, i) /\ TotalPayout(b, i) \in Nat /\ Staked(b, i) \in Nat
  <2>2. s \in Nat
    BY <1>1 DEF TypeOK
  <2>3. s <= Staked(b, i) /\ TotalPayout(b, i) \in Nat /\ Staked(b, i) \in Nat
    BY <1>1, StakedNat
  <2> QED
    BY <2>2, <2>3
<1>12. d \in Int /\ add <= d /\ d <= add + 1 /\ (s = 0 => d = add)
  <2> HIDE DEF s
  <2>1. Won(s, k) \in Nat /\ Won(s + amount, k) \in Nat /\ add = Won(amount, k)
    <3>1. s + amount \in Nat
      BY <1>11
    <3> QED
      BY <1>11, <1>5a, <3>1, WonNat
  <2>2. /\ Won(0, k) = 0
        /\ Won(s, k) + Won(amount, k) <= Won(s + amount, k)
        /\ Won(s + amount, k) <= Won(s, k) + Won(amount, k) + 1
    BY <1>11, WonAdd
  <2>3. s = 0 => s + amount = amount
    BY <1>11
  <2> DEFINE x == Won(s, k)
             y == Won(s + amount, k)
  <2>4. s = 0 => x = 0 /\ y = add
    BY <2>1, <2>2, <2>3
  <2>5. x \in Nat /\ y \in Nat /\ x + add <= y /\ y <= x + add + 1
    BY <2>1, <2>2
  <2>6. d = y - x
    OBVIOUS
  <2> HIDE DEF x, y, d, add
  <2> QED
    BY <1>3, <2>4, <2>5, <2>6
<1>13. /\ item.comp <= TotalPayout(b, i)
       /\ IF item.accounts = 0 THEN TotalPayout(b, i) = 0
          ELSE TotalPayout(b, i) < item.comp + item.accounts
       /\ item.buy_in = Staked(b, i)
       /\ item.accounts = 0 => item.buy_in = 0
  BY <1>7, <1>9 DEF Matched, BooksMatchRecords, Untouched
<1>14. /\ Item(b, i)'.comp <= TotalPayout(b, i)'
       /\ TotalPayout(b, i)' < Item(b, i)'.comp + Item(b, i)'.accounts
       /\ Item(b, i)'.accounts # 0
       /\ Item(b, i)'.buy_in = Staked(b, i)'
  <2> DEFINE c0 == item.comp
             n0 == item.accounts
             t0 == TotalPayout(b, i)
             b0 == item.buy_in
             w0 == Staked(b, i)
  <2>1. c0 \in Nat /\ n0 \in Nat /\ t0 \in Nat /\ b0 \in Nat /\ w0 \in Nat
    BY <1>2, <1>11
  <2>2. Item(b, i)'.comp = c0 + add /\ Item(b, i)'.accounts = n0 + 1 /\ Item(b, i)'.buy_in = b0 + amount
    BY <1>4, <1>9
  <2>3. TotalPayout(b, i)' = t0 + d /\ Staked(b, i)' = w0 + amount
    BY <1>10
  <2>4. /\ c0 <= t0 /\ b0 = w0 /\ (n0 = 0 => b0 = 0 /\ t0 = 0) /\ (n0 # 0 => t0 < c0 + n0)
    BY <1>13
  <2>5. s \in Nat /\ s <= w0
    BY <1>11
  <2> HIDE DEF c0, n0, t0, b0, w0, s, d, add
  <2>6. n0 = 0 => s = 0
    BY <2>1, <2>4, <2>5
  <2>7. c0 + add <= t0 + d
    BY <1>3, <1>12, <2>1, <2>4
  <2>8. t0 + d < (c0 + add) + (n0 + 1)
    <3>1. CASE n0 = 0
      BY <1>3, <1>12, <2>1, <2>4, <2>6, <3>1
    <3>2. CASE n0 # 0
      BY <1>3, <1>12, <2>1, <2>4, <3>2
    <3> QED
      BY <3>1, <3>2
  <2>9. n0 + 1 # 0 /\ b0 + amount = w0 + amount
    BY <2>1, <2>4
  <2> QED
    BY <2>2, <2>3, <2>7, <2>8, <2>9
<1> HIDE DEF s, d, add
<1>15. ASSUME NEW c \in Bettings, NEW j \in ItemsOf(c)
       PROVE  /\ Item(c, j)'.comp <= TotalPayout(c, j)'
              /\ IF Item(c, j)'.accounts = 0 THEN TotalPayout(c, j)' = 0
                 ELSE TotalPayout(c, j)' < Item(c, j)'.comp + Item(c, j)'.accounts
              /\ Item(c, j)'.buy_in = Staked(c, j)'
              /\ Item(c, j)'.accounts = 0 => Item(c, j)'.buy_in = 0
  <2>1. CASE c = b /\ j = i
    BY <1>14, <2>1
  <2>2. CASE ~(c = b /\ j = i)
    <3>1. j \in Items /\ Item(c, j)' = Item(c, j)
      BY <1>9, <2>2
    <3>2. TotalPayout(c, j)' = TotalPayout(c, j) /\ Staked(c, j)' = Staked(c, j)
      BY <1>10, <2>2, <3>1
    <3>3. /\ Item(c, j).comp <= TotalPayout(c, j)
          /\ IF Item(c, j).accounts = 0 THEN TotalPayout(c, j) = 0
             ELSE TotalPayout(c, j) < Item(c, j).comp + Item(c, j).accounts
          /\ Item(c, j).buy_in = Staked(c, j)
          /\ Item(c, j).accounts = 0 => Item(c, j).buy_in = 0
      BY DEF Matched, BooksMatchRecords, Untouched
    <3> QED
      BY <3>1, <3>2, <3>3, Zenon
  <2> QED
    BY <2>1, <2>2
<1>16. BooksMatchRecords' /\ Untouched'
  BY <1>9, <1>15 DEF BooksMatchRecords, Untouched
<1>17. Distinct'
  <2>1. \A c \in Bettings : \A j \in ItemsOf(c) : Item(c, j)'.out = Item(c, j).out
    BY <1>4, <1>7, <1>9
  <2> QED
    BY <1>9, <2>1 DEF Matched, Distinct
<1>18. Fresh'
  <2>0. next_betting \in Nat
    BY <1>1 DEF TypeOK
  <2>1. b < next_betting /\ next_betting \in Nat
    BY <2>0 DEF Matched, Fresh
  <2>2. ASSUME NEW c \in Bettings, NEW v \in Accounts, NEW j \in Items, NEW l \in Grades,
               c >= next_betting'
        PROVE  stake'[c, v, j, l] = 0
    <3>1. c # b /\ stake[c, v, j, l] = 0
      <4>1. c >= next_betting /\ c # b
        BY <1>6, <2>1, <2>2
      <4> QED
        BY <4>1 DEF Matched, Fresh
    <3>2. <<c, v, j, l>> \in Slots /\ <<c, v, j, l>> # <<b, u, i, k>> /\ stake \in [Slots -> Nat]
      BY <1>1, <3>1 DEF TypeOK
    <3> HIDE DEF Slots
    <3> QED
      BY <1>6, <3>1, <3>2
  <2> QED
    BY <1>6, <1>9, <2>2 DEF Matched, Fresh
<1> QED
  BY <1>16, <1>17, <1>18 DEF Matched

LEMMA NextMatched == Backed /\ Matched /\ [Next]_vars => Matched'
<1> SUFFICES ASSUME Backed, Matched, [Next]_vars PROVE Matched'
  OBVIOUS
<1>1. TypeOK /\ TypeOK' /\ Amounts \subseteq Nat
  BY NextBacked, AmountAssumption DEF Backed
<1> QED
  <2>1. CASE Quiet
    BY <1>1, <2>1, QuietMatched
  <2>2. ASSUME NEW type \in {"WinLose", "Score"}, NEW list \in OddsLists, NEW m \in Battles,
               NEW pledge \in Amounts, CreateBetting(type, list, m, pledge)
        PROVE  Matched'
    <3>1. next_betting \in Bettings
      BY <2>2 DEF CreateBetting
    <3> QED
      BY <1>1, <2>2, <3>1, CreateMatched
  <2>3. ASSUME NEW u \in Accounts, NEW b \in Bettings, NEW amount \in Amounts,
               NEW i \in DOMAIN betting[b].items, Exists(b), Bet(u, b, i, amount)
        PROVE  Matched'
    BY <1>1, <2>3, BetMatched
  <2> QED
    BY <1>1, <2>1, <2>2, <2>3, StepKinds

(* The books of the pallet are sound: no order of calls books more on an   *)
(* item than its bets win, or less by a unit per bet, the stakes are what  *)
(* was bought in, and the balances of all accounts keep their sum.         *)
THEOREM BooksSound == Spec => []BooksAreSound
<1>1. Init => Matched /\ Conservation
  BY InitMatched, InitConservation
<1>2. Backed /\ Matched /\ Conservation /\ [Next]_vars => Matched' /\ Conservation'
  BY NextMatched, StepConserves DEF Backed
<1>3. Matched /\ Conservation => BooksAreSound
  BY DEF Matched, BooksAreSound
<1> QED
  BY <1>1, <1>2, <1>3, BackedInvariant, PTL DEF Spec

-----------------------------------------------------------------------------
(* Winners are short of dust only. *)

(* What the accounts that have claimed win with item i. *)
Settled(b, i) ==
    SumTo([u \in Accounts |-> IF claimed[b, u] THEN Payout(b, u, i) ELSE 0], NAccounts)

(* What was paid out by claims, on no other item, was won by those who     *)
(* have claimed: they may have bet more since then, never less.            *)
PaidForWins ==
    \A b \in Bettings, i \in Items : paidOn[b] \subseteq {i} => paid[b] <= Settled(b, i)

LEMMA SettledNat ==
  ASSUME TypeOK, NEW b \in Bettings, NEW i \in Items
  PROVE  /\ [u \in Accounts |-> IF claimed[b, u] THEN Payout(b, u, i) ELSE 0] \in [1..NAccounts -> Nat]
         /\ Settled(b, i) \in Nat
<1> DEFINE f == [u \in Accounts |-> IF claimed[b, u] THEN Payout(b, u, i) ELSE 0]
<1>1. f \in [1..NAccounts -> Nat]
  BY PayoutNat
<1>2. Settled(b, i) = SumTo(f, NAccounts)
  BY DEF Settled
<1> HIDE DEF f
<1>3. Settled(b, i) \in Nat
  BY <1>1, <1>2, SumToNat, CountAssumption
<1> QED
  BY <1>1, <1>3 DEF f

ClaimsKept(b) == \A u \in Accounts : claimed[b, u] => claimed'[b, u]

(* Claims stay and no winnings shrink. *)
LEMMA SettledGrows ==
  ASSUME TypeOK, NEW b \in Bettings, NEW i \in Items,
         ClaimsKept(b),
         \A u \in Accounts : Payout(b, u, i)' \in Nat,
         \A u \in Accounts : Payout(b, u, i) <= Payout(b, u, i)'
  PROVE  Settled(b, i) <= Settled(b, i)'
<1> DEFINE f == [u \in Accounts |-> IF claimed[b, u] THEN Payout(b, u, i) ELSE 0]
           g == [u \in Accounts |-> IF claimed'[b, u] THEN Payout(b, u, i)' ELSE 0]
<1>1. \A u \in Accounts : Payout(b, u, i) \in Nat
  BY PayoutNat
<1>2. f \in [1..NAccounts -> Int] /\ g \in [1..NAccounts -> Int]
  <2>1. ASSUME NEW u \in Accounts PROVE f[u] \in Int /\ g[u] \in Int
    <3>1. Payout(b, u, i) \in Nat /\ Payout(b, u, i)' \in Nat
      BY <1>1
    <3>2. /\ f[u] = IF claimed[b, u] THEN Payout(b, u, i) ELSE 0
          /\ g[u] = IF claimed'[b, u] THEN Payout(b, u, i)' ELSE 0
      OBVIOUS
    <3> HIDE DEF f, g
    <3>3. (f[u] = Payout(b, u, i) \/ f[u] = 0) /\ (g[u] = Payout(b, u, i)' \/ g[u] = 0)
      BY <3>2, Zenon
    <3> QED
      BY <3>1, <3>3
  <2>2. f = [u \in Accounts |-> f[u]] /\ g = [u \in Accounts |-> g[u]]
    OBVIOUS
  <2> HIDE DEF f, g
  <2> QED
    BY <2>1, <2>2
<1>3. ASSUME NEW u \in 1..NAccounts PROVE f[u] <= g[u]
  <2>1. /\ f[u] = IF claimed[b, u] THEN Payout(b, u, i) ELSE 0
        /\ g[u] = IF claimed'[b, u] THEN Payout(b, u, i)' ELSE 0
    OBVIOUS
  <2>2. /\ Payout(b, u, i) \in Nat /\ Payout(b, u, i)' \in Nat
        /\ Payout(b, u, i) <= Payout(b, u, i)'
    BY <1>1
  <2>5. claimed[b, u] => claimed'[b, u]
    BY DEF ClaimsKept
  <2> HIDE DEF f, g
  <2>3. CASE claimed[b, u]
    <3>1. f[u] = Payout(b, u, i) /\ g[u] = Payout(b, u, i)'
      BY <2>1, <2>3, <2>5, Zenon
    <3>2. Payout(b, u, i) <= Payout(b, u, i)'
      BY <2>2, Zenon
    <3> QED
      BY <3>1, <3>2, Zenon
  <2>4. CASE ~claimed[b, u]
    <3>1. f[u] = 0 /\ (g[u] = Payout(b, u, i)' \/ g[u] = 0)
      BY <2>1, <2>4, Zenon
    <3> QED
      BY <2>2, <3>1
  <2> QED
    BY <2>3, <2>4
<1>4. Settled(b, i) = SumTo(f, NAccounts) /\ Settled(b, i)' = SumTo(g, NAccounts)
  BY DEF Settled
<1> HIDE DEF f, g
<1> QED
  BY <1>2, <1>3, <1>4, SumToMonotone, CountAssumption

(* A step either pays a claim or leaves what was paid alone. *)
LEMMA PayKinds ==
  ASSUME TypeOK, [Next]_vars
  PROVE  \/ UNCHANGED <<paid, paidOn, claimed>>
         \/ \E u \in Accounts, b \in Bettings : BettingClaim(u, b)
<1> DEFINE same == UNCHANGED <<paid, paidOn, claimed>>
<1>1. CASE Tick \/ UNCHANGED vars
  BY <1>1 DEF Tick, records, history, vars
<1>2. CASE OrganizerCall
  <2>1. ASSUME NEW type \in BattleTypes, NEW t \in StartTimes,
               CreateBattle(type, t) \/ \E m \in Battles : UpdateBattle(m, type, t)
        PROVE  same
    BY <2>1 DEF CreateBattle, UpdateBattle, records, history
  <2>2. ASSUME NEW m \in Battles,
               \/ \E s \in Scores : SetResult(m, s)
               \/ FinalsSettle(m)
               \/ LeagueSettle(m)
        PROVE  same
    BY <2>2 DEF SetResult, FinalsSettle, LeagueSettle, Finalize, records, history
  <2>3. ASSUME NEW m \in Battles, NEW type \in {"WinLose", "Score"}, NEW list \in OddsLists,
               NEW pledge \in Amounts, CreateBetting(type, list, m, pledge)
        PROVE  same
    BY <2>3 DEF CreateBetting, records, history
  <2>4. ASSUME NEW b \in Bettings, NEW i \in Items, NEW k \in Grades, UpdateOdds(b, i, k)
        PROVE  same
    BY <2>4 DEF UpdateOdds, records, history
  <2>5. ASSUME NEW b \in Bettings, DropBetting(b) \/ RevokeRemainCompensate(b)
        PROVE  same
    BY <2>5 DEF DropBetting, RevokeRemainCompensate, records
  <2> QED
    BY <1>2, <2>1, <2>2, <2>3, <2>4, <2>5 DEF OrganizerCall
<1>3. CASE UserCall
  <2>1. ASSUME NEW u \in Accounts, NEW b \in Bettings, NEW amount \in Amounts,
               AppendBettingPledge(u, b, amount) \/ Transfer(u, b, amount)
        PROVE  same
    BY <2>1 DEF AppendBettingPledge, Transfer, records, history
  <2>2. ASSUME NEW u \in Accounts, NEW b \in Bettings, NEW i \in Items, NEW amount \in Amounts,
               Bet(u, b, i, amount)
        PROVE  same
    BY <2>2 DEF Bet, history
  <2> QED
    BY <1>3, <2>1, <2>2 DEF UserCall, GoBet, GoBetWithInvite
<1> QED
  BY <1>1, <1>2, <1>3 DEF Next

(* No winnings shrink. *)
LEMMA PayoutsGrow ==
  ASSUME TypeOK, [Next]_vars, NEW x \in Bettings, NEW y \in Accounts, NEW z \in Items
  PROVE  Payout(x, y, z) \in Nat /\ Payout(x, y, z)' \in Nat /\ Payout(x, y, z) <= Payout(x, y, z)'
<1>1. Payout(x, y, z) \in Nat
  BY PayoutNat
<1>2. ASSUME stake' = stake PROVE Payout(x, y, z)' = Payout(x, y, z)
  BY <1>2 DEF Payout
<1>3. CASE Quiet
  BY <1>1, <1>2, <1>3 DEF Quiet
<1>4. ASSUME NEW type \in {"WinLose", "Score"}, NEW list \in OddsLists, NEW m \in Battles,
             NEW pledge \in Amounts, CreateBetting(type, list, m, pledge)
      PROVE  Payout(x, y, z)' = Payout(x, y, z)
  BY <1>2, <1>4 DEF CreateBetting, records
<1>5. ASSUME NEW u \in Accounts, NEW b \in Bettings, NEW amount \in Amounts,
             NEW i \in DOMAIN betting[b].items, Bet(u, b, i, amount)
      PROVE  Payout(x, y, z)' \in Nat /\ Payout(x, y, z) <= Payout(x, y, z)'
  <2> DEFINE item == betting[b].items[i]
  <2>1. item \in OddsItem /\ i \in Items /\ amount \in Nat
    BY ItemTyped, AmountAssumption DEF TypeOK
  <2>2. PICK k \in Grades : k = item.o
    BY <2>1 DEF OddsItem
  <2>3. stake' = [stake EXCEPT ![<<b, u, i, item.o>>] = @ + amount]
    BY <1>5, Zenon DEF Bet
  <2> HIDE DEF item
  <2>4. stake' = [stake EXCEPT ![<<b, u, i, k>>] = @ + amount]
    BY <2>2, <2>3
  <2> QED
    BY <2>1, <2>4, PayoutGrows
<1> QED
  BY <1>1, <1>3, <1>4, <1>5, StepKinds

LEMMA StepPaidForWins ==
  ASSUME TypeOK, PaidForWins, [Next]_vars
  PROVE  PaidForWins'
<1> SUFFICES ASSUME NEW c \in Bettings, NEW j \in Items, paidOn'[c] \subseteq {j}
             PROVE  paid'[c] <= Settled(c, j)'
  BY DEF PaidForWins
<1>0. /\ \A u \in Accounts : Payout(c, u, j)' \in Nat
      /\ \A u \in Accounts : Payout(c, u, j) <= Payout(c, u, j)'
  BY PayoutsGrow
<1>1. paid[c] \in Nat /\ Settled(c, j) \in Nat
  BY SettledNat DEF TypeOK
<1>2. ASSUME ClaimsKept(c)
      PROVE  Settled(c, j) <= Settled(c, j)' /\ Settled(c, j)' \in Int
  <2>1. Settled(c, j) <= Settled(c, j)'
    BY <1>0, <1>2, SettledGrows
  <2> DEFINE g == [u \in Accounts |-> IF claimed'[c, u] THEN Payout(c, u, j)' ELSE 0]
  <2>2. g \in [1..NAccounts -> Int]
    <3>1. ASSUME NEW u \in Accounts PROVE g[u] \in Int
      <4>1. Payout(c, u, j)' \in Nat /\ g[u] = IF claimed'[c, u] THEN Payout(c, u, j)' ELSE 0
        BY <1>0
      <4> HIDE DEF g
      <4>2. g[u] = Payout(c, u, j)' \/ g[u] = 0
        BY <4>1, Zenon
      <4>3. Payout(c, u, j)' \in Nat
        BY <1>0
      <4> QED
        BY <4>2, <4>3
    <3>2. g = [u \in Accounts |-> g[u]]
      OBVIOUS
    <3> HIDE DEF g
    <3> QED
      BY <3>1, <3>2
  <2>3. Settled(c, j)' = SumTo(g, NAccounts)
    BY DEF Settled
  <2> HIDE DEF g
  <2>4. NAccounts \in Nat /\ NAccounts \in 0..NAccounts
    BY CountAssumption
  <2>5. SumTo(g, NAccounts) \in Int
    BY <2>2, <2>4, SumToInt
  <2> QED
    BY <2>1, <2>3, <2>5
<1>3. CASE UNCHANGED <<paid, paidOn, claimed>>
  <2>1. paid[c] <= Settled(c, j) /\ paid'[c] = paid[c]
    BY <1>3 DEF PaidForWins
  <2>2. Settled(c, j) <= Settled(c, j)' /\ Settled(c, j)' \in Int
    <3>1. ClaimsKept(c)
      BY <1>3 DEF ClaimsKept
    <3> QED
      BY <1>2, <3>1
  <2> QED
    BY <1>1, <2>1, <2>2
<1>4. ASSUME NEW u \in Accounts, NEW b \in Bettings, BettingClaim(u, b)
      PROVE  paid'[c] <= Settled(c, j)'
  <2>1. PICK hit \in Hits(b) :
          /\ paid' = [paid EXCEPT ![b] = @ + Payout(b, u, hit)]
          /\ paidOn' = [paidOn EXCEPT ![b] = IF Payout(b, u, hit) > 0 THEN @ \cup {hit} ELSE @]
    BY <1>4 DEF BettingClaim
  <2>2. /\ ~claimed[b, u] /\ claimed' = [claimed EXCEPT ![<<b, u>>] = TRUE]
        /\ stake' = stake
    BY <1>4 DEF BettingClaim
  <2>3. hit \in Items
    BY HitsAreItems
  <2>4. /\ paid \in [Bettings -> Nat] /\ paidOn \in [Bettings -> SUBSET Items]
        /\ claimed \in [Bettings \X Accounts -> BOOLEAN]
    BY DEF TypeOK
  <2>5. /\ \A x \in Bettings, v \in Accounts : ~(x = b /\ v = u) => claimed'[x, v] = claimed[x, v]
        /\ claimed'[b, u]
    BY <2>2, <2>4
  <2>6. Settled(c, j) <= Settled(c, j)' /\ Settled(c, j)' \in Int
    <3>1. ClaimsKept(c)
      BY <2>5 DEF ClaimsKept
    <3> QED
      BY <1>2, <3>1
  <2>7. \A x \in Bettings, v \in Accounts, i \in Items :
          Payout(x, v, i) \in Nat /\ Payout(x, v, i)' = Payout(x, v, i)
    BY <2>2, PayoutNat DEF Payout
  <2>8. CASE c # b \/ Payout(b, u, hit) = 0
    <3>1. paid'[c] = paid[c] /\ paidOn'[c] = paidOn[c]
      <4>1. CASE c # b
        BY <2>1, <2>4, <4>1
      <4>2. CASE Payout(b, u, hit) = 0
        <5>1. paid[b] + Payout(b, u, hit) = paid[b] /\ ~(Payout(b, u, hit) > 0)
          BY <2>4, <4>2
        <5>2. paid' = [paid EXCEPT ![b] = paid[b]] /\ paidOn' = [paidOn EXCEPT ![b] = paidOn[b]]
          BY <2>1, <5>1
        <5> QED
          BY <2>4, <5>2
      <4> QED
        BY <2>8, <4>1, <4>2
    <3>2. paid[c] <= Settled(c, j)
      BY <3>1 DEF PaidForWins
    <3> QED
      BY <1>1, <2>6, <3>1, <3>2
  <2>9. CASE c = b /\ Payout(b, u, hit) # 0
    <3>1. Payout(b, u, hit) \in Nat /\ Payout(b, u, hit) > 0
      BY <2>3, <2>7, <2>9
    <3>2. paid'[b] = paid[b] + Payout(b, u, hit) /\ paidOn'[b] = paidOn[b] \cup {hit}
      BY <2>1, <2>4, <3>1
    <3>3. hit = j /\ paidOn[b] \subseteq {j}
      BY <2>9, <3>2
    <3>4. paid[b] <= Settled(b, j)
      BY <2>9, <3>3 DEF PaidForWins
    <3> DEFINE f == [v \in Accounts |-> IF claimed[b, v] THEN Payout(b, v, j) ELSE 0]
               g == [v \in Accounts |-> IF claimed'[b, v] THEN Payout(b, v, j)' ELSE 0]
    <3>5. \A v \in Accounts : Payout(b, v, j) \in Nat /\ Payout(b, v, j)' = Payout(b, v, j)
      BY <2>7
    <3>6. f[u] = 0 /\ g[u] = Payout(b, u, j) /\ \A v \in Accounts : v # u => g[v] = f[v]
      BY <2>2, <2>5, <3>5
    <3>7. f \in [1..NAccounts -> Int]
      <4>1. f \in [1..NAccounts -> Nat]
        BY SettledNat
      <4> HIDE DEF f
      <4> QED
        BY <4>1
    <3>8. g \in [1..NAccounts -> Int]
      <4>1. \A v \in Accounts : g[v] \in Int
        <5>1. \A v \in 1..NAccounts : f[v] \in Int
          BY <3>7
        <5> HIDE DEF f, g
        <5>3. g[u] \in Int
          BY <3>1, <3>3, <3>6
        <5>2. g[u] \in Int /\ \A v \in Accounts : v # u => g[v] = f[v]
          BY <3>6, <5>3
        <5> QED
          BY <5>1, <5>2
      <4>2. g = [v \in Accounts |-> g[v]]
        OBVIOUS
      <4> HIDE DEF g
      <4> QED
        BY <4>1, <4>2
    <3>9. Settled(b, j) = SumTo(f, NAccounts) /\ Settled(b, j)' = SumTo(g, NAccounts)
      BY DEF Settled
    <3> HIDE DEF f, g
    <3>10. SumTo(g, NAccounts) = SumTo(f, NAccounts) + g[u] - f[u]
      <4>1. NAccounts \in Nat /\ \A v \in 1..NAccounts : v # u => g[v] = f[v]
        BY <3>6, CountAssumption
      <4> QED
        BY <3>7, <3>8, <4>1, SumToChange
    <3>11. paid[b] \in Nat /\ Settled(b, j) \in Nat
      BY <1>1, <2>9
    <3>12. Settled(b, j)' = Settled(b, j) + Payout(b, u, hit)
      BY <3>1, <3>3, <3>6, <3>9, <3>10, <3>11
    <3>13. paid'[b] <= Settled(b, j)'
      BY <3>1, <3>2, <3>4, <3>11, <3>12
    <3> QED
      BY <2>9, <3>13
  <2> QED
    BY <2>8, <2>9
<1> QED
  BY <1>3, <1>4, PayKinds

LEMMA NextPaidForWins == Backed /\ PaidForWins /\ [Next]_vars => PaidForWins'
BY StepPaidForWins DEF Backed

LEMMA InitPaidForWins == Init => PaidForWins
<1> SUFFICES ASSUME Init, NEW b \in Bettings, NEW i \in Items PROVE paid[b] <= Settled(b, i)
  BY DEF PaidForWins
<1>1. Settled(b, i) \in Nat
  BY InitTypeOK, SettledNat
<1>2. paid[b] = 0
  BY DEF Init
<1> QED
  BY <1>1, <1>2

(* What the winners may still claim is what the item is worth without what *)
(* was settled; what it is worth is booked but for the dust, and what is   *)
(* booked is in the pledge account but for what was paid.                  *)
LEMMA ShortOnlyDust ==
  ASSUME Backed, Matched, PaidForWins
  PROVE  WinnersShortOnlyDust
<1> SUFFICES ASSUME NEW b \in Bettings, NEW hit \in Hits(b),
                    withdrawn[b] = 0, paidOn[b] \subseteq {hit}
             PROVE  LET owed == SumTo([u \in Accounts |->
                                  IF claimed[b, u] THEN 0 ELSE Payout(b, u, hit)], NAccounts)
                    IN  owed = 0 \/ owed < Pledge(b) + Item(b, hit).accounts
  BY DEF WinnersShortOnlyDust
<1>1. TypeOK /\ hit \in Items /\ hit \in ItemsOf(b)
  <2>1. TypeOK
    BY DEF Matched
  <2>2. hit \in ItemsOf(b)
    BY DEF Hits, ItemsOf
  <2> QED
    BY <2>1, <2>2, HitsAreItems
<1> DEFINE f == [u \in Accounts |-> IF claimed[b, u] THEN Payout(b, u, hit) ELSE 0]
           g == [u \in Accounts |-> IF claimed[b, u] THEN 0 ELSE Payout(b, u, hit)]
           h == [u \in Accounts |-> Payout(b, u, hit)]
           owed == SumTo(g, NAccounts)
<1>2. NAccounts \in Nat
  BY CountAssumption
<1>3. /\ f \in [1..NAccounts -> Nat] /\ Settled(b, hit) \in Nat
      /\ h \in [1..NAccounts -> Nat] /\ TotalPayout(b, hit) \in Nat
  BY <1>1, SettledNat, StakedNat
<1>4. ASSUME NEW u \in 1..NAccounts PROVE g[u] \in Nat /\ h[u] = f[u] + g[u]
  <2>1. h[u] = Payout(b, u, hit) /\ Payout(b, u, hit) \in Nat
    BY <1>1, PayoutNat
  <2>2. /\ f[u] = IF claimed[b, u] THEN Payout(b, u, hit) ELSE 0
        /\ g[u] = IF claimed[b, u] THEN 0 ELSE Payout(b, u, hit)
    OBVIOUS
  <2> HIDE DEF f, g, h
  <2>3. (f[u] = 0 /\ g[u] = Payout(b, u, hit)) \/ (f[u] = Payout(b, u, hit) /\ g[u] = 0)
    BY <2>2, Zenon
  <2> QED
    BY <2>1, <2>3
<1>5. g \in [1..NAccounts -> Nat]
  <2>1. g = [u \in Accounts |-> g[u]]
    OBVIOUS
  <2> HIDE DEF g
  <2> QED
    BY <1>4, <2>1
<1>6. Settled(b, hit) = SumTo(f, NAccounts) /\ TotalPayout(b, hit) = SumTo(h, NAccounts)
  BY DEF Settled, TotalPayout
<1> HIDE DEF f, g, h
<1>7. owed \in Nat /\ TotalPayout(b, hit) = Settled(b, hit) + owed
  <2>1. owed \in Nat
    BY <1>2, <1>5, SumToNat
  <2>2. f \in [1..NAccounts -> Int] /\ g \in [1..NAccounts -> Int] /\ h \in [1..NAccounts -> Int]
    BY <1>3, <1>5
  <2>3. \A u \in 1..NAccounts : h[u] = f[u] + g[u]
    BY <1>4
  <2>4. SumTo(h, NAccounts) = SumTo(f, NAccounts) + SumTo(g, NAccounts)
    BY <1>2, <2>2, <2>3, SumToAdd
  <2> QED
    BY <1>6, <2>1, <2>4
<1> HIDE DEF owed
<1>8. owed = 0 \/ owed < Pledge(b) + Item(b, hit).accounts
  <2> DEFINE c == Item(b, hit).comp
             n == Item(b, hit).accounts
             t == TotalPayout(b, hit)
             s == Settled(b, hit)
             p == Pledge(b)
             d == paid[b]
  <2>1. c \in Nat /\ n \in Nat
    BY <1>1, ItemTyped DEF ItemsOf, Item, OddsItem
  <2>2. p \in Nat /\ d \in Nat
    BY <1>1, PledgeAccounts DEF TypeOK, Pledge
  <2>3. IF n = 0 THEN t = 0 ELSE t < c + n
    BY <1>1 DEF Matched, BooksMatchRecords
  <2>4. c <= p + d + 0
    BY <1>1 DEF Backed, BookedIsBacked
  <2>5. d <= s
    BY <1>1 DEF PaidForWins
  <2>6. t = s + owed /\ s \in Nat /\ t \in Nat /\ owed \in Nat
    BY <1>3, <1>7
  <2> HIDE DEF c, n, t, s, p, d
  <2>7. owed = 0 \/ owed < p + n
    <3>1. CASE n = 0
      BY <2>3, <2>6, <3>1
    <3>2. CASE n # 0
      BY <2>1, <2>2, <2>3, <2>4, <2>5, <2>6, <3>2
    <3> QED
      BY <3>1, <3>2
  <2> QED
    BY <2>7 DEF p, n
<1> QED
  BY <1>8 DEF owed, g

(* As long as nothing was withdrawn and claims were paid on the hit item   *)
(* only, the pledge account lacks less than a unit per bet of what the     *)
(* winners may still claim, whatever was overwritten, appended or bet.     *)
THEOREM WinnersLackDustOnly == Spec => []WinnersShortOnlyDust
<1>1. Init => Matched /\ PaidForWins
  BY InitMatched, InitPaidForWins
<1>2. Backed /\ Matched /\ PaidForWins /\ [Next]_vars => Matched' /\ PaidForWins'
  BY NextMatched, NextPaidForWins
<1>3. Backed /\ Matched /\ PaidForWins => WinnersShortOnlyDust
  BY ShortOnlyDust
<1> QED
  BY <1>1, <1>2, <1>3, BackedInvariant, PTL DEF Spec

-----------------------------------------------------------------------------
(* The pledge account pays once. *)

(* Since total_pledge was last written, nothing was withdrawn that is not  *)
(* recorded as revoked: what it says is there, or was paid.                *)
Unrevoked ==
    \A b \in Bettings : ~revoked[b] => betting[b].total_pledge <= Pledge(b) + paid[b]

(* What PoolPaysOnce says of one betting. *)
PaysRightly(b) ==
    /\ \A hit \in Hits(b) :
         withdrawn'[b] # withdrawn[b] /\ ~revoked[b] =>
             Item(b, hit).comp <= Pledge(b)' + paid[b]
    /\ \A u \in Accounts : claimed[b, u] => claimed'[b, u]
    /\ Pledge(b)' < Pledge(b) =>
         \/ free'[Organizer] - free[Organizer] = Pledge(b) - Pledge(b)'
         \/ \E u \in Accounts, hit \in Hits(b) :
              /\ ~claimed[b, u] /\ claimed'[b, u]
              /\ Pledge(b) - Pledge(b)' = Payout(b, u, hit)

Counted(b) == ~revoked'[b] => betting'[b].total_pledge <= Pledge(b)' + paid'[b]

LEMMA Numbers ==
  ASSUME TypeOK, NEW b \in Bettings
  PROVE  Pledge(b) \in Nat /\ paid[b] \in Nat /\ betting[b].total_pledge \in Nat /\ withdrawn[b] \in Nat
BY PledgeAccounts DEF TypeOK, Pledge, BettingInfo

LEMMA ClaimsStay ==
  ASSUME TypeOK, [Next]_vars, NEW b \in Bettings
  PROVE  ClaimsKept(b)
<1>1. CASE UNCHANGED <<paid, paidOn, claimed>>
  BY <1>1 DEF ClaimsKept
<1>2. ASSUME NEW v \in Accounts, NEW c \in Bettings, BettingClaim(v, c)
      PROVE  ClaimsKept(b)
  <2>1. claimed' = [claimed EXCEPT ![<<c, v>>] = TRUE] /\ claimed \in [Bettings \X Accounts -> BOOLEAN]
    BY <1>2 DEF BettingClaim, TypeOK
  <2>2. \A x \in Bettings, w \in Accounts : ~(x = c /\ w = v) => claimed'[x, w] = claimed[x, w]
    BY <2>1
  <2>3. claimed'[c, v]
    BY <2>1
  <2> QED
    BY <2>2, <2>3 DEF ClaimsKept
<1> QED
  BY <1>1, <1>2, PayKinds

(* A step that takes nothing out of the pledge account of b and leaves its *)
(* pledge and what is counted of it alone.                                 *)
Alone(b) ==
    /\ Pledge(b)' >= Pledge(b)
    /\ paid'[b] = paid[b] /\ withdrawn'[b] = withdrawn[b] /\ revoked'[b] = revoked[b]
    /\ betting'[b].total_pledge = betting[b].total_pledge

LEMMA AloneCounted ==
  ASSUME TypeOK, TypeOK', Unrevoked, NEW b \in Bettings, Alone(b), ClaimsKept(b)
  PROVE  PaysRightly(b) /\ Counted(b)
<1>1. /\ Pledge(b) \in Nat /\ paid[b] \in Nat /\ betting[b].total_pledge \in Nat
      /\ Pledge(b)' \in Nat
  BY Numbers, PledgeAccounts DEF TypeOK, Pledge
<1>2. ~revoked[b] => betting[b].total_pledge <= Pledge(b) + paid[b]
  BY DEF Unrevoked
<1>3. Counted(b)
  <2>1. ASSUME ~revoked'[b] PROVE betting'[b].total_pledge <= Pledge(b)' + paid'[b]
    <3>1. betting[b].total_pledge <= Pledge(b) + paid[b]
      BY <1>2, <2>1 DEF Alone
    <3>2. Pledge(b)' >= Pledge(b) /\ paid'[b] = paid[b]
          /\ betting'[b].total_pledge = betting[b].total_pledge
      BY DEF Alone
    <3> QED
      BY <1>1, <3>1, <3>2
  <2> QED
    BY <2>1 DEF Counted
<1>4. withdrawn'[b] = withdrawn[b] /\ ~(Pledge(b)' < Pledge(b))
  BY <1>1 DEF Alone
<1>5. PaysRightly(b)
  BY <1>4 DEF PaysRightly, ClaimsKept
<1> QED
  BY <1>3, <1>5

LEMMA CallsAlone ==
  ASSUME TypeOK, NEW b \in Bettings,
         UNCHANGED <<free, paid, withdrawn, revoked>>,
         betting'[b].total_pledge = betting[b].total_pledge
  PROVE  Alone(b)
BY Numbers DEF Alone, Pledge

LEMMA CreatePays ==
  ASSUME TypeOK, TypeOK', Unrevoked, NEW b \in Bettings, ClaimsKept(b),
         NEW type \in {"WinLose", "Score"}, NEW list \in OddsLists, NEW m \in Battles,
         NEW pledge \in Amounts, CreateBetting(type, list, m, pledge),
         NEW n \in Bettings, n = next_betting
  PROVE  PaysRightly(b) /\ Counted(b)
<1>1. /\ pledge \in Nat /\ Organizer \in Ledger /\ PledgeAccount(n) \in Ledger
      /\ PledgeAccount(n) # Organizer
  BY AmountAssumption, PledgeAccounts
<1>2. CanTransfer(Organizer, pledge, PledgeAccount(n))
      /\ free' = TransferToken(Organizer, pledge, PledgeAccount(n))
  BY DEF CreateBetting
<1>3. /\ \A x \in Ledger : x # Organizer => free'[x] >= free[x]
      /\ free'[PledgeAccount(n)] = free[PledgeAccount(n)] + pledge
  BY <1>1, <1>2, Transferred
<1>4. UNCHANGED <<paid, withdrawn, revoked>>
  BY DEF CreateBetting, history
<1>5. betting'[n].total_pledge = pledge /\ \A c \in Bettings : c # n => betting'[c] = betting[c]
  BY DEF CreateBetting, TypeOK
<1>6. CASE b # n
  <2>1. Pledge(b)' >= Pledge(b)
    BY <1>3, <1>6, PledgeAccounts DEF Pledge
  <2>2. Alone(b)
    BY <1>4, <1>5, <1>6, <2>1 DEF Alone
  <2> QED
    BY <2>2, AloneCounted
<1>7. CASE b = n
  <2>1. Pledge(b)' = Pledge(b) + pledge
    BY <1>3, <1>7 DEF Pledge
  <2>2. Pledge(b) \in Nat /\ paid[b] \in Nat
    BY Numbers
  <2>3. Counted(b)
    <3>1. betting'[b].total_pledge = pledge /\ paid'[b] = paid[b]
      BY <1>4, <1>5, <1>7
    <3>2. pledge <= Pledge(b) + pledge + paid[b]
      BY <1>1, <2>2
    <3> QED
      BY <2>1, <3>1, <3>2 DEF Counted
  <2>4. withdrawn'[b] = withdrawn[b] /\ ~(Pledge(b)' < Pledge(b))
    BY <1>1, <1>4, <2>1, <2>2
  <2>5. PaysRightly(b)
    BY <2>4 DEF PaysRightly, ClaimsKept
  <2> QED
    BY <2>3, <2>5
<1> QED
  BY <1>6, <1>7

LEMMA AppendPays ==
  ASSUME TypeOK, TypeOK', Unrevoked, NEW b \in Bettings, ClaimsKept(b),
         NEW u \in Accounts, NEW n \in Bettings, NEW amount \in Amounts,
         AppendBettingPledge(u, n, amount) \/ Transfer(u, n, amount)
  PROVE  PaysRightly(b) /\ Counted(b)
<1>1. /\ amount \in Nat /\ u \in Ledger /\ PledgeAccount(n) \in Ledger /\ PledgeAccount(n) # u
      /\ PledgeAccount(b) \in Ledger /\ PledgeAccount(b) # u
  BY AmountAssumption, PledgeAccounts
<1>2. CanTransfer(u, amount, PledgeAccount(n)) /\ free' = TransferToken(u, amount, PledgeAccount(n))
  BY DEF AppendBettingPledge, Transfer
<1>3. \A x \in Ledger : x # u => free'[x] >= free[x]
  BY <1>1, <1>2, Transferred
<1>4. Pledge(b)' >= Pledge(b)
  BY <1>1, <1>3 DEF Pledge
<1>5. UNCHANGED <<paid, withdrawn>>
  BY DEF AppendBettingPledge, Transfer, history
<1>6. CASE Transfer(u, n, amount)
  <2>1. Alone(b)
    BY <1>4, <1>5, <1>6 DEF Transfer, history, Alone
  <2> QED
    BY <2>1, AloneCounted
<1>7. CASE AppendBettingPledge(u, n, amount)
  <2>1. betting' = WithPledge(n, free'[PledgeAccount(n)])
        /\ revoked' = [revoked EXCEPT ![n] = FALSE] /\ revoked \in [Bettings -> BOOLEAN]
    BY <1>7 DEF AppendBettingPledge, WithPledge, TypeOK
  <2>2. free'[PledgeAccount(n)] \in Nat
    BY <1>1 DEF TypeOK
  <2>3. betting'[n].total_pledge = free'[PledgeAccount(n)]
        /\ \A c \in Bettings : c # n => betting'[c] = betting[c]
    BY <2>1, <2>2, PledgeChanged
  <2>4. CASE b # n
    <3>1. revoked'[b] = revoked[b]
      BY <2>1, <2>4
    <3>2. Alone(b)
      BY <1>4, <1>5, <2>3, <2>4, <3>1 DEF Alone
    <3> QED
      BY <3>2, AloneCounted
  <2>5. CASE b = n
    <3>1. betting'[b].total_pledge = Pledge(b)' /\ Pledge(b)' \in Nat /\ Pledge(b) \in Nat
          /\ paid'[b] = paid[b] /\ paid[b] \in Nat
      BY <1>5, <2>2, <2>3, <2>5, Numbers DEF Pledge
    <3>2. Counted(b)
      BY <3>1 DEF Counted
    <3>3. withdrawn'[b] = withdrawn[b] /\ ~(Pledge(b)' < Pledge(b))
      BY <1>4, <1>5, <3>1
    <3>4. PaysRightly(b)
      BY <3>3 DEF PaysRightly, ClaimsKept
    <3> QED
      BY <3>2, <3>4
  <2> QED
    BY <2>4, <2>5
<1> QED
  BY <1>6, <1>7

LEMMA DropPays ==
  ASSUME TypeOK, TypeOK', Unrevoked, NEW b \in Bettings, ClaimsKept(b),
         NEW n \in Bettings, DropBetting(n)
  PROVE  PaysRightly(b) /\ Counted(b)
<1>1. /\ Organizer \in Ledger /\ PledgeAccount(n) \in Ledger /\ PledgeAccount(n) # Organizer
      /\ Pledge(n) \in Nat /\ PledgeAccount(b) \in Ledger /\ PledgeAccount(b) # Organizer
  BY PledgeAccounts, Numbers
<1>2. /\ CanTransfer(PledgeAccount(n), Pledge(n), Organizer)
      /\ free' = TransferToken(PledgeAccount(n), Pledge(n), Organizer)
  BY <1>1 DEF DropBetting, CanTransfer, Pledge
<1>3. /\ \A x \in Ledger : x # PledgeAccount(n) => free'[x] >= free[x]
      /\ free'[PledgeAccount(n)] = free[PledgeAccount(n)] - Pledge(n)
      /\ free'[Organizer] = free[Organizer] + Pledge(n)
  BY <1>1, <1>2, Transferred
<1>4. /\ betting' = WithPledge(n, 0) /\ 0 \in Nat
      /\ revoked' = [revoked EXCEPT ![n] = FALSE] /\ revoked \in [Bettings -> BOOLEAN]
      /\ UNCHANGED <<paid, withdrawn>>
  BY DEF DropBetting, WithPledge, TypeOK
<1>5. betting'[n].total_pledge = 0 /\ \A c \in Bettings : c # n => betting'[c] = betting[c]
  BY <1>4, PledgeChanged
<1>6. CASE b # n
  <2>1. Pledge(b)' >= Pledge(b)
    BY <1>1, <1>3, <1>6, PledgeAccounts DEF Pledge
  <2>2. revoked'[b] = revoked[b]
    BY <1>4, <1>6
  <2>3. Alone(b)
    BY <1>4, <1>5, <1>6, <2>1, <2>2 DEF Alone
  <2> QED
    BY <2>3, AloneCounted
<1>7. CASE b = n
  <2>1. Pledge(b)' = 0 /\ free[Organizer] \in Nat /\ paid[b] \in Nat /\ Pledge(b) \in Nat
    BY <1>1, <1>3, <1>7, Numbers DEF Pledge, TypeOK
  <2>2. Counted(b)
    BY <1>4, <1>5, <1>7, <2>1 DEF Counted
  <2>3. free'[Organizer] - free[Organizer] = Pledge(b) - Pledge(b)'
    BY <1>3, <1>7, <2>1
  <2>4. withdrawn'[b] = withdrawn[b]
    BY <1>4
  <2>5. PaysRightly(b)
    BY <2>3, <2>4 DEF PaysRightly, ClaimsKept
  <2> QED
    BY <2>2, <2>5
<1> QED
  BY <1>6, <1>7

(* Only one item can be hit, so that what is left is what it needs. *)
LEMMA RevokePays ==
  ASSUME TypeOK, TypeOK', Unrevoked, Distinct, NEW b \in Bettings, ClaimsKept(b),
         NEW n \in Bettings, RevokeRemainCompensate(n)
  PROVE  PaysRightly(b) /\ Counted(b)
<1> DEFINE remain(hit) == betting[n].total_pledge - betting[n].items[hit].comp
<1>1. PICK hit \in Hits(n) :
        /\ remain(hit) > 0
        /\ CanTransfer(PledgeAccount(n), remain(hit), Organizer)
        /\ free' = TransferToken(PledgeAccount(n), remain(hit), Organizer)
        /\ withdrawn' = [withdrawn EXCEPT ![n] = @ + remain(hit)]
        /\ revoked' = [revoked EXCEPT ![n] = TRUE]
        /\ UNCHANGED <<betting, paid>>
  BY DEF RevokeRemainCompensate
<1>2. /\ hit \in ItemsOf(n) /\ Item(n, hit).comp \in Nat /\ betting[n].total_pledge \in Nat
      /\ remain(hit) = betting[n].total_pledge - Item(n, hit).comp
  BY CompNat, Numbers DEF Hits, ItemsOf, Item
<1> DEFINE r == remain(hit)
<1>3. r \in Nat
  BY <1>1, <1>2
<1> HIDE DEF remain
<1>4. /\ Organizer \in Ledger /\ PledgeAccount(n) \in Ledger /\ PledgeAccount(n) # Organizer
      /\ PledgeAccount(b) \in Ledger /\ PledgeAccount(b) # Organizer
  BY PledgeAccounts
<1>5. /\ \A x \in Ledger : x # PledgeAccount(n) => free'[x] >= free[x]
      /\ free'[PledgeAccount(n)] = free[PledgeAccount(n)] - r
      /\ free'[Organizer] = free[Organizer] + r
  BY <1>1, <1>3, <1>4, Transferred
<1>6. withdrawn \in [Bettings -> Nat] /\ revoked \in [Bettings -> BOOLEAN]
  BY DEF TypeOK
<1>7. CASE b # n
  <2>1. Pledge(b)' >= Pledge(b)
    BY <1>4, <1>5, <1>7, PledgeAccounts DEF Pledge
  <2>2. revoked'[b] = revoked[b] /\ withdrawn'[b] = withdrawn[b]
    BY <1>1, <1>6, <1>7
  <2>3. Alone(b)
    BY <1>1, <2>1, <2>2 DEF Alone
  <2> QED
    BY <2>3, AloneCounted
<1>8. CASE b = n
  <2>1. Counted(b)
    BY <1>1, <1>6, <1>8 DEF Counted
  <2>2. Pledge(b)' = Pledge(b) - r /\ Pledge(b) \in Nat /\ paid[b] \in Nat /\ free[Organizer] \in Nat
    BY <1>4, <1>5, <1>8, Numbers DEF Pledge, TypeOK
  <2>3. free'[Organizer] - free[Organizer] = Pledge(b) - Pledge(b)'
    BY <1>3, <1>5, <2>2
  <2>4. ASSUME NEW h \in Hits(b), ~revoked[b] PROVE Item(b, h).comp <= Pledge(b)' + paid[b]
    <3>1. h = hit
      <4>1. h \in ItemsOf(b) /\ Item(b, h).out = Result(b) /\ Item(b, hit).out = Result(b)
        BY <1>8 DEF Hits, ItemsOf, Item
      <4> QED
        BY <1>2, <1>8, <4>1 DEF Distinct
    <3>2. betting[n].total_pledge <= Pledge(b) + paid[b]
      BY <1>8, <2>4 DEF Unrevoked
    <3> QED
      BY <1>2, <1>3, <1>8, <2>2, <3>1, <3>2
  <2>5. PaysRightly(b)
    BY <2>3, <2>4 DEF PaysRightly, ClaimsKept
  <2> QED
    BY <2>1, <2>5
<1> QED
  BY <1>7, <1>8

LEMMA ClaimPays ==
  ASSUME TypeOK, TypeOK', Unrevoked, NEW b \in Bettings, ClaimsKept(b),
         NEW u \in Accounts, NEW n \in Bettings, BettingClaim(u, n)
  PROVE  PaysRightly(b) /\ Counted(b)
<1>1. PICK hit \in Hits(n) :
        /\ CanTransfer(PledgeAccount(n), Payout(n, u, hit), u)
        /\ free' = TransferToken(PledgeAccount(n), Payout(n, u, hit), u)
        /\ paid' = [paid EXCEPT ![n] = @ + Payout(n, u, hit)]
  BY DEF BettingClaim
<1>2. UNCHANGED <<betting, withdrawn, revoked>>
  BY DEF BettingClaim
<1> DEFINE x == Payout(n, u, hit)
<1>3. x \in Nat
  BY HitsAreItems, PayoutNat
<1>4. /\ u \in Ledger /\ PledgeAccount(n) \in Ledger /\ PledgeAccount(n) # u
      /\ PledgeAccount(b) \in Ledger /\ PledgeAccount(b) # u
  BY PledgeAccounts
<1>5. /\ \A y \in Ledger : y # PledgeAccount(n) => free'[y] >= free[y]
      /\ free'[PledgeAccount(n)] = free[PledgeAccount(n)] - x
  BY <1>1, <1>3, <1>4, Transferred
<1>6. paid \in [Bettings -> Nat]
  BY DEF TypeOK
<1>7. CASE b # n
  <2>1. Pledge(b)' >= Pledge(b)
    BY <1>4, <1>5, <1>7, PledgeAccounts DEF Pledge
  <2>2. paid'[b] = paid[b]
    BY <1>1, <1>6, <1>7
  <2>3. Alone(b)
    BY <1>2, <2>1, <2>2 DEF Alone
  <2> QED
    BY <2>3, AloneCounted
<1>8. CASE b = n
  <2>1. Pledge(b)' = Pledge(b) - x /\ Pledge(b) \in Nat /\ betting[b].total_pledge \in Nat
    BY <1>5, <1>8, Numbers DEF Pledge
  <2>2. paid'[b] = paid[b] + x /\ paid[b] \in Nat
    BY <1>1, <1>6, <1>8
  <2> HIDE DEF x
  <2>3. Counted(b)
    <3>1. ASSUME ~revoked'[b] PROVE betting'[b].total_pledge <= Pledge(b)' + paid'[b]
      <4>1. betting[b].total_pledge <= Pledge(b) + paid[b] /\ betting' = betting
        BY <1>2, <3>1 DEF Unrevoked
      <4> QED
        BY <1>3, <2>1, <2>2, <4>1
    <3> QED
      BY <3>1 DEF Counted
  <2>4. withdrawn'[b] = withdrawn[b]
    BY <1>2
  <2>5. ~claimed[b, u] /\ claimed'[b, u]
    <3>1. ~claimed[n, u] /\ claimed' = [claimed EXCEPT ![<<n, u>>] = TRUE]
          /\ claimed \in [Bettings \X Accounts -> BOOLEAN]
      BY DEF BettingClaim, TypeOK
    <3> QED
      BY <1>8, <3>1
  <2>6. Pledge(b) - Pledge(b)' = Payout(b, u, hit) /\ hit \in Hits(b)
    BY <1>3, <1>8, <2>1 DEF x
  <2>7. PaysRightly(b)
    BY <2>4, <2>5, <2>6 DEF PaysRightly, ClaimsKept
  <2> QED
    BY <2>3, <2>7
<1> QED
  BY <1>7, <1>8

LEMMA StepPays ==
  ASSUME Backed, Matched, Unrevoked, [Next]_vars, NEW b \in Bettings
  PROVE  PaysRightly(b) /\ Counted(b)
<1>0. TypeOK /\ TypeOK' /\ Distinct /\ ClaimsKept(b)
  BY NextBacked, ClaimsStay DEF Backed, Matched
<1>1. ASSUME Alone(b) PROVE PaysRightly(b) /\ Counted(b)
  BY <1>0, <1>1, AloneCounted
<1>2. ASSUME UNCHANGED <<free, paid, withdrawn, revoked>>,
             betting'[b].total_pledge = betting[b].total_pledge
      PROVE  PaysRightly(b) /\ Counted(b)
  BY <1>0, <1>1, <1>2, CallsAlone
<1>3. CASE Tick \/ UNCHANGED vars
  <2>1. UNCHANGED <<free, paid, withdrawn, revoked, betting>>
    BY <1>3 DEF Tick, history, vars
  <2> QED
    BY <1>2, <2>1
<1>4. CASE OrganizerCall
  <2>1. ASSUME NEW type \in BattleTypes, NEW t \in StartTimes,
               CreateBattle(type, t) \/ \E m \in Battles : UpdateBattle(m, type, t)
        PROVE  PaysRightly(b) /\ Counted(b)
    BY <1>2, <2>1 DEF CreateBattle, UpdateBattle, history
  <2>2. ASSUME NEW m \in Battles,
               \/ \E s \in Scores : SetResult(m, s)
               \/ FinalsSettle(m)
               \/ LeagueSettle(m)
        PROVE  PaysRightly(b) /\ Counted(b)
    BY <1>2, <2>2 DEF SetResult, FinalsSettle, LeagueSettle, Finalize, history
  <2>3. ASSUME NEW m \in Battles, NEW type \in {"WinLose", "Score"}, NEW list \in OddsLists,
               NEW pledge \in Amounts, CreateBetting(type, list, m, pledge)
        PROVE  PaysRightly(b) /\ Counted(b)
    <3>1. next_betting \in Bettings
      BY <2>3 DEF CreateBetting
    <3> QED
      BY <1>0, <2>3, <3>1, CreatePays
  <2>4. ASSUME NEW n \in Bettings, NEW i \in Items, NEW k \in Grades, UpdateOdds(n, i, k)
        PROVE  PaysRightly(b) /\ Counted(b)
    <3> DEFINE e == [betting[n].items[i] EXCEPT !.o = k]
    <3>1. i \in DOMAIN betting[n].items /\ betting' = WithItem(n, i, e)
      BY <2>4 DEF UpdateOdds, WithItem
    <3>2. e \in OddsItem
      BY <1>0, <3>1, ItemTyped DEF OddsItem
    <3> HIDE DEF e
    <3>3. betting'[b].total_pledge = betting[b].total_pledge
      BY <1>0, <3>1, <3>2, ItemChanged
    <3> QED
      BY <1>2, <2>4, <3>3 DEF UpdateOdds, history
  <2>5. ASSUME NEW n \in Bettings, DropBetting(n) PROVE PaysRightly(b) /\ Counted(b)
    BY <1>0, <2>5, DropPays
  <2>6. ASSUME NEW n \in Bettings, RevokeRemainCompensate(n) PROVE PaysRightly(b) /\ Counted(b)
    BY <1>0, <2>6, RevokePays
  <2> QED
    BY <1>4, <2>1, <2>2, <2>3, <2>4, <2>5, <2>6 DEF OrganizerCall
<1>5. CASE UserCall
  <2>1. ASSUME NEW u \in Accounts, NEW n \in Bettings, NEW amount \in Amounts,
               AppendBettingPledge(u, n, amount) \/ Transfer(u, n, amount)
        PROVE  PaysRightly(b) /\ Counted(b)
    BY <1>0, <2>1, AppendPays
  <2>2. ASSUME NEW u \in Accounts, NEW n \in Bettings, NEW amount \in Amounts,
               NEW i \in DOMAIN betting[n].items, Bet(u, n, i, amount)
        PROVE  PaysRightly(b) /\ Counted(b)
    <3> DEFINE item == betting[n].items[i]
               add == Won(amount, item.o)
               e == Booked(item, amount, add)
    <3>1. item \in OddsItem /\ amount \in Nat
      BY <1>0, ItemTyped, AmountAssumption
    <3>2. add \in Nat
      BY <3>1, WonNat DEF OddsItem
    <3>3. item.comp \in Nat /\ item.accounts \in Nat /\ item.buy_in \in Nat
      BY <3>1 DEF OddsItem
    <3>4. betting' = WithItem(n, i, e)
      BY <2>2 DEF Bet, WithItem
    <3> HIDE DEF item, add
    <3>5. e \in OddsItem
      <4>1. item.comp + add \in Nat /\ item.accounts + 1 \in Nat /\ item.buy_in + amount \in Nat
        BY <3>1, <3>2, <3>3
      <4> QED
        BY <3>1, <4>1 DEF OddsItem, Booked
    <3> HIDE DEF e
    <3>6. betting'[b].total_pledge = betting[b].total_pledge
      BY <1>0, <3>4, <3>5, ItemChanged
    <3>7. UNCHANGED <<paid, withdrawn, revoked>>
      BY <2>2 DEF Bet, history
    <3>8. Pledge(b)' >= Pledge(b)
      <4>1. CanTransfer(u, amount, Organizer) /\ free' = TransferToken(u, amount, Organizer)
        BY <2>2 DEF Bet
      <4>2. u \in Ledger /\ Organizer \in Ledger /\ PledgeAccount(b) \in Ledger /\ PledgeAccount(b) # u
        BY PledgeAccounts
      <4> QED
        BY <1>0, <3>1, <4>1, <4>2, Transferred DEF Pledge
    <3> QED
      BY <1>1, <3>6, <3>7, <3>8 DEF Alone
  <2>3. ASSUME NEW u \in Accounts, NEW n \in Bettings, BettingClaim(u, n)
        PROVE  PaysRightly(b) /\ Counted(b)
    BY <1>0, <2>3, ClaimPays
  <2> QED
    BY <1>5, <2>1, <2>2, <2>3 DEF UserCall, GoBet, GoBetWithInvite
<1> QED
  BY <1>3, <1>4, <1>5 DEF Next

LEMMA InitUnrevoked == Init => Unrevoked
<1> SUFFICES ASSUME Init, NEW b \in Bettings
             PROVE  betting[b].total_pledge <= Pledge(b) + paid[b]
  BY DEF Unrevoked
<1>1. Pledge(b) \in Nat /\ paid[b] \in Nat
  BY InitTypeOK, Numbers
<1>2. betting[b].total_pledge = 0
  BY DEF Init, NoBetting
<1> QED
  BY <1>1, <1>2

LEMMA NextUnrevoked == Backed /\ Matched /\ Unrevoked /\ [Next]_vars => Unrevoked'
BY StepPays DEF Unrevoked, Counted

LEMMA NextPays ==
  Backed /\ Matched /\ Unrevoked /\ [Next]_vars => \A b \in Bettings : PaysRightly(b)
BY StepPays

(* Tokens leave a pledge account to the organizer or, once and in full, to *)
(* an account that won; what revoke_remain_compensate leaves the first     *)
(* time covers what the hit item has booked and not yet paid.              *)
THEOREM PoolPaysEachOnce == Spec => PoolPaysOnce
<1>1. Init => Matched /\ Unrevoked
  BY InitMatched, InitUnrevoked
<1>2. Backed /\ Matched /\ Unrevoked /\ [Next]_vars => Matched' /\ Unrevoked'
  BY NextMatched, NextUnrevoked
<1>3. Backed /\ Matched /\ Unrevoked /\ [Next]_vars =>
        [/\ \A b \in Bettings : \A hit \in Hits(b) :
              withdrawn'[b] # withdrawn[b] /\ ~revoked[b] =>
                  Item(b, hit).comp <= Pledge(b)' + paid[b]
         /\ \A b \in Bettings, u \in Accounts : claimed[b, u] => claimed'[b, u]
         /\ \A b \in Bettings :
              Pledge(b)' < Pledge(b) =>
                  \/ free'[Organizer] - free[Organizer] = Pledge(b) - Pledge(b)'
                  \/ \E u \in Accounts, hit \in Hits(b) :
                       /\ ~claimed[b, u] /\ claimed'[b, u]
                       /\ Pledge(b) - Pledge(b)' = Payout(b, u, hit)]_vars
  <2> SUFFICES ASSUME \A b \in Bettings : PaysRightly(b)
               PROVE  /\ \A b \in Bettings : \A hit \in Hits(b) :
                           withdrawn'[b] # withdrawn[b] /\ ~revoked[b] =>
                               Item(b, hit).comp <= Pledge(b)' + paid[b]
                      /\ \A b \in Bettings, u \in Accounts : claimed[b, u] => claimed'[b, u]
                      /\ \A b \in Bettings :
                           Pledge(b)' < Pledge(b) =>
                               \/ free'[Organizer] - free[Organizer] = Pledge(b) - Pledge(b)'
                               \/ \E u \in Accounts, hit \in Hits(b) :
                                    /\ ~claimed[b, u] /\ claimed'[b, u]
                                    /\ Pledge(b) - Pledge(b)' = Payout(b, u, hit)
    BY NextPays
  <2> QED
    BY Zenon DEF PaysRightly
<1> QED
  BY <1>1, <1>2, <1>3, BackedInvariant, PTL DEF Spec, PoolPaysOnce
=============================================================================
