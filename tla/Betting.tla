------------------------------ MODULE Betting ------------------------------
(***************************************************************************)
(* Betting on the battles of a tournament (pallets/abyss-tournament).      *)
(*                                                                         *)
(* The organizer opens a betting on one battle and pledges tokens, which   *)
(* go to an account of the betting.  Each item of a betting is an outcome  *)
(* with its odds.  A bet on an item is paid to the organizer, not into the *)
(* pledge; what it would win is booked on the item and must be covered by  *)
(* the pledge account.  The organizer also runs the battles: it sets and   *)
(* settles results, and may overwrite both.  After a battle is finalized   *)
(* winners claim from the pledge account and the organizer takes back what *)
(* the hit item does not need.                                             *)
(*                                                                         *)
(* All amounts are of one token, AWT.  Seasons, npcs and the points of the *)
(* voters, which the battle calls also touch, do not occur in what follows *)
(* a bet and are left out; times are those the season allows.              *)
(***************************************************************************)
EXTENDS Integers, Sequences, FiniteSets, Sums

CONSTANTS
    NAccounts,    \* accounts are 1..NAccounts, the first is the organizer
    NBettings,    \* the bettings that may be created (a bound)
    NBattles,     \* the battles that may be created (a bound)
    NItems,       \* the most items a betting has
    OddsValues,   \* the odds in use, in percent: a sequence
    OddsLists,    \* the odds lists create_betting may be called with
    Scores,       \* the final scores in use: pairs <<home, visiting>>
    BattleTypes,  \* the battle types in use
    StartTimes,   \* the start times in use
    MinBet,       \* DefaultMinBetingAmount
    Amounts,      \* the amounts named in calls (a bound)
    Inviters,     \* the accounts whose invite codes are in use
    Funds,        \* the balances at the start
    MaxTime,      \* the last second (a bound)
    MaxBets,      \* the bets on one betting (a bound)
    MaxWithdrawn  \* what revoke_remain_compensate may pay in all (a bound)

Accounts == 1..NAccounts
Organizer == 1
Bettings == 1..NBettings
Battles == 1..NBattles
Items == 1..NItems
NGrades == Len(OddsValues)
Grades == 1..NGrades           \* odds are named by their place in OddsValues
NLedger == NAccounts + NBettings
Ledger == 1..NLedger
Slots == Bettings \X Accounts \X Items \X Grades

ASSUME CountAssumption ==
    NAccounts \in Nat \ {0} /\ NBettings \in Nat /\ NBattles \in Nat \ {0} /\ NItems \in Nat
ASSUME OddsAssumption ==
    /\ OddsValues \in Seq(Nat)
    /\ OddsLists \subseteq Seq([out : Seq(Nat), o : Grades])
    /\ \A list \in OddsLists : Len(list) <= NItems
ASSUME AmountAssumption ==
    /\ MinBet \in Nat \ {0} /\ Amounts \subseteq Nat
    /\ Funds \in [Accounts -> Nat] /\ MaxTime \in Nat /\ MaxBets \in Nat /\ MaxWithdrawn \in Nat
    /\ StartTimes \subseteq Nat /\ Scores \subseteq Nat \X Nat /\ Inviters \subseteq Accounts

VARIABLES
    now,           \* the time in seconds
    next_battle,   \* NextBattleId
    battle,        \* Battles
    next_betting,  \* NextBettingId
    betting,       \* Bettings
    stake,         \* BettingRecords: what was bet, by betting, account, item and odds
    claimed,       \* BettingRecords: the flag, by betting and account
    invited,       \* BettingInviteAmount
    free,          \* the free balances, the pledge accounts' included
    paid,          \* what claims have paid out of each pledge account
    withdrawn,     \* what revoke_remain_compensate has paid out of it
    paidOn,        \* the items on which claims have been paid
    revoked        \* it has paid out since total_pledge was last written

vars == <<now, next_battle, battle, next_betting, betting, stake, claimed, invited,
          free, paid, withdrawn, paidOn, revoked>>
battles == <<next_battle, battle>>
records == <<stake, claimed, invited>>
history == <<paid, withdrawn, paidOn, revoked>>

NoBattle == [type |-> "None", status |-> "None", start |-> 0, score |-> <<>>]
NoBetting == [battle |-> 1, type |-> "None", total_pledge |-> 0, items |-> <<>>]

OddsItem == [out : Seq(Nat), o : Grades, comp : Nat, accounts : Nat, buy_in : Nat]
BettingInfo == [battle : Battles, type : {"None", "WinLose", "Score"},
                total_pledge : Nat, items : Seq(OddsItem)]

TypeOK ==
    /\ now \in 0..MaxTime
    /\ next_battle \in 1..(NBattles + 1)
    /\ battle \in [Battles -> [type : BattleTypes \cup {"None"},
                               status : {"None", "Running", "Completed", "Finalized"},
                               start : StartTimes \cup {0}, score : Scores \cup {<<>>}]]
    /\ next_betting \in 1..(NBettings + 1)
    /\ betting \in [Bettings -> BettingInfo]
    /\ \A b \in Bettings : DOMAIN betting[b].items \subseteq Items
    /\ stake \in [Slots -> Nat]
    /\ claimed \in [Bettings \X Accounts -> BOOLEAN]
    /\ invited \in [Accounts -> Nat]
    /\ free \in [Ledger -> Nat]
    /\ paid \in [Bettings -> Nat]
    /\ withdrawn \in [Bettings -> Nat]
    /\ paidOn \in [Bettings -> SUBSET Items]
    /\ revoked \in [Bettings -> BOOLEAN]

Init ==
    /\ now = 0
    /\ next_battle = 1
    /\ battle = [m \in Battles |-> NoBattle]
    /\ next_betting = 1
    /\ betting = [b \in Bettings |-> NoBetting]
    /\ stake = [s \in Slots |-> 0]
    /\ claimed = [p \in Bettings \X Accounts |-> FALSE]
    /\ invited = [u \in Accounts |-> 0]
    /\ free = [x \in Ledger |-> IF x \in Accounts THEN Funds[x] ELSE 0]
    /\ paid = [b \in Bettings |-> 0]
    /\ withdrawn = [b \in Bettings |-> 0]
    /\ paidOn = [b \in Bettings |-> {}]
    /\ revoked = [b \in Bettings |-> FALSE]

-----------------------------------------------------------------------------
(* Accounts, odds and outcomes. *)

(* get_betting_treasury: each betting has an account of its own. *)
PledgeAccount(b) == NAccounts + b
Pledge(b) == free[PledgeAccount(b)]

(* transfer_token of the token pallet. *)
(* Mutant: the balance is not compared (wrapping subtraction). *)
CanTransferUnchecked(from, amount, to) == TRUE
CanTransfer(from, amount, to) == amount = 0 \/ from = to \/ free[from] >= amount
(* Mutant: a transfer to oneself is not special, both balances are read first. *)
TransferTokenToSelf(from, amount, to) ==
    [free EXCEPT ![from] = free[from] - amount, ![to] = free[to] + amount]
TransferToken(from, amount, to) ==
    IF from = to THEN free
    ELSE [free EXCEPT ![from] = @ - amount, ![to] = @ + amount]

Exists(b) == betting[b].type # "None"
BattleOf(b) == battle[betting[b].battle]

Won(amount, k) == (OddsValues[k] * amount) \div 100

(* OddsItem::check and Betting::check: one battle, odds above 100, every   *)
(* outcome of the type exactly once.                                       *)
Outcomes(type) ==
    IF type = "WinLose" THEN {<<1>>, <<2>>}
    ELSE {<<3, 0>>, <<3, 1>>, <<3, 2>>, <<0, 3>>, <<1, 3>>, <<2, 3>>}
Check(type, list) ==
    /\ \A i \in DOMAIN list : list[i].out \in Outcomes(type) /\ OddsValues[list[i].o] > 100
    /\ Len(list) = Cardinality(Outcomes(type))
    /\ \A i, j \in DOMAIN list : i # j => list[i].out # list[j].out

(* calc_betting_hit_index, for a finalized battle: the items that match    *)
(* its score.  There is none if the score is not one that can be bet on.   *)
Result(b) ==
    LET s == BattleOf(b).score
    IN  IF betting[b].type = "Score" THEN s
        ELSE IF s[1] > s[2] THEN <<1>> ELSE <<2>>
Hits(b) ==
    IF Exists(b) /\ BattleOf(b).status = "Finalized"
    THEN {i \in DOMAIN betting[b].items : betting[b].items[i].out = Result(b)}
    ELSE {}

(* What the bets of u on an item win, and those of everybody. *)
Payout(b, u, i) == SumTo([k \in Grades |-> Won(stake[b, u, i, k], k)], NGrades)
TotalPayout(b, i) == SumTo([u \in Accounts |-> Payout(b, u, i)], NAccounts)

-----------------------------------------------------------------------------
(* Battles, run by the organizer. *)

Tick ==
    /\ now < MaxTime
    /\ now' = now + 1
    /\ UNCHANGED <<battles, next_betting, betting, records, free, history>>

NewBattle(type, t) == [type |-> type, status |-> "Running", start |-> t, score |-> <<>>]

CreateBattle(type, t) ==
    /\ next_battle \in Battles
    /\ battle' = [battle EXCEPT ![next_battle] = NewBattle(type, t)]
    /\ next_battle' = next_battle + 1
    /\ UNCHANGED <<now, next_betting, betting, records, free, history>>

(* Overwrites the battle whatever its status, and creates one that does    *)
(* not exist yet.                                                          *)
UpdateBattle(m, type, t) ==
    /\ battle' = [battle EXCEPT ![m] = NewBattle(type, t)]
    /\ UNCHANGED <<now, next_battle, next_betting, betting, records, free, history>>

(* set_result may be called again, also after the battle is finalized. *)
SetResult(m, s) ==
    /\ battle[m].status # "None"
    /\ battle' = [battle EXCEPT ![m].score = s, ![m].status = "Completed"]
    /\ UNCHANGED <<now, next_battle, next_betting, betting, records, free, history>>

Finalize(m) ==
    /\ battle[m].status = "Completed"
    /\ battle' = [battle EXCEPT ![m].status = "Finalized"]
    /\ UNCHANGED <<now, next_battle, next_betting, betting, records, free, history>>
FinalsSettle(m) == battle[m].type \in {"QuarterFinals", "SemiFinals", "Finals"} /\ Finalize(m)
LeagueSettle(m) == battle[m].type = "League" /\ Finalize(m)

-----------------------------------------------------------------------------
(* The organizer's calls on a betting. *)

CreateBetting(type, list, m, pledge) ==
    LET b == next_betting IN
    /\ b \in Bettings
    /\ pledge > 0
    /\ Check(type, list)
    /\ CanTransfer(Organizer, pledge, PledgeAccount(b))
    /\ free' = TransferToken(Organizer, pledge, PledgeAccount(b))
    /\ betting' = [betting EXCEPT ![b] =
         [battle |-> m, type |-> type, total_pledge |-> pledge,
          items |-> [i \in DOMAIN list |->
              [out |-> list[i].out, o |-> list[i].o, comp |-> 0, accounts |-> 0, buy_in |-> 0]]]]
    /\ next_betting' = b + 1
    /\ UNCHANGED <<now, battles, records, history>>

(* Mutant: the item is replaced by a new one, its booking lost. *)
UpdateOddsNewItem(b, i, k) ==
    /\ Exists(b)
    /\ i \in DOMAIN betting[b].items
    /\ OddsValues[k] > 100
    /\ betting' = [betting EXCEPT ![b].items[i] = [@ EXCEPT !.o = k, !.comp = 0]]
    /\ UNCHANGED <<now, battles, next_betting, records, free, history>>

UpdateOdds(b, i, k) ==
    /\ Exists(b)
    /\ i \in DOMAIN betting[b].items
    /\ OddsValues[k] > 100
    /\ betting' = [betting EXCEPT ![b].items[i].o = k]
    /\ UNCHANGED <<now, battles, next_betting, records, free, history>>

(* Mutant: also with bets. *)
DropBettingWithBets(b) ==
    /\ Exists(b)
    /\ free' = TransferToken(PledgeAccount(b), Pledge(b), Organizer)
    /\ betting' = [betting EXCEPT ![b].total_pledge = 0]
    /\ revoked' = [revoked EXCEPT ![b] = FALSE]
    /\ UNCHANGED <<now, battles, next_betting, records, paid, withdrawn, paidOn>>

(* Allowed while nothing is booked; the betting stays open. *)
DropBetting(b) ==
    /\ Exists(b)
    /\ \A i \in DOMAIN betting[b].items : betting[b].items[i].comp = 0
    /\ free' = TransferToken(PledgeAccount(b), Pledge(b), Organizer)
    /\ betting' = [betting EXCEPT ![b].total_pledge = 0]
    /\ revoked' = [revoked EXCEPT ![b] = FALSE]
    /\ UNCHANGED <<now, battles, next_betting, records, paid, withdrawn, paidOn>>

(* Pays out again and again: total_pledge stays as it is. *)
RevokeRemainCompensate(b) ==
    \E hit \in Hits(b) :
        LET remain == betting[b].total_pledge - betting[b].items[hit].comp IN
        /\ remain > 0
        /\ withdrawn[b] + remain <= MaxWithdrawn
        /\ CanTransfer(PledgeAccount(b), remain, Organizer)
        /\ free' = TransferToken(PledgeAccount(b), remain, Organizer)
        /\ withdrawn' = [withdrawn EXCEPT ![b] = @ + remain]
        /\ revoked' = [revoked EXCEPT ![b] = TRUE]
        /\ UNCHANGED <<now, battles, next_betting, betting, records, paid, paidOn>>

-----------------------------------------------------------------------------
(* Calls of everybody. *)

(* Mutant: the amount is added to a balance that has it already. *)
AppendBettingPledgeTwice(u, b, amount) ==
    /\ amount > 0
    /\ Exists(b)
    /\ BattleOf(b).status \notin {"None", "Finalized"}
    /\ CanTransfer(u, amount, PledgeAccount(b))
    /\ free' = TransferToken(u, amount, PledgeAccount(b))
    /\ betting' = [betting EXCEPT ![b].total_pledge = free'[PledgeAccount(b)] + amount]
    /\ revoked' = [revoked EXCEPT ![b] = FALSE]
    /\ UNCHANGED <<now, battles, next_betting, records, paid, withdrawn, paidOn>>

AppendBettingPledge(u, b, amount) ==
    /\ amount > 0
    /\ Exists(b)
    /\ BattleOf(b).status \notin {"None", "Finalized"}
    /\ CanTransfer(u, amount, PledgeAccount(b))
    /\ free' = TransferToken(u, amount, PledgeAccount(b))
    /\ betting' = [betting EXCEPT ![b].total_pledge = free'[PledgeAccount(b)]]
    /\ revoked' = [revoked EXCEPT ![b] = FALSE]
    /\ UNCHANGED <<now, battles, next_betting, records, paid, withdrawn, paidOn>>

(* A transfer of the token pallet to a pledge account. *)
Transfer(u, b, amount) ==
    /\ amount > 0
    /\ CanTransfer(u, amount, PledgeAccount(b))
    /\ free' = TransferToken(u, amount, PledgeAccount(b))
    /\ UNCHANGED <<now, battles, next_betting, betting, records, history>>

(* Bets close at the start time; the status of the battle is not looked at. *)
Open(b) == BattleOf(b).status # "None" /\ now < BattleOf(b).start

(* Mutant: what is booked already is compared, without the new bet. *)
CoveredBefore(b, booked, add) == booked <= Pledge(b)
Covered(b, booked, add) == booked + add <= Pledge(b)

Bets(b) == SumTo([i \in DOMAIN betting[b].items |-> betting[b].items[i].accounts],
                 Len(betting[b].items))

Booked(item, amount, add) ==
    [item EXCEPT !.comp = @ + add, !.accounts = @ + 1, !.buy_in = @ + amount]

(* The stake is added to the record with this item and the odds of now. *)
Bet(u, b, i, amount) ==
    LET item == betting[b].items[i]
        add == Won(amount, item.o)
    IN  /\ Bets(b) < MaxBets
        /\ amount >= MinBet
        /\ Open(b)
        /\ Covered(b, item.comp, add)
        /\ CanTransfer(u, amount, Organizer)
        /\ free' = TransferToken(u, amount, Organizer)
        /\ stake' = [stake EXCEPT ![<<b, u, i, item.o>>] = @ + amount]
        /\ betting' = [betting EXCEPT ![b].items[i] = Booked(item, amount, add)]
        /\ UNCHANGED <<now, battles, next_betting, claimed, history>>

GoBet(u, b, i, amount) ==
    /\ Exists(b) /\ i \in DOMAIN betting[b].items
    /\ Bet(u, b, i, amount)
    /\ UNCHANGED invited

GoBetWithInvite(u, b, i, amount, inviter) ==
    /\ Exists(b) /\ i \in DOMAIN betting[b].items
    /\ Bet(u, b, i, amount)
    /\ invited' = IF inviter # u THEN [invited EXCEPT ![inviter] = @ + amount] ELSE invited

HasRecord(u, b) == \E i \in Items, k \in Grades : stake[b, u, i, k] > 0

(* Mutant: the flag is not set. *)
BettingClaimAgain(u, b) ==
    /\ ~claimed[b, u]
    /\ HasRecord(u, b)
    /\ \E hit \in Hits(b) :
         LET amount == Payout(b, u, hit) IN
         /\ CanTransfer(PledgeAccount(b), amount, u)
         /\ free' = TransferToken(PledgeAccount(b), amount, u)
         /\ paid' = [paid EXCEPT ![b] = @ + amount]
         /\ paidOn' = [paidOn EXCEPT ![b] = IF amount > 0 THEN @ \cup {hit} ELSE @]
    /\ UNCHANGED <<now, battles, next_betting, betting, records, withdrawn, revoked>>

(* A claim that wins nothing sets the flag too. *)
BettingClaim(u, b) ==
    /\ ~claimed[b, u]
    /\ HasRecord(u, b)
    /\ \E hit \in Hits(b) :
         LET amount == Payout(b, u, hit) IN
         /\ CanTransfer(PledgeAccount(b), amount, u)
         /\ free' = TransferToken(PledgeAccount(b), amount, u)
         /\ paid' = [paid EXCEPT ![b] = @ + amount]
         /\ paidOn' = [paidOn EXCEPT ![b] = IF amount > 0 THEN @ \cup {hit} ELSE @]
    /\ claimed' = [claimed EXCEPT ![<<b, u>>] = TRUE]
    /\ UNCHANGED <<now, battles, next_betting, betting, stake, invited, withdrawn, revoked>>

-----------------------------------------------------------------------------
OrganizerCall ==
    \/ \E type \in BattleTypes, t \in StartTimes :
         \/ CreateBattle(type, t)
         \/ \E m \in Battles : UpdateBattle(m, type, t)
    \/ \E m \in Battles :
         \/ \E s \in Scores : SetResult(m, s)
         \/ FinalsSettle(m)
         \/ LeagueSettle(m)
         \/ \E type \in {"WinLose", "Score"}, list \in OddsLists, pledge \in Amounts :
              CreateBetting(type, list, m, pledge)
    \/ \E b \in Bettings :
         \/ \E i \in Items, k \in Grades : UpdateOdds(b, i, k)
         \/ DropBetting(b)
         \/ RevokeRemainCompensate(b)

UserCall ==
    \E u \in Accounts, b \in Bettings :
        \/ \E amount \in Amounts :
             \/ AppendBettingPledge(u, b, amount)
             \/ Transfer(u, b, amount)
             \/ \E i \in Items :
                  \/ GoBet(u, b, i, amount)
                  \/ \E inviter \in Inviters : GoBetWithInvite(u, b, i, amount, inviter)
        \/ BettingClaim(u, b)

Next == Tick \/ OrganizerCall \/ UserCall

Spec == Init /\ [][Next]_vars

-----------------------------------------------------------------------------
(* Properties. *)

ItemsOf(b) == DOMAIN betting[b].items
Item(b, i) == betting[b].items[i]
Staked(b, i) ==
    SumTo([u \in Accounts |-> SumTo([k \in Grades |-> stake[b, u, i, k]], NGrades)], NAccounts)

(* Whatever an item has booked is in the pledge account, unless claims or  *)
(* the organizer have taken it: go_bet checks the booking of one item      *)
(* against the balance, and no other call may undercut it.                 *)
BookedIsBacked ==
    \A b \in Bettings : \A i \in ItemsOf(b) :
        Item(b, i).comp <= Pledge(b) + paid[b] + withdrawn[b]

(* go_bet rounds each bet down, betting_claim rounds the sum of the bets   *)
(* with the same odds down: what an item has booked and what its bets win  *)
(* differ by less than one unit per bet, and never in the claimants'       *)
(* disfavour.  The buy-in is the sum of the stakes.                        *)
BooksMatchRecords ==
    \A b \in Bettings : \A i \in ItemsOf(b) :
        LET item == Item(b, i) IN
        /\ item.comp <= TotalPayout(b, i)
        /\ IF item.accounts = 0 THEN TotalPayout(b, i) = 0
           ELSE TotalPayout(b, i) < item.comp + item.accounts
        /\ item.buy_in = Staked(b, i)

(* As long as the organizer has not taken back the remains and claims were *)
(* paid for no other result, the pledge account lacks less than a unit per *)
(* bet of what the winners may still claim.                                *)
WinnersShortOnlyDust ==
    \A b \in Bettings : \A hit \in Hits(b) :
        withdrawn[b] = 0 /\ paidOn[b] \subseteq {hit} =>
            LET owed == SumTo([u \in Accounts |->
                           IF claimed[b, u] THEN 0 ELSE Payout(b, u, hit)], NAccounts)
            IN  owed = 0 \/ owed < Pledge(b) + Item(b, hit).accounts

(* Tokens leave a pledge account in two ways: to the organizer, or to an   *)
(* account that had bet, that is paid exactly what its bets on the hit     *)
(* item win and that can never be paid again.  And the organizer's         *)
(* revoke_remain_compensate, the first time after total_pledge was         *)
(* written, leaves what the hit item has booked and not yet paid.          *)
PoolPaysOnce ==
    [][/\ \A b \in Bettings : \A hit \in Hits(b) :
            withdrawn'[b] # withdrawn[b] /\ ~revoked[b] =>
                Item(b, hit).comp <= Pledge(b)' + paid[b]
       /\ \A b \in Bettings, u \in Accounts : claimed[b, u] => claimed'[b, u]
       /\ \A b \in Bettings :
            Pledge(b)' < Pledge(b) =>
                \/ free'[Organizer] - free[Organizer] = Pledge(b) - Pledge(b)'
                \/ \E u \in Accounts, hit \in Hits(b) :
                     /\ ~claimed[b, u] /\ claimed'[b, u]
                     /\ Pledge(b) - Pledge(b)' = Payout(b, u, hit)]_vars

(* Betting moves tokens and makes none: the balances of all accounts, the  *)
(* pledge accounts included, add up to what there was.                     *)
Conservation == SumTo(free, NLedger) = SumTo(Funds, NAccounts)

(* The books of the pallet are sound: no balance or booking below zero,    *)
(* bookings worth what the records say, and no token made or lost.         *)
BooksAreSound == TypeOK /\ BooksMatchRecords /\ Conservation
=============================================================================
