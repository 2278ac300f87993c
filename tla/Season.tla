------------------------------- MODULE Season -------------------------------
(***************************************************************************)
(* Tickets, votes and the prize pool of a season of the tournament         *)
(* (pallets/abyss-tournament).                                             *)
(*                                                                         *)
(* Tickets are bought, given away and passed on.  A vote ("select") stakes *)
(* tickets on the winners of some battles of the first round; later it may *)
(* be extended to more battles, or split off with some of its tickets.     *)
(* The organizer sets and settles results: settling gives every select     *)
(* that picked in the battle a game, and a win if it picked the winner.    *)
(* Closing the season fixes, from the points, how many tickets were right  *)
(* in all battles or in all but one, and the bonus they share; claiming    *)
(* compares the picks with the winners.                                    *)
(*                                                                         *)
(* One season, which is the default one.  Its name, price and round are    *)
(* set once.  Points are games and wins: the third counter is three times  *)
(* the wins.  The points of npcs in a league are read by nobody.           *)
(***************************************************************************)
EXTENDS Integers, Sequences, FiniteSets, Sums

CONSTANTS
    NAccounts,    \* accounts are 1..NAccounts
    NBattles,     \* the battles that may be created (a bound)
    MaxSelects,   \* the selects of one account (a bound)
    MaxGames,     \* the games scored for one select (a bound)
    MaxClosings,  \* the times the season is closed (a bound)
    Reopening,    \* whether settled battles are changed (a bound)
    Pairings,     \* the pairs of npcs, positive numbers, that meet in battles
    BattleTypes,  \* the battle types in use
    FirstTypes,   \* the types a season may start with
    TicketPrice,
    MaxTicketAmount,
    Amounts,      \* the numbers of tickets named in calls (a bound)
    Given,        \* the tickets the organizer gives away at most (a bound)
    Inviters,     \* the accounts whose invite codes are in use
    Receivers,    \* the accounts the organizer withdraws to (a bound)
    Funds,        \* the balances at the start
    Sponsored,    \* what the treasury of the season holds at the start
    StartTime,    \* when the season and its battles start
    MaxTime       \* the last second (a bound)

Accounts == 1..NAccounts
Battles == 1..NBattles
Indices == 1..MaxSelects
Treasury == NAccounts + 1      \* get_season_treasury
BvbTreasury == NAccounts + 2
Ledger == 1..(NAccounts + 2)
Selects == Accounts \X Indices
Npcs == UNION {{p[1], p[2]} : p \in Pairings}

(* BattleType::total_battles, for the battle types that can be settled. *)
TotalOf == [QuarterFinals |-> 7, SemiFinals |-> 3, Finals |-> 1, League |-> 35]

ASSUME CountAssumption ==
    /\ NAccounts \in Nat /\ NBattles \in Nat /\ MaxSelects \in Nat
    /\ MaxTicketAmount \in Nat
    /\ FirstTypes \subseteq DOMAIN TotalOf /\ BattleTypes \subseteq DOMAIN TotalOf
    /\ Pairings \subseteq (Nat \ {0}) \X (Nat \ {0}) /\ Amounts \subseteq Nat /\ Inviters \subseteq Accounts
    /\ Receivers \subseteq Accounts /\ MaxClosings \in Nat
    /\ StartTime \in Nat /\ MaxTime \in Nat /\ Given \in Nat /\ MaxGames \in Nat
    /\ Reopening \in BOOLEAN
ASSUME MoneyAssumption ==
    TicketPrice \in Nat \ {0} /\ Funds \in [Accounts -> Nat] /\ Sponsored \in Nat

VARIABLES
    now,       \* the time in seconds
    next_battle, \* NextBattleId
    battle,    \* Battles, and the winner in SeasonWinners
    tickets,   \* Tickets: bought or received, and not yet voted with
    given,     \* the tickets given away so far
    votes,     \* VoteSelectInfos: the selects of each account
    claimed,   \* VoteSelectInfos: the flag
    calc,      \* VotesForCalc: who picked whom in each battle
    points,    \* ParticipantPoints
    season,    \* Seasons: first_finals_battle_type, status, bonus_strategy, total_tickets;
               \* how often it was closed
    free,      \* the balances of AWT, the treasuries' included
    disturbed, \* a battle was changed after it had been settled
    sound      \* the season was closed on settled results and left alone since

vars == <<now, next_battle, battle, tickets, given, votes, claimed, calc, points, season, free,
          disturbed, sound>>
battles == <<next_battle, battle>>

NoBattle == [type |-> "None", status |-> "None", home |-> 0, visiting |-> 0, winner |-> 0]
NoPicks == [m \in Battles |-> 0]
NoPoints == [known |-> FALSE, games |-> 0, wins |-> 0]

Select == [tickets : Nat, picks : [Battles -> Npcs \cup {0}]]
Points == [known : BOOLEAN, games : Nat, wins : Nat]
Bonus == [right : Nat, tickets : Nat, amount : Nat]

TypeOK ==
    /\ now \in 0..MaxTime
    /\ next_battle \in 1..(NBattles + 1)
    /\ battle \in [Battles -> [type : BattleTypes \cup {"None"},
                               status : {"None", "Running", "Completed", "Finalized"},
                               home : Npcs \cup {0}, visiting : Npcs \cup {0},
                               winner : Npcs \cup {0}]]
    /\ tickets \in [Accounts -> [total : Nat, remain : Nat]]
    /\ given \in 0..Given
    /\ votes \in [Accounts -> Seq(Select)]
    /\ \A u \in Accounts : DOMAIN votes[u] \subseteq Indices
    /\ claimed \in [Accounts -> BOOLEAN]
    /\ calc \in [Battles -> [Selects -> Npcs \cup {0}]]
    /\ points \in [Selects -> Points]
    /\ season \in [first : FirstTypes, status : {"Initial", "Finalized"}, bonus : Seq(Bonus),
                   closings : 0..MaxClosings, total_tickets : Nat]
    /\ free \in [Ledger -> Nat]
    /\ disturbed \in BOOLEAN /\ sound \in BOOLEAN

Init ==
    /\ now = 0
    /\ next_battle = 1
    /\ battle = [m \in Battles |-> NoBattle]
    /\ tickets = [u \in Accounts |-> [total |-> 0, remain |-> 0]]
    /\ given = 0
    /\ votes = [u \in Accounts |-> <<>>]
    /\ claimed = [u \in Accounts |-> FALSE]
    /\ calc = [m \in Battles |-> [s \in Selects |-> 0]]
    /\ points = [s \in Selects |-> NoPoints]
    /\ season \in [first : FirstTypes, status : {"Initial"}, bonus : {<<>>}, closings : {0}, total_tickets : {0}]
    /\ free = [x \in Ledger |-> IF x \in Accounts THEN Funds[x]
                                ELSE IF x = Treasury THEN Sponsored ELSE 0]
    /\ disturbed = FALSE
    /\ sound = FALSE

-----------------------------------------------------------------------------
(* Tickets. *)

(* What u pays, and to whom: 85% to the season, 5% to the inviter, the     *)
(* rest to the house.                                                      *)
(* Mutant: the house does not bear the inviter's share. *)
SaleInviteExtra(u, n, inviter) ==
    LET m == TicketPrice * n
        bonus == (m * 85) \div 100
        invite == IF inviter \in Accounts \ {u} THEN (m * 5) \div 100 ELSE 0
    IN  [x \in Ledger |->
           free[x] - (IF x = u THEN m ELSE 0)
                   + (IF x = Treasury THEN bonus ELSE 0)
                   + (IF x = inviter THEN invite ELSE 0)
                   + (IF x = BvbTreasury THEN m - bonus ELSE 0)]

Sale(u, n, inviter) ==
    LET m == TicketPrice * n
        bonus == (m * 85) \div 100
        invite == IF inviter \in Accounts \ {u} THEN (m * 5) \div 100 ELSE 0
    IN  [x \in Ledger |->
           free[x] - (IF x = u THEN m ELSE 0)
                   + (IF x = Treasury THEN bonus ELSE 0)
                   + (IF x = inviter THEN invite ELSE 0)
                   + (IF x = BvbTreasury THEN m - bonus - invite ELSE 0)]

AddTickets(ts, u, n) ==
    [ts EXCEPT ![u] = [total |-> @.total + n, remain |-> @.remain + n]]

(* inviter 0 stands for a code that is nobody's. *)
BuyTicket(u, n, inviter) ==
    /\ now < StartTime
    /\ n > 0 /\ tickets[u].total + n <= MaxTicketAmount
    /\ TicketPrice * n <= free[u]
    /\ free' = Sale(u, n, inviter)
    /\ tickets' = AddTickets(tickets, u, n)
    /\ season' = [season EXCEPT !.total_tickets = @ + n]
    /\ UNCHANGED <<now, battles, given, votes, claimed, calc, points, disturbed, sound>>

GiveAwayTickets(u) ==
    /\ given < Given
    /\ given' = given + 1
    /\ tickets' = AddTickets(tickets, u, 1)
    /\ UNCHANGED <<now, battles, votes, claimed, calc, points, season, free, disturbed, sound>>

(* Mutant: both holdings are read first. *)
TransferTicketStale(u, v, n) ==
    /\ n > 0 /\ tickets[u].total >= n /\ tickets[u].remain >= n
    /\ tickets' = [tickets EXCEPT ![u] = AddTickets(tickets, u, -n)[u],
                                 ![v] = AddTickets(tickets, v, n)[v]]
    /\ UNCHANGED <<now, battles, given, votes, claimed, calc, points, season, free,
                   disturbed, sound>>

TransferTicket(u, v, n) ==
    /\ n > 0 /\ tickets[u].total >= n /\ tickets[u].remain >= n
    /\ tickets' = AddTickets(AddTickets(tickets, u, -n), v, n)
    /\ UNCHANGED <<now, battles, given, votes, claimed, calc, points, season, free,
                   disturbed, sound>>

-----------------------------------------------------------------------------
(* Votes.  A list of votes is a function from battles to npcs, 0 for no    *)
(* vote: the calls refuse a battle that is named twice.                    *)

Voted(picks) == {m \in Battles : picks[m] # 0}

CanPick(picks) ==
    /\ Voted(picks) # {}
    /\ \A m \in Voted(picks) :
         /\ picks[m] \in {battle[m].home, battle[m].visiting}
         /\ battle[m].status = "Running"
         /\ now < StartTime

Count(u, index, picks) ==
    [m \in Battles |-> IF m \in Voted(picks) THEN [calc[m] EXCEPT ![<<u, index>>] = picks[m]]
                       ELSE calc[m]]

(* Mutant: compared with all tickets, not with those that remain. *)
InitialVoteOfTotal(u, n, picks) ==
    /\ Len(votes[u]) < MaxSelects
    /\ n > 0 /\ tickets[u].total >= n
    /\ CanPick(picks)
    /\ \A m \in Voted(picks) : battle[m].type = season.first
    /\ calc' = Count(u, Len(votes[u]) + 1, picks)
    /\ votes' = [votes EXCEPT ![u] = Append(@, [tickets |-> n, picks |-> picks])]
    /\ tickets' = [tickets EXCEPT ![u].remain = @ - n]
    /\ UNCHANGED <<now, battles, given, claimed, points, season, free, disturbed, sound>>

InitialVote(u, n, picks) ==
    /\ Len(votes[u]) < MaxSelects
    /\ n > 0 /\ tickets[u].remain >= n
    /\ CanPick(picks)
    /\ \A m \in Voted(picks) : battle[m].type = season.first
    /\ calc' = Count(u, Len(votes[u]) + 1, picks)
    /\ votes' = [votes EXCEPT ![u] = Append(@, [tickets |-> n, picks |-> picks])]
    /\ tickets' = [tickets EXCEPT ![u].remain = @ - n]
    /\ UNCHANGED <<now, battles, given, claimed, points, season, free, disturbed, sound>>

Joined(old, new) == [m \in Battles |-> IF new[m] # 0 THEN new[m] ELSE old[m]]

(* The caller names a round after the first one; the battles he names may  *)
(* be of any.                                                              *)
CanAppend(u, i, n, picks) ==
    /\ season.first # "Finals"
    /\ i \in DOMAIN votes[u]
    /\ n > 0 /\ n <= votes[u][i].tickets
    /\ Voted(picks) \cap Voted(votes[u][i].picks) = {}
    /\ CanPick(picks)

(* With all its tickets, a select is extended. *)
AppendVote(u, i, picks) ==
    /\ CanAppend(u, i, votes[u][i].tickets, picks)
    /\ votes' = [votes EXCEPT ![u] = [@ EXCEPT ![i].picks = Joined(votes[u][i].picks, picks)]]
    /\ calc' = Count(u, i, picks)
    /\ UNCHANGED <<now, battles, tickets, given, claimed, points, season, free, disturbed, sound>>

(* Mutant: the old select keeps its tickets. *)
SplitVoteKeepsTickets(u, i, n, picks) ==
    LET all == Joined(votes[u][i].picks, picks)
        new == Len(votes[u]) + 1
    IN  /\ CanAppend(u, i, n, picks)
        /\ n < votes[u][i].tickets
        /\ new <= MaxSelects
        /\ votes' = [votes EXCEPT ![u] = Append(@,
                                                [tickets |-> n, picks |-> all])]
        /\ calc' = Count(u, new, all)
        /\ points' = [points EXCEPT ![<<u, new>>] = [points[u, i] EXCEPT !.known = TRUE]]
        /\ UNCHANGED <<now, battles, tickets, given, claimed, season, free, disturbed, sound>>

(* Mutant: only the new picks are counted. *)
SplitVoteCountsNew(u, i, n, picks) ==
    LET all == Joined(votes[u][i].picks, picks)
        new == Len(votes[u]) + 1
    IN  /\ CanAppend(u, i, n, picks)
        /\ n < votes[u][i].tickets
        /\ new <= MaxSelects
        /\ votes' = [votes EXCEPT ![u] = Append([@ EXCEPT ![i].tickets = votes[u][i].tickets - n],
                                                [tickets |-> n, picks |-> all])]
        /\ calc' = Count(u, new, picks)
        /\ points' = [points EXCEPT ![<<u, new>>] = [points[u, i] EXCEPT !.known = TRUE]]
        /\ UNCHANGED <<now, battles, tickets, given, claimed, season, free, disturbed, sound>>

(* Mutant: the new select starts without points. *)
SplitVoteWithoutPoints(u, i, n, picks) ==
    LET all == Joined(votes[u][i].picks, picks)
        new == Len(votes[u]) + 1
    IN  /\ CanAppend(u, i, n, picks)
        /\ n < votes[u][i].tickets
        /\ new <= MaxSelects
        /\ votes' = [votes EXCEPT ![u] = Append([@ EXCEPT ![i].tickets = votes[u][i].tickets - n],
                                                [tickets |-> n, picks |-> all])]
        /\ calc' = Count(u, new, all)
        /\ points' = [points EXCEPT ![<<u, new>>].known = TRUE]
        /\ UNCHANGED <<now, battles, tickets, given, claimed, season, free, disturbed, sound>>

(* With some of them, a new select takes over its picks and points. *)
SplitVote(u, i, n, picks) ==
    LET all == Joined(votes[u][i].picks, picks)
        new == Len(votes[u]) + 1
    IN  /\ CanAppend(u, i, n, picks)
        /\ n < votes[u][i].tickets
        /\ new <= MaxSelects
        /\ votes' = [votes EXCEPT ![u] = Append([@ EXCEPT ![i].tickets = votes[u][i].tickets - n],
                                                [tickets |-> n, picks |-> all])]
        /\ calc' = Count(u, new, all)
        /\ points' = [points EXCEPT ![<<u, new>>] = [points[u, i] EXCEPT !.known = TRUE]]
        /\ UNCHANGED <<now, battles, tickets, given, claimed, season, free, disturbed, sound>>

-----------------------------------------------------------------------------
(* Battles, run by the organizer. *)

Tick ==
    /\ now < MaxTime
    /\ now' = now + 1
    /\ UNCHANGED <<battles, tickets, given, votes, claimed, calc, points, season, free,
                   disturbed, sound>>

OrganizerOnly == UNCHANGED <<now, tickets, given, votes, claimed, calc>>

(* The new battle; SeasonWinners keeps the winner of the one it replaces.  *)
Put(m, type, pair) ==
    /\ pair[1] # pair[2]
    /\ Reopening \/ battle[m].status # "Finalized"
    /\ battle' = [battle EXCEPT ![m] = [type |-> type, status |-> "Running", home |-> pair[1],
                                       visiting |-> pair[2], winner |-> battle[m].winner]]
    /\ disturbed' = (disturbed \/ battle[m].status = "Finalized")
    /\ sound' = FALSE
    /\ OrganizerOnly /\ UNCHANGED <<points, season, free>>

CreateBattle(type, pair) ==
    /\ next_battle \in Battles
    /\ Put(next_battle, type, pair)
    /\ next_battle' = next_battle + 1

(* Overwrites the battle whatever its status, and creates one that does    *)
(* not exist yet.                                                          *)
UpdateBattle(m, type, pair) == Put(m, type, pair) /\ UNCHANGED next_battle

SetResult(m, winner) ==
    /\ battle[m].status # "None"
    /\ winner \in {battle[m].home, battle[m].visiting}
    /\ battle' = [battle EXCEPT ![m].winner = winner, ![m].status = "Completed"]
    /\ Reopening \/ battle[m].status # "Finalized"
    /\ disturbed' = (disturbed \/ battle[m].status = "Finalized")
    /\ sound' = FALSE
    /\ OrganizerOnly /\ UNCHANGED <<next_battle, points, season, free>>

(* update_participant_point *)
Scored(m) ==
    [s \in Selects |->
        IF calc[m][s] = 0 THEN points[s]
        ELSE [known |-> TRUE, games |-> points[s].games + 1,
              wins |-> points[s].wins + (IF calc[m][s] = battle[m].winner THEN 1 ELSE 0)]]

Settle(m) ==
    /\ battle[m].status = "Completed"
    /\ \A s \in Selects : Scored(m)[s].games <= MaxGames
    /\ points' = Scored(m)
    /\ battle' = [battle EXCEPT ![m].status = "Finalized"]
    /\ sound' = FALSE
    /\ OrganizerOnly /\ UNCHANGED <<next_battle, season, free, disturbed>>

FinalsSettle(m) == battle[m].type \in {"QuarterFinals", "SemiFinals", "Finals"} /\ Settle(m)
LeagueSettle(m) == battle[m].type = "League" /\ Settle(m)

-----------------------------------------------------------------------------
(* Closing and claiming. *)

TotalBattles == TotalOf[season.first]

(* The tickets of the selects of u with so many wins, and of all. *)
TicketsOf(u, wins) ==
    SumTo([i \in Indices |->
        IF i \in DOMAIN votes[u] /\ points[u, i].known /\ points[u, i].wins = wins
        THEN votes[u][i].tickets ELSE 0], MaxSelects)
TicketsWith(wins) == SumTo([u \in Accounts |-> TicketsOf(u, wins)], NAccounts)

(* May be called again: the bonus is what the treasury then holds. *)
CloseSeason ==
    LET b == free[Treasury]
        champion == (b * 7) \div 8
    IN  /\ season.closings < MaxClosings
        /\ season' = [season EXCEPT !.status = "Finalized", !.closings = @ + 1, !.bonus = <<
             [right |-> TotalBattles, tickets |-> TicketsWith(TotalBattles),
              amount |-> champion],
             [right |-> TotalBattles - 1, tickets |-> TicketsWith(TotalBattles - 1),
              amount |-> b - champion]>>]
        /\ sound' = (~disturbed /\ \A m \in Battles : battle[m].status \in {"None", "Finalized"})
        /\ OrganizerOnly /\ UNCHANGED <<battles, points, free, disturbed>>

WithdrawSeasonTreasury(u, amount) ==
    /\ amount > 0 /\ amount <= free[Treasury]
    /\ free' = [free EXCEPT ![Treasury] = @ - amount, ![u] = @ + amount]
    /\ sound' = FALSE
    /\ OrganizerOnly /\ UNCHANGED <<battles, points, season, disturbed>>

Right(picks) == Cardinality({m \in Voted(picks) : picks[m] = battle[m].winner})

(* The bonus of a ticket is at most a hundred times its price. *)
PerTicket(b) ==
    LET share == b.amount \div b.tickets
    IN  IF share > TicketPrice * 100 THEN TicketPrice * 100 ELSE share

SelectBonus(s) ==
    SumTo([j \in DOMAIN season.bonus |->
        LET b == season.bonus[j]
        IN  IF Right(s.picks) = b.right /\ b.tickets > 0 THEN PerTicket(b) * s.tickets ELSE 0],
        Len(season.bonus))

ClaimAmount(u) ==
    SumTo([i \in Indices |-> IF i \in DOMAIN votes[u] THEN SelectBonus(votes[u][i]) ELSE 0],
          MaxSelects)

(* Mutant: the flag is not set. *)
ClaimAgain(u) ==
    /\ season.status = "Finalized"
    /\ Len(votes[u]) > 0 /\ ~claimed[u]
    /\ \A i \in DOMAIN votes[u] : \A m \in Voted(votes[u][i].picks) : battle[m].winner # 0
    /\ ClaimAmount(u) <= free[Treasury]
    /\ free' = [free EXCEPT ![Treasury] = @ - ClaimAmount(u), ![u] = @ + ClaimAmount(u)]
    /\ UNCHANGED <<now, battles, tickets, given, votes, claimed, calc, points, season, disturbed, sound>>

(* A vote on a battle that never had a result makes the call fail. *)
Claim(u) ==
    /\ season.status = "Finalized"
    /\ Len(votes[u]) > 0 /\ ~claimed[u]
    /\ \A i \in DOMAIN votes[u] : \A m \in Voted(votes[u][i].picks) : battle[m].winner # 0
    /\ ClaimAmount(u) <= free[Treasury]
    /\ free' = [free EXCEPT ![Treasury] = @ - ClaimAmount(u), ![u] = @ + ClaimAmount(u)]
    /\ claimed' = [claimed EXCEPT ![u] = TRUE]
    /\ UNCHANGED <<now, battles, tickets, given, votes, calc, points, season, disturbed, sound>>

-----------------------------------------------------------------------------
OrganizerCall ==
    \/ \E u \in Accounts : GiveAwayTickets(u)
    \/ \E type \in BattleTypes, pair \in Pairings : CreateBattle(type, pair)
    \/ \E m \in Battles :
         \/ \E type \in BattleTypes, pair \in Pairings :
              UpdateBattle(m, type, pair)
         \/ \E winner \in Npcs : SetResult(m, winner)
         \/ FinalsSettle(m)
         \/ LeagueSettle(m)
    \/ CloseSeason
    \/ \E u \in Receivers : WithdrawSeasonTreasury(u, free[Treasury])

UserCall ==
    \E u \in Accounts :
        \/ \E n \in Amounts :
             \/ \E inviter \in Inviters \cup {0} : BuyTicket(u, n, inviter)
             \/ \E v \in Accounts : TransferTicket(u, v, n)
             \/ \E picks \in [Battles -> Npcs \cup {0}] :
                  \/ InitialVote(u, n, picks)
                  \/ \E i \in Indices : SplitVote(u, i, n, picks)
        \/ \E i \in DOMAIN votes[u], picks \in [Battles -> Npcs \cup {0}] : AppendVote(u, i, picks)
        \/ Claim(u)

Next == Tick \/ OrganizerCall \/ UserCall

Spec == Init /\ [][Next]_vars

-----------------------------------------------------------------------------
(* Properties. *)

(* Every ticket somebody bought or received and did not pass on is either  *)
(* still to be voted with or in exactly one select, however selects are    *)
(* split; and all tickets there are were sold or given away.               *)
TicketsAddUp ==
    /\ \A u \in Accounts :
         tickets[u].total = tickets[u].remain
             + SumTo([i \in Indices |-> IF i \in DOMAIN votes[u] THEN votes[u][i].tickets ELSE 0],
                     MaxSelects)
    /\ SumTo([u \in Accounts |-> tickets[u].total], NAccounts) = season.total_tickets + given

(* VotesForCalc, from which points are made, holds exactly the picks of    *)
(* VoteSelectInfos, from which claims are paid.                            *)
CalcMirrorsVotes ==
    \A u \in Accounts, i \in Indices, m \in Battles :
        calc[m][<<u, i>>] = IF i \in DOMAIN votes[u] THEN votes[u][i].picks[m] ELSE 0

(* Unless a settled battle was changed, the wins of a select, also of one  *)
(* that was split off, are its right picks among the settled battles.      *)
PointsMatchPicks ==
    ~disturbed =>
        \A u \in Accounts : \A i \in DOMAIN votes[u] :
            LET settled == {m \in Battles : battle[m].status = "Finalized"}
                picks == votes[u][i].picks
            IN  /\ points[u, i].games = Cardinality(Voted(picks) \cap settled)
                /\ points[u, i].wins =
                     Cardinality({m \in Voted(picks) \cap settled : picks[m] = battle[m].winner})

(* After a season was closed on settled results, and as long as the        *)
(* organizer leaves it alone, the treasury covers what all who have not    *)
(* claimed yet may claim: what the points promised is what the picks get.  *)
TreasuryCoversClaims ==
    sound => SumTo([u \in Accounts |-> IF claimed[u] THEN 0 ELSE ClaimAmount(u)], NAccounts)
               <= free[Treasury]

(* Selling, claiming and withdrawing move tokens and make none. *)
Conservation == SumTo(free, NAccounts + 2) = SumTo(Funds, NAccounts) + Sponsored

(* The ledgers of the season are sound: tickets and tokens are where the   *)
(* records say, none below zero, none made or lost.                        *)
LedgersAreSound == TypeOK /\ TicketsAddUp /\ Conservation
=============================================================================
