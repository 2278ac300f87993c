---------------------------- MODULE SeasonProofs ----------------------------
(***************************************************************************)
(* Proofs about Season, for any number of accounts, battles, selects,      *)
(* pairings and tickets, any prices and times: tickets and tokens are      *)
(* where the records say (LedgersAreSound), VotesForCalc holds the picks   *)
(* of the selects (CalcMirrorsVotes), the points are those the picks       *)
(* deserve (PointsMatchPicks), and what a season that was closed on        *)
(* settled results may still pay is in its treasury (TreasuryCoversClaims).*)
(***************************************************************************)
EXTENDS Season, SumsProofs, SequenceTheorems, FiniteSetTheorems

USE DEF Accounts, Battles, Indices, Treasury, BvbTreasury, Ledger, Selects

-----------------------------------------------------------------------------
(* The constants. *)

LEMMA Constants ==
  /\ NAccounts \in Nat /\ NBattles \in Nat /\ MaxSelects \in Nat /\ MaxTicketAmount \in Nat
  /\ MaxClosings \in Nat /\ MaxGames \in Nat /\ Given \in Nat /\ MaxTime \in Nat
  /\ StartTime \in Nat /\ TicketPrice \in Nat \ {0} /\ Sponsored \in Nat /\ Amounts \subseteq Nat
  /\ Funds \in [Accounts -> Nat]
BY CountAssumption, MoneyAssumption

LEMMA Accountants ==
  /\ Treasury \in Ledger /\ BvbTreasury \in Ledger /\ Treasury # BvbTreasury
  /\ \A u \in Accounts : u \in Ledger /\ u # Treasury /\ u # BvbTreasury
  /\ Treasury \notin Accounts /\ BvbTreasury \notin Accounts /\ 0 \notin Ledger
BY Constants

LEMMA PairsAreNpcs ==
  ASSUME NEW pair \in Pairings
  PROVE  pair[1] \in Npcs /\ pair[2] \in Npcs
BY DEF Npcs

LEMMA Totals == \A type \in FirstTypes : TotalOf[type] \in Nat \ {0}
BY CountAssumption DEF TotalOf

-----------------------------------------------------------------------------
(* The types. *)

(* A share of the price of some tickets, in percent. *)
LEMMA Percent ==
  ASSUME NEW m \in Nat
  PROVE  /\ (m * 85) \div 100 \in Nat /\ (m * 5) \div 100 \in Nat
         /\ m - (m * 85) \div 100 - (m * 5) \div 100 \in Nat
<1> DEFINE a == (m * 85) \div 100
           b == (m * 5) \div 100
<1>1. \A x \in Nat : x \div 100 \in Nat /\ 100 * (x \div 100) <= x
  OBVIOUS
<1>2. /\ a \in Nat /\ 100 * a <= m * 85
      /\ b \in Nat /\ 100 * b <= m * 5
  <2>1. m * 85 \in Nat /\ m * 5 \in Nat
    OBVIOUS
  <2> QED
    BY <1>1, <2>1
<1> HIDE DEF a, b
<1>4. a + b <= m
  BY <1>2
<1> QED
  BY <1>2, <1>4 DEF a, b

LEMMA Product ==
  ASSUME NEW n \in Nat
  PROVE  TicketPrice * n \in Nat
BY Constants, ProductNat

(* A purchase, balance by balance. *)
Selling(u, inviter, sale, m, bonus, invite) ==
  /\ m - bonus - invite \in Nat
  /\ inviter \notin Accounts \ {u} => invite = 0
  /\ \A x \in Ledger : sale[x] =
       free[x] - (IF x = u THEN m ELSE 0)
               + (IF x = Treasury THEN bonus ELSE 0)
               + (IF x = inviter THEN invite ELSE 0)
               + (IF x = BvbTreasury THEN m - bonus - invite ELSE 0)

LEMMA SalePointwise ==
  ASSUME TypeOK, NEW u \in Accounts, NEW n \in Amounts, NEW inviter \in Inviters \cup {0},
         TicketPrice * n <= free[u]
  PROVE  /\ Sale(u, n, inviter) \in [Ledger -> Nat]
         /\ \E m, bonus, invite \in Nat : Selling(u, inviter, Sale(u, n, inviter), m, bonus, invite)
<1>a. PICK m : m = TicketPrice * n
  OBVIOUS
<1>b. PICK bonus, invite : /\ bonus = (m * 85) \div 100
                           /\ invite = IF inviter \in Accounts \ {u} THEN (m * 5) \div 100 ELSE 0
  OBVIOUS
<1>1. n \in Nat /\ m \in Nat
  BY <1>a, Constants, Product
<1>2. /\ (m * 85) \div 100 \in Nat /\ (m * 5) \div 100 \in Nat
      /\ m - (m * 85) \div 100 - (m * 5) \div 100 \in Nat
  BY <1>1, Percent
<1> DEFINE r == (m * 85) \div 100
           s == (m * 5) \div 100
<1> HIDE DEF r, s
<1>3. r \in Nat /\ s \in Nat /\ m - r - s \in Nat /\ bonus = r
      /\ (invite = s \/ invite = 0)
  BY <1>b, <1>2 DEF r, s
<1>4. bonus \in Nat /\ invite \in Nat /\ m - bonus - invite \in Nat
  BY <1>1, <1>3
<1> DEFINE pay(x) == free[x] - (IF x = u THEN m ELSE 0)
                      + (IF x = Treasury THEN bonus ELSE 0)
                      + (IF x = inviter THEN invite ELSE 0)
                      + (IF x = BvbTreasury THEN m - bonus - invite ELSE 0)
<1>5. Sale(u, n, inviter) = [x \in Ledger |-> pay(x)]
  BY <1>a, <1>b DEF Sale
<1>6. \A x \in Ledger : free[x] \in Nat
  BY DEF TypeOK
<1>7. m <= free[u]
  BY <1>a
<1>8. \A x \in Ledger : pay(x) \in Nat
  BY <1>1, <1>4, <1>6, <1>7, Accountants
<1>c. inviter \notin Accounts \ {u} => invite = 0
  BY <1>b
<1> HIDE DEF pay
<1>9. Sale(u, n, inviter) \in [Ledger -> Nat] /\ \A x \in Ledger : Sale(u, n, inviter)[x] = pay(x)
  BY <1>5, <1>8
<1>10. Selling(u, inviter, Sale(u, n, inviter), m, bonus, invite)
  BY <1>4, <1>9, <1>c DEF pay, Selling
<1> QED
  BY <1>1, <1>4, <1>9, <1>10

(* A holding of tickets, increased by n or decreased by it. *)
LEMMA TicketsAdded ==
  ASSUME NEW ts \in [Accounts -> [total : Int, remain : Int]], NEW u \in Accounts, NEW n \in Int
  PROVE  /\ AddTickets(ts, u, n) \in [Accounts -> [total : Int, remain : Int]]
         /\ AddTickets(ts, u, n)[u] = [total |-> ts[u].total + n, remain |-> ts[u].remain + n]
         /\ \A v \in Accounts : v # u => AddTickets(ts, u, n)[v] = ts[v]
BY DEF AddTickets

LEMMA JoinedIsPicks ==
  ASSUME NEW old \in [Battles -> Npcs \cup {0}], NEW new \in [Battles -> Npcs \cup {0}]
  PROVE  Joined(old, new) \in [Battles -> Npcs \cup {0}]
BY DEF Joined

LEMMA CountIsCalc ==
  ASSUME TypeOK, NEW u \in Accounts, NEW i \in Indices, NEW picks \in [Battles -> Npcs \cup {0}]
  PROVE  /\ Count(u, i, picks) \in [Battles -> [Selects -> Npcs \cup {0}]]
         /\ \A m \in Battles, s \in Selects :
              Count(u, i, picks)[m][s] =
                IF s = <<u, i>> /\ picks[m] # 0 THEN picks[m] ELSE calc[m][s]
<1>1. calc \in [Battles -> [Selects -> Npcs \cup {0}]] /\ <<u, i>> \in Selects
  BY DEF TypeOK
<1>2. \A m \in Battles : calc[m] \in [Selects -> Npcs \cup {0}] /\ picks[m] \in Npcs \cup {0}
  BY <1>1
<1>3. \A m \in Battles : [calc[m] EXCEPT ![<<u, i>>] = picks[m]] \in [Selects -> Npcs \cup {0}]
  BY <1>1, <1>2
<1>4. \A m \in Battles : Count(u, i, picks)[m] =
         IF picks[m] # 0 THEN [calc[m] EXCEPT ![<<u, i>>] = picks[m]] ELSE calc[m]
  BY DEF Count, Voted
<1>5. Count(u, i, picks) = [m \in Battles |-> Count(u, i, picks)[m]]
  BY DEF Count
<1>6. \A m \in Battles : Count(u, i, picks)[m] \in [Selects -> Npcs \cup {0}]
  BY <1>2, <1>3, <1>4
<1>7. \A m \in Battles, s \in Selects :
        Count(u, i, picks)[m][s] = IF s = <<u, i>> /\ picks[m] # 0 THEN picks[m] ELSE calc[m][s]
  BY <1>1, <1>2, <1>4
<1> QED
  BY <1>5, <1>6, <1>7

LEMMA ScoredIsPoints ==
  ASSUME TypeOK, NEW m \in Battles
  PROVE  /\ Scored(m) \in [Selects -> Points]
         /\ \A s \in Selects :
              /\ calc[m][s] = 0 => Scored(m)[s] = points[s]
              /\ calc[m][s] # 0 =>
                   /\ Scored(m)[s].known = TRUE
                   /\ Scored(m)[s].games = points[s].games + 1
                   /\ Scored(m)[s].wins =
                        points[s].wins + (IF calc[m][s] = battle[m].winner THEN 1 ELSE 0)
<1>1. \A s \in Selects : points[s] \in Points
  BY DEF TypeOK
<1>2. \A s \in Selects : points[s].games \in Nat /\ points[s].wins \in Nat
  BY <1>1 DEF Points
<1>3. \A s \in Selects :
        /\ Scored(m)[s] \in Points
        /\ calc[m][s] = 0 => Scored(m)[s] = points[s]
        /\ calc[m][s] # 0 =>
             Scored(m)[s] = [known |-> TRUE, games |-> points[s].games + 1,
                             wins |-> points[s].wins + (IF calc[m][s] = battle[m].winner THEN 1 ELSE 0)]
  BY <1>1, <1>2 DEF Scored, Points
<1>4. Scored(m) = [s \in Selects |-> Scored(m)[s]]
  BY DEF Scored
<1> QED
  BY <1>3, <1>4

-----------------------------------------------------------------------------
(* The selects of an account, and what the calls that vote make of them. *)

LEMMA VotesOf ==
  ASSUME TypeOK, NEW u \in Accounts
  PROVE  /\ votes[u] \in Seq(Select) /\ Len(votes[u]) \in 0..MaxSelects
         /\ DOMAIN votes[u] = 1..Len(votes[u]) /\ DOMAIN votes[u] \subseteq Indices
         /\ \A i \in DOMAIN votes[u] :
              /\ votes[u][i] \in Select
              /\ votes[u][i].tickets \in Nat
              /\ votes[u][i].picks \in [Battles -> Npcs \cup {0}]
<1>1. votes[u] \in Seq(Select) /\ DOMAIN votes[u] \subseteq 1..MaxSelects
  BY DEF TypeOK
<1>2. DOMAIN votes[u] = 1..Len(votes[u]) /\ Len(votes[u]) \in Nat
  BY <1>1, LenProperties
<1>3. Len(votes[u]) <= MaxSelects
  <2>1. CASE Len(votes[u]) = 0
    BY <2>1, Constants
  <2>2. CASE Len(votes[u]) # 0
    <3>1. Len(votes[u]) \in DOMAIN votes[u]
      BY <1>2, <2>2
    <3> QED
      BY <1>1, <3>1, Constants
  <2> QED
    BY <2>1, <2>2
<1>4. \A i \in DOMAIN votes[u] : votes[u][i] \in Select
  BY <1>1, <1>2, ElementOfSeq
<1> QED
  BY <1>1, <1>2, <1>3, <1>4, Constants DEF Select

(* A new select. *)
LEMMA Appended ==
  ASSUME NEW q \in Seq(Select), Len(q) < MaxSelects, NEW r \in Select, NEW p, p = Append(q, r)
  PROVE  /\ p \in Seq(Select) /\ DOMAIN q = 1..Len(q) /\ DOMAIN p = 1..(Len(q) + 1)
         /\ DOMAIN p \subseteq Indices /\ Len(q) \in Nat /\ Len(q) + 1 \in Indices
         /\ \A j \in 1..Len(q) : p[j] = q[j]
         /\ p[Len(q) + 1] = r
<1>1. /\ p \in Seq(Select) /\ Len(p) = Len(q) + 1 /\ Len(q) \in Nat
      /\ \A j \in 1..Len(q) : p[j] = q[j]
      /\ p[Len(q) + 1] = r
  BY AppendProperties, LenProperties
<1>2. DOMAIN p = 1..Len(p) /\ DOMAIN q = 1..Len(q)
  BY <1>1, LenProperties
<1> QED
  BY <1>1, <1>2, Constants

(* A select that has other picks. *)
LEMMA PicksChanged ==
  ASSUME NEW q \in Seq(Select), NEW i \in DOMAIN q, NEW picks \in [Battles -> Npcs \cup {0}],
         NEW p, p = [q EXCEPT ![i].picks = picks]
  PROVE  /\ p \in Seq(Select) /\ DOMAIN p = DOMAIN q
         /\ \A j \in DOMAIN q : j # i => p[j] = q[j]
         /\ p[i].tickets = q[i].tickets /\ p[i].picks = picks
<1>1. DOMAIN q = 1..Len(q) /\ Len(q) \in Nat /\ q[i] \in Select
  BY LenProperties, ElementOfSeq
<1> DEFINE e == [q[i] EXCEPT !.picks = picks]
<1>2. e \in Select /\ e.tickets = q[i].tickets /\ e.picks = picks
  BY <1>1 DEF Select
<1>3. p = [q EXCEPT ![i] = e]
  OBVIOUS
<1> HIDE DEF e
<1>4. p \in Seq(Select) /\ Len(p) = Len(q) /\ \A j \in 1..Len(q) : p[j] = IF j = i THEN e ELSE q[j]
  BY <1>1, <1>2, <1>3, ExceptSeq
<1>5. DOMAIN p = 1..Len(p)
  BY <1>4, LenProperties
<1> QED
  BY <1>1, <1>2, <1>4, <1>5

(* A select that has other tickets. *)
LEMMA TicketsChanged ==
  ASSUME NEW q \in Seq(Select), NEW i \in DOMAIN q, NEW n \in Nat,
         NEW p, p = [q EXCEPT ![i].tickets = n]
  PROVE  /\ p \in Seq(Select) /\ Len(p) = Len(q) /\ DOMAIN p = DOMAIN q
         /\ \A j \in DOMAIN q : j # i => p[j] = q[j]
         /\ p[i].tickets = n /\ p[i].picks = q[i].picks
<1>1. DOMAIN q = 1..Len(q) /\ Len(q) \in Nat /\ q[i] \in Select
  BY LenProperties, ElementOfSeq
<1> DEFINE e == [q[i] EXCEPT !.tickets = n]
<1>2. e \in Select /\ e.picks = q[i].picks /\ e.tickets = n
  BY <1>1 DEF Select
<1>3. p = [q EXCEPT ![i] = e]
  OBVIOUS
<1> HIDE DEF e
<1>4. p \in Seq(Select) /\ Len(p) = Len(q) /\ \A j \in 1..Len(q) : p[j] = IF j = i THEN e ELSE q[j]
  BY <1>1, <1>2, <1>3, ExceptSeq
<1>5. DOMAIN p = 1..Len(p)
  BY <1>4, LenProperties
<1> QED
  BY <1>1, <1>2, <1>4, <1>5

(* What a call that votes makes of the selects of u: the selects are q     *)
(* afterwards, and those of the others are as they were.                   *)
Voting(u, q) ==
  /\ q \in Seq(Select) /\ DOMAIN q \subseteq Indices
  /\ votes' = [votes EXCEPT ![u] = q]

LEMMA VotingKeepsOthers ==
  ASSUME TypeOK, NEW u \in Accounts, NEW q, Voting(u, q)
  PROVE  /\ votes' \in [Accounts -> Seq(Select)]
         /\ \A v \in Accounts : DOMAIN votes'[v] \subseteq Indices
         /\ votes'[u] = q /\ \A v \in Accounts : v # u => votes'[v] = votes[v]
<1>1. votes \in [Accounts -> Seq(Select)] /\ \A v \in Accounts : DOMAIN votes[v] \subseteq Indices
  BY DEF TypeOK
<1>2. votes'[u] = q /\ \A v \in Accounts : v # u => votes'[v] = votes[v]
  BY <1>1 DEF Voting
<1>3. votes' \in [Accounts -> Seq(Select)]
  BY <1>1 DEF Voting
<1> QED
  BY <1>1, <1>2, <1>3 DEF Voting

(* InitialVote adds a select; the battles it names are still running. *)
LEMMA InitialVoteMakes ==
  ASSUME TypeOK, NEW u \in Accounts, NEW n \in Amounts, NEW picks \in [Battles -> Npcs \cup {0}],
         InitialVote(u, n, picks)
  PROVE  LET k == Len(votes[u]) + 1 IN
         /\ k \in Indices /\ k \notin DOMAIN votes[u] /\ n \in Nat /\ n <= tickets[u].remain
         /\ Voting(u, votes'[u])
         /\ DOMAIN votes'[u] = DOMAIN votes[u] \cup {k}
         /\ \A j \in DOMAIN votes[u] : votes'[u][j] = votes[u][j]
         /\ votes'[u][k].tickets = n /\ votes'[u][k].picks = picks
         /\ calc' = Count(u, k, picks)
         /\ CanPick(picks)
<1> DEFINE q == votes[u]
           r == [tickets |-> n, picks |-> picks]
           p == Append(q, r)
<1>1. q \in Seq(Select) /\ Len(q) < MaxSelects /\ DOMAIN q = 1..Len(q)
  BY VotesOf DEF InitialVote
<1>2. r \in Select /\ n \in Nat
  BY Constants DEF Select
<1>3. /\ votes' = [votes EXCEPT ![u] = p] /\ n <= tickets[u].remain
      /\ calc' = Count(u, Len(q) + 1, picks) /\ CanPick(picks)
  BY DEF InitialVote, TypeOK
<1>a. p = Append(q, r)
  OBVIOUS
<1>7. r.tickets = n /\ r.picks = picks
  OBVIOUS
<1> HIDE DEF p, q, r
<1>4. /\ p \in Seq(Select) /\ DOMAIN p = 1..(Len(q) + 1)
      /\ DOMAIN p \subseteq Indices /\ Len(q) \in Nat /\ Len(q) + 1 \in Indices
      /\ \A j \in 1..Len(q) : p[j] = q[j]
      /\ p[Len(q) + 1] = r
  BY <1>1, <1>2, <1>a, Appended
<1>5. votes'[u] = p
  BY <1>3, <1>4 DEF TypeOK
<1>6. 1..(Len(q) + 1) = (1..Len(q)) \cup {Len(q) + 1} /\ Len(q) + 1 \notin 1..Len(q)
  BY <1>4
<1>8. Voting(u, votes'[u])
  BY <1>3, <1>4, <1>5 DEF Voting
<1> QED
  BY <1>1, <1>2, <1>3, <1>4, <1>5, <1>6, <1>7, <1>8 DEF q

(* AppendVote adds picks to a select, of battles that are still running. *)
LEMMA AppendVoteMakes ==
  ASSUME TypeOK, NEW u \in Accounts, NEW i \in DOMAIN votes[u],
         NEW picks \in [Battles -> Npcs \cup {0}], AppendVote(u, i, picks)
  PROVE  LET old == votes[u][i].picks IN
         /\ Voting(u, votes'[u])
         /\ DOMAIN votes'[u] = DOMAIN votes[u]
         /\ \A j \in DOMAIN votes[u] : j # i => votes'[u][j] = votes[u][j]
         /\ votes'[u][i].tickets = votes[u][i].tickets
         /\ votes'[u][i].picks = Joined(old, picks)
         /\ calc' = Count(u, i, picks)
         /\ CanPick(picks) /\ Voted(picks) \cap Voted(old) = {}
<1> DEFINE q == votes[u]
           new == Joined(q[i].picks, picks)
           p == [q EXCEPT ![i].picks = new]
<1>1. /\ q \in Seq(Select) /\ DOMAIN q \subseteq Indices
      /\ q[i].picks \in [Battles -> Npcs \cup {0}]
  BY VotesOf
<1>2. new \in [Battles -> Npcs \cup {0}]
  BY <1>1, JoinedIsPicks
<1>3. /\ votes' = [votes EXCEPT ![u] = p] /\ calc' = Count(u, i, picks)
      /\ CanPick(picks) /\ Voted(picks) \cap Voted(q[i].picks) = {}
  BY DEF AppendVote, CanAppend
<1>4. p = [q EXCEPT ![i].picks = new]
  OBVIOUS
<1> HIDE DEF p, new
<1>5. /\ p \in Seq(Select) /\ DOMAIN p = DOMAIN q
      /\ \A j \in DOMAIN q : j # i => p[j] = q[j]
      /\ p[i].tickets = q[i].tickets /\ p[i].picks = new
  BY <1>1, <1>2, <1>4, PicksChanged
<1>6. votes'[u] = p
  BY <1>3 DEF TypeOK
<1>7. Voting(u, votes'[u])
  BY <1>1, <1>3, <1>5, <1>6 DEF Voting
<1> QED
  BY <1>3, <1>5, <1>6, <1>7 DEF new

(* SplitVote moves tickets to a new select, which has the old picks and    *)
(* the new ones.                                                           *)
LEMMA SplitVoteMakes ==
  ASSUME TypeOK, NEW u \in Accounts, NEW i \in Indices, NEW n \in Amounts,
         NEW picks \in [Battles -> Npcs \cup {0}], SplitVote(u, i, n, picks),
         NEW old, old = votes[u][i].picks, NEW all, all = Joined(old, picks),
         NEW k, k = Len(votes[u]) + 1
  PROVE  /\ i \in DOMAIN votes[u] /\ k \in Indices /\ k \notin DOMAIN votes[u]
         /\ n \in Nat /\ n < votes[u][i].tickets
         /\ Voting(u, votes'[u])
         /\ DOMAIN votes'[u] = DOMAIN votes[u] \cup {k}
         /\ \A j \in DOMAIN votes[u] : j # i => votes'[u][j] = votes[u][j]
         /\ votes'[u][i].tickets = votes[u][i].tickets - n /\ votes'[u][i].picks = old
         /\ votes'[u][k].tickets = n /\ votes'[u][k].picks = all
         /\ all \in [Battles -> Npcs \cup {0}]
         /\ calc' = Count(u, k, all)
         /\ CanPick(picks) /\ Voted(picks) \cap Voted(old) = {}
<1> DEFINE q == votes[u]
           left == q[i].tickets - n
           c == [q EXCEPT ![i].tickets = left]
           r == [tickets |-> n, picks |-> all]
           p == Append(c, r)
<1>0. i \in DOMAIN q /\ n \in Nat /\ n < q[i].tickets /\ k <= MaxSelects
  BY Constants DEF SplitVote, CanAppend
<1>1. /\ votes' = [votes EXCEPT ![u] = p] /\ calc' = Count(u, k, all)
      /\ CanPick(picks) /\ Voted(picks) \cap Voted(q[i].picks) = {}
  BY DEF SplitVote, CanAppend
<1> HIDE DEF c, r, p
<1>2. /\ q \in Seq(Select) /\ DOMAIN q = 1..Len(q) /\ Len(q) \in Nat
      /\ q[i].picks \in [Battles -> Npcs \cup {0}] /\ q[i].tickets \in Nat
  BY <1>0, VotesOf
<1>3. all \in [Battles -> Npcs \cup {0}] /\ left \in Nat
  BY <1>0, <1>2, JoinedIsPicks
<1>12. left = q[i].tickets - n
  OBVIOUS
<1> HIDE DEF q, left
<1>4. r \in Select /\ r.tickets = n /\ r.picks = all
  BY <1>0, <1>3 DEF Select, r
<1>5. k = Len(q) + 1
  BY DEF q
<1>14. c = [q EXCEPT ![i].tickets = left]
  BY DEF c
<1>15. p = Append(c, r)
  BY DEF p
<1>16. left \in Nat
  BY <1>3
<1>13. i \in DOMAIN q /\ q \in Seq(Select) /\ Len(q) \in Nat /\ k <= MaxSelects
  BY <1>0, <1>2
<1>6. /\ c \in Seq(Select) /\ Len(c) = Len(q) /\ DOMAIN c = DOMAIN q
      /\ \A j \in DOMAIN q : j # i => c[j] = q[j]
      /\ c[i].tickets = left /\ c[i].picks = q[i].picks
  BY <1>13, <1>14, <1>16, TicketsChanged
<1>7. /\ p \in Seq(Select) /\ DOMAIN p = 1..(Len(c) + 1)
      /\ DOMAIN p \subseteq Indices /\ Len(c) + 1 \in Indices
      /\ \A j \in 1..Len(c) : p[j] = c[j]
      /\ p[Len(c) + 1] = r
  <2>1. Len(c) < MaxSelects
    BY <1>13, <1>5, <1>6, Constants
  <2> QED
    BY <2>1, <1>4, <1>15, <1>6, Appended
<1>8. votes'[u] = p
  BY <1>1 DEF TypeOK, q
<1>9. 1..(Len(q) + 1) = (1..Len(q)) \cup {k} /\ k \notin 1..Len(q)
  BY <1>2, <1>5
<1>10. Voting(u, votes'[u])
  BY <1>1, <1>7, <1>8 DEF Voting
<1>11. /\ k \in Indices /\ k \notin DOMAIN q
       /\ DOMAIN p = DOMAIN q \cup {k}
       /\ \A j \in DOMAIN q : j # i => p[j] = q[j]
       /\ p[i].tickets = left /\ p[i].picks = q[i].picks
       /\ p[k].tickets = n /\ p[k].picks = all
  BY <1>0, <1>2, <1>4, <1>5, <1>6, <1>7, <1>9
<1> QED
  BY <1>0, <1>1, <1>3, <1>8, <1>10, <1>11, <1>12 DEF q

-----------------------------------------------------------------------------
(* The kinds of steps. *)

(* A battle is put in the place of another. *)
Putting(m, type, pair) ==
  /\ Put(m, type, pair)
  /\ \/ next_battle' = next_battle
     \/ next_battle \in Battles /\ next_battle' = next_battle + 1

LEMMA StepKinds ==
  ASSUME [Next]_vars
  PROVE  \/ Tick \/ CloseSeason \/ UNCHANGED vars
         \/ \E u \in Accounts : \/ GiveAwayTickets(u) \/ Claim(u)
                                \/ WithdrawSeasonTreasury(u, free[Treasury])
         \/ \E u \in Accounts, n \in Amounts :
              \/ \E inviter \in Inviters \cup {0} : BuyTicket(u, n, inviter)
              \/ \E v \in Accounts : TransferTicket(u, v, n)
              \/ \E picks \in [Battles -> Npcs \cup {0}] : InitialVote(u, n, picks)
              \/ \E picks \in [Battles -> Npcs \cup {0}], i \in Indices : SplitVote(u, i, n, picks)
         \/ \E u \in Accounts : \E i \in DOMAIN votes[u], picks \in [Battles -> Npcs \cup {0}] :
              AppendVote(u, i, picks)
         \/ \E m \in Battles : \/ \E type \in BattleTypes, pair \in Pairings : Putting(m, type, pair)
                               \/ \E winner \in Npcs : SetResult(m, winner)
                               \/ Settle(m)
<1>1. ASSUME UserCall PROVE
         \/ \E u \in Accounts : Claim(u)
         \/ \E u \in Accounts, n \in Amounts :
              \/ \E inviter \in Inviters \cup {0} : BuyTicket(u, n, inviter)
              \/ \E v \in Accounts : TransferTicket(u, v, n)
              \/ \E picks \in [Battles -> Npcs \cup {0}] : InitialVote(u, n, picks)
              \/ \E picks \in [Battles -> Npcs \cup {0}], i \in Indices : SplitVote(u, i, n, picks)
         \/ \E u \in Accounts : \E i \in DOMAIN votes[u], picks \in [Battles -> Npcs \cup {0}] :
              AppendVote(u, i, picks)
  BY <1>1, Zenon DEF UserCall
<1>2. ASSUME OrganizerCall PROVE
         \/ CloseSeason
         \/ \E u \in Accounts : GiveAwayTickets(u)
         \/ \E u \in Accounts : WithdrawSeasonTreasury(u, free[Treasury])
         \/ \E m \in Battles, type \in BattleTypes, pair \in Pairings : Putting(m, type, pair)
         \/ \E m \in Battles, winner \in Npcs : SetResult(m, winner)
         \/ \E m \in Battles : Settle(m)
  <2>1. Receivers \subseteq Accounts
    BY CountAssumption
  <2>2. ASSUME NEW type \in BattleTypes, NEW pair \in Pairings, CreateBattle(type, pair)
        PROVE  \E m \in Battles : Putting(m, type, pair)
    BY <2>2 DEF CreateBattle, Putting
  <2>3. ASSUME NEW m \in Battles, NEW type \in BattleTypes, NEW pair \in Pairings,
               UpdateBattle(m, type, pair)
        PROVE  Putting(m, type, pair)
    BY <2>3 DEF UpdateBattle, Putting
  <2>4. ASSUME NEW m \in Battles, FinalsSettle(m) \/ LeagueSettle(m)
        PROVE  Settle(m)
    BY <2>4 DEF FinalsSettle, LeagueSettle
  <2>5. \/ \E u \in Accounts : GiveAwayTickets(u)
        \/ \E type \in BattleTypes, pair \in Pairings : CreateBattle(type, pair)
        \/ \E m \in Battles, type \in BattleTypes, pair \in Pairings : UpdateBattle(m, type, pair)
        \/ \E m \in Battles, winner \in Npcs : SetResult(m, winner)
        \/ \E m \in Battles : FinalsSettle(m) \/ LeagueSettle(m)
        \/ CloseSeason
        \/ \E u \in Receivers : WithdrawSeasonTreasury(u, free[Treasury])
    BY <1>2, Zenon DEF OrganizerCall
  <2> QED
    BY <2>1, <2>2, <2>3, <2>4, <2>5
<1> QED
  BY <1>1, <1>2 DEF Next

-----------------------------------------------------------------------------
(* Type correctness. *)

LEMMA InitTypeOK == Init => TypeOK
<1> SUFFICES ASSUME Init PROVE TypeOK
  OBVIOUS
<1>1. now \in 0..MaxTime /\ next_battle \in 1..(NBattles + 1) /\ given \in 0..Given
  BY Constants DEF Init
<1>2. battle \in [Battles -> [type : BattleTypes \cup {"None"},
                               status : {"None", "Running", "Completed", "Finalized"},
                               home : Npcs \cup {0}, visiting : Npcs \cup {0},
                               winner : Npcs \cup {0}]]
  BY DEF Init, NoBattle
<1>3. tickets \in [Accounts -> [total : Nat, remain : Nat]] /\ claimed \in [Accounts -> BOOLEAN]
  BY DEF Init
<1>4. votes \in [Accounts -> Seq(Select)] /\ \A u \in Accounts : DOMAIN votes[u] \subseteq Indices
  <2>1. <<>> \in Seq(Select) /\ DOMAIN <<>> = {}
    OBVIOUS
  <2> QED
    BY <2>1 DEF Init
<1>5. calc \in [Battles -> [Selects -> Npcs \cup {0}]] /\ points \in [Selects -> Points]
  BY DEF Init, NoPoints, Points
<1>6. season \in [first : FirstTypes, status : {"Initial", "Finalized"}, bonus : Seq(Bonus),
                   closings : 0..MaxClosings, total_tickets : Nat]
  <2>1. <<>> \in Seq(Bonus) /\ 0 \in 0..MaxClosings
    BY Constants
  <2>2. PICK f \in FirstTypes : season = [first |-> f, status |-> "Initial",
              bonus |-> <<>>, closings |-> 0, total_tickets |-> 0]
    BY DEF Init
  <2> QED
    BY <2>1, <2>2
<1>7. free \in [Ledger -> Nat]
  BY Constants DEF Init
<1> QED
  BY <1>1, <1>2, <1>3, <1>4, <1>5, <1>6, <1>7 DEF Init, TypeOK

(* The records of the types, changed in one field. *)
LEMMA TicketRecord ==
  ASSUME TypeOK, NEW u \in Accounts
  PROVE  /\ tickets \in [Accounts -> [total : Nat, remain : Nat]]
         /\ tickets \in [Accounts -> [total : Int, remain : Int]]
         /\ tickets[u] \in [total : Nat, remain : Nat]
         /\ tickets[u].total \in Nat /\ tickets[u].remain \in Nat
<1>1. tickets \in [Accounts -> [total : Nat, remain : Nat]]
  BY DEF TypeOK
<1>2. \A v \in Accounts : tickets[v] \in [total : Nat, remain : Nat]
  BY <1>1
<1>3. \A v \in Accounts : tickets[v] \in [total : Int, remain : Int]
  BY <1>2
<1>4. tickets \in [Accounts -> [total : Int, remain : Int]]
  BY <1>1, <1>3
<1> QED
  BY <1>1, <1>2, <1>4

LEMMA TicketsGained ==
  ASSUME TypeOK, NEW u \in Accounts, NEW n \in Nat
  PROVE  AddTickets(tickets, u, n) \in [Accounts -> [total : Nat, remain : Nat]]
<1> DEFINE r == [total |-> tickets[u].total + n, remain |-> tickets[u].remain + n]
<1>1. tickets \in [Accounts -> [total : Nat, remain : Nat]] /\ tickets[u].total \in Nat /\ tickets[u].remain \in Nat
  BY TicketRecord
<1>2. r \in [total : Nat, remain : Nat]
  BY <1>1
<1>3. AddTickets(tickets, u, n) = [tickets EXCEPT ![u] = r]
  BY DEF AddTickets
<1> HIDE DEF r
<1> QED
  BY <1>1, <1>2, <1>3

LEMMA SeasonRecord ==
  ASSUME TypeOK
  PROVE  /\ season.first \in FirstTypes /\ season.bonus \in Seq(Bonus)
         /\ season.closings \in Nat /\ season.total_tickets \in Nat
         /\ season.status \in {"Initial", "Finalized"}
BY DEF TypeOK

BattleType == [type : BattleTypes \cup {"None"},
               status : {"None", "Running", "Completed", "Finalized"},
               home : Npcs \cup {0}, visiting : Npcs \cup {0}, winner : Npcs \cup {0}]

LEMMA BattleChanged ==
  ASSUME TypeOK, NEW m \in Battles, NEW r \in BattleType
  PROVE  [battle EXCEPT ![m] = r] \in [Battles -> [type : BattleTypes \cup {"None"},
                               status : {"None", "Running", "Completed", "Finalized"},
                               home : Npcs \cup {0}, visiting : Npcs \cup {0},
                               winner : Npcs \cup {0}]]
BY DEF TypeOK, BattleType

LEMMA BuyTicketTypeOK ==
  ASSUME TypeOK, NEW u \in Accounts, NEW n \in Amounts, NEW inviter \in Inviters \cup {0},
         BuyTicket(u, n, inviter)
  PROVE  TypeOK'
<1>1. /\ n \in Nat /\ TicketPrice * n <= free[u] /\ free' = Sale(u, n, inviter)
      /\ tickets' = AddTickets(tickets, u, n)
      /\ season' = [season EXCEPT !.total_tickets = @ + n]
  BY Constants DEF BuyTicket
<1>2. free' \in [Ledger -> Nat]
  BY <1>1, SalePointwise
<1>3. tickets' \in [Accounts -> [total : Nat, remain : Nat]]
  BY <1>1, TicketsGained
<1>4. season' \in [first : FirstTypes, status : {"Initial", "Finalized"}, bonus : Seq(Bonus),
                   closings : 0..MaxClosings, total_tickets : Nat]
  <2>1. season.total_tickets + n \in Nat
    BY <1>1, SeasonRecord
  <2> QED
    BY <1>1, <2>1 DEF TypeOK
<1> QED
  BY <1>2, <1>3, <1>4 DEF TypeOK, BuyTicket, battles

LEMMA GiveAwayTypeOK ==
  ASSUME TypeOK, NEW u \in Accounts, GiveAwayTickets(u)
  PROVE  TypeOK'
<1>1. given' \in 0..Given
  BY Constants DEF GiveAwayTickets, TypeOK
<1>2. tickets' \in [Accounts -> [total : Nat, remain : Nat]]
  BY TicketsGained DEF GiveAwayTickets
<1> QED
  BY <1>1, <1>2 DEF TypeOK, GiveAwayTickets, battles

(* What passing tickets on does to the two holdings. *)
LEMMA TicketsPassed ==
  ASSUME TypeOK, NEW u \in Accounts, NEW v \in Accounts, NEW n \in Amounts, TransferTicket(u, v, n)
  PROVE  /\ n \in Nat
         /\ tickets' \in [Accounts -> [total : Nat, remain : Nat]]
         /\ u = v => \A w \in Accounts : tickets'[w] = tickets[w]
         /\ u # v =>
              /\ tickets'[u] = [total |-> tickets[u].total - n, remain |-> tickets[u].remain - n]
              /\ tickets'[v] = [total |-> tickets[v].total + n, remain |-> tickets[v].remain + n]
         /\ \A w \in Accounts : w # u /\ w # v => tickets'[w] = tickets[w]
<1> DEFINE a == AddTickets(tickets, u, -n)
<1>1. /\ n \in Nat /\ tickets[u].total >= n /\ tickets[u].remain >= n
      /\ tickets' = AddTickets(a, v, n)
  BY Constants DEF TransferTicket
<1>2. \A w \in Accounts : /\ tickets[w] \in [total : Nat, remain : Nat]
                          /\ tickets[w].total \in Nat /\ tickets[w].remain \in Nat
  BY DEF TypeOK
<1>3. tickets \in [Accounts -> [total : Int, remain : Int]]
  BY DEF TypeOK
<1>4. /\ a \in [Accounts -> [total : Int, remain : Int]]
      /\ a[u] = [total |-> tickets[u].total - n, remain |-> tickets[u].remain - n]
      /\ \A w \in Accounts : w # u => a[w] = tickets[w]
  <2>1. -n \in Int /\ tickets[u].total + (-n) = tickets[u].total - n
        /\ tickets[u].remain + (-n) = tickets[u].remain - n
    BY <1>1, <1>2
  <2> QED
    BY <1>3, <2>1, TicketsAdded
<1> HIDE DEF a
<1>5. /\ tickets' \in [Accounts -> [total : Int, remain : Int]]
      /\ tickets'[v] = [total |-> a[v].total + n, remain |-> a[v].remain + n]
      /\ \A w \in Accounts : w # v => tickets'[w] = a[w]
  <2> DEFINE c == AddTickets(a, v, n)
  <2>2. n \in Int /\ a \in [Accounts -> [total : Int, remain : Int]]
    BY <1>1, <1>4
  <2>3. /\ c \in [Accounts -> [total : Int, remain : Int]]
        /\ c[v] = [total |-> a[v].total + n, remain |-> a[v].remain + n]
        /\ \A w \in Accounts : w # v => c[w] = a[w]
    BY <2>2, TicketsAdded
  <2>4. tickets' = c
    BY <1>1
  <2> HIDE DEF c
  <2> QED
    BY <2>3, <2>4
<1>6. u = v => \A w \in Accounts : tickets'[w] = tickets[w]
  BY <1>1, <1>2, <1>4, <1>5
<1>7. u # v => /\ tickets'[u] = [total |-> tickets[u].total - n, remain |-> tickets[u].remain - n]
               /\ tickets'[v] = [total |-> tickets[v].total + n, remain |-> tickets[v].remain + n]
  BY <1>4, <1>5
<1>8. \A w \in Accounts : w # u /\ w # v => tickets'[w] = tickets[w]
  BY <1>4, <1>5
<1>9. \A w \in Accounts : tickets'[w] \in [total : Nat, remain : Nat]
  <2> TAKE w \in Accounts
  <2>1. CASE u = v \/ (w # u /\ w # v)
    BY <2>1, <1>2, <1>6, <1>8
  <2>2. CASE u # v /\ w = u
    <3>1. tickets[u].total - n \in Nat /\ tickets[u].remain - n \in Nat
      BY <1>1, <1>2
    <3> QED
      BY <2>2, <3>1, <1>7
  <2>3. CASE u # v /\ w = v
    <3>1. tickets[v].total + n \in Nat /\ tickets[v].remain + n \in Nat
      BY <1>1, <1>2
    <3> QED
      BY <2>3, <3>1, <1>7
  <2> QED
    BY <2>1, <2>2, <2>3
<1>10. tickets' \in [Accounts -> [total : Nat, remain : Nat]]
  BY <1>5, <1>9
<1> QED
  BY <1>1, <1>6, <1>7, <1>8, <1>10

LEMMA InitialVoteTypeOK ==
  ASSUME TypeOK, NEW u \in Accounts, NEW n \in Amounts, NEW picks \in [Battles -> Npcs \cup {0}],
         InitialVote(u, n, picks)
  PROVE  TypeOK'
<1> DEFINE k == Len(votes[u]) + 1
<1>1. /\ k \in Indices /\ n \in Nat /\ n <= tickets[u].remain
      /\ Voting(u, votes'[u]) /\ calc' = Count(u, k, picks)
  BY InitialVoteMakes
<1> HIDE DEF k
<1>2. votes' \in [Accounts -> Seq(Select)] /\ \A v \in Accounts : DOMAIN votes'[v] \subseteq Indices
  BY <1>1, VotingKeepsOthers
<1>3. calc' \in [Battles -> [Selects -> Npcs \cup {0}]]
  BY <1>1, CountIsCalc
<1>4. tickets' \in [Accounts -> [total : Nat, remain : Nat]]
  <2> DEFINE r == [tickets[u] EXCEPT !.remain = tickets[u].remain - n]
  <2>1. r \in [total : Nat, remain : Nat]
    BY <1>1, TicketRecord
  <2>2. tickets' = [tickets EXCEPT ![u] = r]
    BY DEF InitialVote
  <2> HIDE DEF r
  <2> QED
    BY <2>1, <2>2, TicketRecord
<1> QED
  BY <1>2, <1>3, <1>4 DEF TypeOK, InitialVote, battles

LEMMA AppendVoteTypeOK ==
  ASSUME TypeOK, NEW u \in Accounts, NEW i \in DOMAIN votes[u],
         NEW picks \in [Battles -> Npcs \cup {0}], AppendVote(u, i, picks)
  PROVE  TypeOK'
<1>1. Voting(u, votes'[u]) /\ calc' = Count(u, i, picks)
  BY AppendVoteMakes
<1>2. votes' \in [Accounts -> Seq(Select)] /\ \A v \in Accounts : DOMAIN votes'[v] \subseteq Indices
  BY <1>1, VotingKeepsOthers
<1>3. i \in Indices
  BY VotesOf
<1>4. calc' \in [Battles -> [Selects -> Npcs \cup {0}]]
  BY <1>1, <1>3, CountIsCalc
<1> QED
  BY <1>2, <1>4 DEF TypeOK, AppendVote, battles

LEMMA SplitVoteTypeOK ==
  ASSUME TypeOK, NEW u \in Accounts, NEW i \in Indices, NEW n \in Amounts,
         NEW picks \in [Battles -> Npcs \cup {0}], SplitVote(u, i, n, picks)
  PROVE  TypeOK'
<1>1. PICK old, all, k : /\ old = votes[u][i].picks /\ all = Joined(old, picks)
                         /\ k = Len(votes[u]) + 1
  OBVIOUS
<1>2. /\ k \in Indices /\ Voting(u, votes'[u]) /\ all \in [Battles -> Npcs \cup {0}]
      /\ calc' = Count(u, k, all)
  BY <1>1, SplitVoteMakes
<1>3. votes' \in [Accounts -> Seq(Select)] /\ \A v \in Accounts : DOMAIN votes'[v] \subseteq Indices
  BY <1>2, VotingKeepsOthers
<1>4. calc' \in [Battles -> [Selects -> Npcs \cup {0}]]
  BY <1>2, CountIsCalc
<1>5. points' \in [Selects -> Points]
  <2>1. points[u, i] \in Points /\ points \in [Selects -> Points]
    BY DEF TypeOK
  <2> DEFINE p == [points[u, i] EXCEPT !.known = TRUE]
  <2>2. p \in Points
    BY <2>1 DEF Points
  <2>3. points' = [points EXCEPT ![<<u, k>>] = p]
    BY <1>1 DEF SplitVote
  <2> HIDE DEF p
  <2> QED
    BY <1>2, <2>1, <2>2, <2>3
<1> QED
  BY <1>3, <1>4, <1>5 DEF TypeOK, SplitVote, battles

LEMMA PuttingTypeOK ==
  ASSUME TypeOK, NEW m \in Battles, NEW type \in BattleTypes, NEW pair \in Pairings,
         Putting(m, type, pair)
  PROVE  TypeOK'
<1>1. next_battle' \in 1..(NBattles + 1)
  BY Constants DEF Putting, TypeOK
<1>2. battle' \in [Battles -> [type : BattleTypes \cup {"None"},
                               status : {"None", "Running", "Completed", "Finalized"},
                               home : Npcs \cup {0}, visiting : Npcs \cup {0},
                               winner : Npcs \cup {0}]]
  <2>1. battle[m].winner \in Npcs \cup {0}
    BY DEF TypeOK
  <2>2. pair[1] \in Npcs /\ pair[2] \in Npcs
    BY PairsAreNpcs
  <2>3. battle' = [battle EXCEPT ![m] = [type |-> type, status |-> "Running", home |-> pair[1],
                                       visiting |-> pair[2], winner |-> battle[m].winner]]
    BY DEF Putting, Put
  <2> QED
    BY <2>1, <2>2, <2>3 DEF TypeOK
<1>3. disturbed' \in BOOLEAN /\ sound' \in BOOLEAN
  BY DEF TypeOK, Putting, Put
<1> QED
  BY <1>1, <1>2, <1>3 DEF TypeOK, Putting, Put, OrganizerOnly

LEMMA SetResultTypeOK ==
  ASSUME TypeOK, NEW m \in Battles, NEW winner \in Npcs, SetResult(m, winner)
  PROVE  TypeOK'
<1>1. battle' \in [Battles -> [type : BattleTypes \cup {"None"},
                               status : {"None", "Running", "Completed", "Finalized"},
                               home : Npcs \cup {0}, visiting : Npcs \cup {0},
                               winner : Npcs \cup {0}]]
  <2> DEFINE r == [battle[m] EXCEPT !.winner = winner, !.status = "Completed"]
  <2>3. battle[m] \in BattleType
    BY DEF TypeOK, BattleType
  <2>1. r \in BattleType
    BY <2>3 DEF BattleType
  <2>2. battle' = [battle EXCEPT ![m] = r]
    BY DEF TypeOK, SetResult
  <2> HIDE DEF r
  <2> QED
    BY <2>1, <2>2, BattleChanged
<1>2. disturbed' \in BOOLEAN /\ sound' \in BOOLEAN
  BY DEF TypeOK, SetResult
<1> QED
  BY <1>1, <1>2 DEF TypeOK, SetResult, OrganizerOnly

LEMMA SettleTypeOK ==
  ASSUME TypeOK, NEW m \in Battles, Settle(m)
  PROVE  TypeOK'
<1>1. battle' \in [Battles -> [type : BattleTypes \cup {"None"},
                               status : {"None", "Running", "Completed", "Finalized"},
                               home : Npcs \cup {0}, visiting : Npcs \cup {0},
                               winner : Npcs \cup {0}]]
  <2> DEFINE r == [battle[m] EXCEPT !.status = "Finalized"]
  <2>3. battle[m] \in BattleType
    BY DEF TypeOK, BattleType
  <2>1. r \in BattleType
    BY <2>3 DEF BattleType
  <2>2. battle' = [battle EXCEPT ![m] = r]
    BY DEF Settle
  <2> HIDE DEF r
  <2> QED
    BY <2>1, <2>2, BattleChanged
<1>2. points' \in [Selects -> Points]
  BY ScoredIsPoints DEF Settle
<1> QED
  BY <1>1, <1>2 DEF TypeOK, Settle, OrganizerOnly

(* The tickets of a select, if it has so many wins. *)
Winning(u, wins) ==
  [i \in Indices |-> IF i \in DOMAIN votes[u] /\ points[u, i].known /\ points[u, i].wins = wins
                     THEN votes[u][i].tickets ELSE 0]

LEMMA TicketsWithNat ==
  ASSUME TypeOK
  PROVE  \A wins : /\ \A u \in Accounts : /\ Winning(u, wins) \in [Indices -> Nat]
                                         /\ TicketsOf(u, wins) = SumTo(Winning(u, wins), MaxSelects)
                                         /\ TicketsOf(u, wins) \in Nat
                   /\ TicketsWith(wins) \in Nat
<1> TAKE wins
<1>1. ASSUME NEW u \in Accounts
      PROVE  /\ Winning(u, wins) \in [Indices -> Nat]
             /\ TicketsOf(u, wins) = SumTo(Winning(u, wins), MaxSelects)
             /\ TicketsOf(u, wins) \in Nat
  <2>1. \A i \in DOMAIN votes[u] : votes[u][i].tickets \in Nat
    BY VotesOf
  <2>2. Winning(u, wins) \in [Indices -> Nat]
    BY <2>1 DEF Winning
  <2>3. TicketsOf(u, wins) = SumTo(Winning(u, wins), MaxSelects)
    BY DEF TicketsOf, Winning
  <2> QED
    BY <2>2, <2>3, Constants, SumToNat
<1>2. [u \in Accounts |-> TicketsOf(u, wins)] \in [1..NAccounts -> Nat]
  BY <1>1
<1>3. TicketsWith(wins) \in Nat
  BY <1>2, Constants, SumToNat DEF TicketsWith
<1> QED
  BY <1>1, <1>3

LEMMA BonusNat ==
  ASSUME TypeOK, NEW s \in Select
  PROVE  /\ \A j \in DOMAIN season.bonus :
              LET b == season.bonus[j] IN b.tickets > 0 => PerTicket(b) \in Nat
         /\ SelectBonus(s) \in Nat
<1>1. season.bonus \in Seq(Bonus) /\ DOMAIN season.bonus = 1..Len(season.bonus) /\ Len(season.bonus) \in Nat
  BY SeasonRecord, LenProperties
<1>2. \A j \in DOMAIN season.bonus : season.bonus[j].tickets \in Nat /\ season.bonus[j].amount \in Nat
  <2>1. \A j \in DOMAIN season.bonus : season.bonus[j] \in Bonus
    BY <1>1, ElementOfSeq
  <2> QED
    BY <2>1 DEF Bonus
<1>3. ASSUME NEW b, b.tickets \in Nat, b.amount \in Nat, b.tickets > 0
      PROVE  PerTicket(b) \in Nat
  <2>1. b.amount \div b.tickets \in Nat
    BY <1>3, DivMod
  <2> QED
    BY <2>1, Constants, Product DEF PerTicket
<1>4. s.tickets \in Nat
  BY DEF Select
<1> DEFINE term(j) == LET b == season.bonus[j]
                      IN  IF Right(s.picks) = b.right /\ b.tickets > 0 THEN PerTicket(b) * s.tickets ELSE 0
           f == [j \in DOMAIN season.bonus |-> term(j)]
<1>5. \A j \in DOMAIN season.bonus : term(j) \in Nat
  <2> TAKE j \in DOMAIN season.bonus
  <2>1. season.bonus[j].tickets > 0 => PerTicket(season.bonus[j]) \in Nat
    BY <1>2, <1>3
  <2>2. CASE season.bonus[j].tickets > 0
    <3>1. PerTicket(season.bonus[j]) * s.tickets \in Nat
      BY <1>4, <2>1, <2>2, ProductNat
    <3> QED
      BY <3>1
  <2>3. CASE ~(season.bonus[j].tickets > 0)
    BY <2>3
  <2> QED
    BY <2>2, <2>3
<1> HIDE DEF term
<1>6. f \in [1..Len(season.bonus) -> Nat]
  BY <1>1, <1>5
<1>7. SelectBonus(s) = SumTo(f, Len(season.bonus))
  BY DEF SelectBonus, term
<1> HIDE DEF f
<1>8. SelectBonus(s) \in Nat
  BY <1>1, <1>6, <1>7, SumToNat
<1> QED
  BY <1>2, <1>3, <1>8

(* What the selects of an account may claim. *)
Claimed(u) == [i \in Indices |-> IF i \in DOMAIN votes[u] THEN SelectBonus(votes[u][i]) ELSE 0]

LEMMA ClaimNat ==
  ASSUME TypeOK, NEW u \in Accounts
  PROVE  /\ Claimed(u) \in [Indices -> Nat]
         /\ ClaimAmount(u) = SumTo(Claimed(u), MaxSelects)
         /\ ClaimAmount(u) \in Nat
<1>1. \A i \in DOMAIN votes[u] : SelectBonus(votes[u][i]) \in Nat
  BY VotesOf, BonusNat
<1>2. Claimed(u) \in [Indices -> Nat]
  BY <1>1 DEF Claimed
<1>3. ClaimAmount(u) = SumTo(Claimed(u), MaxSelects)
  BY DEF ClaimAmount, Claimed
<1> QED
  BY <1>2, <1>3, Constants, SumToNat

(* What goes from the treasury to somebody. *)
LEMMA Paid ==
  ASSUME TypeOK, NEW u \in Accounts, NEW x \in Nat, x <= free[Treasury],
         free' = [free EXCEPT ![Treasury] = @ - x, ![u] = @ + x]
  PROVE  /\ free' \in [Ledger -> Nat]
         /\ free'[Treasury] = free[Treasury] - x /\ free'[u] = free[u] + x
         /\ \A y \in Ledger : y # u /\ y # Treasury => free'[y] = free[y]
<1>1. u \in Ledger /\ u # Treasury /\ Treasury \in Ledger
  BY Accountants
<1>2. free \in [Ledger -> Nat] /\ free[u] \in Nat /\ free[Treasury] \in Nat
  BY <1>1 DEF TypeOK
<1>3. free[Treasury] - x \in Nat /\ free[u] + x \in Nat
  BY <1>2
<1>4. /\ free'[Treasury] = free[Treasury] - x /\ free'[u] = free[u] + x
      /\ \A y \in Ledger : y # u /\ y # Treasury => free'[y] = free[y]
  BY <1>1, <1>2
<1>5. \A y \in Ledger : free'[y] \in Nat
  BY <1>2, <1>3, <1>4
<1> QED
  BY <1>2, <1>4, <1>5

LEMMA ClaimTypeOK ==
  ASSUME TypeOK, NEW u \in Accounts, Claim(u)
  PROVE  TypeOK'
<1>1. free' \in [Ledger -> Nat]
  BY ClaimNat, Paid DEF Claim
<1>2. claimed' \in [Accounts -> BOOLEAN]
  BY DEF TypeOK, Claim
<1> QED
  BY <1>1, <1>2 DEF TypeOK, Claim, battles

LEMMA WithdrawTypeOK ==
  ASSUME TypeOK, NEW u \in Accounts, WithdrawSeasonTreasury(u, free[Treasury])
  PROVE  TypeOK'
<1>1. free[Treasury] \in Nat
  BY Accountants DEF TypeOK
<1>2. free' \in [Ledger -> Nat]
  BY <1>1, Paid DEF WithdrawSeasonTreasury
<1>3. sound' \in BOOLEAN
  BY DEF WithdrawSeasonTreasury
<1> QED
  BY <1>2, <1>3 DEF TypeOK, WithdrawSeasonTreasury, OrganizerOnly, battles

(* The bonus is split into seven eighths and the rest. *)
LEMMA Split ==
  ASSUME NEW b \in Nat
  PROVE  (b * 7) \div 8 \in Nat /\ b - (b * 7) \div 8 \in Nat
<1> DEFINE c == (b * 7) \div 8
<1>1. \A x \in Nat : x \div 8 \in Nat /\ 8 * (x \div 8) <= x
  OBVIOUS
<1>2. c \in Nat /\ 8 * c <= b * 7
  BY <1>1
<1> HIDE DEF c
<1>3. c <= b
  BY <1>2
<1> QED
  BY <1>2, <1>3 DEF c

(* The two bonuses of a season that is closed. *)
First == [right |-> TotalBattles, tickets |-> TicketsWith(TotalBattles),
          amount |-> (free[Treasury] * 7) \div 8]
Second == [right |-> TotalBattles - 1, tickets |-> TicketsWith(TotalBattles - 1),
           amount |-> free[Treasury] - (free[Treasury] * 7) \div 8]

LEMMA ClosingMakes ==
  ASSUME TypeOK, CloseSeason
  PROVE  /\ season'.bonus = <<First, Second>> /\ First \in Bonus /\ Second \in Bonus
         /\ season'.first = season.first
         /\ season' \in [first : FirstTypes, status : {"Initial", "Finalized"}, bonus : Seq(Bonus),
                         closings : 0..MaxClosings, total_tickets : Nat]
<1>1. TotalBattles \in Nat \ {0}
  BY SeasonRecord, Totals DEF TotalBattles
<1>2. free[Treasury] \in Nat
  BY Accountants DEF TypeOK
<1>3. First \in Bonus /\ Second \in Bonus
  <2>1. TotalBattles \in Nat /\ TotalBattles - 1 \in Nat
    BY <1>1
  <2>2. TicketsWith(TotalBattles) \in Nat /\ TicketsWith(TotalBattles - 1) \in Nat
    BY TicketsWithNat
  <2> QED
    BY <2>1, <2>2, <1>2, Split DEF First, Second, Bonus
<1>4. season.closings < MaxClosings
      /\ season' = [season EXCEPT !.status = "Finalized", !.closings = @ + 1, !.bonus = <<First, Second>>]
  BY DEF CloseSeason, First, Second
<1>5. <<First, Second>> \in Seq(Bonus)
  BY <1>3
<1>6. season \in [first : FirstTypes, status : {"Initial", "Finalized"}, bonus : Seq(Bonus),
                  closings : 0..MaxClosings, total_tickets : Nat]
  BY DEF TypeOK
<1>7. season'.bonus = <<First, Second>> /\ season'.first = season.first
  BY <1>4, <1>6
<1>8. season.closings + 1 \in 0..MaxClosings
  BY <1>4, <1>6, Constants
<1> QED
  BY <1>3, <1>4, <1>5, <1>6, <1>7, <1>8

LEMMA NextTypeOK == TypeOK /\ [Next]_vars => TypeOK'
<1> SUFFICES ASSUME TypeOK, [Next]_vars PROVE TypeOK'
  OBVIOUS
<1>1. ASSUME Tick PROVE TypeOK'
  <2>1. now' \in 0..MaxTime
    BY <1>1, Constants DEF Tick, TypeOK
  <2> QED
    BY <1>1, <2>1 DEF Tick, TypeOK, battles
<1>2. ASSUME CloseSeason PROVE TypeOK'
  <2>1. sound' \in BOOLEAN
    BY <1>2 DEF CloseSeason
  <2> QED
    BY <1>2, <2>1, ClosingMakes DEF CloseSeason, TypeOK, battles, OrganizerOnly
<1>3. ASSUME UNCHANGED vars PROVE TypeOK'
  BY <1>3 DEF vars, TypeOK
<1>4. ASSUME NEW u \in Accounts, NEW n \in Amounts, NEW v \in Accounts, TransferTicket(u, v, n)
      PROVE  TypeOK'
  <2>1. tickets' \in [Accounts -> [total : Nat, remain : Nat]]
    BY <1>4, TicketsPassed
  <2> QED
    BY <1>4, <2>1 DEF TypeOK, TransferTicket, battles
<1> QED
  BY <1>1, <1>2, <1>3, <1>4, StepKinds, GiveAwayTypeOK, ClaimTypeOK, WithdrawTypeOK, BuyTicketTypeOK,
     InitialVoteTypeOK, SplitVoteTypeOK, AppendVoteTypeOK, PuttingTypeOK, SetResultTypeOK, SettleTypeOK

-----------------------------------------------------------------------------
(* VotesForCalc and the selects. *)

(* Every select has picks, of battles that exist. *)
PicksBattles ==
  \A u \in Accounts : \A i \in DOMAIN votes[u] :
    /\ Voted(votes[u][i].picks) # {}
    /\ \A m \in Voted(votes[u][i].picks) : battle[m].status # "None"

(* What VotesForCalc has to hold of a select. *)
PickOf(u, i, m) == IF i \in DOMAIN votes[u] THEN votes[u][i].picks[m] ELSE 0

Mirrored == TypeOK /\ CalcMirrorsVotes /\ PicksBattles

LEMMA InitMirrored == Init => Mirrored
<1> SUFFICES ASSUME Init PROVE Mirrored
  OBVIOUS
<1>1. \A u \in Accounts : DOMAIN votes[u] = {}
  BY DEF Init
<1>2. CalcMirrorsVotes
  <2>1. \A m \in Battles, s \in Selects : calc[m][s] = 0
    BY DEF Init
  <2> QED
    BY <1>1, <2>1 DEF CalcMirrorsVotes
<1> QED
  BY <1>1, <1>2, InitTypeOK DEF Mirrored, PicksBattles

(* A call that votes: the selects of u change at k only, to the picks new, *)
(* and the others keep theirs.                                             *)
Picking(u, k, new) ==
  /\ k \in Indices /\ new \in [Battles -> Npcs \cup {0}]
  /\ \A v \in Accounts : v # u => votes'[v] = votes[v]
  /\ DOMAIN votes'[u] = DOMAIN votes[u] \cup {k}
  /\ \A j \in DOMAIN votes[u] : j # k => votes'[u][j].picks = votes[u][j].picks
  /\ votes'[u][k].picks = new
  /\ battle' = battle

LEMMA PickingMirrors ==
  ASSUME Mirrored, NEW u \in Accounts, NEW k, NEW new, Picking(u, k, new),
         Voted(new) # {}, \A m \in Voted(new) : battle[m].status # "None",
         \A m \in Battles, s \in Selects :
            calc'[m][s] = IF s = <<u, k>> THEN new[m] ELSE calc[m][s]
  PROVE  CalcMirrorsVotes' /\ PicksBattles'
<1>1. CalcMirrorsVotes'
  <2> SUFFICES ASSUME NEW v \in Accounts, NEW i \in Indices, NEW m \in Battles
               PROVE  calc'[m][<<v, i>>] = IF i \in DOMAIN votes'[v] THEN votes'[v][i].picks[m] ELSE 0
    BY DEF CalcMirrorsVotes
  <2>1. <<v, i>> \in Selects /\ calc[m][<<v, i>>] = IF i \in DOMAIN votes[v] THEN votes[v][i].picks[m] ELSE 0
    BY DEF Mirrored, CalcMirrorsVotes
  <2>2. calc'[m][<<v, i>>] = IF v = u /\ i = k THEN new[m] ELSE calc[m][<<v, i>>]
    BY <2>1
  <2>3. CASE v = u /\ i = k
    <3>1. i \in DOMAIN votes'[v] /\ votes'[v][i].picks = new
      BY <2>3 DEF Picking
    <3> QED
      BY <2>2, <2>3, <3>1
  <2>4. CASE ~(v = u /\ i = k)
    <3>1. i \in DOMAIN votes'[v] <=> i \in DOMAIN votes[v]
      BY <2>4 DEF Picking
    <3>2. i \in DOMAIN votes[v] => votes'[v][i].picks = votes[v][i].picks
      BY <2>4 DEF Picking
    <3>3. calc'[m][<<v, i>>] = calc[m][<<v, i>>]
      BY <2>2, <2>4
    <3> QED
      BY <2>1, <3>1, <3>2, <3>3
  <2> QED
    BY <2>3, <2>4
<1>2. PicksBattles'
  <2> SUFFICES ASSUME NEW v \in Accounts, NEW i \in DOMAIN votes'[v]
               PROVE  /\ Voted(votes'[v][i].picks) # {}
                      /\ \A m \in Voted(votes'[v][i].picks) : battle'[m].status # "None"
    BY DEF PicksBattles, Voted
  <2>1. CASE v = u /\ i = k
    BY <2>1 DEF Picking
  <2>2. CASE ~(v = u /\ i = k)
    <3>1. i \in DOMAIN votes[v] /\ votes'[v][i].picks = votes[v][i].picks
      BY <2>2 DEF Picking
    <3> QED
      BY <3>1 DEF Mirrored, PicksBattles, Picking
  <2> QED
    BY <2>1, <2>2
<1> QED
  BY <1>1, <1>2

(* VotesForCalc, once picks have been counted. *)
Counted(u, i, picks) ==
  \A m \in Battles, s \in Selects :
    calc'[m][s] = IF s = <<u, i>> /\ picks[m] # 0 THEN picks[m] ELSE calc[m][s]

LEMMA CountMakes ==
  ASSUME TypeOK, NEW u \in Accounts, NEW i \in Indices, NEW picks \in [Battles -> Npcs \cup {0}],
         calc' = Count(u, i, picks)
  PROVE  Counted(u, i, picks)
<1> DEFINE c == Count(u, i, picks)
<1>1. \A m \in Battles, s \in Selects :
        c[m][s] = IF s = <<u, i>> /\ picks[m] # 0 THEN picks[m] ELSE calc[m][s]
  BY CountIsCalc
<1>2. calc' = c
  OBVIOUS
<1> HIDE DEF c
<1> QED
  BY <1>1, <1>2 DEF Counted

(* If picks join those of a select that exist, all are of battles that exist. *)
LEMMA JoinedExist ==
  ASSUME PicksBattles, NEW u \in Accounts, NEW i \in DOMAIN votes[u], NEW picks, CanPick(picks),
         NEW new, new = Joined(votes[u][i].picks, picks)
  PROVE  Voted(new) # {} /\ \A m \in Voted(new) : battle[m].status # "None"
<1> DEFINE old == votes[u][i].picks
<1>1. Voted(old) # {} /\ \A m \in Voted(old) : battle[m].status # "None"
  BY DEF PicksBattles
<1>2. \A m \in Voted(picks) : battle[m].status # "None"
  BY DEF CanPick
<1>3. \A m : m \in Voted(new) <=> m \in Voted(old) \/ m \in Voted(picks)
  BY DEF Voted, Joined
<1> QED
  BY <1>1, <1>2, <1>3

LEMMA CanPickExists ==
  ASSUME NEW picks, CanPick(picks)
  PROVE  /\ Voted(picks) # {}
         /\ \A m \in Voted(picks) : battle[m].status = "Running" /\ battle[m].status # "None"
BY DEF CanPick

LEMMA InitialVotePicks ==
  ASSUME TypeOK, NEW u \in Accounts, NEW n \in Amounts, NEW picks \in [Battles -> Npcs \cup {0}],
         InitialVote(u, n, picks), NEW k, k = Len(votes[u]) + 1
  PROVE  Picking(u, k, picks) /\ k \notin DOMAIN votes[u] /\ votes'[u][k].tickets = n
<1>1. /\ k \in Indices /\ k \notin DOMAIN votes[u]
      /\ Voting(u, votes'[u])
      /\ DOMAIN votes'[u] = DOMAIN votes[u] \cup {k}
      /\ \A j \in DOMAIN votes[u] : votes'[u][j] = votes[u][j]
      /\ votes'[u][k].tickets = n /\ votes'[u][k].picks = picks
  BY InitialVoteMakes
<1>2. \A v \in Accounts : v # u => votes'[v] = votes[v]
  BY <1>1, VotingKeepsOthers
<1>3. battle' = battle
  BY DEF InitialVote, battles
<1> QED
  BY <1>1, <1>2, <1>3 DEF Picking

LEMMA AppendVotePicks ==
  ASSUME TypeOK, NEW u \in Accounts, NEW i \in DOMAIN votes[u],
         NEW picks \in [Battles -> Npcs \cup {0}], AppendVote(u, i, picks),
         NEW old, old = votes[u][i].picks
  PROVE  Picking(u, i, Joined(old, picks))
<1>1. /\ Voting(u, votes'[u])
      /\ DOMAIN votes'[u] = DOMAIN votes[u]
      /\ \A j \in DOMAIN votes[u] : j # i => votes'[u][j] = votes[u][j]
      /\ votes'[u][i].picks = Joined(old, picks)
  BY AppendVoteMakes
<1>2. \A v \in Accounts : v # u => votes'[v] = votes[v]
  BY <1>1, VotingKeepsOthers
<1>3. battle' = battle
  BY DEF AppendVote, battles
<1>4. i \in Indices /\ Joined(old, picks) \in [Battles -> Npcs \cup {0}]
  BY VotesOf, JoinedIsPicks
<1> QED
  BY <1>1, <1>2, <1>3, <1>4 DEF Picking

LEMMA SplitVotePicks ==
  ASSUME TypeOK, NEW u \in Accounts, NEW i \in Indices, NEW n \in Amounts,
         NEW picks \in [Battles -> Npcs \cup {0}], SplitVote(u, i, n, picks),
         NEW old, old = votes[u][i].picks, NEW k, k = Len(votes[u]) + 1
  PROVE  Picking(u, k, Joined(old, picks)) /\ k \notin DOMAIN votes[u]
<1>1. PICK all : all = Joined(old, picks)
  OBVIOUS
<1>2. /\ i \in DOMAIN votes[u] /\ k \in Indices /\ k \notin DOMAIN votes[u]
      /\ Voting(u, votes'[u])
      /\ DOMAIN votes'[u] = DOMAIN votes[u] \cup {k}
      /\ \A j \in DOMAIN votes[u] : j # i => votes'[u][j] = votes[u][j]
      /\ votes'[u][i].picks = old
      /\ votes'[u][k].picks = all
      /\ all \in [Battles -> Npcs \cup {0}]
  BY <1>1, SplitVoteMakes
<1>3. \A v \in Accounts : v # u => votes'[v] = votes[v]
  BY <1>2, VotingKeepsOthers
<1>4. battle' = battle
  BY DEF SplitVote, battles
<1>5. \A j \in DOMAIN votes[u] : j # k => votes'[u][j].picks = votes[u][j].picks
  BY <1>2
<1> QED
  BY <1>1, <1>2, <1>3, <1>4, <1>5 DEF Picking

LEMMA StepMirrored == Mirrored /\ [Next]_vars => Mirrored'
<1> SUFFICES ASSUME Mirrored, [Next]_vars PROVE Mirrored'
  OBVIOUS
<1>1. TypeOK /\ TypeOK'
  BY NextTypeOK DEF Mirrored
<1>2. ASSUME votes' = votes, calc' = calc,
             \A m \in Battles : battle'[m].status = "None" => battle[m].status = "None"
      PROVE  CalcMirrorsVotes' /\ PicksBattles'
  <2>1. CalcMirrorsVotes'
    BY <1>2 DEF Mirrored, CalcMirrorsVotes
  <2>2. PicksBattles'
    BY <1>2 DEF Mirrored, PicksBattles, Voted
  <2> QED
    BY <2>1, <2>2
<1>3. ASSUME NEW u \in Accounts, NEW n \in Amounts, NEW picks \in [Battles -> Npcs \cup {0}],
             InitialVote(u, n, picks)
      PROVE  CalcMirrorsVotes' /\ PicksBattles'
  <2>1. PICK k : k = Len(votes[u]) + 1
    OBVIOUS
  <2>2. Picking(u, k, picks) /\ k \notin DOMAIN votes[u] /\ k \in Indices
    BY <1>1, <1>3, <2>1, InitialVotePicks DEF Picking
  <2>3. calc' = Count(u, k, picks) /\ CanPick(picks)
    BY <1>3, <2>1 DEF InitialVote
  <2>4. \A m \in Battles, s \in Selects :
          calc'[m][s] = IF s = <<u, k>> /\ picks[m] # 0 THEN picks[m] ELSE calc[m][s]
    <3>1. Counted(u, k, picks)
      BY <1>1, <2>2, <2>3, CountMakes
    <3> QED
      BY <3>1 DEF Counted
  <2>5. \A m \in Battles : calc[m][<<u, k>>] = 0
    BY <2>2 DEF Mirrored, CalcMirrorsVotes
  <2>6. \A m \in Battles, s \in Selects : calc'[m][s] = IF s = <<u, k>> THEN picks[m] ELSE calc[m][s]
    BY <2>4, <2>5
  <2> QED
    BY <2>2, <2>3, <2>6, CanPickExists, PickingMirrors
<1>4. ASSUME NEW u \in Accounts, NEW i \in DOMAIN votes[u],
             NEW picks \in [Battles -> Npcs \cup {0}], AppendVote(u, i, picks)
      PROVE  CalcMirrorsVotes' /\ PicksBattles'
  <2>1. PICK old, new : old = votes[u][i].picks /\ new = Joined(old, picks)
    OBVIOUS
  <2>2. Picking(u, i, new) /\ i \in Indices
    BY <1>1, <1>4, <2>1, AppendVotePicks DEF Picking
  <2>3. calc' = Count(u, i, picks) /\ CanPick(picks)
    BY <1>4 DEF AppendVote, CanAppend
  <2>4. \A m \in Battles, s \in Selects :
          calc'[m][s] = IF s = <<u, i>> /\ picks[m] # 0 THEN picks[m] ELSE calc[m][s]
    <3>1. Counted(u, i, picks)
      BY <1>1, <2>2, <2>3, CountMakes
    <3> QED
      BY <3>1 DEF Counted
  <2>5. \A m \in Battles : calc[m][<<u, i>>] = old[m]
    BY <2>1, <2>2 DEF Mirrored, CalcMirrorsVotes
  <2>6. \A m \in Battles : new[m] = IF picks[m] # 0 THEN picks[m] ELSE old[m]
    BY <2>1 DEF Joined
  <2>7. \A m \in Battles, s \in Selects : calc'[m][s] = IF s = <<u, i>> THEN new[m] ELSE calc[m][s]
    BY <2>4, <2>5, <2>6
  <2>8. Voted(new) # {} /\ \A m \in Voted(new) : battle[m].status # "None"
    BY <2>1, <2>3, JoinedExist DEF Mirrored
  <2> QED
    BY <2>2, <2>7, <2>8, PickingMirrors
<1>5. ASSUME NEW u \in Accounts, NEW i \in Indices, NEW n \in Amounts,
             NEW picks \in [Battles -> Npcs \cup {0}], SplitVote(u, i, n, picks)
      PROVE  CalcMirrorsVotes' /\ PicksBattles'
  <2>1. PICK old, new, k : old = votes[u][i].picks /\ new = Joined(old, picks) /\ k = Len(votes[u]) + 1
    OBVIOUS
  <2>2. Picking(u, k, new) /\ k \notin DOMAIN votes[u] /\ k \in Indices /\ new \in [Battles -> Npcs \cup {0}]
    BY <1>1, <1>5, <2>1, SplitVotePicks DEF Picking
  <2>3. calc' = Count(u, k, new) /\ CanPick(picks) /\ i \in DOMAIN votes[u]
    BY <1>5, <2>1 DEF SplitVote, CanAppend
  <2>4. \A m \in Battles, s \in Selects :
          calc'[m][s] = IF s = <<u, k>> /\ new[m] # 0 THEN new[m] ELSE calc[m][s]
    <3>1. Counted(u, k, new)
      BY <1>1, <2>2, <2>3, CountMakes
    <3> QED
      BY <3>1 DEF Counted
  <2>5. \A m \in Battles : calc[m][<<u, k>>] = 0
    BY <2>2 DEF Mirrored, CalcMirrorsVotes
  <2>6. \A m \in Battles, s \in Selects : calc'[m][s] = IF s = <<u, k>> THEN new[m] ELSE calc[m][s]
    BY <2>4, <2>5
  <2>7. Voted(new) # {} /\ \A m \in Voted(new) : battle[m].status # "None"
    BY <2>1, <2>3, JoinedExist DEF Mirrored
  <2> QED
    BY <2>2, <2>6, <2>7, PickingMirrors
<1>6. ASSUME NEW m \in Battles, NEW type \in BattleTypes, NEW pair \in Pairings, Putting(m, type, pair)
      PROVE  CalcMirrorsVotes' /\ PicksBattles'
  <2>1. \A l \in Battles : battle'[l].status = IF l = m THEN "Running" ELSE battle[l].status
    BY <1>1, <1>6 DEF Putting, Put, TypeOK
  <2> QED
    BY <1>2, <1>6, <2>1 DEF Putting, Put, OrganizerOnly
<1>7. ASSUME NEW m \in Battles, NEW winner \in Npcs, SetResult(m, winner)
      PROVE  CalcMirrorsVotes' /\ PicksBattles'
  <2>1. \A l \in Battles : battle'[l].status = IF l = m THEN "Completed" ELSE battle[l].status
    BY <1>1, <1>7 DEF SetResult, TypeOK
  <2>2. votes' = votes /\ calc' = calc /\ battle[m].status # "None"
    BY <1>7 DEF SetResult, OrganizerOnly
  <2>3. \A l \in Battles : battle'[l].status = "None" => battle[l].status = "None"
    BY <2>1, <2>2
  <2> QED
    BY <1>2, <2>2, <2>3
<1>8. ASSUME NEW m \in Battles, Settle(m)
      PROVE  CalcMirrorsVotes' /\ PicksBattles'
  <2>1. \A l \in Battles : battle'[l].status = IF l = m THEN "Finalized" ELSE battle[l].status
    BY <1>1, <1>8 DEF Settle, TypeOK
  <2> QED
    BY <1>2, <1>8, <2>1 DEF Settle, OrganizerOnly
<1>9. CalcMirrorsVotes' /\ PicksBattles'
  <2>1. ASSUME Tick \/ CloseSeason \/ UNCHANGED vars
        PROVE  CalcMirrorsVotes' /\ PicksBattles'
    BY <1>2, <2>1 DEF Tick, CloseSeason, vars, OrganizerOnly, battles
  <2>2. ASSUME NEW u \in Accounts,
               GiveAwayTickets(u) \/ Claim(u) \/ WithdrawSeasonTreasury(u, free[Treasury])
        PROVE  CalcMirrorsVotes' /\ PicksBattles'
    BY <1>2, <2>2 DEF GiveAwayTickets, Claim, WithdrawSeasonTreasury, OrganizerOnly, battles
  <2>3. ASSUME NEW u \in Accounts, NEW n \in Amounts,
               \/ \E inviter \in Inviters \cup {0} : BuyTicket(u, n, inviter)
               \/ \E v \in Accounts : TransferTicket(u, v, n)
        PROVE  CalcMirrorsVotes' /\ PicksBattles'
    BY <1>2, <2>3 DEF BuyTicket, TransferTicket, battles
  <2> QED
    BY <2>1, <2>2, <2>3, <1>3, <1>4, <1>5, <1>6, <1>7, <1>8, StepKinds
<1> QED
  BY <1>1, <1>9 DEF Mirrored

(* VotesForCalc, from which points are made, holds exactly the picks of    *)
(* the selects, from which claims are paid, however selects are extended   *)
(* and split (CalcMirrorsVotes).                                           *)
THEOREM CalcMirrors == Spec => []CalcMirrorsVotes
<1>1. Spec => []Mirrored
  BY InitMirrored, StepMirrored, PTL DEF Spec
<1>2. Mirrored => CalcMirrorsVotes
  BY DEF Mirrored
<1> QED
  BY <1>1, <1>2, PTL

-----------------------------------------------------------------------------
(* Tickets and tokens. *)

(* The tickets in the selects of u, and those of every account. *)
Staked(u) == [i \in Indices |-> IF i \in DOMAIN votes[u] THEN votes[u][i].tickets ELSE 0]
Owned == [u \in Accounts |-> tickets[u].total]

AddsUp(u) == tickets[u].total = tickets[u].remain + SumTo(Staked(u), MaxSelects)
AllOwned == SumTo(Owned, NAccounts) = season.total_tickets + given

LEMMA LedgerParts == TicketsAddUp <=> (\A u \in Accounts : AddsUp(u)) /\ AllOwned
BY DEF TicketsAddUp, AddsUp, AllOwned, Staked, Owned

LEMMA StakedNat ==
  ASSUME TypeOK, NEW u \in Accounts
  PROVE  Staked(u) \in [1..MaxSelects -> Nat] /\ Staked(u) \in [1..MaxSelects -> Int]
         /\ SumTo(Staked(u), MaxSelects) \in Nat
<1>1. \A i \in DOMAIN votes[u] : votes[u][i].tickets \in Nat
  BY VotesOf
<1>2. Staked(u) \in [1..MaxSelects -> Nat]
  BY <1>1 DEF Staked
<1>3. Staked(u) \in [1..MaxSelects -> Int]
  BY <1>2
<1> HIDE DEF Staked
<1> QED
  BY <1>2, <1>3, Constants, SumToNat

LEMMA OwnedNat ==
  ASSUME TypeOK
  PROVE  Owned \in [1..NAccounts -> Int] /\ \A u \in Accounts : Owned[u] = tickets[u].total
<1>1. \A u \in Accounts : tickets[u].total \in Nat
  BY TicketRecord
<1> QED
  BY <1>1 DEF Owned

(* The sums of what an account has staked, by what a call changes. *)
LEMMA StakedKept ==
  ASSUME NEW u \in Accounts, DOMAIN votes'[u] = DOMAIN votes[u],
         \A i \in DOMAIN votes[u] : votes'[u][i].tickets = votes[u][i].tickets
  PROVE  SumTo(Staked(u)', MaxSelects) = SumTo(Staked(u), MaxSelects)
<1>1. Staked(u)' = Staked(u)
  BY DEF Staked
<1> QED
  BY <1>1

LEMMA StakedMore ==
  ASSUME TypeOK, NEW u \in Accounts, NEW k \in Indices, k \notin DOMAIN votes[u],
         votes'[u][k].tickets \in Nat,
         DOMAIN votes'[u] = DOMAIN votes[u] \cup {k},
         \A j \in DOMAIN votes[u] : votes'[u][j].tickets = votes[u][j].tickets
  PROVE  SumTo(Staked(u)', MaxSelects) = SumTo(Staked(u), MaxSelects) + votes'[u][k].tickets
<1>c. MaxSelects \in Nat
  BY Constants
<1>0. PICK f, g : f = Staked(u) /\ g = Staked(u)'
  OBVIOUS
<1>1. f \in [1..MaxSelects -> Int]
  BY <1>0, StakedNat
<1>2. g \in [1..MaxSelects -> Int]
  <2>1. \A i \in DOMAIN votes'[u] : votes'[u][i].tickets \in Nat
    BY VotesOf
  <2> QED
    BY <1>0, <2>1 DEF Staked
<1>3. \A j \in 1..MaxSelects : j # k => g[j] = f[j]
  BY <1>0 DEF Staked
<1>4. f[k] = 0 /\ g[k] = votes'[u][k].tickets
  BY <1>0 DEF Staked
<1>5. SumTo(g, MaxSelects) = SumTo(f, MaxSelects) + g[k] - f[k]
  BY <1>1, <1>2, <1>3, <1>c, SumToChange
<1>6. SumTo(f, MaxSelects) \in Int /\ g[k] \in Int
  BY <1>1, <1>2, <1>c, SumToInt
<1> QED
  BY <1>0, <1>4, <1>5, <1>6

LEMMA StakedMoved ==
  ASSUME TypeOK, NEW u \in Accounts, NEW i \in DOMAIN votes[u],
         NEW k \in Indices, k \notin DOMAIN votes[u], votes'[u][k].tickets \in Nat,
         votes'[u][k].tickets <= votes[u][i].tickets,
         DOMAIN votes'[u] = DOMAIN votes[u] \cup {k},
         \A j \in DOMAIN votes[u] : j # i => votes'[u][j].tickets = votes[u][j].tickets,
         votes'[u][i].tickets = votes[u][i].tickets - votes'[u][k].tickets
  PROVE  SumTo(Staked(u)', MaxSelects) = SumTo(Staked(u), MaxSelects)
<1>c. MaxSelects \in Nat
  BY Constants
<1>0. PICK f, g : f = Staked(u) /\ g = Staked(u)'
  OBVIOUS
<1>1. f \in [1..MaxSelects -> Int]
  BY <1>0, StakedNat
<1>b. votes[u][i].tickets \in Nat /\ i \in Indices
  BY VotesOf
<1>a. ASSUME NEW j \in DOMAIN votes'[u] PROVE votes'[u][j].tickets \in Nat
  <2>1. j = k \/ j \in DOMAIN votes[u]
    OBVIOUS
  <2>2. j \in DOMAIN votes[u] => votes[u][j].tickets \in Nat
    BY VotesOf
  <2>3. CASE j = k
    BY <2>3
  <2>4. CASE j # k /\ j # i
    BY <2>1, <2>2, <2>4
  <2>5. CASE j = i
    BY <1>b, <2>5
  <2> QED
    BY <2>3, <2>4, <2>5
<1>2. g \in [1..MaxSelects -> Int]
  BY <1>0, <1>a DEF Staked
<1>3. \A j \in 1..MaxSelects : j # i /\ j # k => g[j] = f[j]
  BY <1>0 DEF Staked
<1>4. f[k] = 0 /\ g[k] = votes'[u][k].tickets /\ f[i] = votes[u][i].tickets /\ g[i] = votes'[u][i].tickets
      /\ i # k
  BY <1>0, <1>b DEF Staked
<1>d. i \in 1..MaxSelects /\ k \in 1..MaxSelects /\ i # k
  BY <1>b
<1>5. SumTo(g, MaxSelects) = SumTo(f, MaxSelects) + g[i] - f[i] + g[k] - f[k]
  BY <1>1, <1>2, <1>3, <1>c, <1>d, SumToChangeTwo
<1>6. SumTo(f, MaxSelects) \in Int /\ g[k] \in Int /\ f[i] \in Int
  <2>1. SumTo(f, MaxSelects) \in Int
    BY <1>1, <1>c, SumToInt
  <2> QED
    BY <1>1, <1>2, <1>d, <2>1
<1>7. g[i] = f[i] - g[k]
  BY <1>4
<1> QED
  BY <1>0, <1>4, <1>5, <1>6, <1>7

(* Votes and settling aside, selects stay as they are. *)
LEMMA VotingLedger ==
  ASSUME TypeOK, (\A u \in Accounts : AddsUp(u)) /\ AllOwned, NEW u \in Accounts,
         \A v \in Accounts : v # u => votes'[v] = votes[v] /\ tickets'[v] = tickets[v],
         tickets'[u].total = tickets[u].total, AddsUp(u)',
         season' = season, given' = given
  PROVE  (\A v \in Accounts : AddsUp(v)') /\ AllOwned'
<1>1. ASSUME NEW v \in Accounts, v # u PROVE AddsUp(v)'
  <2>1. Staked(v)' = Staked(v)
    BY <1>1 DEF Staked
  <2>2. tickets'[v] = tickets[v] /\ AddsUp(v)
    BY <1>1
  <2> QED
    BY <2>1, <2>2 DEF AddsUp
<1>2. Owned' = Owned
  BY DEF Owned
<1> QED
  BY <1>1, <1>2 DEF AllOwned

LEMMA InitialVoteLedger ==
  ASSUME TypeOK, (\A u \in Accounts : AddsUp(u)) /\ AllOwned, NEW u \in Accounts, NEW n \in Amounts,
         NEW picks \in [Battles -> Npcs \cup {0}], InitialVote(u, n, picks)
  PROVE  (\A v \in Accounts : AddsUp(v)') /\ AllOwned'
<1>1. PICK k : k = Len(votes[u]) + 1
  OBVIOUS
<1>2. /\ k \in Indices /\ k \notin DOMAIN votes[u] /\ n \in Nat
      /\ Voting(u, votes'[u])
      /\ DOMAIN votes'[u] = DOMAIN votes[u] \cup {k}
      /\ \A j \in DOMAIN votes[u] : votes'[u][j] = votes[u][j]
      /\ votes'[u][k].tickets = n
  BY <1>1, InitialVoteMakes
<1>3. /\ tickets' = [tickets EXCEPT ![u].remain = @ - n] /\ season' = season /\ given' = given
  BY DEF InitialVote
<1>4. /\ tickets[u].total \in Nat /\ tickets[u].remain \in Nat
      /\ tickets \in [Accounts -> [total : Nat, remain : Nat]]
  BY TicketRecord
<1>5. /\ \A v \in Accounts : v # u => tickets'[v] = tickets[v]
      /\ tickets'[u].total = tickets[u].total
      /\ tickets'[u].remain = tickets[u].remain - n
  BY <1>3, <1>4
<1>6. \A v \in Accounts : v # u => votes'[v] = votes[v]
  BY <1>2, VotingKeepsOthers
<1>7. SumTo(Staked(u)', MaxSelects) = SumTo(Staked(u), MaxSelects) + n
  <2>1. \A j \in DOMAIN votes[u] : votes'[u][j].tickets = votes[u][j].tickets
    BY <1>2
  <2> QED
    BY <1>2, <2>1, StakedMore
<1>8. SumTo(Staked(u), MaxSelects) \in Nat
  BY StakedNat
<1>9. AddsUp(u)'
  <2>1. AddsUp(u)
    OBVIOUS
  <2> QED
    BY <1>2, <1>4, <1>5, <1>7, <1>8, <2>1 DEF AddsUp
<1> QED
  BY <1>3, <1>5, <1>6, <1>9, VotingLedger

LEMMA AppendVoteLedger ==
  ASSUME TypeOK, (\A u \in Accounts : AddsUp(u)) /\ AllOwned, NEW u \in Accounts,
         NEW i \in DOMAIN votes[u], NEW picks \in [Battles -> Npcs \cup {0}], AppendVote(u, i, picks)
  PROVE  (\A v \in Accounts : AddsUp(v)') /\ AllOwned'
<1>1. /\ Voting(u, votes'[u])
      /\ DOMAIN votes'[u] = DOMAIN votes[u]
      /\ \A j \in DOMAIN votes[u] : j # i => votes'[u][j] = votes[u][j]
      /\ votes'[u][i].tickets = votes[u][i].tickets
  BY AppendVoteMakes
<1>2. \A v \in Accounts : v # u => votes'[v] = votes[v]
  BY <1>1, VotingKeepsOthers
<1>3. tickets' = tickets /\ season' = season /\ given' = given
  BY DEF AppendVote
<1>4. SumTo(Staked(u)', MaxSelects) = SumTo(Staked(u), MaxSelects)
  <2>1. \A j \in DOMAIN votes[u] : votes'[u][j].tickets = votes[u][j].tickets
    BY <1>1
  <2> QED
    BY <1>1, <2>1, StakedKept
<1>5. AddsUp(u)'
  <2>1. AddsUp(u)
    OBVIOUS
  <2> QED
    BY <1>3, <1>4, <2>1 DEF AddsUp
<1> QED
  BY <1>2, <1>3, <1>5, VotingLedger

LEMMA SplitVoteLedger ==
  ASSUME TypeOK, (\A u \in Accounts : AddsUp(u)) /\ AllOwned, NEW u \in Accounts, NEW i \in Indices,
         NEW n \in Amounts, NEW picks \in [Battles -> Npcs \cup {0}], SplitVote(u, i, n, picks)
  PROVE  (\A v \in Accounts : AddsUp(v)') /\ AllOwned'
<1>1. PICK k, old, all : k = Len(votes[u]) + 1 /\ old = votes[u][i].picks /\ all = Joined(old, picks)
  OBVIOUS
<1>2. /\ i \in DOMAIN votes[u] /\ k \in Indices /\ k \notin DOMAIN votes[u]
      /\ n \in Nat /\ n < votes[u][i].tickets
      /\ Voting(u, votes'[u])
      /\ DOMAIN votes'[u] = DOMAIN votes[u] \cup {k}
      /\ \A j \in DOMAIN votes[u] : j # i => votes'[u][j] = votes[u][j]
      /\ votes'[u][i].tickets = votes[u][i].tickets - n
      /\ votes'[u][k].tickets = n
  BY <1>1, SplitVoteMakes
<1>3. \A v \in Accounts : v # u => votes'[v] = votes[v]
  BY <1>2, VotingKeepsOthers
<1>4. tickets' = tickets /\ season' = season /\ given' = given
  BY DEF SplitVote
<1>5. SumTo(Staked(u)', MaxSelects) = SumTo(Staked(u), MaxSelects)
  <2>1. \A j \in DOMAIN votes[u] : j # i => votes'[u][j].tickets = votes[u][j].tickets
    BY <1>2
  <2>2. votes[u][i].tickets \in Nat
    BY <1>2, VotesOf
  <2>3. votes'[u][k].tickets \in Nat /\ votes'[u][k].tickets <= votes[u][i].tickets
        /\ votes'[u][i].tickets = votes[u][i].tickets - votes'[u][k].tickets
    BY <1>2, <2>2
  <2> QED
    BY <1>2, <2>1, <2>3, StakedMoved
<1>6. AddsUp(u)'
  <2>1. AddsUp(u)
    OBVIOUS
  <2> QED
    BY <1>4, <1>5, <2>1 DEF AddsUp
<1> QED
  BY <1>3, <1>4, <1>6, VotingLedger

(* New tickets: u holds n more, unless all he holds are as many more. *)
LEMMA GainLedger ==
  ASSUME TypeOK, (\A v \in Accounts : AddsUp(v)) /\ AllOwned, NEW u \in Accounts, NEW n \in Nat,
         tickets' = AddTickets(tickets, u, n), votes' = votes,
         season'.total_tickets + given' = season.total_tickets + given + n
  PROVE  (\A v \in Accounts : AddsUp(v)') /\ AllOwned'
<1>1. /\ tickets[u].total \in Nat /\ tickets[u].remain \in Nat
      /\ tickets \in [Accounts -> [total : Int, remain : Int]]
  BY TicketRecord
<1>2. /\ tickets'[u] = [total |-> tickets[u].total + n, remain |-> tickets[u].remain + n]
      /\ \A v \in Accounts : v # u => tickets'[v] = tickets[v]
  <2>1. PICK ts : ts = AddTickets(tickets, u, n)
    OBVIOUS
  <2>2. /\ ts[u] = [total |-> tickets[u].total + n, remain |-> tickets[u].remain + n]
        /\ \A v \in Accounts : v # u => ts[v] = tickets[v]
    <3>1. n \in Int
      OBVIOUS
    <3> QED
      BY <1>1, <2>1, <3>1, TicketsAdded
  <2> QED
    BY <2>1, <2>2
<1>3. ASSUME NEW v \in Accounts PROVE AddsUp(v)'
  <2>1. Staked(v)' = Staked(v)
    BY DEF Staked
  <2>2. SumTo(Staked(v), MaxSelects) \in Nat
    BY StakedNat
  <2>3. AddsUp(v)
    OBVIOUS
  <2>4. CASE v = u
    BY <1>1, <1>2, <2>1, <2>2, <2>3, <2>4 DEF AddsUp
  <2>5. CASE v # u
    BY <1>2, <2>1, <2>3, <2>5 DEF AddsUp
  <2> QED
    BY <2>4, <2>5
<1>4. AllOwned'
  <2>1. PICK f, g : f = Owned /\ g = Owned'
    OBVIOUS
  <2>2. f \in [1..NAccounts -> Int] /\ \A v \in Accounts : f[v] = tickets[v].total
    BY <2>1, OwnedNat
  <2>3. \A v \in Accounts : tickets'[v].total = IF v = u THEN tickets[u].total + n ELSE tickets[v].total
    BY <1>2
  <2>4. g = [v \in Accounts |-> tickets'[v].total]
    BY <2>1 DEF Owned
  <2>5. g \in [1..NAccounts -> Int] /\ g[u] = f[u] + n /\ \A v \in 1..NAccounts : v # u => g[v] = f[v]
    <3>1. \A v \in Accounts : tickets'[v].total = IF v = u THEN f[u] + n ELSE f[v]
      BY <2>2, <2>3
    <3>2. \A v \in Accounts : f[v] \in Int
      BY <2>2
    <3> QED
      BY <2>4, <3>1, <3>2
  <2>6. NAccounts \in Nat /\ u \in 1..NAccounts
    BY Constants
  <2>7. SumTo(g, NAccounts) = SumTo(f, NAccounts) + g[u] - f[u]
    BY <2>2, <2>5, <2>6, SumToChange
  <2>8. SumTo(f, NAccounts) \in Int
    BY <2>2, <2>6, SumToInt
  <2>9. f[u] \in Int
    BY <2>2
  <2>10. SumTo(g, NAccounts) = SumTo(f, NAccounts) + n
    BY <2>5, <2>7, <2>8, <2>9
  <2>11. SumTo(f, NAccounts) = season.total_tickets + given
    BY <2>1 DEF AllOwned
  <2> QED
    BY <2>1, <2>10, <2>11 DEF AllOwned
<1> QED
  BY <1>3, <1>4

LEMMA TransferLedger ==
  ASSUME TypeOK, (\A w \in Accounts : AddsUp(w)) /\ AllOwned, NEW u \in Accounts, NEW v \in Accounts,
         NEW n \in Amounts, TransferTicket(u, v, n)
  PROVE  (\A w \in Accounts : AddsUp(w)') /\ AllOwned'
<1>1. /\ n \in Nat
      /\ u = v => \A w \in Accounts : tickets'[w] = tickets[w]
      /\ u # v =>
           /\ tickets'[u] = [total |-> tickets[u].total - n, remain |-> tickets[u].remain - n]
           /\ tickets'[v] = [total |-> tickets[v].total + n, remain |-> tickets[v].remain + n]
      /\ \A w \in Accounts : w # u /\ w # v => tickets'[w] = tickets[w]
  BY TicketsPassed
<1>2. votes' = votes /\ season' = season /\ given' = given
  BY DEF TransferTicket
<1>3. \A w \in Accounts : tickets[w].total \in Nat /\ tickets[w].remain \in Nat
  BY TicketRecord
<1>4. ASSUME NEW w \in Accounts PROVE AddsUp(w)'
  <2>1. Staked(w)' = Staked(w)
    BY <1>2 DEF Staked
  <2>2. SumTo(Staked(w), MaxSelects) \in Nat
    BY StakedNat
  <2>3. AddsUp(w)
    OBVIOUS
  <2>4. CASE u = v \/ (w # u /\ w # v)
    <3>1. tickets'[w] = tickets[w]
      BY <1>1, <2>4
    <3> QED
      BY <2>1, <2>3, <3>1 DEF AddsUp
  <2>5. CASE u # v /\ w = u
    <3>1. tickets'[w].total = tickets[w].total - n /\ tickets'[w].remain = tickets[w].remain - n
      BY <1>1, <2>5
    <3> QED
      BY <1>1, <1>3, <2>1, <2>2, <2>3, <3>1 DEF AddsUp
  <2>6. CASE u # v /\ w = v
    <3>1. tickets'[w].total = tickets[w].total + n /\ tickets'[w].remain = tickets[w].remain + n
      BY <1>1, <2>6
    <3> QED
      BY <1>1, <1>3, <2>1, <2>2, <2>3, <3>1 DEF AddsUp
  <2> QED
    BY <2>4, <2>5, <2>6
<1>5. SumTo(Owned', NAccounts) = SumTo(Owned, NAccounts)
  <2>1. CASE u = v
    BY <1>1, <2>1 DEF Owned
  <2>2. CASE u # v
    <3>1. PICK f, g : f = Owned /\ g = Owned'
      OBVIOUS
    <3>2. f \in [1..NAccounts -> Int] /\ \A w \in Accounts : f[w] = tickets[w].total
      BY <3>1, OwnedNat
    <3>3. \A w \in Accounts : tickets'[w].total =
             IF w = u THEN f[u] - n ELSE IF w = v THEN f[v] + n ELSE f[w]
      BY <1>1, <2>2, <3>2
    <3>4. g = [w \in Accounts |-> tickets'[w].total]
      BY <3>1 DEF Owned
    <3>5. /\ g \in [1..NAccounts -> Int] /\ g[u] = f[u] - n /\ g[v] = f[v] + n
          /\ \A w \in 1..NAccounts : w # u /\ w # v => g[w] = f[w]
      <4>1. \A w \in Accounts : f[w] \in Int
        BY <3>2
      <4> QED
        BY <1>1, <2>2, <3>3, <3>4, <4>1
    <3>6. NAccounts \in Nat /\ u \in 1..NAccounts /\ v \in 1..NAccounts /\ n \in Int
      BY <1>1, Constants
    <3>7. SumTo(g, NAccounts) = SumTo(f, NAccounts) + g[u] - f[u] + g[v] - f[v]
      BY <2>2, <3>2, <3>5, <3>6, SumToChangeTwo
    <3>8. SumTo(f, NAccounts) \in Int
      BY <3>2, <3>6, SumToInt
    <3>9. f[u] \in Int /\ f[v] \in Int
      BY <3>2
    <3>10. SumTo(g, NAccounts) = SumTo(f, NAccounts)
      <4>1. g[u] - f[u] = -n /\ g[v] - f[v] = n /\ g[u] \in Int /\ g[v] \in Int
        BY <3>5, <3>6, <3>9
      <4> QED
        BY <3>6, <3>7, <3>8, <3>9, <4>1
    <3> QED
      BY <3>1, <3>10
  <2> QED
    BY <2>1, <2>2
<1> QED
  BY <1>2, <1>4, <1>5 DEF AllOwned

Whole(f) == SumTo(f, NAccounts + 2)

(* Balances that differ by a payment into an account, or out of it. *)
LEMMA Moved ==
  ASSUME NEW f \in [Ledger -> Int], NEW x \in Ledger, NEW d \in Int
  PROVE  \E g \in [Ledger -> Int] :
           /\ Whole(g) = Whole(f) + d /\ Whole(g) \in Int
           /\ \A y \in Ledger : g[y] = IF y = x THEN f[y] + d ELSE f[y]
<1>1. NAccounts + 2 \in Nat
  BY Constants
<1>2. PICK M, g : M = NAccounts + 2 /\ g = [y \in Ledger |-> IF y = x THEN f[y] + d ELSE f[y]]
  OBVIOUS
<1>3. M \in Nat /\ f \in [1..M -> Int] /\ x \in 1..M
  BY <1>1, <1>2
<1>4. \A y \in 1..M : f[y] \in Int /\ f[y] + d \in Int
  <2>1. \A y \in 1..M : f[y] \in Int
    BY <1>3
  <2>2. \A z \in Int : z + d \in Int
    OBVIOUS
  <2> QED
    BY <2>1, <2>2
<1>5. /\ g \in [1..M -> Int] /\ g[x] = f[x] + d /\ \A y \in 1..M : y # x => g[y] = f[y]
      /\ \A y \in 1..M : g[y] = IF y = x THEN f[y] + d ELSE f[y]
  BY <1>2, <1>3, <1>4
<1>6. SumTo(g, M) = SumTo(f, M) + g[x] - f[x]
  BY <1>3, <1>5, SumToChange
<1>7. SumTo(f, M) \in Int
  BY <1>3, SumToInt
<1>8. SumTo(g, M) = SumTo(f, M) + d /\ SumTo(g, M) \in Int
  BY <1>3, <1>4, <1>5, <1>6, <1>7
<1> QED
  BY <1>2, <1>5, <1>8 DEF Whole

LEMMA InitConservation == Init => Conservation
<1> SUFFICES ASSUME Init PROVE Conservation
  OBVIOUS
<1>1. PICK M : M = NAccounts + 2
  OBVIOUS
<1>2. NAccounts \in Nat /\ M \in Nat /\ Sponsored \in Int /\ Funds \in [1..NAccounts -> Int]
  BY <1>1, Constants
<1>3. \A u \in 1..NAccounts : Funds[u] \in Int
  BY <1>2
<1>4. free = [x \in 1..M |-> IF x \in Accounts THEN Funds[x] ELSE IF x = Treasury THEN Sponsored ELSE 0]
  BY <1>1 DEF Init
<1>5. /\ free \in [1..M -> Int]
      /\ \A u \in 1..NAccounts : free[u] = Funds[u]
      /\ free[M] = 0 /\ free[M - 1] = Sponsored
  BY <1>1, <1>2, <1>3, <1>4
<1>6. M \in 1..M /\ M - 1 \in 1..M /\ (M - 1) - 1 = NAccounts /\ NAccounts <= M
  BY <1>1, <1>2
<1>7. SumTo(free, M) = SumTo(free, M - 1) + free[M]
  BY <1>2, <1>5, <1>6, SumToStep
<1>8. SumTo(free, M - 1) = SumTo(free, NAccounts) + free[M - 1]
  <2>1. SumTo(free, M - 1) = SumTo(free, (M - 1) - 1) + free[M - 1]
    BY <1>2, <1>5, <1>6, SumToStep
  <2> QED
    BY <1>6, <2>1
<1>9. SumTo(free, NAccounts) = SumTo(Funds, NAccounts)
  BY <1>2, <1>5, <1>6, SumToAgree
<1>10. SumTo(Funds, NAccounts) \in Int
  <2>1. NAccounts \in 0..NAccounts
    BY <1>2
  <2> QED
    BY <1>2, <2>1, SumToInt
<1>11. SumTo(free, M) = SumTo(Funds, NAccounts) + Sponsored
  BY <1>2, <1>5, <1>7, <1>8, <1>9, <1>10
<1> QED
  BY <1>1, <1>11 DEF Conservation

(* What a buyer pays is what the season, his inviter and the house get. *)
LEMMA BuyTicketConservation ==
  ASSUME TypeOK, NEW u \in Accounts, NEW n \in Amounts, NEW inviter \in Inviters \cup {0},
         BuyTicket(u, n, inviter)
  PROVE  Whole(free') = Whole(free)
<1>1. PICK sale : sale = Sale(u, n, inviter)
  OBVIOUS
<1>2. TicketPrice * n <= free[u] /\ free' = sale
  BY <1>1 DEF BuyTicket
<1>3. PICK m, bonus, invite \in Nat :
           sale \in [Ledger -> Nat] /\ Selling(u, inviter, sale, m, bonus, invite)
  BY <1>1, <1>2, SalePointwise
<1>4. /\ m \in Nat /\ bonus \in Nat /\ invite \in Nat /\ m - bonus - invite \in Nat
      /\ free' \in [Ledger -> Nat]
      /\ inviter \notin Accounts \ {u} => invite = 0
      /\ \A x \in Ledger : free'[x] =
           free[x] - (IF x = u THEN m ELSE 0)
                   + (IF x = Treasury THEN bonus ELSE 0)
                   + (IF x = inviter THEN invite ELSE 0)
                   + (IF x = BvbTreasury THEN m - bonus - invite ELSE 0)
  BY <1>2, <1>3 DEF Selling
<1>5. PICK house : house = m - bonus - invite
  OBVIOUS
<1>6. PICK payee : payee = IF inviter \in Accounts \ {u} THEN inviter ELSE u
  OBVIOUS
<1>7. payee \in Ledger /\ (payee # inviter => invite = 0 /\ payee = u)
  BY <1>4, <1>6, Accountants
<1>9. /\ free \in [Ledger -> Int] /\ u \in Ledger /\ Treasury \in Ledger /\ BvbTreasury \in Ledger
      /\ -m \in Int /\ bonus \in Int /\ invite \in Int /\ house \in Int
  BY <1>4, <1>5, Accountants DEF TypeOK
<1>8. PICK paid : paid = -m
  OBVIOUS
<1> HIDE DEF Ledger, Treasury, BvbTreasury
<1>10. PICK a \in [Ledger -> Int] :
          /\ Whole(a) = Whole(free) + paid /\ Whole(a) \in Int
          /\ \A y \in Ledger : a[y] = IF y = u THEN free[y] + paid ELSE free[y]
  <2>1. u \in Ledger /\ paid \in Int /\ free \in [Ledger -> Int]
    BY <1>8, <1>9
  <2> QED
    BY <2>1, Moved
<1>11. PICK b \in [Ledger -> Int] :
          /\ Whole(b) = Whole(a) + bonus /\ Whole(b) \in Int
          /\ \A y \in Ledger : b[y] = IF y = Treasury THEN a[y] + bonus ELSE a[y]
  <2>1. Treasury \in Ledger /\ bonus \in Int /\ a \in [Ledger -> Int]
    BY <1>9, <1>10
  <2> QED
    BY <2>1, Moved
<1>12. PICK c \in [Ledger -> Int] :
          /\ Whole(c) = Whole(b) + invite /\ Whole(c) \in Int
          /\ \A y \in Ledger : c[y] = IF y = payee THEN b[y] + invite ELSE b[y]
  <2>1. payee \in Ledger /\ invite \in Int /\ b \in [Ledger -> Int]
    BY <1>7, <1>9, <1>11
  <2> QED
    BY <2>1, Moved
<1>13. PICK d \in [Ledger -> Int] :
          /\ Whole(d) = Whole(c) + house /\ Whole(d) \in Int
          /\ \A y \in Ledger : d[y] = IF y = BvbTreasury THEN c[y] + house ELSE c[y]
  <2>1. BvbTreasury \in Ledger /\ house \in Int /\ c \in [Ledger -> Int]
    BY <1>9, <1>12
  <2> QED
    BY <2>1, Moved
<1>14. Whole(free) \in Int
  <2>1. PICK M : M = NAccounts + 2
    OBVIOUS
  <2>2. M \in Nat /\ M \in 0..M /\ free \in [1..M -> Int]
    BY <1>9, <2>1, Constants DEF Ledger
  <2> QED
    BY <2>1, <2>2, SumToInt DEF Whole
<1>15. free' = d
  <2>1. ASSUME NEW y \in Ledger PROVE free'[y] = d[y]
    <3>1. PICK fy, ay, by, cy, dy, ny : /\ fy = free[y] /\ ay = a[y] /\ by = b[y] /\ cy = c[y]
                                        /\ dy = d[y] /\ ny = free'[y]
      OBVIOUS
    <3>2. /\ ay = IF y = u THEN fy + paid ELSE fy
          /\ by = IF y = Treasury THEN ay + bonus ELSE ay
          /\ cy = IF y = payee THEN by + invite ELSE by
          /\ dy = IF y = BvbTreasury THEN cy + house ELSE cy
      BY <1>10, <1>11, <1>12, <1>13, <3>1
    <3>3. PICK out, in, iv, hs : /\ out = (IF y = u THEN m ELSE 0)
                                 /\ in = (IF y = Treasury THEN bonus ELSE 0)
                                 /\ iv = (IF y = inviter THEN invite ELSE 0)
                                 /\ hs = (IF y = BvbTreasury THEN house ELSE 0)
      OBVIOUS
    <3>4. ny = fy - out + in + iv + hs
      BY <1>4, <1>5, <3>1, <3>3
    <3>5. fy \in Int
      BY <1>9, <3>1
    <3>6. iv = IF y = payee THEN invite ELSE 0
      BY <1>6, <1>7, <3>3
    <3>7. out \in Int /\ in \in Int /\ iv \in Int /\ hs \in Int
      BY <1>4, <1>9, <3>3
    <3>8. ay = fy - out /\ ay \in Int
      BY <1>4, <1>8, <3>2, <3>3, <3>5
    <3>9. by = ay + in /\ by \in Int
      BY <1>9, <3>2, <3>3, <3>8
    <3>10. cy = by + iv /\ cy \in Int
      BY <1>9, <3>2, <3>6, <3>9
    <3>11. dy = cy + hs /\ dy \in Int
      BY <1>9, <3>2, <3>3, <3>10
    <3>12. ny = dy
      BY <3>4, <3>5, <3>7, <3>8, <3>9, <3>10, <3>11
    <3> QED
      BY <3>1, <3>12
  <2>2. free' \in [Ledger -> Nat] /\ d \in [Ledger -> Int]
    BY <1>4, <1>13
  <2>3. free' = [y \in Ledger |-> free'[y]] /\ d = [y \in Ledger |-> d[y]]
    BY <2>2
  <2> QED
    BY <2>1, <2>3
<1>16. Whole(free') = Whole(free) + paid + bonus + invite + house
  BY <1>8, <1>9, <1>10, <1>11, <1>12, <1>13, <1>14, <1>15
<1>17. paid \in Int /\ bonus \in Int /\ invite \in Int /\ house \in Int
       /\ paid + bonus + invite + house = 0
  BY <1>4, <1>5, <1>8
<1> QED
  BY <1>14, <1>16, <1>17

(* What the treasury pays arrives. *)
LEMMA PaidConservation ==
  ASSUME TypeOK, NEW u \in Accounts, NEW x \in Nat, x <= free[Treasury],
         free' = [free EXCEPT ![Treasury] = @ - x, ![u] = @ + x]
  PROVE  Whole(free') = Whole(free)
<1>1. /\ free' \in [Ledger -> Nat]
      /\ free'[Treasury] = free[Treasury] - x /\ free'[u] = free[u] + x
      /\ \A y \in Ledger : y # u /\ y # Treasury => free'[y] = free[y]
  BY Paid
<1>2. PICK M, f, g : M = NAccounts + 2 /\ f = free /\ g = free'
  OBVIOUS
<1>3. /\ M \in Nat /\ f \in [1..M -> Int] /\ g \in [1..M -> Int]
      /\ Treasury \in 1..M /\ u \in 1..M /\ Treasury # u
  <2>1. NAccounts \in Nat
    BY Constants
  <2>2. free \in [Ledger -> Nat]
    BY DEF TypeOK
  <2>3. M \in Nat /\ Treasury \in 1..M /\ u \in 1..M /\ Treasury # u
    BY <1>2, <2>1
  <2> QED
    BY <1>1, <1>2, <2>2, <2>3
<1>4. \A y \in 1..M : y # Treasury /\ y # u => g[y] = f[y]
  BY <1>1, <1>2
<1> HIDE DEF Treasury
<1>5. SumTo(g, M) = SumTo(f, M) + g[Treasury] - f[Treasury] + g[u] - f[u]
  BY <1>3, <1>4, SumToChangeTwo
<1>6. SumTo(f, M) \in Int
  BY <1>3, SumToInt
<1>7. f[Treasury] \in Int /\ f[u] \in Int
  BY <1>3
<1>8. g[Treasury] = f[Treasury] - x /\ g[u] = f[u] + x
  BY <1>1, <1>2
<1>9. SumTo(g, M) = SumTo(f, M)
  BY <1>5, <1>6, <1>7, <1>8
<1> QED
  BY <1>2, <1>9 DEF Whole

TicketsRight == (\A u \in Accounts : AddsUp(u)) /\ AllOwned

LEMMA LedgerStays ==
  ASSUME TicketsRight, votes' = votes, tickets' = tickets,
         season'.total_tickets = season.total_tickets, given' = given
  PROVE  TicketsRight'
<1>1. Owned' = Owned /\ \A u \in Accounts : Staked(u)' = Staked(u)
  BY DEF Owned, Staked
<1> QED
  BY <1>1 DEF TicketsRight, AddsUp, AllOwned

LEMMA InitTicketsRight == Init => TicketsRight
<1> SUFFICES ASSUME Init PROVE TicketsRight
  OBVIOUS
<1>1. NAccounts \in Nat /\ MaxSelects \in Nat
  BY Constants
<1>2. TypeOK
  BY InitTypeOK
<1>3. ASSUME NEW u \in Accounts PROVE AddsUp(u)
  <2>1. tickets[u].total = 0 /\ tickets[u].remain = 0 /\ DOMAIN votes[u] = {}
    BY DEF Init
  <2>2. PICK f : f = Staked(u)
    OBVIOUS
  <2>3. f \in [1..MaxSelects -> Int]
    BY <1>2, <2>2, StakedNat
  <2>4. \A i \in 1..MaxSelects : f[i] = 0
    BY <2>1, <2>2 DEF Staked
  <2>5. SumTo(f, MaxSelects) = 0
    BY <1>1, <2>3, <2>4, SumToZeros
  <2> QED
    BY <2>1, <2>2, <2>5 DEF AddsUp
<1>4. AllOwned
  <2>1. \A u \in Accounts : tickets[u].total = 0
    BY DEF Init
  <2>2. PICK f : f = Owned
    OBVIOUS
  <2>3. f \in [1..NAccounts -> Int] /\ \A u \in 1..NAccounts : f[u] = 0
    BY <1>2, <2>1, <2>2, OwnedNat
  <2>4. SumTo(f, NAccounts) = 0
    BY <1>1, <2>3, SumToZeros
  <2>5. season.total_tickets = 0 /\ given = 0
    BY DEF Init
  <2> QED
    BY <2>2, <2>4, <2>5 DEF AllOwned
<1> QED
  BY <1>3, <1>4 DEF TicketsRight

LEMMA StepTicketsRight == TypeOK /\ TicketsRight /\ [Next]_vars => TicketsRight'
<1> SUFFICES ASSUME TypeOK, TicketsRight, [Next]_vars PROVE TicketsRight'
  OBVIOUS
<1>0. (\A u \in Accounts : AddsUp(u)) /\ AllOwned
  BY DEF TicketsRight
<1>1. ASSUME Tick \/ UNCHANGED vars PROVE TicketsRight'
  BY <1>1, LedgerStays DEF Tick, vars
<1>2. ASSUME CloseSeason PROVE TicketsRight'
  <2>1. season'.total_tickets = season.total_tickets
    BY <1>2, SeasonRecord DEF CloseSeason, TypeOK
  <2> QED
    BY <1>2, <2>1, LedgerStays DEF CloseSeason, OrganizerOnly
<1>3. ASSUME NEW u \in Accounts, Claim(u) \/ WithdrawSeasonTreasury(u, free[Treasury])
      PROVE  TicketsRight'
  BY <1>3, LedgerStays DEF Claim, WithdrawSeasonTreasury, OrganizerOnly
<1>4. ASSUME NEW u \in Accounts, GiveAwayTickets(u) PROVE TicketsRight'
  <2>1. /\ tickets' = AddTickets(tickets, u, 1) /\ votes' = votes
        /\ given' = given + 1 /\ season' = season
    BY <1>4 DEF GiveAwayTickets
  <2>2. given \in Int /\ season.total_tickets \in Int
    BY SeasonRecord, Constants DEF TypeOK
  <2>3. season'.total_tickets + given' = season.total_tickets + given + 1
    BY <2>1, <2>2
  <2>4. (\A v \in Accounts : AddsUp(v)') /\ AllOwned'
    BY <1>0, <2>1, <2>3, GainLedger
  <2> QED
    BY <2>4 DEF TicketsRight
<1>5. ASSUME NEW u \in Accounts, NEW n \in Amounts, NEW inviter \in Inviters \cup {0},
             BuyTicket(u, n, inviter)
      PROVE  TicketsRight'
  <2>1. tickets' = AddTickets(tickets, u, n) /\ votes' = votes /\ given' = given /\ n \in Nat
    BY <1>5, Constants DEF BuyTicket
  <2>2. season'.total_tickets = season.total_tickets + n
    BY <1>5 DEF BuyTicket, TypeOK
  <2>3. given \in Int /\ season.total_tickets \in Int
    BY SeasonRecord, Constants DEF TypeOK
  <2>4. season'.total_tickets + given' = season.total_tickets + given + n
    BY <2>1, <2>2, <2>3
  <2>5. (\A v \in Accounts : AddsUp(v)') /\ AllOwned'
    BY <1>0, <2>1, <2>4, GainLedger
  <2> QED
    BY <2>5 DEF TicketsRight
<1>6. ASSUME NEW u \in Accounts, NEW n \in Amounts, NEW v \in Accounts, TransferTicket(u, v, n)
      PROVE  TicketsRight'
  BY <1>0, <1>6, TransferLedger DEF TicketsRight
<1>7. ASSUME NEW u \in Accounts, NEW n \in Amounts, NEW picks \in [Battles -> Npcs \cup {0}],
             InitialVote(u, n, picks)
      PROVE  TicketsRight'
  BY <1>0, <1>7, InitialVoteLedger DEF TicketsRight
<1>8. ASSUME NEW u \in Accounts, NEW i \in DOMAIN votes[u], NEW picks \in [Battles -> Npcs \cup {0}],
             AppendVote(u, i, picks)
      PROVE  TicketsRight'
  BY <1>0, <1>8, AppendVoteLedger DEF TicketsRight
<1>9. ASSUME NEW u \in Accounts, NEW i \in Indices, NEW n \in Amounts,
             NEW picks \in [Battles -> Npcs \cup {0}], SplitVote(u, i, n, picks)
      PROVE  TicketsRight'
  BY <1>0, <1>9, SplitVoteLedger DEF TicketsRight
<1>10. ASSUME NEW m \in Battles, (\/ \E type \in BattleTypes, pair \in Pairings : Putting(m, type, pair)
                                  \/ \E winner \in Npcs : SetResult(m, winner)
                                  \/ Settle(m))
       PROVE  TicketsRight'
  BY <1>10, LedgerStays DEF Putting, Put, SetResult, Settle, OrganizerOnly
<1> QED
  BY <1>1, <1>2, <1>3, <1>4, <1>5, <1>6, <1>7, <1>8, <1>9, <1>10, StepKinds

LEMMA StepConservation == TypeOK /\ Conservation /\ [Next]_vars => Conservation'
<1> SUFFICES ASSUME TypeOK, Conservation, [Next]_vars PROVE Conservation'
  OBVIOUS
<1>1. Whole(free') = Whole(free)
  <2>1. ASSUME NEW u \in Accounts, Claim(u) PROVE Whole(free') = Whole(free)
    <3>1. ClaimAmount(u) \in Nat
      BY ClaimNat
    <3> QED
      BY <2>1, <3>1, PaidConservation DEF Claim
  <2>2. ASSUME NEW u \in Accounts, WithdrawSeasonTreasury(u, free[Treasury])
        PROVE  Whole(free') = Whole(free)
    <3>1. free[Treasury] \in Nat /\ free[Treasury] <= free[Treasury]
      BY Accountants DEF TypeOK
    <3> QED
      BY <2>2, <3>1, PaidConservation DEF WithdrawSeasonTreasury
  <2>3. ASSUME NEW u \in Accounts, NEW n \in Amounts, NEW inviter \in Inviters \cup {0},
               BuyTicket(u, n, inviter)
        PROVE  Whole(free') = Whole(free)
    BY <2>3, BuyTicketConservation
  <2>4. CASE free' = free
    BY <2>4
  <2>5. ASSUME NEW u \in Accounts, NEW n \in Amounts,
               \/ \E v \in Accounts : TransferTicket(u, v, n)
               \/ \E picks \in [Battles -> Npcs \cup {0}] :
                    \/ InitialVote(u, n, picks)
                    \/ \E i \in Indices : SplitVote(u, i, n, picks)
        PROVE  free' = free
    BY <2>5 DEF TransferTicket, InitialVote, SplitVote
  <2>6. ASSUME NEW u \in Accounts, \/ GiveAwayTickets(u)
                                   \/ \E i \in DOMAIN votes[u], picks \in [Battles -> Npcs \cup {0}] :
                                        AppendVote(u, i, picks)
        PROVE  free' = free
    BY <2>6 DEF GiveAwayTickets, AppendVote
  <2>7. ASSUME NEW m \in Battles, (\/ \E type \in BattleTypes, pair \in Pairings : Putting(m, type, pair)
                                   \/ \E winner \in Npcs : SetResult(m, winner)
                                   \/ Settle(m))
        PROVE  free' = free
    BY <2>7 DEF Putting, Put, SetResult, Settle
  <2>8. ASSUME Tick \/ CloseSeason \/ UNCHANGED vars PROVE free' = free
    BY <2>8 DEF Tick, CloseSeason, vars
  <2> QED
    BY <2>1, <2>2, <2>3, <2>4, <2>5, <2>6, <2>7, <2>8, StepKinds
<1> QED
  BY <1>1 DEF Conservation, Whole

(* Every ticket that was sold or given away is held by somebody or staked  *)
(* in exactly one select, and tokens only move, at any number of accounts  *)
(* and selects and at any price (LedgersAreSound).                         *)
THEOREM LedgersStaySound == Spec => []LedgersAreSound
<1> DEFINE IInv == TypeOK /\ TicketsRight /\ Conservation
<1>1. Init => IInv
  BY InitTypeOK, InitTicketsRight, InitConservation
<1>2. IInv /\ [Next]_vars => IInv'
  <2> SUFFICES ASSUME IInv, [Next]_vars PROVE IInv'
    OBVIOUS
  <2>1. TypeOK'
    BY NextTypeOK
  <2>2. TicketsRight'
    BY StepTicketsRight
  <2>3. Conservation'
    BY StepConservation
  <2> QED
    BY <2>1, <2>2, <2>3
<1>3. IInv => LedgersAreSound
  BY LedgerParts DEF LedgersAreSound, TicketsRight
<1> QED
  BY <1>1, <1>2, <1>3, PTL DEF Spec

-----------------------------------------------------------------------------
(* Points and picks. *)

(* The games of some picks, and the wins among them, by the battles b. *)
GamesOf(b, p) == {m \in Battles : p[m] # 0 /\ b[m].status = "Finalized"}
WinsOf(b, p) == {m \in GamesOf(b, p) : p[m] = b[m].winner}

ScoreFits(b, p, r) ==
  r.games = Cardinality(GamesOf(b, p)) /\ r.wins = Cardinality(WinsOf(b, p))

ScoresFit == ~disturbed =>
  \A u \in Accounts : \A i \in DOMAIN votes[u] : ScoreFits(battle, votes[u][i].picks, points[<<u, i>>])

(* A select that does not exist yet has no points. *)
Unscored == \A u \in Accounts, i \in Indices : i \notin DOMAIN votes[u] => points[<<u, i>>] = NoPoints

(* ParticipantPoints has an entry of every select that has a game. *)
Known == \A s \in Selects : points[s].games # 0 => points[s].known

Scoring == Mirrored /\ ScoresFit /\ Unscored /\ Known

LEMMA FitsMeansMatch == ScoresFit => PointsMatchPicks
<1>1. ASSUME NEW p
      PROVE  /\ Voted(p) \cap {m \in Battles : battle[m].status = "Finalized"} = GamesOf(battle, p)
             /\ {m \in Voted(p) \cap {l \in Battles : battle[l].status = "Finalized"} :
                   p[m] = battle[m].winner} = WinsOf(battle, p)
  BY DEF Voted, GamesOf, WinsOf
<1> SUFFICES ASSUME ScoresFit, ~disturbed, NEW u \in Accounts, NEW i \in DOMAIN votes[u]
             PROVE  LET settled == {m \in Battles : battle[m].status = "Finalized"}
                        picks == votes[u][i].picks
                    IN  /\ points[u, i].games = Cardinality(Voted(picks) \cap settled)
                        /\ points[u, i].wins =
                             Cardinality({m \in Voted(picks) \cap settled : picks[m] = battle[m].winner})
  BY Zenon DEF PointsMatchPicks
<1>2. ScoreFits(battle, votes[u][i].picks, points[<<u, i>>])
  BY DEF ScoresFit
<1> QED
  BY <1>1, <1>2 DEF ScoreFits

LEMMA FiniteGames == \A b, p : /\ IsFiniteSet(GamesOf(b, p)) /\ Cardinality(GamesOf(b, p)) \in Nat
                               /\ IsFiniteSet(WinsOf(b, p)) /\ Cardinality(WinsOf(b, p)) \in Nat
<1> SUFFICES ASSUME NEW b, NEW p
             PROVE  /\ IsFiniteSet(GamesOf(b, p)) /\ Cardinality(GamesOf(b, p)) \in Nat
                    /\ IsFiniteSet(WinsOf(b, p)) /\ Cardinality(WinsOf(b, p)) \in Nat
  OBVIOUS
<1>1. IsFiniteSet(1..NBattles)
  BY Constants, FS_Interval
<1>2. GamesOf(b, p) \subseteq 1..NBattles /\ WinsOf(b, p) \subseteq 1..NBattles
  BY DEF GamesOf, WinsOf
<1>3. IsFiniteSet(GamesOf(b, p)) /\ IsFiniteSet(WinsOf(b, p))
  BY <1>1, <1>2, FS_Subset
<1> QED
  BY <1>3, FS_CardinalityType

(* Picks of battles that are not settled make no difference. *)
LEMMA SamePicksFit ==
  ASSUME NEW b, NEW p, NEW q, \A m \in Battles : b[m].status = "Finalized" => q[m] = p[m]
  PROVE  GamesOf(b, q) = GamesOf(b, p) /\ WinsOf(b, q) = WinsOf(b, p)
BY DEF GamesOf, WinsOf

LEMMA NoPicksFit ==
  ASSUME NEW b, NEW p, \A m \in Battles : b[m].status = "Finalized" => p[m] = 0
  PROVE  Cardinality(GamesOf(b, p)) = 0 /\ Cardinality(WinsOf(b, p)) = 0
<1>1. GamesOf(b, p) = {} /\ WinsOf(b, p) = {}
  BY DEF GamesOf, WinsOf
<1> QED
  BY <1>1, FS_EmptySet

(* Neither do battles that are changed and not settled. *)
LEMMA SameBattlesFit ==
  ASSUME NEW b, NEW c, NEW p,
         \A m \in Battles : /\ c[m].status = "Finalized" <=> b[m].status = "Finalized"
                            /\ b[m].status = "Finalized" => c[m].winner = b[m].winner
  PROVE  GamesOf(c, p) = GamesOf(b, p) /\ WinsOf(c, p) = WinsOf(b, p)
BY DEF GamesOf, WinsOf

(* A battle that is settled adds a game to the picks of it, and a win to   *)
(* those of its winner.                                                    *)
LEMMA SettledFits ==
  ASSUME NEW b, NEW c, NEW p, NEW l \in Battles,
         b[l].status # "Finalized", c[l].status = "Finalized", c[l].winner = b[l].winner,
         \A m \in Battles : m # l => c[m] = b[m]
  PROVE  /\ p[l] = 0 => GamesOf(c, p) = GamesOf(b, p) /\ WinsOf(c, p) = WinsOf(b, p)
         /\ p[l] # 0 =>
              /\ Cardinality(GamesOf(c, p)) = Cardinality(GamesOf(b, p)) + 1
              /\ Cardinality(WinsOf(c, p)) =
                   Cardinality(WinsOf(b, p)) + (IF p[l] = b[l].winner THEN 1 ELSE 0)
<1>1. CASE p[l] = 0
  BY <1>1 DEF GamesOf, WinsOf
<1>2. CASE p[l] # 0
  <2>1. GamesOf(c, p) = GamesOf(b, p) \cup {l} /\ l \notin GamesOf(b, p) /\ l \notin WinsOf(b, p)
    BY <1>2 DEF GamesOf, WinsOf
  <2>2. WinsOf(c, p) = IF p[l] = b[l].winner THEN WinsOf(b, p) \cup {l} ELSE WinsOf(b, p)
    <3>1. \A m : m \in WinsOf(c, p) <=> m \in WinsOf(b, p) \/ (m = l /\ p[l] = b[l].winner)
      BY <1>2 DEF GamesOf, WinsOf
    <3> QED
      BY <3>1
  <2>3. /\ IsFiniteSet(GamesOf(b, p)) /\ Cardinality(GamesOf(b, p)) \in Nat
        /\ IsFiniteSet(WinsOf(b, p)) /\ Cardinality(WinsOf(b, p)) \in Nat
    BY FiniteGames
  <2>4. Cardinality(GamesOf(b, p) \cup {l}) = Cardinality(GamesOf(b, p)) + 1
    BY <2>1, <2>3, FS_AddElement
  <2>5. Cardinality(WinsOf(b, p) \cup {l}) = Cardinality(WinsOf(b, p)) + 1
    BY <2>1, <2>3, FS_AddElement
  <2>6. Cardinality(WinsOf(c, p)) = Cardinality(WinsOf(b, p)) + (IF p[l] = b[l].winner THEN 1 ELSE 0)
    <3>1. CASE p[l] = b[l].winner
      BY <2>2, <2>5, <3>1
    <3>2. CASE p[l] # b[l].winner
      BY <2>2, <2>3, <3>2
    <3> QED
      BY <3>1, <3>2
  <2> QED
    BY <1>2, <2>1, <2>4, <2>6
<1> QED
  BY <1>1, <1>2

LEMMA InitScoring == Init => Scoring
<1> SUFFICES ASSUME Init PROVE Scoring
  OBVIOUS
<1>1. \A u \in Accounts : DOMAIN votes[u] = {}
  BY DEF Init
<1>2. \A s \in Selects : points[s] = NoPoints
  BY DEF Init
<1>3. NoPoints.games = 0
  BY DEF NoPoints
<1>4. Unscored
  <2>1. \A u \in Accounts, i \in Indices : <<u, i>> \in Selects
    OBVIOUS
  <2> QED
    BY <1>2, <2>1 DEF Unscored
<1>5. Known
  BY <1>2, <1>3 DEF Known
<1>6. ScoresFit
  BY <1>1 DEF ScoresFit
<1> QED
  BY <1>4, <1>5, <1>6, InitMirrored DEF Scoring

(* A call that votes leaves the points alone, but for those the new select *)
(* takes over.                                                             *)
LEMMA PointsRecord ==
  ASSUME TypeOK, NEW s \in Selects
  PROVE  points[s] \in Points /\ points[s].games \in Nat /\ points[s].wins \in Nat
BY DEF TypeOK, Points

LEMMA PickingScores ==
  ASSUME Scoring, NEW u \in Accounts, NEW k, NEW new, Picking(u, k, new),
         ~disturbed' => ~disturbed,
         \A s \in Selects : s # <<u, k>> => points'[s] = points[s],
         ~disturbed => ScoreFits(battle, new, points'[<<u, k>>]),
         points'[<<u, k>>].games # 0 => points'[<<u, k>>].known
  PROVE  ScoresFit' /\ Unscored' /\ Known'
<1>1. ScoresFit'
  <2> SUFFICES ASSUME ~disturbed', NEW v \in Accounts, NEW i \in DOMAIN votes'[v]
               PROVE  ScoreFits(battle', votes'[v][i].picks, points'[<<v, i>>])
    BY DEF ScoresFit
  <2>1. ~disturbed /\ battle' = battle
    BY DEF Picking
  <2>2. CASE v = u /\ i = k
    <3>1. votes'[v][i].picks = new
      BY <2>2 DEF Picking
    <3> QED
      BY <2>1, <2>2, <3>1
  <2>3. CASE ~(v = u /\ i = k)
    <3>1. i \in DOMAIN votes[v] /\ votes'[v][i].picks = votes[v][i].picks
      BY <2>3 DEF Picking
    <3>2. i \in Indices
      BY <3>1, VotesOf DEF Scoring, Mirrored
    <3>3. points'[<<v, i>>] = points[<<v, i>>]
      BY <2>3, <3>2
    <3>4. ScoreFits(battle, votes[v][i].picks, points[<<v, i>>])
      BY <2>1, <3>1 DEF Scoring, ScoresFit
    <3> QED
      BY <2>1, <3>1, <3>3, <3>4
  <2> QED
    BY <2>2, <2>3
<1>2. Unscored'
  <2> SUFFICES ASSUME NEW v \in Accounts, NEW i \in Indices, i \notin DOMAIN votes'[v]
               PROVE  points'[<<v, i>>] = NoPoints
    BY DEF Unscored
  <2>1. ~(v = u /\ i = k) /\ i \notin DOMAIN votes[v]
    BY DEF Picking
  <2>2. points'[<<v, i>>] = points[<<v, i>>]
    BY <2>1
  <2> QED
    BY <2>1, <2>2 DEF Scoring, Unscored
<1>3. Known'
  <2> SUFFICES ASSUME NEW s \in Selects, points'[s].games # 0
               PROVE  points'[s].known
    BY DEF Known
  <2>1. CASE s = <<u, k>>
    BY <2>1
  <2>2. CASE s # <<u, k>>
    BY <2>2 DEF Scoring, Known
  <2> QED
    BY <2>1, <2>2
<1> QED
  BY <1>1, <1>2, <1>3

LEMMA RunningOnly ==
  ASSUME NEW picks, CanPick(picks)
  PROVE  \A m \in Battles : battle[m].status = "Finalized" => picks[m] = 0
BY DEF CanPick, Voted

LEMMA InitialVoteScores ==
  ASSUME Scoring, NEW u \in Accounts, NEW n \in Amounts, NEW picks \in [Battles -> Npcs \cup {0}],
         InitialVote(u, n, picks)
  PROVE  ScoresFit' /\ Unscored' /\ Known'
<1>1. PICK k : k = Len(votes[u]) + 1
  OBVIOUS
<1>2. TypeOK
  BY DEF Scoring, Mirrored
<1>3. Picking(u, k, picks) /\ k \notin DOMAIN votes[u] /\ k \in Indices
  BY <1>1, <1>2, InitialVotePicks DEF Picking
<1>4. points' = points /\ disturbed' = disturbed /\ CanPick(picks)
  BY DEF InitialVote
<1>5. points[<<u, k>>] = NoPoints /\ NoPoints.games = 0 /\ NoPoints.wins = 0
  BY <1>3 DEF Scoring, Unscored, NoPoints
<1>6. ScoreFits(battle, picks, points'[<<u, k>>])
  <2>1. Cardinality(GamesOf(battle, picks)) = 0 /\ Cardinality(WinsOf(battle, picks)) = 0
    BY <1>4, RunningOnly, NoPicksFit
  <2> QED
    BY <1>4, <1>5, <2>1 DEF ScoreFits
<1> QED
  BY <1>3, <1>4, <1>5, <1>6, PickingScores

LEMMA AppendVoteScores ==
  ASSUME Scoring, NEW u \in Accounts, NEW i \in DOMAIN votes[u],
         NEW picks \in [Battles -> Npcs \cup {0}], AppendVote(u, i, picks)
  PROVE  ScoresFit' /\ Unscored' /\ Known'
<1>1. PICK old, new : old = votes[u][i].picks /\ new = Joined(old, picks)
  OBVIOUS
<1>2. TypeOK
  BY DEF Scoring, Mirrored
<1>3. Picking(u, i, new) /\ i \in Indices
  BY <1>1, <1>2, AppendVotePicks DEF Picking
<1>4. points' = points /\ disturbed' = disturbed /\ CanPick(picks)
  BY DEF AppendVote, CanAppend
<1>5. ASSUME ~disturbed PROVE ScoreFits(battle, new, points'[<<u, i>>])
  <2>1. ScoreFits(battle, old, points[<<u, i>>])
    BY <1>1, <1>5 DEF Scoring, ScoresFit
  <2>2. \A m \in Battles : battle[m].status = "Finalized" => new[m] = old[m]
    BY <1>1, <1>4, RunningOnly DEF Joined
  <2>3. GamesOf(battle, new) = GamesOf(battle, old) /\ WinsOf(battle, new) = WinsOf(battle, old)
    BY <2>2, SamePicksFit
  <2> QED
    BY <1>4, <2>1, <2>3 DEF ScoreFits
<1>6. points'[<<u, i>>].games # 0 => points'[<<u, i>>].known
  <2>1. <<u, i>> \in Selects
    BY <1>3
  <2> QED
    BY <1>4, <2>1 DEF Scoring, Known
<1> QED
  BY <1>3, <1>4, <1>5, <1>6, PickingScores

LEMMA SplitVoteScores ==
  ASSUME Scoring, NEW u \in Accounts, NEW i \in Indices, NEW n \in Amounts,
         NEW picks \in [Battles -> Npcs \cup {0}], SplitVote(u, i, n, picks)
  PROVE  ScoresFit' /\ Unscored' /\ Known'
<1>1. PICK old, new, k, r : /\ old = votes[u][i].picks /\ new = Joined(old, picks)
                            /\ k = Len(votes[u]) + 1
                            /\ r = [points[<<u, i>>] EXCEPT !.known = TRUE]
  OBVIOUS
<1>2. TypeOK
  BY DEF Scoring, Mirrored
<1>3. Picking(u, k, new) /\ k \in Indices
  BY <1>1, <1>2, SplitVotePicks DEF Picking
<1>4. /\ points' = [points EXCEPT ![<<u, k>>] = r] /\ disturbed' = disturbed /\ CanPick(picks)
      /\ i \in DOMAIN votes[u]
  BY <1>1 DEF SplitVote, CanAppend
<1>5. r.known = TRUE /\ r.games = points[<<u, i>>].games /\ r.wins = points[<<u, i>>].wins
  <2>1. points[<<u, i>>] \in Points
    BY <1>2, PointsRecord
  <2> QED
    BY <1>1, <2>1 DEF Points
<1>6. points'[<<u, k>>] = r /\ \A s \in Selects : s # <<u, k>> => points'[s] = points[s]
  <2>1. points \in [Selects -> Points] /\ <<u, k>> \in Selects
    BY <1>2, <1>3 DEF TypeOK
  <2> QED
    BY <1>4, <2>1
<1>7. ASSUME ~disturbed PROVE ScoreFits(battle, new, points'[<<u, k>>])
  <2>1. ScoreFits(battle, old, points[<<u, i>>])
    BY <1>1, <1>4, <1>7 DEF Scoring, ScoresFit
  <2>2. \A m \in Battles : battle[m].status = "Finalized" => new[m] = old[m]
    BY <1>1, <1>4, RunningOnly DEF Joined
  <2>3. GamesOf(battle, new) = GamesOf(battle, old) /\ WinsOf(battle, new) = WinsOf(battle, old)
    BY <2>2, SamePicksFit
  <2> QED
    BY <1>5, <1>6, <2>1, <2>3 DEF ScoreFits
<1> QED
  BY <1>3, <1>4, <1>5, <1>6, <1>7, PickingScores

(* A battle that is not settled is put in place, or gets a result. *)
LEMMA BattlesScores ==
  ASSUME Scoring, votes' = votes, points' = points,
         ~disturbed' => /\ ~disturbed
                        /\ \A m \in Battles :
                             /\ battle'[m].status = "Finalized" <=> battle[m].status = "Finalized"
                             /\ battle[m].status = "Finalized" => battle'[m].winner = battle[m].winner
  PROVE  ScoresFit' /\ Unscored' /\ Known'
<1>1. ScoresFit'
  <2> SUFFICES ASSUME ~disturbed', NEW v \in Accounts, NEW i \in DOMAIN votes[v]
               PROVE  ScoreFits(battle', votes[v][i].picks, points[<<v, i>>])
    BY DEF ScoresFit
  <2>1. ScoreFits(battle, votes[v][i].picks, points[<<v, i>>])
    BY DEF Scoring, ScoresFit
  <2>2. PICK b, c, p : b = battle /\ c = battle' /\ p = votes[v][i].picks
    OBVIOUS
  <2>3. GamesOf(c, p) = GamesOf(b, p) /\ WinsOf(c, p) = WinsOf(b, p)
    BY <2>2, SameBattlesFit
  <2> QED
    BY <2>1, <2>2, <2>3 DEF ScoreFits
<1>2. Unscored' /\ Known'
  BY DEF Scoring, Unscored, Known
<1> QED
  BY <1>1, <1>2

LEMMA SettleScores ==
  ASSUME Scoring, NEW m \in Battles, Settle(m)
  PROVE  ScoresFit' /\ Unscored' /\ Known'
<1>1. TypeOK /\ CalcMirrorsVotes
  BY DEF Scoring, Mirrored
<1>2. /\ battle[m].status = "Completed" /\ points' = Scored(m) /\ votes' = votes /\ disturbed' = disturbed
      /\ battle' = [battle EXCEPT ![m].status = "Finalized"]
  BY DEF Settle, OrganizerOnly
<1>3. \A s \in Selects :
        /\ calc[m][s] = 0 => points'[s] = points[s]
        /\ calc[m][s] # 0 =>
             /\ points'[s].known = TRUE
             /\ points'[s].games = points[s].games + 1
             /\ points'[s].wins =
                  points[s].wins + (IF calc[m][s] = battle[m].winner THEN 1 ELSE 0)
  BY <1>1, <1>2, ScoredIsPoints
<1>4. /\ battle'[m].status = "Finalized" /\ battle'[m].winner = battle[m].winner
      /\ \A l \in Battles : l # m => battle'[l] = battle[l]
  BY <1>1, <1>2 DEF TypeOK
<1>5. ScoresFit'
  <2> SUFFICES ASSUME ~disturbed, NEW v \in Accounts, NEW i \in DOMAIN votes[v]
               PROVE  ScoreFits(battle', votes[v][i].picks, points'[<<v, i>>])
    BY <1>2 DEF ScoresFit
  <2>1. ScoreFits(battle, votes[v][i].picks, points[<<v, i>>])
    BY DEF Scoring, ScoresFit
  <2>2. PICK b, c, p : b = battle /\ c = battle' /\ p = votes[v][i].picks
    OBVIOUS
  <2>3. i \in Indices /\ calc[m][<<v, i>>] = p[m]
    BY <1>1, <2>2, VotesOf DEF CalcMirrorsVotes
  <2>4. /\ p[m] = 0 => GamesOf(c, p) = GamesOf(b, p) /\ WinsOf(c, p) = WinsOf(b, p)
        /\ p[m] # 0 =>
              /\ Cardinality(GamesOf(c, p)) = Cardinality(GamesOf(b, p)) + 1
              /\ Cardinality(WinsOf(c, p)) =
                   Cardinality(WinsOf(b, p)) + (IF p[m] = b[m].winner THEN 1 ELSE 0)
    <3>1. /\ b[m].status # "Finalized" /\ c[m].status = "Finalized" /\ c[m].winner = b[m].winner
          /\ \A l \in Battles : l # m => c[l] = b[l]
      BY <1>2, <1>4, <2>2
    <3> QED
      BY <3>1, SettledFits
  <2>5. <<v, i>> \in Selects
    BY <2>3
  <2>6. CASE p[m] = 0
    BY <1>3, <2>1, <2>2, <2>3, <2>4, <2>5, <2>6 DEF ScoreFits
  <2>7. CASE p[m] # 0
    <3>1. /\ points'[<<v, i>>].games = points[<<v, i>>].games + 1
          /\ points'[<<v, i>>].wins = points[<<v, i>>].wins + (IF p[m] = battle[m].winner THEN 1 ELSE 0)
      BY <1>3, <2>3, <2>5, <2>7
    <3> QED
      BY <2>1, <2>2, <2>4, <2>7, <3>1 DEF ScoreFits
  <2> QED
    BY <2>6, <2>7
<1>6. Unscored'
  <2> SUFFICES ASSUME NEW v \in Accounts, NEW i \in Indices, i \notin DOMAIN votes[v]
               PROVE  points'[<<v, i>>] = NoPoints
    BY <1>2 DEF Unscored
  <2>1. calc[m][<<v, i>>] = 0 /\ <<v, i>> \in Selects
    BY <1>1 DEF CalcMirrorsVotes
  <2> QED
    BY <1>3, <2>1 DEF Scoring, Unscored
<1>7. Known'
  <2> SUFFICES ASSUME NEW s \in Selects, points'[s].games # 0
               PROVE  points'[s].known
    BY DEF Known
  <2>1. CASE calc[m][s] = 0
    BY <1>3, <2>1 DEF Scoring, Known
  <2>2. CASE calc[m][s] # 0
    BY <1>3, <2>2
  <2> QED
    BY <2>1, <2>2
<1> QED
  BY <1>5, <1>6, <1>7

LEMMA StepScoring == Scoring /\ [Next]_vars => Scoring'
<1> SUFFICES ASSUME Scoring, [Next]_vars PROVE Scoring'
  OBVIOUS
<1>0. Mirrored' /\ TypeOK
  BY StepMirrored DEF Scoring, Mirrored
<1>1. ASSUME votes' = votes, points' = points, battle' = battle, disturbed' = disturbed
      PROVE  ScoresFit' /\ Unscored' /\ Known'
  BY <1>1, BattlesScores
<1>2. ASSUME NEW m \in Battles, NEW type \in BattleTypes, NEW pair \in Pairings, Putting(m, type, pair)
      PROVE  ScoresFit' /\ Unscored' /\ Known'
  <2>1. /\ votes' = votes /\ points' = points
        /\ disturbed' = (disturbed \/ battle[m].status = "Finalized")
        /\ battle' = [battle EXCEPT ![m] = [type |-> type, status |-> "Running", home |-> pair[1],
                                       visiting |-> pair[2], winner |-> battle[m].winner]]
    BY <1>2 DEF Putting, Put, OrganizerOnly
  <2>2. battle'[m].status = "Running" /\ \A l \in Battles : l # m => battle'[l] = battle[l]
    BY <1>0, <2>1 DEF TypeOK
  <2>3. ASSUME ~disturbed'
        PROVE  /\ ~disturbed
               /\ \A l \in Battles :
                    /\ battle'[l].status = "Finalized" <=> battle[l].status = "Finalized"
                    /\ battle[l].status = "Finalized" => battle'[l].winner = battle[l].winner
    <3>1. ~disturbed /\ battle[m].status # "Finalized"
      BY <2>1, <2>3
    <3> QED
      BY <2>2, <3>1
  <2> QED
    BY <2>1, <2>3, BattlesScores
<1>3. ASSUME NEW m \in Battles, NEW winner \in Npcs, SetResult(m, winner)
      PROVE  ScoresFit' /\ Unscored' /\ Known'
  <2>1. /\ votes' = votes /\ points' = points
        /\ disturbed' = (disturbed \/ battle[m].status = "Finalized")
        /\ battle' = [battle EXCEPT ![m].winner = winner, ![m].status = "Completed"]
    BY <1>3 DEF SetResult, OrganizerOnly
  <2>2. battle'[m].status = "Completed" /\ \A l \in Battles : l # m => battle'[l] = battle[l]
    BY <1>0, <2>1 DEF TypeOK
  <2>3. ASSUME ~disturbed'
        PROVE  /\ ~disturbed
               /\ \A l \in Battles :
                    /\ battle'[l].status = "Finalized" <=> battle[l].status = "Finalized"
                    /\ battle[l].status = "Finalized" => battle'[l].winner = battle[l].winner
    <3>1. ~disturbed /\ battle[m].status # "Finalized"
      BY <2>1, <2>3
    <3> QED
      BY <2>2, <3>1
  <2> QED
    BY <2>1, <2>3, BattlesScores
<1>4. ScoresFit' /\ Unscored' /\ Known'
  <2>1. ASSUME Tick \/ CloseSeason \/ UNCHANGED vars
        PROVE  ScoresFit' /\ Unscored' /\ Known'
    BY <1>1, <2>1 DEF Tick, CloseSeason, vars, OrganizerOnly, battles
  <2>2. ASSUME NEW u \in Accounts,
               GiveAwayTickets(u) \/ Claim(u) \/ WithdrawSeasonTreasury(u, free[Treasury])
        PROVE  ScoresFit' /\ Unscored' /\ Known'
    BY <1>1, <2>2 DEF GiveAwayTickets, Claim, WithdrawSeasonTreasury, OrganizerOnly, battles
  <2>3. ASSUME NEW u \in Accounts, NEW n \in Amounts,
               \/ \E inviter \in Inviters \cup {0} : BuyTicket(u, n, inviter)
               \/ \E v \in Accounts : TransferTicket(u, v, n)
        PROVE  ScoresFit' /\ Unscored' /\ Known'
    BY <1>1, <2>3 DEF BuyTicket, TransferTicket, battles
  <2> QED
    BY <2>1, <2>2, <2>3, <1>2, <1>3, StepKinds, InitialVoteScores, AppendVoteScores, SplitVoteScores,
       SettleScores
<1> QED
  BY <1>0, <1>4 DEF Scoring

(* As long as no settled battle is changed, the games and wins of every    *)
(* select are its settled picks and the right ones among them, however it  *)
(* was extended or split off (PointsMatchPicks).                           *)
THEOREM PointsStayRight == Spec => []PointsMatchPicks
<1>1. Spec => []Scoring
  BY InitScoring, StepScoring, PTL DEF Spec
<1>2. Scoring => PointsMatchPicks
  BY FitsMeansMatch DEF Scoring
<1> QED
  BY <1>1, <1>2, PTL

-----------------------------------------------------------------------------
(* The treasury and the claims. *)

(* What a bonus pays for a ticket, and for a select. *)
Rate(b) == IF b.tickets > 0 THEN PerTicket(b) ELSE 0
Paying(b, s) == IF Right(s.picks) = b.right /\ b.tickets > 0 THEN PerTicket(b) * s.tickets ELSE 0

(* All the tickets that share a bonus do not get more than it. *)
LEMMA RateCovered ==
  ASSUME NEW b \in Bonus
  PROVE  Rate(b) \in Nat /\ Rate(b) * b.tickets <= b.amount
<1>1. b.tickets \in Nat /\ b.amount \in Nat
  BY DEF Bonus
<1>2. PICK t, a : t = b.tickets /\ a = b.amount
  OBVIOUS
<1>3. CASE t > 0
  <2>1. PICK share : share = a \div t
    OBVIOUS
  <2>2. share \in Nat /\ t * share <= a
    <3>1. a \div t \in Nat /\ a % t \in 0..(t - 1) /\ a = t * (a \div t) + (a % t)
      <4>1. a \in Nat /\ t \in Nat \ {0}
        BY <1>1, <1>2, <1>3
      <4> QED
        BY <4>1, DivMod
    <3>2. PICK r : r = a % t
      OBVIOUS
    <3>3. r \in Nat /\ a = t * share + r
      BY <1>1, <1>2, <2>1, <3>1, <3>2
    <3>4. t * share \in Nat
      BY <1>1, <1>2, <2>1, <3>1, ProductNat
    <3> QED
      BY <2>1, <3>1, <3>3, <3>4
  <2>3. PICK rate : rate = Rate(b)
    OBVIOUS
  <2>4. rate \in Nat /\ rate <= share
    <3>1. TicketPrice * 100 \in Nat
      BY Product
    <3>2. rate = IF share > TicketPrice * 100 THEN TicketPrice * 100 ELSE share
      BY <1>2, <1>3, <2>1, <2>3 DEF Rate, PerTicket
    <3> QED
      BY <2>2, <3>1, <3>2
  <2>5. t * rate <= t * share
    BY <1>1, <1>2, <2>2, <2>4, ProductMonotone
  <2>6. t * rate = rate * t /\ t * rate \in Nat /\ t * share \in Nat
    <3>1. t \in Nat /\ rate \in Nat /\ share \in Nat
      BY <1>1, <1>2, <2>2, <2>4
    <3> QED
      BY <3>1, ProductNat, Products
  <2>7. rate * t <= a
    BY <1>1, <1>2, <2>2, <2>5, <2>6
  <2> QED
    BY <1>2, <2>3, <2>4, <2>7
<1>4. CASE t = 0
  <2>1. Rate(b) = 0
    BY <1>2, <1>4 DEF Rate
  <2> QED
    BY <1>1, <2>1
<1> QED
  BY <1>1, <1>2, <1>3, <1>4

(* The sum over two bonuses. *)
LEMMA SumOfTwo ==
  ASSUME NEW f \in [1..2 -> Int]
  PROVE  SumTo(f, 2) = f[1] + f[2]
<1>0. PICK N : N = 2
  OBVIOUS
<1>5. N \in Nat /\ f \in [1..N -> Int] /\ 1 \in 1..N /\ N \in 1..N
  BY <1>0
<1>1. SumTo(f, 0) = 0
  BY <1>5, SumToZero
<1>2. SumTo(f, 1) = SumTo(f, 1 - 1) + f[1]
  BY <1>5, SumToStep
<1>3. SumTo(f, 2) = SumTo(f, 2 - 1) + f[2]
  <2>1. SumTo(f, N) = SumTo(f, N - 1) + f[N]
    BY <1>5, SumToStep
  <2> QED
    BY <1>0, <2>1
<1>4. 1 - 1 = 0 /\ 2 - 1 = 1 /\ f[1] \in Int /\ f[2] \in Int
  OBVIOUS
<1> QED
  BY <1>1, <1>2, <1>3, <1>4

(* A select whose picks are all settled: its wins are what is right. *)
LEMMA SelectRight ==
  ASSUME Scoring, ~disturbed, \A m \in Battles : battle[m].status \in {"None", "Finalized"},
         NEW u \in Accounts, NEW i \in DOMAIN votes[u]
  PROVE  points[<<u, i>>].wins = Right(votes[u][i].picks) /\ points[<<u, i>>].known
<1>1. PICK p : p = votes[u][i].picks
  OBVIOUS
<1>2. Voted(p) # {} /\ \A m \in Voted(p) : battle[m].status = "Finalized"
  BY <1>1 DEF Scoring, Mirrored, PicksBattles, Voted
<1>3. GamesOf(battle, p) = Voted(p) /\ WinsOf(battle, p) = {m \in Voted(p) : p[m] = battle[m].winner}
  BY <1>2 DEF GamesOf, WinsOf, Voted
<1>4. ScoreFits(battle, p, points[<<u, i>>])
  BY <1>1 DEF Scoring, ScoresFit
<1>5. Cardinality(GamesOf(battle, p)) # 0
  BY <1>2, <1>3, FiniteGames, FS_EmptySet
<1>6. <<u, i>> \in Selects
  BY VotesOf DEF Scoring, Mirrored
<1>7. points[<<u, i>>].known
  BY <1>4, <1>5, <1>6 DEF ScoreFits, Scoring, Known
<1> QED
  BY <1>1, <1>3, <1>4, <1>7 DEF ScoreFits, Right

(* What a select gets of the bonuses of a season that is closed now. *)
LEMMA ClosedBonus ==
  ASSUME TypeOK, CloseSeason, NEW s \in Select
  PROVE  SelectBonus(s)' = Paying(First, s) + Paying(Second, s)
         /\ Paying(First, s) \in Nat /\ Paying(Second, s) \in Nat
<1>1. PICK a, b : a = First /\ b = Second
  OBVIOUS
<1>2. season'.bonus = <<a, b>> /\ a \in Bonus /\ b \in Bonus
  BY <1>1, ClosingMakes
<1>3. battle' = battle
  BY DEF CloseSeason, battles
<1>4. ASSUME NEW c \in Bonus PROVE Paying(c, s) \in Nat
  <2>1. Rate(c) \in Nat /\ s.tickets \in Nat
    BY RateCovered DEF Select
  <2>2. Rate(c) * s.tickets \in Nat
    BY <2>1, ProductNat
  <2>3. Paying(c, s) = 0 \/ Paying(c, s) = Rate(c) * s.tickets
    BY DEF Paying, Rate
  <2> QED
    BY <2>2, <2>3
<1>5. PICK f : f = [j \in DOMAIN <<a, b>> |-> Paying(<<a, b>>[j], s)]
  OBVIOUS
<1>6. Right(s.picks)' = Right(s.picks)
  BY <1>3 DEF Right
<1>7. SelectBonus(s)' = SumTo(f, Len(<<a, b>>))
  BY <1>2, <1>5, <1>6 DEF SelectBonus, Paying, PerTicket
<1>8. DOMAIN <<a, b>> = 1..2 /\ Len(<<a, b>>) = 2 /\ <<a, b>>[1] = a /\ <<a, b>>[2] = b
  OBVIOUS
<1>9. \A j \in 1..2 : j = 1 \/ j = 2
  OBVIOUS
<1>10. Paying(a, s) \in Nat /\ Paying(b, s) \in Nat
  BY <1>2, <1>4
<1> HIDE DEF Paying
<1>11. f \in [1..2 -> Int] /\ f[1] = Paying(a, s) /\ f[2] = Paying(b, s)
  BY <1>5, <1>8, <1>9, <1>10
<1>12. SumTo(f, 2) = Paying(a, s) + Paying(b, s)
  BY <1>11, SumOfTwo
<1> QED
  BY <1>1, <1>7, <1>8, <1>10, <1>12

(* Of a season closed on settled results, an account gets the bonuses per  *)
(* ticket for the tickets that CloseSeason counted as right.               *)
LEMMA ClosedClaim ==
  ASSUME Scoring, CloseSeason, ~disturbed, \A m \in Battles : battle[m].status \in {"None", "Finalized"},
         NEW u \in Accounts
  PROVE  /\ ClaimAmount(u)' = Rate(First) * TicketsOf(u, First.right)
                              + Rate(Second) * TicketsOf(u, Second.right)
         /\ Rate(First) * TicketsOf(u, First.right) \in Nat
         /\ Rate(Second) * TicketsOf(u, Second.right) \in Nat
<1>0. TypeOK
  BY DEF Scoring, Mirrored
<1>1. PICK a, b, n : a = First /\ b = Second /\ n = MaxSelects
  OBVIOUS
<1>2. a \in Bonus /\ b \in Bonus /\ n \in Nat
  BY <1>0, <1>1, ClosingMakes, Constants
<1>3. votes' = votes
  BY DEF CloseSeason, OrganizerOnly
<1>4. PICK ra, rb : ra = Rate(a) /\ rb = Rate(b)
  OBVIOUS
<1>5. ra \in Nat /\ rb \in Nat
  BY <1>2, <1>4, RateCovered
<1>6. PICK wa, wb : wa = Winning(u, a.right) /\ wb = Winning(u, b.right)
  OBVIOUS
<1>7. /\ wa \in [1..n -> Nat] /\ wb \in [1..n -> Nat]
      /\ TicketsOf(u, a.right) = SumTo(wa, n) /\ TicketsOf(u, b.right) = SumTo(wb, n)
  BY <1>0, <1>1, <1>6, TicketsWithNat
<1>8. PICK f, ga, gb : /\ f = [i \in 1..n |-> IF i \in DOMAIN votes[u] THEN SelectBonus(votes[u][i])' ELSE 0]
                       /\ ga = [i \in 1..n |-> ra * wa[i]] /\ gb = [i \in 1..n |-> rb * wb[i]]
  OBVIOUS
<1>9. \A i \in 1..n : ra * wa[i] \in Nat /\ rb * wb[i] \in Nat
  <2> TAKE i \in 1..n
  <2>1. wa[i] \in Nat /\ wb[i] \in Nat
    BY <1>7
  <2> QED
    BY <1>5, <2>1, ProductNat
<1>10. ga \in [1..n -> Nat] /\ gb \in [1..n -> Nat]
  BY <1>8, <1>9
<1>11. ASSUME NEW i \in DOMAIN votes[u]
       PROVE  /\ i \in 1..n
              /\ SelectBonus(votes[u][i])' = Paying(a, votes[u][i]) + Paying(b, votes[u][i])
              /\ Paying(a, votes[u][i]) = ra * wa[i] /\ Paying(b, votes[u][i]) = rb * wb[i]
  <2>1. PICK s : s = votes[u][i]
    OBVIOUS
  <2>2. s \in Select /\ s.tickets \in Nat /\ i \in 1..n
    BY <1>0, <1>1, <2>1, VotesOf
  <2>3. SelectBonus(s)' = Paying(a, s) + Paying(b, s)
    BY <1>0, <1>1, <2>2, ClosedBonus
  <2>4. SelectBonus(votes[u][i])' = SelectBonus(s)'
    BY <1>3, <2>1
  <2>5. points[<<u, i>>].wins = Right(s.picks) /\ points[<<u, i>>].known
    BY <2>1, SelectRight
  <2>6. ASSUME NEW c, NEW r \in Nat, NEW w, r = Rate(c), w = Winning(u, c.right)
        PROVE  Paying(c, s) = r * w[i]
    <3>1. w[i] = IF Right(s.picks) = c.right THEN s.tickets ELSE 0
      BY <1>1, <2>1, <2>2, <2>5, <2>6 DEF Winning
    <3>2. CASE Right(s.picks) = c.right
      BY <2>2, <2>6, <3>1, <3>2 DEF Paying, Rate
    <3>3. CASE Right(s.picks) # c.right
      BY <2>6, <3>1, <3>3 DEF Paying
    <3> QED
      BY <3>2, <3>3
  <2>7. Paying(a, s) = ra * wa[i] /\ Paying(b, s) = rb * wb[i]
    BY <1>4, <1>5, <1>6, <2>6
  <2> QED
    BY <2>1, <2>2, <2>3, <2>4, <2>7
<1>12. ASSUME NEW i \in 1..n, i \notin DOMAIN votes[u]
       PROVE  ra * wa[i] = 0 /\ rb * wb[i] = 0
  <2>1. wa[i] = 0 /\ wb[i] = 0
    BY <1>1, <1>6, <1>12 DEF Winning
  <2> QED
    BY <1>5, <2>1
<1>13. \A i \in 1..n : f[i] = ga[i] + gb[i]
  <2> TAKE i \in 1..n
  <2>1. ga[i] = ra * wa[i] /\ gb[i] = rb * wb[i]
    BY <1>8
  <2>2. CASE i \in DOMAIN votes[u]
    BY <1>8, <1>11, <2>1, <2>2
  <2>3. CASE i \notin DOMAIN votes[u]
    BY <1>8, <1>12, <2>1, <2>3
  <2> QED
    BY <2>2, <2>3
<1>14. f \in [1..n -> Int]
  <2>1. \A i \in 1..n : f[i] \in Int
    <3> TAKE i \in 1..n
    <3>1. ga[i] \in Nat /\ gb[i] \in Nat /\ f[i] = ga[i] + gb[i]
      BY <1>10, <1>13
    <3> QED
      BY <3>1
  <2> QED
    BY <1>8, <2>1
<1>15. ClaimAmount(u)' = SumTo(f, n)
  <2>1. [i \in Indices |-> IF i \in DOMAIN votes[u] THEN SelectBonus(votes[u][i]) ELSE 0]' = f
    BY <1>1, <1>3, <1>8
  <2> QED
    BY <1>1, <2>1 DEF ClaimAmount
<1>16. SumTo(f, n) = SumTo(ga, n) + SumTo(gb, n)
  <2>1. ga \in [1..n -> Int] /\ gb \in [1..n -> Int]
    BY <1>10
  <2> QED
    BY <1>2, <1>13, <1>14, <2>1, SumToAdd
<1>17. ASSUME NEW r \in Nat, NEW w \in [1..n -> Nat], NEW g \in [1..n -> Nat], \A i \in 1..n : g[i] = r * w[i]
       PROVE  SumTo(g, n) = r * SumTo(w, n) /\ SumTo(g, n) \in Nat
  <2>1. g \in [1..n -> Int] /\ w \in [1..n -> Int] /\ r \in Int
    BY <1>17
  <2>2. SumTo(g, n) = r * SumTo(w, n)
    BY <1>2, <1>17, <2>1, SumToScale
  <2>3. SumTo(g, n) \in Nat
    BY <1>2, SumToNat
  <2> QED
    BY <2>2, <2>3
<1>18. /\ SumTo(ga, n) = ra * SumTo(wa, n) /\ SumTo(ga, n) \in Nat
       /\ SumTo(gb, n) = rb * SumTo(wb, n) /\ SumTo(gb, n) \in Nat
  <2>1. (\A i \in 1..n : ga[i] = ra * wa[i]) /\ (\A i \in 1..n : gb[i] = rb * wb[i])
    BY <1>8
  <2> QED
    BY <1>5, <1>7, <1>10, <1>17, <2>1
<1> QED
  BY <1>1, <1>4, <1>7, <1>15, <1>16, <1>18

Owed == [u \in Accounts |-> IF claimed[u] THEN 0 ELSE ClaimAmount(u)]

(* At that moment, all claims together are not more than what the treasury *)
(* holds.                                                                  *)
LEMMA ClosedCovers ==
  ASSUME Scoring, CloseSeason, ~disturbed, \A m \in Battles : battle[m].status \in {"None", "Finalized"}
  PROVE  SumTo(Owed', NAccounts) <= free[Treasury]
<1>0. TypeOK
  BY DEF Scoring, Mirrored
<1>1. PICK a, b, n : a = First /\ b = Second /\ n = NAccounts
  OBVIOUS
<1>2. a \in Bonus /\ b \in Bonus /\ n \in Nat
  BY <1>0, <1>1, ClosingMakes, Constants
<1>3. PICK ra, rb : ra = Rate(a) /\ rb = Rate(b)
  OBVIOUS
<1>4. /\ ra \in Nat /\ rb \in Nat
      /\ ra * a.tickets <= a.amount /\ rb * b.tickets <= b.amount
  BY <1>2, <1>3, RateCovered
<1>5. PICK ta, tb : /\ ta = [u \in Accounts |-> TicketsOf(u, a.right)]
                    /\ tb = [u \in Accounts |-> TicketsOf(u, b.right)]
  OBVIOUS
<1>6. ta \in [1..n -> Nat] /\ tb \in [1..n -> Nat]
  <2>1. \A u \in Accounts : TicketsOf(u, a.right) \in Nat /\ TicketsOf(u, b.right) \in Nat
    BY <1>0, TicketsWithNat
  <2> QED
    BY <1>1, <1>5, <2>1
<1>7. a.tickets = SumTo(ta, n) /\ b.tickets = SumTo(tb, n)
  <2>1. a.tickets = TicketsWith(a.right) /\ b.tickets = TicketsWith(b.right)
    BY <1>1 DEF First, Second
  <2> QED
    BY <1>1, <1>5, <2>1 DEF TicketsWith
<1>8. PICK owed, claims : /\ owed = Owed'
                          /\ claims = [u \in Accounts |-> ClaimAmount(u)']
  OBVIOUS
<1>9. ASSUME NEW u \in Accounts
      PROVE  /\ claims[u] = ra * ta[u] + rb * tb[u]
             /\ ra * ta[u] \in Nat /\ rb * tb[u] \in Nat
  <2>1. /\ ClaimAmount(u)' = ra * TicketsOf(u, a.right) + rb * TicketsOf(u, b.right)
        /\ ra * TicketsOf(u, a.right) \in Nat /\ rb * TicketsOf(u, b.right) \in Nat
    BY <1>1, <1>3, ClosedClaim
  <2>2. ta[u] = TicketsOf(u, a.right) /\ tb[u] = TicketsOf(u, b.right) /\ claims[u] = ClaimAmount(u)'
    BY <1>5, <1>8
  <2> QED
    BY <2>1, <2>2
<1>10. PICK ga, gb : ga = [u \in 1..n |-> ra * ta[u]] /\ gb = [u \in 1..n |-> rb * tb[u]]
  OBVIOUS
<1>11. /\ ga \in [1..n -> Int] /\ gb \in [1..n -> Int]
       /\ \A u \in 1..n : ga[u] = ra * ta[u] /\ gb[u] = rb * tb[u]
  BY <1>1, <1>9, <1>10
<1>12. claims \in [1..n -> Int] /\ \A u \in 1..n : claims[u] \in Nat /\ claims[u] = ga[u] + gb[u]
  <2>1. \A u \in 1..n : claims[u] \in Nat /\ claims[u] = ga[u] + gb[u]
    BY <1>1, <1>9, <1>11
  <2> QED
    BY <1>1, <1>8, <2>1
<1>13. owed \in [1..n -> Int] /\ \A u \in 1..n : owed[u] <= claims[u]
  <2>1. \A u \in 1..n : owed[u] = 0 \/ owed[u] = claims[u]
    BY <1>1, <1>8 DEF Owed
  <2>2. owed = [u \in 1..n |-> owed[u]]
    BY <1>1, <1>8 DEF Owed
  <2>3. \A u \in 1..n : owed[u] \in Int /\ owed[u] <= claims[u]
    BY <1>12, <2>1
  <2> QED
    BY <2>2, <2>3
<1>14. SumTo(owed, n) <= SumTo(claims, n)
  BY <1>2, <1>12, <1>13, SumToMonotone
<1>15. SumTo(claims, n) = SumTo(ga, n) + SumTo(gb, n)
  <2>1. \A u \in 1..n : claims[u] = ga[u] + gb[u]
    BY <1>12
  <2>2. claims \in [1..n -> Int] /\ ga \in [1..n -> Int] /\ gb \in [1..n -> Int]
    BY <1>11, <1>12
  <2> QED
    BY <1>2, <2>1, <2>2, SumToAdd
<1>16. ASSUME NEW r \in Nat, NEW w \in [1..n -> Nat], NEW g \in [1..n -> Int], \A i \in 1..n : g[i] = r * w[i]
       PROVE  SumTo(g, n) = r * SumTo(w, n)
  <2>1. w \in [1..n -> Int] /\ r \in Int
    BY <1>16
  <2> QED
    BY <1>2, <1>16, <2>1, SumToScale
<1>17. SumTo(ga, n) = ra * a.tickets /\ SumTo(gb, n) = rb * b.tickets
  <2>1. (\A u \in 1..n : ga[u] = ra * ta[u]) /\ (\A u \in 1..n : gb[u] = rb * tb[u])
    BY <1>11
  <2>2. SumTo(ga, n) = ra * SumTo(ta, n)
    BY <1>4, <1>6, <1>11, <1>16, <2>1
  <2>3. SumTo(gb, n) = rb * SumTo(tb, n)
    BY <1>4, <1>6, <1>11, <1>16, <2>1
  <2> QED
    BY <1>7, <2>2, <2>3
<1>18. a.amount + b.amount = free[Treasury] /\ a.amount \in Nat /\ b.amount \in Nat
  <2>1. free[Treasury] \in Nat
    BY <1>0, Accountants DEF TypeOK
  <2>2. PICK x, y : x = (free[Treasury] * 7) \div 8 /\ y = free[Treasury]
    OBVIOUS
  <2>3. a.amount = x /\ b.amount = y - x
    BY <1>1, <2>2 DEF First, Second
  <2>4. x \in Nat /\ y - x \in Nat
    BY <2>1, <2>2, Split
  <2> QED
    BY <2>1, <2>2, <2>3, <2>4
<1>19. SumTo(owed, n) \in Int /\ SumTo(ga, n) \in Int /\ SumTo(gb, n) \in Int
  <2>1. n \in 0..n
    BY <1>2
  <2> QED
    BY <1>2, <1>11, <1>13, <2>1, SumToInt
<1>20. SumTo(ga, n) <= a.amount /\ SumTo(gb, n) <= b.amount
  BY <1>4, <1>17
<1>21. PICK t : t = free[Treasury]
  OBVIOUS
<1>22. SumTo(owed, n) <= t
  <2>1. SumTo(owed, n) <= SumTo(ga, n) + SumTo(gb, n)
    BY <1>14, <1>15
  <2> QED
    BY <1>18, <1>19, <1>20, <1>21, <2>1
<1> QED
  BY <1>1, <1>8, <1>21, <1>22

(* A season that was closed soundly has no battle that is not settled. *)
SoundMeans == sound => \A m \in Battles : battle[m].status \in {"None", "Finalized"}

Covering == Scoring /\ SoundMeans /\ TreasuryCoversClaims

LEMMA OwedNat ==
  ASSUME TypeOK
  PROVE  Owed \in [1..NAccounts -> Int] /\ SumTo(Owed, NAccounts) \in Int
<1>1. PICK n, f : n = NAccounts /\ f = Owed
  OBVIOUS
<1>2. n \in Nat /\ n \in 0..n
  BY <1>1, Constants
<1>3. \A u \in Accounts : ClaimAmount(u) \in Nat
  BY ClaimNat
<1>4. f \in [1..n -> Int]
  BY <1>1, <1>3 DEF Owed
<1>5. SumTo(f, n) \in Int
  BY <1>2, <1>4, SumToInt
<1> QED
  BY <1>1, <1>4, <1>5

LEMMA CoversOwed == TreasuryCoversClaims <=> (sound => SumTo(Owed, NAccounts) <= free[Treasury])
BY DEF TreasuryCoversClaims, Owed

(* Claims stay as they are unless votes, battles or bonuses change. *)
LEMMA ClaimStays ==
  ASSUME votes' = votes, battle' = battle, season'.bonus = season.bonus, NEW u
  PROVE  ClaimAmount(u)' = ClaimAmount(u)
<1>1. ASSUME NEW s PROVE SelectBonus(s)' = SelectBonus(s)
  <2>1. Right(s.picks)' = Right(s.picks)
    BY DEF Right
  <2> QED
    BY <2>1 DEF SelectBonus, PerTicket
<1>2. [i \in Indices |-> IF i \in DOMAIN votes[u] THEN SelectBonus(votes[u][i]) ELSE 0]'
        = [i \in Indices |-> IF i \in DOMAIN votes[u] THEN SelectBonus(votes[u][i]) ELSE 0]
  <2>1. ASSUME NEW i PROVE SelectBonus(votes[u][i])' = SelectBonus(votes[u][i])
    <3>1. PICK s : s = votes[u][i]
      OBVIOUS
    <3>2. SelectBonus(votes[u][i])' = SelectBonus(s)'
      BY <3>1
    <3> QED
      BY <1>1, <3>1, <3>2
  <2> QED
    BY <2>1
<1> QED
  BY <1>2 DEF ClaimAmount

LEMMA CoveredStays ==
  ASSUME Covering, votes' = votes, battle' = battle, season'.bonus = season.bonus,
         claimed' = claimed, sound' = sound, free'[Treasury] \in Nat, free[Treasury] <= free'[Treasury]
  PROVE  SoundMeans' /\ TreasuryCoversClaims'
<1>1. Owed' = Owed
  BY ClaimStays DEF Owed
<1>2. SumTo(Owed, NAccounts) \in Int /\ free[Treasury] \in Nat
  BY OwedNat, Accountants DEF Covering, Scoring, Mirrored, TypeOK
<1>3. SoundMeans'
  BY DEF Covering, SoundMeans
<1>4. ASSUME sound' PROVE SumTo(Owed', NAccounts) <= free'[Treasury]
  <2>1. SumTo(Owed, NAccounts) <= free[Treasury]
    BY <1>4, CoversOwed DEF Covering
  <2>2. PICK o, x, y : o = SumTo(Owed, NAccounts) /\ x = free[Treasury] /\ y = free'[Treasury]
    OBVIOUS
  <2>3. o <= y
    BY <1>2, <2>1, <2>2
  <2> QED
    BY <1>1, <2>2, <2>3
<1>5. TreasuryCoversClaims'
  BY <1>4 DEF TreasuryCoversClaims, Owed
<1> QED
  BY <1>3, <1>5

(* Nobody can vote any more. *)
LEMMA NoVotes ==
  ASSUME Covering, NEW picks, CanPick(picks)
  PROVE  ~sound
BY DEF Covering, SoundMeans, CanPick, Voted

LEMMA ClaimCovers ==
  ASSUME Covering, NEW u \in Accounts, Claim(u)
  PROVE  SoundMeans' /\ TreasuryCoversClaims'
<1>0. TypeOK
  BY DEF Covering, Scoring, Mirrored
<1>1. /\ ~claimed[u] /\ claimed' = [claimed EXCEPT ![u] = TRUE]
      /\ votes' = votes /\ battle' = battle /\ season' = season /\ sound' = sound
      /\ ClaimAmount(u) <= free[Treasury]
      /\ free' = [free EXCEPT ![Treasury] = @ - ClaimAmount(u), ![u] = @ + ClaimAmount(u)]
  BY DEF Claim, battles
<1>2. SoundMeans'
  BY <1>1 DEF Covering, SoundMeans
<1>3. PICK x : x = ClaimAmount(u)
  OBVIOUS
<1>4. x \in Nat /\ free'[Treasury] = free[Treasury] - x
  BY <1>0, <1>1, <1>3, ClaimNat, Paid
<1>5. PICK n, f, g : n = NAccounts /\ f = Owed /\ g = Owed'
  OBVIOUS
<1>6. n \in Nat /\ f \in [1..n -> Int] /\ u \in 1..n /\ SumTo(f, n) \in Int
  BY <1>0, <1>5, OwedNat, Constants
<1>7. claimed'[u] = TRUE /\ \A v \in Accounts : v # u => claimed'[v] = claimed[v]
  BY <1>0, <1>1 DEF TypeOK
<1>8. \A v \in Accounts : ClaimAmount(v)' = ClaimAmount(v)
  BY <1>1, ClaimStays
<1>9. g[u] = 0 /\ f[u] = x
  BY <1>1, <1>3, <1>5, <1>7 DEF Owed
<1>10. \A v \in 1..n : v # u => g[v] = f[v]
  BY <1>5, <1>7, <1>8 DEF Owed
<1>11. g \in [1..n -> Int]
  <2>1. g = [v \in 1..n |-> g[v]]
    BY <1>5 DEF Owed
  <2>2. \A v \in 1..n : g[v] \in Int
    <3>1. \A v \in 1..n : f[v] \in Int
      BY <1>6
    <3> QED
      BY <1>9, <1>10, <3>1
  <2> QED
    BY <2>1, <2>2
<1>12. SumTo(g, n) = SumTo(f, n) + g[u] - f[u]
  BY <1>6, <1>10, <1>11, SumToChange
<1>13. SumTo(g, n) = SumTo(f, n) - x
  BY <1>4, <1>6, <1>9, <1>12
<1>14. ASSUME sound' PROVE SumTo(Owed', NAccounts) <= free'[Treasury]
  <2>1. SumTo(f, n) <= free[Treasury]
    BY <1>1, <1>5, <1>14, CoversOwed DEF Covering
  <2>2. free[Treasury] \in Nat
    BY <1>0, Accountants DEF TypeOK
  <2>3. PICK y : y = free[Treasury]
    OBVIOUS
  <2>4. SumTo(f, n) - x <= y - x
    BY <1>4, <1>6, <2>1, <2>2, <2>3
  <2> QED
    BY <1>4, <1>5, <1>13, <2>3, <2>4
<1>15. TreasuryCoversClaims'
  BY <1>14 DEF TreasuryCoversClaims, Owed
<1> QED
  BY <1>2, <1>15

LEMMA BuyCovers ==
  ASSUME Covering, NEW u \in Accounts, NEW n \in Amounts, NEW inviter \in Inviters \cup {0},
         BuyTicket(u, n, inviter)
  PROVE  SoundMeans' /\ TreasuryCoversClaims'
<1>0. TypeOK
  BY DEF Covering, Scoring, Mirrored
<1>1. PICK sale : sale = Sale(u, n, inviter)
  OBVIOUS
<1>2. TicketPrice * n <= free[u] /\ free' = sale
  BY <1>1 DEF BuyTicket
<1>3. PICK m, bonus, invite \in Nat :
           sale \in [Ledger -> Nat] /\ Selling(u, inviter, sale, m, bonus, invite)
  BY <1>0, <1>1, <1>2, SalePointwise
<1>4. Treasury # inviter /\ Treasury # u /\ Treasury # BvbTreasury /\ Treasury \in Ledger
  <2>1. inviter \in Accounts \/ inviter = 0
    BY CountAssumption
  <2> QED
    BY <2>1, Accountants
<1>5. free[Treasury] \in Nat /\ free'[Treasury] \in Nat
  BY <1>0, <1>2, <1>3, <1>4 DEF TypeOK
<1>6. free'[Treasury] = free[Treasury] - 0 + bonus + 0 + 0
  BY <1>2, <1>3, <1>4 DEF Selling
<1>7. free[Treasury] <= free'[Treasury]
  BY <1>3, <1>5, <1>6
<1>8. season'.bonus = season.bonus
  BY <1>0 DEF BuyTicket, TypeOK
<1> QED
  BY <1>5, <1>7, <1>8, CoveredStays DEF BuyTicket, battles

LEMMA CloseCovers ==
  ASSUME Covering, CloseSeason
  PROVE  SoundMeans' /\ TreasuryCoversClaims'
<1>1. sound' = (~disturbed /\ \A m \in Battles : battle[m].status \in {"None", "Finalized"})
      /\ battle' = battle /\ free' = free
  BY DEF CloseSeason, battles
<1>2. SoundMeans'
  BY <1>1 DEF SoundMeans
<1>3. ASSUME sound' PROVE SumTo(Owed', NAccounts) <= free'[Treasury]
  <2>1. ~disturbed /\ \A m \in Battles : battle[m].status \in {"None", "Finalized"}
    BY <1>1, <1>3
  <2>2. SumTo(Owed', NAccounts) <= free[Treasury]
    BY <2>1, ClosedCovers DEF Covering
  <2> QED
    BY <1>1, <2>2
<1>4. TreasuryCoversClaims'
  BY <1>3 DEF TreasuryCoversClaims, Owed
<1> QED
  BY <1>2, <1>4

LEMMA StepCovering == Covering /\ [Next]_vars => Covering'
<1> SUFFICES ASSUME Covering, [Next]_vars PROVE Covering'
  OBVIOUS
<1>0. Scoring' /\ TypeOK
  BY StepScoring DEF Covering, Scoring, Mirrored
<1>1. free[Treasury] \in Nat /\ free[Treasury] <= free[Treasury]
  BY <1>0, Accountants DEF TypeOK
<1>2. ASSUME votes' = votes, battle' = battle, season' = season, claimed' = claimed,
             sound' = sound, free' = free
      PROVE  SoundMeans' /\ TreasuryCoversClaims'
  <2>1. free'[Treasury] \in Nat /\ free[Treasury] <= free'[Treasury]
    BY <1>1, <1>2
  <2> QED
    BY <1>2, <2>1, CoveredStays
<1>3. ASSUME ~sound' PROVE SoundMeans' /\ TreasuryCoversClaims'
  BY <1>3 DEF SoundMeans, TreasuryCoversClaims
<1>4. SoundMeans' /\ TreasuryCoversClaims'
  <2>1. ASSUME Tick \/ UNCHANGED vars
        PROVE  SoundMeans' /\ TreasuryCoversClaims'
    BY <1>2, <2>1 DEF Tick, vars, battles
  <2>2. ASSUME NEW u \in Accounts, GiveAwayTickets(u)
        PROVE  SoundMeans' /\ TreasuryCoversClaims'
    BY <1>2, <2>2 DEF GiveAwayTickets, battles
  <2>3. ASSUME NEW u \in Accounts, WithdrawSeasonTreasury(u, free[Treasury])
        PROVE  SoundMeans' /\ TreasuryCoversClaims'
    BY <1>3, <2>3 DEF WithdrawSeasonTreasury
  <2>4. ASSUME NEW u \in Accounts, NEW n \in Amounts, NEW v \in Accounts, TransferTicket(u, v, n)
        PROVE  SoundMeans' /\ TreasuryCoversClaims'
    BY <1>2, <2>4 DEF TransferTicket, battles
  <2>5. ASSUME NEW m \in Battles, (\/ \E type \in BattleTypes, pair \in Pairings : Putting(m, type, pair)
                                   \/ \E winner \in Npcs : SetResult(m, winner)
                                   \/ Settle(m))
        PROVE  SoundMeans' /\ TreasuryCoversClaims'
    BY <1>3, <2>5 DEF Putting, Put, SetResult, Settle
  <2>6. ASSUME NEW u \in Accounts, NEW n \in Amounts, NEW picks \in [Battles -> Npcs \cup {0}],
               InitialVote(u, n, picks) \/ \E i \in Indices : SplitVote(u, i, n, picks)
        PROVE  SoundMeans' /\ TreasuryCoversClaims'
    <3>1. CanPick(picks) /\ sound' = sound
      BY <2>6 DEF InitialVote, SplitVote, CanAppend
    <3> QED
      BY <1>3, <3>1, NoVotes
  <2>7. ASSUME NEW u \in Accounts, NEW i \in DOMAIN votes[u], NEW picks \in [Battles -> Npcs \cup {0}],
               AppendVote(u, i, picks)
        PROVE  SoundMeans' /\ TreasuryCoversClaims'
    <3>1. CanPick(picks) /\ sound' = sound
      BY <2>7 DEF AppendVote, CanAppend
    <3> QED
      BY <1>3, <3>1, NoVotes
  <2> QED
    BY <2>1, <2>2, <2>3, <2>4, <2>5, <2>6, <2>7, StepKinds, ClaimCovers, BuyCovers, CloseCovers
<1> QED
  BY <1>0, <1>4 DEF Covering

(* Whatever the prices and the votes, a season closed on settled results   *)
(* can pay every account that has not claimed yet, as long as the          *)
(* organizer leaves it alone (TreasuryCoversClaims).                       *)
THEOREM ClaimsAreCovered == Spec => []TreasuryCoversClaims
<1>1. Init => Covering
  <2>1. Init => ~sound
    BY DEF Init
  <2> QED
    BY <2>1, InitScoring DEF Covering, SoundMeans, TreasuryCoversClaims
<1>2. Spec => []Covering
  BY <1>1, StepCovering, PTL DEF Spec
<1>3. Covering => TreasuryCoversClaims
  BY DEF Covering
<1> QED
  BY <1>2, <1>3, PTL
=============================================================================
