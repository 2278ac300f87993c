----------------------------- MODULE MCBetting -----------------------------
(***************************************************************************)
(* An instance of Betting for TLC.  The setup names what a behavior is     *)
(* about: the pool of one betting, with results that are overwritten,      *)
(* pledges appended and revoked; the odds, which change between the bets,  *)
(* with an order of the items that is not that of the outcomes; or the     *)
(* score, with six items, which may end as nobody could bet.  A setup only *)
(* narrows the inputs.                                                     *)
(***************************************************************************)
EXTENDS Betting, TLC

VARIABLE setup

TwoOdds == <<150, 250>>
MCFunds == <<2, 2>>

(* Both orders of home and visiting; a list with one outcome twice. *)
HomeAndVisiting == <<[out |-> <<1>>, o |-> 1], [out |-> <<2>>, o |-> 1]>>
VisitingAndHome == {<<[out |-> <<2>>, o |-> 1], [out |-> <<1>>, o |-> 2]>>,
                    <<[out |-> <<1>>, o |-> 1], [out |-> <<1>>, o |-> 2]>>}
ScoreList == <<[out |-> <<3, 1>>, o |-> 1], [out |-> <<3, 0>>, o |-> 1],
               [out |-> <<3, 2>>, o |-> 1], [out |-> <<0, 3>>, o |-> 1],
               [out |-> <<1, 3>>, o |-> 1], [out |-> <<2, 3>>, o |-> 1]>>
AllLists == VisitingAndHome \cup {HomeAndVisiting, ScoreList}
AllScores == {<<3, 1>>, <<2, 3>>, <<2, 2>>}

TypesOf == [pool |-> "Finals", odds |-> "League", score |-> "SemiFinals"]
ScoresOf == [pool |-> {<<3, 1>>, <<2, 3>>}, odds |-> {<<2, 2>>}, score |-> {<<3, 1>>, <<2, 2>>}]

Permitted ==
    /\ \A m \in Battles : /\ battle[m].type \in {"None", TypesOf[setup]}
                          /\ battle[m].score \in ScoresOf[setup] \cup {<<>>}
    /\ setup # "pool" => \A b \in Bettings : withdrawn[b] = 0
    /\ setup # "odds" =>
         /\ \A u \in Accounts : invited[u] = 0
         /\ \A b \in Bettings : \A i \in DOMAIN betting[b].items : betting[b].items[i].o = 1
    /\ setup = "pool" =>
         \A b \in Bettings : /\ betting[b].items = <<>> \/ betting[b].items[1].out = <<1>>
                             /\ \A i \in Items, k \in Grades : stake[b, Organizer, i, k] = 0
    /\ setup = "odds" =>
         /\ free[2] >= 1
         /\ \A b \in Bettings : Len(betting[b].items) \in {0, 2}
         /\ now = 0 => \A m \in Battles : battle[m].score = <<>>
    /\ setup = "score" =>
         \A b \in Bettings : /\ Len(betting[b].items) \in {0, 6}
                             /\ \A i \in DOMAIN betting[b].items \ {1, 2} : betting[b].items[i].accounts = 0

MCInit == Init /\ setup \in {"pool", "odds", "score"}
MCNext == Next /\ UNCHANGED setup /\ Permitted'
MCSpec == MCInit /\ [][MCNext]_<<vars, setup>>
=============================================================================
