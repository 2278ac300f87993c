------------------------------ MODULE MCSeason ------------------------------
(***************************************************************************)
(* An instance of Season for TLC.  Either one account extends and splits   *)
(* its selects over two battles of a league, which may be changed after    *)
(* they were settled; or two accounts buy, receive and pass on tickets for *)
(* a season of one final, that is closed, closed again and claimed from.   *)
(***************************************************************************)
EXTENDS Season, TLC

OnePair == {<<1, 2>>}
OneTicket == <<20, 0>>

Votes == season.first = "League"

Permitted ==
    /\ Votes =>
         /\ now = 0 /\ season.closings = 0 /\ season.total_tickets = 0
         /\ tickets[2].total = 0 /\ votes[2] = <<>>
         /\ \A m \in Battles : battle[m].type \in {"None", "League"}
    /\ ~Votes =>
         /\ ~disturbed
         /\ \A m \in Battles : battle[m].type \in {"None", "Finals"}
         /\ battle[2].type = "None"

MCNext == Next /\ Permitted'
MCSpec == Init /\ [][MCNext]_vars
=============================================================================
