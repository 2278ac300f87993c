------------------------------ MODULE Delivery ------------------------------
(***************************************************************************)
(* What a bridge promises of the messages that reach this chain: each one  *)
(* is open until it is executed or dropped, and after that nothing happens *)
(* to it any more.  Votes, retries, failed attempts and expiry are how the *)
(* bridge gets there and do not show.                                      *)
(***************************************************************************)
CONSTANT Messages

VARIABLE outcome  \* "open", "executed" or "dropped"

Init == outcome = [m \in Messages |-> "open"]

Execute(m) == outcome[m] = "open" /\ outcome' = [outcome EXCEPT ![m] = "executed"]

(* Several messages may expire in the same moment. *)
Drop(ms) ==
    /\ \A m \in ms : outcome[m] = "open"
    /\ outcome' = [m \in Messages |-> IF m \in ms THEN "dropped" ELSE outcome[m]]

Next == (\E m \in Messages : Execute(m)) \/ \E ms \in SUBSET Messages : Drop(ms)

Spec == Init /\ [][Next]_outcome
=============================================================================
