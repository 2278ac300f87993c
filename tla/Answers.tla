------------------------------ MODULE Answers ------------------------------
(***************************************************************************)
(* What a caller of the broker's RPC may rely on, whatever connections,    *)
(* queues and timers are in between: the prover works on a request at most *)
(* once, a call ends at most once, and what it ends with is either a       *)
(* failure or the prover's answer to this very request.  A failure says    *)
(* nothing about the request: it may have been served, or still be.        *)
(***************************************************************************)
EXTENDS Integers

CONSTANT Calls

VARIABLES
    served,  \* how often the prover has worked on the request of a call
    outcome  \* "pending", "failed", or the call whose answer was returned

vars == <<served, outcome>>

Init ==
    /\ served = [c \in Calls |-> 0]
    /\ outcome = [c \in Calls |-> "pending"]

Serve(c) ==
    /\ served[c] = 0
    /\ served' = [served EXCEPT ![c] = 1]
    /\ UNCHANGED outcome

Answer(c) ==
    /\ outcome[c] = "pending" /\ served[c] = 1
    /\ outcome' = [outcome EXCEPT ![c] = c]
    /\ UNCHANGED served

Fail(c) ==
    /\ outcome[c] = "pending"
    /\ outcome' = [outcome EXCEPT ![c] = "failed"]
    /\ UNCHANGED served

Next == \E c \in Calls : Serve(c) \/ Answer(c) \/ Fail(c)

Spec == Init /\ [][Next]_vars
=============================================================================
