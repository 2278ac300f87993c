----------------------------- MODULE MCCustody -----------------------------
(* Instances of Custody for TLC: two tokens, the second one stable. *)
EXTENDS Custody

base == 0
quote == 1
MCTokens == {base, quote}
MCMarkets == {<<base, quote>>}
NoMarkets == {}

(* One seller of base, one seller of quote. *)
MCInitFree == [h \in Holdings |-> IF h = <<1, base>> \/ h = <<2, quote>> THEN 2 ELSE 0]
OneRich == [h \in Holdings |-> IF h = <<1, base>> THEN 3 ELSE 0]

Nobody == [u \in Users |-> 0]
Fill(m, g, v) == [get |-> [Nobody EXCEPT ![m] = g], give |-> [Nobody EXCEPT ![m] = v]]
Unfilled == [get |-> Nobody, give |-> Nobody]
MCFillPlans == {Unfilled} \cup {Fill(m, p[1], p[2]) : m \in Users, p \in {<<0, 1>>, <<1, 1>>, <<1, 2>>}}
NoFillPlans == {Unfilled}
(* The last account earns the fees of every dominator. *)
MCBeneficiary == [d \in Dominators |-> NUsers]
=============================================================================
