-------------------------------- MODULE Sums --------------------------------
(***************************************************************************)
(* Sums over index ranges.  Accounts, dominators and relayers are numbered *)
(* 1..N throughout the project, so that the sum of a function over them    *)
(* can be both evaluated by TLC and reasoned about by TLAPS.               *)
(***************************************************************************)
EXTENDS Integers

(* f[1] + ... + f[n] *)
SumTo(f, n) ==
    LET s[i \in 0..n] == IF i = 0 THEN 0 ELSE s[i-1] + f[i]
    IN  s[n]
=============================================================================
