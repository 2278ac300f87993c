------------------------------- MODULE Native -------------------------------
(***************************************************************************)
(* The native token, as the pallets market, foundation and agent use it    *)
(* (pallet_balances, outside the repository).  The existential deposit is  *)
(* one unit: an account with neither free nor reserved tokens is dead.     *)
(***************************************************************************)
EXTENDS Integers, Sums

CONSTANTS
    NUsers,    \* accounts of people are 1..NUsers
    InitFree,  \* what they start with
    MaxBlock   \* the last block (a bound)

Users == 1..NUsers
Pot == 0       \* the account of the market pallet
Accounts == 0..NUsers
Blocks == 0..MaxBlock

ASSUME NativeAssumption ==
    NUsers \in Nat /\ MaxBlock \in Nat /\ InitFree \in [Users -> Nat]

VARIABLES
    now,       \* the current block
    free, reserved

ledger == <<free, reserved>>

LedgerTypeOK ==
    now \in Blocks /\ free \in [Accounts -> Nat] /\ reserved \in [Users -> Nat]

LedgerInit ==
    /\ now = 0
    /\ free = [a \in Accounts |-> IF a = Pot THEN 0 ELSE InitFree[a]]
    /\ reserved = [u \in Users |-> 0]

(* A transfer that may use up the account it comes from. *)
CanMove(f, a, x) == f[a] >= x
Moved(f, a, b, x) == IF a = b THEN f ELSE [f EXCEPT ![a] = @ - x, ![b] = @ + x]

Alive(f, r, u) == f[u] + r[u] > 0

(* What all accounts have. *)
Supply == free[Pot] + SumTo([u \in Users |-> free[u] + reserved[u]], NUsers)
=============================================================================
