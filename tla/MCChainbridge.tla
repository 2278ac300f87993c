--------------------------- MODULE MCChainbridge ---------------------------
(* Instances of Chainbridge for TLC. *)
EXTENDS Chainbridge, TLC

CONSTANTS a, b, c, unlock, tao

OneProposal == {<<1, 1, unlock>>}
MCResourceOf == [p \in Proposals |-> tao]
Interchangeable == Permutations(Candidates)
=============================================================================
