------------------------------- MODULE Token -------------------------------
(***************************************************************************)
(* Issued tokens and the native one (pallets/token).                       *)
(*                                                                         *)
(* Every token has one record of free and reserved balances per account.   *)
(* Amounts on chain have StandardDecimals; mint and burn are told amounts  *)
(* in the decimals of the token's contract and convert them, in integers   *)
(* of Width values that wrap.  Ledger operators take the balances and      *)
(* return them changed, so that a call that makes several of them is one   *)
(* step; a predicate beside each says when the code returns no error.      *)
(*                                                                         *)
(* The native token is pallet_balances behind the same interface, with an  *)
(* existential deposit of one unit.  Tokens without a contract (FND10)     *)
(* have no supply and no way to get one, and are left out; so is the index *)
(* of contracts by name, which another bridge uses.                        *)
(***************************************************************************)
EXTENDS Integers, Sequences, FiniteSetsExt

CONSTANTS
    Accounts,          \* account ids
    Chains,            \* chain ids
    Contracts,         \* contract addresses on those chains
    Associations,      \* triples <<chain, contract, token>> the admin may associate
    Decimals,          \* the decimals tokens are issued with
    MaxTokens,         \* tokens issued (a bound)
    StandardDecimals,  \* 18
    MaxDecimals,       \* MAX_DECIMALS
    Base,              \* 10
    Width,             \* 2^128: amounts are below it
    BurnTAOwhenIssue,  \* what issuing a token costs
    InitFree           \* native balances at genesis

ASSUME DecimalsAssumption ==
    /\ StandardDecimals \in Nat /\ MaxDecimals \in Nat /\ Decimals \subseteq Nat
    /\ StandardDecimals <= MaxDecimals
    /\ Base \in Nat \ {0} /\ Width \in Nat \ {0}
ASSUME TokenAssumption ==
    /\ MaxTokens \in Nat /\ BurnTAOwhenIssue \in Nat
    /\ InitFree \in [Accounts -> 0..(Width - 1)]
    /\ Associations \subseteq Chains \X Contracts \X (1..MaxTokens)
(* The issuance at genesis is an amount, too. *)
ASSUME IssuanceAssumption ==
    IsFiniteSet(Accounts) /\ SumFunctionOnSet(InitFree, Accounts) < Width

VARIABLES
    balances,    \* Balances, and System.Account for the native token
    tokens,      \* Tokens: decimals, total and stable, by id from 1
    byContract   \* TokenByContract; NoToken where nothing is associated

tokenVars == <<balances, tokens, byContract>>

Native == 0
NoToken == -1
TokenIds == Native..MaxTokens
Empty == [free |-> 0, reserved |-> 0]
XToken == [decimals : 0..MaxDecimals, total : 0..(Width - 1), stable : BOOLEAN]

TokenTypeOK ==
    /\ balances \in [TokenIds -> [Accounts -> [free : 0..(Width - 1), reserved : 0..(Width - 1)]]]
    /\ tokens \in Seq(XToken) /\ Len(tokens) <= MaxTokens
    /\ byContract \in [Chains \X Contracts -> 1..MaxTokens \cup {NoToken}]

TokenInit ==
    /\ balances = [t \in TokenIds |-> [a \in Accounts |->
           IF t = Native THEN [Empty EXCEPT !.free = InitFree[a]] ELSE Empty]]
    /\ tokens = <<>>
    /\ byContract = [k \in Chains \X Contracts |-> NoToken]

exists(t) == t = Native \/ t \in DOMAIN tokens
is_stable(t) == t \in DOMAIN tokens /\ tokens[t].stable
token_external_decimals(t) == IF t = Native THEN StandardDecimals ELSE tokens[t].decimals

-----------------------------------------------------------------------------
(* Decimals.  Multiplications wrap, divisions drop the rest. *)

Power[n \in 0..MaxDecimals] == IF n = 0 THEN 1 ELSE Base * Power[n - 1]

to_standard(amount, d) ==
    IF d > StandardDecimals
    THEN amount \div Power[d - StandardDecimals]
    ELSE (amount * Power[StandardDecimals - d]) % Width

to_external(amount, d) ==
    IF d > StandardDecimals
    THEN (amount * Power[d - StandardDecimals]) % Width
    ELSE amount \div Power[StandardDecimals - d]

to_asset_balance(amount, t) == IF t = Native THEN amount ELSE to_standard(amount, tokens[t].decimals)

-----------------------------------------------------------------------------
(* The ledger. *)

CanTransfer(b, t, from, to, amount) ==
    \/ amount = 0 \/ from = to
    \/ amount <= b[t][from].free /\ b[t][to].free + amount < Width

Transferred(b, t, from, to, amount) ==
    IF amount = 0 \/ from = to THEN b
    ELSE [b EXCEPT ![t][from].free = @ - amount, ![t][to].free = @ + amount]

CanReserve(b, t, who, amount) == amount = 0 \/ amount <= b[t][who].free

Reserved(b, t, who, amount) ==
    [b EXCEPT ![t][who].free = @ - amount, ![t][who].reserved = @ + amount]

Unreserved(b, t, who, amount) ==
    [b EXCEPT ![t][who].free = @ + amount, ![t][who].reserved = @ - amount]

(* do_mint and do_burn; both refuse an amount that converts to nothing,    *)
(* and a mint of nothing is accepted.                                      *)
CanMint(b, t, to, amount) ==
    \/ amount = 0
    \/ LET unified == to_standard(amount, tokens[t].decimals)
       IN  /\ unified > 0
           /\ tokens[t].total + unified < Width /\ b[t][to].free + unified < Width

Minted(b, t, to, amount) ==
    [b EXCEPT ![t][to].free = @ + to_standard(amount, tokens[t].decimals)]

CanBurnUnfunded(b, t, from, amount) == \* mutant: only the supply is checked
    LET unified == to_standard(amount, tokens[t].decimals)
    IN  unified > 0 /\ unified <= tokens[t].total

CanBurn(b, t, from, amount) ==
    LET unified == to_standard(amount, tokens[t].decimals)
    IN  unified > 0 /\ unified <= tokens[t].total /\ unified <= b[t][from].free

BurnedWithAccount(b, t, from, amount) == \* mutant: an account without free tokens is dropped
    LET left == b[t][from].free - to_standard(amount, tokens[t].decimals)
    IN  [b EXCEPT ![t][from] = IF left = 0 THEN Empty ELSE [@ EXCEPT !.free = left]]

Burned(b, t, from, amount) ==
    [b EXCEPT ![t][from].free = @ - to_standard(amount, tokens[t].decimals)]

Supply(t, change) == [tokens EXCEPT ![t].total = @ + change]

-----------------------------------------------------------------------------
(* The extrinsics. *)

(* create gives the new token the next id, no supply and no stable mark. *)
issue(who, d) ==
    /\ Len(tokens) < MaxTokens
    /\ d <= MaxDecimals
    /\ BurnTAOwhenIssue <= balances[Native][who].free
    /\ balances' = [balances EXCEPT ![Native][who].free = @ - BurnTAOwhenIssue]
    /\ tokens' = Append(tokens, [decimals |-> d, total |-> 0, stable |-> FALSE])
    /\ UNCHANGED byContract

mark_stable(t) ==
    /\ t \in DOMAIN tokens
    /\ tokens' = [tokens EXCEPT ![t].stable = TRUE]
    /\ UNCHANGED <<balances, byContract>>

transfer(who, t, amount, target) ==
    /\ amount > 0
    /\ CanTransfer(balances, t, who, target, amount)
    /\ balances' = Transferred(balances, t, who, target, amount)
    /\ UNCHANGED <<tokens, byContract>>

(* The token is not looked up: it may be one that is issued later. *)
associate_token(c, k, t) ==
    /\ byContract' = [byContract EXCEPT ![<<c, k>>] = t]
    /\ UNCHANGED <<balances, tokens>>

TokenAdmin ==
    \/ \E t \in DOMAIN tokens : mark_stable(t)
    \/ \E a \in Associations : associate_token(a[1], a[2], a[3])

(* What all accounts have of a token. *)
HeldOf(b, t) == SumFunctionOnSet([a \in Accounts |-> b[t][a].free + b[t][a].reserved], Accounts)
Held(t) == HeldOf(balances, t)
=============================================================================
