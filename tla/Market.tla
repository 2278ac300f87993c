------------------------------- MODULE Market -------------------------------
(***************************************************************************)
(* Brokers and markets (pallets/market), with the call of the verifier     *)
(* that opens a market for its dominator.                                  *)
(*                                                                         *)
(* A broker is an account somebody has put up BrokerStakingThreshold for,  *)
(* which goes to the account of the pallet and comes back to whom it came  *)
(* from.  Anybody may apply for a market at a dominator; the dominator     *)
(* opens it, and may open it again on other terms.  There is a function    *)
(* that closes a market, but no call that reaches it.                      *)
(***************************************************************************)
EXTENDS Native

CONSTANTS
    BrokerStakingThreshold,
    Dominators,  \* users that are registered dominators
    Symbols,     \* pairs of tokens whose second one is stable
    Terms        \* scales and minimal amounts

NoTerms == "none"

ASSUME MarketAssumption ==
    /\ NoTerms \notin Terms
    /\ BrokerStakingThreshold \in Nat
    /\ Dominators \subseteq Users

VARIABLES
    brokers,  \* Brokers: who put up the stake, and how much; NoBroker if there is none
    markets,  \* Markets, by <<dominator, symbol>>
    opened    \* the terms a dominator has opened a market with last (history)

marketVars == <<brokers, markets, opened>>

NoBroker == [beneficiary |-> 0, staked |-> 0]
NoMarket == [status |-> "None", terms |-> NoTerms]
MarketKeys == Dominators \X Symbols

MarketTypeOK ==
    /\ brokers \in [Users -> [beneficiary : Users \cup {0}, staked : Nat]]
    /\ markets \in [MarketKeys -> [status : {"None", "Registered", "Open"},
                                   terms : Terms \cup {NoTerms}]]
    /\ opened \in [MarketKeys -> Terms \cup {NoTerms}]

MarketInit ==
    /\ brokers = [b \in Users |-> NoBroker]
    /\ markets = [k \in MarketKeys |-> NoMarket]
    /\ opened = [k \in MarketKeys |-> NoTerms]

-----------------------------------------------------------------------------
(* Brokers. *)

can_register_broker_again(f, u, b) == \* mutant: whoever is registered
    CanMove(f, u, BrokerStakingThreshold)

can_register_broker(f, u, b) ==
    /\ CanMove(f, u, BrokerStakingThreshold)
    /\ brokers[b] = NoBroker

register_broker(f, u, b) ==
    /\ free' = Moved(f, u, Pot, BrokerStakingThreshold)
    /\ brokers' = [brokers EXCEPT ![b] = [beneficiary |-> u, staked |-> BrokerStakingThreshold]]
    /\ UNCHANGED <<reserved, markets, opened>>

can_deregister_broker(f, u, b) ==
    /\ brokers[b] # NoBroker
    /\ brokers[b].beneficiary = u
    /\ CanMove(f, Pot, brokers[b].staked)

deregister_broker(f, u, b) ==
    /\ free' = Moved(f, Pot, u, brokers[b].staked)
    /\ brokers' = [brokers EXCEPT ![b] = NoBroker]
    /\ UNCHANGED <<reserved, markets, opened>>

(* Who gets the fees of the trades a broker has brought. *)
beneficiary(b) == IF brokers[b] = NoBroker THEN b ELSE brokers[b].beneficiary

-----------------------------------------------------------------------------
(* Markets. *)

can_register_market_any(k) == TRUE \* mutant: an open market, too
can_register_market(k) == markets[k].status \in {"None", "Registered"}

register_market(f, k, terms) ==
    /\ free' = f
    /\ markets' = [markets EXCEPT ![k] = [status |-> "Registered", terms |-> terms]]
    /\ UNCHANGED <<reserved, brokers, opened>>

(* In whichever status it is, with whichever terms it was applied for. *)
can_open_market(k) == markets[k] # NoMarket

open_market(f, k, terms) ==
    /\ free' = f
    /\ markets' = [markets EXCEPT ![k] = [status |-> "Open", terms |-> terms]]
    /\ opened' = [opened EXCEPT ![k] = terms]
    /\ UNCHANGED <<reserved, brokers>>

-----------------------------------------------------------------------------
(* The account of the pallet holds what the brokers have put up: whoever   *)
(* has registered a broker gets the stake back.                            *)
BrokersAreBacked == free[Pot] = SumTo([b \in Users |-> brokers[b].staked], NUsers)

(* Once a dominator has opened a market it has the terms the dominator has *)
(* set last, whoever applies for it again with other ones.                 *)
TermsAreTheDominators ==
    \A k \in MarketKeys : opened[k] # NoTerms => markets[k].terms = opened[k]
=============================================================================
