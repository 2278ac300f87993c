------------------------------- MODULE MCAgent ------------------------------
(***************************************************************************)
(* An instance of Agent for TLC: account 1 is a dominator and signs        *)
(* itself, account 2 signs with the key of another chain.  In every        *)
(* behavior the calls are those of one of a few sets.                      *)
(***************************************************************************)
EXTENDS Agent

VARIABLE setup

MCInitFree == <<4, 4>>
btc_usd == "btc_usd"
MCSymbols == {btc_usd}
MCTerms == {"coarse", "fine"}

Transfer(to, x) == [op |-> "transfer", to |-> to, amount |-> x]
Broker(op, b) == [op |-> op, broker |-> b]
Apply(t) == [op |-> "apply_for_token_listing", dominator |-> 1, symbol |-> btc_usd, terms |-> t]
Open(t) == [op |-> "open_market", symbol |-> btc_usd, terms |-> t]
Fund(delay, interval, times, amount, first) ==
    [delay |-> delay, interval |-> interval, times |-> times, amount |-> amount, first |-> first]
Put(b, fund, need) == [op |-> "put_into_vault", to |-> b, fund |-> fund, need_to_approve |-> need]
Approve(b, e) == [op |-> "approve", of |-> b, epoch |-> e]
Authorize(x) == [op |-> "authorize", amount |-> x]
Revoke(x) == [op |-> "revoke", amount |-> x]

BrokerCalls == {Broker("register_broker", 1), Broker("deregister_broker", 1)}
MarketCalls == {Apply("coarse"), Apply("fine"), Open("fine")}
(* All that account 1 has in two parts, all in three parts and a first     *)
(* amount, and a part of it.                                               *)
VaultCalls == {Put(2, Fund(1, 1, 2, 2, 0), TRUE), Put(2, Fund(1, 1, 3, 1, 1), TRUE),
               Put(1, Fund(1, 2, 1, 1, 0), FALSE), Approve(2, 1), Approve(2, 3), Transfer(1, 1)}
(* Totals that wrap to 0 and to 1; no parts; no interval; and one fund     *)
(* that is sound, of an account that also authorizes.                      *)
UnsoundCalls == {Put(2, Fund(1, 1, 2, 8, 0), FALSE), Put(2, Fund(1, 2, 1, 9, 8), TRUE),
                 Put(1, Fund(1, 1, 0, 1, 1), FALSE), Put(1, Fund(2, 0, 1, 1, 1), FALSE),
                 Put(2, Fund(1, 1, 2, 1, 1), FALSE), Authorize(2), Revoke(2)}
MCCalls == BrokerCalls \cup MarketCalls \cup VaultCalls \cup UnsoundCalls

MCInit == AgentInit /\ setup \in {"brokers", "markets", "vaults", "unsound"}

CallsOf(s) == CASE s = "brokers" -> BrokerCalls \cup {Transfer(1, 1), Put(2, Fund(1, 1, 2, 1, 1), TRUE)}
                [] s = "markets" -> MarketCalls
                [] s = "vaults" -> VaultCalls
                [] s = "unsound" -> UnsoundCalls

MCNext ==
    /\ UNCHANGED setup
    /\ \/ NewBlock
       \/ \E u \in Users, n \in Nonces, c \in CallsOf(setup) :
             Submit(u, n, c) \/ submit_external_tx(u, n, c)
       \/ /\ setup = "brokers"
          /\ \E d \in Dominators, new \in Users, n \in Nonces : dominator_set_beneficiary(d, new, n)
MCSpec == MCInit /\ [][MCNext]_<<agentVars, setup>> /\ WF_<<agentVars, setup>>(NewBlock /\ UNCHANGED setup)
=============================================================================
