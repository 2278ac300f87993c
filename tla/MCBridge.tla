------------------------------ MODULE MCBridge ------------------------------
(***************************************************************************)
(* Instances of Bridge for TLC: the native token or an issued one, under a *)
(* few settings the admins may have made.                                  *)
(*                                                                         *)
(* A setup is one instance: its token, its decimals and its settings.  All *)
(* of them are checked in one run, from the same initial state; a step is  *)
(* permitted if it brings the settings to those of the setup, before       *)
(* anything is transferred.                                                *)
(***************************************************************************)
EXTENDS Bridge

CONSTANTS alice, treasury, donor, bridge, prover, usdt, tao, here, eth

VARIABLE setup

MCInitFree == [a \in Accounts |-> CASE a = alice -> 14 [] a = donor -> 1 [] OTHER -> 0]
MCAssociations == {<<eth, usdt, 1>>}
(* Prices of half a dollar and of two. *)
MCTrades == {<<2, 1>>, <<1, 2>>}

Setup(t, d, stable, price, fee, check, dominator) ==
    [token |-> t, decimals |-> d, stable |-> stable, price |-> price, fee |-> fee,
     check |-> check, dominator |-> dominator]
Setups ==
    {Setup(Native, 1, FALSE, 20, 4, TRUE, Nobody),
     Setup(Native, 1, FALSE, 0, 4, FALSE, prover),
     Setup(1, 0, TRUE, 0, 4, FALSE, prover),
     Setup(1, 0, FALSE, 5, 0, FALSE, prover),
     Setup(1, 0, FALSE, 20, 4, FALSE, Nobody),
     Setup(1, 2, TRUE, 0, 0, FALSE, prover)}

(* The settings are those of the setup. *)
Ready ==
    /\ setup.token # Native =>
          /\ tokens # <<>> /\ tokens[1].stable = setup.stable
          /\ byContract[<<eth, usdt>>] = 1
    /\ prices[setup.token] = setup.price
    /\ bridging_fee[eth] = setup.fee
    /\ native_check = setup.check
    /\ associated_dominator[0] = setup.dominator

Idle == /\ \A m \in Messages : inbound[m] = NoDeposit
        /\ \A r \in Resources : announced[r] = 0

(* Nothing but the settings of the setup is touched, and none of them once *)
(* something was transferred; the issued token stays with its users.       *)
Permitted ==
    /\ IF setup.token = Native THEN tokens = <<>>
       ELSE /\ \A i \in DOMAIN tokens : tokens[i].decimals = setup.decimals
                                       /\ (tokens[i].stable => setup.stable)
            /\ \A r \in NativeResources : announced[r] = 0
            /\ balances[setup.token][donor] = Empty /\ balances[setup.token][bridge] = Empty
            /\ balances[Native][bridge] = Empty
    /\ setup.token = Native => \A m \in Messages : inbound[m] = NoDeposit \/ inbound[m].r_id[1] = here
    /\ \A t \in TokenIds : prices[t] \in {0, IF t = setup.token THEN setup.price ELSE 0}
    /\ bridging_fee[eth] \in {DefaultBridgingFee, setup.fee}
    /\ native_check => setup.check
    /\ associated_dominator[0] \in {Nobody, setup.dominator}
    /\ Ready \/ Idle

MCInit == BridgeInit /\ setup \in Setups
MCNext == BridgeNext /\ UNCHANGED setup /\ Permitted'
MCSpec == MCInit /\ [][MCNext]_<<bridgeVars, setup>> /\ \A m \in Messages : WF_bridgeVars(transfer_in(m))
=============================================================================
