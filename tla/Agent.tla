------------------------------- MODULE Agent --------------------------------
(***************************************************************************)
(* Calls, and the nonces they are signed with: those an account signs      *)
(* itself, those it signs with the key of another chain and anybody        *)
(* submits (pallets/agent), and the consent of a dominator's beneficiary   *)
(* to be replaced (dominator_set_beneficiary of the verifier), which all   *)
(* count on the same nonce of the account.  The nonce is kept with the     *)
(* account, and goes when the account does.                                *)
(*                                                                         *)
(* The calls are those of Market and Foundation, transfers, and what       *)
(* authorize and revoke of the verifier do to native tokens (the rest of   *)
(* the two is in Custody): four pallets on one ledger.  What has been      *)
(* signed may be submitted at any time and any number of times, so that a  *)
(* step names the nonce that was signed.  The fees of calls an account     *)
(* signs itself are left out, but that it must have something to pay with. *)
(***************************************************************************)
EXTENDS Market, Foundation

CONSTANTS
    External,     \* users that sign with the key of another chain
    Fee,          \* compute_fee
    SignedCalls,  \* the calls that are made (a bound)
    MaxNonce      \* what an account signs (a bound)

ASSUME AgentAssumption == External \subseteq Users /\ Fee \in Nat /\ MaxNonce \in Nat

(* What is called, with any fund.  Nothing but the stakes of brokers goes  *)
(* to the account of the market pallet.                                    *)
CallType ==
    [op : {"transfer"}, to : Users, amount : Nat]
    \cup [op : {"register_broker", "deregister_broker"}, broker : Users]
    \cup [op : {"apply_for_token_listing"}, dominator : Dominators, symbol : Symbols, terms : Terms]
    \cup [op : {"open_market"}, symbol : Symbols, terms : Terms]
    \cup [op : {"put_into_vault"}, to : Users, fund : VaultType, need_to_approve : BOOLEAN]
    \cup [op : {"approve"}, of : Users, epoch : Epochs]
    \cup [op : {"authorize", "revoke"}, amount : Nat]

ASSUME SignedCallsAssumption == SignedCalls \subseteq CallType

VARIABLES
    authorized,  \* Reserves: the native tokens of an account with dominators
    nonce,       \* frame_system's nonces
    settings,    \* DominatorSettings: the beneficiary; Nobody if there is none
    uses,        \* what was accepted with a nonce in this life of the account (history)
    burned       \* the fees (history)

pallets == <<marketVars, foundationVars, authorized>>
agentVars == <<now, ledger, pallets, nonce, settings, uses, burned>>

Nonces == 0..MaxNonce

AgentTypeOK ==
    /\ LedgerTypeOK /\ MarketTypeOK /\ FoundationTypeOK
    /\ authorized \in [Users -> Nat]
    /\ nonce \in [Users -> 0..(MaxNonce + 1)]
    /\ settings \in [Dominators -> Users \cup {Nobody}]
    /\ uses \in [Users \X Nonces -> Nat]
    /\ burned \in Nat

AgentInit ==
    /\ LedgerInit /\ MarketInit /\ FoundationInit
    /\ authorized = [u \in Users |-> 0]
    /\ nonce = [u \in Users |-> 0]
    /\ settings = [d \in Dominators |-> Nobody]
    /\ uses = [k \in Users \X Nonces |-> 0]
    /\ burned = 0

-----------------------------------------------------------------------------
(* What authorize and revoke come to if receipts and dominators allow it:  *)
(* the tokens go to a reserve for the dominator and come back from it.     *)

can_reserve(f, u, x) == CanMove(f, u, x)

reserve(f, u, x) ==
    /\ free' = [f EXCEPT ![u] = @ - x]
    /\ reserved' = [reserved EXCEPT ![u] = @ + x]
    /\ authorized' = [authorized EXCEPT ![u] = @ + x]

can_unreserve(u, x) == reserved[u] >= x /\ authorized[u] >= x

unreserve(f, u, x) ==
    /\ free' = [f EXCEPT ![u] = @ + x]
    /\ reserved' = [reserved EXCEPT ![u] = @ - x]
    /\ authorized' = [authorized EXCEPT ![u] = @ - x]

-----------------------------------------------------------------------------
(* Calls: an operation and what it is about. *)

Can(f, u, c) ==
    CASE c.op = "transfer" -> CanMove(f, u, c.amount)
      [] c.op = "register_broker" -> can_register_broker(f, u, c.broker)
      [] c.op = "deregister_broker" -> can_deregister_broker(f, u, c.broker)
      [] c.op = "apply_for_token_listing" -> can_register_market(<<c.dominator, c.symbol>>)
      [] c.op = "open_market" -> u \in Dominators /\ can_open_market(<<u, c.symbol>>)
      [] c.op = "put_into_vault" -> can_put_into_vault(f, u, c.to, c.fund)
      [] c.op = "approve" -> can_approve(u, c.of, c.epoch)
      [] c.op = "authorize" -> can_reserve(f, u, c.amount)
      [] c.op = "revoke" -> can_unreserve(u, c.amount)

Dispatch(f, u, c) ==
    \/ /\ c.op = "transfer"
       /\ free' = Moved(f, u, c.to, c.amount)
       /\ UNCHANGED <<reserved, pallets>>
    \/ /\ \/ c.op = "register_broker" /\ register_broker(f, u, c.broker)
          \/ c.op = "deregister_broker" /\ deregister_broker(f, u, c.broker)
          \/ c.op = "apply_for_token_listing" /\ register_market(f, <<c.dominator, c.symbol>>, c.terms)
          \/ c.op = "open_market" /\ open_market(f, <<u, c.symbol>>, c.terms)
       /\ UNCHANGED <<foundationVars, authorized>>
    \/ /\ \/ c.op = "put_into_vault" /\ put_into_vault(f, u, c.to, c.fund, c.need_to_approve)
          \/ c.op = "approve" /\ approve(f, u, c.of, c.epoch)
       /\ UNCHANGED <<marketVars, authorized>>
    \/ /\ \/ c.op = "authorize" /\ reserve(f, u, c.amount)
          \/ c.op = "revoke" /\ unreserve(f, u, c.amount)
       /\ UNCHANGED <<marketVars, foundationVars>>

(* Those of the verifier may fail on account of receipts and dominators.   *)
MayFail(f, u, c) == c.op \in {"authorize", "revoke"} \/ ~Can(f, u, c)

(* A call that fails leaves nothing but the fee. *)
Execute(f, u, c) ==
    \/ Can(f, u, c) /\ Dispatch(f, u, c)
    \/ MayFail(f, u, c) /\ free' = f /\ UNCHANGED <<reserved, pallets>>

-----------------------------------------------------------------------------
(* Nonces. *)

(* An account dies when it has nothing left.  It is removed with its       *)
(* nonce, which starts again from 0 when somebody funds the account anew.  *)
Dies(u) == Alive(free, reserved, u) /\ ~Alive(free', reserved', u)

NoncesAre(counted, used) ==
    /\ nonce' = [u \in Users |-> IF Dies(u) THEN 0 ELSE counted[u]]
    /\ uses' = [k \in Users \X Nonces |-> IF Dies(k[1]) THEN 0 ELSE used[k]]

KeepNonces == NoncesAre(nonce, uses)

(* The nonce, which is the one signed, is used up. *)
UseNonce(u, n) ==
    NoncesAre([nonce EXCEPT ![u] = @ + 1], [uses EXCEPT ![<<u, n>>] = @ + 1])

-----------------------------------------------------------------------------
(* Steps. *)

(* An account submits a call it has signed itself. *)
Submit(u, n, c) ==
    /\ u \notin External
    /\ nonce[u] = n
    /\ free[u] > 0
    /\ Execute(free, u, c)
    /\ UseNonce(u, n)
    /\ UNCHANGED <<now, settings, burned>>

(* validate_unsigned takes the nonce and the fee, which must not kill the  *)
(* account, before the call is dispatched.                                 *)
submit_external_tx(u, n, c) ==
    LET paid == [free EXCEPT ![u] = @ - Fee]
    IN  /\ u \in External
        /\ nonce[u] = n
        /\ Fee > 0 => free[u] >= Fee /\ Alive(paid, reserved, u)
        /\ Execute(paid, u, c)
        /\ UseNonce(u, n)
        /\ burned' = burned + Fee
        /\ UNCHANGED <<now, settings>>

(* Mutant: the consent is not used up. *)
dominator_set_beneficiary_kept(d, new, n) ==
    /\ IF settings[d] = Nobody THEN UNCHANGED uses
       ELSE nonce[settings[d]] = n /\ uses' = [uses EXCEPT ![<<settings[d], n>>] = @ + 1]
    /\ settings' = [settings EXCEPT ![d] = new]
    /\ UNCHANGED <<now, ledger, pallets, nonce, burned>>

(* The beneficiary so far has consented with its nonce n, alive or not;    *)
(* without one nobody needs to.  The nonce of the dominator's own call is  *)
(* left out.                                                               *)
dominator_set_beneficiary(d, new, n) ==
    /\ UNCHANGED <<now, ledger, pallets, burned>>
    /\ settings' = [settings EXCEPT ![d] = new]
    /\ IF settings[d] = Nobody THEN UNCHANGED <<nonce, uses>>
       ELSE nonce[settings[d]] = n /\ UseNonce(settings[d], n)

NewBlock ==
    /\ now < MaxBlock
    /\ now' = now + 1
    /\ initialize(now')
    /\ KeepNonces
    /\ UNCHANGED <<marketVars, authorized, settings, burned>>

-----------------------------------------------------------------------------
AgentNext ==
    \/ NewBlock
    \/ \E u \in Users, n \in Nonces, c \in SignedCalls : Submit(u, n, c) \/ submit_external_tx(u, n, c)
    \/ \E d \in Dominators, new \in Users, n \in Nonces : dominator_set_beneficiary(d, new, n)

AgentSpec == AgentInit /\ [][AgentNext]_agentVars

(* Blocks keep being produced. *)
FairAgentSpec == AgentSpec /\ WF_agentVars(NewBlock)

-----------------------------------------------------------------------------
(* Properties. *)

(* In one life of an account every nonce is good for one thing, in order:  *)
(* neither a call that is submitted again nor a consent that is shown      *)
(* again does anything, and a call and a consent signed with the same      *)
(* nonce exclude each other.  After the account has died, in a call of its *)
(* own or in a block, all of them are good for once more.                  *)
OneUsePerLife ==
    \A u \in Users, n \in Nonces : uses[<<u, n>>] = IF n < nonce[u] THEN 1 ELSE 0

(* No token appears or vanishes but in fees. *)
Conservation == Supply + burned = SumTo(InitFree, NUsers)

(* What is reserved is what the vault has still to release, what dominators *)
(* hold of the account and what could not go back to an approver that was  *)
(* dead: no pallet gives back what another one has reserved, as long as    *)
(* the funds in the vault of the account were sound.                       *)
ReservedAddsUp ==
    \A b \in Users \ unsound :
        reserved[b] = Remaining(vaults[b], epoch) + authorized[b] + stuck[b]

(* The pallets share a ledger without touching each other's part: but for  *)
(* the reserves of beneficiaries of unsound funds, whose vaults may        *)
(* release what was never put into them.                                   *)
LedgersAgree ==
    AgentTypeOK /\ ReservedAddsUp /\ ApprovalsArePending /\ BrokersAreBacked /\ Conservation

(* Every vault is emptied, approved or not, whoever is still alive, unless *)
(* it is of an unsound fund or another one stops the chain.                *)
VaultsEnd ==
    \A b \in Users : vaults[b] # NoVault
        ~> vaults[b] = NoVault \/ b \in unsound \/ \E a \in Users : vaults[a].interval = 0
=============================================================================
