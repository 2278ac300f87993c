------------------------------- MODULE Bridge -------------------------------
(***************************************************************************)
(* Tokens that cross the bridge (pallets/chainbridge-handler), with the    *)
(* ledger of Token, the prices of pallets/indicator and the authorizations *)
(* of pallets/verifier that an arrival makes.                              *)
(*                                                                         *)
(* Leaving: the native token is locked in the bridge account, any other is *)
(* burned; what is left after the fee is announced to the other chain.     *)
(* Arriving: a call the relayers have voted on, one message of Delivery,   *)
(* unlocks or mints; if the resource id names a dominator the amount is    *)
(* authorized to it, and an account that has never signed anything gets a  *)
(* donation to pay its first fees with.                                    *)
(*                                                                         *)
(* A resource id is <<chain, associated id, contract>>.  The contracts on  *)
(* the other chains are outside the repository: a deposit there is a       *)
(* message to this chain, and native tokens can be sent back only after    *)
(* they were announced.                                                    *)
(***************************************************************************)
EXTENDS Token

CONSTANTS
    Users,               \* accounts that hold keys
    Dominators,          \* accounts of dominators
    Treasury, Donor, BridgeAccount,
    ThisChain, TAO,      \* what NativeResourceId decodes to
    AssociatedIds,       \* the dex byte of a resource id
    Quintill,            \* 10^18: one dollar
    DefaultBridgingFee,  \* 2 dollars
    Fees,                \* what the admin may set it to
    Trades,              \* pairs <<amount, volume>> a batch of proofs may have traded
    NativeTokenMaxValue,
    DonationForAgent,
    Amounts,             \* amounts people transfer, out or in
    Messages,            \* deposits on other chains (a bound): 1..n
    MaxOut               \* what is announced of one resource (a bound)

ASSUME AccountsAssumption ==
    /\ Accounts = Users \cup {Treasury, Donor, BridgeAccount}
    /\ {Treasury, Donor, BridgeAccount} \cap Users = {}
    /\ Treasury # Donor /\ Treasury # BridgeAccount /\ Donor # BridgeAccount
Nobody == "nobody"

ASSUME BridgeAssumption ==
    /\ ThisChain \in Chains /\ TAO \in Contracts
    /\ \A a \in Associations : <<a[1], a[2]>> # <<ThisChain, TAO>>
    /\ Amounts \subseteq 1..(Width - 1)
    /\ Quintill \in Nat \ {0} /\ Fees \subseteq Nat /\ DefaultBridgingFee \in Nat
    /\ NativeTokenMaxValue \in Nat /\ DonationForAgent \in Nat /\ MaxOut \in Nat
    /\ Trades \subseteq Nat \X Nat
    /\ Nobody \notin Dominators
ASSUME FiniteAssumption ==
    IsFiniteSet(Chains \X AssociatedIds \X Contracts) /\ IsFiniteSet(Messages)

VARIABLES
    native_check,         \* NativeCheck
    bridging_fee,         \* BridgingFeeInUSD
    associated_dominator, \* AssociatedDominator; Nobody if there is none
    prices,               \* OnChainPrices, the price only
    active,               \* dominators whose status is DOMINATOR_ACTIVE
    receipts,             \* Receipts of kind Authorize: <<token, amount>>, or NoReceipt
    signed,               \* users whose account nonce is not zero
    inbound,              \* the deposits outside, by message
    announced             \* what was announced to other chains, by resource id

settings == <<native_check, bridging_fee, associated_dominator, prices>>
verifier == <<active, receipts>>
bridgeVars == <<tokenVars, settings, verifier, signed, inbound, announced>>

NoReceipt == <<>>
Resources == Chains \X AssociatedIds \X Contracts
NoDeposit == [to |-> Nobody, amount |-> 0, r_id |-> <<>>, outcome |-> "open"]
Outcomes == {"open", "executed", "dropped"}
DepositType == [to : Users, amount : Amounts, r_id : Resources, outcome : Outcomes]
ReceiptType == TokenIds \X (0..(Width - 1))

is_native_resource(r) == r[1] = ThisChain /\ r[3] = TAO
(* try_get_asset_id, of a resource that is not native. *)
AssetOf(r) == byContract[<<r[1], r[3]>>]
TokenOf(r) == IF is_native_resource(r) THEN Native ELSE AssetOf(r)

BridgeTypeOK ==
    /\ TokenTypeOK
    /\ native_check \in BOOLEAN
    /\ bridging_fee \in [Chains -> Nat]
    /\ associated_dominator \in [AssociatedIds -> Dominators \cup {Nobody}]
    /\ prices \in [TokenIds -> Nat]
    /\ active \subseteq Dominators
    /\ receipts \in [Users -> [Dominators -> ReceiptType \cup {NoReceipt}]]
    /\ signed \subseteq Users
    /\ inbound \in [Messages -> DepositType \cup {NoDeposit}]
    /\ announced \in [Resources -> Nat]

BridgeInit ==
    /\ TokenInit
    /\ native_check = FALSE
    /\ bridging_fee = [c \in Chains |-> DefaultBridgingFee]
    /\ associated_dominator = [i \in AssociatedIds |-> Nobody]
    /\ prices = [t \in TokenIds |-> 0]
    /\ active = {}
    /\ receipts = [u \in Users |-> [d \in Dominators |-> NoReceipt]]
    /\ signed = {}
    /\ inbound = [m \in Messages |-> NoDeposit]
    /\ announced = [r \in Resources |-> 0]

-----------------------------------------------------------------------------
(* Prices and fees. *)

get_price(t) == IF is_stable(t) THEN Quintill ELSE prices[t]

(* volume / amount in units of Quintill, the rest rounded down. *)
Ratio(volume, amount) ==
    (volume \div amount) * Quintill + ((volume % amount) * Quintill) \div amount

set_price(t, amount, volume) ==
    /\ amount > 0 /\ volume > 0
    /\ prices' = [prices EXCEPT ![t] = Ratio(volume, amount)]
    /\ UNCHANGED <<tokenVars, native_check, bridging_fee, associated_dominator, verifier,
                   signed, inbound, announced>>

calculate_bridging_fee(dest, t) ==
    IF get_price(t) = 0 \/ bridging_fee[dest] = 0 THEN 0
    ELSE Ratio(bridging_fee[dest], get_price(t))

-----------------------------------------------------------------------------
(* Transfers out. *)

(* chainbridge's transfer_fungible: the deposit event. *)
Announce(r, amount) ==
    /\ announced[r] + amount <= MaxOut
    /\ announced' = [announced EXCEPT ![r] = @ + amount]

Sign(u) == signed' = signed \cup {u}

do_lock_whole(u, amount, r, dest) == \* mutant: the fee is announced, too
    LET fee == calculate_bridging_fee(dest, Native)
        paid == Transferred(balances, Native, u, Treasury, fee)
    IN  /\ is_native_resource(r)
        /\ amount > 2 * fee
        /\ CanTransfer(balances, Native, u, Treasury, fee)
        /\ CanTransfer(paid, Native, u, BridgeAccount, amount - fee)
        /\ balances' = Transferred(paid, Native, u, BridgeAccount, amount - fee)
        /\ Announce(r, amount)
        /\ Sign(u)
        /\ UNCHANGED <<tokens, byContract, settings, verifier, inbound>>

do_lock(u, amount, r, dest) ==
    LET fee == calculate_bridging_fee(dest, Native)
        paid == Transferred(balances, Native, u, Treasury, fee)
    IN  /\ is_native_resource(r)
        /\ native_check => balances[Native][BridgeAccount].free + amount <= NativeTokenMaxValue \div 3
        /\ amount > 2 * fee
        /\ CanTransfer(balances, Native, u, Treasury, fee)
        /\ CanTransfer(paid, Native, u, BridgeAccount, amount - fee)
        /\ balances' = Transferred(paid, Native, u, BridgeAccount, amount - fee)
        /\ Announce(r, amount - fee)
        /\ Sign(u)
        /\ UNCHANGED <<tokens, byContract, settings, verifier, inbound>>

do_burn_assets_floor(u, amount, r, dest) == \* mutant: the fee is rounded, and down
    LET t == AssetOf(r)
        d == token_external_decimals(t)
        standard == to_standard(amount, d)
        fee == calculate_bridging_fee(dest, t)
        external == to_external(standard, d) - to_external(fee, d)
        actual_fee == standard - to_standard(external, d)
        paid == Transferred(balances, t, u, Treasury, actual_fee)
    IN  /\ ~is_native_resource(r)
        /\ t # NoToken /\ exists(t)
        /\ standard > 2 * fee
        /\ CanTransfer(balances, t, u, Treasury, actual_fee)
        /\ CanBurn(paid, t, u, external)
        /\ balances' = Burned(paid, t, u, external)
        /\ tokens' = Supply(t, -to_standard(external, d))
        /\ Announce(r, external)
        /\ Sign(u)
        /\ UNCHANGED <<byContract, settings, verifier, inbound>>

(* What the contract outside can pay out is burned and announced; the rest *)
(* of the amount, the quoted fee and what the division left, is charged.   *)
do_burn_assets(u, amount, r, dest) ==
    LET t == AssetOf(r)
        d == token_external_decimals(t)
        standard == to_standard(amount, d)
        fee == calculate_bridging_fee(dest, t)
        external == to_external(standard - fee, d)
        actual_fee == standard - to_standard(external, d)
        paid == Transferred(balances, t, u, Treasury, actual_fee)
    IN  /\ ~is_native_resource(r)
        /\ t # NoToken /\ exists(t)
        /\ standard > 2 * fee
        /\ CanTransfer(balances, t, u, Treasury, actual_fee)
        /\ CanBurn(paid, t, u, external)
        /\ balances' = Burned(paid, t, u, external)
        /\ tokens' = Supply(t, -to_standard(external, d))
        /\ Announce(r, external)
        /\ Sign(u)
        /\ UNCHANGED <<byContract, settings, verifier, inbound>>

(* The destination is a whitelisted chain; that it is the chain of the     *)
(* resource nobody checks.                                                 *)
transfer_out(u, amount, r, dest) ==
    /\ dest # ThisChain
    /\ do_lock(u, amount, r, dest) \/ do_burn_assets(u, amount, r, dest)

-----------------------------------------------------------------------------
(* Arrivals. *)

Pending(m) == inbound[m] # NoDeposit /\ inbound[m].outcome = "open"
Deposited(R, outcomes) ==
    SumFunctionOnSet([m \in Messages |->
        IF inbound[m].r_id \in R /\ inbound[m].outcome \in outcomes THEN inbound[m].amount ELSE 0],
        Messages)
NativeResources == {r \in Resources : is_native_resource(r)}

(* Somebody deposits tokens on another chain, which relayers notice. *)
Deposit(m, u, amount, r) ==
    /\ inbound[m] = NoDeposit
    /\ m - 1 \in Messages => inbound[m - 1] # NoDeposit
    /\ is_native_resource(r) =>
          Deposited(NativeResources, Outcomes) + amount <= SumFunctionOnSet(announced, NativeResources)
    /\ inbound' = [inbound EXCEPT ![m] = [NoDeposit EXCEPT !.to = u, !.amount = amount, !.r_id = r]]
    /\ UNCHANGED <<tokenVars, settings, verifier, signed, announced>>

(* Not enough relayers are in favour in time. *)
Drop(m) ==
    /\ Pending(m)
    /\ inbound' = [inbound EXCEPT ![m].outcome = "dropped"]
    /\ UNCHANGED <<tokenVars, settings, verifier, signed, announced>>

(* authorize_to of the verifier, asked for by the handler: it succeeds if  *)
(* the dominator is active and has no receipt of this account.             *)
CanAuthorize(b, u, d, t, amount) ==
    /\ d \in active
    /\ receipts[u][d] = NoReceipt
    /\ CanReserve(b, t, u, amount)

(* do_unlock and do_mint_assets. *)
CanArrive(t, u, amount) ==
    IF t = Native THEN CanTransfer(balances, Native, BridgeAccount, u, amount)
    ELSE t # NoToken /\ exists(t) /\ CanMint(balances, t, u, amount)

Arrived(t, u, amount) ==
    IF t = Native THEN Transferred(balances, Native, BridgeAccount, u, amount)
    ELSE Minted(balances, t, u, amount)

(* A new account is given something, as long as the donor has it. *)
Donated(b, u) ==
    IF u \notin signed /\ CanTransfer(b, Native, Donor, u, DonationForAgent)
    THEN Transferred(b, Native, Donor, u, DonationForAgent)
    ELSE b

DominatorOf(m) == associated_dominator[inbound[m].r_id[2]]

Authorized(m) ==
    LET u == inbound[m].to
        t == TokenOf(inbound[m].r_id)
        amount == inbound[m].amount
    IN  /\ DominatorOf(m) # Nobody
        /\ CanAuthorize(Arrived(t, u, amount), u, DominatorOf(m), t, to_asset_balance(amount, t))

ArrivesAs(m, outcome, authorized) ==
    LET u == inbound[m].to
        t == TokenOf(inbound[m].r_id)
        amount == inbound[m].amount
        b == to_asset_balance(amount, t)
        arrived == Arrived(t, u, amount)
    IN  /\ Pending(m)
        /\ CanArrive(t, u, amount)
        /\ tokens' = IF t = Native THEN tokens ELSE Supply(t, b)
        /\ IF authorized
           THEN /\ balances' = Donated(Reserved(arrived, t, u, b), u)
                /\ receipts' = [receipts EXCEPT ![u][DominatorOf(m)] = <<t, b>>]
           ELSE balances' = Donated(arrived, u) /\ UNCHANGED receipts
        /\ inbound' = [inbound EXCEPT ![m].outcome = outcome]
        /\ UNCHANGED <<byContract, settings, active, signed, announced>>

transfer_in_again(m) == ArrivesAs(m, "open", Authorized(m)) \* mutant: the message stays open

transfer_in_replacing(m) == \* mutant: an earlier receipt is replaced
    ArrivesAs(m, "executed", DominatorOf(m) \in active)

transfer_in_or_fail(m) == \* mutant: a failed authorization is an error
    /\ ArrivesAs(m, "executed", Authorized(m))
    /\ DominatorOf(m) # Nobody => receipts' # receipts

(* The call of an approved message.  It fails as a whole, and the vote     *)
(* with it, if the tokens cannot arrive, and may be voted for again; that  *)
(* they are not authorized is only logged.                                 *)
transfer_in(m) == ArrivesAs(m, "executed", Authorized(m))

-----------------------------------------------------------------------------
(* What admins and users, and the verifier, do besides. *)

native_limit(value) ==
    /\ native_check' = value
    /\ UNCHANGED <<tokenVars, bridging_fee, associated_dominator, prices, verifier,
                   signed, inbound, announced>>

update_bridge_fee(c, fee) ==
    /\ bridging_fee' = [bridging_fee EXCEPT ![c] = fee]
    /\ UNCHANGED <<tokenVars, native_check, associated_dominator, prices, verifier,
                   signed, inbound, announced>>

associate_dominator(i, d) ==
    /\ associated_dominator' = [associated_dominator EXCEPT ![i] = d]
    /\ UNCHANGED <<tokenVars, native_check, bridging_fee, prices, verifier,
                   signed, inbound, announced>>

(* stake_on and unstake_from of the verifier. *)
SetActive(d) ==
    /\ active' = IF d \in active THEN active \ {d} ELSE active \cup {d}
    /\ UNCHANGED <<tokenVars, settings, receipts, signed, inbound, announced>>

(* The dominator proves that it took the authorization, or rejects it: the *)
(* tokens stay reserved either way.                                        *)
AnswerReceipt(u, d) ==
    /\ receipts[u][d] # NoReceipt
    /\ receipts' = [receipts EXCEPT ![u][d] = NoReceipt]
    /\ UNCHANGED <<tokenVars, settings, active, signed, inbound, announced>>

(* What was authorized is taken back (module Custody). *)
GiveBack(u, t) ==
    /\ receipts[u] = [d \in Dominators |-> NoReceipt]
    /\ balances[t][u].reserved > 0
    /\ balances' = Unreserved(balances, t, u, balances[t][u].reserved)
    /\ UNCHANGED <<tokens, byContract, settings, verifier, signed, inbound, announced>>

Issue(u, d) ==
    /\ issue(u, d)
    /\ Sign(u)
    /\ UNCHANGED <<settings, verifier, inbound, announced>>

Transfer(u, t, amount, target) ==
    /\ transfer(u, t, amount, target)
    /\ Sign(u)
    /\ UNCHANGED <<settings, verifier, inbound, announced>>

BridgeAdmin ==
    \/ \E v \in BOOLEAN : native_limit(v)
    \/ \E c \in Chains \ {ThisChain}, fee \in Fees : update_bridge_fee(c, fee)
    \/ \E i \in AssociatedIds, d \in Dominators : associate_dominator(i, d)
    \/ TokenAdmin /\ UNCHANGED <<settings, verifier, signed, inbound, announced>>

BridgeNext ==
    \/ BridgeAdmin
    \/ \E t \in TokenIds, p \in Trades : exists(t) /\ set_price(t, p[1], p[2])
    \/ \E u \in Users, d \in Decimals : Issue(u, d)
    \/ \E u \in Users, amount \in Amounts :
          \/ \E r \in Resources, dest \in Chains : transfer_out(u, amount, r, dest)
          \/ \E t \in TokenIds, target \in Accounts \ {u} : Transfer(u, t, amount, target)
          \/ \E m \in Messages, r \in Resources : Deposit(m, u, amount, r)
    \/ \E m \in Messages : Drop(m) \/ transfer_in(m)
    \/ \E u \in Users, d \in Dominators : AnswerReceipt(u, d)
    \/ \E u \in Users, t \in TokenIds : GiveBack(u, t)
    \/ \E d \in Dominators : SetActive(d)

BridgeSpec == BridgeInit /\ [][BridgeNext]_bridgeVars

(* Relayers go on voting for a message until its call succeeds. *)
FairBridgeSpec == BridgeSpec /\ \A m \in Messages : WF_bridgeVars(transfer_in(m))

-----------------------------------------------------------------------------
(* Properties. *)

(* One unit of both the contract's and the chain's amounts, in a common    *)
(* unit that is exact for both.                                            *)
External(t, amount) == amount * Power[MaxDecimals - tokens[t].decimals]
Standard(amount) == amount * Power[MaxDecimals - StandardDecimals]
ResourcesOf(t) == {r \in Resources : ~is_native_resource(r) /\ AssetOf(r) = t}

(* The supply of an issued token never exceeds what deposits outside       *)
(* brought in less what was announced to be paid out again, exactly: not   *)
(* through conversions that round or wrap, nor through fees.               *)
SupplyIsBacked ==
    \A t \in DOMAIN tokens :
        Standard(tokens[t].total)
            + External(t, SumFunctionOnSet(announced, ResourcesOf(t)))
          <= External(t, Deposited(ResourcesOf(t), {"executed"}))

(* The bridge account can unlock every native token that was announced to  *)
(* another chain and has not come back.                                    *)
NativeIsLocked ==
    SumFunctionOnSet(announced, NativeResources) - Deposited(NativeResources, {"executed"})
      <= balances[Native][BridgeAccount].free

(* The supply a token's record tells is what the accounts have of it, free *)
(* and reserved; and native tokens are only ever burned by issuing tokens. *)
SupplyIsHeld ==
    /\ \A t \in DOMAIN tokens : Held(t) = tokens[t].total
    /\ Held(Native) + Len(tokens) * BurnTAOwhenIssue = SumFunctionOnSet(InitFree, Accounts)

(* The bridge can pay out whatever it owes: the tokens here are covered by *)
(* the deposits there, the native ones there by those locked here, and the *)
(* balances are what the records say.                                      *)
BridgeIsSolvent == BridgeTypeOK /\ SupplyIsBacked /\ NativeIsLocked /\ SupplyIsHeld

(* A transfer out of an issued token burns exactly what it announces, and  *)
(* charges the fee quoted for some chain and less than one unit of the     *)
(* contract on top.                                                        *)
BurnedIsAnnounced ==
    [][\A t \in DOMAIN tokens, r \in Resources :
          AssetOf(r) = t /\ announced'[r] # announced[r] /\ ~is_native_resource(r) =>
            LET charged == balances'[t][Treasury].free - balances[t][Treasury].free
                unit == External(t, 1)
            IN  /\ Standard(tokens[t].total - tokens'[t].total) = External(t, announced'[r] - announced[r])
                /\ \E c \in Chains \ {ThisChain} : LET fee == calculate_bridging_fee(c, t)
                                     IN  fee <= charged /\ Standard(charged - fee) < unit]_bridgeVars

(* Tokens that arrive for a dominator are reserved for it at once and to   *)
(* the unit, unless it is offline or has an earlier receipt of the account *)
(* pending, which is left as it was.                                       *)
ArrivesAtDominator ==
    [][\A m \in Messages : inbound'[m].outcome = "executed" /\ inbound[m].outcome = "open" =>
          LET u == inbound[m].to
              t == TokenOf(inbound[m].r_id)
              d == DominatorOf(m)
              gained == to_asset_balance(inbound[m].amount, t)
          IN  IF d \in active /\ receipts[u][d] = NoReceipt
              THEN /\ receipts'[u][d] = <<t, gained>>
                   /\ balances'[t][u].reserved = balances[t][u].reserved + gained
              ELSE receipts' = receipts /\ balances'[t][u].free >= balances[t][u].free + gained]_bridgeVars

(* A native deposit, and one of an associated token that is worth a unit   *)
(* of it, gets through in the end, whatever prices, fees, receipts and     *)
(* other transfers there are: its call is never impossible for good.       *)
DepositsArrive ==
    \A m \in Messages :
        (/\ Pending(m)
         /\ LET t == TokenOf(inbound[m].r_id)
            IN  \/ t = Native
                \/ t # NoToken /\ exists(t) /\ to_asset_balance(inbound[m].amount, t) > 0)
        ~> ~Pending(m)
=============================================================================
