------------------------------ MODULE Custody ------------------------------
(***************************************************************************)
(* Custody of user funds by dominators (pallets/verifier).                 *)
(*                                                                         *)
(* A dominator is an off-chain order matcher.  A user hands tokens over by *)
(* "authorize" and asks for them back by "revoke"; either call leaves one  *)
(* receipt per (dominator, user), which the matcher answers later with a   *)
(* proof: TransferIn, TransferOut, RejectTransferIn or RejectTransferOut.  *)
(* AskLimit, BidLimit and Cancel proofs move funds between users.  Every   *)
(* proof is checked against the Merkle root of the matcher's book, and the *)
(* chain mirrors the book in the Reserves map and in the token pallet's    *)
(* free and reserved balances.                                             *)
(*                                                                         *)
(* Extrinsics are transactional, so a call that fails changes nothing: an  *)
(* error path is an action that is not enabled.  The Merkle root stands    *)
(* for the tree it commits to, so the book itself is the variable.         *)
(***************************************************************************)
EXTENDS Integers, FiniteSets, Sums

CONSTANTS
    NUsers,           \* accounts are 1..NUsers
    NDominators,      \* dominators are 1..NDominators
    Tokens,           \* token ids
    Markets,          \* the pairs <<base, quote>> with a stable quote
    InitFree,         \* the free balances of the initial state
    Amounts,          \* the amounts a user may name in a call (a bound)
    OrderAmounts,     \* the amounts an order may trade, leave or cancel (a bound)
    FillPlans,        \* what the makers of one proof may get and give (a bound)
    FeeRates,         \* the fee rates a proof may carry, in parts per million
    MaxFee,           \* MaxMakerFee and MaxTakerFee of the runtime
    Tolerance,        \* the precision slack of has_authorized_exactly_on
    Beneficiary,      \* the account each dominator's fees go to
    Brokers,          \* the accounts brokers have their half of a base fee paid to
    MatcherMayReject  \* whether matchers ever send RejectTransferIn

Users == 1..NUsers
Dominators == 1..NDominators
Holdings == Users \X Tokens
Keys == Users \X Tokens \X Dominators

ASSUME CountAssumption == NUsers \in Nat /\ NDominators \in Nat
ASSUME TokenAssumption == Tokens \subseteq Nat /\ Markets \subseteq Tokens \X Tokens
ASSUME AmountAssumption == Amounts \subseteq Nat /\ OrderAmounts \subseteq Nat
ASSUME FillAssumption == FillPlans \subseteq [get : [Users -> Nat], give : [Users -> Nat]]
ASSUME FeeAssumption == FeeRates \subseteq Nat /\ MaxFee \in Nat /\ Tolerance \in Nat
ASSUME InitFreeAssumption == InitFree \in [Holdings -> Nat]
ASSUME AccountAssumption == Beneficiary \in [Dominators -> Users] /\ Brokers \subseteq Users
ASSUME RejectAssumption == MatcherMayReject \in BOOLEAN

VARIABLES
    status,      \* Dominators[d].status, or "None" before register
    receipts,    \* Receipts[d][u], keyed <<u, d>>
    authorizing, \* Reserves with RESERVE_FOR_AUTHORIZING, keyed <<u, t, d>>
    stash,       \* Reserves with RESERVE_FOR_AUTHORIZING_STASH
    free,        \* the token pallet's free balance, keyed <<u, t>>
    reserved,    \* the token pallet's reserved balance
    book,        \* the tree under Dominators[d].merkle_root: available, frozen
    profit       \* the quote fees in Bonuses, all seasons, keyed <<t, d>>

vars == <<status, receipts, authorizing, stash, free, reserved, book, profit>>

Statuses == {"None", "Registered", "Inactive", "Active", "Evicted"}
RevokeKinds == {"Revoke", "RevokeWithCallback"}
Receipt(kind, t, x) == [kind |-> kind, token |-> t, amount |-> x]
NoReceipt == Receipt("None", 0, 0)
Receipts == {NoReceipt} \cup
    [kind : {"Authorize"} \cup RevokeKinds, token : Tokens, amount : Nat]
Leaf(a, f) == [available |-> a, frozen |-> f]

TypeOK ==
    /\ status \in [Dominators -> Statuses]
    /\ receipts \in [Users \X Dominators -> Receipts]
    /\ authorizing \in [Keys -> Nat]
    /\ stash \in [Keys -> Nat]
    /\ free \in [Holdings -> Nat]
    /\ reserved \in [Holdings -> Nat]
    /\ book \in [Keys -> [available : Nat, frozen : Nat]]
    /\ profit \in [Tokens \X Dominators -> Nat]

Init ==
    /\ status = [d \in Dominators |-> "None"]
    /\ receipts = [p \in Users \X Dominators |-> NoReceipt]
    /\ authorizing = [k \in Keys |-> 0]
    /\ stash = [k \in Keys |-> 0]
    /\ free = InitFree
    /\ reserved = [h \in Holdings |-> 0]
    /\ book = [k \in Keys |-> Leaf(0, 0)]
    /\ profit = [p \in Tokens \X Dominators |-> 0]

-----------------------------------------------------------------------------
(* The life of a dominator.  Coming online and going offline are what      *)
(* stake and unstake do to the status; module Staking has the amounts.     *)

funds == <<receipts, authorizing, stash, free, reserved, book, profit>>

SetStatus(d, from, to) ==
    /\ status[d] \in from
    /\ status' = [status EXCEPT ![d] = to]
    /\ UNCHANGED funds

Register(d) == SetStatus(d, {"None"}, "Registered")
Launch(d) == SetStatus(d, {"Registered"}, "Inactive")
Evict(d) == SetStatus(d, Statuses \ {"None"}, "Evicted")
Online(d) == SetStatus(d, {"Inactive"}, "Active")
Offline(d) == SetStatus(d, {"Active"}, "Inactive")

-----------------------------------------------------------------------------
(* What users call. *)

(* Mutant: the token pallet does not reserve the amount. *)
AuthorizeToUnreserved(u, d, t, x) ==
    /\ status[d] = "Active" /\ receipts[<<u, d>>] = NoReceipt /\ free[<<u, t>>] >= x
    /\ free' = [free EXCEPT ![<<u, t>>] = @ - x]
    /\ stash' = [stash EXCEPT ![<<u, t, d>>] = @ + x]
    /\ receipts' = [receipts EXCEPT ![<<u, d>>] = Receipt("Authorize", t, x)]
    /\ UNCHANGED <<status, authorizing, reserved, book, profit>>

(* authorize_to: reserve the amount as stash and leave an Authorize receipt. *)
AuthorizeTo(u, d, t, x) ==
    /\ status[d] = "Active"
    /\ receipts[<<u, d>>] = NoReceipt
    /\ free[<<u, t>>] >= x
    /\ free' = [free EXCEPT ![<<u, t>>] = @ - x]
    /\ reserved' = [reserved EXCEPT ![<<u, t>>] = @ + x]
    /\ stash' = [stash EXCEPT ![<<u, t, d>>] = @ + x]
    /\ receipts' = [receipts EXCEPT ![<<u, d>>] = Receipt("Authorize", t, x)]
    /\ UNCHANGED <<status, authorizing, book, profit>>

(* revoke_from at a live dominator: only a receipt, the matcher decides.   *)
(* With amount 0 the call returns before it changes anything.              *)
RevokeFrom(u, d, t, x, kind) ==
    /\ x > 0
    /\ authorizing[<<u, t, d>>] >= x
    /\ status[d] \in {"Inactive", "Active"}
    /\ receipts[<<u, d>>] = NoReceipt
    /\ receipts' = [receipts EXCEPT ![<<u, d>>] = Receipt(kind, t, x)]
    /\ UNCHANGED <<status, authorizing, stash, free, reserved, book, profit>>

(* What revoke_from at an evicted dominator does besides the stash. *)
PayOut(u, d, t, x) ==
    /\ x > 0
    /\ authorizing[<<u, t, d>>] >= x
    /\ status[d] = "Evicted"
    /\ reserved[<<u, t>>] >= x
    /\ free' = [free EXCEPT ![<<u, t>>] = @ + x]
    /\ reserved' = [reserved EXCEPT ![<<u, t>>] = @ - x]
    /\ receipts' = [receipts EXCEPT ![<<u, d>>] = NoReceipt]
    /\ UNCHANGED <<status, book, profit>>

(* Mutants: the stash entry is added but not taken; taken but not added. *)
RevokeFromEvictedKeepsStash(u, d, t, x) ==
    /\ PayOut(u, d, t, x)
    /\ authorizing' = [authorizing EXCEPT ![<<u, t, d>>] = @ + stash[<<u, t, d>>] - x]
    /\ UNCHANGED stash
RevokeFromEvictedLosesStash(u, d, t, x) ==
    /\ PayOut(u, d, t, x)
    /\ authorizing' = [authorizing EXCEPT ![<<u, t, d>>] = @ - x]
    /\ stash' = [stash EXCEPT ![<<u, t, d>>] = 0]

(* revoke_from at an evicted dominator: the stash joins the authorized     *)
(* balance, the amount is paid out at once and any receipt is dropped.     *)
RevokeFromEvicted(u, d, t, x) ==
    /\ PayOut(u, d, t, x)
    /\ authorizing' = [authorizing EXCEPT ![<<u, t, d>>] = @ + stash[<<u, t, d>>] - x]
    /\ stash' = [stash EXCEPT ![<<u, t, d>>] = 0]

-----------------------------------------------------------------------------
(* What the matcher proves.  It is external: its proofs are those of a     *)
(* matcher that never overdraws the available balance of its own book.     *)

(* Mutant: the receipt stays, and the next proof is for it again. *)
TransferInKeepsReceipt(u, d) ==
    LET r == receipts[<<u, d>>]
        k == <<u, r.token, d>>
    IN  /\ status[d] = "Active" /\ r.kind = "Authorize"
        /\ book' = [book EXCEPT ![k].available = @ + r.amount]
        /\ stash' = [stash EXCEPT ![k] = 0]
        /\ authorizing' = [authorizing EXCEPT ![k] = @ + r.amount]
        /\ UNCHANGED <<status, receipts, free, reserved, profit>>

(* TransferIn: the whole stash entry goes, the receipt's amount arrives. *)
TransferIn(u, d) ==
    LET r == receipts[<<u, d>>]
        k == <<u, r.token, d>>
    IN  /\ status[d] = "Active"
        /\ r.kind = "Authorize"
        /\ book' = [book EXCEPT ![k].available = @ + r.amount]
        /\ stash' = [stash EXCEPT ![k] = 0]
        /\ authorizing' = [authorizing EXCEPT ![k] = @ + r.amount]
        /\ receipts' = [receipts EXCEPT ![<<u, d>>] = NoReceipt]
        /\ UNCHANGED <<status, free, reserved, profit>>

(* RejectTransferIn: the receipt goes; without a receipt nothing happens. *)
RejectTransferIn(u, d) ==
    /\ MatcherMayReject
    /\ status[d] = "Active"
    /\ receipts[<<u, d>>].kind = "Authorize"
    /\ receipts' = [receipts EXCEPT ![<<u, d>>] = NoReceipt]
    /\ UNCHANGED <<status, authorizing, stash, free, reserved, book, profit>>

(* Both kinds of transfer out: the conditions and the unreserve. *)
CanTransferOut(u, d, kind) ==
    LET r == receipts[<<u, d>>]
        k == <<u, r.token, d>>
    IN  /\ status[d] = "Active"
        /\ r.kind = kind
        /\ book[k].available >= r.amount
        /\ authorizing[k] >= r.amount
        /\ reserved[<<u, r.token>>] >= r.amount

TakeOut(u, d) ==
    LET r == receipts[<<u, d>>]
        k == <<u, r.token, d>>
    IN  /\ book' = [book EXCEPT ![k].available = @ - r.amount]
        /\ authorizing' = [authorizing EXCEPT ![k] = @ - r.amount]

(* TransferOut of a plain revocation, or of one whose callback has no      *)
(* effect here (a failed callback is only logged).                         *)
TransferOut(u, d) ==
    LET r == receipts[<<u, d>>]
    IN  /\ \E kind \in RevokeKinds : CanTransferOut(u, d, kind)
        /\ TakeOut(u, d)
        /\ free' = [free EXCEPT ![<<u, r.token>>] = @ + r.amount]
        /\ reserved' = [reserved EXCEPT ![<<u, r.token>>] = @ - r.amount]
        /\ receipts' = [receipts EXCEPT ![<<u, d>>] = NoReceipt]
        /\ UNCHANGED <<status, stash, profit>>

(* TransferOut of a revocation whose callback, dispatched as the user in   *)
(* the middle of the proof, authorizes y of the same token to dominator e. *)
TransferOutAndAuthorize(u, d, e, y) ==
    LET r == receipts[<<u, d>>]
        t == r.token
        cleared == [receipts EXCEPT ![<<u, d>>] = NoReceipt]
    IN  /\ CanTransferOut(u, d, "RevokeWithCallback")
        /\ TakeOut(u, d)
        /\ status[e] = "Active"
        /\ cleared[<<u, e>>] = NoReceipt
        /\ free[<<u, t>>] + r.amount >= y
        /\ free' = [free EXCEPT ![<<u, t>>] = @ + r.amount - y]
        /\ reserved' = [reserved EXCEPT ![<<u, t>>] = @ - r.amount + y]
        /\ stash' = [stash EXCEPT ![<<u, t, e>>] = @ + y]
        /\ receipts' = [cleared EXCEPT ![<<u, e>>] = Receipt("Authorize", t, y)]
        /\ UNCHANGED <<status, profit>>

(* Mutant: frozen amounts count as if they could be paid out. *)
RejectTransferOutUnlessFrozen(u, d) ==
    LET r == receipts[<<u, d>>]
    IN  /\ status[d] = "Active"
        /\ r.kind \in RevokeKinds
        /\ book[<<u, r.token, d>>].available + book[<<u, r.token, d>>].frozen < r.amount
        /\ receipts' = [receipts EXCEPT ![<<u, d>>] = NoReceipt]
        /\ UNCHANGED <<status, authorizing, stash, free, reserved, book, profit>>

(* RejectTransferOut: the book does not have the amount available. *)
RejectTransferOut(u, d) ==
    LET r == receipts[<<u, d>>]
    IN  /\ status[d] = "Active"
        /\ r.kind \in RevokeKinds
        /\ book[<<u, r.token, d>>].available < r.amount
        /\ receipts' = [receipts EXCEPT ![<<u, d>>] = NoReceipt]
        /\ UNCHANGED <<status, authorizing, stash, free, reserved, book, profit>>

(* Cancel: a frozen amount becomes available again. *)
Cancel(u, d, t, x) ==
    /\ status[d] = "Active"
    /\ book[<<u, t, d>>].frozen >= x
    /\ book' = [book EXCEPT ![<<u, t, d>>] = Leaf(@.available + x, @.frozen - x)]
    /\ UNCHANGED <<status, receipts, authorizing, stash, free, reserved, profit>>

-----------------------------------------------------------------------------
(* Trades. *)

LeafSum(l) == l.available + l.frozen

(* Permill::mul_ceil *)
MulCeil(rate, x) == (rate * x + 999999) \div 1000000

check_fee(rate) == rate <= MaxFee

(* has_authorized_exactly_on, for the leaf the proof starts from *)
HasAuthorizedExactlyOn(k) ==
    LET confirmed == authorizing[k]
        x == LeafSum(book[k])
    IN  confirmed - x <= Tolerance /\ x - confirmed <= Tolerance

SubNothing(x, y) == x \* mutant of SubOrZero

(* checked_sub(..).unwrap_or_default() *)
SubOrZero(x, y) == IF x >= y THEN x - y ELSE 0

(* Mutant: the leaf's balance is written to the token pallet only. *)
ClearKeepsReserves(d, new) ==
    /\ book' = [k \in Keys |-> IF k \in DOMAIN new THEN new[k] ELSE book[k]]
    /\ reserved' = [h \in Holdings |->
           IF <<h[1], h[2], d>> \in DOMAIN new
           THEN SubOrZero(reserved[h], authorizing[<<h[1], h[2], d>>])
                    + LeafSum(new[<<h[1], h[2], d>>])
           ELSE reserved[h]]
    /\ UNCHANGED authorizing

(* clear, for every leaf in new: the reserve and the token pallet's        *)
(* reserved balance take over the leaf's balance.                          *)
Clear(d, new) ==
    LET touched(u, t) == <<u, t, d>> \in DOMAIN new
    IN  /\ book' = [k \in Keys |-> IF k \in DOMAIN new THEN new[k] ELSE book[k]]
        /\ authorizing' = [k \in Keys |->
               IF k \in DOMAIN new THEN LeafSum(new[k]) ELSE authorizing[k]]
        /\ reserved' = [h \in Holdings |->
               IF touched(h[1], h[2])
               THEN SubOrZero(reserved[h], authorizing[<<h[1], h[2], d>>])
                        + LeafSum(new[<<h[1], h[2], d>>])
               ELSE reserved[h]]

(* Mutant: the beneficiary gets the whole fee next to the broker's half. *)
PayBaseFeeTwice(d, b, fee, broker) ==
    LET half == IF broker = 0 THEN 0 ELSE (fee + 1) \div 2
        paid(u) == (IF u = broker THEN half ELSE 0)
                   + (IF u = Beneficiary[d] THEN fee ELSE 0)
    IN  free' = [h \in Holdings |-> IF h[2] = b THEN free[h] + paid(h[1]) ELSE free[h]]

(* The base fee: half of it, rounded up, to the broker if there is one. *)
PayBaseFee(d, b, fee, broker) ==
    LET half == IF broker = 0 THEN 0 ELSE (fee + 1) \div 2
        paid(u) == (IF u = broker THEN half ELSE 0)
                   + (IF u = Beneficiary[d] THEN fee - half ELSE 0)
    IN  free' = [h \in Holdings |-> IF h[2] = b THEN free[h] + paid(h[1]) ELSE free[h]]

PutProfit(d, q, fee) == profit' = [profit EXCEPT ![<<q, d>>] = @ + fee]

Total(f) == SumTo(f, NUsers)

(* A proof of a trade.  The taker sells `sold' of token sell, and leaves   *)
(* an order for `rest' more of it frozen in the book; maker m gets get[m]  *)
(* of it and gives give[m] of token buy out of the order it has in the     *)
(* book.  Whoever receives pays a fee: sellFee in all for the makers,      *)
(* buyFee for the taker.  An order that is only placed has no makers.      *)
Settle(d, taker, sell, buy, sold, rest, get, give, sellFee, buyFee) ==
    LET makers == {m \in Users : get[m] > 0 \/ give[m] > 0}
        leaves == {k \in Keys : /\ k[1] \in makers \cup {taker}
                                /\ k[2] \in {sell, buy}
                                /\ k[3] = d}
        old(k) == book[k]
        new == [k \in leaves |->
                  IF k[1] = taker
                  THEN IF k[2] = sell
                       THEN Leaf(old(k).available - sold - rest, old(k).frozen + rest)
                       ELSE Leaf(old(k).available + Total(give) - buyFee, old(k).frozen)
                  ELSE IF k[2] = sell
                       THEN Leaf(old(k).available + get[k[1]], old(k).frozen)
                       ELSE Leaf(old(k).available, old(k).frozen - give[k[1]])]
    IN  /\ status[d] = "Active"
        /\ book[<<taker, sell, d>>].available >= sold + rest
        /\ taker \notin makers
        /\ \A m \in makers : book[<<m, buy, d>>].frozen >= give[m]
        /\ Total(get) + sellFee = sold
        /\ buyFee <= Total(give)
        /\ \A k \in leaves : HasAuthorizedExactlyOn(k)
        /\ Clear(d, new)

(* The taker of an ask sells base: the makers pay their fee in base, the   *)
(* taker in quote.                                                         *)
verify_ask_limit(d, taker, b, q, sold, rest, get, give, base_charged, quote_charged) ==
    Settle(d, taker, b, q, sold, rest, get, give, base_charged, quote_charged)

(* The taker of a bid sells quote: the other way round. *)
verify_bid_limit(d, taker, b, q, sold, rest, get, give, base_charged, quote_charged) ==
    Settle(d, taker, q, b, sold, rest, get, give, quote_charged, base_charged)

AskLimit(d, taker, b, q, sold, rest, get, give, makerFee, takerFee, broker) ==
    LET base_charged == MulCeil(makerFee, sold)
        quote_charged == MulCeil(takerFee, Total(give))
    IN  /\ check_fee(makerFee) /\ check_fee(takerFee)
        /\ verify_ask_limit(d, taker, b, q, sold, rest, get, give, base_charged, quote_charged)
        /\ PutProfit(d, q, quote_charged)
        /\ PayBaseFee(d, b, base_charged, broker)
        /\ UNCHANGED <<status, receipts, stash>>

BidLimit(d, taker, b, q, sold, rest, get, give, makerFee, takerFee, broker) ==
    LET quote_charged == MulCeil(makerFee, sold)
        base_charged == MulCeil(takerFee, Total(give))
    IN  /\ check_fee(makerFee) /\ check_fee(takerFee)
        /\ verify_bid_limit(d, taker, b, q, sold, rest, get, give, base_charged, quote_charged)
        /\ PutProfit(d, q, quote_charged)
        /\ PayBaseFee(d, b, base_charged, broker)
        /\ UNCHANGED <<status, receipts, stash>>

-----------------------------------------------------------------------------
(* The specification. *)

Governance(d) == Register(d) \/ Launch(d) \/ Evict(d) \/ Online(d) \/ Offline(d)

UserCall(u, d) ==
    \E t \in Tokens, x \in Amounts :
        \/ AuthorizeTo(u, d, t, x)
        \/ \E kind \in RevokeKinds : RevokeFrom(u, d, t, x, kind)
        \/ RevokeFromEvicted(u, d, t, x)

(* The answer to a receipt. *)
Resolve(u, d) ==
    \/ TransferIn(u, d)
    \/ RejectTransferIn(u, d)
    \/ TransferOut(u, d)
    \/ \E e \in Dominators, y \in Amounts : TransferOutAndAuthorize(u, d, e, y)
    \/ RejectTransferOut(u, d)

Match(d) ==
  /\ status[d] = "Active"
  /\ \/ \E u \in Users, t \in Tokens, x \in OrderAmounts : Cancel(u, d, t, x)
     \/ \E taker \in Users, m \in Markets, sold, rest \in OrderAmounts, plan \in FillPlans,
           makerFee, takerFee \in FeeRates, broker \in Brokers \cup {0} :
           \/ AskLimit(d, taker, m[1], m[2], sold, rest, plan.get, plan.give,
                       makerFee, takerFee, broker)
           \/ BidLimit(d, taker, m[1], m[2], sold, rest, plan.get, plan.give,
                       makerFee, takerFee, broker)

Next ==
    \E d \in Dominators :
        \/ Governance(d)
        \/ \E u \in Users : UserCall(u, d) \/ Resolve(u, d)
        \/ Match(d)

Spec == Init /\ [][Next]_vars

(* A matcher keeps answering the receipts of its dominator. *)
FairSpec == Spec /\ \A u \in Users, d \in Dominators : WF_vars(Resolve(u, d))

-----------------------------------------------------------------------------
(* Properties. *)

(* What the verifier has on its books for a holding, over all dominators. *)
Claims(u, t) ==
    SumTo([d \in Dominators |-> authorizing[<<u, t, d>>] + stash[<<u, t, d>>]], NDominators)

(* The reserved balance of the token pallet always covers the Reserves     *)
(* entries of the verifier, so no unreserve of an amount a Reserves entry  *)
(* shows can fail and clear never falls back on unwrap_or_default.         *)
ReservedCoversClaims ==
    \A u \in Users, t \in Tokens : reserved[<<u, t>>] >= Claims(u, t)

(* A pending authorization at a live dominator is backed by the stash, so  *)
(* the TransferIn that answers it never credits more than is reserved.     *)
StashCoversReceipt ==
    \A u \in Users, d \in Dominators :
        LET r == receipts[<<u, d>>]
        IN  (status[d] # "Evicted" /\ r.kind = "Authorize")
            => stash[<<u, r.token, d>>] >= r.amount

(* At every dominator that can still submit proofs, the on-chain reserve   *)
(* of a user equals what the matcher's book holds for that user, to the    *)
(* unit: the slack of has_authorized_exactly_on is never used.             *)
BookMatchesReserves ==
    \A k \in Keys : status[k[3]] # "Evicted" => authorizing[k] = LeafSum(book[k])

(* A revocation can always be answered: either the matcher can pay it out, *)
(* every check of TransferOut and of its unreserve included, or it can     *)
(* prove that it cannot.                                                   *)
RevokeResolvable ==
    \A u \in Users, d \in Dominators :
        LET r == receipts[<<u, d>>]
            k == <<u, r.token, d>>
        IN  (status[d] = "Active" /\ r.kind \in RevokeKinds)
            => \/ book[k].available < r.amount
               \/ authorizing[k] >= r.amount /\ reserved[<<u, r.token>>] >= r.amount

(* No call creates or destroys tokens: free and reserved balances and the  *)
(* fees put aside for stakers always add up to the initial supply, fee     *)
(* rounding and the split with the broker included.                        *)
Supply(t) ==
    Total([u \in Users |-> free[<<u, t>>] + reserved[<<u, t>>]])
    + SumTo([d \in Dominators |-> profit[<<t, d>>]], NDominators)

Conservation ==
    \A t \in Tokens : Supply(t) = Total([u \in Users |-> InitFree[<<u, t>>]])

(* What is reserved in the token pallet but no Reserves entry shows: no    *)
(* call can ever give it back.                                             *)
Stranded(u, t) == reserved[<<u, t>>] - Claims(u, t)

(* While no authorization is rejected, nothing is stranded: every reserved *)
(* unit is in a Reserves entry and can be revoked or is on its way in.     *)
NothingStranded == \A u \in Users, t \in Tokens : Stranded(u, t) = 0

(* No token appears or vanishes, no balance goes below zero, and every     *)
(* reserved unit is accounted for.                                         *)
HoldingsAddUp == TypeOK /\ Conservation /\ NothingStranded

(* The step that strands funds: a TransferIn that finds more in the stash  *)
(* than its receipt names, the remains of rejected authorizations.         *)
StrandsExcess(u, t, d) ==
    LET r == receipts[<<u, d>>]
    IN  /\ r.kind = "Authorize" /\ r.token = t
        /\ receipts'[<<u, d>>] = NoReceipt
        /\ stash[<<u, t, d>>] > r.amount
        /\ Stranded(u, t)' = Stranded(u, t) + stash[<<u, t, d>>] - r.amount

(* Funds are stranded in that way only, and nothing gives them back.       *)
StrandedOnlyByTransferIn ==
    [][\A u \in Users, t \in Tokens :
          \/ Stranded(u, t)' = Stranded(u, t)
          \/ \E d \in Dominators : StrandsExcess(u, t, d)]_vars

(* A receipt at a dominator that stays online is answered. *)
ReceiptsAnswered ==
    \A u \in Users, d \in Dominators :
        receipts[<<u, d>>] # NoReceipt ~> (receipts[<<u, d>>] = NoReceipt \/ status[d] # "Active")

(* TransferIn moves the stash to the authorized balance, as the comment on *)
(* it says: what leaves the stash of a live dominator arrives there.       *)
StashMovesToAuthorizing ==
    [][\A k \in Keys :
          (stash[k] > 0 /\ stash'[k] = 0 /\ status[k[3]] = "Active")
              => authorizing'[k] = authorizing[k] + stash[k]]_vars
=============================================================================
