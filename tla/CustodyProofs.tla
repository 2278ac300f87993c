---------------------------- MODULE CustodyProofs ----------------------------
(***************************************************************************)
(* Proofs about Custody: for any number of accounts, dominators and        *)
(* tokens, any initial balances and any amounts, with matchers that reject *)
(* authorizations and without.                                             *)
(***************************************************************************)
EXTENDS Custody, SumsProofs

USE DEF Users, Dominators, Holdings, Keys

(* Fees are natural numbers. *)
LEMMA MulCeilNat ==
  ASSUME NEW rate \in Nat, NEW x \in Nat
  PROVE  MulCeil(rate, x) \in Nat
<1>1. rate * x \in Nat
  OBVIOUS
<1>2. \A y \in Nat : (y + 999999) \div 1000000 \in Nat
  OBVIOUS
<1>3. QED
  BY <1>1, <1>2 DEF MulCeil

(* The total of a fill plan is a natural number no smaller than its parts. *)
LEMMA TotalNat ==
  ASSUME NEW f \in [Users -> Nat]
  PROVE  Total(f) \in Nat /\ \A u \in Users : f[u] <= Total(f)
BY CountAssumption, SumToNat DEF Total

(* The initial state is well typed. *)
LEMMA InitTypeOK == Init => TypeOK
BY InitFreeAssumption DEF Init, TypeOK, Statuses, Receipts, Leaf

(* Governance moves one status and no funds. *)
LEMMA GovernanceTypeOK ==
  ASSUME TypeOK, NEW d \in Dominators, Governance(d)
  PROVE  TypeOK'
BY DEF TypeOK, Governance, Register, Launch, Evict, Online, Offline,
       SetStatus, Statuses, funds

(* What users call keeps the types. *)
LEMMA UserCallTypeOK ==
  ASSUME TypeOK, NEW u \in Users, NEW d \in Dominators, UserCall(u, d)
  PROVE  TypeOK'
<1>1. PICK t \in Tokens, x \in Amounts :
        \/ AuthorizeTo(u, d, t, x)
        \/ \E kind \in RevokeKinds : RevokeFrom(u, d, t, x, kind)
        \/ RevokeFromEvicted(u, d, t, x)
  BY DEF UserCall
<1>2. x \in Nat
  BY AmountAssumption
<1>3. CASE AuthorizeTo(u, d, t, x)
  <2> USE <1>2, <1>3 DEF TypeOK, AuthorizeTo
  <2>1. free' \in [Holdings -> Nat] /\ reserved' \in [Holdings -> Nat]
    OBVIOUS
  <2>2. stash' \in [Keys -> Nat]
    OBVIOUS
  <2>3. receipts' \in [Users \X Dominators -> Receipts]
    BY DEF Receipts, Receipt
  <2>4. QED
    BY <2>1, <2>2, <2>3
<1>4. CASE \E kind \in RevokeKinds : RevokeFrom(u, d, t, x, kind)
  BY <1>2, <1>4 DEF TypeOK, RevokeFrom, Receipts, Receipt
<1>5. CASE RevokeFromEvicted(u, d, t, x)
  <2> USE <1>2, <1>5 DEF TypeOK, RevokeFromEvicted, PayOut
  <2>1. free' \in [Holdings -> Nat] /\ reserved' \in [Holdings -> Nat]
    OBVIOUS
  <2>2. stash' \in [Keys -> Nat]
    OBVIOUS
  <2>3. authorizing' \in [Keys -> Nat]
    OBVIOUS
  <2>4. receipts' \in [Users \X Dominators -> Receipts]
    BY DEF Receipts
  <2>5. QED
    BY <2>1, <2>2, <2>3, <2>4
<1>6. QED
  BY <1>1, <1>3, <1>4, <1>5

(* A pending receipt names a token and an amount. *)
LEMMA PendingReceipt ==
  ASSUME TypeOK, NEW u \in Users, NEW d \in Dominators, receipts[<<u, d>>].kind # "None"
  PROVE  receipts[<<u, d>>].token \in Tokens /\ receipts[<<u, d>>].amount \in Nat
BY DEF TypeOK, Receipts, NoReceipt, Receipt

(* Updating one balance keeps the type. *)
LEMMA NatUpdate ==
  ASSUME NEW S, NEW f \in [S -> Nat], NEW s \in S, NEW v \in Nat
  PROVE  [f EXCEPT ![s] = v] \in [S -> Nat]
OBVIOUS

(* The same for one leaf of a book. *)
LEMMA LeafUpdate ==
  ASSUME NEW S, NEW b \in [S -> [available : Nat, frozen : Nat]], NEW s \in S,
         NEW v \in [available : Nat, frozen : Nat]
  PROVE  [b EXCEPT ![s] = v] \in [S -> [available : Nat, frozen : Nat]]
OBVIOUS

(* The answers to receipts keep the types. *)
LEMMA ResolveTypeOK ==
  ASSUME TypeOK, NEW u \in Users, NEW d \in Dominators, Resolve(u, d)
  PROVE  TypeOK'
<1>1. receipts[<<u, d>>].kind # "None"
  BY DEF Resolve, TransferIn, RejectTransferIn, TransferOut, TransferOutAndAuthorize,
         RejectTransferOut, CanTransferOut, RevokeKinds
<1> PICK t \in Tokens, x \in Nat : t = receipts[<<u, d>>].token /\ x = receipts[<<u, d>>].amount
  BY <1>1, PendingReceipt
<1> PICK k \in Keys : k = <<u, t, d>>
  OBVIOUS
<1> PICK h \in Holdings : h = <<u, t>>
  OBVIOUS
<1>2. /\ authorizing[k] \in Nat /\ free[h] \in Nat /\ reserved[h] \in Nat
      /\ book[k] \in [available : Nat, frozen : Nat]
  BY DEF TypeOK
<1> HIDE DEF Keys, Holdings
<1>3. CASE TransferIn(u, d)
  <2>1. /\ book' = [book EXCEPT ![k].available = @ + x]
        /\ stash' = [stash EXCEPT ![k] = 0]
        /\ authorizing' = [authorizing EXCEPT ![k] = @ + x]
        /\ receipts' = [receipts EXCEPT ![<<u, d>>] = NoReceipt]
        /\ UNCHANGED <<status, free, reserved, profit>>
    BY <1>3 DEF TransferIn
  <2>2. stash' \in [Keys -> Nat] /\ authorizing' \in [Keys -> Nat]
    BY <2>1 DEF TypeOK
  <2>3. book' \in [Keys -> [available : Nat, frozen : Nat]]
    <3>1. book[k].available + x \in Nat
      BY <1>2
    <3>2. QED
      BY <2>1, <3>1 DEF TypeOK
  <2>4. receipts' \in [Users \X Dominators -> Receipts]
    BY <2>1 DEF TypeOK, Receipts
  <2>5. QED
    BY <2>1, <2>2, <2>3, <2>4 DEF TypeOK
<1>4. CASE RejectTransferIn(u, d)
  BY <1>4 DEF TypeOK, RejectTransferIn, Receipts
<1>5. CASE TransferOut(u, d)
  <2>1. /\ book[k].available - x \in Nat
        /\ authorizing[k] - x \in Nat
        /\ reserved[h] - x \in Nat
    BY <1>2, <1>5 DEF TransferOut, CanTransferOut
  <2>2. /\ book' = [book EXCEPT ![k].available = @ - x]
        /\ authorizing' = [authorizing EXCEPT ![k] = @ - x]
        /\ free' = [free EXCEPT ![h] = @ + x]
        /\ reserved' = [reserved EXCEPT ![h] = @ - x]
        /\ receipts' = [receipts EXCEPT ![<<u, d>>] = NoReceipt]
        /\ UNCHANGED <<status, stash, profit>>
    BY <1>5 DEF TransferOut, TakeOut
  <2>3. free' \in [Holdings -> Nat] /\ reserved' \in [Holdings -> Nat]
    <3>1. free[h] + x \in Nat
      BY <1>2
    <3>2. free' \in [Holdings -> Nat]
      BY <2>2, <3>1 DEF TypeOK
    <3>3. reserved' \in [Holdings -> Nat]
      BY <2>1, <2>2 DEF TypeOK
    <3>4. QED
      BY <3>2, <3>3
  <2>4. authorizing' \in [Keys -> Nat]
    BY <2>1, <2>2 DEF TypeOK
  <2>5. book' \in [Keys -> [available : Nat, frozen : Nat]]
    BY <2>1, <2>2 DEF TypeOK
  <2>6. receipts' \in [Users \X Dominators -> Receipts]
    BY <2>2 DEF TypeOK, Receipts
  <2>7. QED
    BY <2>2, <2>3, <2>4, <2>5, <2>6 DEF TypeOK
<1>6. CASE \E e \in Dominators, y \in Amounts : TransferOutAndAuthorize(u, d, e, y)
  <2>1. PICK e \in Dominators, y \in Nat : TransferOutAndAuthorize(u, d, e, y)
    BY <1>6, AmountAssumption
  <2> PICK l \in Keys : l = <<u, t, e>>
    BY DEF Keys
  <2>2. /\ book[k].available - x \in Nat
        /\ authorizing[k] - x \in Nat
        /\ reserved[h] - x + y \in Nat
        /\ free[h] + x - y \in Nat
    BY <1>2, <2>1 DEF TransferOutAndAuthorize, CanTransferOut
  <2>3. /\ book' = [book EXCEPT ![k].available = @ - x]
        /\ authorizing' = [authorizing EXCEPT ![k] = @ - x]
        /\ free' = [free EXCEPT ![h] = @ + x - y]
        /\ reserved' = [reserved EXCEPT ![h] = @ - x + y]
        /\ stash' = [stash EXCEPT ![l] = @ + y]
        /\ receipts' = [[receipts EXCEPT ![<<u, d>>] = NoReceipt]
                            EXCEPT ![<<u, e>>] = Receipt("Authorize", t, y)]
        /\ UNCHANGED <<status, profit>>
    BY <2>1 DEF TransferOutAndAuthorize, TakeOut
  <2>4. free' \in [Holdings -> Nat] /\ reserved' \in [Holdings -> Nat]
    BY <2>2, <2>3 DEF TypeOK
  <2>5. authorizing' \in [Keys -> Nat] /\ stash' \in [Keys -> Nat]
    <3>1. authorizing' \in [Keys -> Nat]
      BY <2>2, <2>3 DEF TypeOK
    <3>2. stash[l] + y \in Nat
      <4>1. stash[l] \in Nat
        BY DEF TypeOK
      <4>2. QED
        BY <4>1
    <3>3. stash' \in [Keys -> Nat]
      BY <2>3, <3>2 DEF TypeOK
    <3>4. QED
      BY <3>1, <3>3
  <2>6. book' \in [Keys -> [available : Nat, frozen : Nat]]
    BY <2>2, <2>3 DEF TypeOK
  <2>7. receipts' \in [Users \X Dominators -> Receipts]
    BY <2>3 DEF TypeOK, Receipts, Receipt
  <2>8. QED
    BY <2>3, <2>4, <2>5, <2>6, <2>7 DEF TypeOK
<1>7. CASE RejectTransferOut(u, d)
  BY <1>7 DEF TypeOK, RejectTransferOut, Receipts
<1>8. QED
  BY <1>3, <1>4, <1>5, <1>6, <1>7 DEF Resolve

(* A cancelled order keeps the types. *)
LEMMA CancelTypeOK ==
  ASSUME TypeOK, NEW u \in Users, NEW d \in Dominators, NEW t \in Tokens, NEW x \in Nat,
         Cancel(u, d, t, x)
  PROVE  TypeOK'
<1> PICK k \in Keys : k = <<u, t, d>>
  OBVIOUS
<1> HIDE DEF Keys, Holdings
<1>1. book[k] \in [available : Nat, frozen : Nat]
  BY DEF TypeOK
<1>2. Leaf(book[k].available + x, book[k].frozen - x) \in [available : Nat, frozen : Nat]
  BY <1>1 DEF Cancel, Leaf
<1>3. book' = [book EXCEPT ![k] = Leaf(book[k].available + x, book[k].frozen - x)]
  BY DEF Cancel
<1>4. book' \in [Keys -> [available : Nat, frozen : Nat]]
  BY <1>2, <1>3, LeafUpdate DEF TypeOK
<1>5. QED
  BY <1>4 DEF TypeOK, Cancel

(* clear writes balances. *)
LEMMA ClearTypeOK ==
  ASSUME TypeOK, NEW d \in Dominators, NEW new, DOMAIN new \subseteq Keys,
         \A k \in DOMAIN new : new[k] \in [available : Nat, frozen : Nat],
         Clear(d, new)
  PROVE  /\ book' \in [Keys -> [available : Nat, frozen : Nat]]
         /\ authorizing' \in [Keys -> Nat]
         /\ reserved' \in [Holdings -> Nat]
<1>1. \A k \in DOMAIN new : LeafSum(new[k]) \in Nat
  BY DEF LeafSum
<1>2. book' \in [Keys -> [available : Nat, frozen : Nat]]
  <2> HIDE DEF Keys, Holdings
  <2> QED
    BY DEF Clear, TypeOK
<1>3. authorizing' \in [Keys -> Nat]
  <2> HIDE DEF Keys, Holdings
  <2> QED
    BY <1>1 DEF Clear, TypeOK
<1>4. reserved' \in [Holdings -> Nat]
  <2>1. \A x, y \in Nat : SubOrZero(x, y) \in Nat
    BY DEF SubOrZero
  <2>2. \A h \in Holdings : <<h[1], h[2], d>> \in Keys
    OBVIOUS
  <2> HIDE DEF Keys, Holdings
  <2>3. \A h \in Holdings :
          SubOrZero(reserved[h], authorizing[<<h[1], h[2], d>>]) \in Nat
    BY <2>1, <2>2 DEF TypeOK
  <2>4. \A x, y \in Nat : x + y \in Nat
    OBVIOUS
  <2> HIDE DEF SubOrZero, LeafSum
  <2>5. QED
    BY <1>1, <2>3, <2>4 DEF Clear, TypeOK
<1>5. QED
  BY <1>2, <1>3, <1>4

(* A trade writes a set of well-typed leaves of its dominator's book. *)
LEMMA SettleClears ==
  ASSUME TypeOK, NEW d \in Dominators, NEW taker \in Users,
         NEW sell \in Tokens, NEW buy \in Tokens, NEW sold \in Nat, NEW rest \in Nat,
         NEW get \in [Users -> Nat], NEW give \in [Users -> Nat],
         NEW sellFee \in Nat, NEW buyFee \in Nat,
         Settle(d, taker, sell, buy, sold, rest, get, give, sellFee, buyFee)
  PROVE  \E new : /\ DOMAIN new \subseteq Keys
                  /\ \A k \in DOMAIN new : /\ k[3] = d
                                           /\ new[k] \in [available : Nat, frozen : Nat]
                  /\ Clear(d, new)
<1> DEFINE makers == {m \in Users : get[m] > 0 \/ give[m] > 0}
           leaves == {k \in Keys : /\ k[1] \in makers \cup {taker}
                                   /\ k[2] \in {sell, buy}
                                   /\ k[3] = d}
           old(k) == book[k]
           new == [k \in leaves |->
                     IF k[1] = taker
                     THEN IF k[2] = sell
                          THEN Leaf(old(k).available - sold - rest, old(k).frozen + rest)
                          ELSE Leaf(old(k).available + Total(give) - buyFee, old(k).frozen)
                     ELSE IF k[2] = sell
                          THEN Leaf(old(k).available + get[k[1]], old(k).frozen)
                          ELSE Leaf(old(k).available, old(k).frozen - give[k[1]])]
<1>1. /\ book[<<taker, sell, d>>].available >= sold + rest
      /\ \A m \in makers : book[<<m, buy, d>>].frozen >= give[m]
      /\ buyFee <= Total(give)
  BY DEF Settle
<1>2. Clear(d, new)
  BY DEF Settle
<1>3. ASSUME NEW k \in leaves
      PROVE  new[k] \in [available : Nat, frozen : Nat]
  <2>1. PICK u \in Users, t \in {sell, buy} : k = <<u, t, d>> /\ (u = taker \/ u \in makers)
    OBVIOUS
  <2>2. PICK a \in Nat, f \in Nat : a = book[k].available /\ f = book[k].frozen
    BY DEF TypeOK
  <2>3. PICK total \in Nat : total = Total(give)
    BY TotalNat
  <2>4. PICK g \in Nat, v \in Nat : g = get[u] /\ v = give[u]
    OBVIOUS
  <2>5. /\ u = taker /\ t = sell => a >= sold + rest
        /\ u # taker /\ t # sell => f >= v
        /\ buyFee <= total
    BY <1>1, <2>1, <2>2, <2>3, <2>4
  <2>6. new[k] = IF u = taker
                 THEN IF t = sell THEN Leaf(a - sold - rest, f + rest)
                      ELSE Leaf(a + total - buyFee, f)
                 ELSE IF t = sell THEN Leaf(a + g, f) ELSE Leaf(a, f - v)
    BY <2>1, <2>2, <2>3, <2>4
  <2>7. \A x, y \in Nat : Leaf(x, y) \in [available : Nat, frozen : Nat]
    BY DEF Leaf
  <2>8. a + total - buyFee \in Nat
    BY <2>5
  <2>9. u = taker /\ t = sell => a - sold - rest \in Nat
    BY <2>5
  <2>10. u # taker /\ t # sell => f - v \in Nat
    BY <2>5
  <2>11. f + rest \in Nat
    OBVIOUS
  <2> HIDE DEF new, leaves, makers
  <2>12. CASE u = taker /\ t = sell
    <3>1. new[k] = Leaf(a - sold - rest, f + rest)
      BY <2>6, <2>12
    <3>2. QED
      BY <2>7, <2>9, <2>11, <2>12, <3>1
  <2>13. CASE u = taker /\ t # sell
    <3>1. new[k] = Leaf(a + total - buyFee, f)
      BY <2>6, <2>13
    <3>2. QED
      BY <2>7, <2>8, <3>1
  <2>14. CASE u # taker /\ t = sell
    <3>1. new[k] = Leaf(a + g, f)
      BY <2>6, <2>14
    <3>2. Leaf(a + g, f) \in [available : Nat, frozen : Nat]
      BY DEF Leaf
    <3>3. QED
      BY <3>1, <3>2
  <2>15. CASE u # taker /\ t # sell
    <3>1. new[k] = Leaf(a, f - v)
      BY <2>6, <2>15
    <3>2. QED
      BY <2>7, <2>10, <2>15, <3>1
  <2>16. QED
    BY <2>12, <2>13, <2>14, <2>15
<1>4. DOMAIN new = leaves /\ leaves \subseteq Keys /\ \A k \in leaves : k[3] = d
  OBVIOUS
<1> HIDE DEF new, leaves
<1>5. QED
  BY <1>2, <1>3, <1>4

(* A trade, as both kinds of limit order use it. *)
TradeAt(d) ==
  \E taker \in Users, sell \in Tokens, buy \in Tokens, sold \in Nat, rest \in Nat,
     get \in [Users -> Nat], give \in [Users -> Nat], sellFee \in Nat, buyFee \in Nat :
       Settle(d, taker, sell, buy, sold, rest, get, give, sellFee, buyFee)

(* A trade, and its fees: the fee in the base goes to accounts, the fee in *)
(* the quote is put aside, whichever of the two the taker sells.           *)
Trades == [taker : Users, sell : Tokens, buy : Tokens, sold : Nat, rest : Nat,
           get : [Users -> Nat], give : [Users -> Nat], sellFee : Nat, buyFee : Nat]

Settled(d, x) ==
  Settle(d, x.taker, x.sell, x.buy, x.sold, x.rest, x.get, x.give, x.sellFee, x.buyFee)

Charged(d, x) ==
  \E m \in Markets, broker \in Brokers \cup {0} :
    \/ /\ x.sell = m[1] /\ x.buy = m[2]
       /\ PayBaseFee(d, x.sell, x.sellFee, broker) /\ PutProfit(d, x.buy, x.buyFee)
    \/ /\ x.sell = m[2] /\ x.buy = m[1]
       /\ PayBaseFee(d, x.buy, x.buyFee, broker) /\ PutProfit(d, x.sell, x.sellFee)

LEMMA LimitOrders ==
  ASSUME NEW d \in Dominators, Match(d)
  PROVE  \/ \E u \in Users, t \in Tokens, x \in Nat : Cancel(u, d, t, x)
         \/ /\ \E x \in Trades : Settled(d, x) /\ Charged(d, x)
            /\ UNCHANGED <<status, receipts, stash>>
<1>1. CASE \E u \in Users, t \in Tokens, x \in OrderAmounts : Cancel(u, d, t, x)
  BY <1>1, AmountAssumption
<1>2. ASSUME NEW taker \in Users, NEW m \in Markets, NEW sold \in OrderAmounts,
             NEW rest \in OrderAmounts, NEW plan \in FillPlans,
             NEW makerFee \in FeeRates, NEW takerFee \in FeeRates,
             NEW broker \in Brokers \cup {0}
      PROVE  /\ m[1] \in Tokens /\ m[2] \in Tokens /\ sold \in Nat /\ rest \in Nat
             /\ plan.get \in [Users -> Nat] /\ plan.give \in [Users -> Nat]
             /\ MulCeil(makerFee, sold) \in Nat
             /\ MulCeil(takerFee, Total(plan.give)) \in Nat
  <2>1. m[1] \in Tokens /\ m[2] \in Tokens /\ sold \in Nat /\ rest \in Nat
    BY TokenAssumption, AmountAssumption
  <2>2. plan.get \in [Users -> Nat] /\ plan.give \in [Users -> Nat]
    BY FillAssumption
  <2>3. Total(plan.give) \in Nat
    BY <2>2, TotalNat
  <2>4. makerFee \in Nat /\ takerFee \in Nat
    BY FeeAssumption
  <2>5. QED
    BY <2>1, <2>2, <2>3, <2>4, MulCeilNat
<1>3. CASE ~ \E u \in Users, t \in Tokens, x \in OrderAmounts : Cancel(u, d, t, x)
  <2>1. PICK taker \in Users, m \in Markets, sold \in OrderAmounts, rest \in OrderAmounts,
             plan \in FillPlans, makerFee \in FeeRates, takerFee \in FeeRates,
             broker \in Brokers \cup {0} :
               \/ AskLimit(d, taker, m[1], m[2], sold, rest, plan.get, plan.give,
                           makerFee, takerFee, broker)
               \/ BidLimit(d, taker, m[1], m[2], sold, rest, plan.get, plan.give,
                           makerFee, takerFee, broker)
    BY <1>3, Zenon DEF Match
  <2> PICK f \in Nat, g \in Nat : /\ f = MulCeil(makerFee, sold)
                                  /\ g = MulCeil(takerFee, Total(plan.give))
    BY <1>2
  <2>2. CASE AskLimit(d, taker, m[1], m[2], sold, rest, plan.get, plan.give,
                      makerFee, takerFee, broker)
    <3> DEFINE x == [taker |-> taker, sell |-> m[1], buy |-> m[2], sold |-> sold, rest |-> rest,
                     get |-> plan.get, give |-> plan.give, sellFee |-> f, buyFee |-> g]
    <3>1. /\ x.taker = taker /\ x.sell = m[1] /\ x.buy = m[2] /\ x.sold = sold /\ x.rest = rest
          /\ x.get = plan.get /\ x.give = plan.give /\ x.sellFee = f /\ x.buyFee = g
      OBVIOUS
    <3>2. x \in Trades
      BY <1>2 DEF Trades
    <3> HIDE DEF x
    <3>3. Settled(d, x)
      BY <2>2, <3>1, Zenon DEF AskLimit, verify_ask_limit, Settled
    <3>4. Charged(d, x)
      BY <2>2, <3>1, Zenon DEF AskLimit, Charged
    <3>5. UNCHANGED <<status, receipts, stash>>
      BY <2>2 DEF AskLimit
    <3>6. QED
      BY <3>2, <3>3, <3>4, <3>5
  <2>3. CASE BidLimit(d, taker, m[1], m[2], sold, rest, plan.get, plan.give,
                      makerFee, takerFee, broker)
    <3> DEFINE x == [taker |-> taker, sell |-> m[2], buy |-> m[1], sold |-> sold, rest |-> rest,
                     get |-> plan.get, give |-> plan.give, sellFee |-> f, buyFee |-> g]
    <3>1. /\ x.taker = taker /\ x.sell = m[2] /\ x.buy = m[1] /\ x.sold = sold /\ x.rest = rest
          /\ x.get = plan.get /\ x.give = plan.give /\ x.sellFee = f /\ x.buyFee = g
      OBVIOUS
    <3>2. x \in Trades
      BY <1>2 DEF Trades
    <3> HIDE DEF x
    <3>3. Settled(d, x)
      BY <2>3, <3>1, Zenon DEF BidLimit, verify_bid_limit, Settled
    <3>4. Charged(d, x)
      BY <2>3, <3>1, Zenon DEF BidLimit, Charged
    <3>5. UNCHANGED <<status, receipts, stash>>
      BY <2>3 DEF BidLimit
    <3>6. QED
      BY <3>2, <3>3, <3>4, <3>5
  <2>4. QED
    BY <2>1, <2>2, <2>3
<1>4. QED
  BY <1>1, <1>3

(* What a limit order of either side does: it settles, puts the quote fee  *)
(* aside and pays the base fee.                                            *)
LEMMA MatchCases ==
  ASSUME NEW d \in Dominators, Match(d)
  PROVE  \/ \E u \in Users, t \in Tokens, x \in Nat : Cancel(u, d, t, x)
         \/ /\ TradeAt(d)
            /\ \E b \in Tokens, q \in Tokens, fee \in Nat, put \in Nat,
                  broker \in Brokers \cup {0} :
                   PayBaseFee(d, b, fee, broker) /\ PutProfit(d, q, put)
            /\ UNCHANGED <<status, receipts, stash>>
<1>1. CASE /\ \E x \in Trades : Settled(d, x) /\ Charged(d, x)
           /\ UNCHANGED <<status, receipts, stash>>
  <2>1. PICK x \in Trades : Settled(d, x) /\ Charged(d, x)
    BY <1>1
  <2>2. /\ x.taker \in Users /\ x.sell \in Tokens /\ x.buy \in Tokens
        /\ x.sold \in Nat /\ x.rest \in Nat /\ x.sellFee \in Nat /\ x.buyFee \in Nat
        /\ x.get \in [Users -> Nat] /\ x.give \in [Users -> Nat]
    BY DEF Trades
  <2>3. TradeAt(d)
    BY <2>1, <2>2, Zenon DEF TradeAt, Settled
  <2>4. \E b \in Tokens, q \in Tokens, fee \in Nat, put \in Nat, broker \in Brokers \cup {0} :
          PayBaseFee(d, b, fee, broker) /\ PutProfit(d, q, put)
    BY <2>1, <2>2, Zenon DEF Charged
  <2>5. QED
    BY <1>1, <2>3, <2>4
<1>2. QED
  BY <1>1, LimitOrders

(* The base fee goes to accounts whole. *)
LEMMA PayBaseFeeTypeOK ==
  ASSUME TypeOK, NEW d \in Dominators, NEW b, NEW fee \in Nat, NEW broker,
         PayBaseFee(d, b, fee, broker)
  PROVE  free' \in [Holdings -> Nat]
<1> DEFINE half == IF broker = 0 THEN 0 ELSE (fee + 1) \div 2
           paid(u) == (IF u = broker THEN half ELSE 0)
                      + (IF u = Beneficiary[d] THEN fee - half ELSE 0)
<1>1. half \in Nat /\ fee - half \in Nat
  OBVIOUS
<1> HIDE DEF half
<1>2. \A u \in Users : paid(u) \in Nat
  BY <1>1
<1>3. free' = [h \in Holdings |-> IF h[2] = b THEN free[h] + paid(h[1]) ELSE free[h]]
  BY DEF PayBaseFee, half
<1> HIDE DEF paid
<1>4. ASSUME NEW h \in Holdings
      PROVE  free[h] \in Nat /\ free[h] + paid(h[1]) \in Nat
  <2>1. free[h] \in Nat
    BY DEF TypeOK
  <2>2. paid(h[1]) \in Nat
    BY <1>2
  <2>3. QED
    BY <2>1, <2>2
<1> HIDE DEF Holdings
<1>5. QED
  BY <1>3, <1>4

(* Cancelling and trading keep the types. *)
LEMMA MatchTypeOK ==
  ASSUME TypeOK, NEW d \in Dominators, Match(d)
  PROVE  TypeOK'
<1>1. CASE \E u \in Users, t \in Tokens, x \in Nat : Cancel(u, d, t, x)
  BY <1>1, CancelTypeOK
<1>2. CASE /\ TradeAt(d)
           /\ \E b \in Tokens, q \in Tokens, fee \in Nat, put \in Nat,
                  broker \in Brokers \cup {0} :
                  PayBaseFee(d, b, fee, broker) /\ PutProfit(d, q, put)
           /\ UNCHANGED <<status, receipts, stash>>
  <2>1. PICK b \in Tokens, q \in Tokens, fee \in Nat, put \in Nat,
                  broker \in Brokers \cup {0} :
          PayBaseFee(d, b, fee, broker) /\ PutProfit(d, q, put)
    BY <1>2
  <2>2. PICK new : /\ DOMAIN new \subseteq Keys
                   /\ \A k \in DOMAIN new : /\ k[3] = d
                                            /\ new[k] \in [available : Nat, frozen : Nat]
                   /\ Clear(d, new)
    BY <1>2, SettleClears, Zenon DEF TradeAt
  <2>3. /\ book' \in [Keys -> [available : Nat, frozen : Nat]]
        /\ authorizing' \in [Keys -> Nat]
        /\ reserved' \in [Holdings -> Nat]
    BY <2>2, ClearTypeOK
  <2>4. free' \in [Holdings -> Nat]
    BY <2>1, PayBaseFeeTypeOK
  <2>5. profit' \in [Tokens \X Dominators -> Nat]
    <3>1. profit[<<q, d>>] \in Nat
      BY DEF TypeOK
    <3>2. profit[<<q, d>>] + put \in Nat
      BY <3>1
    <3>3. QED
      BY <2>1, <3>2 DEF PutProfit, TypeOK
  <2>6. QED
    BY <1>2, <2>3, <2>4, <2>5 DEF TypeOK
<1>3. QED
  BY <1>1, <1>2, MatchCases

(* Every step of the system keeps the types. *)
LEMMA NextTypeOK ==
  ASSUME TypeOK, [Next]_vars
  PROVE  TypeOK'
<1>1. CASE UNCHANGED vars
  BY <1>1 DEF TypeOK, vars
<1>2. ASSUME NEW d \in Dominators,
             \/ Governance(d)
             \/ \E u \in Users : UserCall(u, d) \/ Resolve(u, d)
             \/ Match(d)
      PROVE  TypeOK'
  BY <1>2, GovernanceTypeOK, UserCallTypeOK, ResolveTypeOK, MatchTypeOK
<1>3. QED
  BY <1>1, <1>2 DEF Next

(* Every balance, reserve, book entry and fee of the verifier stays a      *)
(* natural number, so no subtraction of a call or a proof goes below zero. *)
THEOREM TypeCorrect == Spec => []TypeOK
<1>1. Init => TypeOK
  BY InitTypeOK
<1>2. TypeOK /\ [Next]_vars => TypeOK'
  BY NextTypeOK
<1>3. QED
  BY <1>1, <1>2, PTL DEF Spec

-----------------------------------------------------------------------------
(* What the chain's records have to do with the matcher's book and with    *)
(* the token pallet.  The invariant is Custodial: the book equals the      *)
(* reserves at a dominator that is not evicted, the stash covers the       *)
(* Authorize receipt that is pending, and the reserved balance covers the  *)
(* Reserves entries.                                                       *)

(* The claims of a holding, by dominator, and their sum. *)
Claim(u, t, d) == authorizing[<<u, t, d>>] + stash[<<u, t, d>>]
ClaimsByDominator(u, t) == [d \in Dominators |-> Claim(u, t, d)]

(* Claims is the sum of these, before and after a step. *)
LEMMA ClaimsAre ==
  /\ \A u, t : Claims(u, t) = SumTo(ClaimsByDominator(u, t), NDominators)
  /\ \A u, t : Claims(u, t)' = SumTo(ClaimsByDominator(u, t)', NDominators)
BY DEF Claims, ClaimsByDominator, Claim

(* A claim is a natural number. *)
LEMMA ClaimNat ==
  ASSUME TypeOK, NEW u \in Users, NEW t \in Tokens
  PROVE  /\ \A d \in Dominators : Claim(u, t, d) \in Nat
         /\ ClaimsByDominator(u, t) \in [1..NDominators -> Nat]
<1>1. ASSUME NEW d \in Dominators
      PROVE  Claim(u, t, d) \in Nat
  <2>1. authorizing[<<u, t, d>>] \in Nat /\ stash[<<u, t, d>>] \in Nat
    BY DEF TypeOK
  <2>2. QED
    BY <2>1 DEF Claim
<1>2. QED
  BY <1>1 DEF ClaimsByDominator

(* The same after a step. *)
LEMMA ClaimNatPrimed ==
  ASSUME TypeOK', NEW u \in Users, NEW t \in Tokens
  PROVE  /\ \A d \in Dominators : Claim(u, t, d)' \in Nat
         /\ ClaimsByDominator(u, t)' \in [1..NDominators -> Nat]
<1>1. ASSUME NEW d \in Dominators
      PROVE  Claim(u, t, d)' \in Nat
  <2>1. authorizing'[<<u, t, d>>] \in Nat /\ stash'[<<u, t, d>>] \in Nat
    BY DEF TypeOK
  <2>2. QED
    BY <2>1 DEF Claim
<1>2. QED
  BY <1>1 DEF ClaimsByDominator

(* Each claim is within the claims of its holding. *)
LEMMA ClaimWithinClaims ==
  ASSUME TypeOK, NEW u \in Users, NEW t \in Tokens
  PROVE  /\ Claims(u, t) \in Nat
         /\ \A d \in Dominators : Claim(u, t, d) <= Claims(u, t)
<1> DEFINE f == ClaimsByDominator(u, t)
<1>1. f \in [1..NDominators -> Nat]
  BY ClaimNat
<1>2. \A d \in Dominators : f[d] = Claim(u, t, d)
  BY DEF ClaimsByDominator
<1>3. Claims(u, t) = SumTo(f, NDominators)
  BY ClaimsAre
<1> HIDE DEF f
<1>4. SumTo(f, NDominators) \in Nat /\ \A d \in 1..NDominators : f[d] <= SumTo(f, NDominators)
  BY <1>1, CountAssumption, SumToNat
<1>5. QED
  BY <1>2, <1>3, <1>4

(* Claims that change at dominator d only. *)
LEMMA ClaimsChangeAt ==
  ASSUME TypeOK, TypeOK', NEW u \in Users, NEW t \in Tokens, NEW d \in Dominators,
         \A c \in Dominators : c # d => Claim(u, t, c)' = Claim(u, t, c)
  PROVE  Claims(u, t)' = Claims(u, t) + Claim(u, t, d)' - Claim(u, t, d)
<1> PICK f \in [1..NDominators -> Nat] : f = ClaimsByDominator(u, t)
  BY ClaimNat
<1> PICK h \in [1..NDominators -> Nat] : h = ClaimsByDominator(u, t)'
  BY ClaimNatPrimed
<1>1. \A c \in 1..NDominators : f[c] = Claim(u, t, c) /\ h[c] = Claim(u, t, c)'
  BY DEF ClaimsByDominator
<1>2. \A c \in 1..NDominators : c # d => h[c] = f[c]
  BY <1>1
<1>3. f \in [1..NDominators -> Int] /\ h \in [1..NDominators -> Int]
  OBVIOUS
<1>4. SumTo(h, NDominators) = SumTo(f, NDominators) + h[d] - f[d]
  BY <1>2, <1>3, CountAssumption, SumToChange
<1>5. Claims(u, t) = SumTo(f, NDominators) /\ Claims(u, t)' = SumTo(h, NDominators)
  BY ClaimsAre
<1>6. QED
  BY <1>1, <1>4, <1>5

(* Claims that change at dominators d and e only. *)
LEMMA ClaimsChange ==
  ASSUME TypeOK, TypeOK', NEW u \in Users, NEW t \in Tokens,
         NEW d \in Dominators, NEW e \in Dominators, d # e,
         \A c \in Dominators : c # d /\ c # e => Claim(u, t, c)' = Claim(u, t, c)
  PROVE  Claims(u, t)' = Claims(u, t) + Claim(u, t, d)' - Claim(u, t, d)
                                      + Claim(u, t, e)' - Claim(u, t, e)
<1> PICK f \in [1..NDominators -> Nat] : f = ClaimsByDominator(u, t)
  BY ClaimNat
<1> PICK h \in [1..NDominators -> Nat] : h = ClaimsByDominator(u, t)'
  BY ClaimNatPrimed
<1>1. \A c \in 1..NDominators : f[c] = Claim(u, t, c) /\ h[c] = Claim(u, t, c)'
  BY DEF ClaimsByDominator
<1>2. \A c \in 1..NDominators : c # d /\ c # e => h[c] = f[c]
  BY <1>1
<1>3. f \in [1..NDominators -> Int] /\ h \in [1..NDominators -> Int]
  OBVIOUS
<1>4. SumTo(h, NDominators) = SumTo(f, NDominators) + h[d] - f[d] + h[e] - f[e]
  BY <1>2, <1>3, CountAssumption, SumToChangeTwo
<1>5. Claims(u, t) = SumTo(f, NDominators) /\ Claims(u, t)' = SumTo(h, NDominators)
  BY ClaimsAre
<1>6. QED
  BY <1>1, <1>4, <1>5

(* A step that changes a claim at one dominator only, and what is reserved *)
(* by as much, strands nothing.                                            *)
LEMMA StrandedKept ==
  ASSUME TypeOK, TypeOK', NEW u \in Users, NEW t \in Tokens, NEW d \in Dominators,
         \A c \in Dominators : c # d => Claim(u, t, c)' = Claim(u, t, c),
         reserved'[<<u, t>>] - Claim(u, t, d)' = reserved[<<u, t>>] - Claim(u, t, d)
  PROVE  Stranded(u, t)' = Stranded(u, t)
<1>1. Claims(u, t)' = Claims(u, t) + Claim(u, t, d)' - Claim(u, t, d)
  BY ClaimsChangeAt
<1>2. Claims(u, t) \in Nat /\ Claim(u, t, d) \in Nat /\ Claim(u, t, d)' \in Nat
  BY ClaimNat, ClaimNatPrimed, ClaimWithinClaims
<1>3. reserved[<<u, t>>] \in Nat /\ reserved'[<<u, t>>] \in Nat
  BY DEF TypeOK
<1>4. QED
  BY <1>1, <1>2, <1>3 DEF Stranded

-----------------------------------------------------------------------------
(* What each call and each proof does to the stranded funds. *)

(* Calls of users strand nothing. *)
LEMMA UserCallStrandsNothing ==
  ASSUME TypeOK, TypeOK', NEW v \in Users, NEW d \in Dominators, UserCall(v, d),
         NEW u \in Users, NEW t \in Tokens
  PROVE  Stranded(u, t)' = Stranded(u, t)
<1>1. PICK c \in Tokens, x \in Amounts :
        \/ AuthorizeTo(v, d, c, x)
        \/ \E kind \in RevokeKinds : RevokeFrom(v, d, c, x, kind)
        \/ RevokeFromEvicted(v, d, c, x)
  BY DEF UserCall
<1> PICK a \in Nat, s \in Nat, r \in Nat :
        a = authorizing[<<u, t, d>>] /\ s = stash[<<u, t, d>>] /\ r = reserved[<<u, t>>]
  BY DEF TypeOK
<1>2. x \in Nat /\ Claim(u, t, d) = a + s
  BY AmountAssumption DEF Claim
<1>3. CASE AuthorizeTo(v, d, c, x)
  <2>1. \A e \in Dominators : e # d => Claim(u, t, e)' = Claim(u, t, e)
    BY <1>3 DEF AuthorizeTo, TypeOK, Claim
  <2>2. \/ Claim(u, t, d)' = a + s + x /\ reserved'[<<u, t>>] = r + x
        \/ Claim(u, t, d)' = a + s /\ reserved'[<<u, t>>] = r
    <3>1. CASE v = u /\ c = t
      BY <1>2, <1>3, <3>1 DEF AuthorizeTo, TypeOK, Claim
    <3>2. CASE ~(v = u /\ c = t)
      BY <1>3, <3>2 DEF AuthorizeTo, TypeOK, Claim
    <3>3. QED
      BY <3>1, <3>2
  <2>3. QED
    BY <1>2, <2>1, <2>2, StrandedKept
<1>4. CASE \E kind \in RevokeKinds : RevokeFrom(v, d, c, x, kind)
  BY <1>4 DEF RevokeFrom, Stranded, Claims
<1>5. CASE RevokeFromEvicted(v, d, c, x)
  <2>1. \A e \in Dominators : e # d => Claim(u, t, e)' = Claim(u, t, e)
    BY <1>5 DEF RevokeFromEvicted, TypeOK, Claim
  <2>2. \/ Claim(u, t, d)' = a + s - x /\ reserved'[<<u, t>>] = r - x
        \/ Claim(u, t, d)' = a + s /\ reserved'[<<u, t>>] = r
    <3>1. CASE v = u /\ c = t
      BY <1>2, <1>5, <3>1 DEF RevokeFromEvicted, PayOut, TypeOK, Claim
    <3>2. CASE ~(v = u /\ c = t)
      BY <1>5, <3>2 DEF RevokeFromEvicted, PayOut, TypeOK, Claim
    <3>3. QED
      BY <3>1, <3>2
  <2>3. QED
    BY <1>2, <2>1, <2>2, StrandedKept
<1>6. QED
  BY <1>1, <1>3, <1>4, <1>5

(* TransferIn strands what the stash holds beyond the receipt's amount. *)
LEMMA TransferInStrandsExcess ==
  ASSUME TypeOK, TypeOK', StashCoversReceipt,
         NEW v \in Users, NEW d \in Dominators, TransferIn(v, d),
         NEW u \in Users, NEW t \in Tokens
  PROVE  Stranded(u, t)' = Stranded(u, t) \/ StrandsExcess(u, t, d)
<1>1. receipts[<<v, d>>].kind # "None"
  BY DEF TransferIn
<1> PICK c \in Tokens, x \in Nat : c = receipts[<<v, d>>].token /\ x = receipts[<<v, d>>].amount
  BY <1>1, PendingReceipt
<1> PICK a \in Nat, s \in Nat, r \in Nat :
        a = authorizing[<<u, t, d>>] /\ s = stash[<<u, t, d>>] /\ r = reserved[<<u, t>>]
  BY DEF TypeOK
<1>2. Claim(u, t, d) = a + s
  BY DEF Claim
<1>3. \A e \in Dominators : e # d => Claim(u, t, e)' = Claim(u, t, e)
  BY DEF TransferIn, TypeOK, Claim
<1>4. reserved'[<<u, t>>] = r
  BY DEF TransferIn
<1>5. CASE v = u /\ c = t
  <2>1. Claim(u, t, d)' = a + x
    <3>1. /\ authorizing' = [authorizing EXCEPT ![<<u, t, d>>] = @ + x]
          /\ stash' = [stash EXCEPT ![<<u, t, d>>] = 0]
      BY <1>5 DEF TransferIn
    <3>2. authorizing'[<<u, t, d>>] = a + x /\ stash'[<<u, t, d>>] = 0
      BY <3>1 DEF TypeOK
    <3>3. QED
      BY <3>2 DEF Claim
  <2>2. s >= x
    BY <1>5 DEF TransferIn, StashCoversReceipt
  <2>3. Claims(u, t)' = Claims(u, t) + Claim(u, t, d)' - Claim(u, t, d)
    BY <1>3, ClaimsChangeAt
  <2>4. Claims(u, t) \in Nat
    BY ClaimWithinClaims
  <2>5. Stranded(u, t)' = Stranded(u, t) + s - x
    BY <1>2, <1>4, <2>1, <2>3, <2>4 DEF Stranded
  <2>6. Stranded(u, t) \in Int
    BY <2>4 DEF Stranded
  <2>7. CASE s = x
    BY <2>5, <2>6, <2>7
  <2>8. CASE s > x
    <3>1. receipts[<<u, d>>].kind = "Authorize" /\ receipts'[<<u, d>>] = NoReceipt
      BY <1>5 DEF TransferIn, TypeOK
    <3>2. QED
      BY <1>5, <2>5, <2>8, <3>1 DEF StrandsExcess
  <2>9. QED
    BY <2>2, <2>7, <2>8
<1>6. CASE ~(v = u /\ c = t)
  <2>1. Claim(u, t, d)' = Claim(u, t, d)
    BY <1>6 DEF TransferIn, TypeOK, Claim
  <2>2. QED
    BY <1>3, <1>4, <2>1, StrandedKept
<1>7. QED
  BY <1>5, <1>6

(* What a TransferOut takes from a claim it takes from the reserved balance. *)
LEMMA TransferOutStrandsNothing ==
  ASSUME TypeOK, TypeOK', NEW v \in Users, NEW d \in Dominators, TransferOut(v, d),
         NEW u \in Users, NEW t \in Tokens
  PROVE  Stranded(u, t)' = Stranded(u, t)
<1>1. receipts[<<v, d>>].kind # "None"
  BY DEF TransferOut, CanTransferOut, RevokeKinds
<1> PICK c \in Tokens, x \in Nat : c = receipts[<<v, d>>].token /\ x = receipts[<<v, d>>].amount
  BY <1>1, PendingReceipt
<1> PICK a \in Nat, s \in Nat, r \in Nat :
        a = authorizing[<<u, t, d>>] /\ s = stash[<<u, t, d>>] /\ r = reserved[<<u, t>>]
  BY DEF TypeOK
<1>2. Claim(u, t, d) = a + s
  BY DEF Claim
<1>3. /\ authorizing' = [authorizing EXCEPT ![<<v, c, d>>] = @ - x]
      /\ reserved' = [reserved EXCEPT ![<<v, c>>] = @ - x]
      /\ stash' = stash
  BY DEF TransferOut, TakeOut
<1>4. \A e \in Dominators : e # d => Claim(u, t, e)' = Claim(u, t, e)
  BY <1>3 DEF TypeOK, Claim
<1>5. \/ Claim(u, t, d)' = a - x + s /\ reserved'[<<u, t>>] = r - x
      \/ Claim(u, t, d)' = a + s /\ reserved'[<<u, t>>] = r
  <2>1. CASE v = u /\ c = t
    BY <1>3, <2>1 DEF TypeOK, Claim
  <2>2. CASE ~(v = u /\ c = t)
    BY <1>3, <2>2 DEF TypeOK, Claim
  <2>3. QED
    BY <2>1, <2>2
<1>6. QED
  BY <1>2, <1>4, <1>5, StrandedKept

(* Nor does one whose callback authorizes again: what it reserves is the   *)
(* new stash.                                                              *)
LEMMA TransferOutAndAuthorizeStrandsNothing ==
  ASSUME TypeOK, TypeOK', NEW v \in Users, NEW d \in Dominators,
         NEW e \in Dominators, NEW y \in Nat, TransferOutAndAuthorize(v, d, e, y),
         NEW u \in Users, NEW t \in Tokens
  PROVE  Stranded(u, t)' = Stranded(u, t)
<1>1. receipts[<<v, d>>].kind # "None"
  BY DEF TransferOutAndAuthorize, CanTransferOut
<1> PICK c \in Tokens, x \in Nat : c = receipts[<<v, d>>].token /\ x = receipts[<<v, d>>].amount
  BY <1>1, PendingReceipt
<1>2. /\ authorizing' = [authorizing EXCEPT ![<<v, c, d>>] = @ - x]
      /\ reserved' = [reserved EXCEPT ![<<v, c>>] = @ - x + y]
      /\ stash' = [stash EXCEPT ![<<v, c, e>>] = @ + y]
  BY DEF TransferOutAndAuthorize, TakeOut
<1>3. /\ authorizing[<<u, t, d>>] \in Nat /\ stash[<<u, t, d>>] \in Nat
      /\ authorizing[<<u, t, e>>] \in Nat /\ stash[<<u, t, e>>] \in Nat
      /\ reserved[<<u, t>>] \in Nat
  BY DEF TypeOK
<1>4. CASE ~(v = u /\ c = t)
  <2>1. /\ \A f \in Dominators : Claim(u, t, f)' = Claim(u, t, f)
        /\ reserved'[<<u, t>>] = reserved[<<u, t>>]
    BY <1>2, <1>4 DEF TypeOK, Claim
  <2>2. QED
    BY <2>1, StrandedKept
<1>5. CASE v = u /\ c = t /\ d = e
  <2>1. \A f \in Dominators : f # d => Claim(u, t, f)' = Claim(u, t, f)
    BY <1>2, <1>5 DEF TypeOK, Claim
  <2>2. /\ authorizing'[<<u, t, d>>] = authorizing[<<u, t, d>>] - x
        /\ stash'[<<u, t, d>>] = stash[<<u, t, d>>] + y
        /\ reserved'[<<u, t>>] = reserved[<<u, t>>] - x + y
    BY <1>2, <1>5 DEF TypeOK
  <2>3. reserved'[<<u, t>>] - Claim(u, t, d)' = reserved[<<u, t>>] - Claim(u, t, d)
    BY <1>3, <2>2 DEF Claim
  <2>4. QED
    BY <2>1, <2>3, StrandedKept
<1>6. CASE v = u /\ c = t /\ d # e
  <2>1. \A f \in Dominators : f # d /\ f # e => Claim(u, t, f)' = Claim(u, t, f)
    BY <1>2, <1>6 DEF TypeOK, Claim
  <2>2. /\ authorizing'[<<u, t, d>>] = authorizing[<<u, t, d>>] - x
        /\ stash'[<<u, t, d>>] = stash[<<u, t, d>>]
        /\ authorizing'[<<u, t, e>>] = authorizing[<<u, t, e>>]
        /\ stash'[<<u, t, e>>] = stash[<<u, t, e>>] + y
        /\ reserved'[<<u, t>>] = reserved[<<u, t>>] - x + y
    BY <1>2, <1>6 DEF TypeOK
  <2>3. Claims(u, t)' = Claims(u, t) + Claim(u, t, d)' - Claim(u, t, d)
                                      + Claim(u, t, e)' - Claim(u, t, e)
    BY <1>6, <2>1, ClaimsChange
  <2>4. /\ Claim(u, t, d)' = Claim(u, t, d) - x /\ Claim(u, t, d) \in Nat
        /\ Claim(u, t, e)' = Claim(u, t, e) + y /\ Claim(u, t, e) \in Nat
    BY <1>3, <2>2 DEF Claim
  <2>5. Claims(u, t) \in Nat
    BY ClaimWithinClaims
  <2>6. Claims(u, t)' = Claims(u, t) - x + y
    BY <2>3, <2>4, <2>5
  <2>7. QED
    BY <1>3, <2>2, <2>5, <2>6 DEF Stranded
<1>7. QED
  BY <1>4, <1>5, <1>6

(* A trade moves the reserve and the reserved balance by the same amount.  *)
LEMMA ClearStrandsNothing ==
  ASSUME TypeOK, TypeOK', ReservedCoversClaims, NEW d \in Dominators, NEW new,
         \A k \in DOMAIN new : k[3] = d /\ new[k] \in [available : Nat, frozen : Nat],
         Clear(d, new), UNCHANGED stash,
         NEW u \in Users, NEW t \in Tokens
  PROVE  Stranded(u, t)' = Stranded(u, t)
<1> PICK a \in Nat, s \in Nat, r \in Nat :
        a = authorizing[<<u, t, d>>] /\ s = stash[<<u, t, d>>] /\ r = reserved[<<u, t>>]
  BY DEF TypeOK
<1>1. Claim(u, t, d) = a + s /\ Claim(u, t, d)' = authorizing'[<<u, t, d>>] + s
  BY DEF Claim
<1>2. r >= a
  <2>1. Claim(u, t, d) <= Claims(u, t) /\ Claims(u, t) \in Nat
    BY ClaimWithinClaims
  <2>2. r >= Claims(u, t)
    BY DEF ReservedCoversClaims
  <2>3. QED
    BY <1>1, <2>1, <2>2
<1>3. authorizing' = [k \in Keys |-> IF k \in DOMAIN new THEN LeafSum(new[k]) ELSE authorizing[k]]
  BY DEF Clear
<1>4. reserved'[<<u, t>>] = IF <<u, t, d>> \in DOMAIN new
                            THEN SubOrZero(reserved[<<u, t>>], authorizing[<<u, t, d>>])
                                   + LeafSum(new[<<u, t, d>>])
                            ELSE reserved[<<u, t>>]
  BY DEF Clear
<1>5. \A e \in Dominators : e # d => Claim(u, t, e)' = Claim(u, t, e)
  BY <1>3 DEF Claim
<1>6. CASE <<u, t, d>> \in DOMAIN new
  <2>1. PICK x \in Nat : x = LeafSum(new[<<u, t, d>>])
    BY <1>6 DEF LeafSum
  <2>2. authorizing'[<<u, t, d>>] = x
    BY <1>3, <1>6, <2>1
  <2>3. reserved'[<<u, t>>] = r - a + x
    BY <1>2, <1>4, <1>6, <2>1 DEF SubOrZero
  <2>4. QED
    BY <1>1, <1>5, <2>2, <2>3, StrandedKept
<1>7. CASE <<u, t, d>> \notin DOMAIN new
  <2>1. authorizing'[<<u, t, d>>] = a /\ reserved'[<<u, t>>] = r
    BY <1>3, <1>4, <1>7
  <2>2. QED
    BY <1>1, <1>5, <2>1, StrandedKept
<1>8. QED
  BY <1>6, <1>7

(* Cancelling and trading strand nothing. *)
LEMMA MatchStrandsNothing ==
  ASSUME TypeOK, TypeOK', ReservedCoversClaims, NEW d \in Dominators, Match(d),
         NEW u \in Users, NEW t \in Tokens
  PROVE  Stranded(u, t)' = Stranded(u, t)
<1>1. CASE \E v \in Users, c \in Tokens, x \in Nat : Cancel(v, d, c, x)
  BY <1>1 DEF Cancel, Stranded, Claims
<1>2. CASE TradeAt(d) /\ UNCHANGED stash
  <2>1. PICK new : /\ DOMAIN new \subseteq Keys
                   /\ \A k \in DOMAIN new : /\ k[3] = d
                                            /\ new[k] \in [available : Nat, frozen : Nat]
                   /\ Clear(d, new)
    BY <1>2, SettleClears, Zenon DEF TradeAt
  <2>2. QED
    BY <1>2, <2>1, ClearStrandsNothing
<1>3. QED
  BY <1>1, <1>2, MatchCases

(* The only step that strands funds is a TransferIn, at a dominator that   *)
(* is online.                                                              *)
LEMMA StrandedStep ==
  ASSUME TypeOK, StashCoversReceipt, ReservedCoversClaims, [Next]_vars,
         NEW u \in Users, NEW t \in Tokens
  PROVE  \/ Stranded(u, t)' = Stranded(u, t)
         \/ \E d \in Dominators : status[d] = "Active" /\ StrandsExcess(u, t, d)
<1>1. TypeOK'
  BY NextTypeOK
<1>2. CASE UNCHANGED vars
  BY <1>2 DEF vars, Stranded, Claims
<1>3. ASSUME NEW d \in Dominators, Governance(d)
      PROVE  Stranded(u, t)' = Stranded(u, t)
  BY <1>3 DEF Governance, Register, Launch, Evict, Online, Offline, SetStatus, funds,
              Stranded, Claims
<1>4. ASSUME NEW d \in Dominators, NEW v \in Users, UserCall(v, d)
      PROVE  Stranded(u, t)' = Stranded(u, t)
  BY <1>1, <1>4, UserCallStrandsNothing
<1>5. ASSUME NEW d \in Dominators, NEW v \in Users, Resolve(v, d)
      PROVE  \/ Stranded(u, t)' = Stranded(u, t)
             \/ status[d] = "Active" /\ StrandsExcess(u, t, d)
  <2>1. CASE TransferIn(v, d)
    BY <1>1, <2>1, TransferInStrandsExcess DEF TransferIn
  <2>2. CASE RejectTransferIn(v, d) \/ RejectTransferOut(v, d)
    BY <2>2 DEF RejectTransferIn, RejectTransferOut, Stranded, Claims
  <2>3. CASE TransferOut(v, d)
    BY <1>1, <2>3, TransferOutStrandsNothing
  <2>4. CASE \E e \in Dominators, y \in Amounts : TransferOutAndAuthorize(v, d, e, y)
    BY <1>1, <2>4, TransferOutAndAuthorizeStrandsNothing, AmountAssumption
  <2>5. QED
    BY <1>5, <2>1, <2>2, <2>3, <2>4 DEF Resolve
<1>6. ASSUME NEW d \in Dominators, Match(d)
      PROVE  Stranded(u, t)' = Stranded(u, t)
  BY <1>1, <1>6, MatchStrandsNothing
<1>7. QED
  BY <1>2, <1>3, <1>4, <1>5, <1>6, Zenon DEF Next

-----------------------------------------------------------------------------
(* The invariant. *)

Custodial == TypeOK /\ BookMatchesReserves /\ StashCoversReceipt /\ ReservedCoversClaims

(* The reserved balance covers the claims as long as nothing is stranded   *)
(* in the negative, and the only step that strands adds to it.             *)
LEMMA ReservedCoversClaimsStep ==
  ASSUME Custodial, [Next]_vars
  PROVE  ReservedCoversClaims'
<1>1. SUFFICES ASSUME NEW u \in Users, NEW t \in Tokens
               PROVE  reserved'[<<u, t>>] >= Claims(u, t)'
  BY DEF ReservedCoversClaims
<1>2. TypeOK /\ TypeOK' /\ StashCoversReceipt /\ ReservedCoversClaims
  BY NextTypeOK DEF Custodial
<1>3. /\ Claims(u, t) \in Nat /\ Claims(u, t)' \in Int
      /\ reserved[<<u, t>>] \in Nat /\ reserved'[<<u, t>>] \in Nat
  <2>1. Claims(u, t) \in Nat
    BY <1>2, ClaimWithinClaims
  <2>2. ClaimsByDominator(u, t)' \in [1..NDominators -> Nat]
    BY <1>2, ClaimNatPrimed
  <2>3. SumTo(ClaimsByDominator(u, t)', NDominators) \in Nat
    BY <2>2, CountAssumption, SumToNat
  <2>4. Claims(u, t)' \in Int
    BY <2>3, ClaimsAre
  <2>5. QED
    BY <1>2, <2>1, <2>4 DEF TypeOK
<1>4. Stranded(u, t) \in Int /\ Stranded(u, t) >= 0
  BY <1>2, <1>3 DEF Stranded, ReservedCoversClaims
<1>5. Stranded(u, t)' >= 0
  <2>1. CASE Stranded(u, t)' = Stranded(u, t)
    BY <1>4, <2>1
  <2>2. ASSUME NEW d \in Dominators, StrandsExcess(u, t, d)
        PROVE  Stranded(u, t)' >= 0
    <3>1. receipts[<<u, d>>].amount \in Nat
      BY <1>2, <2>2, PendingReceipt DEF StrandsExcess
    <3>2. stash[<<u, t, d>>] \in Nat
      BY <1>2 DEF TypeOK
    <3>3. QED
      BY <1>4, <2>2, <3>1, <3>2 DEF StrandsExcess
  <2>3. QED
    BY <1>2, <2>1, <2>2, StrandedStep
<1>6. QED
  BY <1>3, <1>5 DEF Stranded

(* Every step leaves the book and the reserves of a live dominator equal. *)
LEMMA BookMatchesReservesStep ==
  ASSUME TypeOK, BookMatchesReserves, [Next]_vars
  PROVE  BookMatchesReserves'
<1>1. SUFFICES ASSUME NEW u \in Users, NEW t \in Tokens, NEW e \in Dominators,
                      status'[e] # "Evicted"
               PROVE  authorizing'[<<u, t, e>>] = LeafSum(book'[<<u, t, e>>])
  BY DEF BookMatchesReserves
<1> PICK k \in Keys : k = <<u, t, e>>
  OBVIOUS
<1>2. TypeOK'
  BY NextTypeOK
<1>3. authorizing[k] \in Nat /\ book[k].available \in Nat /\ book[k].frozen \in Nat
  BY DEF TypeOK
<1>4. status[e] # "Evicted" => authorizing[k] = book[k].available + book[k].frozen
  BY DEF BookMatchesReserves, LeafSum
<1>5. CASE UNCHANGED <<authorizing, book>> /\ status[e] # "Evicted"
  BY <1>4, <1>5 DEF LeafSum
<1>6. ASSUME NEW d \in Dominators, Governance(d)
      PROVE  authorizing'[k] = LeafSum(book'[k])
  BY <1>1, <1>5, <1>6 DEF Governance, Register, Launch, Evict, Online, Offline, SetStatus,
                          funds, TypeOK
<1>7. ASSUME NEW d \in Dominators, NEW v \in Users, UserCall(v, d)
      PROVE  authorizing'[k] = LeafSum(book'[k])
  <2>1. PICK c \in Tokens, x \in Amounts :
          \/ AuthorizeTo(v, d, c, x)
          \/ \E kind \in RevokeKinds : RevokeFrom(v, d, c, x, kind)
          \/ RevokeFromEvicted(v, d, c, x)
    BY <1>7 DEF UserCall
  <2>2. CASE AuthorizeTo(v, d, c, x) \/ \E kind \in RevokeKinds : RevokeFrom(v, d, c, x, kind)
    BY <1>1, <1>5, <2>2 DEF AuthorizeTo, RevokeFrom
  <2>3. CASE RevokeFromEvicted(v, d, c, x)
    <3>1. e # d /\ status' = status /\ book' = book
      BY <1>1, <2>3 DEF RevokeFromEvicted, PayOut
    <3>2. authorizing'[k] = authorizing[k]
      BY <2>3, <3>1 DEF RevokeFromEvicted, TypeOK
    <3>3. QED
      BY <1>1, <1>4, <3>1, <3>2 DEF LeafSum
  <2>4. QED
    BY <2>1, <2>2, <2>3
<1>8. ASSUME NEW d \in Dominators, NEW v \in Users, Resolve(v, d)
      PROVE  authorizing'[k] = LeafSum(book'[k])
  <2>1. receipts[<<v, d>>].kind # "None" /\ status' = status
    BY <1>8 DEF Resolve, TransferIn, RejectTransferIn, TransferOut, TransferOutAndAuthorize,
                RejectTransferOut, CanTransferOut, RevokeKinds
  <2> PICK c \in Tokens, x \in Nat : c = receipts[<<v, d>>].token /\ x = receipts[<<v, d>>].amount
    BY <2>1, PendingReceipt
  <2> PICK j \in Keys : j = <<v, c, d>>
    OBVIOUS
  <2>2. CASE TransferIn(v, d)
    <3>1. /\ authorizing' = [authorizing EXCEPT ![j] = @ + x]
          /\ book' = [book EXCEPT ![j].available = @ + x]
      BY <2>2 DEF TransferIn
    <3> HIDE DEF Keys
    <3>2. CASE j = k
      <4>1. /\ authorizing'[k] = authorizing[k] + x
            /\ book'[k].available = book[k].available + x
            /\ book'[k].frozen = book[k].frozen
        BY <3>1, <3>2 DEF TypeOK
      <4>2. QED
        BY <1>1, <1>3, <1>4, <2>1, <4>1 DEF LeafSum
    <3>3. CASE j # k
      BY <1>1, <1>4, <2>1, <3>1, <3>3 DEF TypeOK, LeafSum
    <3>4. QED
      BY <3>2, <3>3
  <2>3. CASE \/ TransferOut(v, d)
             \/ \E f \in Dominators, y \in Amounts : TransferOutAndAuthorize(v, d, f, y)
    <3>1. /\ authorizing' = [authorizing EXCEPT ![j] = @ - x]
          /\ book' = [book EXCEPT ![j].available = @ - x]
      BY <2>3 DEF TransferOut, TransferOutAndAuthorize, TakeOut
    <3> HIDE DEF Keys
    <3>2. CASE j = k
      <4>1. /\ authorizing'[k] = authorizing[k] - x
            /\ book'[k].available = book[k].available - x
            /\ book'[k].frozen = book[k].frozen
        BY <3>1, <3>2 DEF TypeOK
      <4>2. QED
        BY <1>1, <1>3, <1>4, <2>1, <4>1 DEF LeafSum
    <3>3. CASE j # k
      BY <1>1, <1>4, <2>1, <3>1, <3>3 DEF TypeOK, LeafSum
    <3>4. QED
      BY <3>2, <3>3
  <2>4. CASE RejectTransferIn(v, d) \/ RejectTransferOut(v, d)
    BY <1>1, <1>5, <2>1, <2>4 DEF RejectTransferIn, RejectTransferOut
  <2>5. QED
    BY <1>8, <2>2, <2>3, <2>4 DEF Resolve
<1>9. ASSUME NEW d \in Dominators, Match(d)
      PROVE  authorizing'[k] = LeafSum(book'[k])
  <2>1. CASE \E v \in Users, c \in Tokens, x \in Nat : Cancel(v, d, c, x)
    <3>1. PICK v \in Users, c \in Tokens, x \in Nat : Cancel(v, d, c, x)
      BY <2>1
    <3> PICK j \in Keys : j = <<v, c, d>>
      OBVIOUS
    <3>2. /\ authorizing' = authorizing /\ status' = status
          /\ book' = [book EXCEPT ![j] = Leaf(@.available + x, @.frozen - x)]
      BY <3>1 DEF Cancel
    <3> HIDE DEF Keys
    <3>3. CASE j = k
      <4>1. book'[k] = Leaf(book[k].available + x, book[k].frozen - x)
        BY <3>2, <3>3 DEF TypeOK
      <4>2. QED
        BY <1>1, <1>3, <1>4, <3>2, <4>1 DEF Leaf, LeafSum
    <3>4. CASE j # k
      BY <1>1, <1>4, <3>2, <3>4 DEF TypeOK, LeafSum
    <3>5. QED
      BY <3>3, <3>4
  <2>2. CASE TradeAt(d) /\ UNCHANGED status
    <3>1. PICK new : Clear(d, new)
      BY <2>2, SettleClears, Zenon DEF TradeAt
    <3>2. CASE k \in DOMAIN new
      BY <3>1, <3>2 DEF Clear
    <3>3. CASE k \notin DOMAIN new
      BY <1>1, <1>4, <2>2, <3>1, <3>3 DEF Clear, LeafSum
    <3>4. QED
      BY <3>2, <3>3
  <2>3. QED
    BY <1>9, <2>1, <2>2, MatchCases
<1>10. CASE UNCHANGED vars
  BY <1>1, <1>5, <1>10 DEF vars
<1>11. QED
  BY <1>6, <1>7, <1>8, <1>9, <1>10, Zenon DEF Next

(* A new Authorize receipt comes with as much stash, and only what removes *)
(* a receipt, or the payout of an evicted dominator, takes from the stash. *)
LEMMA StashCoversReceiptStep ==
  ASSUME TypeOK, StashCoversReceipt, [Next]_vars
  PROVE  StashCoversReceipt'
<1>1. SUFFICES ASSUME NEW u \in Users, NEW e \in Dominators,
                      status'[e] # "Evicted", receipts'[<<u, e>>].kind = "Authorize"
               PROVE  stash'[<<u, receipts'[<<u, e>>].token, e>>] >= receipts'[<<u, e>>].amount
  BY DEF StashCoversReceipt
<1>2. CASE status[e] # "Evicted" /\ receipts'[<<u, e>>] = receipts[<<u, e>>] /\ stash' = stash
  BY <1>1, <1>2 DEF StashCoversReceipt
<1>3. ASSUME NEW d \in Dominators, Governance(d)
      PROVE  stash'[<<u, receipts'[<<u, e>>].token, e>>] >= receipts'[<<u, e>>].amount
  BY <1>1, <1>2, <1>3 DEF Governance, Register, Launch, Evict, Online, Offline, SetStatus,
                          funds, TypeOK
<1>4. ASSUME NEW d \in Dominators, NEW v \in Users, UserCall(v, d)
      PROVE  stash'[<<u, receipts'[<<u, e>>].token, e>>] >= receipts'[<<u, e>>].amount
  <2>1. PICK c \in Tokens, x \in Amounts :
          \/ AuthorizeTo(v, d, c, x)
          \/ \E kind \in RevokeKinds : RevokeFrom(v, d, c, x, kind)
          \/ RevokeFromEvicted(v, d, c, x)
    BY <1>4 DEF UserCall
  <2>2. x \in Nat
    BY AmountAssumption
  <2>3. CASE AuthorizeTo(v, d, c, x)
    <3>1. CASE v = u /\ d = e
      <4>1. receipts'[<<u, e>>] = Receipt("Authorize", c, x)
        BY <2>3, <3>1 DEF AuthorizeTo, TypeOK
      <4>2. stash'[<<u, c, e>>] = stash[<<u, c, e>>] + x /\ stash[<<u, c, e>>] \in Nat
        BY <2>3, <3>1 DEF AuthorizeTo, TypeOK
      <4>3. QED
        BY <2>2, <4>1, <4>2 DEF Receipt
    <3>2. CASE ~(v = u /\ d = e)
      <4>1. receipts'[<<u, e>>] = receipts[<<u, e>>] /\ status' = status
        BY <2>3, <3>2 DEF AuthorizeTo, TypeOK
      <4>2. receipts[<<u, e>>].token \in Tokens
        BY <1>1, <4>1, PendingReceipt
      <4>3. \A t \in Tokens : stash'[<<u, t, e>>] = stash[<<u, t, e>>]
        BY <2>3, <3>2 DEF AuthorizeTo, TypeOK
      <4>4. QED
        BY <1>1, <4>1, <4>2, <4>3 DEF StashCoversReceipt
    <3>3. QED
      BY <3>1, <3>2
  <2>4. CASE \E kind \in RevokeKinds : RevokeFrom(v, d, c, x, kind)
    <3>1. /\ receipts'[<<u, e>>] = receipts[<<u, e>>]
          /\ status' = status /\ stash' = stash
      BY <1>1, <2>4 DEF RevokeFrom, RevokeKinds, Receipt, TypeOK
    <3>2. QED
      BY <1>1, <1>2, <3>1
  <2>5. CASE RevokeFromEvicted(v, d, c, x)
    <3>1. d # e /\ status' = status
      BY <1>1, <2>5 DEF RevokeFromEvicted, PayOut
    <3>2. receipts'[<<u, e>>] = receipts[<<u, e>>]
      BY <2>5, <3>1 DEF RevokeFromEvicted, PayOut, TypeOK
    <3>3. receipts[<<u, e>>].token \in Tokens
      BY <1>1, <3>2, PendingReceipt
    <3>4. \A t \in Tokens : stash'[<<u, t, e>>] = stash[<<u, t, e>>]
      BY <2>5, <3>1 DEF RevokeFromEvicted, TypeOK
    <3>5. QED
      BY <1>1, <3>1, <3>2, <3>3, <3>4 DEF StashCoversReceipt
  <2>6. QED
    BY <2>1, <2>3, <2>4, <2>5
<1>5. ASSUME NEW d \in Dominators, NEW v \in Users, Resolve(v, d)
      PROVE  stash'[<<u, receipts'[<<u, e>>].token, e>>] >= receipts'[<<u, e>>].amount
  <2>1. receipts[<<v, d>>].kind # "None" /\ status' = status
    BY <1>5 DEF Resolve, TransferIn, RejectTransferIn, TransferOut, TransferOutAndAuthorize,
                RejectTransferOut, CanTransferOut, RevokeKinds
  <2> PICK c \in Tokens, x \in Nat : c = receipts[<<v, d>>].token /\ x = receipts[<<v, d>>].amount
    BY <2>1, PendingReceipt
  <2>2. CASE TransferIn(v, d)
    <3>1. ~(v = u /\ d = e)
      BY <1>1, <2>2 DEF TransferIn, NoReceipt, Receipt, TypeOK
    <3>2. receipts'[<<u, e>>] = receipts[<<u, e>>]
      BY <2>2, <3>1 DEF TransferIn, TypeOK
    <3>3. receipts[<<u, e>>].token \in Tokens
      BY <1>1, <3>2, PendingReceipt
    <3>4. \A t \in Tokens : stash'[<<u, t, e>>] = stash[<<u, t, e>>]
      BY <2>2, <3>1 DEF TransferIn, TypeOK
    <3>5. QED
      BY <1>1, <2>1, <3>2, <3>3, <3>4 DEF StashCoversReceipt
  <2>3. CASE TransferOut(v, d) \/ RejectTransferIn(v, d) \/ RejectTransferOut(v, d)
    <3>1. receipts' = [receipts EXCEPT ![<<v, d>>] = NoReceipt] /\ stash' = stash
      BY <2>3 DEF TransferOut, RejectTransferIn, RejectTransferOut
    <3>2. receipts'[<<u, e>>] = receipts[<<u, e>>]
      BY <1>1, <3>1 DEF NoReceipt, Receipt, TypeOK
    <3>3. QED
      BY <1>1, <1>2, <2>1, <3>1, <3>2
  <2>4. CASE \E f \in Dominators, y \in Amounts : TransferOutAndAuthorize(v, d, f, y)
    <3>1. PICK f \in Dominators, y \in Nat : TransferOutAndAuthorize(v, d, f, y)
      BY <2>4, AmountAssumption
    <3>2. /\ stash' = [stash EXCEPT ![<<v, c, f>>] = @ + y]
          /\ receipts' = [[receipts EXCEPT ![<<v, d>>] = NoReceipt]
                              EXCEPT ![<<v, f>>] = Receipt("Authorize", c, y)]
      BY <3>1 DEF TransferOutAndAuthorize
    <3>3. CASE v = u /\ f = e
      <4>1. receipts'[<<u, e>>] = Receipt("Authorize", c, y)
        BY <3>2, <3>3 DEF TypeOK
      <4>2. stash'[<<u, c, e>>] = stash[<<u, c, e>>] + y /\ stash[<<u, c, e>>] \in Nat
        BY <3>2, <3>3 DEF TypeOK
      <4>3. QED
        BY <4>1, <4>2 DEF Receipt
    <3>4. CASE ~(v = u /\ f = e)
      <4>1. receipts'[<<u, e>>] = receipts[<<u, e>>]
        BY <1>1, <3>2, <3>4 DEF TypeOK, NoReceipt, Receipt
      <4>2. receipts[<<u, e>>].token \in Tokens
        BY <1>1, <4>1, PendingReceipt
      <4>3. \A t \in Tokens : stash'[<<u, t, e>>] = stash[<<u, t, e>>]
        BY <3>2, <3>4 DEF TypeOK
      <4>4. QED
        BY <1>1, <2>1, <4>1, <4>2, <4>3 DEF StashCoversReceipt
    <3>5. QED
      BY <3>3, <3>4
  <2>5. QED
    BY <1>5, <2>2, <2>3, <2>4 DEF Resolve
<1>6. ASSUME NEW d \in Dominators, Match(d)
      PROVE  stash'[<<u, receipts'[<<u, e>>].token, e>>] >= receipts'[<<u, e>>].amount
  <2>1. UNCHANGED <<status, receipts, stash>>
    BY <1>6, MatchCases DEF Cancel
  <2>2. QED
    BY <1>1, <1>2, <2>1
<1>7. CASE UNCHANGED vars
  BY <1>1, <1>2, <1>7 DEF vars
<1>8. QED
  BY <1>3, <1>4, <1>5, <1>6, <1>7, Zenon DEF Next

(* Nothing is reserved and every book is empty at first. *)
LEMMA InitCustodial == Init => Custodial
<1> SUFFICES ASSUME Init PROVE Custodial
  OBVIOUS
<1>1. TypeOK
  BY InitTypeOK
<1>2. BookMatchesReserves
  BY DEF Init, BookMatchesReserves, LeafSum, Leaf
<1>3. StashCoversReceipt
  BY DEF Init, StashCoversReceipt, NoReceipt, Receipt
<1>4. ReservedCoversClaims
  <2>1. SUFFICES ASSUME NEW u \in Users, NEW t \in Tokens
                 PROVE  reserved[<<u, t>>] >= Claims(u, t)
    BY DEF ReservedCoversClaims
  <2> DEFINE zero == [d \in Dominators |-> 0]
  <2>2. ClaimsByDominator(u, t) = zero
    BY DEF Init, ClaimsByDominator, Claim
  <2>3. zero \in [1..NDominators -> Int] /\ \A d \in 1..NDominators : zero[d] = 0
    OBVIOUS
  <2> HIDE DEF zero
  <2>4. SumTo(zero, NDominators) = 0
    BY <2>3, CountAssumption, SumToZeros
  <2>5. Claims(u, t) = 0
    BY <2>2, <2>4, ClaimsAre
  <2>6. reserved[<<u, t>>] = 0
    BY DEF Init
  <2>7. QED
    BY <2>5, <2>6
<1>5. QED
  BY <1>1, <1>2, <1>3, <1>4 DEF Custodial

(* Every extrinsic and every proof keeps the invariant. *)
LEMMA NextCustodial ==
  ASSUME Custodial, [Next]_vars
  PROVE  Custodial'
BY NextTypeOK, BookMatchesReservesStep, StashCoversReceiptStep, ReservedCoversClaimsStep
   DEF Custodial

(* The records of custody agree in every reachable state of the pallet:    *)
(* book, Reserves, stash and reserved balance, whatever calls interleave.  *)
THEOREM CustodialInvariant == Spec => []Custodial
<1>1. Init => Custodial
  BY InitCustodial
<1>2. Custodial /\ [Next]_vars => Custodial'
  BY NextCustodial
<1>3. QED
  BY <1>1, <1>2, PTL DEF Spec

-----------------------------------------------------------------------------
(* No token appears or vanishes.                                           *)

(* What a trade moves of token t to and from account u. *)
Moved(u, t, x) ==
  CASE t = x.sell /\ u = x.taker -> -x.sold
    [] t = x.sell /\ u # x.taker -> x.get[u]
    [] t = x.buy /\ t # x.sell /\ u = x.taker -> Total(x.give) - x.buyFee
    [] t = x.buy /\ t # x.sell /\ u # x.taker -> -x.give[u]
    [] OTHER -> 0

(* The reserved balances move by what the leaves of the proof move by:     *)
(* clear starts from the reserve, and that equals the leaf before.         *)
LEMMA SettleMoves ==
  ASSUME Custodial, NEW d \in Dominators, NEW x \in Trades, x.sell # x.buy, Settled(d, x),
         NEW u \in Users, NEW t \in Tokens
  PROVE  reserved'[<<u, t>>] = reserved[<<u, t>>] + Moved(u, t, x)
<1> PICK taker \in Users, sell \in Tokens, buy \in Tokens, sold \in Nat, rest \in Nat,
         get \in [Users -> Nat], give \in [Users -> Nat], buyFee \in Nat :
           /\ taker = x.taker /\ sell = x.sell /\ buy = x.buy /\ sold = x.sold /\ rest = x.rest
           /\ get = x.get /\ give = x.give /\ buyFee = x.buyFee
  BY DEF Trades
<1> DEFINE makers == {m \in Users : get[m] > 0 \/ give[m] > 0}
           leaves == {k \in Keys : /\ k[1] \in makers \cup {taker}
                                   /\ k[2] \in {sell, buy}
                                   /\ k[3] = d}
           old(k) == book[k]
           new == [k \in leaves |->
                     IF k[1] = taker
                     THEN IF k[2] = sell
                          THEN Leaf(old(k).available - sold - rest, old(k).frozen + rest)
                          ELSE Leaf(old(k).available + Total(give) - buyFee, old(k).frozen)
                     ELSE IF k[2] = sell
                          THEN Leaf(old(k).available + get[k[1]], old(k).frozen)
                          ELSE Leaf(old(k).available, old(k).frozen - give[k[1]])]
           moved == Moved(u, t, x)
<1>1. status[d] = "Active" /\ Clear(d, new)
  BY Zenon DEF Settled, Settle
<1> PICK k \in Keys : k = <<u, t, d>>
  OBVIOUS
<1> PICK a \in Nat, f \in Nat, r \in Nat :
        a = book[k].available /\ f = book[k].frozen /\ r = reserved[<<u, t>>]
  BY DEF Custodial, TypeOK
<1>2. authorizing[k] = a + f
  BY <1>1 DEF Custodial, BookMatchesReserves, LeafSum
<1>3. r >= a + f
  <2> PICK s \in Nat, c \in Nat : s = stash[k] /\ c = Claims(u, t)
    BY ClaimWithinClaims DEF Custodial, TypeOK
  <2>1. Claim(u, t, d) <= c
    BY ClaimWithinClaims DEF Custodial
  <2>2. r >= c
    BY DEF Custodial, ReservedCoversClaims
  <2>3. Claim(u, t, d) = a + f + s
    BY <1>2 DEF Claim
  <2> HIDE DEF new, leaves, makers, Users, Dominators, Holdings, Keys
  <2>4. QED
    BY <2>1, <2>2, <2>3
<1>4. k \in leaves <=> (u \in makers \cup {taker} /\ t \in {sell, buy})
  OBVIOUS
<1>5. reserved'[<<u, t>>] = IF k \in leaves THEN r - (a + f) + LeafSum(new[k]) ELSE r
  <2>1. reserved'[<<u, t>>] = IF k \in leaves THEN SubOrZero(r, authorizing[k]) + LeafSum(new[k])
                              ELSE r
    BY <1>1 DEF Clear
  <2>2. SubOrZero(r, authorizing[k]) = r - (a + f)
    BY <1>2, <1>3 DEF SubOrZero
  <2>3. QED
    BY <2>1, <2>2, Zenon
<1> PICK g \in Nat, v \in Nat, total \in Nat : g = get[u] /\ v = give[u] /\ total = Total(give)
  BY TotalNat
<1>6. k \in leaves =>
        new[k] = IF u = taker
                 THEN IF t = sell THEN Leaf(a - sold - rest, f + rest) ELSE Leaf(a + total - buyFee, f)
                 ELSE IF t = sell THEN Leaf(a + g, f) ELSE Leaf(a, f - v)
  OBVIOUS
<1>7. u \in makers <=> g > 0 \/ v > 0
  OBVIOUS
<1> SUFFICES reserved'[<<u, t>>] = r + moved
  OBVIOUS
<1> HIDE DEF new, leaves, makers, moved, Users, Dominators, Holdings, Keys
<1>8. CASE u = taker /\ t = sell
  <2>1. LeafSum(new[k]) = (a - sold - rest) + (f + rest)
    <3>1. new[k] = Leaf(a - sold - rest, f + rest)
      BY <1>4, <1>6, <1>8
    <3>2. QED
      BY <3>1 DEF LeafSum, Leaf
  <2>2. moved = -sold
    BY <1>8 DEF moved, Moved
  <2>3. QED
    BY <1>4, <1>5, <1>8, <2>1, <2>2
<1>9. CASE u = taker /\ t = buy
  <2>1. LeafSum(new[k]) = (a + total - buyFee) + f
    <3>1. new[k] = Leaf(a + total - buyFee, f)
      BY <1>4, <1>6, <1>9
    <3>2. QED
      BY <3>1 DEF LeafSum, Leaf
  <2>2. moved = total - buyFee
    BY <1>9 DEF moved, Moved
  <2>3. QED
    BY <1>4, <1>5, <1>9, <2>1, <2>2
<1>10. CASE u # taker /\ t = sell
  <2>1. moved = g
    BY <1>10 DEF moved, Moved
  <2>2. CASE u \in makers
    <3>1. LeafSum(new[k]) = (a + g) + f
      <4>1. new[k] = Leaf(a + g, f)
        BY <1>4, <1>6, <1>10, <2>2
      <4>2. QED
        BY <4>1 DEF LeafSum, Leaf
    <3>2. QED
      BY <1>4, <1>5, <1>10, <2>1, <2>2, <3>1
  <2>3. CASE u \notin makers
    BY <1>4, <1>5, <1>7, <1>10, <2>1, <2>3
  <2>4. QED
    BY <2>2, <2>3
<1>11. CASE u # taker /\ t = buy
  <2>1. moved = -v
    BY <1>11 DEF moved, Moved
  <2>2. CASE u \in makers
    <3>1. LeafSum(new[k]) = a + (f - v)
      <4>1. new[k] = Leaf(a, f - v)
        BY <1>4, <1>6, <1>11, <2>2
      <4>2. QED
        BY <4>1 DEF LeafSum, Leaf
    <3>2. QED
      BY <1>4, <1>5, <1>11, <2>1, <2>2, <3>1
  <2>3. CASE u \notin makers
    BY <1>4, <1>5, <1>7, <1>11, <2>1, <2>3
  <2>4. QED
    BY <2>2, <2>3
<1>12. CASE t # sell /\ t # buy
  <2>1. moved = 0
    BY <1>12 DEF moved, Moved
  <2>2. QED
    BY <1>4, <1>5, <1>12, <2>1
<1>13. QED
  BY <1>8, <1>9, <1>10, <1>11, <1>12

(* The three parts of the supply of a token. *)
FreeOf(t) == Total([u \in Users |-> free[<<u, t>>]])
ReservedOf(t) == Total([u \in Users |-> reserved[<<u, t>>]])
PutAside(t) == SumTo([d \in Dominators |-> profit[<<t, d>>]], NDominators)

(* All of the fee in the base is paid out: the broker's half and the rest, *)
(* to one account or to two.                                               *)
LEMMA BaseFeePaid ==
  ASSUME TypeOK, TypeOK', NEW d \in Dominators, NEW b \in Tokens, NEW fee \in Nat,
         NEW broker \in Brokers \cup {0}, PayBaseFee(d, b, fee, broker), NEW t \in Tokens
  PROVE  FreeOf(t)' = FreeOf(t) + (IF t = b THEN fee ELSE 0)
<1> DEFINE half == IF broker = 0 THEN 0 ELSE (fee + 1) \div 2
<1> PICK x \in Nat, y \in Nat : x = half /\ y = fee - half /\ x + y = fee
  OBVIOUS
<1> PICK w \in Users : w = Beneficiary[d]
  BY AccountAssumption
<1> DEFINE f == [u \in Users |-> free[<<u, t>>]]
           h == [u \in Users |-> free'[<<u, t>>]]
<1>1. f \in [1..NUsers -> Int] /\ h \in [1..NUsers -> Int]
  <2>1. \A u \in Users : free[<<u, t>>] \in Int /\ free'[<<u, t>>] \in Int
    BY DEF TypeOK
  <2>2. QED
    BY <2>1
<1>2. \A u \in Users : h[u] = IF t = b
                              THEN f[u] + ((IF u = broker THEN x ELSE 0) + (IF u = w THEN y ELSE 0))
                              ELSE f[u]
  BY DEF PayBaseFee
<1>3. FreeOf(t) = SumTo(f, NUsers) /\ FreeOf(t)' = SumTo(h, NUsers)
  BY DEF FreeOf, Total
<1>4. broker = 0 => x = 0
  OBVIOUS
<1>5. NUsers \in Nat /\ w \in 1..NUsers /\ (broker # 0 => broker \in 1..NUsers)
  BY CountAssumption, AccountAssumption
<1> HIDE DEF f, h, half, Users, Dominators, Holdings, Keys
<1>6. SumTo(f, NUsers) \in Int
  BY <1>1, <1>5, NUsers \in 0..NUsers, SumToInt
<1>7. SumTo(h, NUsers) = SumTo(f, NUsers) + (IF t = b THEN fee ELSE 0)
  <2>0. \A u \in 1..NUsers : f[u] \in Int /\ h[u] \in Int
    BY <1>1
  <2>1. CASE t # b
    <3>1. \A u \in 1..NUsers : h[u] = f[u]
      BY <1>2, <2>1 DEF Users
    <3>2. SumTo(h, NUsers) = SumTo(f, NUsers)
      BY <1>1, <1>5, <3>1, SumToAgree
    <3>3. QED
      BY <1>6, <2>1, <3>2
  <2>2. CASE t = b /\ (broker = 0 \/ broker = w)
    <3>1. \A u \in 1..NUsers : u # w => h[u] = f[u]
      BY <1>2, <1>4, <2>0, <2>2 DEF Users
    <3>2. h[w] = f[w] + fee
      BY <1>2, <1>4, <1>5, <2>0, <2>2 DEF Users
    <3>3. SumTo(h, NUsers) = SumTo(f, NUsers) + h[w] - f[w]
      BY <1>1, <1>5, <3>1, SumToChange
    <3>4. QED
      BY <1>5, <1>6, <2>0, <2>2, <3>2, <3>3
  <2>3. CASE t = b /\ broker # 0 /\ broker # w
    <3>1. \A u \in 1..NUsers : u # w /\ u # broker => h[u] = f[u]
      BY <1>2, <2>0, <2>3 DEF Users
    <3>2. h[w] = f[w] + y /\ h[broker] = f[broker] + x
      BY <1>2, <1>5, <2>0, <2>3 DEF Users
    <3>3. SumTo(h, NUsers) = SumTo(f, NUsers) + h[w] - f[w] + h[broker] - f[broker]
      BY <1>1, <1>5, <2>3, <3>1, SumToChangeTwo
    <3>4. QED
      BY <1>5, <1>6, <2>0, <2>3, <3>2, <3>3
  <2>4. QED
    BY <2>1, <2>2, <2>3
<1>8. QED
  BY <1>3, <1>7

(* What a trade charges in token t. *)
Fee(t, x) == IF t = x.sell THEN x.sellFee ELSE IF t = x.buy THEN x.buyFee ELSE 0

(* What a trade moves within one token comes to what is charged in it.     *)
LEMMA MovedAddsUp ==
  ASSUME NEW x \in Trades, x.sell # x.buy, x.get[x.taker] = 0, x.give[x.taker] = 0,
         Total(x.get) + x.sellFee = x.sold, NEW t \in Tokens
  PROVE  \E f \in [1..NUsers -> Int] :
           /\ \A u \in Users : f[u] = Moved(u, t, x)
           /\ SumTo(f, NUsers) + Fee(t, x) = 0
<1> PICK taker \in Users, sell \in Tokens, buy \in Tokens, sold \in Nat,
         get \in [Users -> Nat], give \in [Users -> Nat], sellFee \in Nat, buyFee \in Nat :
           /\ taker = x.taker /\ sell = x.sell /\ buy = x.buy /\ sold = x.sold
           /\ get = x.get /\ give = x.give /\ sellFee = x.sellFee /\ buyFee = x.buyFee
  BY DEF Trades
<1>1. NUsers \in Nat /\ taker \in 1..NUsers
  BY CountAssumption
<1>2. Total(get) \in Nat /\ Total(give) \in Nat
  BY TotalNat
<1>3. \A u \in 1..NUsers : get[u] \in Nat /\ give[u] \in Nat
  OBVIOUS
<1>4. CASE t = sell
  <2> DEFINE g == [u \in 1..NUsers |-> get[u]]
             f == [u \in 1..NUsers |-> IF u = taker THEN -sold ELSE get[u]]
  <2>1. g \in [1..NUsers -> Int] /\ f \in [1..NUsers -> Int] /\ g = get
    <3>1. \A u \in 1..NUsers : (IF u = taker THEN -sold ELSE get[u]) \in Int
      BY <1>3
    <3>2. f \in [1..NUsers -> Int]
      BY <3>1
    <3>3. g \in [1..NUsers -> Int]
      BY <1>3
    <3>4. g = get
      OBVIOUS
    <3>5. QED
      BY <3>2, <3>3, <3>4
  <2>2. \A u \in 1..NUsers : u # taker => f[u] = g[u]
    OBVIOUS
  <2>3. f[taker] = -sold /\ g[taker] = 0
    BY <1>1
  <2>4. \A u \in Users : f[u] = Moved(u, t, x)
    BY <1>4 DEF Moved
  <2> HIDE DEF f, g
  <2>5. SumTo(f, NUsers) = SumTo(g, NUsers) + f[taker] - g[taker]
    BY <1>1, <2>1, <2>2, SumToChange
  <2>6. SumTo(f, NUsers) = -sellFee
    BY <1>2, <2>1, <2>3, <2>5 DEF Total
  <2>7. Fee(t, x) = sellFee
    BY <1>4 DEF Fee
  <2>8. SumTo(f, NUsers) + Fee(t, x) = 0
    BY <2>6, <2>7
  <2>9. QED
    BY <2>1, <2>4, <2>8
<1>5. CASE t = buy
  <2> DEFINE g == [u \in 1..NUsers |-> (-1) * give[u]]
             f == [u \in 1..NUsers |-> IF u = taker THEN Total(give) - buyFee ELSE -give[u]]
  <2>1. g \in [1..NUsers -> Int] /\ f \in [1..NUsers -> Int] /\ give \in [1..NUsers -> Int]
    <3> PICK total \in Nat : total = Total(give)
      BY <1>2
    <3>1. \A u \in 1..NUsers : /\ (IF u = taker THEN total - buyFee ELSE -give[u]) \in Int
                               /\ (-1) * give[u] \in Int
      BY <1>3
    <3>2. f \in [1..NUsers -> Int]
      BY <3>1
    <3>3. g \in [1..NUsers -> Int]
      BY <3>1
    <3>4. give \in [1..NUsers -> Int]
      BY <1>3
    <3>5. QED
      BY <3>2, <3>3, <3>4
  <2>2. \A u \in 1..NUsers : u # taker => f[u] = g[u]
    BY <1>3
  <2>3. f[taker] = Total(give) - buyFee /\ g[taker] = 0
    BY <1>1
  <2>4. \A u \in Users : f[u] = Moved(u, t, x)
    BY <1>5 DEF Moved
  <2>5. \A u \in 1..NUsers : g[u] = (-1) * give[u]
    OBVIOUS
  <2> HIDE DEF f, g
  <2>6. SumTo(f, NUsers) = SumTo(g, NUsers) + f[taker] - g[taker]
    BY <1>1, <2>1, <2>2, SumToChange
  <2>7. SumTo(g, NUsers) = (-1) * SumTo(give, NUsers)
    BY <1>1, <2>1, <2>5, -1 \in Int, SumToScale
  <2>8. SumTo(f, NUsers) = -buyFee
    BY <1>2, <2>3, <2>6, <2>7 DEF Total
  <2>9. Fee(t, x) = buyFee
    BY <1>5 DEF Fee
  <2>10. SumTo(f, NUsers) + Fee(t, x) = 0
    BY <2>8, <2>9
  <2>11. QED
    BY <2>1, <2>4, <2>10
<1>6. CASE t # sell /\ t # buy
  <2> DEFINE f == [u \in 1..NUsers |-> 0]
  <2>1. f \in [1..NUsers -> Int] /\ \A u \in 1..NUsers : f[u] = 0
    OBVIOUS
  <2>2. \A u \in Users : f[u] = Moved(u, t, x)
    BY <1>6 DEF Moved
  <2> HIDE DEF f
  <2>3. SumTo(f, NUsers) = 0
    BY <1>1, <2>1, SumToZeros
  <2>4. Fee(t, x) = 0
    BY <1>6 DEF Fee
  <2>5. SumTo(f, NUsers) + Fee(t, x) = 0
    BY <2>3, <2>4
  <2>6. QED
    BY <2>1, <2>2, <2>5
<1>7. QED
  BY <1>4, <1>5, <1>6

(* The supply of a token in its three parts, before and after a step.      *)
Parts(t) ==
  /\ FreeOf(t) \in Int /\ ReservedOf(t) \in Int /\ PutAside(t) \in Int
  /\ Supply(t) = FreeOf(t) + ReservedOf(t) + PutAside(t)

LEMMA SupplyParts == ASSUME TypeOK, NEW t \in Tokens PROVE Parts(t)
<1> DEFINE f == [u \in Users |-> free[<<u, t>>]]
           g == [u \in Users |-> reserved[<<u, t>>]]
           h == [u \in Users |-> free[<<u, t>>] + reserved[<<u, t>>]]
           p == [d \in Dominators |-> profit[<<t, d>>]]
<1>1. /\ \A u \in Users : free[<<u, t>>] \in Int /\ reserved[<<u, t>>] \in Int
      /\ \A d \in Dominators : profit[<<t, d>>] \in Int
  BY DEF TypeOK
<1>2. /\ f \in [1..NUsers -> Int] /\ g \in [1..NUsers -> Int] /\ h \in [1..NUsers -> Int]
      /\ p \in [1..NDominators -> Int] /\ \A u \in 1..NUsers : h[u] = f[u] + g[u]
  BY <1>1
<1>3. Supply(t) = SumTo(h, NUsers) + SumTo(p, NDominators)
  BY DEF Supply, Total
<1>4. NUsers \in Nat /\ NDominators \in Nat
  BY CountAssumption
<1> SUFFICES /\ SumTo(f, NUsers) \in Int /\ SumTo(g, NUsers) \in Int
             /\ SumTo(p, NDominators) \in Int
             /\ SumTo(h, NUsers) = SumTo(f, NUsers) + SumTo(g, NUsers)
  BY <1>3 DEF Parts, Total, FreeOf, ReservedOf, PutAside
<1> HIDE DEF f, g, h, p
<1>5. SumTo(h, NUsers) = SumTo(f, NUsers) + SumTo(g, NUsers)
  BY <1>2, <1>4, SumToAdd
<1>6. SumTo(f, NUsers) \in Int /\ SumTo(g, NUsers) \in Int
  BY <1>2, <1>4, NUsers \in 0..NUsers, SumToInt
<1>7. SumTo(p, NDominators) \in Int
  BY <1>2, <1>4, NDominators \in 0..NDominators, SumToInt
<1>8. QED
  BY <1>5, <1>6, <1>7

LEMMA SupplyPartsAfter == ASSUME TypeOK', NEW t \in Tokens PROVE Parts(t)'
<1> DEFINE f == [u \in Users |-> free'[<<u, t>>]]
           g == [u \in Users |-> reserved'[<<u, t>>]]
           h == [u \in Users |-> free'[<<u, t>>] + reserved'[<<u, t>>]]
           p == [d \in Dominators |-> profit'[<<t, d>>]]
<1>1. /\ \A u \in Users : free'[<<u, t>>] \in Int /\ reserved'[<<u, t>>] \in Int
      /\ \A d \in Dominators : profit'[<<t, d>>] \in Int
  BY DEF TypeOK
<1>2. /\ f \in [1..NUsers -> Int] /\ g \in [1..NUsers -> Int] /\ h \in [1..NUsers -> Int]
      /\ p \in [1..NDominators -> Int] /\ \A u \in 1..NUsers : h[u] = f[u] + g[u]
  BY <1>1
<1>3. Supply(t)' = SumTo(h, NUsers) + SumTo(p, NDominators)
  BY DEF Supply, Total
<1>4. NUsers \in Nat /\ NDominators \in Nat
  BY CountAssumption
<1> SUFFICES /\ SumTo(f, NUsers) \in Int /\ SumTo(g, NUsers) \in Int
             /\ SumTo(p, NDominators) \in Int
             /\ SumTo(h, NUsers) = SumTo(f, NUsers) + SumTo(g, NUsers)
  BY <1>3 DEF Parts, Total, FreeOf, ReservedOf, PutAside
<1> HIDE DEF f, g, h, p
<1>5. SumTo(h, NUsers) = SumTo(f, NUsers) + SumTo(g, NUsers)
  BY <1>2, <1>4, SumToAdd
<1>6. SumTo(f, NUsers) \in Int /\ SumTo(g, NUsers) \in Int
  BY <1>2, <1>4, NUsers \in 0..NUsers, SumToInt
<1>7. SumTo(p, NDominators) \in Int
  BY <1>2, <1>4, NDominators \in 0..NDominators, SumToInt
<1>8. QED
  BY <1>5, <1>6, <1>7

(* A fee that is put aside. *)
LEMMA ProfitPut ==
  ASSUME TypeOK, TypeOK', NEW d \in Dominators, NEW q \in Tokens, NEW fee \in Nat,
         PutProfit(d, q, fee), NEW t \in Tokens
  PROVE  PutAside(t)' = PutAside(t) + (IF t = q THEN fee ELSE 0)
<1> DEFINE f == [e \in Dominators |-> profit[<<t, e>>]]
           h == [e \in Dominators |-> profit'[<<t, e>>]]
<1>1. f \in [1..NDominators -> Int] /\ h \in [1..NDominators -> Int]
  <2>1. \A e \in Dominators : profit[<<t, e>>] \in Int /\ profit'[<<t, e>>] \in Int
    BY DEF TypeOK
  <2>2. QED
    BY <2>1
<1>2. \A e \in 1..NDominators : e # d => h[e] = f[e]
  BY DEF PutProfit, TypeOK
<1>3. h[d] = f[d] + (IF t = q THEN fee ELSE 0)
  <2>1. CASE t = q
    BY <2>1 DEF PutProfit, TypeOK
  <2>2. CASE t # q
    BY <1>1, <2>2 DEF PutProfit, TypeOK
  <2>3. QED
    BY <2>1, <2>2
<1>4. NDominators \in Nat /\ d \in 1..NDominators
  BY CountAssumption
<1>5. PutAside(t) = SumTo(f, NDominators) /\ PutAside(t)' = SumTo(h, NDominators)
  BY DEF PutAside
<1> HIDE DEF f, h
<1>6. SumTo(h, NDominators) = SumTo(f, NDominators) + h[d] - f[d]
  BY <1>1, <1>2, <1>4, SumToChange
<1>7. SumTo(f, NDominators) \in Int
  BY <1>1, <1>4, NDominators \in 0..NDominators, SumToInt
<1>8. f[d] \in Int
  BY <1>1, <1>4
<1>9. SumTo(h, NDominators) = SumTo(f, NDominators) + (IF t = q THEN fee ELSE 0)
  BY <1>3, <1>6, <1>7, <1>8
<1>10. QED
  BY <1>5, <1>9

(* What a trade takes from the reserved balances ... *)
LEMMA ReservedMoves ==
  ASSUME Custodial, TypeOK', NEW d \in Dominators, NEW x \in Trades, x.sell # x.buy,
         Settled(d, x), NEW t \in Tokens
  PROVE  ReservedOf(t)' = ReservedOf(t) - Fee(t, x)
<1>1. TypeOK /\ NUsers \in Nat
  BY CountAssumption DEF Custodial
<1>2. Total(x.get) + x.sellFee = x.sold /\ x.get[x.taker] = 0 /\ x.give[x.taker] = 0
  <2>1. Total(x.get) + x.sellFee = x.sold
    BY DEF Settled, Settle
  <2>2. x.taker \notin {m \in Users : x.get[m] > 0 \/ x.give[m] > 0}
    BY DEF Settled, Settle
  <2>3. x.taker \in Users /\ x.get[x.taker] \in Nat /\ x.give[x.taker] \in Nat
    BY DEF Trades
  <2>4. QED
    BY <2>1, <2>2, <2>3
<1> DEFINE f == [u \in Users |-> reserved[<<u, t>>]]
           h == [u \in Users |-> reserved'[<<u, t>>]]
<1>3. f \in [1..NUsers -> Int] /\ h \in [1..NUsers -> Int]
  <2>1. \A u \in Users : reserved[<<u, t>>] \in Int /\ reserved'[<<u, t>>] \in Int
    BY <1>1 DEF TypeOK
  <2>2. QED
    BY <2>1
<1>4. ReservedOf(t) = SumTo(f, NUsers) /\ ReservedOf(t)' = SumTo(h, NUsers)
  BY DEF ReservedOf, Total
<1>5. \A u \in Users : f[u] = reserved[<<u, t>>] /\ h[u] = reserved'[<<u, t>>]
  OBVIOUS
<1> HIDE DEF f, h, Users, Dominators, Holdings, Keys
<1> PICK g \in [1..NUsers -> Int] : (\A u \in Users : g[u] = Moved(u, t, x))
                                   /\ SumTo(g, NUsers) + Fee(t, x) = 0
  BY <1>2, MovedAddsUp
<1>6. ASSUME NEW u \in Users
      PROVE  h[u] = f[u] + g[u]
  BY <1>5, SettleMoves
<1>7. SumTo(h, NUsers) = SumTo(f, NUsers) + SumTo(g, NUsers)
  BY <1>1, <1>3, <1>6, SumToAdd DEF Users
<1>8. SumTo(f, NUsers) \in Int /\ SumTo(g, NUsers) \in Int
  BY <1>1, <1>3, NUsers \in 0..NUsers, SumToInt
<1>9. Fee(t, x) \in Nat
  BY DEF Fee, Trades
<1>10. QED
  BY <1>4, <1>7, <1>8, <1>9

(* ... it pays to accounts and puts aside. *)
LEMMA FeesPaid ==
  ASSUME TypeOK, TypeOK', NEW d \in Dominators, NEW x \in Trades, x.sell # x.buy,
         Charged(d, x), NEW t \in Tokens
  PROVE  FreeOf(t)' + PutAside(t)' = FreeOf(t) + PutAside(t) + Fee(t, x)
<1> HIDE DEF Users, Dominators, Holdings, Keys
<1>1. /\ x.sell \in Tokens /\ x.buy \in Tokens /\ x.sellFee \in Nat /\ x.buyFee \in Nat
      /\ FreeOf(t) \in Int /\ PutAside(t) \in Int
  BY SupplyParts DEF Trades, Parts
<1>2. PICK broker \in Brokers \cup {0} :
        \/ PayBaseFee(d, x.sell, x.sellFee, broker) /\ PutProfit(d, x.buy, x.buyFee)
        \/ PayBaseFee(d, x.buy, x.buyFee, broker) /\ PutProfit(d, x.sell, x.sellFee)
  BY DEF Charged
<1>3. CASE PayBaseFee(d, x.sell, x.sellFee, broker) /\ PutProfit(d, x.buy, x.buyFee)
  <2>1. FreeOf(t)' = FreeOf(t) + (IF t = x.sell THEN x.sellFee ELSE 0)
    BY <1>1, <1>3, BaseFeePaid
  <2>2. PutAside(t)' = PutAside(t) + (IF t = x.buy THEN x.buyFee ELSE 0)
    BY <1>1, <1>3, ProfitPut
  <2>3. QED
    BY <1>1, <2>1, <2>2 DEF Fee
<1>4. CASE PayBaseFee(d, x.buy, x.buyFee, broker) /\ PutProfit(d, x.sell, x.sellFee)
  <2>1. FreeOf(t)' = FreeOf(t) + (IF t = x.buy THEN x.buyFee ELSE 0)
    BY <1>1, <1>4, BaseFeePaid
  <2>2. PutAside(t)' = PutAside(t) + (IF t = x.sell THEN x.sellFee ELSE 0)
    BY <1>1, <1>4, ProfitPut
  <2>3. QED
    BY <1>1, <2>1, <2>2 DEF Fee
<1>5. QED
  BY <1>2, <1>3, <1>4

LEMMA TradeKeepsSupply ==
  ASSUME Custodial, TypeOK', NEW d \in Dominators, NEW x \in Trades, x.sell # x.buy,
         Settled(d, x), Charged(d, x), NEW t \in Tokens
  PROVE  Supply(t)' = Supply(t)
<1> HIDE DEF Users, Dominators, Holdings, Keys
<1>1. Parts(t) /\ Parts(t)'
  BY SupplyParts, SupplyPartsAfter DEF Custodial
<1>2. ReservedOf(t)' = ReservedOf(t) - Fee(t, x)
  BY ReservedMoves
<1>3. FreeOf(t)' + PutAside(t)' = FreeOf(t) + PutAside(t) + Fee(t, x)
  BY FeesPaid DEF Custodial
<1>4. Fee(t, x) \in Nat
  BY DEF Fee, Trades
<1>5. QED
  BY <1>1, <1>2, <1>3, <1>4 DEF Parts

(* What moves between an account's free and reserved balance is no loss.   *)
LEMMA MoveKeepsSupply ==
  ASSUME NEW t \in Tokens, UNCHANGED profit,
         \A u \in Users : free'[<<u, t>>] + reserved'[<<u, t>>] = free[<<u, t>>] + reserved[<<u, t>>]
  PROVE  Supply(t)' = Supply(t)
<1>1. [u \in Users |-> free'[<<u, t>>] + reserved'[<<u, t>>]]
        = [u \in Users |-> free[<<u, t>>] + reserved[<<u, t>>]]
  OBVIOUS
<1>2. QED
  BY <1>1, Zenon DEF Supply, Total

(* Every step keeps the supply of every token, if no market has a token as *)
(* its own quote.                                                          *)
TwoSided == \A m \in Markets : m[1] # m[2]

LEMMA NextKeepsSupply ==
  ASSUME Custodial, [Next]_vars, TwoSided, NEW t \in Tokens
  PROVE  Supply(t)' = Supply(t)
<1>1. TypeOK /\ TypeOK'
  BY NextTypeOK DEF Custodial
<1>2. CASE UNCHANGED <<free, reserved, profit>>
  BY <1>2, MoveKeepsSupply
<1>3. CASE UNCHANGED vars
  BY <1>2, <1>3 DEF vars
<1>4. ASSUME NEW d \in Dominators, Governance(d)
      PROVE  Supply(t)' = Supply(t)
  BY <1>2, <1>4 DEF Governance, Register, Launch, Evict, Online, Offline, SetStatus, funds
<1>5. ASSUME NEW d \in Dominators, NEW v \in Users, UserCall(v, d)
      PROVE  Supply(t)' = Supply(t)
  <2>1. PICK c \in Tokens, y \in Amounts :
          \/ AuthorizeTo(v, d, c, y)
          \/ \E kind \in RevokeKinds : RevokeFrom(v, d, c, y, kind)
          \/ RevokeFromEvicted(v, d, c, y)
    BY <1>5 DEF UserCall
  <2>2. y \in Nat
    BY AmountAssumption
  <2>3. CASE AuthorizeTo(v, d, c, y)
    <3>1. ASSUME NEW u \in Users
          PROVE  free'[<<u, t>>] + reserved'[<<u, t>>] = free[<<u, t>>] + reserved[<<u, t>>]
      <4>1. free[<<u, t>>] \in Nat /\ reserved[<<u, t>>] \in Nat
        BY <1>1 DEF TypeOK
      <4>2. CASE u = v /\ t = c
        BY <1>1, <2>2, <2>3, <4>1, <4>2 DEF AuthorizeTo, TypeOK
      <4>3. CASE ~(u = v /\ t = c)
        BY <1>1, <2>3, <4>3 DEF AuthorizeTo, TypeOK
      <4>4. QED
        BY <4>2, <4>3
    <3>2. QED
      BY <2>3, <3>1, MoveKeepsSupply DEF AuthorizeTo
  <2>4. CASE \E kind \in RevokeKinds : RevokeFrom(v, d, c, y, kind)
    BY <1>2, <2>4 DEF RevokeFrom
  <2>5. CASE RevokeFromEvicted(v, d, c, y)
    <3>1. ASSUME NEW u \in Users
          PROVE  free'[<<u, t>>] + reserved'[<<u, t>>] = free[<<u, t>>] + reserved[<<u, t>>]
      <4>1. free[<<u, t>>] \in Nat /\ reserved[<<u, t>>] \in Nat
        BY <1>1 DEF TypeOK
      <4>2. CASE u = v /\ t = c
        BY <1>1, <2>2, <2>5, <4>1, <4>2 DEF RevokeFromEvicted, PayOut, TypeOK
      <4>3. CASE ~(u = v /\ t = c)
        BY <1>1, <2>5, <4>3 DEF RevokeFromEvicted, PayOut, TypeOK
      <4>4. QED
        BY <4>2, <4>3
    <3>2. QED
      BY <2>5, <3>1, MoveKeepsSupply DEF RevokeFromEvicted, PayOut
  <2>6. QED
    BY <2>1, <2>3, <2>4, <2>5
<1>6. ASSUME NEW d \in Dominators, NEW v \in Users, Resolve(v, d)
      PROVE  Supply(t)' = Supply(t)
  <2>1. receipts[<<v, d>>].kind # "None"
    BY <1>6 DEF Resolve, TransferIn, RejectTransferIn, TransferOut, TransferOutAndAuthorize,
                RejectTransferOut, CanTransferOut, RevokeKinds
  <2> PICK c \in Tokens, y \in Nat : c = receipts[<<v, d>>].token /\ y = receipts[<<v, d>>].amount
    BY <1>1, <2>1, PendingReceipt
  <2>2. CASE TransferIn(v, d) \/ RejectTransferIn(v, d) \/ RejectTransferOut(v, d)
    BY <1>2, <2>2 DEF TransferIn, RejectTransferIn, RejectTransferOut
  <2>3. ASSUME NEW z \in Int,
               free' = [free EXCEPT ![<<v, c>>] = @ + z],
               reserved' = [reserved EXCEPT ![<<v, c>>] = @ - z],
               UNCHANGED profit
        PROVE  Supply(t)' = Supply(t)
    <3>1. ASSUME NEW u \in Users
          PROVE  free'[<<u, t>>] + reserved'[<<u, t>>] = free[<<u, t>>] + reserved[<<u, t>>]
      <4>1. free[<<u, t>>] \in Nat /\ reserved[<<u, t>>] \in Nat
        BY <1>1 DEF TypeOK
      <4>2. CASE u = v /\ t = c
        BY <1>1, <2>3, <4>1, <4>2 DEF TypeOK
      <4>3. CASE ~(u = v /\ t = c)
        BY <1>1, <2>3, <4>3 DEF TypeOK
      <4>4. QED
        BY <4>2, <4>3
    <3>2. QED
      BY <2>3, <3>1, MoveKeepsSupply
  <2>4. CASE TransferOut(v, d)
    BY <2>3, <2>4, y \in Int DEF TransferOut
  <2>5. CASE \E e \in Dominators, w \in Amounts : TransferOutAndAuthorize(v, d, e, w)
    <3>1. PICK e \in Dominators, w \in Nat : TransferOutAndAuthorize(v, d, e, w)
      BY <2>5, AmountAssumption
    <3>2. /\ free' = [free EXCEPT ![<<v, c>>] = @ + y - w]
          /\ reserved' = [reserved EXCEPT ![<<v, c>>] = @ - y + w]
          /\ UNCHANGED profit
      BY <3>1 DEF TransferOutAndAuthorize
    <3>3. free[<<v, c>>] \in Nat /\ reserved[<<v, c>>] \in Nat
      BY <1>1 DEF TypeOK
    <3>4. /\ free[<<v, c>>] + y - w = free[<<v, c>>] + (y - w)
          /\ reserved[<<v, c>>] - y + w = reserved[<<v, c>>] - (y - w)
      BY <3>3
    <3>5. y - w \in Int
      OBVIOUS
    <3>6. QED
      BY <2>3, <3>2, <3>4, <3>5
  <2>6. QED
    BY <1>6, <2>2, <2>4, <2>5 DEF Resolve
<1>7. ASSUME NEW d \in Dominators, Match(d)
      PROVE  Supply(t)' = Supply(t)
  <2>1. CASE \E v \in Users, c \in Tokens, y \in Nat : Cancel(v, d, c, y)
    BY <1>2, <2>1 DEF Cancel
  <2>2. ASSUME NEW x \in Trades, Settled(d, x), Charged(d, x)
        PROVE  Supply(t)' = Supply(t)
    <3>1. x.sell # x.buy
      BY <2>2 DEF Charged, TwoSided
    <3>2. QED
      BY <1>1, <2>2, <3>1, TradeKeepsSupply
  <2>3. QED
    BY <1>7, <2>1, <2>2, LimitOrders
<1>8. QED
  BY <1>3, <1>4, <1>5, <1>6, <1>7, Zenon DEF Next

(* While no authorization is rejected, the stash at a dominator that is    *)
(* not evicted is what the pending receipt names.                          *)
Pending(u, t, d) ==
  IF receipts[<<u, d>>].kind = "Authorize" /\ receipts[<<u, d>>].token = t
  THEN receipts[<<u, d>>].amount ELSE 0

StashIsPending ==
  \A u \in Users, t \in Tokens, d \in Dominators :
    status[d] # "Evicted" => stash[<<u, t, d>>] = Pending(u, t, d)

LEMMA StashIsPendingStep ==
  ASSUME TypeOK, StashIsPending, [Next]_vars, ~MatcherMayReject
  PROVE  StashIsPending'
<1>1. SUFFICES ASSUME NEW u \in Users, NEW t \in Tokens, NEW e \in Dominators, status'[e] # "Evicted"
               PROVE  stash'[<<u, t, e>>] = Pending(u, t, e)'
  BY DEF StashIsPending
<1>2. CASE status[e] # "Evicted" /\ receipts'[<<u, e>>] = receipts[<<u, e>>]
           /\ stash'[<<u, t, e>>] = stash[<<u, t, e>>]
  BY <1>2 DEF StashIsPending, Pending
<1>3. CASE UNCHANGED vars
  BY <1>1, <1>2, <1>3 DEF vars
<1>4. ASSUME NEW d \in Dominators, Governance(d)
      PROVE  stash'[<<u, t, e>>] = Pending(u, t, e)'
  BY <1>1, <1>2, <1>4 DEF Governance, Register, Launch, Evict, Online, Offline, SetStatus,
                          funds, TypeOK
<1>5. ASSUME NEW d \in Dominators, NEW v \in Users, UserCall(v, d)
      PROVE  stash'[<<u, t, e>>] = Pending(u, t, e)'
  <2>1. PICK c \in Tokens, y \in Amounts :
          \/ AuthorizeTo(v, d, c, y)
          \/ \E kind \in RevokeKinds : RevokeFrom(v, d, c, y, kind)
          \/ RevokeFromEvicted(v, d, c, y)
    BY <1>5 DEF UserCall
  <2>2. y \in Nat
    BY AmountAssumption
  <2>3. status' = status
    BY <2>1 DEF AuthorizeTo, RevokeFrom, RevokeFromEvicted, PayOut
  <2>4. CASE AuthorizeTo(v, d, c, y)
    <3>1. CASE v = u /\ d = e
      <4>1. receipts[<<u, e>>] = NoReceipt /\ receipts'[<<u, e>>] = Receipt("Authorize", c, y)
        BY <2>4, <3>1 DEF AuthorizeTo, TypeOK
      <4>2. stash[<<u, t, e>>] = 0
        BY <1>1, <2>3, <4>1 DEF StashIsPending, Pending, NoReceipt, Receipt
      <4>3. stash'[<<u, t, e>>] = IF t = c THEN y ELSE 0
        <5>1. CASE t = c
          BY <2>2, <2>4, <3>1, <4>2, <5>1 DEF AuthorizeTo, TypeOK
        <5>2. CASE t # c
          BY <2>4, <3>1, <4>2, <5>2 DEF AuthorizeTo, TypeOK
        <5>3. QED
          BY <5>1, <5>2
      <4>4. QED
        BY <4>1, <4>3 DEF Pending, Receipt
    <3>2. CASE ~(v = u /\ d = e)
      <4>1. receipts'[<<u, e>>] = receipts[<<u, e>>] /\ stash'[<<u, t, e>>] = stash[<<u, t, e>>]
        BY <2>4, <3>2 DEF AuthorizeTo, TypeOK
      <4>2. QED
        BY <1>1, <1>2, <2>3, <4>1
    <3>3. QED
      BY <3>1, <3>2
  <2>5. CASE \E kind \in RevokeKinds : RevokeFrom(v, d, c, y, kind)
    <3>1. PICK kind \in RevokeKinds : RevokeFrom(v, d, c, y, kind)
      BY <2>5
    <3>2. CASE v = u /\ d = e
      <4>1. receipts[<<u, e>>] = NoReceipt /\ receipts'[<<u, e>>] = Receipt(kind, c, y)
        BY <3>1, <3>2 DEF RevokeFrom, TypeOK
      <4>2. kind # "Authorize"
        BY DEF RevokeKinds
      <4>3. stash[<<u, t, e>>] = 0 /\ stash' = stash
        BY <1>1, <2>3, <3>1, <4>1 DEF StashIsPending, Pending, NoReceipt, Receipt, RevokeFrom
      <4>4. QED
        BY <4>1, <4>2, <4>3 DEF Pending, Receipt
    <3>3. CASE ~(v = u /\ d = e)
      <4>1. receipts'[<<u, e>>] = receipts[<<u, e>>] /\ stash' = stash
        BY <3>1, <3>3 DEF RevokeFrom, TypeOK
      <4>2. QED
        BY <1>1, <1>2, <2>3, <4>1
    <3>4. QED
      BY <3>2, <3>3
  <2>6. CASE RevokeFromEvicted(v, d, c, y)
    <3>1. d # e
      BY <1>1, <2>3, <2>6 DEF RevokeFromEvicted, PayOut
    <3>2. receipts'[<<u, e>>] = receipts[<<u, e>>] /\ stash'[<<u, t, e>>] = stash[<<u, t, e>>]
      BY <2>6, <3>1 DEF RevokeFromEvicted, PayOut, TypeOK
    <3>3. QED
      BY <1>1, <1>2, <2>3, <3>2
  <2>7. QED
    BY <2>1, <2>4, <2>5, <2>6
<1>6. ASSUME NEW d \in Dominators, NEW v \in Users, Resolve(v, d)
      PROVE  stash'[<<u, t, e>>] = Pending(u, t, e)'
  <2>1. receipts[<<v, d>>].kind # "None" /\ status' = status
    BY <1>6 DEF Resolve, TransferIn, RejectTransferIn, TransferOut, TransferOutAndAuthorize,
                RejectTransferOut, CanTransferOut, RevokeKinds
  <2> PICK c \in Tokens, y \in Nat : c = receipts[<<v, d>>].token /\ y = receipts[<<v, d>>].amount
    BY <2>1, PendingReceipt
  <2>2. CASE TransferIn(v, d)
    <3>1. CASE v = u /\ d = e
      <4>1. receipts'[<<u, e>>] = NoReceipt
        BY <2>2, <3>1 DEF TransferIn, TypeOK
      <4>2. stash'[<<u, t, e>>] = 0
        <5>1. CASE t = c
          BY <2>2, <3>1, <5>1 DEF TransferIn, TypeOK
        <5>2. CASE t # c
          <6>1. stash'[<<u, t, e>>] = stash[<<u, t, e>>]
            BY <2>2, <3>1, <5>2 DEF TransferIn, TypeOK
          <6>2. QED
            BY <1>1, <2>1, <3>1, <5>2, <6>1 DEF StashIsPending, Pending
        <5>3. QED
          BY <5>1, <5>2
      <4>3. QED
        BY <4>1, <4>2 DEF Pending, NoReceipt, Receipt
    <3>2. CASE ~(v = u /\ d = e)
      <4>1. receipts'[<<u, e>>] = receipts[<<u, e>>] /\ stash'[<<u, t, e>>] = stash[<<u, t, e>>]
        BY <2>2, <3>2 DEF TransferIn, TypeOK
      <4>2. QED
        BY <1>1, <1>2, <2>1, <4>1
    <3>3. QED
      BY <3>1, <3>2
  <2>3. CASE RejectTransferIn(v, d)
    BY <2>3 DEF RejectTransferIn
  <2>4. CASE TransferOut(v, d) \/ RejectTransferOut(v, d)
    <3>1. receipts' = [receipts EXCEPT ![<<v, d>>] = NoReceipt] /\ stash' = stash
      BY <2>4 DEF TransferOut, RejectTransferOut
    <3>2. receipts[<<v, d>>].kind # "Authorize"
      BY <2>4 DEF TransferOut, CanTransferOut, RejectTransferOut, RevokeKinds
    <3>3. CASE v = u /\ d = e
      <4>1. receipts'[<<u, e>>] = NoReceipt
        BY <3>1, <3>3 DEF TypeOK
      <4>2. stash'[<<u, t, e>>] = 0
        BY <1>1, <2>1, <3>1, <3>2, <3>3 DEF StashIsPending, Pending
      <4>3. QED
        BY <4>1, <4>2 DEF Pending, NoReceipt, Receipt
    <3>4. CASE ~(v = u /\ d = e)
      <4>1. receipts'[<<u, e>>] = receipts[<<u, e>>]
        BY <3>1, <3>4 DEF TypeOK
      <4>2. QED
        BY <1>1, <1>2, <2>1, <3>1, <4>1
    <3>5. QED
      BY <3>3, <3>4
  <2>5. CASE \E f \in Dominators, w \in Amounts : TransferOutAndAuthorize(v, d, f, w)
    <3>1. PICK f \in Dominators, w \in Nat : TransferOutAndAuthorize(v, d, f, w)
      BY <2>5, AmountAssumption
    <3>2. /\ stash' = [stash EXCEPT ![<<v, c, f>>] = @ + w]
          /\ receipts' = [[receipts EXCEPT ![<<v, d>>] = NoReceipt]
                              EXCEPT ![<<v, f>>] = Receipt("Authorize", c, w)]
          /\ (f = d \/ receipts[<<v, f>>] = NoReceipt)
          /\ receipts[<<v, d>>].kind # "Authorize"
      BY <3>1 DEF TransferOutAndAuthorize, CanTransferOut, TypeOK
    <3>3. CASE v = u /\ f = e
      <4>1. receipts'[<<u, e>>] = Receipt("Authorize", c, w)
        BY <3>2, <3>3 DEF TypeOK
      <4>2. receipts[<<u, e>>].kind # "Authorize"
        BY <3>2, <3>3 DEF NoReceipt, Receipt
      <4>3. stash[<<u, t, e>>] = 0
        BY <1>1, <2>1, <4>2 DEF StashIsPending, Pending
      <4>4. stash'[<<u, t, e>>] = IF t = c THEN w ELSE 0
        <5>1. CASE t = c
          BY <3>2, <3>3, <4>3, <5>1 DEF TypeOK
        <5>2. CASE t # c
          BY <3>2, <3>3, <4>3, <5>2 DEF TypeOK
        <5>3. QED
          BY <5>1, <5>2
      <4>5. QED
        BY <4>1, <4>4 DEF Pending, Receipt
    <3>4. CASE v = u /\ d = e /\ f # e
      <4>1. receipts'[<<u, e>>] = NoReceipt /\ stash'[<<u, t, e>>] = stash[<<u, t, e>>]
        BY <3>2, <3>4 DEF TypeOK
      <4>2. stash[<<u, t, e>>] = 0
        BY <1>1, <2>1, <3>2, <3>4 DEF StashIsPending, Pending
      <4>3. QED
        BY <4>1, <4>2 DEF Pending, NoReceipt, Receipt
    <3>5. CASE ~(v = u /\ (d = e \/ f = e))
      <4>1. receipts'[<<u, e>>] = receipts[<<u, e>>] /\ stash'[<<u, t, e>>] = stash[<<u, t, e>>]
        BY <3>2, <3>5 DEF TypeOK
      <4>2. QED
        BY <1>1, <1>2, <2>1, <4>1
    <3>6. QED
      BY <3>3, <3>4, <3>5
  <2>6. QED
    BY <1>6, <2>2, <2>3, <2>4, <2>5 DEF Resolve
<1>7. ASSUME NEW d \in Dominators, Match(d)
      PROVE  stash'[<<u, t, e>>] = Pending(u, t, e)'
  <2>1. UNCHANGED <<status, receipts, stash>>
    BY <1>7, MatchCases DEF Cancel
  <2>2. QED
    BY <1>1, <1>2, <2>1
<1>8. QED
  BY <1>3, <1>4, <1>5, <1>6, <1>7, Zenon DEF Next

(* Then a TransferIn never finds more in the stash than its receipt names. *)
LEMMA NothingStrandedStep ==
  ASSUME Custodial, StashIsPending, NothingStranded, [Next]_vars
  PROVE  NothingStranded'
<1>1. SUFFICES ASSUME NEW u \in Users, NEW t \in Tokens
               PROVE  Stranded(u, t)' = 0
  BY DEF NothingStranded
<1>2. ASSUME NEW d \in Dominators, status[d] = "Active", StrandsExcess(u, t, d)
      PROVE  FALSE
  <2>1. stash[<<u, t, d>>] = receipts[<<u, d>>].amount
    BY <1>2 DEF StashIsPending, Pending, StrandsExcess
  <2>2. stash[<<u, t, d>>] > receipts[<<u, d>>].amount /\ stash[<<u, t, d>>] \in Nat
    BY <1>2 DEF StrandsExcess, Custodial, TypeOK
  <2>3. QED
    BY <2>1, <2>2
<1>3. Stranded(u, t)' = Stranded(u, t)
  BY <1>2, StrandedStep DEF Custodial
<1>4. QED
  BY <1>3 DEF NothingStranded

(* What the initial state has. *)
LEMMA InitHoldings == Init => Conservation /\ StashIsPending /\ NothingStranded
<1> SUFFICES ASSUME Init PROVE Conservation /\ StashIsPending /\ NothingStranded
  OBVIOUS
<1>1. StashIsPending
  BY DEF Init, StashIsPending, Pending, NoReceipt, Receipt
<1>2. ASSUME NEW u \in Users, NEW t \in Tokens
      PROVE  Stranded(u, t) = 0
  <2> DEFINE zero == [d \in Dominators |-> 0]
  <2>1. ClaimsByDominator(u, t) = zero
    BY DEF Init, ClaimsByDominator, Claim
  <2>2. zero \in [1..NDominators -> Int] /\ \A d \in 1..NDominators : zero[d] = 0
    OBVIOUS
  <2> HIDE DEF zero
  <2>3. SumTo(zero, NDominators) = 0
    BY <2>2, CountAssumption, SumToZeros
  <2>4. Claims(u, t) = 0
    BY <2>1, <2>3, ClaimsAre
  <2>5. reserved[<<u, t>>] = 0
    BY DEF Init
  <2>6. QED
    BY <2>4, <2>5 DEF Stranded
<1>3. ASSUME NEW t \in Tokens
      PROVE  Supply(t) = Total([u \in Users |-> InitFree[<<u, t>>]])
  <2> DEFINE zero == [d \in Dominators |-> 0]
             h == [u \in Users |-> free[<<u, t>>] + reserved[<<u, t>>]]
             g == [u \in Users |-> InitFree[<<u, t>>]]
  <2>1. [d \in Dominators |-> profit[<<t, d>>]] = zero
    BY DEF Init
  <2>2. zero \in [1..NDominators -> Int] /\ \A d \in 1..NDominators : zero[d] = 0
    OBVIOUS
  <2>3. \A u \in Users : free[<<u, t>>] + reserved[<<u, t>>] = InitFree[<<u, t>>]
    BY InitFreeAssumption DEF Init
  <2>4. h = g /\ g \in [Users -> Nat]
    BY <2>3, InitFreeAssumption
  <2>5. Supply(t) = Total(h) + SumTo(zero, NDominators)
    BY <2>1 DEF Supply
  <2> HIDE DEF zero, h, g
  <2>6. SumTo(zero, NDominators) = 0
    BY <2>2, CountAssumption, SumToZeros
  <2>7. Total(g) \in Nat
    BY <2>4, TotalNat
  <2>8. Supply(t) = Total(g)
    BY <2>4, <2>5, <2>6, <2>7
  <2>9. QED
    BY <2>8 DEF g
<1>4. QED
  BY <1>1, <1>2, <1>3 DEF NothingStranded, Conservation

-----------------------------------------------------------------------------
(* The theorems. *)

(* At a live dominator the Reserves entries equal the matcher's book, so   *)
(* every proof passes has_authorized_exactly_on with no slack.             *)
THEOREM BookAndReservesAgree == Spec => []BookMatchesReserves
BY CustodialInvariant, PTL DEF Custodial

(* The token pallet never has less reserved than the verifier's Reserves   *)
(* entries: no unreserve fails and no clear finds less than it takes.      *)
THEOREM ReservedAlwaysCovers == Spec => []ReservedCoversClaims
BY CustodialInvariant, PTL DEF Custodial

(* A TransferIn never credits more than authorize_to has reserved.         *)
THEOREM AuthorizationsAreBacked == Spec => []StashCoversReceipt
BY CustodialInvariant, PTL DEF Custodial

(* What revoke_from checks when the receipt is made still holds whenever   *)
(* the book has the amount available: no revocation is stuck for good.     *)
THEOREM RevocationsAreResolvable == Spec => []RevokeResolvable
<1>1. Custodial => RevokeResolvable
  <2> SUFFICES ASSUME Custodial, NEW u \in Users, NEW d \in Dominators,
                      status[d] = "Active", receipts[<<u, d>>].kind \in RevokeKinds,
                      book[<<u, receipts[<<u, d>>].token, d>>].available
                        >= receipts[<<u, d>>].amount
               PROVE  /\ authorizing[<<u, receipts[<<u, d>>].token, d>>]
                            >= receipts[<<u, d>>].amount
                      /\ reserved[<<u, receipts[<<u, d>>].token>>] >= receipts[<<u, d>>].amount
    <3>1. Custodial => TypeOK
      BY DEF Custodial
    <3>2. ASSUME TypeOK, NEW u \in Users, NEW d \in Dominators,
                 receipts[<<u, d>>].kind \in RevokeKinds
          PROVE  /\ book[<<u, receipts[<<u, d>>].token, d>>].available \in Nat
                 /\ receipts[<<u, d>>].amount \in Nat
      <4>1. receipts[<<u, d>>].token \in Tokens /\ receipts[<<u, d>>].amount \in Nat
        BY <3>2, PendingReceipt DEF RevokeKinds
      <4>2. QED
        BY <3>2, <4>1 DEF TypeOK
    <3>3. QED
      BY <3>1, <3>2 DEF RevokeResolvable
  <2>1. TypeOK /\ BookMatchesReserves /\ ReservedCoversClaims
    BY DEF Custodial
  <2> PICK t \in Tokens, x \in Nat : t = receipts[<<u, d>>].token /\ x = receipts[<<u, d>>].amount
    BY <2>1, PendingReceipt DEF RevokeKinds
  <2>2. /\ authorizing[<<u, t, d>>] \in Nat /\ stash[<<u, t, d>>] \in Nat
        /\ book[<<u, t, d>>].available \in Nat /\ book[<<u, t, d>>].frozen \in Nat
        /\ reserved[<<u, t>>] \in Nat
    BY <2>1 DEF TypeOK
  <2>3. authorizing[<<u, t, d>>] >= x
    BY <2>1, <2>2 DEF BookMatchesReserves, LeafSum
  <2>4. Claim(u, t, d) <= Claims(u, t) /\ Claims(u, t) \in Nat
    BY <2>1, ClaimWithinClaims
  <2>5. reserved[<<u, t>>] >= Claims(u, t)
    BY <2>1 DEF ReservedCoversClaims
  <2>6. reserved[<<u, t>>] >= x
    BY <2>2, <2>3, <2>4, <2>5 DEF Claim
  <2>7. QED
    BY <2>3, <2>6
<1>2. QED
  BY <1>1, CustodialInvariant, PTL

(* Reserved funds lose their Reserves entry in one way only: a TransferIn  *)
(* that clears a stash with the remains of rejected authorizations.        *)
THEOREM StrandingIsTransferIn == Spec => StrandedOnlyByTransferIn
<1>1. Custodial /\ [Next]_vars =>
        [\A u \in Users, t \in Tokens :
          \/ Stranded(u, t)' = Stranded(u, t)
          \/ \E d \in Dominators : StrandsExcess(u, t, d)]_vars
  BY StrandedStep DEF Custodial
<1>2. QED
  BY <1>1, CustodialInvariant, PTL DEF Spec, StrandedOnlyByTransferIn

(* Whatever is authorized, traded, paid as a fee, shared with a broker or  *)
(* revoked, rejections of the matcher included, the supply stays.          *)
THEOREM SupplyIsKept == ASSUME TwoSided PROVE Spec => []Conservation
<1>1. Init => Conservation
  BY InitHoldings
<1>2. Custodial /\ Conservation /\ [Next]_vars => Conservation'
  BY NextKeepsSupply DEF Conservation
<1>3. QED
  BY <1>1, <1>2, CustodialInvariant, PTL DEF Spec

(* Where no authorization is rejected, moreover every reserved unit is in  *)
(* an entry of Reserves: it can be revoked, or is on its way in.           *)
THEOREM HoldingsAlwaysAddUp == ASSUME TwoSided, ~MatcherMayReject PROVE Spec => []HoldingsAddUp
<1>1. Init => StashIsPending /\ NothingStranded
  BY InitHoldings
<1>2. Custodial /\ StashIsPending /\ NothingStranded /\ [Next]_vars
        => StashIsPending' /\ NothingStranded'
  BY StashIsPendingStep, NothingStrandedStep DEF Custodial
<1>3. Spec => [](StashIsPending /\ NothingStranded)
  BY <1>1, <1>2, CustodialInvariant, PTL DEF Spec
<1>4. QED
  BY <1>3, SupplyIsKept, TypeCorrect, PTL DEF HoldingsAddUp
=============================================================================
