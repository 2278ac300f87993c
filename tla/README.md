# Fusotao: TLA+ models, checks and proofs

Fusotao is a Substrate chain that settles trades made off chain. Users hand
tokens to a *dominator* (an off-chain order matcher); the matcher sends Merkle
proofs of what it did with them, and the chain checks the proofs and moves
balances. Around this core there are staking on dominators, a bridge to other
chains, liquidity rewards, markets and brokers, vesting vaults, agents and bots,
a tournament with betting, and an RPC relay between users and matchers.

This directory holds TLA+ modules that model the parts with the hardest
behaviour, TLC configurations that check them on small instances, and TLAPS
proofs of the most important invariants for all instances.

## 1. Inventory

Two facts hold everywhere on chain. Every extrinsic is a storage transaction: a
call that returns an error changes nothing. And the release build has no
overflow checks: `+` and `-` on `u128` wrap, `checked_*` fail.

| Component (src/...) | State | Operations | Hard behaviour | What makes it correct |
|---|---|---|---|---|
| `pallets/verifier`, custody | `Receipts`, `Reserves` (authorizing, stash), each dominator's Merkle root, token balances | `authorize`, `revoke`, `revoke_with_callback`; proofs `AskLimit`, `BidLimit`, `Cancel`, `TransferIn/Out`, `RejectTransferIn/Out` | calls and proofs interleave; one receipt pending per user; callbacks inside a batch; eviction with receipts pending; three records of one balance | records agree, nothing is created, lost or stuck, receipts are answered |
| `pallets/verifier`, staking | `Dominators` (status, staked, start), `Stakings`, `Bonuses`, `PendingUnstakings`, `Reserves` | `register`, `launch`, `evict`, `stake`, `unstake`, `claim_shares`, `on_initialize` | snapshot at the end of a season against calls of neighbouring blocks; delayed unlock; rounding | a profit is paid once, unstaked tokens come back, online exactly at the threshold |
| `pallets/chainbridge` | relayers and their number, threshold, resources, chain nonces, votes | admin calls, `acknowledge_proposal`, `reject_proposal`, `eval_vote_state`, transfers out | votes across changes of relayers and threshold; late and repeated votes; expiry | at most one dispatch, only with a quorum |
| `pallets/chainbridge-handler` | associated dominators, fees, the check on native amounts | `transfer_out` (lock or burn), `transfer_in` (unlock or mint, then authorize, then donate) | decimals converted twice; a failed `authorize_to` is ignored; a failed call rolls the vote back | the bridge can pay what it owes, burned = announced, every deposit arrives |
| `pallets/token` | balances, issuance, token infos | issue, transfer, mint, burn, reserve, repatriate | conversion of decimals wraps; native token forwarded to `pallet_balances` | issuance is the sum of balances |
| `pallets/market`, `pallets/indicator` | brokers and markets; prices | register, deregister, apply, open, `set_price` | stakes of brokers on one pot; applying for and opening an open market again | stakes come back, a market has the terms its dominator opened it with |
| `pallets/reward` | liquidity, contributions and rewards per era | `put/consume/remove_liquidity`, `take_reward` | a share is worked out when its account is next touched, with the figures of that time | shares fit into the era, which is paid once, and are not lost |
| `pallets/foundation` | vaults, approvals | `put_into_vault`, `approve`, unlock per epoch | off-by-one between approvals and unlocks; dead accounts; totals that wrap, funds without parts or interval | the hook unlocks what was put in, and nothing other pallets reserved; vaults end |
| `pallets/agent`, `pallets/bot` | nonces; bots and sub-accounts | submit an externally signed call; deposit, revoke | validation changes state; nonces shared with other signatures; nonces that go with their account; calls into the verifier | a signed call runs once in a life of its account |
| `pallets/abyss-tournament` | battles, bettings, bets, votes, tickets, prize pools | create, bet, settle, claim, vote | results set twice; pledge and compensation; floors | winners can be paid |
| `rpc/src/broker` | sessions, request ids, pending requests, subscriptions, queue | a task per call, a connector task per session | concurrent tasks, timeouts, lost connections, sessions that race | one answer per call, its own; every call ends |

Interaction: the verifier calls the token pallet (reserve, unreserve,
`try_mutate_account`), the reward pallet (liquidity of makers), the market pallet
(broker beneficiaries) and the indicator. The handler is dispatched by
chainbridge votes and calls `authorize_to` of the verifier. Bot and agent call the
verifier as their accounts. The RPC relay talks to the matcher and reads the chain.

The list of what is hard to test, line by line, is `hazards` in PROJECT.json.

## 2. Plan

The core of the system was modelled first (custody, staking, the bridge's votes, the
tournament), then what depends on it. Each line is a component with its abstract
specification where it has one, and what composes it:

1. `Custody`, `Staking` (verifier); proofs of both.
2. `Chainbridge`, which implements `Delivery`; proofs, the refinement among them.
3. `Betting`, `Season` (tournament); proofs of both.
4. `Relay` (rpc broker), which implements `Answers`; proofs, the refinement among them.
5. `Token`, and on it `Bridge` (handler, indicator, the authorizations of the verifier); proofs.
6. `Reward`, driven by the orders, trades and cancellations of the verifier; proofs.
7. `Native`, on it `Market` and `Foundation`, and both under `Agent`; proofs.

Every safety property of a passing run, invariant, action property or refinement, is a theorem.
What could follow: a composition of `Custody` and `Staking` in which a callback changes the status
inside a batch; the leaf arithmetic of `verify_ask_limit` and `verify_bid_limit` with its width; a
composition of `Chainbridge` and `Bridge`, in which the votes decide when `transfer_in` is called.

## 3. Modules

### Custody (pallets/verifier/src/lib.rs)

State: `status` (`Dominators[d].status`), `receipts`, `authorizing` and `stash` (the
two kinds of `Reserves`), `free` and `reserved` (the token pallet), `book` (the leaves
under the dominator's Merkle root, available and frozen), `profit` (`Bonuses`).

Actions: `AuthorizeTo`, `RevokeFrom` and `RevokeFromEvicted` are `authorize_to` and the
two branches of `revoke_from`; `TransferIn`, `RejectTransferIn`, `TransferOut`,
`TransferOutAndAuthorize`, `RejectTransferOut`, `Cancel`, `AskLimit`, `BidLimit` are the
arms of `verify_and_update`; `Register`, `Launch`, `Evict`, `Online`, `Offline` move the
status.

Abstractions:
- A Merkle root commits to its tree, so the tree is the variable and a proof with a
  wrong old leaf is a step that cannot be taken. A batch is its proofs one after
  another: within a batch nothing else runs.
- The matcher is outside the repository. It is modelled as one that never overdraws
  the available balances of its own book and matches no order with its owner; what it
  trades, with whom and when is free. The order-book leaves (sizes, best price, order
  pages) and the price are therefore abstracted to who gets and gives how much.
- A callback is a whole call dispatched as the user. It is modelled as one that
  authorizes to some dominator, the case that touches the same state, or as one
  without effect here. A callback that fails is logged and changes nothing.
- Calls to the reward pallet and the indicator do not touch this state; `Reward` and
  `Bridge` have them.
- The check that an account's balances stay above an existential deposit is the native
  token's and is left out.

### Staking (pallets/verifier/src/lib.rs)

State: the block number, each dominator's status, start and stake, `staking` (amount and
`from_season`), `bonuses` (stake at the end and profit of each season), the two reserves,
`pending`, balances and `earned`, what a staker has been paid.

`NewBlock` is `on_initialize` as a whole: every `GracePeriod` blocks it writes down the
stakes of the seasons that end and drains the unlocks of this block. `StakeOn`,
`UnstakeFrom` and `ClaimShares` are the extrinsics, each with its `take_shares`.
`PutProfit` is a trade's fee; `Online` is the comparison with the threshold.
One quote token; `Perquintill` is exact up to `Parts` with the same rounding (down in
`from_rational`, to the nearest in the product).

### Chainbridge (pallets/chainbridge/src/lib.rs)

State: block number, relayer set and counter, threshold, registered resources, nonce per
whitelisted chain, votes per proposal (two lists, status, expiry), and how often the
call of each proposal was dispatched, which the code shows only in events. One action
per extrinsic. `Delivery` is what this comes to for a message: open, until it is executed
or dropped once; `Deliveries` maps a proposal to it. A resource id is one that passes the token lookup of `set_resource`. The
dispatched call is opaque; it does not vote itself (the bridge account is no relayer).

### Betting (pallets/abyss-tournament/src/lib.rs)

State: the time, `battle` and `next_battle` (`Battles`, `NextBattleId`), `betting` and
`next_betting` (a betting's battle, type, `total_pledge` and odds items with their
booking), `stake` and `claimed` (`BettingRecords`), `invited` (`BettingInviteAmount`),
`free` (balances of AWT, pledge accounts included). Histories for the properties:
`paid`, `withdrawn`, `paidOn` (the results claims were paid for), `revoked` (the remains
were taken since `total_pledge` was last written).

One action per extrinsic: `CreateBattle`, `UpdateBattle`, `SetResult`, `FinalsSettle`,
`LeagueSettle`, `CreateBetting`, `UpdateOdds`, `DropBetting`, `RevokeRemainCompensate`,
`AppendBettingPledge`, `GoBet`, `GoBetWithInvite`, `BettingClaim`, and `Transfer`, the
token pallet's, into a pledge account. `update_battle` neither looks whether the battle
exists nor at its status, and so does the action. `revoke_remain_compensate` does not
reduce `total_pledge`, so that a second call takes as much again, out of what winners are
owed; `PoolPaysOnce` says what the first one may take.

Abstractions: one token; a betting is on one battle, which is what `Betting::check`
demands; the organizer of battles is the creator of the betting; records are kept by
item and odds, which is how the code merges them; odds are named by their place in
`OddsValues`, and the default odds are one of `OddsLists`. What settling does to votes is
in `Season`.

### Season (pallets/abyss-tournament/src/lib.rs)

State: battles with the winner kept in `SeasonWinners`, `tickets` (total and remaining),
`votes` and `claimed` (`VoteSelectInfos`), `calc` (`VotesForCalc`), `points`
(`ParticipantPoints`), `season` (status, bonuses, tickets sold), balances. `given` counts
tickets given away; `disturbed` says that a settled battle was changed, `sound` that the
season was closed on settled results and left alone by the organizer since.

`AppendVote` and `SplitVote` are the two branches of `append_vote`; the others are one
extrinsic each. A list of votes is a function from battles to npcs. Settling gives every
select in `calc` its points; `CloseSeason` counts tickets by points; `Claim` counts right
picks again. A vote on a battle that never had a result makes `claim` panic: the step is
not taken. One season and one start time for it and its battles; prices are in units of
which a ticket costs 20.

### Relay and Answers (rpc/src/broker)

Every RPC call is a task; a step is what it does between two awaits or two operations on a
shared map. `pc` says where a task is, `session`, `id` and `slot` are its locals; `cache` is
`backend_sessions`, and `nextId`, `reqs`, `subs`, `queue` and `link` are the fields of a session
and its connector. `Lookup` and `Create` are apart because two tasks may both find no session
and make one each; the one that is replaced lives on for the calls that hold it. `Start`
registers the channel, `Enqueue` and `SendTimeout`, `Receive` and `WaitTimeout` are the two
`select!`s, `Subscribe` inserts the caller after the answer. The connector `Connect`s,
`SendOut` or loses (`SendFails`) what it takes from the queue, `Deliver`s, `Break`s.

The prover and the network are external: `Serve` answers, with success or an error, in any
order; a connection loses what is under way. `Answers` says what callers may rely on, and
`Ledger` maps a call to it. Left out: the handshake of keys and nonces of a connection, the
bodies of requests, the trading keys' signatures, pushes of orders to subscribers except
that a failed one removes the subscriber.

### Token and Bridge (pallets/token, chainbridge-handler, indicator)

`Token` has the tokens, their balances and the conversion of decimals, whose products wrap
at `Width`. Ledger operations are operators on the balances with a predicate for the errors,
since the handler makes several of them in a call, and a call that fails leaves nothing.

`Bridge` adds the handler's settings, prices, the dominators' status and receipts as far as
`authorize_to` reads and writes them, whether a user has ever signed (which ends donations),
and the two sides of the bridge: `inbound`, deposits outside, and `announced`, what
`transfer_fungible` told other chains to pay. `do_lock` and `do_burn_assets` are the branches
of `transfer_out`. `transfer_in` is the call of an approved proposal: here it is one step
from a deposit to its arrival. That the call is made at most once is not the handler's doing but
that of the votes: `Bridge` takes it from `Chainbridge`, which shows it. `Drop` is
a proposal that was cancelled or expired. A resource id is a triple of chain, associated id and
contract; contracts outside release a native token only after it was announced. Powers of ten
are a recursive function (`Power`) up to `MAX_DECIMALS`, and sums over accounts, resource ids and
messages those of the community modules, so that both can be evaluated and reasoned about.

### Reward (pallets/reward)

`orders` are the matcher's; `pool`, `taken`, `volumes`, `rewards` and `legacy` are
`LiquidityPool`, `TakenLiquidity`, `TradingVolumes`, `MarketingRewards` and `Rewards`. `Place`,
`Trade` and `Cancel` are the arms of `verify_and_update` as far as they call the pallet, `Rotated`
is the rotation of a record that trades and claims share. Two things a reader of the code
should know: `Cancel` removes liquidity by the amount of the order, where placing put it by
its volume, so that liquidity stays after the order is gone; and the comment on the
reward's formula (`lib.rs:408`) divides by 720 what the code rounds up to at least 1
(`lib.rs:424`). Neither breaks what the run checks. One symbol, no fees (fees change volumes
only), a maker at a time.

### Native, Market, Foundation and Agent

`Native` is `pallet_balances` as the others use it, with its existential deposit. `Market` has
brokers and their stakes, and markets with status and terms. `Foundation` has vaults and approvals;
`unlock_fund` folds over the vaults, because one release may end another account. `put_into_vault`
takes any fund, and so does the model: the total is worked out modulo `Width`, a vault without parts
(`times` 0) counts on from `EpochWidth - 1`, and one without an interval makes `on_initialize` divide
by zero at its first epoch, after which there is no block any more (`Panics`). The history variable
`unsound` has the accounts that were ever given a fund that is not `Sound`; what is reserved of
them, and approvals of their parts, are what `LedgersAgree` says nothing of, because their vaults
release what was never put in. The supply of tokens and the ownership of stakes are claimed for all funds.

A reader of the code should know what that exemption hides, and what `MCAgent` reaches with the
setup `unsound`: account 2 authorizes 2 tokens, a fund of one part of 9 after a first 8 is put into
its vault, 17 is 1 modulo 16 and 1 is reserved, and the first release gives back all 3 that are
reserved, the 2 that a dominator holds included. In the code the width is 2^128 and the product of
`amount` and `times` wraps in a release build (`foundation/src/lib.rs:183`).

`Agent` composes them: an account that signs itself (`Submit`), one that signs with another
chain's key (`submit_external_tx`, where the fee and the nonce are taken by validation, even if
the call then fails), and the beneficiary's consent in `dominator_set_beneficiary`, all on one
nonce. Any signed call may be submitted any number of times. `authorize` and `revoke` are here as
far as they reserve native tokens: they are what else is reserved of an account with a vault, and
`authorized` is what dominators hold of it. `SignedCalls` bounds what is called in a run; the proofs
take it to be any set of calls of `CallType`.

The runtime keeps balances in the account (`AccountStore = System`) with an existential deposit of
one unit. An account that has spent everything is removed with its nonce, and starts again from 0
when somebody funds it (`Dies`, `NoncesAre`). A reader of the code should know what follows: the
payload that is signed for `submit_external_tx`, and the one of a beneficiary's consent, is the nonce
and the call, without an era, so that whatever was signed in an earlier life is accepted again in the
next. `OneUsePerLife` says what does hold, and the run has accounts that die in calls of their own
and in blocks that give back what was reserved, and that are funded again by a transfer or a vault.

### Sums

`SumTo(f, n)`, the sum of `f[1..n]` as a recursive function, so that the modules can be
proved about; `SumsProofs` has its lemmas: one or two indices changed, bounds, multiples, equal
and constant terms, the exchange of two sums, and what rounding a share of a whole to the
nearest comes to when all shares are added up.

### MC modules and configurations

The MC modules define the values of constants that a cfg cannot write. Four of them have a
`setup`, a variable chosen in the initial state that never changes: a behaviour is
about one of a few situations, and steps that leave it are not explored. A setup narrows
inputs only, and never what a step under fairness does.

## 4. Runs

| Run | Instance | What it shows |
|---|---|---|
| `custody_trade` | 2 accounts, 1 dominator, 2 tokens, amounts up to 2, fees 0 or 1%, with and without broker | reserves equal the book to the unit, supply is constant through fee rounding and broker split, nothing is stranded while no authorization is rejected |
| `custody_receipts` | 1 account, 2 dominators, 2 tokens, amounts 0 to 2 of 3, rejections, callbacks, eviction | a pending authorization is backed, reserved covers all entries, a revocation can be answered, funds are stranded in one way only, receipts are answered |
| `custody_stash` | the same | *violation*: the stash is not moved whole (finding 1) |
| `staking` | 2 stakers at 1 dominator with profit 3 a season, or 1 staker at 2; seasons of 4 blocks, checks every 2, delay 4, 11 blocks | no season is paid twice; a call never changes what anybody is entitled to; overpayment is bounded by rounding; the reserve covers stakes and pending unlocks, and each unlock happens |
| `chainbridge_votes` | 3 accounts, threshold 1 to 3, 1 proposal with lifetime 2, 4 blocks | `Delivery` is implemented; a dispatch has a quorum; a vote cancels a proposal exactly when it can no longer get one, but that it may come one vote early for each voter who is not a relayer any more; closed proposals stay closed |
| `chainbridge_removed` | 2 accounts | *violation*: a removed resource is still transferred (finding 2) |
| `betting` | setups: the pool of one betting that is topped up and revoked; odds that change between bets, with invitations; six scores, corrected and undecidable | a pledge account holds what is booked until something leaves it; bookings are what records win, up to a unit per bet and never more; the pool pays once, to the winners of one outcome, up to the dust of floors |
| `season` | one account with 2 tickets and 2 selects over 2 battles that are replaced and corrected; or 2 accounts, an invite code, up to 3 tickets, one final, closed up to twice | every ticket was sold or given, and is kept, passed on or voted with; the index for settlement equals the votes; points equal right picks; what points promised covers what picks are paid |
| `bridge` | one user, 14 units; setups: native or issued tokens of 0, 1 or 2 decimals against 1 on chain, stable or not, prices, fees, a dominator; 2 messages, amounts 3 and 13, width 100 | what was announced or deposited on either side is covered on the other; a burn announces what it burns; arrivals are with the dominator or free; deposits arrive |
| `relay` | a request and a subscription, queue of 1, 2 sessions, 2 connections each | everybody gets the own answer at most once, records are filed where they belong, every call ends |
| `reward` | 2 accounts, 1 open order at a time, eras of 2 blocks, 4 blocks, a legacy record, rewards 5 then 3 | shares fit into their era, an era is paid once, past shares are never lost |
| `agent` | 2 accounts, one signs with another chain's key; setups: brokers, markets, vaults, unsound funds; epochs of 2 blocks, 8 blocks; balances modulo 16, numbers of parts modulo 10 | in a life of its account each nonce is used once; what is reserved of accounts with sound funds is what vaults still release and what is authorized, whatever other vaults do; the pot is what brokers put up; an open market has the terms its dominator opened it with; vaults end, but those of unsound funds or on a chain that one of them has stopped |

Why the bounds are enough to be interesting: two amounts make partial revocations and a
stash with a remainder possible; 1% of one or two units rounds up to a whole unit, so
fee rounding and the odd half for a broker happen in every trade; profit 3 between two
stakers makes both shares round; three relayers and thresholds up to three include a
threshold above, at and below the number of relayers, and removal between votes; the
lifetime ends within the run. Odds of 1.5 on bets of 1 and 2 floor once and add up
exactly once, so that the sum of floors differs from the floor of the sum; two selects
and two tickets are what a split needs, two battles what it needs to have something new
to vote on; one ticket of 20 brings 17, which neither 7/8 nor the number of winners
divides. 13 units are not a whole number of a contract's units with one decimal less, and
130 wraps at 100; the fee is more than one of the amounts and less than the other. A queue
of one makes the second call wait for the connector, and two sessions are what two racing
calls make. Two units at price 2 can be taken in two parts, and an order of one era be
taken in the next, at the full or half age. A vault of two releases over eight blocks ends
and leaves time for another; the seller of all it has is an account that is gone when
its part is to come back. Balances modulo 16 are twice what there is, so that no sum of them wraps
while a fund of two parts of 8 has a total of 0; parts modulo 10 are one more than the last block.

Bounds that are no constants of the code are marked `(a bound)` where the modules
declare them. Accounts are symmetric in `chainbridge_votes`, where no liveness is checked.
Deadlock is not checked in `betting`, `season`, `bridge`, `relay` and `agent`: with the time at
its bound, the money spent and every message or call done nothing is left to do.

Fairness. `ReceiptsAnswered` assumes that a matcher keeps answering (weak fairness of
the answer to each receipt): proofs are free of charge (`Pays::No`) and a matcher that
stops loses its business; the property is stated only while the dominator stays online.
`UnstakedIsFreed` and `VaultsEnd` assume that blocks are produced, and nothing else: stakes,
calls and votes are never assumed to happen. `VaultsEnd` exempts vaults of unsound funds, whose
parts may never run out, and states of the chain in which some vault has no interval: `on_initialize`
panics at it and no block is produced. `DepositsArrive` assumes that relayers vote
for a message until its call succeeds, which is what the retry after a rolled-back vote is
for; the property is about deposits that are worth at least a unit here. `EveryCallEnds`
assumes that a task that can go on does, timers included, and nothing of the connector, the
network or the prover.

### Findings

1. `TransferIn` removes the whole stash and credits the receipt's amount. After
   `authorize`, `RejectTransferIn`, `authorize`, `TransferIn` the first amount stays
   reserved without a `Reserves` entry. The comment there says `//stash->authorizing`.
   `StrandedOnlyByTransferIn`, checked and proved, says that this is the only way.
2. `remove_resource` promises that transfers with the resource are rejected;
   `eval_vote_state` dispatches a pending one.

Every property of a passing run has a mutant in PROJECT.json: the model with one
plausible bug, for which TLC finds the property violated.

## 5. Proofs

`CustodyProofs`: type correctness, which says that no balance, reserve or leaf goes
below zero. It needs no strengthening because every subtraction is guarded; the trade
needs the lemmas on sums. The rest is about `Custodial`, the conjunction of `TypeOK`,
`BookMatchesReserves`, `StashCoversReceipt` and `ReservedCoversClaims`. None of the last three is
inductive alone: a `TransferOut` keeps the reserved balance above the claims only because
the claim it pays is part of the sum; a `TransferIn` keeps it only because the stash
covers the receipt; `clear` keeps it only because the leaf it starts from equals the
reserve. `RevokeResolvable` and `StrandedOnlyByTransferIn` follow from it. `SupplyIsKept` follows the
reserved balances through a trade: what the leaves of a proof move within one token comes to the
fee in that token, and that is paid out or put aside. It assumes that no market has a token as its
own quote; the verifier does not check that, but there would be nothing to trade.
`HoldingsAlwaysAddUp` adds, where no authorization is rejected, that the stash at a dominator that is
not evicted is what the pending receipt names, so that no `TransferIn` finds more.

`StakingProofs`: `Sound` joins the types, `Books` (what a dominator has staked and an account has
reserved are sums of its stakes and pending unlocks, and these are due at later blocks that
`on_initialize` looks at, so that no unlock is ever missed), `Timed` (no stake is from a season to
come, and none is at a dominator that is not launched) and `OnlineAtThreshold`, which needs the
sums of `Books` in the step that compares with the threshold. `SnapshotCoversUnclaimed` is inductive
on top of it: between the end of a season and a claim nobody new may appear among those the snapshot
covers. For `PaidFromProfit` the entitlements of each staker and what each season may pay are summed
up, and the lemma `RoundedShares` compares them: each share is rounded to the nearest, so all together
exceed the profit by at most half a unit per staker. `CallsKeepEntitlements` is an action property
proved from the same invariant.

`BridgeProofs`, votes: the inductive invariant (`VotesInv`) says that the counter is the size of
the relayer set, that no account is in a proposal's lists twice or in both, and that a proposal is
dispatched once if approved. From it: quorum, finality, when a proposal is cancelled, and that `Chainbridge` implements `Delivery` (`ImplementsDelivery`): the
initial states map to its initial state, and every step to the execution of one message, to
the drop of some (several expire in one block) or to a stutter. Executing needs the invariant:
only there a proposal that is dispatched is known not to have been dispatched before.
`HopelessIsCancelled` compares `RelayerCount` with the votes: a vote of an account that was removed
since still counts, on either side, while the counter does not count the account. So a cancellation
may be premature: with relayers a, b and c and threshold 2, if a votes for, is removed, and b votes
against, the proposal is cancelled, although c could still have been the second in favour. The
lemma `VotesLeft` bounds this by one vote for each such account; without any it is exact.

`BridgeProofs`, tokens: the types are not inductive alone. Where free tokens are reserved or reserved
ones given back, no call looks at the width; that no balance leaves it follows from what all
accounts have together, so `LedgerInv` joins the types with `LedgerIsHeld` (each token is held as its record
says, the native one as genesis less what issuing burned) and with `NativeIsLocked`, which is
inductive on top: a lock adds to both sides, an arrival takes from both, and no donation, fee or
transfer of a user takes from the bridge account. `CoverInv` adds `SupplyIsBacked`. In it amounts of the
chain and of a contract are compared in the unit of `MAX_DECIMALS`; `Entering` and `Leaving` say
that a conversion on arrival never gains, even where the product wraps, and that what leaves
converts back without wrapping, so that what is burned is what is announced and the rest of the
charge is the fee and less than one unit of the contract. Two facts more are needed: nothing is
announced of a token that was not issued (`AnnouncedIsIssued`), since an id may be associated
before there is a token, and associations stay (`ContractsAssociated`). The latter is the hypothesis
`AssociatedOnce` of `StaysSolvent`: `associate_token` overwrites what there is, and an admin who moved a
contract to a second token would take the cover of the first one away. The types, `NativeIsLocked`,
`SupplyIsHeld` and the action properties (`BurnsAreAnnounced`, `ArrivalsAreReserved`) need no such
hypothesis.

`BettingProofs`: types, and `BookedIsBacked`: what any outcome has booked is in the
pledge account, or was paid or withdrawn from it. It is inductive together with the
types; the step that matters is the bet, where the check of one item against the live
balance carries over because a bet on one item changes neither the booking of another
nor the pledge account, whoever the bettor is. `BooksAreSound` is about the records: bookings
are floors of sums where records are paid floors of parts, and the odds of an item may change
between bets. Its invariant, `Matched`, adds to the types that the books match the records, that
ids not yet given out have no records, that an item without bets has no buy-in and that no two items
of a betting have the same outcome. `WinnersShortOnlyDust` needs that what was paid by claims on no
other item was won by those who have claimed, `PoolPaysOnce` that until the first revocation the pledge
account and the payments together are at least `total_pledge`.

`RewardProofs`: `SharesFit` is inductive with the types it contains. A trade adds the same
contribution to its era and to the maker's record, and rotation empties a record of an older
era, so that the sum of what is pending stays below what the era took; a lemma,
`RotationIsDefined`, concludes that no trade or claim fails by dividing a share by zero.
`EntitlementsKept` needs one fact more, that no record is of an era to come
(`LastsArePast`): a rotation confirms what was due to the unit, because the era of the record is
not the one the trade adds to, and a new era only adds to what is due. It is assumed that the
legacy records, to which nothing is added any more, are of the first era. `EraIsPaidOnce`
is proved with what is still pending counted in: what an era has paid and what its records still
have coming stay within the era's reward plus half a unit per account, since paying a record out
takes it from those that are to be paid; an era that is not over has paid nothing.

`SeasonProofs`: four invariants, each on top of the one before but for the first.
`LedgersAreSound` is inductive as it stands: a split moves tickets between two terms of the sum
over selects, a purchase moves its price in four parts, one of them what the percentages leave.
`CalcMirrorsVotes` joins `PicksBattles`, that every select has picks and only of battles that
exist. `PointsMatchPicks` needs it, since settling reads `VotesForCalc` and the property the
selects, and three facts more: a select that does not exist yet has no points (`Unscored`),
an entry of points exists where there is a game (`Known`), and picks are added only for running
battles, so that a split may copy the points. `TreasuryCoversClaims` is made when the season is
closed: with every battle settled, wins are right picks, so that claims are the bonus per ticket
times the tickets that were counted, summed over selects and accounts, and not more than the
treasury. After that it stays, because nobody can vote on a battle that is not running.

`CallsProofs`, the relay: `RecordsAreRight` follows from `Placed`, which says for each place a call
can be at which channels, queue entries and subscriptions carry its id, in whichever session it
holds; from the same invariant `OwnAnswerOnce`, the refinement: every step of the relay
serves one request, ends one call, or is a stutter of `Answers`. A late answer finds no channel,
or the channel of the request it answers; ids are not given out twice in a session.

`CallsProofs`, signed calls: `AgentInv` joins the types of the ledger, the market, the vaults and
the nonces with `ReservedAddsUp`, `ApprovalsArePending`, the stakes in the pot, what is left of
the issuance after fees, and `OneUsePerLife`. The block is the hard step: it releases from the vaults
one after another on the balances the last one left, and a release may end an account on the way. The
proof goes along the vaults with what each of them still has to have reserved. A vault touches the
reserve of its own beneficiary only (`OneVault`), however little of what it releases was put in; so a
vault of a sound fund finds its part whatever came before it (`AllVaults`), and the supply is kept by
all of them, because never more is released than is reserved. That an approval is about a part still
to come needs that vaults of sound funds have parts (`SoundVaultsHaveParts`). `OneUsePerLife` is
inductive as it stands: the nonce and its record start again in the same step (`NoncesStand`).
`TermsStayTheDominators` needs `OpenedStand`: a market that was opened is open with the terms of its
dominator, and only that dominator's call writes them again.

Assumptions: those named in the modules (`CountAssumption`, `TokenAssumption`, ...):
naturals, finite account sets, and constants of the right shape; of `Token` that the decimals of
the chain do not exceed `MAX_DECIMALS` and that the issuance at genesis is an amount. TLC evaluates
them in every run. The bounds of the models are constants as well, so that the theorems hold for any.
What only some theorems need is a hypothesis in their statement (`AssociatedOnce`, and that no market
has a token as its own quote).

Only model-checked: liveness (`ReceiptsAnswered`, `UnstakedIsFreed`, `DepositsArrive`,
`EveryCallEnds`, `VaultsEnd`), which TLAPS does not reach.

## 6. Not modelled

The bot: `initialize`, `deposit` and `revoke` forward to `authorize_to`, `revoke_from` and the
transfers that `Custody` and `Token` model, for an account derived from the caller's; the
pallet keeps a record of bots and nothing else. `close_market`, and with it `is_market_open` and the
grace period of a closed market: functions of the market pallet that no extrinsic reaches. The tournament's `deposit`, `swap` and
`give_away_fee`: single transfers at the indicator's price. Node start-up, read-only RPC, the
runtime's wiring, weights and benchmarks: input, output and configuration.

Within the verifier: Merkle hashing, proof compression and formats, the order-book leaves,
event ids, `u128` overflow in leaf arithmetic, `dominator_set_pubkey` (nothing reads it), and
one proof per step instead of a batch with the status read once. Within the tournament:
npcs and their league points, several seasons at once, `update_season`, the statistics of
invite codes, the bound `MaxParticipantPerBattle`. Of the token pallet: tokens without a
contract and the names another bridge uses.
