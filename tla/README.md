# A TLA+ verification of st0x.alpaca

`st0x.alpaca` is a Rust workspace around the Alpaca brokerage: a client library
(`src/`: broker, issuer, tokenization, crypto wallet, corporate actions), an
internal HTTP gateway that holds the Alpaca credential and serves bots and
humans (`crates/gateway`), and the contract and client of that gateway
(`crates/gateway-api`). Money moves through it, so the questions that matter are
what a caller is *told* about a write whose fate is uncertain, whether anything
is still sent once a caller was told it would not be, and whether every wait ends.

This directory holds TLA+ modules translated from the source, TLC configurations
that check them on small instances, and TLAPS proofs for every value of the
constants.

## 1. The system

| Part | Source | State it keeps | Operations |
| --- | --- | --- | --- |
| Gateway call lifecycle | `crates/gateway/src/state.rs`, `answer.rs`, `handlers/*`, `extract.rs` | per call: handler future, detached task, oneshot channel, send gate, audit records | reject, admit, refuse, run, relay, settle |
| Send gate | `src/request_id.rs` | the `closed` flag of each call under a mutex, the request ids of its traffic | hold, close, ensure_open, send |
| Gateway process | `crates/gateway/src/lib.rs` | serving / draining / waiting / exited, the task tracker | serve, signal, drain, end of grace |
| Human budget | `crates/gateway/src/budget.rs` | one fixed window and what was used in it | take |
| Caller identity | `crates/gateway/src/auth.rs` | the signing keys of the identity provider and when they were fetched | find key, refresh, fetch |
| Token cache of a client | `src/auth.rs` | cached token with two deadlines, the mint lock, the hold of a throttled mint | access_token, mint, defer_next_refresh |
| Shared client core | `src/core.rs`, `src/rate_limit.rs` | the Retry-After hold the clones of a client share | retry_attempts, hold_for, backpressure waits |
| Issuer client | `src/issuer/mod.rs` | none of its own | mint callback, redeem, status polls, lists |
| Order placement | `src/broker/order.rs` | none; the broker holds the order under a client order id | place, duplicate adoption, read back, cancel |
| Conversion orders | `src/broker/order.rs` | the poll's deadline, last known fill and cancel outcome | convert, poll until filled, poll to terminal |
| Broker client and reads | `src/broker/{client,api,positions,activity,market_data}.rs` | none | one request each, some paginated |
| Market hours | `src/broker/market_hours.rs`, `session.rs` | none | calendar arithmetic |
| Crypto wallet | `src/wallet/*` | none; polls with deadlines | transfers, whitelist, status polls |
| Tokenization | `src/tokenization/*` | none; polls with deadlines | mint, redemption, list, polls |
| Corporate actions | `src/corporate_actions/*` | the decoder's buffers, the resume point | connect, decode, replay |
| Gateway contract and client | `crates/gateway-api` | none | one request each, deadline, error mapping |
| Config | `crates/gateway/src/config.rs` | read once | validate |
| Broker mock | `src/broker/mock_api.rs` | orders, positions, cash, wallet, whitelist, activities, injected faults | the endpoints of Alpaca the clients call, a deposit watcher, setters for tests |
| Tokenization mock | `src/tokenization_mock.rs` | requests, their polls, two background tasks | mint, list, mint executor, redemption watcher |

The mocks are exported under a feature and other repositories test against them,
so what they promise is part of what this repository delivers.

How the parts interact. A request enters the gateway, is authenticated, parsed
(`extract.rs`) and admitted (`AppState::admit`: shutdown, capability switch,
reason, budget). An admitted call spawns a detached, tracked task that works
against Alpaca under the call's `SendGate`; the handler waits in a `select!` on
the task's oneshot channel, the call's deadline and the shutdown token. Every
Alpaca request of the task passes the gate, and first asks its client's token cache
for a token. Each client builds a cache of its own, shared by its clones only
(`src/auth.rs:202-205`), so the clients of one credential mint side by side, which
Alpaca accepts. Every call leaves audit records:
one when it is answered, and one when its work ends after its caller stopped
waiting. Below the gateway the clients retry (issuer), adopt duplicates (orders)
and poll with deadlines (conversions, transfers, tokenizations).

What is hard here:

* the handler and the task of one call race each other, the deadline, the
  caller's disconnect and the shutdown;
* a write whose answer is lost may have been applied, or may be applied later, and
  the caller is told one of three outcomes it acts upon;
* a lock is held over a network round trip by a future that may be dropped;
* a deadline shared by clones is read before an await and used after it;
* a poll cancels an order the broker goes on filling;
* an answer crosses two processes and three error types before the caller reads
  it, and has to mean the same at the end;
* one handler makes several writes and may stop between two of them;
* a byte stream is cut into chunks anywhere, and its consumer restarts.

`PROJECT.json` lists the hazards line by line, each with the properties that
would catch it going wrong.

## 2. Modules

### GatewayCall: one gateway process and its calls

`GatewayCall` models `AppState::{admit, refuse, run, relay}`, `SendGate`,
`HumanBudget::take` as admission uses it, the outcome axis of
`Failure::for_mutation` and `lib.rs` `run`. Its state is, per call, the place of
the handler future (`handler`), of the detached task (`task`), the channel
(`chan`), the gate (`closed`), the elapsed deadline (`late`), the request on the
wire (`wire`), what the work knows of its writes (`written`) and what Alpaca did
(`applied`, `stray`); for the process `proc` and `grace`; for the budget `used`
and `windowOver`.

| Action | Code |
| --- | --- |
| `Reject`, `Refuse`, `Admit` | the extractors; `admit` and its refusals; `run`/`relay` up to `spawn` |
| `AskMint`, `StartMint`, `MintReturns` | `ensure_open`, then the mint, which has no gate of its own |
| `Send`, `HeldBack` | `request_id::send`: ask the gate and hand over the request under one lock |
| `ReadReturns`, `WriteOk`, `WriteRefused`, `WriteLost`, `FinishWork` | the answers a client tells apart, and the end of the work |
| `Deliver`, `Emit` | `sender.send` and the record of the task |
| `AnswerResult`, `GiveUp`, `CloseChannel` | the `select!` of `run`, then close gate, close channel, `try_recv` |
| `Disconnect`, `DropReceiver` | the handler future dropped at its await, `CloseOnDrop` first |
| `Signal`, `Drained`, `GraceEnds`, `Exit` | `lib.rs` |
| `Land` | Alpaca (external): a write that left is applied now or later |

The handler and the task run on different threads. Each action is one critical
section, or one synchronous stretch between two awaits that touches shared state
once; closing the gate and closing the channel are two actions because the task
can run between them.

### TokenCache: one client, many callers

`TokenCache` models `KmsJwtCredentials::access_token` and what it calls: the
fast path, `try_lock`, riding the cached token, waiting for the lock, the checks
under it, signing and exchange, the deadlines `mint` derives from `expires_in`,
`defer_next_refresh`, the hold after a 429 and the drop of a caller at any await.
A behaviour is of one client and its clones. Time is a bounded counter of whole units; Alpaca issues the token at any instant
between request and answer.

### IssuerRetry: the retry loop and its shared hold

`IssuerRetry` models `retry_attempts` under the mint callback, the redeem and
the status poll, run by clones that share one Retry-After deadline: wait on the
hold, budget, jitter, attempts, which errors are retried, which count as
written, and `written_on` of the issuer client. When a call fails, `issuer_call`
and `issuer` of `answer.rs` turn its written flag and its last error into the
answer of the handler, and `UnwrittenIsUntouched` is about that answer. Time
counts down, so no clock is bounded.

### ConversionPoll: a conversion order and the poll that waits for it

`ConversionPoll` models the placement of a USDC/USD conversion,
`poll_until_terminal`, `cancel_and_settle`, `request_cancel` and the two ways
their result is read, next to a broker that fills, pauses, resumes, expires or
cancels the order at any time and whose answers may be late, lost or without
`filled_qty`. The caller may crash at any point (`Crash`) or be left without an
outcome (`Resume`); it then looks the order up by its `client_order_id` (`Find`),
polls what it found to a terminal state, and on `None`
takes the conversion for never placed or places it again under the
same key. Only a 404 is `None`; Alpaca answers one for an order it never recorded,
and for one that has ended and is no longer kept (`broker/client.rs:177-181`), not for
one it still works. A placement or a cancel it gave up on may still reach the broker.

### DeadlinePoll: the wallet and tokenization polls

`DeadlinePoll` models the five polls that wait for Alpaca with a deadline:
`poll_transfer_until_complete`, `poll_deposit_by_tx_hash` and
`poll_transfer_tx_hash` of the wallet, `poll_request_until_complete` and
`poll_for_redemption` of the tokenization client. They share the waits of
`rate_limit.rs` (`next_poll_delay`, `capped_backpressure_wait`,
`backpressure_wait`, `read_before`) and differ in which errors are retried and
how often, what a throttle does, and which answer ends them; the kind of poll,
chosen at the start from `Polls`, selects these rules. Alpaca (external) moves the transfer or the request,
may report an earlier state from a lagging replica, lists requests of other
networks, throttles, fails and need not answer at all.

### OrderPlacement: an equity order under a client order id

`OrderPlacement` models `place_market_order`, `place_limit_order` and what the
API does around them: sizing to the asset, the POST and its errors by whether
they may have reached Alpaca, the adoption of the order a duplicate key names,
the read back, `recover_order_by_client_id` and `get_order_status` with the
terminality of a failed order. The broker and the caller are external. The
broker keeps at most one order per key, takes a lost POST at once, later or
never, and fills, pauses and ends orders at any time. The caller keeps the rules the
contract states: same key after an attempt that may have been written, a new key
only when nothing was written under the old one or its order has ended.

| Action | Code |
| --- | --- |
| `Place`, `Prepare` | the order handlers; `prepare_order_shares_for_placement` |
| `PostAccepted`, `PostDuplicate`, `PostFails` | the three arms of the `match` on the POST |
| `DuplicateRead`, `Placed`, `ReadBackFails` | `find_duplicate_order`, `broker_order_placed_at` and their errors |
| `Recover`, `StatusEnded` | `recover_order_by_client_id`, `get_order_status` |
| `NewKey`, `Land`, `Move` | the caller and the broker (external) |

### BrokerBook: what the mock promises of its orders

`BrokerBook` is the abstract specification of the mock's orders: a key is recorded
for one order, size and key never change, an order fills once or not at all and never past its
size, and one that ended neither fills nor opens again. `MockBroker` implements it, by order
number. It promises less than Alpaca in two points, which it therefore states:

* a conversion's key is neither looked up nor stored (`mock_api.rs:1476, 1540`), so a
  conversion that is placed again under its key converts twice, where Alpaca refuses the duplicate;
* a poll in another mode relabels an ended order canceled or rejected, its fill
  kept (`mock_api.rs:1867-1884`), so a filled order may read as failed.

What the placement clients assume of Alpaca is not this module but the broker inside `OrderPlacement`
and `ConversionPoll`, which is external.

### MockBroker: the ledger of the broker mock

`MockBroker` models the order endpoints of `mock_api.rs` and the calls a test
makes: `Place` with its refusals in the order of the code (injected 401,
`PlacementFails`, crypto, duplicate key, and the injected 503 *after* the order
was recorded; a conversion with the key it was sent with, which is dropped), `Poll` with `poll_mode` and `advance_polled_order`, `apply_fill`,
`apply_crypto_balances`, the FEE rows, and `Configure`, `AdjustPosition`,
`SetWalletBalance`, `PushActivity`. Each endpoint holds the state's lock
throughout and is one action. Quantities are counted in a unit smaller than both precisions.

### Tokenization: mints and redemptions

`Tokenization` composes the tokenization client and its gateway handler with the
mock tokenizer and its two tasks. `MintCall` is one call with one of its ends:
refused before anything was sent, answered (and then checked by
`confirm_network` against the network asked for), refused by Alpaca, or lost,
where the POST may still land (`Land`). `Reconcile` is
`find_mint_by_issuer_request_id`. `Collect`, `SendTransfer`, `SendFails`,
`Receipt`, `ReceiptLost` are the mint executor between its awaits, `ScanStart`,
`ScanBlock`, `ScanFails` the redemption watcher, `Read` a list (which counts as a
poll). A send that fails may have been taken by the node, and each adjustment of the broker's
position may fail, which the code only logs. A test injects requests of either kind
(`Inject`), sets any status on any request whatever the executor does with it
(`SetRequestStatus`, and `GiveBack` for the shares, after the lock is dropped) and any
request's poll threshold (`SetRequestPolls`). The history variable `lost` counts the
tokens the executor does not know it sent, `skewed` notes that an adjustment failed or a
test completed a redemption whose shares were never taken or are back already.

### WalletWrites: the crypto wallet

`WalletWrites` models `withdraw`, `whitelist_create`, `whitelist_remove`,
`whitelist_patch_travel_rule` and `journal_create` of `handlers/wallet.rs` over
the wallet client and the wallet of the broker mock: the checks of the lane, the
read before the write, one write per entry, and `write_entries` naming what was
changed when it stops. Calls interleave with each other, with late writes, with
reviews of whitelist entries, with reads that advance a transfer and with the
deposit watcher. A behaviour begins after `register_wallet_endpoints`: the blocks the
watcher skips before it (`mock_api.rs:801-805`) hold no deposit, since the address that
makes a transfer one is drawn at random by that very call (`mock_api.rs:612-616`).

### GatewayHop: an answer on its way back

`GatewayHop` is one operation of the catalogue called through the gateway:
`GatewayClient::send` (URL, token, connection, exchange, each with its bound), the
gateway's refusal, deadline or work, the tables of `answer.rs` one operator each,
the body on the wire, and the adapter that turns it, or its absence, back into a
library error. Errors are records of variant, cause, status and hint; the same
predicates the library uses (`transient`, `throttles`, `definitive`, `unknown`) are
applied to the error before and after the hop. The caller resends as the error
lets it, with the same key or with a new one. Alpaca (external) applies a
mutation at once, late or never, and dedupes what the contract says it dedupes.

### BrokerReads: the read side of the broker client

`BrokerReads` has six kinds of read, one per behaviour: the market session
(`session_and_close_at`, the post close gap), activities by pages, an asset
through the shared cache, the inventory, a price, and the status of an order.
Each step between two requests is an action, and the exchange, the account and
the asset move in between. The calendar answers with the nearest trading
days, a page token need not be followed, fields may be missing.

### ActionStream: the corporate action stream

`ActionStream` models the endpoint check, the replay query and its refusals
(`replay`), the failures to open the stream with what the gateway answers to each
(`corporate_actions`), the connection, the incremental SSE
decoder over tokens (two line endings, a colon, padding, an event's fields), the
relay of the gateway that shutdown cuts, and a consumer that commits a batch to a
durable cursor, crashes, resumes, and gives up when told that a retry is of no
use. `broken` says whether the endpoint can be opened at all (a revoked
credential, a redirect, another content type). `Chunk(n)` delivers any prefix of what the
response holds, so every chunking occurs.

### Admission: identity, capability, budget

`Admission` models `TokenVerifier` of one tier (lookup, recheck, the floor, the
fetch, stale keys, the last look), the routes a tier is served on, `admit` and
`HumanBudget::take` with the clock read before the lock. Tiers share no verifier, so a
behaviour follows the requests of one tier: the bot's, identified here, or a
human's, who goes on to the budget. A caller that goes away drops the future that
identifies it at any of its awaits (`CallerGone`): a fetch on its way is given up, and
`last_refresh_attempt`, which was set before it, stays.

### Proof modules

The theorems of section 5 are in eight modules, each of which extends the modules
it is about; so the second of two modules that are extended together has names of
its own for what every module has (`CacheInit`, `PollSpec`, `issuerVars`, the
`clock` of `TokenCache`, the `stage` of `ConversionPoll`).

| Module | About | Extends |
| --- | --- | --- |
| `GatewayCallProofs` | a call through the gateway | `GatewayCall` |
| `AdmissionProofs` | signing keys, budget; the credential | `Admission`, `TokenCache` |
| `GatewayHopProofs` | the way back; the issuer's retry loop | `GatewayHop`, `IssuerRetry` |
| `OrderPlacementProofs` | placements; conversions | `OrderPlacement`, `ConversionPoll` |
| `WalletProofs` | wallet writes; the polls | `WalletWrites`, `DeadlinePoll` |
| `TokenizationProofs` | mints and redemptions | `Tokenization` |
| `BrokerProofs` | the broker mock and the reads | `MockBroker`, `BrokerReads` |
| `Sums` | totals over finite sets | |

`Sums` has what is needed of totals: `SumFunction` of the community modules, which
the models use, is a recursive function over the subsets of its domain, and the
lemmas there say what it computes on any finite domain.

A `match` of the code whose patterns overlap is an IF chain in the modules, in the
order of the arms: CASE of TLA+ may take any arm whose guard holds. CASE is used
where the guards exclude each other.

## 3. Runs

A property that is a conjunction names its parts in the module; the parts are
stated there one by one.

| Run | Question | Properties |
| --- | --- | --- |
| `gateway_call` | one call of every kind, every interleaving of handler, task, deadline, disconnect and shutdown, Alpaca may never answer | `NotAppliedIsTrue`, `AuditTellsTheAnswer`, `NoSendOnceAbandoned`, `ShutdownEnds`, `EventuallyRecorded` |
| `token_cache` | three callers of one client | `OneMint`, `CachedTokenLives`, `MintsAreSpaced`, `WaitersReturn` |
| `issuer_retry` | two clones and one hold | `UnwrittenIsUntouched`, `WaitsWithinBudget`, `EveryCallEnds` |
| `orders` | three attempts over two keys with lost and late POSTs; a conversion with its placement, polls, crash and resume by key; the broker is adverse to both | `UnwrittenMeansNoOrder`, `PlacementIsHeld`, `NeverHedgedTwice`, `AnswerIsFinal`, `KnownFillIsKept`, `EveryConversionEnds` |
| `conversion_written_off` | whether `None` of the lookup means never placed, as the comments say (it does not: section 4) | `NeverPlacedIsTrue`, violated |
| `mock_broker` | the mock while a test changes it under open orders | `BooksBalance`, `IsBrokerBook` |
| `tokenization` | lost and resent mints, against requests that tests force | `NotAppliedMintsNothing`, `OneRequestPerKey` |
| `token_books` | a mint and two redemptions with failing sends, receipts, reads and adjustments, and tests | `TotalsConserved`, `RedemptionDetected` |
| `gateway_hop` | every operation with every error through the gateway and back | `HopIsSafe`, `HopKeepsTheMeaning` |
| `wallet` | two wallet writes side by side, entries half written, deposits; the five wallet and tokenization polls | `AnswersAreTrue`, `LanesApart`, `DepositFound`, `EndsByDeadline`, `AnswerHolds`, `EveryPollEnds` |
| `reads` | six reads in a moving world; the stream under any chunking and restarts | `ReadIsRight`, `EveryRowOnce`, `StreamIsSafe`, `EveryEventCommitted` |
| `admission` | concurrent identity checks over rotating keys, the budget over a clock | `RefusedOnlyForAReason`, `BudgetHolds`, `KeysNeverGoBack` |

What they show. A caller or an audit reader told `not_applied` can rely on it:
nothing of the call was applied and nothing that left can still be; this holds
inside the gateway, for placements, mints, issuer calls and wallet writes, and
across the hop to the client, where an error that does not say its outcome is
unknown means the mutation was not and will not be applied. A caller that resends
as the errors let it has its mutation applied at most once. After a caller
stopped waiting no Alpaca request of its call starts. The process ends after a
signal whatever Alpaca does, and an exit within the grace has lost no record. A
client mints one token at a time, starts no mint in the hold of a throttled one, and never
serves an expired token. A conversion result is final when it is reported, through crashes and
resumes, and a conversion that is written off is not one the broker still works. A wallet or tokenization poll ends
by its deadline, says it was throttled only when its last read was, and hands on
nothing a lagging replica or another network's request could falsify. A caller
that keeps the key rules never hedges more than it set out to, against any broker
that keeps one order per key. A whitelist write that stops half way
names the entries it changed. A human withdrawal never passes for the bot's. The
session is the exchange's session at the moment asked, whatever days the
calendar answers with. The stream decodes alike under any chunking, a cut window
never reads as complete, and without a frame that does not decode every event is
committed in the end, since no failure to open the stream that may clear is
answered as final. The human budget holds to within the delay between clock
and lock, and a key set never gives way to an older one.

Some results are narrower than one may expect, and the properties say so:

* `TotalsConserved` holds up to transfers the executor does not know it made: the receipt
  could not be read, or the send failed though the node took it. The request stays for
  the next round and is transferred again, so tokens exceed what the shares paid for by what was
  sent twice. It says nothing of the sum once `adjust_position` failed after a receipt or a
  completed redemption, which is only logged, nor once a test completed a redemption it had
  injected (whose shares were never taken) or forced one that was completed already.
* `MintsAreSpaced` speaks of the hold of a throttled mint and of the backoff while a token can be
  ridden. A mint that fails without a throttle and without such a token, or whose caller goes
  away, may be followed by another at once.
* `OneMint` and the rest of `token_cache` hold of a client and its clones. A process has one
  cache per client.
* `RefusedOnlyForAReason` lets a caller be refused for an unknown key while
  another request is fetching that key: the floor returns the cached set at
  once and the last look does not wait for the fetch. It also lets it be refused, until the
  floor of 60 s is over, when that fetch failed, or when the caller that was fetching went away
  in the middle (`auth.rs:312-315` sets the attempt before the await, and a disconnect
  drops the future): no fetch is in flight then, none failed, and a key published long ago is
  unknown to everyone.
* `BudgetHolds` allows two windows' worth of calls within one `WINDOW`: the
  window is fixed, not sliding.
* `HopKeepsTheMeaning` excludes `NotSent`, the closed gate, which is permanent for
  the call it closed and clears for the next, and a throttled credential
  without a hint, which arrives as a transient failure and not as a throttle.
* `WrittenOffIsOver` (of `AnswerIsFinal`) says that a conversion written off on a 404 is not
  worked at the broker; that it was never placed is what `conversion_written_off` refutes.
  It leaves out a placement still on its way when the lookup answered `None`, which can land
  afterwards. A caller that places again under the same key is safe from that, one
  that writes the conversion off is not.
* `ReadIsRight` claims of a latest trade only that its price is positive; of a quote and a
  mark also that it is of the symbol asked for.
* In `GatewayHop` no call is answered that its key names an order already
  (`answer.rs:287-294`): placements adopt such an order, and a caller that keeps the contract does
  not resend a conversion of unknown outcome (`ops.rs:263-274`).
* `HeldIsOwn` (of `NotAppliedMintsNothing`) says of a reconciled mint only that
  its key matches; the reconciliation compares no symbol, quantity or network.

### Bounds and why they are enough

* `gateway_call`: calls share nothing but the budget and the process, so one call
  with all eight kinds covers the races inside a call. The task may send any
  number of requests (the state does not count them).
* `token_cache`: three callers of one client are a minter, a waiter in the queue and one that
  comes while they change hands; lifetimes 0 (already expired) and 5; a hint
  above `MaxHold` and none; the clock stops at 5, after a mint, a refresh that fails
  and the end of its backoff. Deadlock is checked: `Ask` is always possible.
* `issuer_retry`: two clones, one retry, a hint inside and one above the budget.
  Deadlock is checked.
* `orders`, with `conversion_written_off` for the conversions alone. Placements: a need of 3
  units of which 2 are a whole share, so that a size may be truncated, kept or vanish and an
  order fill in part; one price and none; two keys and three attempts, enough for a lost
  attempt, a resend that adopts it and a new key after its end. Conversions: deadline 3,
  settle window 2, interval 1: several reads before and after the cancel, a resent cancel,
  hints above and below the cap; a size of 2 tells none, partial and full apart; three calls
  are a placement that is lost, one that places again and meets the key, and the one that
  resumes it. The two share nothing, so in a behaviour one of them moves. The system may
  stop there, so deadlock is not checked.
* `mock_broker`: two orders, one with and one without a key, equity or USDC;
  sizes that are and are not whole in the smallest USDC amount and in cents; two
  changes by the test, one before and one while an order is open. Deadlock is
  checked.
* `tokenization`: one key and three attempts at it that may differ in symbol and
  network; a symbol the executor knows and one it does not; a second request, of a test,
  and one status or threshold a test forces. Nothing is redeemed.
* `token_books`: two requests besides the redemptions, one symbol and network; one transfer
  the executor does not know it made; two redemptions, so that one range of blocks has two and fails
  before, between or after them; one thing a test forces, so that a completed
  redemption or mint may be taken back and completed again by a later read or the
  executor. In both the system may stop, so deadlock is not checked.
* `gateway_hop`: the whole catalogue and three calls: a lost one, its resend, and
  one under a new key. Hints are half seconds, so that rounding shows.
* `wallet`. Writes: two calls, one pinned and one free address, three entries,
  so that a write covers more than one and another call changes the list between
  its read and its writes; one balance that two withdrawals compete for. Polls: a deadline
  of 5, an interval of 2, and delays and hints below and above what is left, so that each
  cap applies at least once and several reads fit; the retry budget is spent within it.
  Again one of the two moves in a behaviour, and the system may stop.
* `reads`: the minutes on both sides of each session bound, early closes
  included, over every set of trading days around the one asked; six rows in
  pages of two; two readers of the cache over its TTL and a fetch; logs of two
  frames, the first with every layout, separator and shape, and frames at and above a limit of
  four tokens. The reads and the stream share nothing, so in a behaviour one of the two moves.
* `admission`: two requests at a time and any number in sequence, three keys,
  a TTL of 3, a floor of 2 and a fetch of 1 (the code: hours, 60 s and 10 s); one
  unit of budget. Symmetry over requests (no liveness there).

### Fairness and why the code justifies it

* `GatewayCall.FairSpec`: the deadline and the grace timer fire, a woken handler
  is polled, and `lib.rs` goes on when its condition holds. Nothing is assumed
  of Alpaca or of the task. `EventuallyRecorded` alone is conditional on
  `RequestsEnd`, that each request and mint ends. The gateway builds the broker,
  issuer, tokenization and mint clients with a timeout over the whole request,
  and the wallet client too (`new_with_request_timeout` with
  `WALLET_REQUEST_TIMEOUT`, `crates/gateway/src/state.rs:54-56, 218-223`).
* `TokenCache.CacheFairSpec`: weak fairness of each caller's own steps: a future that
  is ready is polled, and signing and exchange have timeouts. No fairness for
  `Cancel`, `Ask` or the clock.
* `IssuerRetry.IssuerFairSpec`: the clock and each caller's steps; each request has the
  client's timeout.
* `ConversionPoll.ConvFairSpec`: the clock and the poll's own steps (`Prompt`). No
  answer of the broker is assumed: `timeout_at` drops a read at the deadline and
  a cancel has its HTTP timeout. The caller need not resume, and crashes are
  bounded by `MaxCalls`.
* `DeadlinePoll.PollFairSpec`: the clock and the poll's own steps. No answer of Alpaca
  is assumed: `read_before` ends a read at the deadline. `MCOrders` and `MCWallet` state the
  fairness of `ConvFairSpec`, `PollFairSpec` and `WalletWrites.FairSpec` for the part that
  moves.
* `Tokenization.FairSpec`, `WalletWrites.FairSpec`: the background tasks of the
  mocks loop for ever (weak fairness), and a send or a block read that is tried
  again and again does not fail every time (strong fairness of `SendTransfer` and, for
  each block, of `ScanBlock`).
* `ActionStream.StreamFairness`: the consumer reconnects, a connection does not
  break every time before the rest of the log is through, and the consumer does
  not crash every time with a new event in hand. Without these no client could make progress.
  An endpoint that is broken for good is outside the promise.
* `OrderPlacement`, `MockBroker`, `GatewayHop`, `BrokerReads` and `Admission` state no liveness:
  the caller decides when to try again.

## 4. Where a comment and the code disagree

Met while modelling; each is a behaviour of the module named, and no property that
a passing run checks claims the opposite.

* `GatewayCall` – `request_id.rs:6` says no credential mint starts once
  `SendGate::close` returned; `ensure_open` (`request_id.rs:155`) releases the
  gate's lock before the mint begins (`AskMint`, `Disconnect`, `StartMint`). No
  Alpaca write follows: the request itself is gated.
* `IssuerRetry` – `core.rs:239` says no attempt is sent before the shared
  deadline; the deadline is read (`core.rs:296`) before the credential is
  awaited, and another clone may set one meanwhile.
* `ConversionPoll` – `order.rs:1450` says a partial fill is accepted only when the
  deadline cancel forced the order there; the flag (`order.rs:1622`) is set on that whole
  path, also when the broker had cancelled the order itself.
* `ConversionPoll` – `broker/mod.rs:241` says of a failed or declined cancel that
  no cancel took effect; one whose answer was lost may have (`order.rs:1716`).
* `ConversionPoll` – `broker/api.rs:696` and `743` and `broker/client.rs:294` say that `None`
  means the order was never placed. `None` is any 404, and of the same endpoint
  `broker/client.rs:177-181` says a 404 is "not proof that it was never recorded": an order
  that ended and is no longer kept answers it too. `conversion_written_off` shows such a
  conversion reported as never placed (a finding of `PROJECT.json`). Besides, a placement
  given up earlier may be recorded after the lookup (`TakeStraySubmit`).
* `MockBroker` – `mock_api.rs:237-243` and `490-495` say that any caller-side retry after
  an injected 503 creates a second order. A retry of an equity order under the same key does not: it is
  answered 422 (`mock_api.rs:1319-1333`, `KeyNamesOneOrder`). A retry without a key does, under
  another key too; a conversion is never answered the 503.
* `Tokenization` – `tokenization_mock.rs:445-446` says shares are deducted "so totals are
  conserved", and `294-298` that a forced completion has the side effect of the poll path;
  section 3 lists when totals are not.
* `Tokenization` – `tokenization_mock.rs:281` says the threshold of a *pending* request is
  overridden; the code does not look at the status.
* `BrokerReads` – `fetch_latest_trade_price` never reads the symbol of the response
  (`market_data.rs:209-221, 300-328`), where the quote refuses another one
  (`market_data.rs:375-380`).
* `Admission` – a fetch of signing keys is abandoned with its caller and its floor stays
  (`crates/gateway/src/auth.rs:312-315`); nothing in the source says so.
* `OrderPlacement` – `lifecycle/mod.rs:191` says the limit price of a placement is
  the one the broker holds, if the order is a limit order; a limit retry that adopts
  a market order of an earlier attempt reports the price it asked for (`order.rs:899`).
* The broker mock lists a short position with the absolute quantity and the side
  `short` (`mock_api.rs:1085`), and the client reads the quantity only
  (`positions.rs:62`), so against the mock a short position reads as a long one.
  `BooksBalance` is about the ledger and not about this listing.

## 5. What is proved

The theorems hold for every set of calls or callers and every value of the constants
that meets the named assumptions.

**`GatewayCallProofs`** (from `KindsAssumption`: a stream does not mutate;
`PerMinuteAssumption`). `TypeCorrect` proves `[]TypeOK`, which bounds the budget.
`NotAppliedHolds` proves `[]NotAppliedIsTrue`. That property is not inductive: it
speaks of the answer and of the records, and these are copies of a result that was
fixed earlier. The inductive invariant adds, for each call: *Control* (which places
of handler and task, channel and wire go together), *Belief* (when `written = "no"`
nothing was applied, nothing is stray, and only a write in flight can still do so),
*AnswerSource* and *RecordSource* (an answer or record holds the result, or a code
the handler chose, which is never one that means `not_applied` for a mutation whose
task exists). One step per action, split by the parts it can disturb.
`NoSendOnceAbandonedHolds` proves the action property of the same name and
`AuditTellsTheAnswerHolds` `[]AuditTellsTheAnswer`, from a second invariant over the
first: *Gate* (a handler that left its wait without the result closed the gate
first, or no gate opens any more because of shutdown), *Channel* (the oneshot
channel decides once who got the result, and the task's phase says what it found),
*Trail* (a call has at most one record of the handler and one of the task, and has
each as soon as its author is done) and *Clean* (an exit within the grace left no
task behind).

**`AdmissionProofs`** (from `AdmissionAssumption`: the types, `FetchTimeout <
REFRESH_FLOOR`, in the code 10 s and 60 s, and `LockDelay < WINDOW`: a task that has
read the clock gets the budget's lock, which is held for a few instructions, within
60 s. The code has no bound for that wait; without one, `BudgetHolds` bounds
nothing). `KeysNeverGoBackHolds` proves the action property and
`RefusedOnlyForAReasonHolds` `[]RefusedOnlyForAReason`, from one invariant: a fetch
that is on its way is the last attempt and within its timeout (*FlightOk*), so the
floor keeps every other away and no older answer can be written last; what a key set
lacks was published since the last attempt or is retired, unless that attempt brought no
keys because it failed or its caller went away (*Complete*, `GoneStep`); and a request
on its way to a refusal knows why (*RefusalOk*). `BudgetHoldsAlways` proves
`[]BudgetHolds`, a bound on the sum over any span of a window less the delay. It is not inductive in the window's counter alone: *WindowInv* says what may have
passed from any tick on, as a bound for the window that is charged now, for the one
before it and for those further back (*Charged*), and *ReadingOk* that a reading of
the clock is at most `LockDelay` old when it is used. `PassedIsUnits` and the lemmas
on *Units* turn the sums of the property into these bounds.

Of `TokenCache` (from `MarginsAssumption`, in which `MintTimeout <= HardMargin` is
the relation of `MINT_HTTP_TIMEOUT` to `TOKEN_HARD_MARGIN`, and `NoOneAssumption`,
which keeps the mark of a free lock apart from the callers). `OneMintHolds`: the
places that hold the lock are held by its owner, and no waiter in the queue is at
one of them. `CachedTokenHolds`: the hard deadline never exceeds the expiry Alpaca
gave, because the answer comes within `MintTimeout` of the request and the margin
absorbs it. `SpacingHolds`: the hold of a throttled mint never moves back, no
mint starts inside it whether there is a token to ride or not, and none starts inside the
backoff of a failed refresh while the token that refresh fell back on can be used. It needs to know
that while a token is ridden out after a failed refresh, its refresh instant is the
end of that backoff or its hard deadline (*RideInv*); `HoldGrows`, `RideStep` and
`MintIsDue` are the three facts it is put together from.

**`GatewayHopProofs`** (from `HopAssumption`: the operations are of the catalogue
and a caller may call). `MeaningIsKept` proves `[]HopKeepsTheMeaning`: the tables of
`answer.rs` and of the adapter are followed for each kind of error that each
operation can meet, through the failure on the wire, to the error the adapter makes
of it (`Keeps`, `Right`), once for each family of operations. `HopIsSafeHolds`
proves `[]HopIsSafe` from *HopInv*: what an error says is not enough, since a
mutation that was lost may be applied while the caller calls again. *OnceInv* says
that nothing but the current mutation is applied or can be, and not even that as
long as no outcome was in doubt and no call succeeded; *DoubtInv* that an unknown
outcome allows a resend exactly as the catalogue does; *SpentOk* splits the client's
bound over its phases.

Of `IssuerRetry` (from `BoundsAssumption`, which only types the constants):
`UnwrittenIsUntouchedHolds` proves `[]UnwrittenIsUntouched`. The property speaks of
a call that failed; the invariant has to follow it through all its attempts: while
the loop has seen no attempt that may have reached Alpaca, none has, but for the one
in flight (*UnwrittenSoFar*), and a request is out only while its attempt awaits it
(*OnTheWire*). `WaitsWithinBudgetHolds` proves `[]WaitsWithinBudget`: what was
slept, what is left of the current sleep and what is left of the budget never exceed
the budget (*BudgetSplit*), although the hold that is slept on is moved by the other
callers.

**`OrderPlacementProofs`** (from `PlacementAssumption`). `UnwrittenHolds` proves
`[]UnwrittenMeansNoOrder`, `HeldHolds` `[]PlacementIsHeld`. The first is not
inductive: an attempt that fails joins the unwritten ones, so one has to know that
until its POST nothing at the broker bears its number (*Current*) and that numbers
are never used again (*Attempts*). The second needs the same facts while the
placement is still read back (*Held*): an order keeps its size and terms once it
exists, and a late POST is taken only under a key without an order. `FailStep`
treats the end of every failed attempt once. `NeverHedgedTwiceHolds` proves
`[]NeverHedgedTwice`, a bound on a sum over all keys. Its invariant says that the
fills under all keys are what the caller no longer needs plus what the current key
has filled (*Counted*), that whatever is or may still become an order under the
current key fits in what is left (*Fits*), and that a key the caller has left fills
no more (*Left*): its order ended, or nothing of it is at the broker.

Of `ConversionPoll` (from `DeadlinesAssumption`, which only types the constants):
`AnswerIsFinalHolds` proves `[]AnswerIsFinal`, `KnownFillIsKeptHolds`
`[]KnownFillIsKept`. The invariant says what a read still tells of the order when it
is used (*Order*: fills only grow, and an order found ended is as it was found), what a 404
means for an order that is written off,
that the fill the poll remembers is the largest its reads reported (*Seen*), what an
answer says (*Told*), and splits the time spent and left by phase (*Phases*): before
the deadline, in the first cancel, and in the settle window, which a cancel sent
again may overrun by its timeout.

**`WalletProofs`** (for any calls, addresses, pinned destinations, amounts, entries
and bounds). `WalletAnswersAreTrue` proves `[]AnswersAreTrue` and `WalletLanesApart`
`[]LanesApart`, both from *WalletInv*, which has three parts. *BooksInv* is about
the mock: the balance is the signed sum of the transfers, an incoming transfer bears
the hash and the amount of its block, no two bear the same, and every block behind
the watcher is credited. *CallsInv* is about the handlers: until it has answered,
exactly the entries of the writes of a call that are through are changed, and after
an answer `unknown` those it named and at most the one it stopped at; a write still
under way is that one and no other (*StrayOk*). *LaneInv* is about both: the call a
transfer was made by passed the check of destinations, which for a late write one
knows only because the call that left it behind had passed it.

Of `DeadlinePoll` (for any deadline, interval, backoff and hints): `DeadlineHolds`
proves `[]EndsByDeadline`, `AnswerIsTrue` `[]AnswerHolds`, which includes what a
poll ended by its deadline says of throttling. The inductive invariant adds what a
sleep and a read may still take (*SleepInv*), what the kept throttle says of the
last read (*ThrottleInv*) and that nothing is answered before the end (*DoneInv*).
`AnswerHolds` survives later moves of Alpaca and stale reads because a report never
runs ahead of the state and a final state stays (`FinalIsNow`).

**`TokenizationProofs`** (from `TokenizationAssumption`, which types the constants
and keeps `NoKey` apart from the keys). `OneRequestPerKeyHolds`,
`NotAppliedMintsNothingHolds` and `TotalsConservedHolds` prove the three invariants
of the two runs. `RequestsMade` says first what any step does to the requests: nothing,
one fresh request (a mint under a key without one, one a test injects, or the redemption of
the block the watcher is at), or a move that keeps each request's identity, which only lists,
the executor and tests make. On it rest *OncePerKey* and *OncePerBlock*, *Callers*
(requests and late POSTs bear the number of the call that made them, so a call told
`not_applied` has made none), *Executor* (a mint the executor collected stays to be
executed until it is done with it: a poll passes it by, and a test may set its status but not
that),
*Watching* (every block up to `last_block` and below the scan is recorded) and
*Bounded*. Conservation is one equation over the position, the wallet, what is owed,
lost and being transferred, and the sum of the blocks whose redemption has not
completed, under the condition that nothing skewed the books. A list completes any number of redemptions at once: `ListKeepsSupply`
matches the requests it returns with the blocks that leave the sum, one to one by
*OncePerBlock*, through `SumTake`.

**`BrokerProofs`** (from `MockAssumption`: types, sizes that can be halved, a price
or a key that is none kept apart from the others; and `ReadAssumption`: types, at
least one page of at least one row, minutes of one day). `BooksBalanceHolds` proves
`[]BooksBalance` from *Settings* and *Books*: nothing fills before an order leaves
`new`, and an order's fill is none, half or all of it, as its planned outcome says
(*Orders*); cash, USDC, positions and market values are what the orders moved
(*AccountIsItsOrders*, by `SumChange`: a poll changes one order and moves the
account by as much); and fee rows match the equity orders that filled (*Ledger*, a
numbering of both). `MockIsABook` proves the refinement `Spec => IsBrokerBook`: a
placement records the next number, a poll advances an open order or relabels an ended
one, and everything else leaves the book as it is. `ReadsAreRight` proves `[]ReadIsRight` of `ReadSpec`,
the read part of the specification that `reads` checks: *CacheOk* (the cached asset
was read at most a request before it was cached, whichever of two fetches came
last), *PositionsOk* (what the first of an inventory's two requests left to be used
after the second) and, for the session, that the session the code computes from any
calendar answer is the exchange's. `RowsAreReadOnce` proves `[]EveryRowOnce` of it:
between two pages every matching row up to the token is in (*PagingOk*), because
rows are only added behind the token, a page is the first rows after it, which leave
no gap, and a page shorter than `PAGE_SIZE` has them all; a server that ignores
tokens gives one full page again and again, and the read ends in an error. That a
page exists as an ascending sequence is proved by numbering its rows by rank.

**`Sums`** has no assumption. `SumFunction` is defined by a recursive function over
sets, and induction over sets is done on a minimal counterexample: finite sets are
well founded under strict inclusion, so a non-empty set of sets that violate a claim
has a minimal member (`MinimalSubset`), and removing one element from it contradicts
the claim. This gives the type of a sum (`SumType`), taking one element out
(`SumRemove`) or several through a numbering (`SumTake`), sums of functions that
agree (`SumAgree`), splitting one (`SumSplit`), leaving terms out or changing one
(`SumGrows`, `SumSkip`, `SumChange`), the two facts about totals used above
(`TotalType`, `TotalUpdate`), and that a finite set of numbers has a largest and a
smallest member (`HasLargest`, `HasSmallest`).

### Only model-checked

Liveness under fairness (`ShutdownEnds`, `EventuallyRecorded`, `WaitersReturn`,
`EveryCallEnds`, `EveryConversionEnds`, `EveryPollEnds`, `RedemptionDetected`, `DepositFound`,
`EveryEventCommitted`) is outside what the prover handles. `ActionStream` defines
its decoder with recursive operators, which the prover does not take, so
`StreamIsSafe` is checked by TLC only: what the decoder makes of a frame is an
induction over the chunks it arrives in. Every other invariant and every action
property that a passing run checks is stated by a theorem.

## 6. Not modelled, and why

* Value types, decimal formatting, journals' bodies and wire DTOs: no state, and no
  property here is about their text. Where a conversion decides something
  (truncation to a precision, cents, whole seconds) it is an operator.
* Signing an assertion, TLS, JWT validation: libraries; a step that succeeds or
  fails.
* Config parsing, its validation and start-up: nothing changes afterwards. Its switches are
  constants or kinds of call (`disabled`, `Pinned`, `PerMinute`, `HasTravelRule`).
* Logging, redaction of beneficiaries and digests: output only.
* Sizing of conversions (`validate_usdc_amount_for_*`, `truncate_notional_*`), fee
  reads of transfers, issuer lists: a request and a mapping each.
* The mock's clock, calendar, asset and price endpoints: constant answers.
* Time zones: the calendar's local times are taken as minutes of one clock, so a day with a
  daylight saving change is not in the model.

## 7. What is left

1. A theorem of `StreamIsSafe` would need the decoder as a function of its state and
   one token, and its invariant stated without the log's recursion.
2. A composition of `GatewayHop` with `GatewayCall` in one module: today the hop
   takes the gateway's work as one step, which `NotAppliedIsTrue` justifies.
3. The inventory as a read of two moments: the positions and the funds are read
   one after the other, and nothing says they belong together.
4. Cancels of equity orders by the client, and the sizing of conversions.
