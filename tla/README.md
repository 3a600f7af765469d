# A formal model of dex-lp-engine

TLA+ modules that model the control logic of the liquidity engine in `src/src`,
TLC configurations that check them on small instances, and theorems that TLAPS
proves for every value of the constants. Paths below are relative to `src/`
(`src/engine.py` is the file `src/src/engine.py` of the checkout).

Two things to know before reading:

* **`src/engine.py` does not compile as it stands.** A banner string at lines
  239-247, dropped into the middle of `_process_rebalance`, ends the method; line
  249 is then an `IndentationError`. The model reads the method as if the banner
  were not there, which is what the lines before and after it say. (A similar
  banner in `src/hedging/il_hedge.py` 75-83 is harmless.)
* The receipts (`signed.rawTransaction`, `topics[0].hex()` compared with a
  `0x` string) work or raise depending on the versions of the client libraries.
  The model lets a confirmed receipt be "unparsed" as one of its faults.

## 1. The system

One asyncio task per pool runs `LPEngine`: it opens a Uniswap v3 position NFT,
then once per poll fetches the market, asks the circuit breaker, hedges with a
perp short, rebalances the range, collects fees; a signal makes it close
everything. Several engines may share a wallet, and then share one
`NonceManager`.

| component (source) | state it keeps | operations | talks to |
|---|---|---|---|
| Engine (`engine.py`) | `_position`, `_running` | `start`, `run_loop`, `_tick`, `_process_hedge`, `_process_rebalance`, `_maybe_collect_fees`, `stop` | awaits everything below |
| Circuit breaker (`utils/circuit_breaker.py`) | deque of rebalances, peak value, `_tripped`, `_stop_requested` | `check`, `allow_rebalance`, `record_rebalance`, `request_stop`, `trip` | engine; signal handlers; redis |
| LP calls (`execution/lp_executor.py`) | none | `open_position`, `close_position`, `rebalance`, `collect_fees` as sequences of transactions | `_send`, chain |
| Transaction sending (`LPExecutor._send`) | locals of a call | up to three attempts: gas, nonce, send, receipt, confirmations | nonce manager, node |
| Nonce manager (`execution/nonce_manager.py`) | `_nonce`, `_lock` | `next`, `reset` | node; all executors of the wallet |
| IL hedge manager (`hedging/il_hedge.py`) | `_hedge` | `evaluate`, `should_remove_hedge`, `on_hedge_*` | engine |
| Perp executor (`hedging/perp_executor.py`) | none; the position is the venue's | `open_hedge`, `adjust_hedge`, `close_hedge` | venue |
| State store (`utils/state_store.py`) | rows `positions`, `hedge_state` | save, delete, restore | engine, across restarts |
| Range strategy, rebalance engine | a cache of estimates | ranges, triggers, approval | engine |
| Price oracle (`utils/price_oracle.py`) | price and time per symbol | `get_price_usd`, `last_update_time` | Pyth, Chainlink; engine, breaker |
| Pool analytics (`utils/pool_analytics.py`) | fee APR and time per pool | `get_fee_apr` | subgraph, DefiLlama; engine |
| Pool data client (`core/pool_data.py`) | none | `fetch_snapshot` | RPC node |
| IL math (`core/il_math.py`) | none | `compute_il`, `delta_from_il`, liquidity and amounts | hedge manager; callers outside the engine |
| Fee math (`core/fee_math.py`) | none | `fee_growth_inside`, `fees_owed` | callers outside the engine |
| Volatility, types, metrics, keys | a window of prices; counters | numbers, records, output | engine |

What is hard about it, and what each component has to get right:

* **Concurrency.** Only an `await` gives way, but there are many: signals set the
  stop flag at any of them, and the executors of a wallet interleave inside
  `next()` and between taking a nonce and sending it. Right means: no nonce
  twice, none lost, a stop that is honoured wherever it arrives.
* **Answers that do not say what happened.** A send, a receipt, a confirmation or
  an order may fail after it had its effect; `tenacity` then repeats it. Right
  means: effects are repeated only where the fate of an attempt is unknown, and
  liquidity is never added on top of a position the engine knows.
* **Partial failure.** A rebalance is four transactions, a stop three and an
  order; an exception between two ends the tick, and the loop goes on. Right
  means: memory, rows, NFTs and short still agree, and a later stop still works.
* **Crash and restart.** The rows are all that survives. Right means: they are
  never behind memory, and no open position is missing from them.
* **Stale data.** Prices and fee APRs are cached, each lookup has a fall back, and
  several awaits lie between a lookup and its use. Right means: a tick trades on a
  price of bounded age, and the breaker sees the age that matters.
* **Limits and arithmetic.** The hourly number of rebalances, the drawdown, the
  range buffer, the rounding of ticks of either sign, the cases of the formulas at
  the bounds of a range, accumulators that wrap.

`PROJECT.json` lists the hazards line by line, with the properties that cover
them.

## 2. The modules

| module | models | checked by |
|---|---|---|
| `CircuitBreaker` | the breaker and the loop that drives it, for prices of any age | `MCCircuitBreaker` |
| `MarketData` | composes it with the pool client, the price oracle and the analytics: a tick await by await | `MCMarketData` |
| `SendContract` | abstract: what `_send` promises its caller | by refinement |
| `TxSender` | nonce manager and `_send`, several tasks, node and chain | `MCTxSender` |
| `LPEngine` | engine, LP calls, store, crashes and restarts | `MCLPEngine` |
| `PerpHedge` | hedge manager and perp orders, by signed size, for any IL and target | `MCPerpHedge` |
| `ILMath` | `compute_il` and `delta_from_il` as exact fractions | |
| `HedgedPosition` | composes `PerpHedge` with a position: IL and target are computed from prices and range | `MCHedgedPosition` |
| `RangeStrategy` | ranges of ticks and the triggers of a rebalance | `MCRangeStrategy` |
| `PositionMath` | liquidity, amounts and fees of a position in a pool that wraps | `MCPositionMath` |
| `*Proofs` | the theorems | TLAPS |

How they fit together: `TxSender` implements `SendContract` (`ImplementsContract`:
checked as a property, proved as `SendImplementsContract`). `LPEngine` sees a
transaction only through that contract: it lands (`TransactionLands`) and is later
confirmed, or ends in `TransactionFails`, `TransactionReverts` or
`TransactionLost`, and `LateTransaction` is the effect a call in doubt may still
have. `LPEngine` keeps only whether a hedge is small or large and whether the
venue holds anything at all: an adjustment may leave it with a position or
without one. `PerpHedge` has the signed sizes, for one manager and one venue.
`LPEngine` chooses freely whether a tick rebalances, trips or hedges;
`CircuitBreaker` and `RangeStrategy` say when.

Two more refinements join components to what they depend on. `MarketData`
implements `CircuitBreaker` (`ImplementsBreaker`, theorem
`MarketImplementsBreaker`): the breaker alone takes a price of any age, and the
composition adds the caches that say which ages can occur, so that the breaker's
properties carry over and `OnlyDrawdownTrips` becomes provable.
`HedgedPosition` implements `PerpHedge` (`ImplementsPerpHedge`, theorem
`PositionImplementsHedge`): `PerpHedge` takes any IL and any target except a gain
with a target that is not negative, and the formulas keep that whatever the
market does and however often the range is moved.

### State and code

* An action is the code between two awaits; `pc` or `phase` names the await the
  task is at. Trailing saves are part of the action: `RebalanceReturns` also
  writes the row, `HedgeOrderReturns` also decides whether the hedge is removed.
* `LPEngine.program`, `todo`: which handler awaits the LP call under way and the
  transactions it has still to make (`Transactions` gives them all).
  `attempt` is tenacity's. `position`, `hedge` are the engine's memory; `dbPos`,
  `dbHedge` the two rows; `nft`, `late`, `held` what exists outside.
* `LPEngine.landed`: what is sent takes effect in a step of its own
  (`TransactionLands`, `OrderLands`), while the task awaits the receipt and the
  confirmations, or the venue's answer. Crashes, stops and failures may come
  between the effect and the row that records it.
* `TxSender.pc[t]` walks through one `_send`. `mine[t]` is the nonce of the
  attempt. `mempool` and `chain` are the node: nonces execute in order, a nonce
  already pending is refused (each attempt offers the same tip). `buried` is how
  many transactions of the chain have `min_confirmations` blocks on top: the poll
  of the block number ends at `DeepEnough`, and nothing makes blocks come
  (`Buries`).
* `CircuitBreaker.rebalanceTimes` is the deque; `value` is the position's value
  in this tick; `now` is `time.time()`.
* `MarketData.awaiting` is the client call the tick is in, `quoted` the time of
  each cache entry (`"feeApr"` is that of the analytics), `waited` how long the
  call has taken. A lookup answered by the cache awaits nothing and so is part of
  the action before it: `SnapshotArrives` may run straight on to the breaker.
* `PerpHedge.hedge` is `_hedge.delta`; `venue` the position the orders have built
  up, in lots of the venue's precision, negative when short. `Quantities` sizes an
  order as the code does: an adjustment is worth its change of the delta at the
  tick's spot price (`perp_executor.py` 68-69) and is divided by the venue's mid
  price (130-131), less than `Least` is not traded though the delta is recorded
  (134-135, `il_hedge.py` 97-101), and sizes are rounded to a lot (`Rounded`,
  lines 122, 143). The mid price is any within `1/Basis` of the spot price.
* `RangeStrategy.entry` is the tick of `entry_price_usd`, which no rebalance
  updates (`engine.py` 258-262).
* `HedgedPosition.price`, `entry`, `lower`, `upper` are square roots of
  `current_price_usd`, of `entry_sqrt_price` and of the bounds; `EntryPrice` is
  that of `entry_price_usd`, which stays the first position's. The oracle's price
  and the pool's come from different sources and move independently.
* `PositionMath.global` and `outside` are the pool's accumulators; `last` is
  `fee_growth_inside_last`; `SqrtPrice` gives the square root of the price at a
  tick, of which only the order matters. The pool is external and written from
  what `fee_growth_inside` takes for granted of it.
* Ghost variables never occur in a guard, but for the bounds on `accrued` and
  `orders`. `doubt`: some call had an effect its caller did not see, or none where
  it saw one. `unwound`: a hedge was removed. `orders` and `astray` count the
  orders since the position at the venue was last closed, those filled as their
  caller believes and the others. `history`, `issued`, `epoch`, `opened`, `centre`,
  `half`, `spacing`, `deposit` and `accrued` remember what a property refers to.

Faults are parameters of `LPEngine`: `Faults` says which kinds may happen,
`MaxFaults` how often, so that a counterexample shows the fewest it needs.

## 3. What is checked

Passing runs:

| run | instance | shows |
|---|---|---|
| `breaker` | limit 2, window 2, clock to 6, four values; cache lives 1 and 2, calls of at most 1 | on `MarketData`: hourly limit, no trade after a trip or beyond the drawdown, prices of bounded age, only a drawdown trips `check`, a stop or trip ends the loop, within 13 steps of its own, unless a trade of the last tick never ends, refinement of `CircuitBreaker` |
| `sender` | two tasks, two attempts, one eviction | nonces distinct between resets, no gap left behind, ended calls accounted for, refinement of the contract, every call ends, within six of its own steps for each attempt, or waits for blocks that do not come |
| `engine` | all seven faults, any three of them, three attempts, two deliberate positions | the rows match memory; what the venue holds is recorded; a position or hedge is lost only by a fault between its execution and its row, by a mint that executes late, or where a removed hedge took the position's row (`LostOnlyInWindows`), and every position that nobody knows has a fault of its own behind it (`LossesNeedFaults`); a completed stop is complete, liquidity is added only after the burn; a requested stop ends the process, within 8 + 9 steps for each attempt, and, without a fault, closes everything, unless it waits for blocks that do not come |
| `hedge` | five prices, all ranges of them, mid prices up to a quarter off, three orders between closes, three faults of the venue | on `HedgedPosition`: how far each order, filled as believed or not, may take the venue's position from what the recorded deltas ask for, and that only a filled close settles the account (`VenueAsRecorded`); a concentrated position is never valued above a full-range one except above its range, refinement of `PerpHedge` |
| `ranges` | ticks -14..14, two spacings, four half widths | rounding is outward, a range is left only by a real move, fees are judged only inside the range |
| `position` | four ticks, three ranges, growth modulo 2 of a pool modulo 4, three amounts | fees owed are fees earned, the largest liquidity for a deposit, token0 is sold into every rise |

Runs that find the code at odds with what the repository says of it (each is a
finding of `PROJECT.json`, with the quotation):

| run | what happens |
|---|---|
| `breaker_window` | `allow_rebalance` counts a deque that only `record_rebalance` prunes: once full it never empties, and the process never rebalances again |
| `sender_stomp` | a `reset()` by one executor makes `next()` give out again a nonce that another holds but has not sent |
| `engine_recovery` | removing a hedge calls `delete_position`, which deletes the row of the *position*; a crash before the next save and the restart opens a second one |
| `engine_stop` | a call that fails after the withdrawal ends `stop()`; every later stop begins with a withdrawal that can only revert |
| `hedge_sign` | `open_short` sells the size of the delta, `adjust_position` the signed change: enlarging a short buys |
| `hedge_neutral` | the removal of a hedge is asked only after an action, which a neutral IL never gives |

The counterexamples of `engine_recovery` and `engine_stop` use one fault.

At odds with what the repository says as well, but shown by a property of a
passing run:

* The breaker "stops on ... stale oracle" (`README.md` 14, `circuit_breaker.py`
  12), but that trip cannot fire: a tick whose price cannot be fetched ends before
  `check`, and any other has a price of at most the cache's 10 seconds and two
  calls. `OnlyDrawdownTrips` says so, and is proved. In a long outage the engine
  neither trades nor trips. (`start()` does not ask the oracle at all.)
* The hard trip for "max rebalances per hour" (`circuit_breaker.py` 10, 107-112)
  is dead code: `allow_rebalance` keeps the deque at the limit, and the trip needs
  more than twice as many. The rate it is to stop never occurs, which is what
  `HardRateTripUnreachable` and `RateLimit` say.
* Just above the range `compute_il` jumps to `u/l`, a gain
  (`il_math.py` 103), so that a larger move can mean less IL, against the message
  of `tests/test_il_math.py` 43 at a price its test does not reach; "worse at the
  edges" (`il_math.py` 83) holds below and inside only: `ConcentratedIsWorse`.

Seen while modelling, without a run of its own because no line of the repository
claims otherwise or because a property already bounds it:

* `_wait_confirmations` polls without a timeout (`lp_executor.py` 176-181): when
  blocks cease, the call, the tick and a requested stop wait for ever on a
  transaction that has executed; if it is a mint, its position has no row yet.
* An adjustment of a hedge records its delta in full although it was sized at
  another market's price, rounded, or not traded at all; no order compares the
  venue's position with the record, so these errors add up until the hedge is
  closed. `VenueAsRecorded` bounds them.
* `check()` returns at once when a stop is requested (`circuit_breaker.py` 81), so
  the rest of that tick trades without limits; `TradesWithinLimits` says exactly
  that much.
* The redis answer may trip the breaker after a stop was requested; the loop
  tests `tripped` first and halts without closing (`engine.py` 144).
* A position opened by `start()` is snapped to the default spacing of 60
  whatever the fee tier (`engine.py` 95); a rebalance uses the tier's spacing.
* An opening range barely wider than the buffer is rebalanced on the first tick
  (`range_strategy.py` 81); `LeavingNeedsMove` bounds when.
* The IL trigger stays true after a rebalance, because `entry_price_usd` does not
  move with it. The fee drag that depends on being out of range is dead code
  (`FeesJudgedInRange`): out of range implies the first trigger.
* `engine.py` 167 asks the oracle for `pool.token0`, an address, which has no Pyth
  id; the fall back is always the ETH/USD feed.
* `fees_owed` reduces growth modulo 2^128 where the pool wraps at 2^256
  (`fee_math.py` 25): once a unit of liquidity has earned a whole unit of a token
  since the last collect, that unit is dropped. `FeesOwedAsEarned` is exact up to
  those multiples.
* A tick at the upper bound counts as in range (`types.py` 55) although it earns
  nothing there (`fee_math.py` 49).
* The profit of a hedge is added in full on each adjustment
  (`perp_executor.py` 72), from the first entry price.

### Bounds, and why they are enough

* `breaker`: three rebalances are needed to exceed a limit of two, and a clock of
  three windows lets the deque fill, age and be pruned twice. Values 10, 9 and 8
  lie below, at and beyond the drawdown limit; 0 disables it. `StaleAfter` 3 is
  exactly `CacheTtl` plus two calls, the tightest the assumption allows, so that a
  price one step older would trip; the caches expire at different times, and the
  token has no Pyth id while ETH has one, so that both ways of fetching occur.
* `sender`: two tasks exhibit every pairwise race for one lock and one counter;
  two attempts give a first, a retry and a last one. `MaxNonce` is beyond the
  four nonces that can be used. One eviction suffices for a gap. Two confirmations
  make a call wait for blocks that may not come.
* `engine`: each property concerns at most one position and its successor, hence
  two deliberate mints (retried ones are on top). Three faults allow a lost
  answer, a failure and a crash in one behaviour. Three attempts is the code's
  number.
* `hedge`: prices 2 to 6 lie on both sides of the entry 4 and give ranges of every
  width around every pool price; the targets are 4, 3, 0, -5 and, capped, -6. That
  at the lowest price is below the minimal notional, -5 is small enough to be
  removed, and steps between targets are beyond the drift of a tenth. Each spot
  price has mid prices on one or both sides, within a quarter of it; lots of 2 make
  odd sizes round either way, and a change of 1 is not traded. Three orders - an
  open and two adjustments - let their errors add up. Three faults
  exhaust the attempts of an order, or follow a partial fill with a lost answer
  and a failed close. The violations use `PerpHedge` alone, with six deltas around
  each threshold (9 to 10 is a drift of exactly a tenth) and one price for both
  markets, in units that round nothing: what they show needs no error of
  conversion.
* `ranges`: spacings 3 and 4, a buffer of 4 and half widths 1 to 6 give ranges
  narrower than, as wide as and wider than twice the buffer, around ticks of both
  signs.

* `position`: four ticks have a bound below, inside and above every kind of range.
  The pool starts with any history of its accumulators. With words of 4 and
  growth counted modulo 2, three units of growth wrap each of them at least once
  between two collects. Amounts 0, 2 and 7 leave either token scarce, and give
  liquidity that rounding brings to 0.

The proofs remove these bounds for all safety properties above.

`CHECK_DEADLOCK FALSE` where the modelled task ends by design: the loop has
been left, every call has ended, the engine is down for good, `stop()` has
returned. `ranges` and `position` never stop and are checked for deadlock.

### Fairness

* `MarketData`: `WF_allVars(~Trading /\ MarketEngine)`. There is one task; the event
  loop runs it whenever its await is over, and a lookup is answered, fails or times
  out. Orders and LP calls are not followed there (`Trading`), and nothing is
  assumed of them: `StopEndsLoop` names the case that a trade never ends, and
  `LPEngine` says when that is.
* `TxSender`: `WF_vars(Proceeds(t))` for each task. The lock is fair in asyncio; a
  request is answered, fails or times out, and a wait for a receipt ends after 120
  seconds. Nothing is asked of the node: not that it produces blocks, not that a
  poll of the block number ever fails. Since `_wait_confirmations` has no timeout
  (`lp_executor.py` 176-181), `EveryCallEnds` says that a call ends or, from some
  time on, only polls for blocks (`AwaitsBlocks`).
* `LPEngine`: `WF_vars(~AwaitsBlocks /\ Engine)`: the same for the engine's task,
  except for what follows a transaction that has executed, which may be awaited for
  ever. `StopEndsProcess` and `StopCloses` name that case. `WF_vars(Lands)`: what is
  sent and neither fails, reverts nor is lost - each a fault - takes effect;
  `WF_vars(LateTransaction)`: what is out executes or is dropped in the end.
  Signals, crashes and restarts get no fairness.
* `OperatedSpec` adds `WF_vars(Engine)`, that blocks are produced, and fairness of
  `Restart` and `RequestStop`: the operator of `engine_stop`, who tries again and
  again. It is used for that violation only, where it makes the counterexample
  stronger.

No choice inside an action (answer or failure) is assumed fair.

## 4. What is proved

Assumptions are those named in the modules (`BreakerAssumption`,
`MarketAssumption`, `SenderAssumption`, `EngineAssumption`, `HedgeAssumption`,
`PositionAssumption`, `RangeAssumption`, `PositionMathAssumption`): the constants
are numbers, sets and flags of the expected kinds. Those that say more:

* `CacheTtl + 2 * MaxAwait <= StaleAfter` (`MarketData`): 10 seconds, two calls
  and 60 seconds. The code limits its own clients to 5 and 8 seconds each; RPC
  node and redis are limited by the configuration of their clients.
* `ThresholdBps >= 20` (`HedgedPosition`): the default is 50. Below 20 a gain to
  hedge and an IL above -0.2% could not be told apart as `PerpHedge` does.
* `Word` is a multiple of `Q128`, and `SqrtPrice` increases (`PositionMath`).
* At least one attempt for every call that is retried; a lot is at most twice the
  least change (`PerpHedge`: 0.0001 and 0.001); `Deltas` are capped by `MaxDelta`.
* That a mid price is within `1/Basis` of the spot price is part of the model
  (`Near`), not of the code, which compares the two nowhere: `Basis` is how far the
  markets part, and the bound of `VenueAsRecorded` is a function of it.

TLC evaluates them in each run.

* **`CircuitBreakerProofs`**: types; `RateLimit`, `HardRateTripUnreachable`,
  `TradesWithinLimits`. The limit itself is not inductive: it speaks of the
  history, the code only of the deque. `IInv` says that the deque is the tail of
  the history, that what was dropped is older than an hour, and that it has room
  when a permission is pending. A new rebalance is then further than an hour from
  the one `MaxRebalancesPerHour` before it, which must have been dropped.
* **`TxSenderProofs`**: types; `NoGapWhenQuiet`, `NoncesDistinctBetweenResets`.
  `NonceInv` relates the lock to the task that fetches, the counter to the nonces
  given out, and each nonce below the counter to the chain, the mempool or a task
  that holds it; a task that lets go of its nonce unused is on its way to
  `reset`.
  `EndedCallIsAccountedFor` and `SendImplementsContract` follow from
  `ContractInv`: without doubt a call's current attempt is the only one that can
  execute. One step per action maps it to a step of the contract or to a stutter.
  `CallsRunDown` needs only types: a retry costs an attempt, worth six steps, and
  every other step is one further through `_send`; polls that change nothing are
  no steps.
* **`LPEngineProofs`**: types, and the shape of the program: `todo` is a suffix of
  the transactions of `program`.
  The safety properties about rows, mints and stops follow from it and `SafetyInv`,
  which adds what they do not say: the position is a minted token exactly while the
  engine runs and is not opening its first one; until a hedge is removed the rows
  say all that memory does; wherever a mint can execute, now or late, the known
  position is burned; what has landed has the effect its call expects
  (`LandedInv`); nothing is late that nobody doubts, and without doubt an open NFT
  has its row or is `Arriving`, the receipt and confirmations of its mint still
  awaited (`OpenIsRecorded`).
  `LostInWindows` is a property of steps: `StrayStep` and `OrphanStep` go through
  the actions and say which of them can make the engine and the store both forget
  what is open, and under which fault.
  `LossesNeedFaults` needs an account of its own, `FaultInv`. A fault pays for one
  thing: an NFT nobody knows, a mint that may still execute late, or the known
  NFT once it may be given up without a further fault (`Uneasy`: it is not in the
  state its handler expects, something is late, the proceeds of a rebalance are
  missing, or the breaker has tripped). No step spends more than it has:
  `CallKept`, `LandsKept`, `AttemptKept`, `LateKept` and their like say so action by
  action. A hedge is forgotten by a fault or with an uneasy position, which took
  one (`OrphanInv`).
  `StopRunsDown` follows from the shape of the program, which says how many
  transactions, each with its attempts, a handler has still to make.
* **`MarketDataProofs`**: types, the refinement of `CircuitBreaker`, and through it
  the breaker's own properties; `PricesAreRecent` and `OnlyDrawdownTrips`.
  `PricesAreRecent` is not inductive: it counts calls, and a call that has just
  begun has not used up its time. `AgeBound` counts the current call by the time
  it has taken. `LoopRunsDown` counts calls without times. `CallsOfPhase` says which
  calls belong to which phase, and `LookupPlaces` where a lookup ends that caches
  may answer in part: always nearer to the end.
* **`PerpHedgeProofs`**: types and `VenueAsRecorded`, which is inductive only with
  `HandlerInv`, which ties the await of an order to whether a hedge is recorded,
  and `CapInv`: every delta is a capped target. `RoundedError`, `ConvertedError`
  and `PriceError` bound what one order misses - half a lot, or the least change,
  and the gap between the two prices - and `OrderError` adds them up to
  `OrderSlack`. What the record asks of the venue is at most three caps
  (`RecordedSize`), so that an order that goes astray misses it by no more than
  `AstraySlack` makes room for (`AstrayFill`). Errors add up, but none feeds on
  another.
* **`HedgedPositionProofs`**: the refinement of `PerpHedge`, through it
  `VenueAsRecorded` for the targets and prices of a position, and
  `ConcentratedIsWorse`. The heart are inequalities about the fractions of
  `ILMath`: the mean inequality for a position in range, and for one below it the
  comparison of its bounds with the entry; a verdict of a gain therefore needs a
  price above the entry, where the target is negative.
* **`PositionMathProofs`**: `FeesOwedAsEarned` by counting modulo `Q128`: what the
  code computes is congruent to an unreduced difference (`InsideReduced`), which
  a swap moves exactly when it happens inside the range and a crossing does not
  move at all. `LiquidityIsLargest` says that the floor of a quotient fits
  (`FloorFits`) and that the case chosen is the scarcer token's (`LiquidityFits`).
  `SellsIntoRises` is the monotonicity of the two amounts.
* **`RangeStrategyProofs`**: `SnapsOutward` from lemmas on integer division for
  both signs; `LeavingNeedsMove` and `FeesJudgedInRange` follow from it.

Three of these theorems are what liveness rests on. `LoopRunsDown`, `CallsRunDown`
and `StopRunsDown` bound the steps a task has left by a number that each of its
own steps lowers and that no signal, chain or other task raises (`StepsLeft`, a
function of the state, which no action reads). What remains of `StopEndsLoop`,
`EveryCallEnds` and `StopEndsProcess` is that the task moves as long as it has
steps left: fairness and enabledness.

Only model-checked: that last part, and so all liveness (`StopEndsLoop`,
`EveryCallEnds`, `StopEndsProcess`, `StopCloses`), which is out of the prover's
reach, and the violations.

## 5. What is not modelled

* The engine's decisions follow no numbers in `LPEngine`; gain, gas cost and the
  estimate of the time in range are choices of the model. The cache of the
  estimate (`rebalance_engine.py` 149-171) is left out with it: its key holds the
  tick and the volatility to the last digit, so that a hit is a repetition of the
  same question, within the minute.
* The precision of `Decimal` (28 digits) and of floating-point: formulas are exact
  fractions, and `price_from_tick` and its relatives an increasing function.
* `volatility_optimal_range`, `time_in_range_estimate`, `VolEstimator`:
  floating-point and Monte Carlo; their results are inputs.
* Limit prices of orders: that an order is filled in part or not at all is a fault
  of the venue.
* The profit and funding of a hedge, the metrics, secrets, the GMX adapter, which
  raises `NotImplementedError`.
* The encoding and decoding of calls, selectors included: `fetch_snapshot` answers
  or raises.
* `peek()`, `is_stale()`, `update_funding()`, `fetch_position()`,
  `fetch_tick_pair()`, `il_breakeven_fees()` and others nothing calls.
  `liquidity_for_amounts`, `amounts_for_liquidity` and the fee formulas are not
  called by the engine either; they are modelled as the library functions they
  are, in `PositionMath`.
* Chain reorganisations, which the polling for confirmations would not notice
  either (`lp_executor.py` 173-181 compares block numbers only); a fee market, of which `TxSender` keeps only that a
  transaction may never be included.
* Two engines with one pool or one venue account: nothing in the code lets
  them know of each other.

## 6. Plan

Done, in this order: breaker; sending with its contract; engine with store and LP
calls; hedge by size; ranges; the data of a tick composed with the breaker; the
hedge composed with the formulas it follows; the arithmetic of a position. What is
left, most valuable first:

1. `LPEngine` on top of `MarketData` and `HedgedPosition`, in place of free
   choices: the composition shown to implement `LPEngine`. It would also say when
   a hedge that is too small keeps a tick from rebalancing.
2. The gain of a rebalance against its cost, with the cache of the estimate, for
   the approval that `RangeStrategy` leaves open.
3. Reorganisations in `TxSender`: how many confirmations leave which doubt.
4. Restarts in `CircuitBreaker`: the hourly limit across processes.
