# Verification of the xupertrade trading bot

TLA+ models of the trading bot in `src/bot/hypertrade`, checked by TLC on small
instances, and theorems about them checked by TLAPS for all instances. The
repository's code is the reference: every definition is translated from it, and
`PROJECT.json` (`map`) names the lines each definition stands for.

1. [The system](#1-the-system)
2. [What is modelled where](#2-what-is-modelled-where)
3. [The runs](#3-the-runs)
4. [What the code does not do as documented](#4-disagreements-between-code-and-documentation)
5. [The proofs](#5-the-proofs)
6. [What is left out](#6-what-is-left-out)
7. [Plan](#7-plan)

## 1. The system

xupertrade runs one *bot* process per tenant (Python, asyncio) and one
*dashboard* (Next.js) that starts, stops and watches the bots. A bot trades one
HyperLiquid account with several strategies at once. PostgreSQL holds what the
bot believes it owns, Redis what operators want of it, the exchange what is so.

### Components of the bot

| Component | State | Operations | What makes it correct |
|---|---|---|---|
| Trading engine (`engine/runner.py`, `main.py`) | `_control_hold`, `_awaiting`, `_restore_pending`, the strategies' memory | boot, restore, tick: control check, reconcile when due, flat-all, pause, one signal per strategy | no trade on a memory that was not restored; opens only when nothing holds them |
| Signal execution (`runner._execute_signal`) | one coroutine across some fifteen awaits | gates, close half of a flip, open half, order, booking, parity check, unfilled close | rows and exchange agree; a flip ends on its row; no opposite rows on a coin; one holder per coin and family; exposure cap |
| HyperLiquid adapter (`exchange/hyperliquid.py`) | - | `place_order` with one POST, polling for an unknown outcome, `get_positions` | an order is never sent twice |
| Repository (`db/repo.py`, `db/models.py`) | `trades`, `positions` | atomic open and close, reconcile | a position row per strategy and coin; a trade per order id |
| Reconcile (`repo.reconcile_positions`) | one pass | read, confirm, close rows, find and close orphans | one lying read closes nothing; passes that count leave no orphan |
| Flat-all (`runner._flat_all_positions`) | two Redis tokens | close, book, pause, acknowledge | acknowledged means flat; nothing opens afterwards |
| Restore guard (`engine/control.py`, `runner._check_control_state`) | sentinel and hold in Redis, two flags and an alert latch in memory | check, secure, hold, clear | a lost Redis holds the bot until a human has looked; a clear takes effect; one alert |
| Risk limits (`engine/portfolio.py`) | daily PnL, kill switch | check, record, persist | the day's loss survives restarts and outages |
| Event bus (`events/bus.py`) | Redis pub/sub | publish | an alert counts as sent only when somebody received it |
| Leverage push (`runner._ensure_leverage_pushed`) | the pushed leverage per coin, overrides in Redis | read overrides, push before an open | an open runs at the leverage last asked for |
| Fetch-outage window, trade-rate alarm, close alerts (`runner.py`) | windows, latches and streaks in memory | once per tick or interval | one alert per incident, which arrives; the operator outlasts the alarm |
| Fills backfill and ledger (`reconcile/fills.py`) | none; fills of the exchange, trades of the database | price a pass, backfill | a fill is part of one trade |
| Funding ingest (`engine/funding.py`) | a cursor | poll, backfill | every payment stored, none twice |
| Strategies (`strategies/*.py`) | position, stops, peak, cooldown; `state_json` in the row, a snapshot in Redis | candle, fill, refusal, export, restore | belief equals row; a gained stop is kept; a cooldown is sat out |
| Paper exchange (`exchange/paper.py`) | balance, positions | as HyperLiquid | margin is returned |
| Telegram (`notify/telegram.py`) | offset and cooldowns in memory | poll, command, link, forward events | a crash loses no command; the last order stands |
| HODL, vaults, reports, backtest, data feed, indicators | numerical | - | arithmetic |

### Components of the dashboard

Bot lifecycle (row, claim, container, cap on running bots; `lib/bot-*.ts`,
`lib/docker.ts`, `lib/admin/limits.ts` and the routes under `api/tenant/me/bots`),
heartbeat watchdog, sessions and login, tenants and secrets, restore-sentinel
seed, TLS and pages. They share state with the bot only through Redis, the
tenant's rows and the container.

### How the parts interact, and what is hard

- A tick is one coroutine: pass, then flat-all, then strategies one by one. What
  interleaves with it are the exchange, the operators' requests (the bot's API
  runs in the same event loop), Redis and the database failing call by call,
  and a crash.
- The exchange **nets**: two strategies on a coin share one position. Rows are
  the only record of whose it is.
- An order is POSTed once and may fill short, be refused, or have an **unknown
  outcome** and fill later.
- `get_positions` may answer 200 with a coin **missing**.
- Strategies switch their memory when they *signal*, before anything is traded.
- Redis can come back **empty**, with every disabled strategy enabled again.
- A tick looks at the **same closed bar** again and again until the next one.
- A write that raises may have **landed** (Redis, leverage, Docker).
- The dashboard's requests are a few awaits each over a row and a container, and
  nothing holds a lock from the first to the last.

`PROJECT.json` (`hazards`) lists each such place with its line and the properties aimed at it.

## 2. What is modelled where

`Book` holds the state the other modules share and the steps nobody in the bot
takes; `SignalExecution`, `Reconcile` and `FlatAll` each add one coroutine;
`TradeEngine` composes the three under the tick. `RestoreGuard` models one part
of `TradeEngine`'s control check at a finer grain and stands alone. The other
modules share no state with the book, and each stands alone too; `MCRunnerTasks` and
`MCComponents` instantiate several of them, and a behaviour runs one.

| Module | Variables | Code |
|---|---|---|
| `Book` | `row` open position rows; `pos` netted exchange position per coin; `belief` each strategy's flags; `inflight` orders with unknown outcome; `paused`, `holdKey` Redis; `ctl`, `awaiting` runner | rows: `models.PositionRecord`; answers of `get_positions`; `opens_held` |
| `SignalExecution` | `job` the coroutine of `_execute_signal`: which signal, which leg, where | one action per await: `BeginOpen` (duplicate check, risk limits, `_open_refusal`), `ResolveClose`, `OrderFills`/`OrderRefused`/`OrderTimesOut`, `PollSeesFill`/`PollGivesUp`, `BookFill`/`BookFails`/`PnlReadFails`, `VerifyParity`, `CloseNotFilled` to `SettleExternal` (`_close_left_open`), `Align` |
| `Reconcile` | `pass` the coroutine of a pass | `ReadExchange`, `ConfirmRead`, `CloseRows`, `FindOrphans`, `ReadAgain`, `CloseOrphan`, `PollOrphan` (a close that timed out), `EndPass` |
| `FlatAll` | `asked`, `done` Redis tokens; `flat` the attempt | `FlatRead`, `FlatClose`, `FlatPoll` (a close that timed out), `FlatBookRow`, `FlatSettle`, `FlatAck` |
| `TradeEngine` | `phase`, `todo`, `pending` | `Boot`, `Restore`, `TickWithPass`/`TickWithoutPass`, `RunFlatAll`, `ReadPaused`, `RunStrategy`, `EndTick`, `Crash` |
| `RestoreGuard` | `sentinel`, `hold`; `holdUnwritten`, `sentinelUnwritten`; `ctl`, `awaiting`, `alerted`, `alert`; `run` the runner's check; `api` a request | one Redis command is two steps - it lands or fails, with its answer perhaps lost, and the coroutine goes on - so the other coroutine runs between any two |
| `DailyLoss` | `daily`, `loaded`, `pending`, `date` of `PortfolioManager`; `stored` in Redis | `Record` (`record_pnl`), `Check` (`check_risk_limits`), each with `_ensure_loaded` and `_persist` whole; `Midnight`, `Restart` |
| `LossCounter` | `total`, `saved` | the abstract counter `DailyLoss` implements |
| `LeveragePush` | `override` Redis; `lev`, `read`, `asked`, `pushed` runner; `exch` the coin's leverage; `underway` pushes the runner does not wait for | `ReadOverrides`, `ApplyOverrides`; `_ensure_leverage_pushed` as `InSync` or `BeginPush`, `PushLands`, `PushAccepted`/`PushFails`; the API's `SetLeverage`, `ResetLeverage`, whose push `Arrive`s or is refused at any later step |
| `FetchOutage` | `outageStart`, `affected`, `outageAlerted` | `Tick` (`_settle_fetch_outage`) |
| `RateAlarm` | `disabled` Redis; `todo` the check under way; `tripped` | one action per await of `_check_trade_rate_anomalies`; the operator between any two |
| `CloseAlerts` | `streak` of `_close_rejects`, `unsent` of `_unsent_close_alerts` | `Missed`, `Dropped`, `Resend` and what ends a streak |
| `FundingIngest` | `inTable`; per actor a cursor and a page | `BeginPoll`, `BeginBackfill`, `Fetch`, `Insert`, `Stop` |
| `FillLedger` | `fills` of the exchange, `booked` order ids, open `rows`; the pass and the backfill under way | `OwnBooked`, `PassFetches` to `PassApplies`, `BackfillFetches` to `BackfillCommits` |
| `StrategyCatalogue` | - | one record per strategy: sides, stops, trailing, cooldown, what it persists |
| `StrategyState` | `mem` the strategy object, `posRow`, `snap` the Redis snapshot, `bar` | `Tick` (`on_candle` and what the runner makes of it), `CloseOutside`, `Crash`, the three ways a start restores |
| `BotLifecycle` | `bots` rows, `docker` containers, `request` per slot | a request is its first read, its Docker call and its write; starts claim, spawn, record or revert |
| `Telegram` | `confirmed` at Telegram, `last`, `fetched` in memory, `paused` flags | `Poll`, `Take`, `Obeyed`/`Failed`, `Crash` |
| `MCTradeEngine`, `MCRunnerTasks`, `MCComponents` | `part` which component runs | instances for TLC |
| `TradeEngineProofs`, `RestoreGuardProofs`, `DailyLossProofs`, `StrategyStateProofs`, `BotLifecycleProofs`, `TelegramProofs` | - | the theorems of one module each |
| `RunnerTasksProofs`, `ComponentsProofs` | - | the theorems of the compositions: those of the modules they instantiate that have no module of their own, and the others carried over |

History variables (`clean`, `taken` in a pass or a flat-all, `unbooked`, `ran`, `steady`, `calm`, `halted`; in
`RestoreGuard` `unseen`, `owed`, `news`, `cleared`, `reviewed`; marked *history* in
the other modules) only record what has happened, for the properties. No guard
reads them, but for one named bound of `BotLifecycle` (`Arrives`): nothing more is
asked of a bot once it is in `crossed`.

What the data is abstracted to:

- Sizes are whole lots, prices are constant. The exposure cap, a notional in the
  code, is counted in lots.
- A strategy is the side it believes it is on, and in `TradeEngine` it may signal
  any change of it. Its stops, cooldown and saved state are `StrategyState`'s, where in
  turn an order is filled or refused by choice. There, whether the indicators call
  for an entry or an exit is a choice per bar; prices of a short are negated so that one
  reading serves both sides.
- A candle or a price that cannot be fetched makes a strategy hold.
- Failures are the members of `Faults`: a kind in the set may happen at every call it
  applies to. So the database may fail at one call and answer the next.
- The five-minute interval of reconcile becomes "a pass may run this tick",
  except where the code forces one.

## 3. The runs

| Run | Properties | Instance |
|---|---|---|
| `trading` | `TypeOK`, `NoOppositeRows`, `ExposureWithinCap`, `BooksMatch`, `RestoredBeforeTrading` | 2 strategies on a coin, 2-lot orders, cap 3, short fills, crashes, exchange, database and Redis failing |
| `outside` | `FlipEndsOnRow`, `BackedRowsStayOpen`, `CountedPassLeavesNoOrphan`, `OrphanRowsClosed` | 2 strategies on a coin, the account moved by hand, orders with an unknown outcome, one partial answer, refusing risk limits; the last property is liveness |
| `flat_all` | `OneHolder`, `NothingOpensAfterFlatAll`, `FlatAllMeansFlat` | 2 strategies of a family on 2 coins, 2-lot orders, 2 requests, orders with an unknown outcome, exchange failing, crashes; symmetric in the strategies, each with its coin |
| `restore_guard` | `TypeOK`, `OpensFollowAPass`, `HeldWhileLost`, `ClearedStaysCleared`, `OneAlertPerLoss` | Redis emptied once, one restart |
| `restore_clear` | `ClearTakesEffect` | liveness, the sentinel there or never seeded |
| `runner_tasks` | `TypeOK`, `IsLossCounter`, `CapGatesOpens`; `OpensAtTarget`; `OneAlertPerWindow`, `WindowSpansOutage`; `OperatorHasLastWord`, `SpamIsStopped`; `OneAlertPerLevel`, `CriticalWithTheWideBand`, `UnsentArrives`; `NoHole`, `AllStored` | six tasks of the runner, one per behaviour: 3 trades over 2 days; 2 strategies and 2 leverages; 2 feeds; 2 spamming strategies; 2 dropped closes; 2 payments at a time in pages of 3 |
| `components` | `TypeOK`, `SpentOnceUnderItsId`; `MemoryMatchesRow`, `RatchetHolds`, `DueExitFiresAgain`, `CooldownKept`; `CapHolds`, `NoStrayContainer`; `LastWordStands` | four parts, one per behaviour: 3 fills, 2 orders, 2 rows; every registered strategy over 3 bars; 2 bots under a cap of one, 2 requests at a time; 3 commands to 2 bots and a crash |
| `shared_order_id`, `unrecorded_close`, `confirm_reclassify`, `masked_loss`, `stop_mid_start` | one each | section 4 |

**Why the bounds suffice.** Everything here is about *pairs*: two strategies on
a coin, or of a family on two coins (`flat_all`; that a coin has one holder is
proved, `HolderIsAlone`), two legs of a flip, two reads of a pass. Two lots are the least with a short fill, and a cap of
three the least that lets one strategy in and not both with full size, yet both
after a short fill. `MaxPos` bounds the netted position; it only cuts fills
that would go beyond what both strategies can hold. One lie suffices to lie at any
one of the reads; two would defeat any confirmation by a second read, which
the code does not claim to survive. One unknown order at a time is in flight
(`OrderTimesOut`), be it of a signal, of a pass or of a flat-all. Two-lot positions in
`flat_all` show that a poll leaves one lot and never two. The passes, ticks, flips and un-pauses are unbounded. The fault kinds are split over `trading` and `outside`
so that each state space is finished in minutes. `RestoreGuard` has no data: one
loss, one restart; requests to the endpoint come one at a time.

Beside the book: two days are the least with a midnight, three trades the least
before, across and after it. Pages of three with two payments of a time let a page
end inside a time, on one, and full twice. Three fills give an order of two
fills beside one of one, a row of two lots beside a row of one. Three bars suffice for
an entry, a stop dragged along and an exit, or a close and a cooldown of two
bars; the five bar shapes reach every stop, target and peak one step away.
Two requests at a time are enough for every pair of start, stop, delete and
status read, and each may be followed by any number of others; two containers
are the least for a start after a start. Two bots under a cap of one make the cap
bite at once.

**Fairness.**

- `BotFairness` (`outside`): the loop of `main.py:346` never stops, every await
  returns, and no exception leaves a tick uncaught: weak fairness for each of
  the bot's steps. A pass recurs: one is due every five minutes, and at once
  whenever opens wait for one, so `TickWithPass`, enabled whenever a tick
  starts, is taken again and again: strong fairness. Nothing is assumed of the
  operator, the exchange's late fills or the strategies.
- `Fairness` (`RestoreGuard`): the same, plus that Redis answers the two reads
  of a pass again and again and that a pass counts again and again (the bot is
  not paused and the exchange not unreadable for ever). Nothing is assumed of
  writes: a clear takes effect even if Redis never accepts a write afterwards.
  Without the assumption on passes the property is false and should be: opens
  wait for a pass that counts.
- `RateAlarm`: a check goes on and the next one comes (it is part of the tick); the
  read of the disabled set, and the write for a strategy that keeps spamming,
  succeed again and again. `CloseAlerts`: a tick in which somebody listens on
  the bus comes again and again, as it resends each time. `FundingIngest`: a poll every
  half hour, and each of its pages is answered and committed again and again:
  an outage may be as long as it likes but not for ever.

**Preconditions in properties.** `BooksMatch` speaks of the time while the bot
made every change of the account and learnt its outcome (`clean`).
`CountedPassLeavesNoOrphan` and `FlatAllMeansFlat` speak of a pass or a flat-all
during which nothing else moved the account and no answer lied (`calm`): the
code cannot know of a change after its last read. They except one lot of a coin
whose close timed out and was taken for filled, which is the tolerance of the poll
(`FlatUpToPoll`); a close that timed out and was not taken for filled leaves a coin
unresolved, or a flat-all unacknowledged. What the tolerance means for a position of
one lot is told in section 4. `ClearedStaysCleared` speaks
of a clear that overlapped no check. `OpensAtTarget` speaks of the time from a push
of the runner or of main that was taken and answered, with none on its way, until the
API pushes again or an answer is lost (`strayed`); what an API push does to the cache
is told in section 4. `MemoryMatchesRow` excepts the open that was sent and not filled
(`astray`, section 4). `CooldownKept` excepts the losses named in
`StrategyState` (`forgot`): a startup reconcile that closes the row before the
strategy is restored, a state that could not be exported, a baseline older than
the bar before. `SpentOnceUnderItsId` excepts the further orders of a close made
of two (only the first id is kept) and an order the backfill books while a pass
prices (`loose`, section 4). `NoHole` starts at `floor`, where a reader last began behind a gap: a backfill
begun later than the newest stored payment leaves one. `CapHolds` and
`NoStrayContainer` except bots in `crossed` or `died`: a stop that took away
the claim of a start (`stop_mid_start`), a row changed under a request, a container
Docker did not describe or stop, a dashboard that died during a start.
`LastWordStands` excepts an order Redis or the cooldown refused. Each property has a mutant of the code that
breaks it under the same configuration (`PROJECT.json`, `mutants`).

## 4. Disagreements between code and documentation

Each is a run whose property states the documentation's sentence and which TLC
refutes.

- **F1 `shared_order_id`** - flat-all books every row of a coin with the same
  order id, which is unique in `trades` (`runner.py:1438`, `models.py:223`). Of two
  rows on a coin the second cannot be booked; the retry finds the exchange flat
  and acknowledges. The row is left for reconcile, what the comment at
  `runner.py:1361` says was fixed.
- **F2 `unrecorded_close`** - the pause after an unrecorded fill
  (`runner.py:1917`) is missed when the row read for the PnL fails: that read is
  outside the `try` (`runner.py:1902`).
- **F3 `confirm_reclassify`** - the confirming read of a pass replaces the first
  instead of being intersected with it (`repo.py:1081`). When one row needs
  confirmation, another coin missing from the second answer alone has its row closed.
- **F4 `masked_loss`** - a human clear writes the sentinel also when only an
  unrelated hold was unwritten (`control.py:297`); a Redis emptied since the last
  check is then never noticed, which the docstring at `control.py:287` excludes.
- **F5 `stop_mid_start`** - a stop that reads the row while a start holds its
  claim stops nothing and clears the row "regardless - container is either stopped
  or was already gone" (`stop/route.ts:87`). The start spawns and records its
  container between the stop's read and its write: the row says stopped, the
  container runs.

Seen while modelling, with the exception named in a property. The first three are
disagreements too: TLC refutes the property when its exception is taken out.

- A POST that timed out is polled for, and an answer within one lot of the position
  a fill would leave is taken for a fill of everything (`hyperliquid.py:832-854`).
  For an orphan of one lot the unchanged position is such an answer: the close counts
  as filled with nothing filled, the coin leaves `unresolved_orphans` (`repo.py:1252`),
  the pass counts and opens resume over a position without a row, although "Symbols
  pass 2 meant to close and did not ... Such a pass does not count" (`repo.py:94`).
  `_flat_all_positions` takes the same answer, books the rows and acknowledges, where
  `ok` is to be "true only when ... every close filled" (`runner.py:1332`).
  `CountedPassLeavesNoOrphan` and `FlatAllMeansFlat` except that one lot.
- The API pushes a leverage, drops the answer (`api.py:533`, `549`) and tells the
  runner's cache nothing. When the target then returns to what is cached - the
  override is written by hand, or a reset is refused by the exchange -
  `_ensure_leverage_pushed` returns true without a push (`runner.py:3242`), though
  the exchange is not "known to hold the target leverage" (`runner.py:3218`): the open
  goes through at what the API pushed. With a push of the runner whose answer was lost
  the same happens. `OpensAtTarget` excepts the time until the runner's next push
  is taken (`strayed`).
- A pass reads the booked order ids once (`repo.py:909`) and books its rows later. An
  order the backfill inserts in between is spent again, under a synthetic id
  (`repo.py:1360`), though the ledger "skips fills already booked as `trades` rows,
  so one close can never price two rows or double-count a fee" (`repo.py:769`).
  `SpentOnceUnderItsId` excepts the orders inserted while a pass prices.
- A plain open that is sent and not filled returns at `runner.py:1804-1820` without
  telling the strategy, which switched its flags when it signalled; the docstring at
  `runner.py:1608` says it "ends up believing in the position the DB actually
  holds". It does for refusals and flips (`MemoryMatchesRow`, `FlipEndsOnRow`).
- A startup reconcile runs before the strategies are restored and writes the
  snapshot of a new object: a cooldown counted from the entry is lost.
- `hash_momentum` sits out one bar less than the "6 bars after any trade close" of
  its docstring (`hash_momentum.py:21`): the bar of the close is not counted, the
  comparison is strict.
- `container.start` may succeed and the inspection after it fail (`docker.ts:90`):
  the start is undone in the row and the container runs.
- A link code is taken (`telegram.py:962`) before the link is stored. If storing
  fails the reply says "Please retry", but the code is gone, and the dashboard
  repeats it from its reverse pointer until that expires.
- Commands that waited in the chat are handled at once, and the cooldown of five
  seconds per command drops a second `/pause` among them without an answer.
  A `/flat confirm` delivered again after a crash is a new request.

Seen while modelling and accepted by the code's own documents or comments, so
neither a run nor a property:

- An orphan whose close is answered with a short fill counts as resolved
  (`docs/plans/nu5-deferred-defects.md`, D5; `CountedPassLeavesNoOrphan` is
  checked without short fills). Likewise a flat-all counts a short fill as closed
  (`runner.py:1381`).
- A delayed fill of a strategy's own order is recognised with one lot of tolerance
  (`hyperliquid.py:834`), so its row may be a lot off.
- A flat-all whose booking failed in the database is given up after the exchange
  was found flat, with a row left open for reconcile.

## 5. The proofs

Every invariant and every action property of the passing runs is also a
theorem, for all values of the constants that the modules' assumptions allow:
any strategies, coins, families, order sizes, caps, prices, bots, messages,
bounds and sets of faults. What is left to TLC alone is liveness. (The properties
of the runs that expect a violation are false, but for `BackedRowsStayOpen`, which
holds under the hypotheses below.)

### The book: `TradeEngineProofs`

| Theorem | Says | Provided | Also run by TLC |
|---|---|---|---|
| `TypeCorrect` | `Spec => []TypeOK` | | `trading` |
| `RowsFaceOneWay` | `Spec => []NoOppositeRows` | | `trading` |
| `HolderIsAlone` | `Spec => []OneHolder` | | `flat_all` |
| `ExposureCapped` | `Spec => []ExposureWithinCap` | | `trading` |
| `RestoredFirst` | `Spec => RestoredBeforeTrading` | | `trading` |
| `FlatAllHalts` | `Spec => []NothingOpensAfterFlatAll` | Redis answers | `flat_all` |
| `BooksStayMatched` | `Spec => []BooksMatch` | no answer is partial; orders fill in full or there is no flat-all | `trading` |
| `FlatAllFlattens` | `Spec => FlatAllMeansFlat` | answered orders fill in full | `flat_all` |
| `CountedPassIsClean` | `Spec => CountedPassLeavesNoOrphan` | answered orders fill in full | `outside` |
| `FlipEndsRight` | `Spec => FlipEndsOnRow` | the database answers | `outside` |
| `BackedStayOpen` | `Spec => BackedRowsStayOpen` | no answer is partial; or one, and the bot trades one coin | `outside` |

**What the hypotheses exclude.** Each is a set of values of `Faults`, `MaxLies` or
`MaxRequests` that the run beside it has, and each excludes behaviour the
code shows. If Redis does not take the pause of a flat-all, the code stops the
tick it is in and says so (`runner.py:1316`), and the request is acknowledged
nevertheless. A close of a flat-all or of an orphan that fills short counts as
done (section 4), so the account is not flat and the rows are gone. A row that
cannot be read after a flip's close failed is taken to be open on the side
opposite to the signal (`Align`), which it need not be. A partial answer of the exchange may close a row that
is backed, as the confirming read replaces the first (F3), and then the books do not
match although nothing but the bot acted.

**Types.** `TypeOK` is not inductive: a booking writes the row a
job asked for, and nothing in the types says that a job in `book` asked for a
side or got any lots. `TypeInv` adds:

- `OneAtATime`: job, pass and flat-all are idle unless the phase is theirs.
  It is what makes the tick one coroutine.
- `JobOK`: what a job in each place has decided - its leg, its side, that it asked
  for and got at least a lot, that a flip's close has a row.
- `ReadsOK`: what a pass or flat-all has read is still enough to act on.

**The gates.** `NoOppositeRows` and `OneHolder` are not inductive either: the gate is evaluated
in `BeginOpen` and the row written four awaits later, after the close half of a
flip has removed the row that kept others out. `RowInv` adds `GateInv`: from the
gate to the booking, the job of an open is still *admitted* - no other
strategy's row faces it, and without `allow_multi_coin` none is on its coin or in
its family. It is preserved because in the meantime only this job writes an
open row (`OneAtATime`): everything else only removes rows or shrinks them.

**The cap.** `LoadInv` does for the exposure what `GateInv` does for the sides: the
rows of the others and the order together stay within the cap until the order is
booked; `AskInv` says that no order got more than it asked for and that a close asks for no
more than its row has. `Exposure` and `Net` are sums over sets of rows, defined by the
community modules as a fold, that is by a recursive function over subsets. The
library's induction theorem takes an operator and cannot be used; `EverySubset` replaces
it by the least counterexample: in a finite set, a family of subsets that contains
each set whose proper subsets it contains is all of them (from the well-foundedness of
strict inclusion, with the family as a set). From it follow what the
cap needs of a sum: it depends on its terms only (`SumsAgree`), a set splits at any
element, fewer and smaller terms add up to less.

**The books.** `BookedInv` says by how much rows and exchange differ in each place:
not at all, but for what the order of the job in `book` got, or for the coin whose rows a
flat-all is booking. It needs `LegInv` (an open is sent with no row, a close that filled
leaves none, one that did not fill leaves its row), that what a pass and a
flat-all have read is the account, and `NetChange`, how a sum moves with one row. Its
other half is that the clamp of a close never bites: with all sides equal on a coin
(`RowInv`), what is held of a row's side is at least that row (`NetHeld`), so that a
reduce-only order takes everything it asked for.

**Flat-all, orphans, backed rows.** `FlatCloseInv`: while nothing else moved the
account, a coin is where it was read or, once it had its turn, flat, or within a lot
of it when a poll took its close for filled; while it is polled for, the position the
poll compares with is the one read before the order, which is the account's.
`OrphanInv`: what a pass read is the account, and the coins without a row are among
those it counts as unresolved or held, or a poll took their close for filled and
they are within a lot. The late fill of an order that is being polled for is a move of
the pass or the flat-all itself; one that comes after the poll gave up is not, and ends `calm`. `BackedInv` is about the two reads that close a row:
if a row backed throughout is a candidate after the first read, that read was the
partial one, and the second is true. On one coin the converse holds as well: a
candidate of a true first read means, as rows of a coin face one way, that no row is
backed; with two coins it does not, which is F3.

**The flip.** `FlipInv` says what the strategy believes in each place a flip can be:
the side it signals while an order is on its way; what the row says once
the open is booked; and that the close has left no row of the new side. The steps that
end a job (`WhatStops`) then leave the belief on the row, one by one.

**The restore and the halt.** `RestoredBeforeTrading` follows from `RestoreInv`: until a process has run its
first strategy, either its restore is pending or has not begun, or beliefs equal
rows; passes keep that, as they reset the strategies whose rows they close. `NothingOpensAfterFlatAll`
follows from `HaltInv`: from a successful flat-all to the next un-pause, the bot
is paused and no strategy is being evaluated.

### The restore guard: `RestoreGuardProofs`

| Theorem | Says | Along |
|---|---|---|
| `TypeCorrect` | `[]TypeOK` | `Typed`, and `Whence`: the answer a check carries where it stands |
| `PassBeforeOpens` | `[]OpensFollowAPass` | `ReviewInv`: why nothing waits for a pass |
| `LossHolds` | `HeldWhileLost` | `HeldInv`: while a loss is owed the sentinel is gone or the hold is there, also in what a check has read |
| `LossAnnouncedOnce` | `OneAlertPerLoss` | `AlertInv`: an announced loss is remembered until the sentinel is back |
| `ClearLasts` | `ClearedStaysCleared` | `SeenInv`, `AloneInv`, `ClearInv`: after a clear that overlapped nothing, nothing is left that would set the hold |

None is inductive, as between any two Redis commands the other coroutine acts: each
invariant speaks of what is in Redis *and* of what a check or a request under way
is about to write on the strength of what it read.

### The runner's tasks: `DailyLossProofs`, `RunnerTasksProofs`

| Theorem | Says | Along |
|---|---|---|
| `CountsEachTradeOnce` | `PortfolioManager` implements `LossCounter` | see Refinement |
| `LimitGatesOpens` | `[]CapGatesOpens` | inductive by itself over `Typed` |
| `OpensFindTheTarget` | `[]OpensAtTarget` | `PushInv`: since the last taken push of the runner what is cached, or about to be, is what the exchange holds |
| `OutageAnnouncedOnce`, `WindowLasts` | `[]OneAlertPerWindow`, `WindowSpansOutage` | `FetchInv`: while a feed fails there is a window and it lists the feed |
| `AlarmTripsOnce` | `OperatorHasLastWord` | `RateInv`: who was announced is tripped, and a check has no tripped strategy to do |
| `EachLevelHeardOnce`, `CriticalMeansWide` | `[]OneAlertPerLevel`, `CriticalWithTheWideBand` | `CloseInv`: a level that was heard is at most the one told last |
| `StoredWithoutHole` | `[]NoHole` | `FundingInv`: what lies before a cursor is stored (`Covered`), a page in hand leaves nothing out, payments are listed by time |
| `TypesOfTheTasks` | `[]TypeOK` | the types of each task |

### The other parts: `StrategyStateProofs`, `BotLifecycleProofs`, `TelegramProofs`, `ComponentsProofs`

| Theorem | Says | Along |
|---|---|---|
| `MemoryAndRowAgree` | `[]MemoryMatchesRow` | `RowInv`: an open that was not filled and not told has no row behind it |
| `RatchetIsKept`, `RefusedExitStaysDue` | `RatchetHolds`, `DueExitFiresAgain` | `LevelsFromRow`: a strategy that persists nothing has levels the row gives back |
| `CooldownIsSatOut` | `CooldownKept` | `CoolInv`: memory, row and snapshot each remember the close or have sat the cooldown out |
| `CapHeld` | `[]CapHolds` | `ClaimInv`: the claim of a start in flight stands until the start ends it, and a bot has one such start |
| `NoContainerStrays` | `[]NoStrayContainer` | `WriterSawItGo`, `MadeKnown`, `Accounted`: a container that runs is named by its row or about to be recorded |
| `LastWord` | `[]LastWordStands` | `WordInv`: what Telegram was told is handled, everything handled had its turn, and the flags obey the last order handled |
| `SpentOnce` | `[]SpentOnceUnderItsId` | `SpentInv`, `PlanInv`: what a pass may still spend no trade has booked since it looked, and it spends a fill for one row |

The catalogue of strategies (`StrategyCatalogue`) enters these proofs by a lemma that each
entry is `Consistent`, checked entry by entry.

**Compositions.** `RunnerTasksProofs` and `ComponentsProofs` prove each property again of the
specification the run checks: a step of the run is a step of one component or leaves
it alone (`StepOfATask`, `StepOfAPart`). The theorems of the modules with a proof
module of their own come from an `INSTANCE` of that module.

**Refinement.** `DailyLoss` implements `LossCounter` - a total to which each trade
is added once, of which a restart may forget only what was never saved - under
the mapping `total <- Total`, `saved <- stored`, where `Total` adds what was recorded
before a load to what is stored. TLC checks it as `IsLossCounter` in `runner_tasks`;
`CountsEachTradeOnce` proves it: first states map to first states, and each step to a step of `LossCounter`
or a stutter, case by case of what a load and a write come to (`TotalOf`).

The layout is the same throughout: a lemma per action, one step per conjunct it can
disturb, and a last step `BY PTL DEF Spec`.

**Only model-checked.** Liveness (`OrphanRowsClosed`, `ClearTakesEffect`,
`SpamIsStopped`, `UnsentArrives`, `AllStored`): fairness and `ENABLED` are outside this
prover.

## 6. What is left out

Within the modelled parts:

- Prices, PnL, fees and rounding, but for what `StrategyState` needs of prices; the
  wording of alerts.
- A hold that cannot be written to Redis: modelled in `RestoreGuard` only, in `TradeEngine`
  the write of a pass's hold succeeds.
- A paper bot: the account modelled is the live one (`Book`). In paper mode a failed
  restore is logged and the bot goes on unrestored and un-paused (`runner.py:380`):
  `RestoredBeforeTrading` does not speak of it.
- The exchange moves within the bounds `MaxPos`, and at most one order with an
  unknown outcome is in flight.
- `RestoreGuard`: Redis is not emptied a second time between the two writes
  that secure a loss; two human requests do not overlap.
- A Redis failure when the flat-all token is read ends the tick; it is covered by
  the tick ending in the next step.

- `StrategyState`: the indicators, candles that are missing, and the exit rules of
  single strategies beyond "stop, target, own rule". `BotLifecycle`: the container
  name kept in the row, ownership and secrets, API keys. A deleted row has no
  successor. A claim is stale only when no start is in flight, as the ten
  minutes of `limits.ts` assume. A tenant without a cap (NULL): its starts take no
  lock, count nothing and reap nothing, and there is no cap to hold.
- `FetchOutage` does not look at what the bus answers, as the code does not.
- `Telegram`: forwarded events (lost while the subscription is down, by design of
  pub/sub), `/link`, `/flat` (its request is `FlatAll`'s), reports.

Not modelled: the indicators, backtest, data feed, HODL, vault and weekly reports
(numerical, no interleaving); the paper exchange (sequential arithmetic in memory); the
allowlist and cap at boot (filters over a list); the heartbeat watchdog
(notifies only); sessions, login and OIDC (single Redis commands with a
lifetime); dashboard pages, TLS and proxy configuration, encryption, SQL grants,
deployment files (no state of their own).

## 7. Plan

Written, in this order: `Book`, `SignalExecution`, `Reconcile`, `FlatAll`,
`TradeEngine`, its instances and proofs, `RestoreGuard`; then `DailyLoss` with
`LossCounter`, `LeveragePush`, `FetchOutage`, `RateAlarm`, `CloseAlerts`,
`FundingIngest`, `FillLedger`, `StrategyState`, `BotLifecycle`, `Telegram`.

The proofs of section 5 cover every safety property of the passing runs. Left:

1. `BooksStayMatched` for flat-alls with short fills, up to the coin whose close
   fell short.
2. Abstract specifications worth stating beside `LossCounter`: one netted account per
   coin with an owner per row (`TradeEngine` implements it by erasing the
   coroutines); a hold that is set by a loss and removed by a human alone
   (`RestoreGuard` implements it).
