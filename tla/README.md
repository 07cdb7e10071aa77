# GRVTBot: a TLA+ verification project

GRVTBot (`src/packages/bot`) runs grid-trading bots on the GRVT perpetuals
exchange with real money; a React dashboard (`src/packages/dashboard`) and a
Telegram notifier (`src/packages/notifier`) sit beside it. The models here are
translated from the code of the bot, above all from
`src/packages/bot/src/bot/grid-engine.ts` ("GE" below).

## The system

One Node process holds the engine, the REST server, the WebSocket server and
the SQLite database. Nothing runs in parallel; everything interleaves at
`await`. What one call knows of another is the row of the bot, the map
`GridEngine.bots` and a few flags.

| Component | State | Operations | What is hard | What makes it correct |
|---|---|---|---|---|
| closeBot, delete guard (GE 1518-1876, `dashboard/server.ts` 546-604) | `grid_bots.status`, `position_size`; live position and close orders | pause, place, poll, re-price, escalate to MARKET, fail closed, delete | two closes at once, lost order ids, swallowed cancels, crash half way, stale reads | a stopped bot is flat; a close never flips; close orders are not stacked; a close ends |
| Bot lifecycle (GE 772-887, 949-1195, 1339-1507, 1881-1908, 3541-3915) | `status`, `GridEngine.bots`, `bootstrapInProgress`, `bootstrapAbort` | startBot (fresh or resume), pauseBot, restart, bootstrap | start against pause, tick against bootstrap, a start that fails half way | inventory bought once; no instance of a bot that is not running; no order before its inventory; a pause stops trading |
| Grid monitor (GE 4336-5127) | `grid_levels`, `processedFills`, `recentlyPlaced`, live orders | coverage, re-place, fill detection, counter-orders, virtual window, duplicate killer | lagging snapshots, a fill seen twice or never, stale rows | one order per level, each fill answered once |
| Fill archive and backfill (GE 2937-3213) | `fills_archive`, watermark, `lastMonitorSuccess` | poll, backfill, drift alert | poller and backfill share the archive; restarts | a missed fill is recovered, once |
| Range update, auto-shift, compound, DCA (GE 185-357, 2489-2911) | `bumpInProgress`, levels, `investment_usdt`, cash movements | re-range, rebalance, buy | stale plan, tick in flight, two writes | one grid at a time, profit compounded once |
| Safeguards (GE 3366-3535, 4257-4330, 5325) | caches, counters | margin, notional, liquidation, funding, max loss | stale balances | a brake always pauses |
| GRVT client (`api/`) | session cookie, rate-limit queue | signed requests with retries | swallowed failures, answers `0x00` | the outcomes the engine relies on |
| REST API, accounts (`server/v2-router.ts`, `dashboard/server.ts`, `auth/`) | users, sub-accounts | about 60 routes | ownership, tokens used twice | callers of the engine |
| WebSocket server (`server/ws-*.ts`) | subscriptions per socket | subscribe, unsubscribe, close, heartbeat | close during an awaited authorisation | no subscription outlives its socket |
| Database (`database/`) | SQLite tables | CRUD, FIFO accounting, WAL checkpoint | several writes without a transaction | atomic where it matters |
| Strategy analysis (`bot/backtester.ts` ...) | none | backtest, advise | floating point | sequential computations |
| Notifier (`packages/notifier`) | `state.json` cursors and marks | poll the database, notify | crash between send and save, paging | each event notified, not twice |
| Dashboard SPA | React state | views, WebSocket client | reconnects | resubscribes |

PROJECT.json lists every component with its status, and under `hazards` each
hazard at its line with the properties that cover it.

## Plan

Done, in this order: `CloseBot` and `BotLifecycle`, composed in `MCBotCommands`, and
`GridMonitor`, each with its proofs; `SharedConnection` with its abstract specification
`BotStore`; `RangeUpdate`; the safeguards `Brakes`, `Leverage`, `StopLoss`,
`FundingGuard`; `VirtualWindow` and `Stream`, all of these composed in
`MCEngineJobs`; the services in `MCServices`; theorems in seven modules that end in
`_proofs`, and `Induction`, on which those about recursive functions rest.

Left:
1. Two overlapping ticks of one bot (GE 802) and two overlapping
   replaceAllGridLevels; fills during a range update.
2. Liveness of the notifier's page (a user below the batch that holds it), and the
   stream with two tabs of one user.
3. A proof of WindowSettles, the one part of a checked invariant that no theorem
   states (see "What is only model-checked").

Every module keeps to operators without RECURSIVE, one action per stretch of
code between two awaits, and invariants as conjunctions, so that it can be
proved about.

## What is modelled

### CloseBot

`pos`, `closeOrders`, `gridOrders` are the exchange; `status`, `dbPos`,
`escalation` the row; `inMap` says whether `GridEngine.bots` has the bot;
`pc` and the variables after it are the locals of one activation of closeBot
per closer. Each action is the code from one await to the next:

| Code (GE) | Actions |
|---|---|
| 1518-1530 and pauseBot 1479-1507 | Begin, PauseInstance |
| 1532-1551 first read | ReadFirst |
| 1610-1725 limit phase | Reread, CancelPrevious, Place, Resolve, Poll, NextAttempt |
| 1736-1823 escalation | EscalateCancel, EscalateRead, Market, MarketPoll |
| 1825-1870 ends | CancelRemnant, WriteStopped, WriteFailed, Throw |
| delete handler | DeleteCheck, DeleteVerify, DeleteRow |
| monitor, restart, exchange | TickBegins, MonitorPlaces, TickEnds, Restart, Fill, GridFill |

Quantities are multiples of min_size. An order may fill in any parts at any
time; a reduce-only order only executes against an opposite position at least
as large. A createOrder that throws may have placed the order; an answer of
`0x00` loses the id. `faults`, one of the sets in `FaultSets`, says what may fail in
a behaviour, so that a property that needs a call to work says so. The branch for CLOSE_VERIFY_ENABLED = false is dead
code and left out, and so is wall-clock time (CLOSE_ESCALATION_AFTER_MS only
matters at the head of attempt 0, which always runs).

### BotLifecycle

`orders` counts the live grid orders at each level and `bought` the initial
purchases the position holds; `status` is the row; `reg` is the instance
`GridEngine.bots` holds, instances being numbered; `abort` and `boot` are the two
bootstrap flags; `pc`, `mine`, `seen`, `todo` are the locals of startBot per
request; `ppc` is pauseBot per caller; `tick`, `missing`, `recent` are the monitor
of each instance. `Overlap` says what may run at the same time; the model is of a
LONG bot with levels above the price whose total is worth at least
min_notional (otherwise executeInitialPurchase returns without buying).

`MCBotCommands` composes the two in the way of the jobs below: a behaviour closes a
bot or starts one.

### GridMonitor

One running bot. `price` counts the levels below the market, `book` the live
orders at each level, `fills` all executions, oldest first; the row of a level is
`row` (side, is_filled, pending_replace, and whether order_id is that of an
order: neither empty nor `0x00`). `archive` is how many of the fills
fills_archive holds, `keys` is processedFills (the monitor puts fill_id, the
backfill event_time), `recent` the levels placed in the last 10 s, `success` and
`stale` are lastMonitorSuccess, `old` counts the fills that are older than the
90 s of the fill check. The variables from `pc` on are the locals of the tick or
resume in progress.

| Code (GE) | Actions |
|---|---|
| monitor 4336-4500: open orders; ticker, coverage, gap | TickOrders, TickCover |
| 4500-4570: fill sources, then each uncovered level | TickFills, TickLevel |
| 4578-4630 duplicate and orphan killer | Killer, Cancel |
| 4632-4638 and handleLevelFill 4658-4744 | ReadLevels, Handle |
| placeGridOrder 4051-4241 with its caller's writes | Submit (in the callers), Place |
| 4640-4643 and checkPendingReplaceOrders 5065-5127 | ReadPending, Pending, TickEnd |
| monitorAllBots 1931-1958, resumeBotInstance 1339-1474 | BeginsWith, BackfillEnds, Boot |
| backfillFills 3028-3145, processBackfilledFill 4763-4808 | Fetch, Survey, Backfill, BackfillDone |
| pollFillArchive 2937-3000 | Poll |
| exchange, time, process | MoveUp, MoveDown, Age, RecentExpires, Restart |

Abstractions: the market moves one level at a time and executes every order there
in full; it moves wherever the code awaits the exchange. One tick runs at a time,
and neither the poller nor the age of a fill changes within a tick. The archive
is filled from the same call as the REST check, so the second source of the fill
check adds nothing and is left out. `Faults` and `MaxFaults` say what may fail
and how often: an order open_orders does not show yet (lag), a 7201 (band), a
2090 (full), a create_order that throws with or without effect, a swallowed
cancel, a read that throws, a restart, and a tick that outlives the 10 s of
recentlyPlaced (slow). Left out are virtual levels (VirtualWindow has
them), SHORT bots, DRY_RUN, the pruning of processedFills, the page bounds of the
backfill, the position drift alert and auto-shift (RangeUpdate has it).

### The jobs of the engine (MCEngineJobs)

Eight modules that share no variable. `focus` says which of them a behaviour
follows; the others keep one initial state. The composition says nothing about
interactions between the eight. It lets one run check them all, and its
invariants are the conjunctions named in it.

| Module | Code | State | Actions stand for |
|---|---|---|---|
| SharedConnection, refining BotStore | createBot, replaceAllGridLevels and single inserts of `database/db.ts` | rows in the connection and on disk, the open transaction, the job of each caller | one SQLite statement each: BEGIN and DELETE, INSERT, COMMIT, ROLLBACK, last_insert_rowid(), a failing statement, a COMMIT that fails and leaves its transaction open or ended, a crash |
| RangeUpdate | updateBotRange, buildRangeUpdatePlan, applyRangeUpdatePlan, the auto-shift, pauseBot (GE), PATCH range of `server/v2-router.ts` | range, rows, orders, `bumpInProgress`, position, cooldown of the auto-shift | the stretches of updateBotRange, buildRangeUpdatePlan and applyRangeUpdatePlan, the tick, the pause, the crash |
| Brakes | assertMaxNotional, assertMarginHeadroom, getCachedBalance and their callers (GE) | account, balance cache, the instance's levels, orders and fills | purchase, placement, market moves, failed reads |
| Leverage | applyAndVerifyLeverage (GE), POST leverage of `dashboard/server.ts`, `api/client.ts` | leverage at GRVT, in the row, and what the bot trades at | start, resume, POST leverage, lost answers |
| StopLoss | monitor, updatePnL, monitorAllBots (GE) | price, mode and instance of the bot, what the last tick measured | the tick with its errors, updatePnL, the route to pause or close, the instance dropped before a row that is not written, a restart |
| FundingGuard | assertFundingHeadroom (GE 4257-4326) | rate, interval, streak, alert mark | charges, ticks that look, ticks that do not come |
| VirtualWindow | rotateVirtualWindow, monitor, handleLevelFill (GE 3955-4045, 4336-4743) | rows, orders, the market | tick from await to await: coverage, rotation, killer, answers; calls that throw with and without their order placed; the margin brake that ends the tick |
| Stream | `server/ws-server.ts`, `server/ws-bus.ts`, `dashboard/src/lib/ws-client.ts` | sockets, subscriptions on the bus, what the tab listens to | open, subscribe with its awaited authorisation and its refusal, 4401, a token that expires, break, login, reconnect |

In SharedConnection a statement of anyone belongs to the transaction that is
open. `Promise == INSTANCE BotStore WITH grid <- ..., stored <- diskRows` maps
what is on disk to the abstract store, whose only steps are "a grid becomes another complete grid" and "a row is added".
Some actions carry ghost variables that record what the code cannot see, so that a
property can name its exception instead of losing its case: `marks` (torn, stale,
crossed) in RangeUpdate, `unseen` and `blind` in Brakes, `newest` and `raced` in
Credentials, `mixed` in SubAccounts, `behind` in Snapshots, `strays` in Ledger,
`began` and `extra` of the tick in VirtualWindow, `carried` and `lost` in
SharedConnection, `unwritten` and `eaten` in StopLoss, `denied`, `barred` and
`overtaken` in Stream, `skipped` in Notifier, `ownerless` in StoreStart, `late` in
Profit. `atOnce` and `woken` of RateBucket
are when requests really went out: the code notes the time from before its sleep.

### The services (MCServices)

Twenty modules, composed in the same way.

| Module | Code | What it follows |
|---|---|---|
| Notifier | `packages/notifier/src/index.ts`, `state.ts` | one tick with five checks, the page of round trips and what it starts behind, message by message, the save after them, crashes, failed reads and saves |
| Credentials | `api/grvt-client-factory.ts`, credentials routes of `server/v2-router.ts` | lookups that read, log in and cache, saves that invalidate and rebind, deletes |
| Commands | POST /bots and the commands of `server/v2-router.ts`, the engine they call, legacy POST /api/bots | the check of the slot and the row written after it, retries, start, pause, close, delete |
| Cache | `server/cache.ts` | concurrent fetches of one key, late stores, expiry |
| Shutdown | start, stop, track, drainInflight (GE 660-944), signal handlers of `dashboard/server.ts` | start, stop, track, drain, signals, timers |
| Accounts | auth routes of `server/v2-router.ts`, `database/db.ts` | sign-up, login, forgotten and reset passwords, statement by statement |
| StoreStart | initialize of `database/db.ts`, ownerBootstrap of `dashboard/server.ts` | the migrations and ownerBootstrap, crashes, and what is written while the process is up, the legacy page's fills of no bot included |
| RateBucket | RateLimiter of `api/client.ts` | callers that sleep and send without looking again |
| Transport | `api/auth.ts`, `api/client.ts` | session, 401, 429, coalesced reads, lost answers |
| Dispatcher | `server/ws-dispatcher.ts` | overlapping polls, the seeded mark, alerts and their owner |
| Snapshots | GE jobs of the day, `database/db.ts`, `server/v2-router.ts` 1662-1699 | boot and midnight jobs, the points of a window |
| SubAccounts | `database/db.ts` 2214-2330 and the routes that call it | the default sub-account in two statements |
| Session | `dashboard/src/lib/api-client.ts`, `auth-context.tsx` | tabs, tokens, answers in any order |
| Ledger | pollFillArchive (GE), the summary and the admin's backfill of `server/v2-router.ts`, the legacy page of `dashboard/server.ts` | all writers of fills_archive and the summary read from it |
| Reinvest | checkCompoundRebalance, decideCompound (GE), the compound by hand of `dashboard/server.ts` | compound by the scheduler and by hand beside updatePnL |
| Funding | `database/db.ts` 1429-1478 and its pollers | the snapshot with baseline, latest and carried |
| Profit | calculateRealGridProfit (GE 5240-5322), `database/db.ts` | archive to round trips, over and over |
| GridPlan | createBot and the grid it computes (GE), `bot/atr.ts`, `bot/fee-model.ts`, the validations of `server/v2-router.ts` | derivation, preview with its own quantity and spacing, both checks of the form, levels and rows with their rounding |
| Backtest | `bot/backtester.ts` | candles, fills, funding, drawdown |
| Advice | `bot/advisor.ts`, `bot/regime.ts`, `bot/robustness.ts` | regime, candidates, windows, ranking |

## What the runs show

| Run | Instance | Result |
|---|---|---|
| bot_commands | closing: two closers with one call each, one grid order, failing creates and reads, restarts; or one closer, two re-prices, two polls, every fault. Starting: one starter, two pausers, two levels, two instances, every fault; 583 795 states | CommandsTypeOK, StoppedIsFlat, SoleActivationNeverStacks, NeverDoubles, NoInstanceUnlessRunning, GridIsBacked; CloseNeverFlips, CallReturns hold |
| close_bot_small_residual | positions 1, 5, 12 in units of 0.001, no fault | violation: a residual below 0.01 is ordered as 0 and the close throws |
| bot_lifecycle_pause | pause during start, no fault | violation: the start goes on after the pause returned |
| bot_lifecycle_early_tick | tick before placeInitialOrders, no fault | violation: a level is placed twice |
| grid_monitor | three levels, two executions, three moves, one fault of any kind but slow; 888 280 states | TypeOK, TicksAddNoThird, PlacesOnlyMissing, Heals hold |
| grid_monitor_killer | four levels, three executions, no fault | violation: the killer cancels the only order of a level |
| grid_monitor_resume | three levels, a restart and a failing read | violation: the missed fills are never processed |
| engine_jobs | one instance of each of the eight jobs; 503 746 states | JobsTypeOK, NoPartialGrid, AckedIsStored, TransactionHasOwner, RangeMatchesRows, OrdersOfARange, LeverageAgrees, BrakesSeeTrue, BusMatchesSockets; ImplementsStore (refinement), ComesToRest, StopLossActs, StreamSettles hold |
| services | one instance of each of the twenty services; 1 008 316 states | ServicesTypeOK, NewsIsTold, CacheIsCurrent, OneActivePerSlot, QuietWhenStopped, SignInsAreSound, EveryRowOwned, TrafficIsClean, BooksAreTrue, OneDefault, MoneyIsBooked, PlanIsSound, OriginalIsKept hold |
| funding_paid | one position, one settlement that is paid | violation: the net funding stays at zero |
| create_bot_id | two creators, one other INSERT, no fault | violation: a createBot is told an id that is not its own, and the initial deposit of its bot is booked elsewhere |
| plan_preview | one form with hardly the capital its grids need | violation: shown and built are as many grids of another quantity and another spacing |

Bounds. Two closers with one call each meet in every order of their steps; a
third would only repeat what the second does to the first, since an activation
has no state but the row and the book. A start position of 2 with one grid order
of 1 has partial fills, a position that grows, and dust. Two pausers and two
instances let a pause, the next start and the next instance overlap; two levels
are the fewest of which one can be placed when the other is not. In GridMonitor
three levels have a gap, a neighbour on each side and both ends of the grid; two
executions let two adjacent levels fill within one tick, or one counter-order
fill before the next tick; three moves let the market cross a level, come back
and leave. One fault meets each of the others' steps; the violations that need
more levels or faults have runs of their own. MaxOpen = 3 lets the limit of open
orders bind when a level has a duplicate.

In engine_jobs two levels and two creators are enough for a grid to be half
written and for two ids to be confused (CreateBotId has no fault and one INSERT
of another table); one request beside the auto-shift
contends for the mutex, with one fault of any kind; three rungs leave a placed, a
counted and an uncounted level; three price turns make a gap, its return and a
failed tick between; the window has three of five levels, so that it slides both
ways; the sockets are those of one tab through a break, a refusal, a login and a
reconnect beside each. In services two of each kind of caller overlap, which is what the
hazards need, and PageSize, TTL, Window, Horizon and the like are the smallest
values at which a page is full, a value expires, a bucket overflows. The forms
of GridPlan are one per branch of the validation and rounding (listed in
MCGridPlan), the histories of Advice one per regime.

What the models also make visible, without a run of its own:
- A close retried after a fail-closed end places a second GTC beside the first,
  which was left alive on purpose; reduce_only is all that keeps it from
  flipping (CloseNeverFlips).
- A COMMIT that fails rejects without ROLLBACK (`database/db.ts` 1253, 1276): where
  SQLite leaves the transaction open, every later write of the process is part of it
  until the next replacement. TransactionHasOwner says what is in it: complete grids.
- pauseBot drops the instance before it writes the row (GE 1491, 1498): when that
  write fails the bot stays 'running' without an instance, and neither its stop-loss
  nor anything else of it is looked at until the process is started again
  (`unwritten`, the exception in StopLossActs).
- The close event of a socket the tab has replaced sets `ws` to null
  (`ws-client.ts` 113). If that socket was refused with 4401 nothing is scheduled, so
  that the tab may wait for a login although it has one (`barred`, the exception in
  StreamSettles). A channel whose authorisation is refused or throws is not asked for
  again on that socket (`denied`).
- createOrder in the rotation of a virtual grid may throw with the order placed: the
  level stays virtual and has a live order until the killer finds it.
- The legacy page archives fills with no bot after the bootstrap; no trigger gives
  them an owner (`ownerless`, the exception in EveryRowOwned), although `database/db.ts`
  869-872 says "there's no way to forget to set user_id".
- Rows of a user that has no cursor yet are passed over when they lie at or below
  the smallest cursor of the others (`skipped`, the exception in NewsIsTold), although
  `packages/notifier/src/index.ts` 271 reads from there so that nobody is "permanently
  skipped".
- Closing a paused bot that has no instance never cancels grid orders.
- A swallowed cancel, a failed resume or a tick in flight breaks StoppedIsFlat:
  the theorem and the run exclude exactly these faults.
- Of two concurrent closes, the stale one can overwrite 'stopped' with 'paused'.
- A process that dies during a close leaves the bot 'paused' with its exposure
  and nothing resumes the close.
- Two concurrent starts of an empty bot double the purchase (NeverDoubles is
  stated, checked and proved for one start at a time).
- Without any fault a tick that re-places a level and then answers a fill next
  to it puts the counter-order on the same level, since the guard of
  handleLevelFill ignores `0x00`; TicksAddNoThird says that ticks leave it at two,
  and Heals that the killer removes the second.
- A level that is left pending with the side of before the market crossed it is
  refused by post_only in every tick, and every attempt keeps the monitor from
  placing it (`Stuck`, the exception in Heals).
- A 7201 during checkPendingReplaceOrders is swallowed by placeGridOrder and
  clears the pending mark as if the order had been placed.
- The monitor and the backfill put different keys into processedFills (GE 4757
  says "dedup by fill_id", GE 4806 uses event_time), so the same fill can be
  answered by both. With two levels and five executions a level then holds three
  orders without any fault. "At most two orders at a level", which holds within the
  bounds of the run, is therefore not a property of this code, and was replaced
  by TicksAddNoThird when its proof failed there.
- With the fault slow PlacesOnlyMissing fails: recentlyPlaced is compared with
  the time of its use, not with that of the snapshot.
- The margin brake counts resting buys from the levels the instance loaded at its
  start. A buy at a level it does not count that fills after the check takes margin
  the check has not seen; HeadroomKept has the exception (`unseen`), which
  the proof showed to be needed for any number of market moves.
- The rate bucket bounds what is sent at once, not what is sent: callers that slept
  send without looking again and are noted at the time from before their sleep, so
  that a window may take more than the quota. BurstIsBounded bounds the two apart.
- The grid's rounding may put two levels on one price; the active window is then not
  contiguous, which is why WindowIsWhole asks for a cent between levels.
- The legacy GET /api/bots archives fills under ids of its own and so counts them
  twice (`dashboard/server.ts` 1326); the admin's backfill does not filter by
  instrument (`server/v2-router.ts` 1935); the fee summary is read in two steps
  between which the archive grows (1590).
- A database row is acknowledged to its caller while a transaction of another
  call is open and is lost with it (`database/db.ts` 1245).
- The backtester arms the opposite level again with its old side
  (`bot/backtester.ts` 285); checkPositionDrift compares readings of different
  moments (GE 3165).

## Fairness

CloseBot has weak fairness on the steps of an activation (every awaited call
returns or throws: the client has timeouts, the poll loops are bounded) and on
the end of a tick. Nothing is asked of the exchange, the user or the process:
orders need not fill, restarts need not happen. BotLifecycle has no fairness; its
properties are safety properties. GridMonitor has weak fairness on the engine (an
interval starts a tick every 5 s, every awaited call returns or times out, the
loops are bounded) and strong fairness on the passing of time, Age and
RecentExpires, which the model enables only between two ticks. The market, the
faults and the poller are under no fairness; that MaxMoves lets the market rest
is the premise of Heals.

RangeUpdate has weak fairness on the steps of a request and of a tick that are
under way (awaited calls return), and strong fairness on the beginning of a tick
and on the end of the 10 s of recentlyPlaced, which the model enables only with
no update and no tick under way. StopLoss has weak fairness on TickGoesOn: the
interval starts ticks, and a tick goes on whether its calls return or throw
(MaxMisses bounds how often they throw); the restart is under none. Stream has weak
fairness on Proceeds: the handshake, the authorisation, with whatever answer, the
close events and the reconnect timer end; breaks, refusals, expiring tokens, logins
and mounts are under none, and MaxTroubles, MaxLogins and MaxMounts bound them. JobsFairness is the conjunction, each part for
the behaviours that follow it. The services have no fairness.

## What is proved

Seven modules hold the theorems and one, Induction, lemmas they share, all checked by
TLAPS for every value of the constants that satisfies the named assumptions of the
modules. Of the safety properties that the runs check, each is stated by a theorem
but WindowSettles, which is a part of OrdersOfARange.

| Module | Theorem | Statement | Further assumption |
|---|---|---|---|
| CloseBot_proofs | TypeCorrect | Spec => []TypeOK | none |
| | NeverFlips | Spec => CloseNeverFlips | none: any faults, any number of closers |
| | StoppedFlat | Spec => []StoppedIsFlat | cancels take effect, resumes succeed, no tick in flight at a pause |
| | NeverStacks | Spec => []SoleActivationNeverStacks | cancels take effect |
| BotLifecycle_proofs | TypeCorrect | StartSpec => []StartTypeOK | none |
| | NoStrayInstance | StartSpec => []NoInstanceUnlessRunning | none |
| | GridBacked | StartSpec => []GridIsBacked | no early tick |
| | BuysAtMostOnce | StartSpec => []NeverDoubles | one start at a time |
| GridMonitor_proofs | TypeCorrect | Spec => []TypeOK | none |
| | NeverPlacesTwice | Spec => PlacesOnlyMissing | no tick outlives the 10 s of recentlyPlaced |
| | TicksPlaceNoThird | Spec => TicksAddNoThird | none |
| Jobs_proofs | ConnTypeCorrect | ConnSpec => []ConnTypeOK | none |
| | GridsWhole, TransactionsOwned | NoPartialGrid, TransactionHasOwner | none |
| | Implementation | ConnSpec => ImplementsStore: the refinement of BotStore | none |
| | AcksAreStored | ConnSpec => []AckedIsStored | none |
| | ShiftTypeCorrect | ShiftSpec => []ShiftTypeOK | none |
| | RangeAndRows | ShiftSpec => []RangeMatchesRows | none |
| | PausedStaysQuiet, BuysWhatIsNeeded | PausedIsQuiet, NoOverbuy: parts of OrdersOfARange | none |
| | OrdersStayFew | ShiftSpec => []FewOrders: a part of OrdersOfARange | none |
| | RotationStaysBelow | WindowSpec => [](WindowTypeOK /\ FewAboveWindow): a part of OrdersOfARange | none |
| | OrdersStayInRange | JobsSpec => [] of RangeMatchesRows and all parts of OrdersOfARange but WindowSettles | none |
| | TradesAsLevered | JobsSpec => [](LeverageTypeOK /\ LeverageAgrees) | none |
| | StopsAtTheGap, MarginIsKept, ChargesAreCounted | the parts of BrakesSeeTrue, each with its type invariant, of StopSpec, BrakesSpec and GuardSpec | none |
| | SafeguardsSeeTrue | JobsSpec => []BrakesSeeTrue | none |
| | BusStaysTrue | JobsSpec => [](StreamTypeOK /\ BusMatchesSockets) | none |
| | AnswersAreTrue | JobsSpec => []AckedIsStored | none |
| | JobsStayTyped | JobsSpec => []JobsTypeOK | none |
| Server_proofs | StopLeavesNoJob | ClockSpec => []QuietWhenStopped | none |
| | SlotHasOneActive | SlotSpec => []OneActivePerSlot | none |
| | StoreIsTyped | StoreSpec => []StoreTypeOK | none |
| | OriginalStays | StoreSpec => OriginalIsKept | none |
| | RowsHaveOwners | StoreSpec => []EveryRowOwned | none |
| | WhatIsSavedWasTold | NotifierSpec => [](NotifierTypeOK /\ SavedMeansTold /\ ToldOnce) | none |
| | NoNewsIsPassedOver | DispatchSpec => [](DispatchTypeOK /\ FillsAreSaid /\ AlertsFindOwner) | none |
| | RequestsAreTakenOnce | TransportSpec => [](TransportTypeOK /\ TakenOnce /\ FetchIsShared) | none |
| | CacheIsRecent | CacheSpec => [](CacheTypeOK /\ AnswersAreRecent) | none |
| | QuotaHolds | BucketSpec => [](BucketTypeOK /\ BurstIsBounded) | none |
| Plans_proofs | GridsAreSound | PlanSpec => [] of PlanTypeOK, LevelsAreSound, WindowIsWhole, QtyIsSound, DerivedClearsFees, AverageIsBetween | none |
| | SimulationBalances | BacktestSpec => [](BacktestTypeOK /\ BooksBalance) | none |
| | AdviceIsSound | AdviceSpec => [](AdviceTypeOK /\ GreenIsEarned /\ BestIsFirst /\ CandidatesAreSound) | none |
| Services_proofs | SubsHaveOneDefault | SubSpec => []OneDefault | none |
| | CacheStaysCurrent | CredSpec => [](CredTypeOK /\ CacheIsCurrent) | none |
| | SessionsAreSound | SessionSpec => [](SessionTypeOK /\ PageIsOwn /\ RefusedIsForgotten) | none |
| | OldLinksOpenNothing | AccountsSpec => [](AccountsTypeOK /\ NoOldLink) | none |
| | CompoundsAreBooked | ReinvestSpec => [](ReinvestTypeOK /\ InvestmentIsBooked /\ OnlyProfitIsBooked) | none |
| | FundingIsReceived | FundingSpec => [](FundingTypeOK /\ NoFundingInvented) | none |
| | PairsAreFinal | ProfitSpec => [](ProfitTypeOK /\ NoPairIsRevised) | none |
| | DaysAlwaysAddUp | ShotSpec => [](ShotTypeOK /\ DaysAddUp) | none |
| | LedgerIsTrue | LedgerSpec => [] of LedgerTypeOK, FillsCountOnce, FillsAreOwn, BackfillReachesBack, SummaryIsWhole | none |
| | SignInsStaySound, NewsIsAlwaysTold, TrafficStaysClean, BooksStayTrue, MoneyStaysBooked, PlansStaySound | ServicesSpec => [] of SignInsAreSound, NewsIsTold, TrafficIsClean, BooksAreTrue, MoneyIsBooked, PlanIsSound | none |
| | ServicesStayTrue | ServicesSpec => [] of CacheIsCurrent, OneActivePerSlot, QuietWhenStopped, EveryRowOwned, OneDefault; and OriginalIsKept | none |
| | ServicesStayTyped | ServicesSpec => []ServicesTypeOK | none |

"None" is none beside the assumptions on the constants, which the modules name
and TLC evaluates: bounds are numbers, sets of values are numbers in order, and a
value that stands for "nobody" is nobody's. The bounds of the runs are no
assumption: the theorems hold for any.

A theorem about a composite follows from the one about its module by a lemma
(`Follows...`) that says that a behaviour of the composite is one of the module:
it follows one and leaves the others as they are.

The lines of argument:
- NeverFlips: every close order alive is reduce-only (an invariant of its own,
  since an order may be placed by one call and fill during another), and a
  reduce-only execution is bounded by the position.
- StoppedFlat: StoppedIsFlat is not inductive. The strengthening says that once
  a row is not 'running' no grid order is on the book and the map has no
  instance, so that only reduce-only orders move the position; that an
  activation about to write 'stopped' has seen a flat position; and that the
  delete handler has too.
- NeverStacks: `OneAlone`. As long as there was one activation, the orders alive
  are at most one, that of `lastId` where it knows one, and none where the code is
  about to place or has cancelled all. A close order implies a call, which
  tells the first activation from the second.
- NoStrayInstance: an instance is in the map of a bot that is not running only
  while some start that has registered it is in flight.
- GridBacked: a level can be placed, seen missing by a tick or resumed only by a
  call that has seen or made a purchase.
- BuysAtMostOnce: on GridBacked's side, a start about to purchase has seen no
  position, and no other start can have bought one since.
- NeverPlacesTwice: the invariant (`Seen`) follows the snapshot through the tick. A
  level the snapshot shows without an order has none, unless it was placed
  within the last 10 s; this stays true of every level the loop has still to
  look at, because between the snapshot and the loop's last iteration only the
  loop itself places orders, each at a level it has just taken off the list. It
  rests on recentlyPlaced not shrinking meanwhile, which is the assumption.
- TicksPlaceNoThird: the invariant (`Calm`) holds until the first fault. The fills
  a tick still has to answer are of different levels, none of which it places
  again; no level is left pending; and when the fills are answered, a level whose
  row does not know its order has one order at most or is aimed at by none of the
  fills left, since only one of them has its counter-order there on the side that
  can rest (`AnswerAims`). A backfill may leave any number, so the property is
  about what ticks add.
- GridsWhole, TransactionsOwned, Implementation: at most one transaction, its owner
  known, and between its statements the rows of the connection are those of the
  old grid without what was deleted, or with what was inserted (`ConnInv`). One that a
  failed COMMIT has left has nothing half done in it, and the next replacement takes it
  over. On
  disk a grid changes at COMMIT only, which maps to the one step of BotStore;
  every other step maps to an added row or to a stutter.
- AcksAreStored: an acknowledged row is on disk or in the open transaction
  (`Located`); outside a transaction disk and connection are the same.
- RangeAndRows: the mutex has one holder, and only the holder is between the two
  writes. PausedStaysQuiet: once a pause met nobody, there is no order and no tick,
  and an update that begins later finds no instance and so nothing to place.
- OrdersStayFew: that a level has two orders and one per fault at most is not
  inductive. In the invariant (`CrowdInv`) a level whose row is not, or no longer, in
  the table has one less; an update that has the mutex and is still to place a level
  leaves room there for one more when its own cancels are done; and so does a tick at
  a level it has seen bare and may still place (`Bare`). A cancel that fails, a stale
  snapshot or a crash spends a fault. The counting is by six lemmas on what a step adds
  to the orders at one level or takes away.
- RotationStaysBelow: the invariant (`WindowInv`) has the type of the tick's locals in
  each of its states, and counts the rotation: the orders open and the cancels made
  are the orders at the beginning, the ones placed, and what `extra` excuses; an order
  is placed only where the cancels made room below the window, whether its call then
  returns, throws or ends the tick.
- TradesAsLevered: with nothing of the dashboard under way GRVT applies what the
  row says or a fresh start has yet to set it; a request that nothing overlaps has
  GRVT at the row's value until it is confirmed and at its own from then on.
- StopsAtTheGap: unless a failed tick came in between, the gap a tick has in hand is
  that between its price and the price of the last tick that ended well.
- MarginIsKept: position, counted buys, the margin of others and the order on its
  way fit the headroom of the last balance read, plus the fills the check could not
  see. A fill moves a unit from the buys to the position; the counting uses the
  cardinality theorems of the library.
- ChargesAreCounted: the streak is the number of hostile charges once a tick has
  looked, and one behind it between a charge and the look; the alert in hand is
  that of the open interval.
- BusStaysTrue: the server has nothing of a socket before it is open, and its close
  handler removes exactly what the socket has registered.
- StopLeavesNoJob: of a stopped engine every job in flight is awaited by a stop().
- SlotHasOneActive: a request past its check finds no active row and is the only
  one there. OriginalStays and RowsHaveOwners: a start that is at a step has added the
  columns of the steps before, and from the second statement of the bootstrap
  on every bot has a user; a fill that came with a bot takes that of its row.
- CacheStaysCurrent: what a lookup has read or a cache holds is of the newest
  save, of a later login, or raced. SubsHaveOneDefault: a user whose
  requests have not overlapped has one default, and while a request of his is
  between its statements that is the one it will make.
- SessionsAreSound: a tab awaits profiles of its own token only, and what it
  has given up is stored no more. OldLinksOpenNothing: links are issued in the
  order of their ids, and those before the last reset that ended are spent.
- WhatIsSavedWasTold: a round trip has been told at most once per fault, and once if
  the state in memory, or that to be saved, counts it and no message about it is
  unsent (`Counts`); what is saved was told. NoNewsIsPassedOver: whatever a poll asks
  from has been said up to there, so an overlapping poll that ends late moves the mark
  over nothing new.
- RequestsAreTakenOnce: a mutation that is idle, logging in, in flight or waiting was
  not carried out; one caller fetches the ticker, it is the pending one, and who joined
  has one to wait for. CacheIsRecent: a fetch under way is younger than MaxFetch.
- QuotaHolds: since any moment within the window at most as many went out at once as
  `requests` notes since then, although sleepers are noted earlier than they are sent;
  and those that have woken in a tick and those due in it are together no more than
  the callers.
- CompoundsAreBooked: what a compound read is still in the row until it writes, unless
  a handed compound came in between; what it is about to book was earned.
  FundingIsReceived: the net and what is still between the row, a reading on its way
  and GRVT's total never exceed what was received.
- PairsAreFinal: the walk over a longer archive goes through the states of the shorter
  one (`WalkGrows`, by induction over the fills), so it finds the same pairs and more;
  what was archived since the last walk lies behind all it had (`WalkedBefore`).
- DaysAlwaysAddUp: rows do not fall from day to day, unless a late job wrote an older
  day; the sum of the points of a window is then the last row less the one before
  it, by induction over the rows of the history.
- LedgerIsTrue: every row and trip is of a bot and both fills of a trip are archived
  for it (`BotsOwn`); a backfill has archived, or holds in its batch, what it knew of
  and has gone past (`FillingOK`). The pairing is a walk over all ids (`PairsAreWalked`).
- GridsAreSound: rounding to cents is monotone and is off by half a cent at most; levels
  are ranked by their distance, the ranks are a bijection, and of two active levels at
  least a cent apart none between them is farther off (`BetweenIsCloser`); Wilder's
  average stays between the least and the greatest range, by induction over the candles.
- SimulationBalances: buys, sells, funding and marks each keep the balance between
  equity, gross profit, fees, slippage and funding (`Balanced`).
- AdviceIsSound: Better is a strict weak order, so its ranking is a permutation and
  nobody before a candidate is worse; the list of candidates grows by one that passes
  the conditions and is not in it; the windows cover the history.
- OrdersStayInRange, JobsStayTyped, ServicesStayTrue, ServicesStayTyped and the other
  theorems about a composite combine those of its modules.

Induction over data. The induction theorems of the library take an operator as
parameter, which no installed prover instantiates. `Induction` gets the same from the
well-founded order of WellFoundedInduction for sets and functions: every set of numbers
has a least element (NatMin), a set with 0 and all successors is Nat (SetInduction),
and a function defined by recursion exists on Nat and on 0..n (Recursion, Recurs,
RecursUpTo). Whatever the models compute step by step is therefore a recursive
function, and the proofs about Profit, Ledger, Snapshots, GridPlan, Backtest,
Advice and VirtualWindow go by induction on where the walk has got to.

Five invariants turned out to be false when their proofs were tried, beyond the
bounds of the runs; TLC shows each at larger constants:
- "At most two orders at a level" of GridMonitor gave way to TicksAddNoThird.
- HeadroomKept got its exception for buys that fill unseen.
- BurstIsBounded said that a window takes the quota and its margin at most. With two
  callers, MaxRequests 4 and Window 7 it takes more, since those that slept are noted at
  the time from before their sleep and leave the count early. It now bounds
  what goes out at once by the quota and what wakes in a tick by the callers.
- FewAboveWindow said that the orders are at most two above the window. A tick that
  begins with more, after crossings and placements whose answers were lost, has more.
  It now compares a tick with what it began with (`began`, `extra`).
- WindowIsWhole said that the active levels lie next to each other. Where two share a
  price after rounding the one left out may lie between; it now asks for a range of a
  cent per level, and MCGridPlan has a form without that.

## What is only model-checked

- Liveness (CallReturns, Heals, ComesToRest, StopLossActs, StreamSettles): the
  prover has no rules for fairness and ENABLED.
- WindowSettles, a part of OrdersOfARange. It says that after N quiet ticks the window
  is where it should be: convergence within a bound, for which a measure
  of how far rows, orders and market are apart would have to fall in each tick,
  through coverage, rotation, killer and answers. Such a measure was not found. TLC
  checks it in the run for five levels and three in the window; beyond the run it was
  explored for one to four levels with every window and one or two operations
  per tick, for several grids of five and six, and by simulation up to twelve.

## What is not modelled

- DCA: nothing in the program creates a bot of type 'dca'.
- Two ticks of one bot at once (GE 802), two replaceAllGridLevels of one bot at once,
  fills during a range update, SHORT bots in BotLifecycle and GridMonitor,
  DRY_RUN, the pruning of processedFills.
- Code that nothing calls: handleOrderFilled and its helpers (GE 4815-5064),
  checkMaxLoss (GE 5325), getRealGridProfitForBot (GE 5337), `api/grvt-auth.ts`,
  the second GET /alerts (`server/v2-router.ts` 3121), computeRealizedFifo,
  getFillFeeSummary, listFillArchive, getLatestFillEventTime and getStats of
  the database, and the branch for CLOSE_VERIFY_ENABLED = false.
- EIP-712 signatures, hashes and tokens as cryptography, the parsing of answers,
  SQL queries that only read, the WAL checkpoint, the mail transport, metrics and
  logs.
- Of the stream, a frame that subscribes to several channels is one frame per
  channel; of the ledger one page, one backfill and one summary are on their way
  at a time, and no two fills have the same nanosecond; of the dispatcher the
  poller of prices, and of the client the fallback to a singleton (GE 702-722).
- Presentation: pages, forms, translations, the wording of messages; scripts and
  deployment.
