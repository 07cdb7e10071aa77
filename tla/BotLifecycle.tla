---------------------------- MODULE BotLifecycle ----------------------------
(***************************************************************************)
(* Starting, pausing, monitoring and restarting one LONG bot:              *)
(* GridEngine.startBot, resumeBotInstance, pauseBot, loadActiveBots and    *)
(* monitorAllBots with GridBotInstance.placeInitialOrders (packages/bot/   *)
(* src/bot/grid-engine.ts).                                                *)
(*                                                                         *)
(* Every call runs to its next await; nothing but GridEngine.bots, the two *)
(* bootstrap flags of an instance and the row's status tells one call of   *)
(* another.  Instances are numbered in the order in which they are made.   *)
(* Grid orders are kept per level, the position in initial purchases.      *)
(***************************************************************************)
EXTENDS Integers, FiniteSets

CONSTANTS
  Starters,    \* HTTP requests that may run startBot at the same time
  Pausers,     \* who may run pauseBot: requests, the monitor's safeguards
  Levels,      \* levels that carry an order when the grid is complete
  Overlap,     \* what may happen at the same time, see OverlapKinds
  StartFaults,      \* which calls may fail, see StartFaultKinds
  MaxInst,     \* bound: instances made
  MaxPauses,   \* bound: pauses per pauser
  MaxCopies    \* bound: orders counted at one level, purchases counted

\* "pause":     a pause while a start is in flight, or the reverse;
\* "lateTick":  a pause while a tick is in flight;
\* "earlyTick": a tick begins on an instance that is registered but not yet
\*              at placeInitialOrders, where bootstrapInProgress is set.
OverlapKinds == {"pause", "lateTick", "earlyTick"}

\* "read":     getOpenOrders or getPosition fail twice in startBot;
\* "prepare":  the balance or leverage check, or the resume, throws;
\* "purchase": the initial purchase is short, not verifiable or throws;
\* "create":   createOrder throws, the order placed or not;
\* "cancel":   cancelAllOrders fails, which the client swallows;
\* "restart":  the process dies and starts again.
StartFaultKinds == {"read", "prepare", "purchase", "create", "cancel", "restart"}

Insts == 1..MaxInst
None == 0

ASSUME LifecycleAssumption ==
  /\ Overlap \subseteq OverlapKinds
  /\ StartFaults \subseteq StartFaultKinds
  /\ MaxInst \in Nat
  /\ MaxPauses \in Nat
  /\ MaxCopies \in Nat \ {0}

VARIABLES
  orders,      \* live grid orders at each level
  bought,      \* initial purchases the position holds
  rowStatus,      \* grid_bots.status
  reg,         \* the instance GridEngine.bots holds, or None
  made,        \* instances made
  abort,       \* instances whose bootstrapAbort is set
  boot,        \* instances whose bootstrapInProgress is set
  spc,          \* startBot, per starter
  mine,        \* its instance
  seen,        \* hasOurState
  todo,        \* levels placeInitialOrders has still to place
  ppc,         \* pauseBot, per pauser
  pauses,      \* pauses done so far
  tickAt,        \* monitor tick of each instance: idle, begun, placing
  missing,     \* uncovered levels of the tick's snapshot
  recent,      \* recentlyPlaced: levels the instance placed in the last 10 s
  off          \* history: a pause has returned and no start was called since

exposure == <<orders, bought>>
engine == <<rowStatus, reg, made, abort, boot>>
starters == <<spc, mine, seen, todo>>
pausers == <<ppc, pauses>>
ticks == <<tickAt, missing, recent>>
startVars == <<orders, bought, rowStatus, reg, made, abort, boot, spc, mine, seen, todo,
          ppc, pauses, tickAt, missing, recent, off>>

StartInit ==
  /\ orders = [l \in Levels |-> 0]
  /\ bought = 0
  /\ rowStatus = "paused"
  /\ reg = None
  /\ made = 0
  /\ abort = {}
  /\ boot = {}
  /\ spc = [s \in Starters |-> "idle"]
  /\ mine = [s \in Starters |-> None]
  /\ seen = [s \in Starters |-> FALSE]
  /\ todo = [s \in Starters |-> {}]
  /\ ppc = [p \in Pausers |-> "idle"]
  /\ pauses = [p \in Pausers |-> 0]
  /\ tickAt = [i \in Insts |-> "idle"]
  /\ missing = [i \in Insts |-> {}]
  /\ recent = [i \in Insts |-> {}]
  /\ off = FALSE

----------------------------------------------------------------------------
Starting == \E s \in Starters : spc[s] # "idle"
Pausing == \E p \in Pausers : ppc[p] # "idle"
Ticking == \E i \in Insts : tickAt[i] # "idle"
LiveGrid == \E l \in Levels : orders[l] > 0

Capped(n) == IF n < MaxCopies THEN n + 1 ELSE n

Add(l) == orders' = [orders EXCEPT ![l] = Capped(@)]

StartGoto(s, label) == spc' = [spc EXCEPT ![s] = label]

Return(s) ==
  /\ StartGoto(s, "idle")
  /\ mine' = [mine EXCEPT ![s] = None]
  /\ seen' = [seen EXCEPT ![s] = FALSE]
  /\ todo' = [todo EXCEPT ![s] = {}]

\* Mutant: the failed start keeps its instance in GridEngine.bots.
StartFailsRegistered(s) ==
  /\ Return(s)
  /\ UNCHANGED <<rowStatus, reg, made, abort, boot>>

\* The catch of startBot: the bot's instance is dropped, whoever made it; the
\* orders and the position stay, the row keeps its status.
StartFails(s) ==
  /\ Return(s)
  /\ reg' = None
  /\ UNCHANGED <<rowStatus, made, abort, boot>>

\* A bot that is not running is started.
StartBegin(s) ==
  /\ spc[s] = "idle"
  /\ rowStatus # "running"
  /\ made < MaxInst
  /\ "pause" \in Overlap \/ ~Pausing
  /\ StartGoto(s, "orders")
  /\ off' = FALSE
  /\ UNCHANGED <<exposure, engine, mine, seen, todo, pausers, ticks>>

\* Detection, first read: orders at our levels.
ReadOrders(s) ==
  /\ spc[s] = "orders"
  /\ \/ "read" \in StartFaults /\ StartFails(s)
     \/ /\ seen' = [seen EXCEPT ![s] = LiveGrid]
        /\ StartGoto(s, "position")
        /\ UNCHANGED <<engine, mine, todo>>
  /\ UNCHANGED <<exposure, pausers, ticks, off>>

\* Mutant: orders alone decide.
OwnStateOrders(s) == seen[s]

\* hasOurState: live orders or a position.
OwnState(s) == seen[s] \/ bought > 0

\* Second read: the position.
ReadPosition(s) ==
  /\ spc[s] = "position"
  /\ \/ "read" \in StartFaults /\ StartFails(s)
     \/ /\ seen' = [seen EXCEPT ![s] = OwnState(s)]
        /\ StartGoto(s, "register")
        /\ UNCHANGED <<engine, mine, todo>>
  /\ UNCHANGED <<exposure, pausers, ticks, off>>

\* The instance is made and registered: from here on the monitor ticks it.
Register(s) ==
  /\ spc[s] = "register"
  /\ made < MaxInst
  /\ made' = made + 1
  /\ reg' = made + 1
  /\ mine' = [mine EXCEPT ![s] = made + 1]
  /\ StartGoto(s, IF seen[s] THEN "resume" ELSE "prepare")
  /\ UNCHANGED <<exposure, rowStatus, abort, boot, seen, todo, pausers, ticks, off>>

\* RESUME: leverage, order map and backfill, no bootstrap.
Resume(s) ==
  /\ spc[s] = "resume"
  /\ \/ "prepare" \in StartFaults /\ StartFails(s)
     \/ StartGoto(s, "write") /\ UNCHANGED <<engine, mine, seen, todo>>
  /\ UNCHANGED <<exposure, pausers, ticks, off>>

\* FRESH START: balance and leverage, then placeInitialOrders begins and
\* raises bootstrapInProgress.
Prepare(s) ==
  /\ spc[s] = "prepare"
  /\ \/ "prepare" \in StartFaults /\ StartFails(s)
     \/ /\ boot' = boot \union {mine[s]}
        /\ StartGoto(s, "purchase")
        /\ UNCHANGED <<rowStatus, reg, made, abort, mine, seen, todo>>
  /\ UNCHANGED <<exposure, pausers, ticks, off>>

\* Mutant: a short purchase is logged and the bootstrap goes on.
PurchaseFailsOpen(s) ==
  /\ StartGoto(s, "place")
  /\ todo' = [todo EXCEPT ![s] = Levels]
  /\ UNCHANGED <<engine, mine, seen>>

\* The purchase cannot be confirmed: the start is abandoned before any level.
PurchaseFails(s) == StartFails(s)

\* executeInitialPurchase, which ignores bootstrapAbort.  A purchase that is
\* short is flattened, unless the flattening fails or the position was never
\* read, when confirmedLong is 0 and nothing is flattened.
Purchase(s) ==
  /\ spc[s] = "purchase"
  /\ \/ /\ bought' = Capped(bought)
        /\ StartGoto(s, "place")
        /\ todo' = [todo EXCEPT ![s] = Levels]
        /\ UNCHANGED <<engine, mine, seen>>
     \/ /\ "purchase" \in StartFaults
        /\ PurchaseFails(s)
        /\ bought' \in {bought, Capped(bought)}
  /\ UNCHANGED <<orders, pausers, ticks, off>>

\* placeGridOrder notes the level before the exchange answers.
NotePlaced(i, l) == recent' = [recent EXCEPT ![i] = @ \union {l}]

\* One turn of the loop of placeInitialOrders; it places whatever the level
\* already carries.
PlaceLevel(s) ==
  /\ spc[s] = "place"
  /\ \/ /\ mine[s] \in abort \/ todo[s] = {}
        /\ StartGoto(s, "write")
        /\ UNCHANGED <<orders, engine, mine, seen, todo, recent>>
     \/ \E l \in todo[s] :
          /\ mine[s] \notin abort
          /\ NotePlaced(mine[s], l)
          /\ \/ /\ Add(l)
                /\ todo' = [todo EXCEPT ![s] = @ \ {l}]
                /\ UNCHANGED <<engine, spc, mine, seen>>
             \/ /\ "create" \in StartFaults
                /\ StartFails(s)
                /\ Add(l) \/ UNCHANGED orders
  /\ UNCHANGED <<bought, pausers, tickAt, missing, off>>

\* The last write of startBot, without another look at GridEngine.bots.
WriteRunning(s) ==
  /\ spc[s] = "write"
  /\ rowStatus' = "running"
  /\ Return(s)
  /\ UNCHANGED <<exposure, reg, made, abort, boot, pausers, ticks, off>>

\* 15 s after placeInitialOrders has ended.
BootstrapOver(i) ==
  /\ i \in boot
  /\ \A s \in Starters : mine[s] = i => spc[s] \notin {"purchase", "place"}
  /\ boot' = boot \ {i}
  /\ UNCHANGED <<exposure, rowStatus, reg, made, abort, starters, pausers, ticks, off>>

Starter(s) ==
  \/ ReadOrders(s) \/ ReadPosition(s) \/ Register(s) \/ Resume(s)
  \/ Prepare(s) \/ Purchase(s) \/ PlaceLevel(s) \/ WriteRunning(s)

----------------------------------------------------------------------------
\* pauseBot: without an instance the row is written and nothing cancelled.
PauseBegin(p) ==
  /\ ppc[p] = "idle"
  /\ pauses[p] < MaxPauses
  /\ "pause" \in Overlap \/ ~Starting
  /\ "lateTick" \in Overlap \/ ~Ticking
  /\ pauses' = [pauses EXCEPT ![p] = @ + 1]
  /\ \/ /\ reg = None
        /\ rowStatus' = "paused"
        /\ off' = TRUE
        /\ UNCHANGED <<abort, ppc>>
     \/ /\ reg # None
        /\ abort' = abort \union {reg}
        /\ ppc' = [ppc EXCEPT ![p] = "cancel"]
        /\ UNCHANGED <<rowStatus, off>>
  /\ UNCHANGED <<exposure, reg, made, boot, starters, ticks>>

\* The 500 ms given to a bootstrap order nothing: the exchange cancels now.
PauseCancel(p) ==
  /\ ppc[p] = "cancel"
  /\ ppc' = [ppc EXCEPT ![p] = "drop"]
  /\ \/ orders' = [l \in Levels |-> 0]
     \/ "cancel" \in StartFaults /\ UNCHANGED orders
  /\ UNCHANGED <<bought, engine, starters, pauses, ticks, off>>

\* The bot's instance is dropped, be it another one by now.
PauseDrop(p) ==
  /\ ppc[p] = "drop"
  /\ ppc' = [ppc EXCEPT ![p] = "idle"]
  /\ reg' = None
  /\ rowStatus' = "paused"
  /\ off' = TRUE
  /\ UNCHANGED <<exposure, made, abort, boot, starters, pauses, ticks>>

----------------------------------------------------------------------------
\* A tick begins on the registered instance unless it is bootstrapping.
TickBegin(i) ==
  /\ reg = i
  /\ i \notin boot
  /\ tickAt[i] = "idle"
  /\ "earlyTick" \in Overlap
       \/ \A s \in Starters : mine[s] = i => spc[s] # "prepare"
  /\ "lateTick" \in Overlap \/ ~Pausing
  /\ tickAt' = [tickAt EXCEPT ![i] = "begun"]
  /\ UNCHANGED <<exposure, engine, starters, pausers, missing, recent, off>>

\* The snapshot of the open orders; the levels come from the database, so
\* a tick needs no bootstrap to know them.
TickRead(i) ==
  /\ tickAt[i] = "begun"
  /\ missing' = [missing EXCEPT ![i] = {l \in Levels : orders[l] = 0}]
  /\ tickAt' = [tickAt EXCEPT ![i] = "placing"]
  /\ UNCHANGED <<exposure, engine, starters, pausers, recent, off>>

\* A missing level is placed again, or left out: the gap, a level placed
\* less than 10 s ago, a failed call.  That guard is also why a second tick of
\* the same instance at the same time adds nothing.
TickPlace(i) ==
  /\ tickAt[i] = "placing"
  /\ \E l \in missing[i] :
       /\ \/ l \notin recent[i] /\ Add(l) /\ NotePlaced(i, l)
          \/ UNCHANGED <<orders, recent>>
       /\ missing' = [missing EXCEPT ![i] = @ \ {l}]
  /\ UNCHANGED <<bought, engine, starters, pausers, tickAt, off>>

TickEnd(i) ==
  /\ tickAt[i] = "placing"
  /\ missing[i] = {}
  /\ tickAt' = [tickAt EXCEPT ![i] = "idle"]
  /\ UNCHANGED <<exposure, engine, starters, pausers, missing, recent, off>>

\* Ten seconds pass.
RecentExpires(i) ==
  /\ recent[i] # {}
  /\ recent' = [recent EXCEPT ![i] = {}]
  /\ UNCHANGED <<exposure, engine, starters, pausers, tickAt, missing, off>>

\* A grid order executes; grid fills leave the position long.
GridOrderFills(l) ==
  /\ orders[l] > 0
  /\ orders' = [orders EXCEPT ![l] = @ - 1]
  /\ UNCHANGED <<bought, engine, starters, pausers, ticks, off>>

\* The process dies; start() loads the running bots before the server listens.
EngineRestart ==
  /\ "restart" \in StartFaults
  /\ spc' = [s \in Starters |-> "idle"]
  /\ mine' = [s \in Starters |-> None]
  /\ seen' = [s \in Starters |-> FALSE]
  /\ todo' = [s \in Starters |-> {}]
  /\ ppc' = [p \in Pausers |-> "idle"]
  /\ tickAt' = [i \in Insts |-> "idle"]
  /\ missing' = [i \in Insts |-> {}]
  /\ recent' = [i \in Insts |-> {}]
  /\ abort' = {}
  /\ boot' = {}
  /\ \/ /\ rowStatus # "running"
        /\ reg' = None
        /\ UNCHANGED <<rowStatus, made>>
     \/ /\ rowStatus = "running"
        /\ made < MaxInst
        /\ made' = made + 1
        /\ reg' = made + 1
        /\ UNCHANGED rowStatus
     \/ /\ rowStatus = "running"
        /\ "prepare" \in StartFaults
        /\ reg' = None
        /\ rowStatus' = "paused"
        /\ UNCHANGED made
  /\ UNCHANGED <<exposure, pauses, off>>

StartNext ==
  \/ \E s \in Starters : StartBegin(s) \/ Starter(s)
  \/ \E p \in Pausers : PauseBegin(p) \/ PauseCancel(p) \/ PauseDrop(p)
  \/ \E i \in Insts :
        BootstrapOver(i) \/ TickBegin(i) \/ TickRead(i) \/ TickPlace(i) \/ TickEnd(i)
        \/ RecentExpires(i)
  \/ \E l \in Levels : GridOrderFills(l)
  \/ EngineRestart

StartSpec == StartInit /\ [][StartNext]_startVars

----------------------------------------------------------------------------
\* Every variable has its type.
StartTypeOK ==
  /\ orders \in [Levels -> 0..MaxCopies]
  /\ bought \in 0..MaxCopies
  /\ rowStatus \in {"paused", "running"}
  /\ reg \in Insts \union {None}
  /\ made \in 0..MaxInst
  /\ abort \subseteq Insts
  /\ boot \subseteq Insts
  /\ spc \in [Starters -> {"idle", "orders", "position", "register", "resume",
                          "prepare", "purchase", "place", "write"}]
  /\ mine \in [Starters -> Insts \union {None}]
  /\ seen \in [Starters -> BOOLEAN]
  /\ todo \in [Starters -> SUBSET Levels]
  /\ ppc \in [Pausers -> {"idle", "cancel", "drop"}]
  /\ pauses \in [Pausers -> 0..MaxPauses]
  /\ tickAt \in [Insts -> {"idle", "begun", "placing"}]
  /\ missing \in [Insts -> SUBSET Levels]
  /\ recent \in [Insts -> SUBSET Levels]
  /\ off \in BOOLEAN

\* One start request at a time never buys the inventory twice, whatever starts
\* failed half way, pauses and restarts came before ("Refusing to start to
\* avoid doubling an existing position").
NeverDoubles == bought <= 1

\* Once no start is in flight, the monitor has an instance only of a bot whose
\* row says 'running': a start that failed or a pause leaves none behind for
\* it to trade.
NoInstanceUnlessRunning == ~Starting /\ reg # None => rowStatus = "running"

\* The grid has no order before the inventory that backs its sells is bought,
\* whichever way it was placed: bootstrap, resume or monitor (the naked short
\* executeInitialPurchase aborts for).
GridIsBacked == LiveGrid => bought > 0

\* After a pause that nothing called a start on, the bot is off: it does not
\* come to run and no order is on the book ("cancels all open orders on GRVT
\* before flipping the DB status").
PauseStopsTrading ==
  off /\ ~Starting /\ ~Ticking /\ ~Pausing /\ StartFaults = {}
    => rowStatus # "running" /\ ~LiveGrid

\* The monitor and the bootstrap never both place a level ("skip monitoring
\* while placeInitialOrders() is in flight").
NoDuplicateOrders == \A l \in Levels : orders[l] <= 1
=============================================================================
