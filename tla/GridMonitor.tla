---------------------------- MODULE GridMonitor ----------------------------
(***************************************************************************)
(* One running bot, level by level: GridBotInstance.monitor, its re-       *)
(* placing of uncovered levels, its detection of fills, handleLevelFill,   *)
(* placeGridOrder, the duplicate killer and checkPendingReplaceOrders,     *)
(* with the archive poller and backfillFills / processBackfilledFill that  *)
(* share its work (packages/bot/src/bot/grid-engine.ts).                   *)
(*                                                                         *)
(* A bot without virtual levels, its levels a dollar or more apart and     *)
(* each worth min_notional, one tick at a time.  A brake (MARGIN,          *)
(* SAFEGUARD) ends in a pause or a close: see BotLifecycle and CloseBot.   *)
(* One action is the code up to the next call of the exchange, or one      *)
(* iteration of a loop; the calls of the database belong to it.  What      *)
(* happens beside the tick is interleaved where the tick can tell: the     *)
(* market where the code awaits the exchange, time and the poller between  *)
(* two ticks.                                                              *)
(***************************************************************************)
EXTENDS Integers, FiniteSets, FiniteSetsExt, Functions, Sequences

CONSTANTS
  N,           \* levels 1..N, the lowest first
  MaxOpen,     \* open orders from which nothing is re-placed (94)
  Faults,      \* what may go wrong, see FaultKinds
  MaxFills,    \* bound: executions of orders of the bot
  MaxMoves,    \* bound: how often the market crosses a level
  MaxFaults    \* bound: faults that happen

\* "lag":     open_orders does not show yet an order placed within 10 s;
\* "band":    create_order is refused with 7201 (price band);
\* "full":    create_order is refused with 2090 (too many orders);
\* "create":  create_order throws, the order placed or not;
\* "cancel":  cancel_order fails, which the client swallows;
\* "read":    a read of the exchange throws;
\* "slow":    10 s pass between the snapshot of a tick and its use;
\* "restart": the process dies and starts again.
FaultKinds == {"lag", "band", "full", "create", "cancel", "read", "slow",
               "restart"}

Levels == 1..N
Sides == {"buy", "sell"}

\* lastMonitorSuccess has no entry.
NoSuccess == MaxFills + 1

ASSUME GridAssumption ==
  /\ N \in Nat \ {0}
  /\ MaxOpen \in Nat
  /\ Faults \subseteq FaultKinds
  /\ MaxFills \in Nat
  /\ MaxMoves \in Nat
  /\ MaxFaults \in Nat

VARIABLES
  \* the exchange
  price,    \* how many levels lie below the market
  book,     \* live orders at each level: buys below the market, sells above
  fills,    \* executions, oldest first: level and side
  old,      \* how many of them are older than 90 s
  moves,    \* how often the market has crossed a level
  \* the database
  row,      \* grid_levels: side, is_filled, pending_replace, and id: order_id is
            \* that of an order, neither empty nor 0x00
  archive,  \* how many fills fills_archive holds
  \* the instance and the engine
  keys,     \* processedFills
  recent,   \* levels with recentlyPlaced within the last 10 s
  success,  \* fills there were at lastMonitorSuccess, or NoSuccess
  stale,    \* lastMonitorSuccess is more than 90 s ago
  \* the tick or the resume in progress
  pc,
  resuming, \* resumeBotInstance, not a tick
  snap,     \* openOrders: how many at each level ...
  snapAt,   \* ... and where the market was then
  ticker,   \* currentPrice: levels below it, which neighbour is the nearer
  mem,      \* the rows the code has read
  match,    \* the key of the recent fill at each level, or NoKey
  todo,     \* levels still to look at, or newFills of the backfill
  queue,    \* filledLevels of the tick
  job,      \* the order placeGridOrder is placing
  faults    \* how many faults have happened

market == <<price, book, fills, old, moves>>
database == <<row, archive>>
memory == <<keys, recent, success, stale>>
locals == <<resuming, snap, snapAt, ticker, mem, match, todo, queue, job>>
vars == <<price, book, fills, old, moves, row, archive, keys, recent, success, stale,
          pc, resuming, snap, snapAt, ticker, mem, match, todo, queue, job,
          faults>>

----------------------------------------------------------------------------
NoKey == <<"none", 0>>
NoJob == [kind |-> "none", lvl |-> 0, side |-> "buy", from |-> 0]
NoOrders == [l \in Levels |-> 0]
NoMatch == [l \in Levels |-> NoKey]
NoTicker == [below |-> 0, low |-> TRUE]
NoRows == [l \in Levels |-> [side |-> "buy", filled |-> FALSE, id |-> FALSE,
                             pend |-> FALSE]]

Occurs(f) == f \in Faults /\ faults < MaxFaults /\ faults' = faults + 1

SideAt(l, p) == IF l <= p THEN "buy" ELSE "sell"

Total(f) == FoldFunction(+, 0, f)

\* Twice the rank of l by distance to the ticker: the market lies between two
\* levels, low says that the lower one is the nearer.
Rank(l, t) ==
  IF l <= t.below
  THEN 2 * (t.below - l) + (IF t.low THEN 0 ELSE 1)
  ELSE 2 * (l - t.below - 1) + (IF t.low THEN 1 ELSE 0)

Nearest(S, t) == CHOOSE l \in S : \A k \in S : Rank(l, t) <= Rank(k, t)

\* A bot bootstrapped some 10 s ago: one level, the nearest to the market, is the
\* gap and has no order.
Init ==
  /\ price \in 0..N
  /\ \E low \in BOOLEAN :
       LET gap == Nearest(Levels, [below |-> price, low |-> low])
       IN /\ book = [l \in Levels |-> IF l = gap THEN 0 ELSE 1]
          /\ row = [l \in Levels |-> [side |-> SideAt(l, price),
                                      filled |-> l = gap,
                                      id |-> FALSE, pend |-> FALSE]]
  /\ fills = <<>>
  /\ old = 0
  /\ moves = 0
  /\ archive = 0
  /\ keys = {}
  /\ recent = {}
  /\ success = NoSuccess
  /\ stale = FALSE
  /\ pc = "idle"
  /\ resuming = FALSE
  /\ snap = NoOrders
  /\ snapAt = 0
  /\ ticker = NoTicker
  /\ mem = NoRows
  /\ match = NoMatch
  /\ todo = {}
  /\ queue = <<>>
  /\ job = NoJob
  /\ faults = 0

----------------------------------------------------------------------------
(* The exchange.                                                           *)

\* Where the engine awaits the exchange.
Awaiting == {"idle", "down", "orders", "cover", "fills", "placing", "cancel",
             "fetch", "survey"}

\* The market crosses level l to p: every order there executes in full.
Cross(l, p) ==
  /\ pc \in Awaiting
  /\ moves < MaxMoves
  /\ moves' = moves + 1
  /\ Len(fills) + book[l] <= MaxFills
  /\ price' = p
  /\ book' = [book EXCEPT ![l] = 0]
  /\ fills' = fills \o [i \in 1..book[l] |-> [lvl |-> l, side |-> SideAt(l, price)]]
  /\ UNCHANGED <<old, database, memory, pc, locals, faults>>

MoveUp == price < N /\ Cross(price + 1, price + 1)
MoveDown == price > 0 /\ Cross(price, price - 1)

\* Time passes between two ticks: fills and lastMonitorSuccess turn older than
\* 90 s, in the order in which they happened.
Age ==
  /\ pc \in {"idle", "down"}
  /\ \E k \in old..Len(fills), s \in BOOLEAN :
       /\ <<k, s>> # <<old, stale>>
       /\ stale => s
       /\ s => k >= success
       /\ k > success => s
       /\ old' = k
       /\ stale' = s
  /\ UNCHANGED <<price, book, fills, moves, database, keys, recent, success, pc, locals,
                 faults>>

\* 10 s have passed since level l was placed.
RecentExpires ==
  /\ pc = "idle" \/ ("slow" \in Faults /\ pc = "level")
  /\ \E l \in recent : recent' = recent \ {l}
  /\ UNCHANGED <<market, database, keys, success, stale, pc, locals, faults>>

\* getOpenOrders: what the exchange shows of the book.
Observed(orders) ==
  \E hidden \in SUBSET {l \in recent : book[l] > 0} :
    /\ orders = [l \in Levels |-> IF l \in hidden THEN book[l] - 1 ELSE book[l]]
    /\ IF hidden = {} THEN UNCHANGED faults ELSE Occurs("lag")

----------------------------------------------------------------------------
(* The archive and the end of a tick.                                      *)

\* pollFillArchive; its interval only runs once the bots are loaded.
Poll ==
  /\ pc = "idle"
  /\ archive < Len(fills)
  /\ archive' = Len(fills)
  /\ UNCHANGED <<market, row, memory, pc, locals, faults>>

Reset ==
  /\ resuming' = FALSE
  /\ snap' = NoOrders
  /\ snapAt' = 0
  /\ ticker' = NoTicker
  /\ mem' = NoRows
  /\ match' = NoMatch
  /\ todo' = {}
  /\ queue' = <<>>
  /\ job' = NoJob

\* lastMonitorSuccess.set(botId, Date.now())
Succeed ==
  /\ pc' = "idle"
  /\ success' = Len(fills)
  /\ stale' = FALSE
  /\ Reset

\* A read throws out of monitor.
TickFails ==
  /\ Occurs("read")
  /\ pc' = "idle"
  /\ Reset
  /\ UNCHANGED <<market, database, memory>>

----------------------------------------------------------------------------
(* placeGridOrder.                                                         *)

\* Up to create_order.
Submit(j) ==
  /\ job' = j
  /\ recent' = recent \cup {j.lvl}
  /\ pc' = "placing"

\* The levels as the caller leaves them, by how placeGridOrder ended.
Written(r, outcome) ==
  CASE job.kind \in {"counter", "backfill"} /\ outcome = "normal" ->
         [r EXCEPT ![job.from].filled = TRUE,
                   ![job.lvl].side = job.side, ![job.lvl].filled = FALSE]
    [] job.kind \in {"counter", "backfill"} /\ outcome = "full" ->
         [r EXCEPT ![job.lvl].pend = TRUE]
    [] job.kind = "pending" /\ outcome = "normal" ->
         [r EXCEPT ![job.lvl].pend = FALSE]
    [] OTHER -> r

\* Where the caller goes on.
CallerOf(kind) ==
  CASE kind = "level" -> "level"
    [] kind = "counter" -> "handle"
    [] kind = "backfill" -> "backfill"
    [] kind = "pending" -> "pending"

Rests == job.side = SideAt(job.lvl, price)

Ended(outcome, marked) ==
  /\ row' = Written([row EXCEPT ![job.lvl].pend = @ \/ marked], outcome)
  /\ pc' = CallerOf(job.kind)
  /\ todo' = IF job.kind = "pending" /\ outcome = "full" THEN {} ELSE todo
  /\ job' = NoJob

\* Mutant: create_order is sent again after an answer that was lost.
PlaceTwice == book' = [book EXCEPT ![job.lvl] = @ + 2]

PlaceOne == book' = [book EXCEPT ![job.lvl] = @ + 1]

\* create_order and what the callers do with its outcome.  An order that would
\* execute at once is refused: post_only.  A 7201 is marked pending_replace and
\* swallowed by placeGridOrder, every other error goes to the caller.
Place ==
  /\ pc = "placing"
  /\ \/ Rests /\ PlaceOne /\ Ended("normal", FALSE) /\ UNCHANGED faults
     \/ /\ ~Rests
        /\ Ended("thrown", FALSE) \/ Ended("normal", FALSE)
        /\ UNCHANGED <<book, faults>>
     \/ Occurs("band") /\ Ended("normal", TRUE) /\ UNCHANGED book
     \/ Occurs("full") /\ Ended("full", FALSE) /\ UNCHANGED book
     \/ Occurs("create") /\ Ended("thrown", FALSE) /\ UNCHANGED book
     \/ Occurs("create") /\ Rests /\ PlaceOne /\ Ended("thrown", FALSE)
  /\ UNCHANGED <<price, fills, old, moves, archive, memory, resuming, snap, snapAt,
                 ticker, mem, match, queue>>

\* handleLevelFill of level f.lvl, whose row had side f.side, up to create_order;
\* kind says where the caller goes on when nothing is placed.
Answer(f, kind, rows) ==
  LET c == IF f.side = "buy" THEN f.lvl + 1 ELSE f.lvl - 1
      counter == IF f.side = "buy" THEN "sell" ELSE "buy"
  IN \/ /\ c \notin Levels
        /\ pc' = CallerOf(kind)
        /\ UNCHANGED <<row, recent, job>>
     \/ /\ c \in Levels
        /\ rows[c].id /\ ~rows[c].filled
        /\ row' = [row EXCEPT ![f.lvl].filled = TRUE]
        /\ pc' = CallerOf(kind)
        /\ UNCHANGED <<recent, job>>
     \/ /\ c \in Levels
        /\ ~(rows[c].id /\ ~rows[c].filled)
        /\ Submit([kind |-> kind, lvl |-> c, side |-> counter, from |-> f.lvl])
        /\ UNCHANGED row

----------------------------------------------------------------------------
(* monitor.                                                                *)

\* A tick begins with the backfill when the last success is too long ago.
BeginsWith(label) ==
  \/ pc = label
  \/ pc = "idle" /\ label = (IF stale THEN "fetch" ELSE "orders")

TickOrders ==
  /\ BeginsWith("orders")
  /\ \/ TickFails
     \/ /\ Observed(snap')
        /\ snapAt' = price
        /\ pc' = "cover"
        /\ UNCHANGED <<market, database, memory, resuming, ticker, mem, match,
                       todo, queue, job>>

\* Ticker, coverage and gap.
TickCover ==
  /\ pc = "cover"
  /\ \/ TickFails
     \/ \E low \in BOOLEAN :
          LET t == [below |-> price, low |-> low]
              covered == {l \in Levels : snap[l] > 0}
              uncovered == Levels \ covered
              gap == Nearest(uncovered, t)
              isGap(l) == uncovered # {} /\ l = gap
              look == Cardinality(uncovered) > 1 /\ Total(snap) < MaxOpen
          IN /\ ticker' = t
             /\ mem' = row
             /\ row' = [l \in Levels |->
                          IF l \in covered
                          THEN [row[l] EXCEPT !.side = SideAt(l, snapAt),
                                              !.filled = FALSE, !.id = TRUE]
                          ELSE IF isGap(l)
                          THEN [row[l] EXCEPT !.filled = TRUE, !.id = FALSE]
                          ELSE row[l]]
             /\ todo' = IF look THEN uncovered \ {gap} ELSE {}
             /\ pc' = IF look THEN "fills" ELSE "level"
             /\ snapAt' = 0
             /\ UNCHANGED <<market, archive, memory, resuming, snap, match, queue,
                            job, faults>>

\* The newest execution of the last 90 s at each level.  The archive is filled
\* from the same call and never knows more.
TickFills ==
  /\ pc = "fills"
  /\ \/ TickFails
     \/ /\ match' = [l \in Levels |->
                        LET seen == {k \in old + 1..Len(fills) : fills[k].lvl = l}
                        IN IF seen = {} THEN NoKey ELSE <<"fill_id", Max(seen)>>]
        /\ pc' = "level"
        /\ UNCHANGED <<market, database, memory, resuming, snap, snapAt, ticker,
                       mem, todo, queue, job, faults>>

\* Mutant: no guard against the lag of open_orders.
JustPlacedNever(l) == FALSE

JustPlaced(l) == l \in recent

\* One uncovered level, the nearest first: a fill, placed just now, or to be
\* placed again.
TickLevel ==
  /\ pc = "level" /\ todo # {}
  /\ LET l == Nearest(todo, ticker)
         side == SideAt(l, ticker.below)
     IN /\ todo' = todo \ {l}
        /\ \/ /\ match[l] # NoKey
              /\ keys' = keys \cup {match[l]}
              /\ queue' = IF match[l] \in keys THEN queue
                          ELSE Append(queue, [lvl |-> l, side |-> mem[l].side])
              /\ UNCHANGED <<row, recent, pc, job>>
           \/ /\ match[l] = NoKey
              /\ JustPlaced(l)
              /\ UNCHANGED <<row, keys, recent, queue, pc, job>>
           \/ /\ match[l] = NoKey
              /\ ~JustPlaced(l)
              /\ row' = [row EXCEPT ![l].side = side, ![l].filled = FALSE,
                                    ![l].id = FALSE]
              /\ Submit([kind |-> "level", lvl |-> l, side |-> side, from |-> 0])
              /\ UNCHANGED <<keys, queue>>
  /\ UNCHANGED <<market, archive, success, stale, resuming, snap, snapAt, ticker,
                 mem, match, faults>>

\* Mutant: orphans only.
UnwantedOrphans(l) == IF mem[l].filled THEN snap[l] ELSE 0

\* Orders of the snapshot at level l that the duplicate killer cancels.
Unwanted(l) ==
  IF snap[l] = 0 THEN 0 ELSE IF mem[l].filled THEN snap[l] ELSE snap[l] - 1

\* The duplicate and orphan killer: expected are the rows read before the sync.
Killer ==
  /\ pc = "level" /\ todo = {}
  /\ todo' = IF Total(snap) > Cardinality({l \in Levels : ~mem[l].filled})
             THEN {l \in Levels : Unwanted(l) > 0} ELSE {}
  /\ ticker' = NoTicker
  /\ match' = NoMatch
  /\ pc' = "cancel"
  /\ UNCHANGED <<market, database, memory, resuming, snap, snapAt, mem, queue, job,
                 faults>>

Smaller(m, n) == IF m < n THEN m ELSE n

Cancel ==
  /\ pc = "cancel" /\ todo # {}
  /\ \E l \in todo :
       /\ todo' = todo \ {l}
       /\ \/ /\ book' = [book EXCEPT ![l] = @ - Smaller(@, Unwanted(l))]
             /\ UNCHANGED faults
          \/ Occurs("cancel") /\ UNCHANGED book
  /\ UNCHANGED <<price, fills, old, moves, database, memory, pc, resuming, snap, snapAt,
                 ticker, mem, match, queue, job>>

\* gridLevelsAll, read once for all the filled levels.
ReadLevels ==
  /\ pc = "cancel" /\ todo = {}
  /\ mem' = row
  /\ snap' = NoOrders
  /\ pc' = "handle"
  /\ UNCHANGED <<market, database, memory, resuming, snapAt, ticker, match, todo,
                 queue, job, faults>>

Handle ==
  /\ pc = "handle" /\ queue # <<>>
  /\ Answer(Head(queue), "counter", mem)
  /\ queue' = Tail(queue)
  /\ UNCHANGED <<market, archive, keys, success, stale, resuming, snap, snapAt,
                 ticker, mem, match, todo, faults>>

\* updatePnL, then the levels checkPendingReplaceOrders finds: both swallow a read
\* that fails, and the tick ends well.
ReadPending ==
  /\ pc = "handle" /\ queue = <<>>
  /\ pc' = "pending"
  /\ \/ Occurs("read") /\ todo' = {} /\ mem' = mem
     \/ todo' = {l \in Levels : row[l].pend} /\ mem' = row /\ faults' = faults
  /\ UNCHANGED <<market, database, memory, resuming, snap, snapAt, ticker, match,
                 queue, job>>

Pending ==
  /\ pc = "pending" /\ todo # {}
  /\ LET l == Min(todo)
     IN /\ todo' = todo \ {l}
        /\ Submit([kind |-> "pending", lvl |-> l, side |-> mem[l].side, from |-> 0])
  /\ UNCHANGED <<market, database, keys, success, stale, resuming, snap, snapAt,
                 ticker, mem, match, queue, faults>>

TickEnd ==
  /\ pc = "pending" /\ todo = {}
  /\ Succeed
  /\ UNCHANGED <<market, database, keys, recent, faults>>

----------------------------------------------------------------------------
(* backfillFills, by a tick after a gap or by a resume.                    *)

\* It ends, or fails, which its callers swallow.
BackfillEnds ==
  IF resuming THEN Succeed
  ELSE /\ Reset
       /\ pc' = "orders"
       /\ UNCHANGED <<success, stale>>

\* Mutant: the fill at the watermark counts as a new one.
NewFillsInclusive == archive..Len(fills)

\* The fills past the watermark, of which all are new to the archive.
NewFills == archive + 1..Len(fills)

\* Fill k still needs its counter-order: its level is not flipped, has the fill's
\* side and no live order.
Recoverable(k) ==
  /\ <<"event_time", k>> \notin keys
  /\ ~row[fills[k].lvl].filled
  /\ row[fills[k].lvl].side = fills[k].side
  /\ snap[fills[k].lvl] = 0

\* Watermark, pages of getFillHistory, archive; the new fills are todo.
Fetch ==
  /\ BeginsWith("fetch")
  /\ \/ Occurs("read") /\ BackfillEnds /\ UNCHANGED archive
     \/ /\ archive = Len(fills) /\ BackfillEnds
        /\ UNCHANGED <<archive, faults>>
     \/ /\ archive < Len(fills)
        /\ archive' = Len(fills)
        /\ todo' = NewFills
        /\ pc' = "survey"
        /\ UNCHANGED <<success, stale, resuming, snap, snapAt, ticker, mem, match,
                       queue, job, faults>>
  /\ UNCHANGED <<market, row, keys, recent>>

\* Ticker and open orders; when they fail the new fills are in the archive and
\* never new again.
Survey ==
  /\ pc = "survey"
  /\ \/ Occurs("read") /\ BackfillEnds
     \/ /\ Observed(snap')
        /\ pc' = "backfill"
        /\ UNCHANGED <<success, stale, resuming, snapAt, ticker, mem, match, todo,
                       queue, job>>
  /\ UNCHANGED <<market, database, keys, recent>>

\* processBackfilledFill of the oldest new fill.
Backfill ==
  /\ pc = "backfill" /\ todo # {}
  /\ LET k == Min(todo)
     IN /\ todo' = todo \ {k}
        /\ \/ /\ Recoverable(k)
              /\ keys' = keys \cup {<<"event_time", k>>}
              /\ Answer([lvl |-> fills[k].lvl, side |-> fills[k].side], "backfill", row)
           \/ /\ ~Recoverable(k)
              /\ UNCHANGED <<row, keys, recent, pc, job>>
  /\ UNCHANGED <<market, archive, success, stale, resuming, snap, snapAt, ticker,
                 mem, match, queue, faults>>

BackfillDone ==
  /\ pc = "backfill" /\ todo = {}
  /\ BackfillEnds
  /\ UNCHANGED <<market, database, keys, recent, faults>>

----------------------------------------------------------------------------
\* The process dies, a create_order in flight arriving or not.
Restart ==
  /\ pc # "down"
  /\ Occurs("restart")
  /\ \/ UNCHANGED book
     \/ pc = "placing" /\ Rests /\ PlaceOne
  /\ pc' = "down"
  /\ keys' = {}
  /\ recent' = {}
  /\ success' = NoSuccess
  /\ stale' = FALSE
  /\ Reset
  /\ UNCHANGED <<price, fills, old, moves, database>>

\* loadActiveBots resumes the bot.
Boot ==
  /\ pc = "down"
  /\ pc' = "fetch"
  /\ resuming' = TRUE
  /\ UNCHANGED <<market, database, memory, snap, snapAt, ticker, mem, match, todo,
                 queue, job, faults>>

Engine ==
  \/ TickOrders \/ TickCover \/ TickFills \/ TickLevel \/ Place
  \/ Killer \/ Cancel \/ ReadLevels \/ Handle \/ ReadPending \/ Pending \/ TickEnd
  \/ Fetch \/ Survey \/ Backfill \/ BackfillDone \/ Boot

Next ==
  \/ MoveUp \/ MoveDown \/ Age \/ RecentExpires \/ Poll \/ Engine \/ Restart

Spec == Init /\ [][Next]_vars

\* A tick starts every 5 s and its calls return or time out; time passes.
FairSpec ==
  Spec /\ WF_vars(Engine) /\ SF_vars(Age) /\ SF_vars(RecentExpires)

----------------------------------------------------------------------------
Labels == {"idle", "down", "orders", "cover", "fills", "level", "placing",
           "cancel", "handle", "pending", "fetch", "survey", "backfill"}

Rows == [side : Sides, filled : BOOLEAN, id : BOOLEAN,
         pend : BOOLEAN]

Fills == [lvl : Levels, side : Sides]

Keys == {"fill_id", "event_time"} \X (1..MaxFills)

\* The variables keep to their types: among others the archive never counts a
\* fill twice and no row names a level outside the grid.
TypeOK ==
  /\ price \in 0..N
  /\ book \in [Levels -> Nat]
  /\ fills \in Seq(Fills) /\ Len(fills) <= MaxFills
  /\ old \in 0..Len(fills)
  /\ moves \in 0..MaxMoves
  /\ row \in [Levels -> Rows]
  /\ archive \in 0..Len(fills)
  /\ keys \subseteq Keys
  /\ recent \subseteq Levels
  /\ success \in 0..Len(fills) \cup {NoSuccess}
  /\ stale \in BOOLEAN
  /\ pc \in Labels
  /\ resuming \in BOOLEAN
  /\ snap \in [Levels -> Nat]
  /\ snapAt \in 0..N
  /\ ticker \in [below : 0..N, low : BOOLEAN]
  /\ mem \in [Levels -> Rows]
  /\ match \in [Levels -> Keys \cup {NoKey}]
  /\ todo \subseteq Nat \ {0}
  /\ queue \in Seq(Fills)
  /\ job \in [kind : {"none", "level", "counter", "backfill", "pending"},
              lvl : 0..N, side : Sides, from : 0..N]
  /\ faults \in 0..MaxFaults

\* As long as nothing has gone wrong no tick brings a level to more than two
\* orders: one that places a level again and then answers a fill next to it with
\* the same level (GE 4568, 4683) does so once, whatever the market does meanwhile
\* and whatever a backfill, which may answer several old fills with one level, left
\* there before.
TicksAddNoThird ==
  [][faults' = 0 /\ job.kind # "backfill" =>
       \A l \in Levels : book'[l] > book[l] => book'[l] <= 2]_vars

\* The monitor places again only levels without an order (GE 4551): open_orders
\* may not show an order of the last 10 s, processedFills, the gap and
\* recentlyPlaced must make up for it.
PlacesOnlyMissing ==
  [][pc = "level" /\ pc' = "placing" => book[job'.lvl] = 0]_vars

\* One order at every level but at most one, the gap.
Complete ==
  /\ \A l \in Levels : book[l] <= 1
  /\ Cardinality({l \in Levels : book[l] = 0}) <= 1

\* A level waits in pending_replace with the side of before the market crossed
\* it: checkPendingReplaceOrders tries that side every tick, is refused, and has
\* set recentlyPlaced, so that the monitor does not place the level either.
Stuck == \E l \in Levels : row[l].pend /\ row[l].side # SideAt(l, price)

\* Whatever has executed, failed or been placed twice, the ticks bring the grid
\* back to one order per level once the market rests (GE 4486, "closest =
\* natural gap, rest = need orders"), unless a level is stuck.
Heals == <>[](Complete \/ Stuck)

\* The duplicate killer leaves every level that has orders one of them (GE 4594,
\* 4612: it keeps the first of the duplicates, and orphans are orders of levels
\* that should have none).
KillerKeepsGrid ==
  [][pc = "cancel" /\ pc' = "cancel" /\ price' = price =>
       \A l \in Levels : book[l] > 0 => book'[l] > 0]_vars

\* Fills that a resume has to recover reach the level pipeline in some backfill,
\* if not at once then by the gap trigger (GE 1462).
ResumeRecovers ==
  pc = "fetch" /\ resuming /\ archive < Len(fills) ~> pc \in {"backfill", "down"}

=============================================================================
