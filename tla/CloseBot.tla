------------------------------ MODULE CloseBot ------------------------------
(***************************************************************************)
(* GridEngine.closeBot (packages/bot/src/bot/grid-engine.ts): the verified *)
(* close of one bot.  Every activation pauses the bot, then places a       *)
(* reduce-only GTC limit order, polls the live position, cancels and       *)
(* re-prices, escalates to a reduce-only MARKET order, and only then       *)
(* writes 'stopped' (position confirmed flat) or 'paused' (fail closed).   *)
(*                                                                         *)
(* Several activations may run at once (the REST handler, the monitor's    *)
(* SL/TP safeguard): nothing in the engine excludes them.  One action is   *)
(* the code between two awaited calls.  Quantities are multiples of the    *)
(* instrument's min_size, positions are signed (long > 0).                 *)
(***************************************************************************)
EXTENDS Integers, FiniteSets

CONSTANTS
  Closers,      \* who may call closeBot
  StartPos,     \* positions the bot may hold at the start
  GridDeltas,   \* effect on the position of the bot's resting grid orders
  CloseLot,     \* min_size units in 0.01, to which closeSize is floored
  MinOrder,     \* smallest size validateOrderSize accepts (min_size, min_notional)
  MaxReprice,   \* CLOSE_MAX_REPRICE_RETRIES
  Polls,        \* CLOSE_POLLS_PER_ATTEMPT
  MaxCalls,     \* bound: activations of closeBot per closer
  MaxPos,       \* bound: size the grid may build the position up to
  FaultSets,    \* sets of calls that may fail together, see FaultKinds
  NoOrder       \* lastCloseOrderId = null

\* "cancel": cancelOrder/cancelAllOrders fail (the client swallows it);
\* "create": createOrder or getTicker throw, the order placed or not;
\* "read":   getPositions/getOpenOrders throw;
\* "restart": the engine process dies and starts again;
\* "resume": loadActiveBots fails to resume the bot after a restart;
\* "tick": a monitor tick is still running when the bot is paused.
FaultKinds == {"cancel", "create", "read", "restart", "resume", "tick"}

OrderIds == Closers \X (1..MaxCalls) \X (0..MaxReprice)

ASSUME ConstantsAssumption ==
  /\ StartPos \subseteq Int
  /\ GridDeltas \subseteq Int
  /\ CloseLot \in Nat \ {0}
  /\ MinOrder \in Nat \ {0}
  /\ MaxReprice \in Nat \ {0}
  /\ Polls \in Nat \ {0}
  /\ MaxCalls \in Nat
  /\ MaxPos \in Nat
  /\ FaultSets \subseteq SUBSET FaultKinds
  /\ NoOrder \notin OrderIds

VARIABLES
  faults,       \* the calls that may fail in this behaviour
  \* the exchange
  pos,          \* live position on the pair
  closeOrders,  \* live close orders
  gridOrders,   \* live grid orders, by the position change they cause
  \* the database row and the engine's map of instances
  status,       \* grid_bots.status, "deleted" once the row is gone
  dbPos,        \* grid_bots.position_size
  escalation,   \* grid_bots.close_escalation # 0
  inMap,        \* GridEngine.bots has the bot
  tick,         \* a tick of the bot's monitor is in flight
  del,          \* progress of the delete handler: none, checked, verified
  \* one activation of closeBot per closer
  pc,
  calls,        \* activations started so far
  gap,          \* opts.escalateImmediately && escalationEnabled (skipLimitPhase)
  attempt,
  polled,       \* polls done in this attempt
  lastId,       \* lastCloseOrderId
  size          \* finalSize: the position as last read

exchange == <<pos, closeOrders, gridOrders>>
row == <<status, dbPos, escalation, inMap, tick, del>>
locals == <<calls, gap, attempt, polled, lastId, size>>
vars == <<faults, pos, closeOrders, gridOrders, status, dbPos, escalation, inMap, tick, del,
          pc, calls, gap, attempt, polled, lastId, size>>

----------------------------------------------------------------------------
Abs(n) == IF n < 0 THEN -n ELSE n

\* |size| <= min_size * CLOSE_DUST_MIN_SIZE_FACTOR (factor 1)
Flat(n) == Abs(n) <= 1

CloseSide(n) == IF n > 0 THEN "sell" ELSE "buy"

\* Math.floor(Math.abs(finalSize) * 100) / 100
CloseSize(n) == (Abs(n) \div CloseLot) * CloseLot

Signed(side, q) == IF side = "sell" THEN -q ELSE q

\* The exchange executes q of a reduce-only order only against an opposite
\* position at least as large.
MayExecute(ro, side, q) ==
  ro => /\ pos # 0
        /\ side = CloseSide(pos)
        /\ q <= Abs(pos)

OrderId(c) == <<c, calls[c], attempt[c]>>

\* Mutant: the close order without reduce_only.
LimitOrderAnySide(c) ==
  [id |-> OrderId(c), side |-> CloseSide(size[c]),
   qty |-> CloseSize(size[c]), ro |-> FALSE]

LimitOrder(c) ==
  [id |-> OrderId(c), side |-> CloseSide(size[c]),
   qty |-> CloseSize(size[c]), ro |-> TRUE]

\* The MARKET escalation order is reduce-only as well.
MarketReduceOnly == TRUE

----------------------------------------------------------------------------
Init ==
  /\ faults \in FaultSets
  /\ closeOrders = {}
  /\ escalation \in BOOLEAN
  /\ \/ /\ status = "running" /\ inMap = TRUE
        /\ pos \in StartPos /\ gridOrders \in SUBSET GridDeltas
     \/ /\ status = "paused" /\ inMap = FALSE
        /\ pos \in StartPos /\ gridOrders = {}
  /\ dbPos = pos
  /\ tick = FALSE
  /\ del = "none"
  /\ calls = [c \in Closers |-> 0]
  /\ pc = [c \in Closers |-> "idle"]
  /\ gap = [c \in Closers |-> FALSE]
  /\ attempt = [c \in Closers |-> 0]
  /\ polled = [c \in Closers |-> 0]
  /\ lastId = [c \in Closers |-> NoOrder]
  /\ size = [c \in Closers |-> 0]

Goto(c, label) == pc' = [pc EXCEPT ![c] = label]

\* The activation ends: its locals go out of scope.
Finish(c) ==
  /\ Goto(c, "idle")
  /\ gap' = [gap EXCEPT ![c] = FALSE]
  /\ attempt' = [attempt EXCEPT ![c] = 0]
  /\ polled' = [polled EXCEPT ![c] = 0]
  /\ lastId' = [lastId EXCEPT ![c] = NoOrder]
  /\ size' = [size EXCEPT ![c] = 0]

\* An exception escapes closeBot: it is logged and rethrown, nothing is written.
Throw(c) == Finish(c)

\* The awaited read of the exchange fails.
ReadFails(c) ==
  /\ "read" \in faults
  /\ Throw(c)
  /\ UNCHANGED <<exchange, row, calls>>

\* Mutant: a status of its own for a close that failed.
WriteRowClosing(s, p) ==
  IF status = "deleted" THEN UNCHANGED <<status, dbPos>>
  ELSE /\ status' = IF s = "paused" THEN "closing" ELSE s
       /\ dbPos' = p

\* updateBot on a deleted row changes nothing.
WriteRow(s, p) ==
  IF status = "deleted" THEN UNCHANGED <<status, dbPos>>
  ELSE status' = s /\ dbPos' = p

\* A position read as flat: cancel the remnant of the close order, if its id
\* is known, before writing 'stopped'.
GotoFlattened(c) ==
  Goto(c, IF lastId[c] # NoOrder THEN "cancelRemnant" ELSE "writeStopped")

\* getBot, getClientForBot and the synchronous part of pauseBot: with an
\* instance its orders are cancelled first, without one the row is written
\* at once and nothing is cancelled.
Begin(c) ==
  /\ pc[c] = "idle"
  /\ calls[c] < MaxCalls
  /\ status # "deleted"
  /\ calls' = [calls EXCEPT ![c] = @ + 1]
  /\ gap' \in {[gap EXCEPT ![c] = FALSE], [gap EXCEPT ![c] = escalation]}
  /\ IF inMap
     THEN Goto(c, "cancelAll") /\ UNCHANGED status
     ELSE Goto(c, "readFirst") /\ status' = "paused"
  /\ UNCHANGED <<exchange, dbPos, escalation, inMap, tick, del, attempt, polled, lastId, size>>

\* Mutant: only the close orders are cancelled.
CancelAllButGrid ==
  closeOrders' = {} /\ UNCHANGED gridOrders

\* What cancel_all_orders leaves on the pair's book.
CancelAll ==
  \/ closeOrders' = {} /\ gridOrders' = {}
  \/ "cancel" \in faults /\ UNCHANGED <<closeOrders, gridOrders>>

CancelOne(id) ==
  /\ \/ closeOrders' = {o \in closeOrders : o.id # id}
     \/ "cancel" \in faults /\ UNCHANGED closeOrders
  /\ UNCHANGED gridOrders

\* Mutant: no sweep of the pair when the id is not known.
CancelLiveById(c) ==
  IF lastId[c] # NoOrder THEN CancelOne(lastId[c])
  ELSE UNCHANGED <<closeOrders, gridOrders>>

\* Cancel the activation's live order: by id when it is known, else the pair.
CancelLive(c) ==
  IF lastId[c] # NoOrder THEN CancelOne(lastId[c]) ELSE CancelAll

\* pauseBot with an instance: cancel, drop the instance, write 'paused'.  It
\* does not wait for a tick that is in flight.
PauseInstance(c) ==
  /\ pc[c] = "cancelAll"
  /\ tick => "tick" \in faults
  /\ CancelAll
  /\ inMap' = FALSE
  /\ WriteRow("paused", dbPos)
  /\ Goto(c, "readFirst")
  /\ UNCHANGED <<pos, escalation, tick, del, locals>>

\* The first read of the live position decides: already flat, or which phase.
ReadFirst(c) ==
  /\ pc[c] = "readFirst"
  /\ \/ ReadFails(c)
     \/ /\ size' = [size EXCEPT ![c] = pos]
        /\ Goto(c, IF Flat(pos) THEN "writeStopped"
                   ELSE IF gap[c] THEN "escalateRead" ELSE "reread")
        /\ UNCHANGED <<exchange, row, calls, gap, attempt, polled, lastId>>

\* Head of a limit attempt: the position is read again.
Reread(c) ==
  /\ pc[c] = "reread"
  /\ \/ ReadFails(c)
     \/ /\ size' = [size EXCEPT ![c] = pos]
        /\ IF Flat(pos) THEN GotoFlattened(c)
           ELSE Goto(c, IF lastId[c] # NoOrder \/ attempt[c] > 0
                        THEN "cancelPrevious" ELSE "place")
        /\ UNCHANGED <<exchange, row, calls, gap, attempt, polled, lastId>>

\* Cancel before replace.
CancelPrevious(c) ==
  /\ pc[c] = "cancelPrevious"
  /\ CancelLive(c)
  /\ lastId' = [lastId EXCEPT ![c] = NoOrder]
  /\ Goto(c, "place")
  /\ UNCHANGED <<pos, row, calls, gap, attempt, polled, size>>

\* getTicker and createOrder.  validateOrderSize throws on a size below the
\* minimum; the exchange may answer with the id or with 0x00; a call that
\* throws may have placed the order all the same.
Place(c) ==
  /\ pc[c] = "place"
  /\ UNCHANGED <<pos, gridOrders, row, calls>>
  /\ \/ /\ CloseSize(size[c]) < MinOrder
        /\ Throw(c)
        /\ UNCHANGED closeOrders
     \/ /\ "create" \in faults
        /\ Throw(c)
        /\ \/ UNCHANGED closeOrders
           \/ /\ CloseSize(size[c]) >= MinOrder
              /\ closeOrders' = closeOrders \union {LimitOrder(c)}
     \/ /\ CloseSize(size[c]) >= MinOrder
        /\ closeOrders' = closeOrders \union {LimitOrder(c)}
        /\ polled' = [polled EXCEPT ![c] = 0]
        /\ \/ /\ lastId' = [lastId EXCEPT ![c] = OrderId(c)]
              /\ Goto(c, "poll")
           \/ Goto(c, "resolve") /\ UNCHANGED lastId
        /\ UNCHANGED <<gap, attempt, size>>

\* 0x00: look for the order among the open ones by price.  Any live close
\* order may be at that price; none is found once ours has filled, or when
\* the read fails.
Resolve(c) ==
  /\ pc[c] = "resolve"
  /\ \/ \E o \in closeOrders : lastId' = [lastId EXCEPT ![c] = o.id]
     \/ /\ \/ \A o \in closeOrders : o.id # OrderId(c)
           \/ "read" \in faults
        /\ lastId' = [lastId EXCEPT ![c] = NoOrder]
  /\ Goto(c, "poll")
  /\ UNCHANGED <<exchange, row, calls, gap, attempt, polled, size>>

\* Mutant: the attempts are not counted.
NextAttemptUnbounded(c) ==
  /\ UNCHANGED attempt
  /\ Goto(c, IF escalation THEN "escalateCancel" ELSE "reread")

\* After the last poll the next attempt begins, if there is one: a bot with
\* escalation never gets to a second limit order.
NextAttempt(c) ==
  /\ attempt' = [attempt EXCEPT ![c] = @ + 1]
  /\ Goto(c, IF attempt[c] + 1 > MaxReprice THEN "writeFailed"
             ELSE IF escalation THEN "escalateCancel" ELSE "reread")

Poll(c) ==
  /\ pc[c] = "poll"
  /\ \/ ReadFails(c)
     \/ /\ size' = [size EXCEPT ![c] = pos]
        /\ polled' = [polled EXCEPT ![c] = @ + 1]
        /\ \/ Flat(pos) /\ GotoFlattened(c) /\ UNCHANGED attempt
           \/ ~Flat(pos) /\ polled[c] + 1 < Polls /\ UNCHANGED <<pc, attempt>>
           \/ ~Flat(pos) /\ polled[c] + 1 >= Polls /\ NextAttempt(c)
        /\ UNCHANGED <<exchange, row, calls, gap, lastId>>

\* Escalation, step 1: cancel the live limit order, or sweep the pair.
EscalateCancel(c) ==
  /\ pc[c] = "escalateCancel"
  /\ CancelLive(c)
  /\ lastId' = [lastId EXCEPT ![c] = NoOrder]
  /\ Goto(c, "escalateRead")
  /\ UNCHANGED <<pos, row, calls, gap, attempt, polled, size>>

\* Step 2: the remaining size is read just before the market order.
EscalateRead(c) ==
  /\ pc[c] = "escalateRead"
  /\ \/ ReadFails(c)
     \/ /\ size' = [size EXCEPT ![c] = pos]
        /\ Goto(c, IF Flat(pos) THEN "writeStopped" ELSE "market")
        /\ UNCHANGED <<exchange, row, calls, gap, attempt, polled, lastId>>

\* What an immediate-or-cancel market order of size n leaves: it executes
\* any part of it and never rests on the book.
MarketExecutes(n) ==
  \E q \in 0..CloseSize(n) :
     /\ q > 0 => MayExecute(MarketReduceOnly, CloseSide(n), q)
     /\ pos' = pos + Signed(CloseSide(n), q)

\* Steps 3 and 4: the MARKET order.  A failed getTicker escapes, a failed
\* createOrder is caught and leads to the fail-closed path.
Market(c) ==
  /\ pc[c] = "market"
  /\ UNCHANGED <<closeOrders, gridOrders, row, calls>>
  /\ \/ /\ "create" \in faults
        /\ Throw(c)
        /\ UNCHANGED pos
     \/ /\ Goto(c, "writeFailed")
        /\ \/ CloseSize(size[c]) < MinOrder /\ UNCHANGED pos
           \/ /\ "create" \in faults
              /\ UNCHANGED pos \/ MarketExecutes(size[c])
        /\ UNCHANGED <<gap, attempt, polled, lastId, size>>
     \/ /\ CloseSize(size[c]) >= MinOrder
        /\ MarketExecutes(size[c])
        /\ polled' = [polled EXCEPT ![c] = 0]
        /\ Goto(c, "marketPoll")
        /\ UNCHANGED <<gap, attempt, lastId, size>>

\* Step 5: verify the market order like the limit one.
MarketPoll(c) ==
  /\ pc[c] = "marketPoll"
  /\ \/ ReadFails(c)
     \/ /\ size' = [size EXCEPT ![c] = pos]
        /\ polled' = [polled EXCEPT ![c] = @ + 1]
        /\ \/ Flat(pos) /\ Goto(c, "writeStopped")
           \/ ~Flat(pos) /\ polled[c] + 1 < Polls /\ UNCHANGED pc
           \/ ~Flat(pos) /\ polled[c] + 1 >= Polls /\ Goto(c, "writeFailed")
        /\ UNCHANGED <<exchange, row, calls, gap, attempt, lastId>>

CancelRemnant(c) ==
  /\ pc[c] = "cancelRemnant"
  /\ CancelOne(lastId[c])
  /\ Goto(c, "writeStopped")
  /\ UNCHANGED <<pos, row, locals>>

WriteStopped(c) ==
  /\ pc[c] = "writeStopped"
  /\ WriteRow("stopped", 0)
  /\ Finish(c)
  /\ UNCHANGED <<exchange, escalation, inMap, tick, del, calls>>

\* Fail closed: 'paused', the residual recorded, botCloseFailed emitted.
WriteFailed(c) ==
  /\ pc[c] = "writeFailed"
  /\ WriteRow("paused", size[c])
  /\ Finish(c)
  /\ UNCHANGED <<exchange, escalation, inMap, tick, del, calls>>

Closer(c) ==
  \/ PauseInstance(c) \/ ReadFirst(c) \/ Reread(c) \/ CancelPrevious(c)
  \/ Place(c) \/ Resolve(c) \/ Poll(c)
  \/ EscalateCancel(c) \/ EscalateRead(c) \/ Market(c) \/ MarketPoll(c)
  \/ CancelRemnant(c) \/ WriteStopped(c) \/ WriteFailed(c)

----------------------------------------------------------------------------
(* The exchange, the rest of the engine and the delete handler.            *)

Fill(o, q) ==
  /\ MayExecute(o.ro, o.side, q)
  /\ pos' = pos + Signed(o.side, q)
  /\ closeOrders' = (closeOrders \ {o}) \union
                    (IF q = o.qty THEN {} ELSE {[o EXCEPT !.qty = @ - q]})
  /\ UNCHANGED <<gridOrders, row, pc, locals>>

GridFill(d) ==
  /\ Abs(pos + d) <= MaxPos
  /\ pos' = pos + d
  /\ gridOrders' = gridOrders \ {d}
  /\ UNCHANGED <<closeOrders, row, pc, locals>>

\* The monitor ticks while the bot has an instance; the tick keeps the grid on
\* the book and never looks at the map of instances again.  Without the "tick"
\* fault ticks and pauses take turns.
TickBegins ==
  /\ inMap
  /\ "tick" \in faults \/ \A c \in Closers : pc[c] # "cancelAll"
  /\ ~tick
  /\ tick' = TRUE
  /\ UNCHANGED <<exchange, status, dbPos, escalation, inMap, del, pc, locals>>

MonitorPlaces(d) ==
  /\ tick
  /\ gridOrders' = gridOrders \union {d}
  /\ UNCHANGED <<pos, closeOrders, row, pc, locals>>

TickEnds ==
  /\ tick
  /\ tick' = FALSE
  /\ UNCHANGED <<exchange, status, dbPos, escalation, inMap, del, pc, locals>>

\* The process dies; start() resumes a 'running' bot through loadActiveBots,
\* which cancels orders that match no level, or writes 'paused' when the
\* resume fails, leaving the orders on the book.
Restart ==
  /\ "restart" \in faults
  /\ pc' = [c \in Closers |-> "idle"]
  /\ gap' = [c \in Closers |-> FALSE]
  /\ attempt' = [c \in Closers |-> 0]
  /\ polled' = [c \in Closers |-> 0]
  /\ lastId' = [c \in Closers |-> NoOrder]
  /\ size' = [c \in Closers |-> 0]
  /\ del' = "none"
  /\ tick' = FALSE
  /\ \/ status # "running" /\ inMap' = FALSE /\ UNCHANGED <<status, closeOrders>>
     \/ /\ status = "running"
        /\ inMap' = TRUE
        /\ UNCHANGED status
        /\ closeOrders' \in {closeOrders, {}}
     \/ /\ status = "running" /\ "resume" \in faults
        /\ inMap' = FALSE
        /\ status' = "paused"
        /\ UNCHANGED closeOrders
  /\ UNCHANGED <<pos, gridOrders, dbPos, escalation, calls>>

\* DELETE /api/bots/:id, the row's status and size first ...
DeleteCheck ==
  /\ del = "none"
  /\ status = "stopped"
  /\ Flat(dbPos)
  /\ del' = "checked"
  /\ UNCHANGED <<exchange, status, dbPos, escalation, inMap, tick, pc, locals>>

\* ... then the live position, refusing when it cannot be read ...
DeleteVerify ==
  /\ del = "checked"
  /\ \/ ("read" \in faults \/ ~Flat(pos)) /\ del' = "none"
     \/ Flat(pos) /\ del' = "verified"
  /\ UNCHANGED <<exchange, status, dbPos, escalation, inMap, tick, pc, locals>>

\* ... then the row.
DeleteRow ==
  /\ del = "verified"
  /\ del' = "none"
  /\ status' = "deleted"
  /\ UNCHANGED <<exchange, dbPos, escalation, inMap, tick, pc, locals>>

Next ==
  /\ UNCHANGED faults
  /\ \/ \E c \in Closers : Begin(c) \/ Closer(c)
     \/ \E o \in closeOrders : \E q \in 1..o.qty : Fill(o, q)
     \/ \E d \in gridOrders : GridFill(d)
     \/ TickBegins \/ (\E d \in GridDeltas : MonitorPlaces(d)) \/ TickEnds
     \/ Restart
     \/ DeleteCheck \/ DeleteVerify \/ DeleteRow

\* Every awaited call returns or throws, so an activation keeps moving; the
\* exchange, the user and the process owe nothing.
Fairness ==
  /\ \A c \in Closers : WF_vars(UNCHANGED faults /\ Closer(c))
  /\ WF_vars(UNCHANGED faults /\ TickEnds)

Spec == Init /\ [][Next]_vars /\ Fairness

----------------------------------------------------------------------------
Labels == {"idle", "cancelAll", "readFirst", "reread", "cancelPrevious",
           "place", "resolve", "poll", "escalateCancel", "escalateRead",
           "market", "marketPoll", "cancelRemnant", "writeStopped", "writeFailed"}

\* Every variable has its type.
TypeOK ==
  /\ faults \in FaultSets
  /\ pos \in Int
  /\ \A o \in closeOrders : o \in [id : OrderIds, side : {"buy", "sell"},
                                   qty : Int, ro : BOOLEAN]
  /\ gridOrders \subseteq GridDeltas
  /\ status \in {"running", "paused", "stopped", "deleted"}
  /\ dbPos \in Int
  /\ escalation \in BOOLEAN
  /\ inMap \in BOOLEAN
  /\ tick \in BOOLEAN
  /\ del \in {"none", "checked", "verified"}
  /\ pc \in [Closers -> Labels]
  /\ calls \in [Closers -> 0..MaxCalls]
  /\ gap \in [Closers -> BOOLEAN]
  /\ attempt \in [Closers -> 0..(MaxReprice + 1)]
  /\ polled \in [Closers -> 0..Polls]
  /\ lastId \in [Closers -> OrderIds \union {NoOrder}]
  /\ size \in [Closers -> Int]

\* Cancels take effect, a restarted engine resumes its bots and no tick outlives a
\* pause.
Trusted == faults \cap {"cancel", "resume", "tick"} = {}

\* Where that holds 'stopped' is only ever written over a flat position, and it stays
\* flat: a stopped or deleted bot leaves no exposure behind (closeBot writes 'stopped'
\* after a confirming read; the delete handler checks the live position).
StoppedIsFlat == Trusted /\ status \in {"stopped", "deleted"} => Flat(pos)

\* Close orders, of however many activations and attempts, reduce the
\* position and never turn a long into a short or the reverse ("un cierre
\* nunca puede flipear"); only the grid's own fills may build it.
CloseNeverFlips ==
  [][ gridOrders' = gridOrders => /\ pos > 0 => pos' \in 0..pos
                                  /\ pos < 0 => pos' \in pos..0 ]_vars

\* As long as one activation is the only one there ever was and cancels take effect,
\* it has at most one close order alive, and none beside its MARKET order ("NUNCA stackeamos
\* ordenes de cierre duplicadas"), resolved id or not.
Sole(c) == calls[c] = 1 /\ \A d \in Closers \ {c} : calls[d] = 0
SoleActivationNeverStacks ==
  "cancel" \notin faults => \A c \in Closers : Sole(c) =>
    /\ \A o, p \in closeOrders : o.id = p.id
    /\ pc[c] \in {"market", "marketPoll"} => closeOrders = {}

\* Without a failing call closeBot ends in its own two ways, flat or fail
\* closed: it never throws half way, leaving a position above min_size that
\* it cannot even order to close.
NeverThrowsUnprovoked ==
  [][ faults = {} =>
        \A c \in Closers : pc[c] # "idle" /\ pc'[c] = "idle" =>
                            pc[c] \in {"writeStopped", "writeFailed"} ]_vars

\* An activation always ends: the attempts and the polls are bounded.
CallReturns == \A c \in Closers : pc[c] # "idle" ~> pc[c] = "idle"
=============================================================================
