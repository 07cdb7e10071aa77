------------------------------ MODULE StopLoss ------------------------------
(***************************************************************************)
(* The safeguards of a tick (GridBotInstance.monitor, updatePnL) and what  *)
(* monitorAllBots makes of them, for a LONG bot: the distance to the       *)
(* liquidation price first, the stop-loss last, between them everything    *)
(* else a tick does and may throw from.                                    *)
(***************************************************************************)
EXTENDS Integers

CONSTANTS
  Highest,         \* prices 0..Highest
  StopAt,      \* the highest price at which sl_pct is lost
  NearLiq,     \* the highest price within safeguard_threshold_pct of liquidation
  GapSize,     \* CLOSE_GAP_THRESHOLD_PCT, in prices
  Actions,     \* safeguard_action the bot may have, "off" when not enabled
  MaxTurns,    \* bound: moves of the price
  MaxMisses    \* bound: ticks, reads and actions that fail

ASSUME StopAssumption ==
  /\ Highest \in Nat /\ StopAt \in 0..Highest /\ NearLiq \in -1..Highest /\ GapSize \in Nat
  /\ Actions \subseteq {"off", "pause", "pause_close"}
  /\ MaxTurns \in Nat /\ MaxMisses \in Nat

VARIABLES
  quote,      \* last_price
  guard,      \* safeguard_enabled and safeguard_action
  lastTick,   \* lastTickPrice, or -1
  gap,        \* lastTickGapPct reaches the threshold
  phase,      \* of the tick: "idle", "market", "work", "pnl", "pause",
              \* "close" (by the safeguard) or "stop" (by the stop-loss)
  mode,       \* of the row: "running", "paused", "closed" or "market" (closed at once)
  instance,   \* the bot is in the engine's map, and ticks visit it
  \* history
  eaten,      \* a tick has read the price and failed since the last that ended well
  whole,      \* the price of the last tick that ended well, or -1
  unwritten,  \* 'paused' has not been written for an instance that is gone
  turns, misses

stopVars == <<quote, guard, lastTick, gap, phase, mode, instance, eaten, whole, unwritten, turns, misses>>

StopTypeOK ==
  /\ quote \in 0..Highest /\ guard \in Actions
  /\ lastTick \in -1..Highest /\ whole \in -1..Highest
  /\ gap \in BOOLEAN /\ eaten \in BOOLEAN /\ instance \in BOOLEAN
  /\ unwritten \in BOOLEAN
  /\ phase \in {"idle", "market", "work", "pnl", "pause", "close", "stop"}
  /\ mode \in {"running", "paused", "closed", "market"}
  /\ turns \in 0..MaxTurns /\ misses \in 0..MaxMisses

StopInit ==
  /\ quote = Highest /\ guard \in Actions
  /\ lastTick = -1 /\ whole = -1 /\ gap = FALSE /\ eaten = FALSE
  /\ phase = "idle" /\ mode = "running" /\ instance = TRUE
  /\ unwritten = FALSE /\ turns = 0 /\ misses = 0

Apart(p, q) == p # -1 /\ (p - q >= GapSize \/ q - p >= GapSize)

Losing == quote <= StopAt

Misses == misses < MaxMisses /\ misses' = misses + 1

-----------------------------------------------------------------------------
PriceTurns ==
  /\ turns < MaxTurns /\ turns' = turns + 1
  /\ quote' \in (0..Highest) \ {quote}
  /\ UNCHANGED <<guard, lastTick, gap, phase, mode, instance, eaten, whole, unwritten, misses>>

StopTick ==
  /\ instance /\ mode = "running" /\ phase = "idle"
  /\ phase' = "market"
  /\ UNCHANGED <<quote, guard, lastTick, gap, mode, instance, eaten, whole, unwritten, turns, misses>>

\* An error that is no safeguard ends the tick: monitorAllBots logs it.
Errs ==
  /\ Misses
  /\ phase \in {"market", "work"}
  /\ phase' = "idle"
  /\ UNCHANGED <<quote, guard, lastTick, gap, mode, instance, eaten, whole, unwritten, turns>>

\* Mutant: the gap is measured from a price that is not kept.
GapFromStart == gap' = Apart(Highest, quote) /\ lastTick' = quote

\* lastTickGapPct, lastTickPrice
MeasuresGap == gap' = Apart(lastTick, quote) /\ lastTick' = quote

\* The orders and the ticker are read; near the liquidation price the safeguard
\* throws its action.
ReadsMarket ==
  /\ phase = "market"
  /\ MeasuresGap
  /\ eaten' = (whole # lastTick)
  /\ phase' = IF guard # "off" /\ quote <= NearLiq
             THEN (IF guard = "pause" THEN "pause" ELSE "close") ELSE "work"
  /\ UNCHANGED <<quote, guard, mode, instance, whole, unwritten, turns, misses>>

\* Funding, coverage, placements, fills; the margin brake and the funding
\* safeguard pause.
WorksOn ==
  /\ phase = "work"
  /\ phase' \in {"pnl", "pause"}
  /\ UNCHANGED <<quote, guard, lastTick, gap, mode, instance, eaten, whole, unwritten, turns, misses>>

\* Mutant: updatePnL swallows its own safeguard with every other error.
PnlSwallows == phase' = "idle" /\ whole' = lastTick

\* The loss by the position that is read now.
PnlDecides ==
  /\ phase' = IF Losing THEN "stop" ELSE "idle"
  /\ whole' = IF Losing THEN whole ELSE lastTick

\* updatePnL: the position is read and the stop-loss decided on it; when the
\* read fails the tick ends well all the same.
UpdatesPnl ==
  /\ phase = "pnl"
  /\ PnlDecides
  /\ UNCHANGED <<quote, guard, lastTick, gap, mode, instance, eaten, unwritten, turns, misses>>

PnlUnread ==
  /\ Misses
  /\ phase = "pnl"
  /\ phase' = "idle" /\ whole' = lastTick
  /\ UNCHANGED <<quote, guard, lastTick, gap, mode, instance, eaten, unwritten, turns>>

\* monitorAllBots routes the safeguard: closeBot, at once by MARKET after a gap
\* that a stop-loss notes, and paused when it cannot verify the close.
StopCloses ==
  /\ phase \in {"close", "stop"}
  /\ phase' = "idle" /\ instance' = FALSE
  /\ mode' \in {IF phase = "stop" /\ gap THEN "market" ELSE "closed", "paused"}
  /\ UNCHANGED <<quote, guard, lastTick, gap, eaten, whole, unwritten, turns, misses>>

StopPauses ==
  /\ phase = "pause"
  /\ phase' = "idle" /\ mode' = "paused" /\ instance' = FALSE
  /\ UNCHANGED <<quote, guard, lastTick, gap, eaten, whole, unwritten, turns, misses>>

\* An action that throws before pauseBot has dropped the instance (the row or the client
\* is not read, the orders are not cancelled) is logged; the next tick tries again.
RouteFails ==
  /\ Misses
  /\ phase \in {"pause", "close", "stop"}
  /\ phase' = "idle"
  /\ UNCHANGED <<quote, guard, lastTick, gap, mode, instance, eaten, whole, unwritten, turns>>

\* pauseBot has dropped the instance and cannot write 'paused': logged as well, but no
\* tick visits the bot any more.
RowUnwritten ==
  /\ Misses
  /\ phase \in {"pause", "close", "stop"}
  /\ phase' = "idle" /\ instance' = FALSE /\ unwritten' = TRUE
  /\ UNCHANGED <<quote, guard, lastTick, gap, mode, eaten, whole, turns>>

\* The process is started again: loadActiveBots loads what the row calls running, with a
\* price before none, or pauses what it cannot load.
StopRestart ==
  /\ Misses
  /\ mode = "running"
  /\ phase' = "idle" /\ lastTick' = -1 /\ whole' = -1 /\ gap' = FALSE /\ eaten' = FALSE
  /\ mode' \in {"running", "paused"} /\ instance' = (mode' = "running")
  /\ unwritten' = FALSE
  /\ UNCHANGED <<quote, guard, turns>>

\* What the bot does by itself.
TickGoesOn ==
  \/ StopTick \/ Errs \/ ReadsMarket \/ WorksOn \/ UpdatesPnl \/ PnlUnread
  \/ StopCloses \/ StopPauses \/ RouteFails \/ RowUnwritten

StopNext == PriceTurns \/ TickGoesOn \/ StopRestart

\* Ticks come and go on; only so many of them fail.
StopFairness == WF_stopVars(TickGoesOn)

StopSpec == StopInit /\ [][StopNext]_stopVars /\ StopFairness

-----------------------------------------------------------------------------
\* A bot that goes on losing more than its stop-loss does not go on running, whatever
\* ticks, reads and cancels fail on the way (updatePnL, grid-engine.ts:5232: swallowing its
\* error "would silently disable stop-loss"); unless the one write failed that pauseBot
\* sends after it dropped the instance: then its row says running and, until the process is
\* started again, no tick looks at it.
StopLossActs == []<>(~Losing \/ mode # "running" \/ unwritten)

\* A stop-loss closes at once by MARKET when the price of its tick is a gap away
\* from the tick before, unless that one failed after it had taken the price for
\* the next gap (monitor, grid-engine.ts:4361; monitorAllBots, 1979).
GapGoesToMarket ==
  phase = "stop" /\ ~eaten /\ Apart(whole, lastTick) => gap
=============================================================================
