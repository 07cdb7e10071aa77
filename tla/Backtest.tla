------------------------------ MODULE Backtest ------------------------------
(***************************************************************************)
(* runBacktest: a grid traded against past candles.  Each candle fills the *)
(* levels it touches, those that are among the closest to the last close,  *)
(* then pays the funding due and marks the position to its close.          *)
(*                                                                         *)
(* A level trades one unit; level i lies at Bottom + i; rates are in       *)
(* percent and money in units of one price unit / 10000.                   *)
(***************************************************************************)
EXTENDS Integers, FiniteSets, Sequences, SequencesExt

CONSTANTS
  NumGrids,     \* num_grids: levels 0..Steps
  Bottom,       \* lower_price
  Resting,      \* activeWindowSize
  Stake,        \* investmentUSDT
  MakerPct, TakerPct, SlipPct,
  FundingPcts,  \* constant rates per epoch to try
  Epoch,        \* candles from one funding to the next
  Candles,      \* [low, high, close]
  MaxCandles

ASSUME BacktestAssumption ==
  /\ NumGrids \in Nat \ {0, 1} /\ Resting \in Nat \ {0} /\ Epoch \in Nat \ {0}
  /\ Stake \in Nat \ {0} /\ MaxCandles \in Nat
  /\ {Bottom, MakerPct, TakerPct, SlipPct} \subseteq Nat /\ FundingPcts \subseteq Int
  /\ \A c \in Candles : /\ {c.low, c.high, c.close} \subseteq Nat
                        /\ c.low <= c.close /\ c.close <= c.high

VARIABLES
  sim,       \* the running totals of the simulation
  walked,      \* candles walked
  setup,     \* the request: direction, funding rate, first price
  prevClose  \* close of the last candle

backtestVars == <<sim, walked, setup, prevClose>>

Ladder == 0..NumGrids
PriceOf(i) == Bottom + i
Cents(x) == 10000 * x

SideIn(i, dir, firstPrice) ==
  IF dir = "long" THEN IF PriceOf(i) < firstPrice THEN "buy" ELSE "sell"
  ELSE IF PriceOf(i) > firstPrice THEN "sell" ELSE "buy"

BacktestTypeOK ==
  /\ walked \in 0..MaxCandles
  /\ setup.dir \in {"long", "short"} /\ setup.rate \in FundingPcts
  /\ sim.filled \subseteq Ladder
  /\ {sim.pos, sim.cost, sim.fees, sim.slip, sim.missed, sim.trips, sim.worst} \subseteq Nat
  /\ {sim.equity, sim.funding, sim.high, sim.gross} \subseteq Int

\* The initial purchase of a long grid backs its sell levels.
Opened(dir, firstPrice) ==
  LET sells == {i \in Ladder : SideIn(i, dir, firstPrice) = "sell"}
      n == IF dir = "long" THEN Cardinality(sells) ELSE 0
      slip == 100 * firstPrice * SlipPct * n
      fee == firstPrice * (100 + SlipPct) * TakerPct * n
  IN  [filled |-> {}, pos |-> n, cost |-> Cents(firstPrice * n), equity |-> Cents(Stake) - slip - fee,
       gross |-> 0, fees |-> fee, slip |-> slip, funding |-> 0, missed |-> 0, trips |-> 0,
       high |-> Cents(Stake), worst |-> 0]

\* A request that passes the checks of POST /backtest.
BacktestInit ==
  \E c, d \in Candles, dir \in {"long", "short"}, r \in FundingPcts :
    /\ setup = [dir |-> dir, rate |-> r, first |-> c.close]
    /\ sim = Opened(dir, c.close)
    /\ prevClose = d.close
    /\ walked = 0

-----------------------------------------------------------------------------
(* One candle *)

Off(i, p) == IF PriceOf(i) < p THEN p - PriceOf(i) ELSE PriceOf(i) - p

\* The levels whose orders rest while the candle lasts: a band around the last
\* close.
Band(s) ==
  LET unfilled == Ladder \ s.filled
      near == SubSeq(SortSeq(SelectSeq([k \in 1..NumGrids + 1 |-> k - 1], LAMBDA i : i \in unfilled),
                             LAMBDA i, j : Off(i, prevClose) < Off(j, prevClose)
                                            \/ (Off(i, prevClose) = Off(j, prevClose) /\ i < j)),
                     1, Resting)
  IN  IF Cardinality(unfilled) <= Resting THEN Ladder
      ELSE {i \in Ladder : \E a, b \in ToSet(near) : a <= i /\ i <= b}

Touched(i, c) ==
  IF SideIn(i, setup.dir, setup.first) = "buy" THEN c.low <= PriceOf(i) ELSE c.high >= PriceOf(i)

BuyFill(i, s) ==
  [s EXCEPT !.filled = (@ \cup {i}) \ {i + 1}, !.pos = @ + 1, !.cost = @ + Cents(PriceOf(i))]

\* The round trip earns the distance to the level below and pays both legs; the
\* average cost of what is left stays, and nothing is sold short.
SellFill(i, s) ==
  LET left == IF s.pos > 1 THEN s.pos - 1 ELSE 0
      fee == 100 * MakerPct * (PriceOf(i) + PriceOf(i - 1))
      closed == [s EXCEPT !.filled = (@ \cup {i}) \ {i - 1}, !.pos = left,
                          !.cost = IF left > 0 THEN (@ \div (left + 1)) * left ELSE 0]
  IN  IF i = 0 THEN closed
      ELSE [closed EXCEPT !.gross = @ + Cents(1), !.trips = @ + 1, !.fees = @ + fee,
                          !.equity = @ + Cents(1) - fee]

AtLevel(i, c, band, s) ==
  IF i \in s.filled \/ ~Touched(i, c) THEN s
  ELSE IF i \notin band THEN [s EXCEPT !.missed = @ + 1]
  ELSE IF SideIn(i, setup.dir, setup.first) = "buy" THEN BuyFill(i, s) ELSE SellFill(i, s)

\* The levels are walked from below; sweep[n] is where the first n leave it.
Traded(c, s) ==
  LET band == Band(s)
      sweep[n \in 0..NumGrids + 1] ==
        IF n = 0 THEN s ELSE AtLevel(n - 1, c, band, sweep[n - 1])
  IN  sweep[NumGrids + 1]

\* At an epoch boundary a long pays the rate on its position, a short is paid.
Funded(c, s) ==
  LET due == (IF setup.dir = "long" THEN 1 ELSE -1) * 100 * s.pos * c.close * setup.rate
  IN  IF walked > 0 /\ walked % Epoch = 0
        THEN [s EXCEPT !.funding = @ + due, !.equity = @ - due] ELSE s

\* The equity with the position at the close, its highest and the worst fall from
\* there in percent.
Marked(c, s) ==
  LET now == s.equity + Cents(s.pos * c.close) - (IF s.pos > 0 THEN s.cost ELSE 0)
      top == IF now > s.high THEN now ELSE s.high
      fall == IF top > 0 THEN (100 * ((top - now) \div 100)) \div (top \div 100) ELSE 0
  IN  [s EXCEPT !.high = top, !.worst = IF fall > @ THEN fall ELSE @]

Candle(c) ==
  /\ walked < MaxCandles
  /\ walked = 0 => c.close = setup.first
  /\ sim' = Marked(c, Funded(c, Traded(c, sim)))
  /\ walked' = walked + 1 /\ prevClose' = c.close
  /\ UNCHANGED setup

BacktestNext == \E c \in Candles : Candle(c)

BacktestSpec == BacktestInit /\ [][BacktestNext]_backtestVars

-----------------------------------------------------------------------------
\* The result and the equity curve tell the same story: what the equity gained is
\* the profit of the round trips less the fees, the funding and the slippage that
\* the result reports, each counted once (backtester.ts:210-213, 319-320).
BooksBalance == sim.equity = Cents(Stake) + sim.gross - sim.fees - sim.funding - sim.slip

=============================================================================
