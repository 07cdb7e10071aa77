------------------------------ MODULE GridPlan ------------------------------
(***************************************************************************)
(* A grid from the wizard to its rows.  POST /bots/validate previews what  *)
(* the user asks for, POST /bots checks it again and the engine computes   *)
(* the levels and writes them.  The number of grids is the user's, or is   *)
(* derived from the average true range of the candles, which are read      *)
(* anew each time; the market moves in between.  Prices are in cents,      *)
(* quantities in thousandths, notionals in their product.                  *)
(***************************************************************************)
EXTENDS Integers, Sequences, FiniteSets

CONSTANTS
  Forms,       \* what a user may ask for
  TrueRanges,  \* true ranges of the candles, oldest first
  LastPrices,  \* prices of the market
  FeeRate,     \* maker fee, per 10000
  MaxDrifts    \* bound on the moves of the market

ASSUME GridPlanAssumption ==
  /\ FeeRate \in Nat /\ MaxDrifts \in Nat /\ LastPrices \subseteq Int
  /\ \A f \in Forms :
       /\ {f.lower, f.capital, f.minSize, f.period, f.least} \subseteq Nat \ {0}
       /\ {f.upper, f.window, f.minNotional, f.most} \subseteq Nat /\ f.grids \in Int
       /\ {f.atr, f.virtual} \subseteq BOOLEAN
  /\ \A s \in TrueRanges : s \in Seq(Nat) /\ \A f \in Forms : f.period <= Len(s)

VARIABLES
  form,       \* the request: range, grids, capital times leverage, the pair's limits
  ranges,     \* the candles GRVT would answer
  lastPrice,  \* the last price
  preview,    \* answer of POST /bots/validate; its spacing is a fraction <<n, d>>
  built,      \* the bot: its grids and quantity
  levels,     \* grid_levels
  drifts      \* moves of the market so far

planVars == <<form, ranges, lastPrice, preview, built, levels, drifts>>

NoPlan == [at |-> "none", grids |-> 0, qty |-> 0]
NoPreview == [at |-> "none", grids |-> 0, qty |-> 0, spacing |-> <<0, 1>>]

Width(f) == f.upper - f.lower
TwiceMid(f) == f.lower + f.upper

-----------------------------------------------------------------------------
(* computeATR, deriveAtrSpacing *)

\* Wilder's average of the true ranges as a fraction <<n, d>>: the mean of the
\* first period, then (atr * (period - 1) + tr) / period.
Wilder(s, period) ==
  LET atr[k \in 0..Len(s)] ==
        IF k = 0 THEN <<0, period>>
        ELSE IF k <= period THEN <<atr[k - 1][1] + s[k], period>>
        ELSE <<atr[k - 1][1] * (period - 1) + s[k] * atr[k - 1][2], atr[k - 1][2] * period>>
  IN  atr[Len(s)]

\* Half up, as Math.round.
Rounded(n, d) == (2 * n + d) \div (2 * d)
Ceiling(n, d) == (n + d - 1) \div d
Higher(a, b) == IF a >= b THEN a ELSE b

\* minProfitableSpacing(mid), in cents of 1/20000: twice the fee, with a margin
\* of one half.
FeeFloor(f) == 3 * TwiceMid(f) * FeeRate

\* Spacings in the same unit: 1/20000 of a cent.
Permille(f, p) == 10 * TwiceMid(f) * p
Wanted(f, s) == LET a == Wilder(s, f.period) IN (12000 * a[1]) \div a[2]

\* clamp(k * ATR, floor, cap) and the grids it makes, at least two.
Spacing(f, s) ==
  LET low == Higher(Permille(f, f.least), FeeFloor(f))
      cap == Higher(Permille(f, f.most), low)
  IN  IF Wanted(f, s) < low THEN low ELSE IF Wanted(f, s) > cap THEN cap ELSE Wanted(f, s)

Derived(f, s) == Higher(2, Rounded(20000 * Width(f), Spacing(f, s)))

Grids(f, s) == IF f.atr THEN Derived(f, s) ELSE f.grids

-----------------------------------------------------------------------------
(* The quantity of a level *)

\* What the capital buys at the middle of the range, three quarters of it used,
\* rounded up to 0.01; never below 0.03.
BaseQty(f, n) == 10 * Higher(Ceiling(15000 * f.capital, n * TwiceMid(f)), 3)

\* ... raised by the pair's step until it is worth minNotional at the price p/d.
Raised(f, q, p, d) ==
  IF q * p >= d * f.minNotional THEN q
  ELSE q + f.minSize * Ceiling(d * f.minNotional - q * p, f.minSize * p)

\* computeQtyPerLevel, for the preview, asks at 0.8 of the middle of the range;
\* calculateGridLevels, for the bot, at its lowest level.  Both round to 0.01.
PreviewQty(f, n) == 10 * Rounded(Raised(f, BaseQty(f, n), 4 * TwiceMid(f), 10), 10)

Qty(f, n) == 10 * Rounded(Raised(f, BaseQty(f, n), f.lower, 1), 10)

-----------------------------------------------------------------------------
(* The routes and the engine *)

MaxGrids(f) == IF f.virtual THEN 500 ELSE 95

\* The orders that a virtual grid may keep on the book.
WindowSizes == 20..80

\* The checks of both routes.
FormOK(f, n) ==
  f.lower < f.upper /\ n \in 2..MaxGrids(f) /\ (f.virtual => f.window \in WindowSizes)

\* validateGridConfig: enough for minNotional on each grid, and no spacing that
\* loses money on every cycle.
ConfigOK(f, n) ==
  /\ FormOK(f, n)
  /\ 100000 * f.capital >= n * f.minNotional
  /\ 20000 * Width(f) >= n * FeeFloor(f)

\* A level's price, rounded to the cent.
PriceAt(f, n, i) == Rounded(n * f.lower + i * Width(f), n)

\* The M levels closest to the middle are active, the earlier one on a tie.
Distance(f, n, i) ==
  LET d == 2 * PriceAt(f, n, i) - TwiceMid(f) IN IF d < 0 THEN -d ELSE d
Closer(f, n, i, j) ==
  \/ Distance(f, n, i) < Distance(f, n, j)
  \/ Distance(f, n, i) = Distance(f, n, j) /\ i < j
Activated(f, n, i) ==
  ~f.virtual \/ Cardinality({j \in 0..n : Closer(f, n, j, i)}) < f.window

Level(f, n, i) ==
  [price |-> PriceAt(f, n, i),
   side |-> IF PriceAt(f, n, i) < lastPrice THEN "buy" ELSE "sell",
   state |-> IF Activated(f, n, i) THEN "active" ELSE "virtual"]

PlanInit ==
  /\ form \in Forms /\ ranges \in TrueRanges /\ lastPrice \in LastPrices
  /\ preview = NoPreview /\ built = NoPlan /\ levels = << >> /\ drifts = 0

\* POST /bots/validate.  The spacing it shows is that of one grid less.
Previews ==
  /\ preview.at = "none"
  /\ LET n == Grids(form, ranges) IN
       preview' = IF FormOK(form, n)
                    THEN [at |-> "ok", grids |-> n, qty |-> PreviewQty(form, n),
                          spacing |-> <<Width(form), n - 1>>]
                    ELSE [NoPreview EXCEPT !.at = "refused"]
  /\ UNCHANGED <<form, ranges, lastPrice, built, levels, drifts>>

\* POST /bots up to createBot, and validateGridConfig.
SubmitsForm ==
  /\ preview.at # "none" /\ built.at = "none"
  /\ LET n == Grids(form, ranges) IN
       built' = IF ConfigOK(form, n) THEN [at |-> "valid", grids |-> n, qty |-> 0]
               ELSE [at |-> "refused", grids |-> n, qty |-> 0]
  /\ UNCHANGED <<form, ranges, lastPrice, preview, levels, drifts>>

\* calculateGridLevels once the ticker is there, the bot and its levels: the
\* price must lie strictly inside the range.
Builds ==
  /\ built.at = "valid"
  /\ IF form.lower < lastPrice /\ lastPrice < form.upper
       THEN /\ built' = [built EXCEPT !.at = "built", !.qty = Qty(form, built.grids)]
            /\ levels' = [k \in 1..built.grids + 1 |-> Level(form, built.grids, k - 1)]
       ELSE built' = [built EXCEPT !.at = "outside"] /\ UNCHANGED levels
  /\ UNCHANGED <<form, ranges, lastPrice, preview, drifts>>

MarketMoves ==
  /\ drifts < MaxDrifts /\ built.at \in {"none", "valid"}
  /\ drifts' = drifts + 1
  /\ \E p \in LastPrices, s \in TrueRanges : lastPrice' = p /\ ranges' = s
  /\ UNCHANGED <<form, preview, built, levels>>

PlanNext == Previews \/ SubmitsForm \/ Builds \/ MarketMoves

PlanSpec == PlanInit /\ [][PlanNext]_planVars

PlanTypeOK ==
  /\ form \in Forms /\ ranges \in TrueRanges /\ lastPrice \in LastPrices
  /\ preview.at \in {"none", "ok", "refused"}
  /\ built.at \in {"none", "valid", "refused", "outside", "built"}
  /\ built.at = "built" => Len(levels) = built.grids + 1
  /\ drifts \in 0..MaxDrifts

-----------------------------------------------------------------------------
\* A bot whose spacing is a cent or more has numGrids + 1 levels, the first and
\* the last on the ends of the range, no two at one price, with the buys below
\* the sells (grid-engine.ts:2143-2163); below a cent the rounding may put two
\* levels on one price.
LevelsAreSound ==
  built.at = "built" =>
    LET n == Len(levels)
        rungs == 1..n - 1 IN
      /\ levels[1].price = form.lower /\ levels[n].price = form.upper
      /\ \A k \in rungs : levels[k].side = "sell" => levels[k + 1].side = "sell"
      /\ Width(form) >= built.grids =>
           \A k \in rungs : levels[k].price < levels[k + 1].price

\* The active levels of a virtual grid are as many as its window, and lie next to
\* each other when no two have one price (grid-engine.ts:1002-1037): of two at one
\* price the first is taken, and it may be the farther one from the others.
WindowIsWhole ==
  built.at = "built" =>
    LET act == {k \in DOMAIN levels : levels[k].state = "active"} IN
      /\ Cardinality(act) = IF form.virtual /\ form.window < Len(levels)
                              THEN form.window ELSE Len(levels)
      /\ Width(form) >= built.grids => \A i, j \in act : \A k \in i..j : k \in act

\* Every level of a bot is worth minNotional, but for what the rounding to 0.01 takes
\* away when the pair's step is below that: less than half of 0.01.  Of the quantity
\* shown and the one traded, for as many grids, the one that is asked for at the lower
\* price is the larger, and they are the same when neither has to be raised
\* (v2-router.ts:2163-2181, grid-engine.ts:112-131, 2117-2131).
QtyIsSound ==
  built.at = "built" =>
    LET base == BaseQty(form, built.grids)
        lost == IF form.minSize % 10 = 0 THEN 0 ELSE 4
    IN
    /\ (built.qty + lost) * form.lower >= form.minNotional
    /\ preview.at = "ok" /\ preview.grids = built.grids =>
         /\ 10 * form.lower <= 4 * TwiceMid(form) => preview.qty <= built.qty
         /\ 10 * form.lower >= 4 * TwiceMid(form) => preview.qty >= built.qty
         /\ /\ base * form.lower >= form.minNotional
            /\ 4 * base * TwiceMid(form) >= 10 * form.minNotional
            => preview.qty = built.qty

\* What the wizard shows is what the bot trades: "the wizard preview EXACTLY matches
\* the qty the bot actually places", its parameters "must EXACTLY mirror
\* grid-engine.ts" (v2-router.ts:2157-2169).
PreviewIsBuilt ==
  built.at = "built" /\ preview.at = "ok" /\ preview.grids = built.grids =>
    /\ preview.qty = built.qty
    /\ preview.spacing[1] * built.grids = Width(form) * preview.spacing[2]

\* A grid derived from the candles is refused for its spacing only because the
\* number of grids is rounded: half a grid fewer would clear the fees
\* (atr.ts:94-105).
DerivedClearsFees ==
  form.atr /\ built.at \in {"valid", "refused", "built"} =>
    built.grids = 2 \/ 40000 * Width(form) >= (2 * built.grids - 1) * FeeFloor(form)

\* Wilder's average lies between the smallest and the largest true range.
AverageIsBetween ==
  LET a == Wilder(ranges, form.period)
      seen == {ranges[k] : k \in DOMAIN ranges}
  IN  /\ \E t \in seen : t * a[2] <= a[1]
      /\ \E t \in seen : t * a[2] >= a[1]

=============================================================================
