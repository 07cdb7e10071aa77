------------------------------- MODULE Advice -------------------------------
(***************************************************************************)
(* runAdvisor: of the grids that can be derived for a pair, those that     *)
(* stood the past best.  The history is judged as a whole (trend or range),*)
(* then each candidate is run through parts of it (Backtest), and what it  *)
(* made of the worst part ranks it.                                        *)
(*                                                                         *)
(* What deriveAtrSpacing and runBacktest return is an input here.          *)
(***************************************************************************)
EXTENDS Integers, FiniteSets, Sequences, SequencesExt, FiniteSetsExt

CONSTANTS
  Histories,   \* sequences of closes, oldest first
  Parts,       \* sub-windows asked for
  MinCandles,  \* MIN_WINDOW_CANDLES
  TopN,        \* recommendations returned
  Spans,       \* ranges the user may ask for, <<lower, upper>>; or NoSpan
  RecentRange,      \* the range of the recent low and high
  Multipliers, \* indices of kMultipliers
  GridCounts,  \* what deriveAtrSpacing may return; 0: null
  MostGrids,   \* the grids the investment is enough for
  Returns      \* net return and drawdown of a window in percent

ASSUME AdviceAssumption ==
  /\ Parts \in Nat \ {0} /\ MinCandles \in Nat \ {0, 1} /\ TopN \in Nat \ {0}
  /\ Multipliers \in Nat /\ GridCounts \subseteq Nat /\ MostGrids \in Nat
  /\ Histories \subseteq Seq(Nat \ {0}) /\ \A r \in Returns : r.ret \in Int /\ r.fall \in Nat

VARIABLES
  request,    \* candles, direction, range
  candidates, \* <<range, num_grids>> in the order they were generated
  outcome,    \* per candidate its result in each window
  answer      \* the recommendation, or what is missing

adviceVars == <<request, candidates, outcome, answer>>

\* f[1] + ... + f[n].
Sum(f, n) == LET upTo[k \in 0..n] == IF k = 0 THEN 0 ELSE upTo[k - 1] + f[k] IN upTo[n]
Magnitude(x) == IF x < 0 THEN -x ELSE x
NoSpan == <<0, 0>>
NoAnswer == [kind |-> "none"]

-----------------------------------------------------------------------------
(* regime.ts *)

Path(h) ==
  LET n == Len(h) - 1 IN Sum([k \in 1..n |-> Magnitude(h[k + 1] - h[k])], n)

\* The efficiency ratio is one half at least; a flat history has none.
Efficient(h) == Path(h) > 0 /\ 2 * Magnitude(h[Len(h)] - h[1]) >= Path(h)

\* The least-squares slope of the closes, times what makes it whole, and the divisor.
SlopeTop(h) ==
  LET n == Len(h) IN n * Sum([k \in 1..n |-> (k - 1) * h[k]], n)
                     - Sum([k \in 1..n |-> k - 1], n) * Sum(h, n)
SlopeBottom(h) ==
  LET n == Len(h) s == Sum([k \in 1..n |-> k - 1], n)
  IN  n * Sum([k \in 1..n |-> (k - 1) * (k - 1)], n) - s * s

\* The fitted line rises or falls by 5% of the mean at least.
Steep(h) ==
  LET n == Len(h) IN 100 * Magnitude(SlopeTop(h)) * (n - 1) * n >= 5 * SlopeBottom(h) * Sum(h, n)

Regime(h) ==
  IF Efficient(h) /\ Steep(h) THEN IF SlopeTop(h) > 0 THEN "trend_up" ELSE "trend_down"
  ELSE "range"

GridVerdict(state, dir) ==
  IF state = "range" THEN "recommend"
  ELSE IF state = (IF dir = "long" THEN "trend_down" ELSE "trend_up") THEN "no_go" ELSE "caution"

-----------------------------------------------------------------------------
(* robustness.ts: of the same number of windows the sum orders as the mean, the *)
(* number of gains as the win rate. *)

Rets(w) == {w[k].ret : k \in DOMAIN w}
Stats(w) == [sum |-> Sum([k \in DOMAIN w |-> w[k].ret], Len(w)), worst |-> Min(Rets(w)),
             wins |-> Cardinality({k \in DOMAIN w : w[k].ret > 0}), windows |-> Len(w),
             fall |-> Max({w[k].fall : k \in DOMAIN w})]

Better(a, b) ==
  IF (a.sum > 0) # (b.sum > 0) THEN a.sum > 0
  ELSE IF a.worst # b.worst THEN a.worst > b.worst
  ELSE IF a.wins # b.wins THEN a.wins > b.wins ELSE a.sum > b.sum

Confidence(s) ==
  IF 4 * s.wins >= 3 * s.windows /\ s.worst > -10 THEN "high"
  ELSE IF 2 * s.wins >= s.windows /\ s.worst > -25 THEN "med" ELSE "low"

-----------------------------------------------------------------------------
(* advisor.ts *)

\* Consecutive parts of equal length, the rest in the last; one when they would be
\* too short.
Split(n) ==
  LET size == n \div Parts
      Part(i) == [from |-> i * size + 1, to |-> IF i = Parts - 1 THEN n ELSE (i + 1) * size]
  IN  IF size >= MinCandles THEN [i \in 1..Parts |-> Part(i - 1)]
      ELSE IF n >= MinCandles THEN << [from |-> 1, to |-> n] >> ELSE << >>

Severity(v) == CASE v = "recommend" -> 0 [] v = "caution" -> 1 [] v = "no_go" -> 2

RobustnessVerdict(ranked) ==
  IF ranked = << >> THEN "caution"
  ELSE LET s == ranked[1].stats IN
       IF s.sum <= 0 \/ s.wins = 0 THEN "no_go"
       ELSE IF 2 * s.wins < s.windows \/ s.worst <= -20 \/ Confidence(s) = "low" THEN "caution"
       ELSE "recommend"

Reason(gate, evidence) ==
  IF gate = "no_go" THEN "regime_against"
  ELSE IF Severity(evidence) >= Severity(gate) /\ evidence # "recommend" THEN "weak_backtest"
  ELSE IF gate = "caution" THEN "regime_with_trend" ELSE "favorable"

AdviceTypeOK ==
  /\ request.history \in Histories /\ request.dir \in {"long", "short"}
  /\ \A k \in DOMAIN candidates : candidates[k].grids \in Nat
  /\ DOMAIN outcome \subseteq DOMAIN candidates
  /\ answer.kind \in {"none", "insufficient_data", "generated", "advice"}

\* A request that passes the checks of POST /bots/advisor.
AdviceInit ==
  /\ request \in [history : Histories, dir : {"long", "short"}, range : Spans \cup {NoSpan}]
  /\ candidates = << >> /\ outcome = << >>
  /\ answer = NoAnswer

\* Too little history: the request ends here.
Declines ==
  /\ answer = NoAnswer /\ Len(request.history) < MinCandles
  /\ answer' = [kind |-> "insufficient_data"]
  /\ UNCHANGED <<request, candidates, outcome>>

\* A range with the grids derived for one multiplier, as many as the money allows;
\* what was there already is not added again.
Added(list, r, g) ==
  LET grids == IF g < MostGrids THEN g ELSE MostGrids
      c == [range |-> r, grids |-> grids]
  IN  IF g = 0 \/ grids < 2 \/ c \in ToSet(list) THEN list ELSE Append(list, c)

\* runAdvisor: the user's range when he has one, and the recent one.
Proposed ==
  LET r == request.range IN (IF r[1] < r[2] THEN << r >> ELSE << >>) \o << RecentRange >>

\* list[n]: after n tries, those of the first range first.
Generates ==
  /\ answer = NoAnswer /\ Len(request.history) >= MinCandles
  /\ \E derived \in [(1..Len(Proposed)) \X (1..Multipliers) -> GridCounts] :
       LET tries == Len(Proposed) * Multipliers
           list[n \in 0..tries] ==
             IF n = 0 THEN << >>
             ELSE LET i == ((n - 1) \div Multipliers) + 1
                      k == ((n - 1) % Multipliers) + 1
                  IN  Added(list[n - 1], Proposed[i], derived[<<i, k>>])
       IN  candidates' = list[tries]
  /\ answer' = [kind |-> "generated",
                gate |-> GridVerdict(Regime(request.history), request.dir)]
  /\ UNCHANGED <<request, outcome>>

\* The best first; of equals the one that was generated first.
Ahead(stats, i, j) ==
  Better(stats[i], stats[j]) \/ (~Better(stats[j], stats[i]) /\ i < j)

Ranking(stats) ==
  [k \in DOMAIN stats |->
    CHOOSE i \in DOMAIN stats : Cardinality({j \in DOMAIN stats : Ahead(stats, j, i)}) = k - 1]

\* The worse of the two.
Verdict(gate, evidence) == IF Severity(evidence) > Severity(gate) THEN evidence ELSE gate

\* aggregateWindows of what the windows of a history may return.
Results(n) == {Stats(w) : w \in [DOMAIN Split(n) -> Returns]}

Scores ==
  /\ answer.kind = "generated"
  /\ \E stats \in [DOMAIN candidates -> Results(Len(request.history))] :
       LET order == Ranking(stats)
           ranked == [k \in DOMAIN order |-> [of |-> order[k], stats |-> stats[order[k]]]]
           gate == answer.gate
           evidence == RobustnessVerdict(ranked)
       IN  /\ outcome' = stats
           /\ answer' = [kind |-> "advice", verdict |-> Verdict(gate, evidence),
                         reason |-> Reason(gate, evidence),
                         top |-> SubSeq(ranked, 1, Min({TopN, Len(ranked)}))]
  /\ UNCHANGED <<request, candidates>>

AdviceNext == Declines \/ Generates \/ Scores

AdviceSpec == AdviceInit /\ [][AdviceNext]_adviceVars

-----------------------------------------------------------------------------
\* A grid is recommended only when the best of the candidates earned something in
\* the mean and in half of the windows at least, lost less than a fifth in the worst,
\* and the market does not trend against it; and the reason given is the verdict's
\* (advisor.ts:77-88, 209-221).
GreenIsEarned ==
  answer.kind = "advice" =>
    /\ answer.verdict = "recommend" =>
         /\ answer.top # << >>
         /\ LET s == answer.top[1].stats IN s.sum > 0 /\ 2 * s.wins >= s.windows /\ s.worst > -20
         /\ Regime(request.history) = "range"
    /\ (answer.verdict = "recommend") = (answer.reason = "favorable")
    /\ answer.reason = "regime_against" => answer.verdict = "no_go"

\* No candidate that was left out or placed behind would have been the better choice:
\* none that earned where the first lost, none that lost less in its worst window
\* among those that earned (robustness.ts:57-76).
BestIsFirst ==
  answer.kind = "advice" /\ answer.top # << >> =>
    \A i \in DOMAIN outcome :
      LET s == outcome[i] best == answer.top[1].stats IN
        s.sum > 0 => best.sum > 0 /\ best.worst >= s.worst

\* What is recommended can be created, and once: two grids at least, no more than the
\* money is enough for, no candidate twice; the windows it was tried in are the whole
\* history and do not overlap (advisor.ts:92-102, 151-178).
CandidatesAreSound ==
  /\ \A i \in DOMAIN candidates : candidates[i].grids \in 2..MostGrids
  /\ \A i, j \in DOMAIN candidates : candidates[i] = candidates[j] => i = j
  /\ LET n == Len(request.history) IN
       n >= MinCandles =>
         \A k \in 1..n : Cardinality({w \in DOMAIN Split(n) :
           Split(n)[w].from <= k /\ k <= Split(n)[w].to}) = 1

=============================================================================
