------------------------------- MODULE Profit -------------------------------
(***************************************************************************)
(* The grid profit of one bot.  pollFillArchive archives the fills, the    *)
(* newest of an answer first; about once a minute calculateRealGridProfit  *)
(* walks the archive from the oldest fill and pairs each sell with the     *)
(* unmatched buy that is closest below it, within a window scaled to the   *)
(* spacing of the grid.  The pairs are added to paired_roundtrips, whose   *)
(* sum is the grid profit: what is shown, compounded and snapshotted.      *)
(*                                                                         *)
(* All fills have one size; prices count the smallest spacing.             *)
(***************************************************************************)
EXTENDS Integers, Sequences, FiniteSets

CONSTANTS
  Prices,     \* prices of the levels
  Spacings,   \* grid spacings the bot can be moved to
  MaxFills,   \* bound on the fills
  MaxMoves    \* bound on the changes of the range

ASSUME ProfitAssumption ==
  /\ Prices \subseteq Nat
  /\ Spacings \subseteq Nat \ {0}
  /\ MaxFills \in Nat /\ MaxMoves \in Nat

VARIABLES
  made,      \* the fills, in the order of their event_time
  inserted,  \* fills_archive: the indices of the fills archived
  page,      \* fills of a poll still to be archived
  booked,    \* paired_roundtrips: <<buy, sell>>
  spacing,   \* of the bot's range
  moves,     \* changes of the range so far
  \* history
  lastWalk,    \* what was archived at the last walk
  late       \* a fill was archived after a walk that had a younger one

profitVars == <<made, inserted, page, booked, spacing, moves, lastWalk, late>>

FillTimes == 1..MaxFills

ProfitTypeOK ==
  /\ made \in Seq([buy : BOOLEAN, price : Prices]) /\ Len(made) <= MaxFills
  /\ inserted \subseteq DOMAIN made
  /\ page \subseteq DOMAIN made
  /\ booked \subseteq inserted \X inserted
  /\ spacing \in Spacings
  /\ moves \in 0..MaxMoves
  /\ lastWalk \subseteq inserted
  /\ late \in BOOLEAN

ProfitInit ==
  /\ made = << >>
  /\ inserted = {} /\ page = {} /\ booked = {} /\ lastWalk = {}
  /\ spacing \in Spacings
  /\ moves = 0
  /\ late = FALSE

\* The window: more than half a spacing and less than three.
Spread(b, s) == made[s].price - made[b].price
InWindow(b, s, w) == 2 * Spread(b, s) > w /\ Spread(b, s) < 3 * w

\* The closest buy below; of two at one price the older.
Best(s, buys, w) ==
  {b \in buys : /\ InWindow(b, s, w)
                /\ \A o \in buys : InWindow(o, s, w) =>
                     \/ Spread(b, s) < Spread(o, s)
                     \/ Spread(b, s) = Spread(o, s) /\ b <= o}

\* calculateRealGridProfit over the fills in arch: what is pending and paired
\* after the fill at each time.
Walk(arch, w) ==
  LET walk[t \in 0..MaxFills] ==
        IF t = 0 THEN [pending |-> {}, paired |-> {}]
        ELSE LET before == walk[t - 1] IN
             IF t \notin arch THEN before
             ELSE IF made[t].buy
               THEN [before EXCEPT !.pending = before.pending \cup {t}]
             ELSE LET best == Best(t, before.pending, w) IN
                  [pending |-> before.pending \ best,
                   paired |-> before.paired \cup (best \X {t})]
  IN walk[MaxFills].paired

\* A level of the grid executes.
Fills(buy, p) ==
  /\ Len(made) < MaxFills
  /\ p % spacing = 0
  /\ made' = Append(made, [buy |-> buy, price |-> p])
  /\ UNCHANGED <<inserted, page, booked, spacing, moves, lastWalk, late>>

\* pollFillArchive: GRVT's answer, of which the archive ignores what it has.
PollsFills ==
  /\ page = {}
  /\ page' = DOMAIN made \ inserted
  /\ page' # {}
  /\ UNCHANGED <<made, inserted, booked, spacing, moves, lastWalk, late>>

\* insertFillArchive, in the order of the answer.
ArchivesFill ==
  \E t \in page :
    /\ \A u \in page : u <= t
    /\ page' = page \ {t}
    /\ inserted' = inserted \cup {t}
    /\ late' = (late \/ \E u \in lastWalk : u > t)
    /\ UNCHANGED <<made, booked, spacing, moves, lastWalk>>

\* updatePnL, every twelfth tick; insertPairedRoundtrip ignores a pair it has.
Recomputes ==
  /\ booked' = booked \cup Walk(inserted, spacing)
  /\ lastWalk' = inserted
  /\ UNCHANGED <<made, inserted, page, spacing, moves, late>>

\* A range update gives the bot another spacing.
MovesRange(w) ==
  /\ w # spacing
  /\ moves < MaxMoves
  /\ moves' = moves + 1
  /\ spacing' = w
  /\ UNCHANGED <<made, inserted, page, booked, lastWalk, late>>

ProfitNext ==
  \/ \E buy \in BOOLEAN, p \in Prices : Fills(buy, p)
  \/ PollsFills \/ ArchivesFill \/ Recomputes
  \/ \E w \in Spacings : MovesRange(w)

ProfitSpec == ProfitInit /\ [][ProfitNext]_profitVars

-----------------------------------------------------------------------------
\* While no walk falls between the fills of one answer, or before one that comes
\* later than a younger one, and the range stays, later fills never make
\* calculateRealGridProfit revise a pair it has already stored: the stored pairs
\* are those of a walk over the archive as it is now.
NoPairIsRevised == ~late /\ moves = 0 => booked \subseteq Walk(inserted, spacing)
=============================================================================
