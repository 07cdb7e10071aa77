---------------------------- MODULE VirtualWindow ----------------------------
(***************************************************************************)
(* A running bot with virtual levels, tick by tick: of its levels only the *)
(* Window closest to the market carry orders.  A tick reads the open       *)
(* orders and the price, brings the rows up to date and leaves the closest *)
(* uncovered level empty, places the others again or takes them for        *)
(* filled, slides the window, kills the surplus and answers the fills.     *)
(* The market moves where the tick awaits GRVT.  A call that places an     *)
(* order may fail with the order placed, and one that meets the brake on   *)
(* the margin ends the tick and pauses the bot.  Price bands, the limit of *)
(* orders and what they leave pending are in GridMonitor.                  *)
(*                                                                         *)
(* Level l lies at 2 * l, the market between two levels, at 2 * below + 1; *)
(* an order is a buy below the market and a sell above it, and is filled   *)
(* as a whole when the market crosses its level.                           *)
(***************************************************************************)
EXTENDS Integers, FiniteSets, Sequences

CONSTANTS
  N,            \* levels 1..N
  Window,       \* active_window_size
  MaxOps,       \* MAX_OPS_PER_TICK
  MaxCrossings, \* bound: how often the market crosses a level
  MaxFailings   \* bound: calls that fail, restarts

ASSUME WindowAssumption ==
  /\ N \in Nat \ {0} /\ Window \in Nat \ {0} /\ MaxOps \in Nat \ {0}
  /\ MaxCrossings \in Nat /\ MaxFailings \in Nat

VARIABLES
  below,      \* the levels 1..below lie below the price
  book,       \* live orders at each level
  ladder,     \* grid_levels: state, order_id, is_filled
  lately,     \* fills of the last 90 s: per level the side, or "no"
  handled,    \* processedFills: levels whose last fill has been taken
  placed,     \* recentlyPlaced: levels placed in the last 10 s
  tick,       \* the locals of monitor; ghosts: began, the orders that were open when
              \* it began, and extra, those placed again, those answering a fill and
              \* the cancels that took none away
  crossings,  \* moves of the market so far
  failings,   \* failures so far
  calm        \* ghost: whole ticks since the market moved or something failed

windowVars == <<below, book, ladder, lately, handled, placed, tick, crossings, failings, calm>>

Lines == 1..N
Sides == {"buy", "sell"}

SideOf(l, m) == IF l <= m THEN "buy" ELSE "sell"

\* The p-th place from the price: below it, above it, and so on outwards.
Place(p, m) == IF p % 2 = 1 THEN m - p \div 2 ELSE m + p \div 2

\* The levels of S, the closest to the price first; of two the lower.
ByDistance(S, m) ==
  LET walk[p \in 0..2 * N] ==
        IF p = 0 THEN << >>
        ELSE IF Place(p, m) \in S THEN Append(walk[p - 1], Place(p, m)) ELSE walk[p - 1]
  IN walk[2 * N]

First(s, n) == {s[k] : k \in 1..(IF n < Len(s) THEN n ELSE Len(s))}

\* The locals of monitor that later steps do not read are forgotten.
Idle == [at |-> "idle", calm |-> FALSE]

\* A paused bot has no instance and no tick.
Halted == [at |-> "paused", calm |-> FALSE]

\* The orders of book b.
Open(b) == LET upTo[l \in 0..N] == IF l = 0 THEN 0 ELSE upTo[l - 1] + b[l] IN upTo[N]

\* The Window closest levels that are not filled should have orders.
Near(rs, m) == First(ByDistance({l \in Lines : rs[l].state # "filled"}, m), Window)

WindowTypeOK ==
  /\ below \in 0..N
  /\ book \in [Lines -> Nat]
  /\ ladder \in [Lines -> [state : {"active", "virtual", "filled"},
                        id : {"none", "0x00", "real"}, filled : BOOLEAN]]
  /\ lately \in [Lines -> Sides \cup {"no"}]
  /\ handled \subseteq Lines /\ placed \subseteq Lines
  /\ tick.at \in {"idle", "paused", "looked", "placing", "rotating", "killing", "answering"}
  /\ crossings \in 0..MaxCrossings /\ failings \in 0..MaxFailings
  /\ calm \in 0..N

\* A bot started in the middle: the window has its orders, the closest level is
\* left out.
WindowInit ==
  /\ below = N \div 2
  /\ LET near == ByDistance(Lines, below)
         act == First(near, Window)
     IN  /\ ladder = [l \in Lines |->
                     IF l = near[1] THEN [state |-> "filled", id |-> "none", filled |-> TRUE]
                     ELSE IF l \in act THEN [state |-> "active", id |-> "0x00", filled |-> FALSE]
                     ELSE [state |-> "virtual", id |-> "none", filled |-> FALSE]]
         /\ book = [l \in Lines |-> IF l \in act \ {near[1]} THEN 1 ELSE 0]
  /\ lately = [l \in Lines |-> "no"]
  /\ handled = {} /\ placed = {}
  /\ tick = Idle
  /\ crossings = 0 /\ failings = 0 /\ calm = 0

-----------------------------------------------------------------------------
(* What goes on beside the tick *)

\* The price crosses level l and fills the orders there.
Crosses(l, m) ==
  /\ crossings < MaxCrossings
  /\ crossings' = crossings + 1
  /\ below' = m
  /\ book' = [book EXCEPT ![l] = 0]
  /\ IF book[l] > 0 THEN /\ lately' = [lately EXCEPT ![l] = SideOf(l, below)]
                         /\ handled' = handled \ {l}
     ELSE UNCHANGED <<lately, handled>>
  /\ calm' = 0
  /\ tick' = IF tick.at = "idle" THEN tick ELSE [tick EXCEPT !.calm = FALSE]
  /\ UNCHANGED <<ladder, placed, failings>>

MarketCrosses ==
  \/ below > 0 /\ Crosses(below, below - 1)
  \/ below < N /\ Crosses(below + 1, below + 1)

\* Ten seconds, or ninety, pass between two ticks.
TimePasses ==
  /\ tick.at \in {"idle", "paused"}
  /\ placed # {} \/ \E l \in Lines : lately[l] # "no"
  /\ placed' = {}
  /\ lately' \in {lately, [l \in Lines |-> "no"]}
  /\ UNCHANGED <<below, book, ladder, handled, tick, crossings, failings, calm>>

\* A call fails.
CallFails == failings < MaxFailings /\ failings' = failings + 1 /\ calm' = 0

\* The process dies and resumes the bot, or a paused one is resumed: levels that
\* should have an order and have none become virtual.
Resumes ==
  /\ \/ CallFails
     \/ tick.at = "paused" /\ UNCHANGED <<failings, calm>>
  /\ ladder' = [l \in Lines |->
               IF ladder[l].state = "active" /\ book[l] = 0 /\ ~ladder[l].filled
                 THEN [ladder[l] EXCEPT !.state = "virtual", !.id = "none"] ELSE ladder[l]]
  /\ handled' = {} /\ placed' = {}
  /\ tick' = Idle
  /\ UNCHANGED <<below, book, lately, crossings>>

-----------------------------------------------------------------------------
(* The tick *)

\* placeGridOrder: the order rests, or it is post-only and the market has crossed
\* its level meanwhile, and GRVT refuses it.
Accepted(l) == SideOf(l, below) = SideOf(l, tick.price)

\* The margin does not bear the order, by the engine's reckoning or by GRVT's: the
\* tick ends there and the bot is paused and its orders are cancelled, unless the
\* pause fails.
MarginBrakes ==
  /\ CallFails
  /\ \/ /\ tick' = Halted /\ book' = [l \in Lines |-> 0]
     \/ /\ tick' = Idle /\ UNCHANGED book

Looks ==
  /\ tick.at = "idle"
  /\ tick' = [at |-> "looked", seen |-> book, began |-> Open(book), extra |-> 0,
              calm |-> placed = {} /\ \A l \in Lines : lately[l] = "no"]
  /\ UNCHANGED <<below, book, ladder, lately, handled, placed, crossings, failings, calm>>

\* A level with an order is active and gets its id; of the others the closest is
\* marked as the gap.
Synced(l) ==
  IF ladder[l].state # "virtual" /\ tick.seen[l] > 0
    THEN [state |-> "active", id |-> "real", filled |-> FALSE] ELSE ladder[l]

Uncovered == {l \in Lines : ladder[l].state # "virtual" /\ tick.seen[l] = 0}

Reconciles ==
  /\ tick.at = "looked"
  /\ LET unc == ByDistance(Uncovered, below) IN
       /\ ladder' = [l \in Lines |->
                    IF unc # << >> /\ l = unc[1] THEN [ladder[l] EXCEPT !.filled = TRUE, !.id = "none"]
                    ELSE Synced(l)]
       /\ tick' = [at |-> "placing", seen |-> tick.seen, calm |-> tick.calm, price |-> below,
                   rows |-> ladder, new |-> {}, filled |-> << >>,
                   began |-> tick.began, extra |-> 0,
                   todo |-> IF unc = << >> THEN << >> ELSE Tail(unc)]
  /\ UNCHANGED <<below, book, lately, handled, placed, crossings, failings, calm>>

\* The next uncovered level: filled lately, placed lately, or to be placed.
Answered ==
  LET l == Head(tick.todo) IN
  /\ tick.at = "placing" /\ tick.todo # << >> /\ lately[l] # "no"
  /\ tick' = [tick EXCEPT !.todo = Tail(@),
                          !.filled = IF l \in handled THEN @ ELSE Append(@, <<l, lately[l]>>)]
  /\ handled' = handled \cup {l}
  /\ UNCHANGED <<below, book, ladder, lately, placed, crossings, failings, calm>>

Waits ==
  LET l == Head(tick.todo) IN
  /\ tick.at = "placing" /\ tick.todo # << >> /\ lately[l] = "no" /\ l \in placed
  /\ tick' = [tick EXCEPT !.todo = Tail(@)]
  /\ UNCHANGED <<below, book, ladder, lately, handled, placed, crossings, failings, calm>>

RePlaces ==
  LET l == Head(tick.todo) IN
  /\ tick.at = "placing" /\ tick.todo # << >> /\ lately[l] = "no" /\ l \notin placed
  /\ ladder' = [ladder EXCEPT ![l].id = "0x00", ![l].filled = FALSE]
  /\ placed' = placed \cup {l}
  /\ \/ /\ Accepted(l) /\ book' = [book EXCEPT ![l] = @ + 1]
        /\ \E ok \in BOOLEAN :
             /\ IF ok THEN UNCHANGED <<failings, calm>> ELSE CallFails
             /\ tick' = [tick EXCEPT !.todo = Tail(@), !.new = @ \cup {l}, !.extra = @ + 1,
                                     !.calm = IF ok THEN @ ELSE FALSE]
     \/ /\ IF Accepted(l) THEN CallFails ELSE UNCHANGED <<failings, calm>>
        /\ tick' = [tick EXCEPT !.todo = Tail(@), !.calm = FALSE]
        /\ UNCHANGED book
     \/ MarginBrakes
  /\ UNCHANGED <<below, lately, handled, crossings>>

\* rotateVirtualWindow reads the levels again: the farther ones with an order are
\* to lose it, the closer ones without to get one.
RotationBegins ==
  /\ tick.at = "placing" /\ tick.todo = << >>
  /\ LET want == Near(ladder, tick.price)
         rest == {l \in Lines : ladder[l].state # "filled"}
     IN  tick' = [at |-> "rotating", seen |-> tick.seen, calm |-> tick.calm, price |-> tick.price,
                  rows |-> tick.rows, new |-> tick.new, filled |-> tick.filled,
                  began |-> tick.began, extra |-> tick.extra,
                  cut |-> {}, cuts |-> MaxOps, adds |-> MaxOps,
                  virtualize |-> ByDistance({l \in rest \ want :
                                              ladder[l].state = "active" /\ ladder[l].id = "real"},
                                            tick.price),
                  activate |-> ByDistance({l \in want : ladder[l].state = "virtual"}, tick.price)]
  /\ UNCHANGED <<below, book, ladder, lately, handled, placed, crossings, failings, calm>>

\* The order is cancelled, or the call fails, which the client swallows.
Virtualizes ==
  LET l == Head(tick.virtualize) IN
  /\ tick.at = "rotating" /\ tick.virtualize # << >> /\ tick.cuts > 0
  /\ ladder' = [ladder EXCEPT ![l].state = "virtual", ![l].id = "none"]
  /\ \/ /\ book' = [book EXCEPT ![l] = IF @ > 0 THEN @ - 1 ELSE 0]
        /\ tick' = [tick EXCEPT !.virtualize = Tail(@), !.cuts = @ - 1, !.cut = @ \cup {l},
                                !.extra = IF book[l] > 0 THEN @ ELSE @ + 1]
        /\ UNCHANGED <<failings, calm>>
     \/ /\ book[l] > 0 /\ CallFails
        /\ tick' = [tick EXCEPT !.virtualize = Tail(@), !.cuts = @ - 1, !.calm = FALSE,
                                !.extra = @ + 1]
        /\ UNCHANGED book
  /\ UNCHANGED <<below, lately, handled, placed, crossings>>

\* The orders seen when the tick began, less those taken away, leave room.
Headroom == Window - (Open(tick.seen) - (MaxOps - tick.cuts)) > MaxOps - tick.adds

MayActivate ==
  /\ tick.at = "rotating" /\ (tick.virtualize = << >> \/ tick.cuts = 0)
  /\ tick.activate # << >> /\ tick.adds > 0 /\ Headroom

\* Whatever the call throws, the level is virtual again, also if its order rests.
Activates ==
  LET l == Head(tick.activate)
      again == [ladder EXCEPT ![l] = [state |-> "virtual", id |-> "none", filled |-> FALSE]]
      done == [tick EXCEPT !.activate = Tail(@), !.adds = @ - 1]
  IN
  /\ MayActivate
  /\ placed' = placed \cup {l}
  /\ \/ /\ Accepted(l)
        /\ book' = [book EXCEPT ![l] = @ + 1]
        /\ \E ok \in BOOLEAN :
             /\ ladder' = IF ok THEN [ladder EXCEPT ![l] = [state |-> "active", id |-> "0x00",
                                                           filled |-> FALSE]]
                          ELSE again
             /\ IF ok THEN UNCHANGED <<failings, calm>> ELSE CallFails
             /\ tick' = [done EXCEPT !.new = @ \cup {l}, !.calm = IF ok THEN @ ELSE FALSE]
     \/ /\ IF Accepted(l) THEN CallFails ELSE UNCHANGED <<failings, calm>>
        /\ ladder' = again
        /\ tick' = [done EXCEPT !.calm = FALSE]
        /\ UNCHANGED book
     \/ ladder' = again /\ MarginBrakes
  /\ UNCHANGED <<below, lately, handled, crossings>>

RotationEnds ==
  /\ tick.at = "rotating" /\ (tick.virtualize = << >> \/ tick.cuts = 0) /\ ~MayActivate
  /\ tick' = [at |-> "killing", seen |-> tick.seen, calm |-> tick.calm, price |-> tick.price,
              rows |-> tick.rows, new |-> tick.new, filled |-> tick.filled, cut |-> tick.cut,
              began |-> tick.began, extra |-> tick.extra]
  /\ UNCHANGED <<below, book, ladder, lately, handled, placed, crossings, failings, calm>>

\* The levels that should have had an order when the tick began.
Expected == {l \in Lines : ~tick.rows[l].filled /\ tick.rows[l].state # "virtual"}

\* Mutant: the killer looks at the levels where no order is expected only.
LeftOfOrphans(l) ==
  IF l \in Expected THEN book[l] ELSE IF l \in tick.new THEN 1 ELSE 0

\* What the killer leaves of the orders it saw at level l: one, and none where no
\* order is expected.
Left(l) ==
  LET old == book[l] - (IF l \in tick.new THEN 1 ELSE 0)
      one == IF old > 1 /\ l \notin tick.cut THEN 1 ELSE old
  IN  (IF l \in Expected THEN one ELSE 0) + (IF l \in tick.new THEN book[l] - old ELSE 0)

Kills ==
  /\ tick.at = "killing"
  /\ LET many == Open(tick.seen) > Cardinality(Expected)
         hit == {l \in Lines : book[l] > 0 /\ Left(l) # book[l]}
     IN  \/ /\ book' = IF many THEN [l \in Lines |-> IF book[l] > 0 THEN Left(l) ELSE 0] ELSE book
            /\ UNCHANGED <<failings, calm>>
            /\ tick' = [at |-> "answering", calm |-> tick.calm, price |-> tick.price,
                        rows |-> ladder, filled |-> tick.filled,
                        began |-> tick.began, extra |-> tick.extra]
         \/ /\ many /\ hit # {} /\ CallFails
            /\ tick' = [at |-> "answering", calm |-> FALSE, price |-> tick.price,
                        rows |-> ladder, filled |-> tick.filled,
                        began |-> tick.began, extra |-> tick.extra]
            /\ UNCHANGED book
  /\ UNCHANGED <<below, ladder, lately, handled, placed, crossings>>

\* The counter-order goes one level up or down.
Counter(f) == IF f[2] = "buy" THEN f[1] + 1 ELSE f[1] - 1

InsideWindow(c, l) ==
  c \in First(ByDistance({k \in Lines : tick.rows[k].state # "filled" /\ k # l}, tick.price), Window)

\* handleLevelFill: when the call throws neither row is written, also if the order
\* rests.
CountersFill ==
  LET f == Head(tick.filled)
      l == f[1]
      c == Counter(f)
      done == [tick EXCEPT !.filled = Tail(@)]
      gap == [ladder EXCEPT ![l].filled = TRUE, ![l].state = "filled"]
      other == IF f[2] = "buy" THEN "sell" ELSE "buy"
  IN
  /\ tick.at = "answering" /\ tick.filled # << >>
  /\ \/ /\ c \notin Lines
        /\ tick' = done /\ UNCHANGED <<book, ladder, placed, failings, calm>>
     \/ /\ c \in Lines /\ tick.rows[c].id = "real" /\ ~tick.rows[c].filled
        /\ ladder' = [ladder EXCEPT ![l].filled = TRUE]
        /\ tick' = done /\ UNCHANGED <<book, placed, failings, calm>>
     \/ /\ c \in Lines /\ ~(tick.rows[c].id = "real" /\ ~tick.rows[c].filled)
        /\ ~InsideWindow(c, l)
        /\ ladder' = [gap EXCEPT ![c] = [state |-> "virtual", id |-> "none", filled |-> FALSE]]
        /\ tick' = done /\ UNCHANGED <<book, placed, failings, calm>>
     \/ /\ c \in Lines /\ ~(tick.rows[c].id = "real" /\ ~tick.rows[c].filled)
        /\ InsideWindow(c, l)
        /\ placed' = placed \cup {c}
        /\ \/ /\ SideOf(c, below) = other
              /\ book' = [book EXCEPT ![c] = @ + 1]
              /\ \E ok \in BOOLEAN :
                   /\ ladder' = IF ok THEN [gap EXCEPT ![c] = [state |-> "active", id |-> "0x00",
                                                              filled |-> FALSE]]
                                ELSE ladder
                   /\ IF ok THEN UNCHANGED <<failings, calm>> ELSE CallFails
                   /\ tick' = [done EXCEPT !.extra = @ + 1, !.calm = IF ok THEN @ ELSE FALSE]
           \/ /\ IF SideOf(c, below) = other THEN CallFails ELSE UNCHANGED <<failings, calm>>
              /\ tick' = [done EXCEPT !.calm = FALSE]
              /\ UNCHANGED <<book, ladder>>
           \/ MarginBrakes /\ UNCHANGED ladder
  /\ UNCHANGED <<below, lately, handled, crossings>>

\* A read of GRVT fails: the tick ends where it is.
TickFails ==
  /\ tick.at \in {"looked", "placing"} /\ CallFails
  /\ tick' = Idle
  /\ UNCHANGED <<below, book, ladder, lately, handled, placed, crossings>>

TickEnds ==
  /\ tick.at = "answering" /\ tick.filled = << >>
  /\ calm' = IF tick.calm /\ calm < N THEN calm + 1 ELSE calm
  /\ tick' = Idle
  /\ UNCHANGED <<below, book, ladder, lately, handled, placed, crossings, failings>>

WindowNext ==
  \/ MarketCrosses \/ TimePasses \/ Resumes
  \/ Looks \/ Reconciles \/ Answered \/ Waits \/ RePlaces
  \/ RotationBegins \/ Virtualizes \/ Activates \/ RotationEnds
  \/ Kills \/ CountersFill \/ TickFails \/ TickEnds

WindowSpec == WindowInit /\ [][WindowNext]_windowVars

-----------------------------------------------------------------------------
\* After as many quiet ticks as there are levels the window is where it should be,
\* whatever was filled, refused, lost or restarted before: one order at each of its
\* levels, none elsewhere, and one level may be left out (rotateVirtualWindow: "a
\* big price gap converges over several ticks").
Settled ==
  LET want == Near(ladder, below) IN
    /\ \A l \in Lines : book[l] <= 1
    /\ Cardinality({l \in want : book[l] = 0}) <= 1
    /\ Cardinality({l \in Lines \ want : book[l] > 0}) = 0
WindowSettles == calm = N /\ tick.at = "idle" => Settled

\* A tick is on its way.
InTick == tick.at \notin {"idle", "paused"}

Larger(i, j) == IF i < j THEN j ELSE i

\* The rotation adds orders below the window only: in a tick there are never more
\* than the window holds, or than there were when it began, but for those the tick
\* places again, those that answer a fill, and the cancels that take nothing away;
\* an order counts also when the call that placed it threw (grid-engine.ts:4013-4017).
FewAboveWindow ==
  InTick => Open(book) <= Larger(Window, tick.began) + tick.extra

=============================================================================
