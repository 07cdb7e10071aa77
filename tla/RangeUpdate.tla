----------------------------- MODULE RangeUpdate -----------------------------
(***************************************************************************)
(* Moving the range of one running bot (GridEngine.updateBotRange and what *)
(* it calls, packages/bot/src/bot/grid-engine.ts): requests over HTTP and  *)
(* the auto-shift of the engine, the mutex bumpInProgress, the purchase of *)
(* what the new sells need, the replacement of the rows and of the orders, *)
(* beside a monitor tick that looks at the mutex only when it begins, a    *)
(* pause that does not look at it, and a process that may die.             *)
(*                                                                         *)
(* The price stands still and nothing executes but the purchase: fills are *)
(* the matter of GridMonitor.  A range is a value; its levels are 0..Top   *)
(* and those from its gap on are sells.  An order is [at, by]: the level   *)
(* <<range, i>> it stands at and who placed it.                            *)
(***************************************************************************)
EXTENDS Naturals, FiniteSets

CONSTANTS
  Ranges,      \* the ranges a bot can be given
  Top,         \* num_grids: levels 0..Top
  GapOf,       \* the level of each range closest to the price
  Outside,     \* ranges the price has left
  Users,       \* requests over HTTP
  AutoTo,      \* where the auto-shift moves the bot
  MaxBuy,      \* MAX_AUTO_BUY_ETH, in quantities of a level
  SampleSize,  \* orders the plan itself lists, 5 in the code
  ShiftFaults, \* what may fail, see ShiftFaultKinds
  MaxShiftFaults

\* "read":    a position read fails;
\* "buy":     the purchase throws, with or without effect;
\* "cancel":  a cancel leaves its order alive, silently;
\* "place":   a placement throws, with or without effect;
\* "crash":   the process dies and comes back;
\* "pause":   the bot is paused (no fault, but rare).
ShiftFaultKinds == {"read", "buy", "cancel", "place", "crash", "pause"}

Engine == "engine"
Reqs == Users \cup {Engine}
Idx == 0..Top

ASSUME ShiftAssumption ==
  /\ Top \in Nat \ {0}
  /\ GapOf \in [Ranges -> Idx]
  /\ Outside \subseteq Ranges
  /\ AutoTo \in Ranges
  /\ Engine \notin Users
  /\ MaxBuy \in Nat
  /\ SampleSize \in Nat
  /\ ShiftFaults \subseteq ShiftFaultKinds
  /\ MaxShiftFaults \in Nat

VARIABLES
  rng,      \* lower_price and upper_price of the bot's row
  rows,     \* grid_levels: the range they belong to and how often replaced
  has,      \* levels whose row carries an order id
  flat,     \* levels whose row says is_filled
  open,     \* the orders on GRVT
  pos,      \* the position on GRVT
  mutex,    \* bumpInProgress
  live,     \* the engine has an instance of the bot
  rq,       \* the requests, see Request
  tk,       \* the tick, see Tick
  recent,   \* recentlyPlaced: <<generation, level>>
  wants,    \* autoShiftRequested
  shifted,  \* last_auto_shift_at has been written; the hour outlasts the run
  mishaps,  \* faults so far
  marks     \* ghosts, see Marks

storeOf == <<rng, rows, has, flat>>
shiftVars == <<storeOf, open, pos, mutex, live, rq, tk, recent, wants, shifted,
               mishaps, marks>>

Levels2 == Ranges \X Idx
Makers == {"start", "tick1", "tick2"} \cup Reqs
Orders == [at : Levels2, by : Makers]

\* Sells of a range: what the position must cover.
Need(r) == Top + 1 - GapOf[r]

\* The rank of a level by its distance from the price.
Far(r, i) == IF i >= GapOf[r] THEN 2 * (i - GapOf[r]) ELSE 2 * (GapOf[r] - i) - 1

Closest(r, S) == {i \in S : \A j \in S : Far(r, i) <= Far(r, j)}

ReqStates == {"idle", "plan", "decide", "buy", "verify", "cancel", "replace",
              "range", "place", "stamp", "done"}
TickStates == {"idle", "rows", "place", "kill"}

\* to: the new range; base: the old one as first read; seen: the position as
\* read, NoRead when the read failed; todo: orders to cancel; left: levels to
\* place.
NoRead == Top + 1 + Top + 1
Request == [pc : ReqStates, to : Ranges, base : Ranges, seen : Nat,
            todo : SUBSET Orders, left : SUBSET Idx]
Tick == [pc : TickStates, snap : SUBSET Orders, rows : Ranges, gen : Nat,
         todo : SUBSET Idx, keep : SUBSET Idx]

\* stale: somebody bought on a position another request had changed since;
\* torn: the process died between the rows and the range;
\* crossed: a pause met an update or a tick on its way.
Marks == [stale : BOOLEAN, torn : BOOLEAN, crossed : BOOLEAN]

ShiftTypeOK ==
  /\ rng \in Ranges
  /\ rows \in [of : Ranges, gen : Nat]
  /\ has \subseteq Idx
  /\ flat \subseteq Idx
  /\ open \subseteq Orders
  /\ pos \in Nat
  /\ mutex \in BOOLEAN
  /\ live \in BOOLEAN
  /\ rq \in [Reqs -> Request]
  /\ tk \in Tick
  /\ recent \subseteq Nat \X Idx
  /\ wants \in BOOLEAN
  /\ shifted \in BOOLEAN
  /\ mishaps \in 0..MaxShiftFaults
  /\ marks \in Marks

\* Outside of their use the locals hold these.
NoReq(pc) == [pc |-> pc, to |-> AutoTo, base |-> AutoTo, seen |-> 0, todo |-> {}, left |-> {}]
NoTick == [pc |-> "idle", snap |-> {}, rows |-> AutoTo, gen |-> 0, todo |-> {}, keep |-> {}]

\* A bot that has been running for a while: every level but the gap carries an
\* order and the position covers the sells.
ShiftInit ==
  \E r \in Ranges :
    /\ rng = r
    /\ rows = [of |-> r, gen |-> 0]
    /\ has = Idx \ {GapOf[r]}
    /\ flat = {GapOf[r]}
    /\ open = {[at |-> <<r, i>>, by |-> "start"] : i \in Idx \ {GapOf[r]}}
    /\ pos = Need(r) - 1
    /\ mutex = FALSE
    /\ live = TRUE
    /\ rq = [q \in Reqs |-> NoReq("idle")]
    /\ tk = NoTick
    /\ recent = {}
    /\ wants = FALSE
    /\ shifted = FALSE
    /\ mishaps = 0
    /\ marks = [stale |-> FALSE, torn |-> FALSE, crossed |-> FALSE]

Fault(kind) ==
  /\ kind \in ShiftFaults
  /\ mishaps < MaxShiftFaults
  /\ mishaps' = mishaps + 1

Go(q, pc) == rq' = [rq EXCEPT ![q].pc = pc]

\* updateBotRange throws or returns: the mutex goes, and the caller is told.
\* Only the auto-shift has something left to do, and only after a success.
Leaves(q, ok) ==
  /\ mutex' = FALSE
  /\ rq' = [rq EXCEPT ![q] = NoReq(IF q = Engine /\ ok THEN "stamp" ELSE "done")]

-----------------------------------------------------------------------------
(* buildRangeUpdatePlan                                                     *)

Ask(q, r) ==
  /\ rq[q].pc = "idle"
  /\ q \in Users
  /\ rq' = [rq EXCEPT ![q] = [NoReq("plan") EXCEPT !.to = r, !.base = rng]]
  /\ UNCHANGED <<storeOf, open, pos, mutex, live, tk, recent, wants, shifted, mishaps, marks>>

ReadPosition(q) ==
  /\ rq[q].pc = "plan"
  /\ \/ /\ rq' = [rq EXCEPT ![q].pc = "decide", ![q].seen = pos]
        /\ UNCHANGED mishaps
     \/ /\ Fault("read")
        /\ rq' = [rq EXCEPT ![q].pc = "decide", ![q].seen = NoRead]
  /\ UNCHANGED <<storeOf, open, pos, mutex, live, tk, recent, wants, shifted, marks>>

\* The safety violations that do not depend on arithmetic alone.
Deficit(q) == IF Need(rq[q].to) > rq[q].seen THEN Need(rq[q].to) - rq[q].seen ELSE 0

Refused(q) ==
  \/ rq[q].seen = NoRead
  \/ rq[q].to \in Outside
  \/ Deficit(q) > MaxBuy

\* An order the rows know.
Known == {o \in open : o.at \in {<<rows.of, i>> : i \in has}}

\* Mutant: applyRangeUpdatePlan without its mutex guard.
DecideAnyway(q) ==
  /\ rq[q].pc = "decide"
  /\ IF Refused(q) \/ rq[q].to = rq[q].base
       THEN /\ rq' = [rq EXCEPT ![q] = NoReq("done")]
            /\ UNCHANGED mutex
       ELSE /\ mutex' = TRUE
            /\ rq' = [rq EXCEPT
                 ![q].pc = IF Deficit(q) > 0 THEN "buy" ELSE "cancel",
                 ![q].base = AutoTo,
                 ![q].seen = IF Deficit(q) > 0 THEN @ ELSE 0,
                 ![q].todo = IF Cardinality(has) <= SampleSize THEN Known ELSE {},
                 ![q].left = IF Cardinality(has) <= SampleSize THEN {} ELSE Idx]
  /\ UNCHANGED <<storeOf, open, pos, live, tk, recent, wants, shifted, mishaps, marks>>

Decide(q) ==
  /\ rq[q].pc = "decide"
  /\ IF Refused(q) \/ rq[q].to = rq[q].base \/ mutex
       THEN /\ rq' = [rq EXCEPT ![q] = NoReq("done")]
            /\ UNCHANGED mutex
       ELSE /\ mutex' = TRUE
            /\ rq' = [rq EXCEPT
                 ![q].pc = IF Deficit(q) > 0 THEN "buy" ELSE "cancel",
                 ![q].base = AutoTo,
                 ![q].seen = IF Deficit(q) > 0 THEN @ ELSE 0,
                 ![q].todo = IF Cardinality(has) <= SampleSize THEN Known ELSE {},
                 ![q].left = IF Cardinality(has) <= SampleSize THEN {} ELSE Idx]
  /\ UNCHANGED <<storeOf, open, pos, live, tk, recent, wants, shifted, mishaps, marks>>

-----------------------------------------------------------------------------
(* applyRangeUpdatePlan                                                     *)

\* An IOC order buys what it finds; the call may throw all the same.
Buy(q) ==
  /\ rq[q].pc = "buy"
  /\ \E k \in 0..Deficit(q) :
       /\ pos' = pos + k
       /\ marks' = [marks EXCEPT !.stale = @ \/ (k > 0 /\ pos # rq[q].seen)]
  /\ \/ Go(q, "verify") /\ UNCHANGED <<mutex, mishaps>>
     \/ Leaves(q, FALSE) /\ Fault("buy")
  /\ UNCHANGED <<storeOf, open, live, tk, recent, wants, shifted>>

Verify(q) ==
  /\ rq[q].pc = "verify"
  /\ \E after \in {pos, rq[q].seen} :
       /\ IF after = pos THEN UNCHANGED mishaps ELSE Fault("read")
       /\ IF after >= Need(rq[q].to)
            THEN /\ rq' = [rq EXCEPT ![q].pc = "cancel", ![q].seen = 0]
                 /\ UNCHANGED mutex
            ELSE Leaves(q, FALSE)
  /\ UNCHANGED <<storeOf, open, pos, live, tk, recent, wants, shifted, marks>>

\* The orders of the plan's sample, or those of the rows as they are by now.
CancelOld(q) ==
  /\ rq[q].pc = "cancel"
  /\ LET old == IF rq[q].left = {} THEN rq[q].todo ELSE Known
     IN \E kept \in SUBSET (old \cap open) :
          /\ IF kept = {} THEN UNCHANGED mishaps ELSE Cardinality(kept) = 1 /\ Fault("cancel")
          /\ open' = open \ (old \ kept)
  /\ rq' = [rq EXCEPT ![q].pc = "replace", ![q].todo = {}, ![q].left = {}]
  /\ UNCHANGED <<storeOf, pos, mutex, live, tk, recent, wants, shifted, marks>>

Replace(q) ==
  /\ rq[q].pc = "replace"
  /\ rows' = [of |-> rq[q].to, gen |-> rows.gen + 1]
  /\ has' = {}
  /\ flat' = {}
  /\ Go(q, "range")
  /\ UNCHANGED <<rng, open, pos, mutex, live, tk, recent, wants, shifted, mishaps, marks>>

\* Mutant: places the new orders without an instance.
WriteRangeAnyway(q) ==
  /\ rq[q].pc = "range"
  /\ rng' = rq[q].to
  /\ rq' = [rq EXCEPT ![q].pc = "place", ![q].left = Idx \ {GapOf[rq[q].to]}]
  /\ UNCHANGED <<rows, has, flat, open, pos, mutex, live, tk, recent, wants, shifted, mishaps, marks>>

\* The row of the bot; then the instance is looked up, once.
WriteRange(q) ==
  /\ rq[q].pc = "range"
  /\ rng' = rq[q].to
  /\ rq' = [rq EXCEPT ![q].pc = "place",
                      ![q].left = IF live THEN Idx \ {GapOf[rq[q].to]} ELSE {}]
  /\ UNCHANGED <<rows, has, flat, open, pos, mutex, live, tk, recent, wants, shifted, mishaps, marks>>

\* One level, in their order: a failure is logged and the next one follows.
PlaceNew(q) ==
  /\ rq[q].pc = "place"
  /\ \E i \in {j \in rq[q].left : \A k \in rq[q].left : j <= k} :
       LET o == [at |-> <<rq[q].to, i>>, by |-> q]
       IN /\ rq' = [rq EXCEPT ![q].left = @ \ {i}]
          /\ recent' = recent \cup {<<rows.gen, i>>}
          /\ \/ open' = open \cup {o} /\ has' = has \cup {i} /\ UNCHANGED mishaps
             \/ open' \in {open, open \cup {o}} /\ Fault("place") /\ UNCHANGED has
  /\ UNCHANGED <<rng, rows, flat, pos, mutex, live, tk, wants, shifted, marks>>

Return(q) ==
  /\ rq[q].pc = "place"
  /\ rq[q].left = {}
  /\ Leaves(q, TRUE)
  /\ UNCHANGED <<storeOf, open, pos, live, tk, recent, wants, shifted, mishaps, marks>>

-----------------------------------------------------------------------------
(* The auto-shift, at the end of monitorAllBots                             *)

AutoShift ==
  /\ wants
  /\ tk.pc = "idle"
  /\ live
  /\ rq[Engine].pc \in {"idle", "done"}
  /\ wants' = FALSE
  /\ rq' = IF shifted THEN rq
           ELSE [rq EXCEPT ![Engine] = [NoReq("plan") EXCEPT !.base = rng]]
  /\ UNCHANGED <<storeOf, open, pos, mutex, live, tk, recent, shifted, mishaps, marks>>

\* Mutant: the auto-shift leaves its request in a state nobody handles.
StampShifted ==
  /\ rq[Engine].pc = "stamp"
  /\ shifted' = TRUE
  /\ Go(Engine, "shifted")
  /\ UNCHANGED <<storeOf, open, pos, mutex, live, tk, recent, wants, mishaps, marks>>

\* Only now is the hour of the next shift written.
Stamp ==
  /\ rq[Engine].pc = "stamp"
  /\ shifted' = TRUE
  /\ Go(Engine, "done")
  /\ UNCHANGED <<storeOf, open, pos, mutex, live, tk, recent, wants, mishaps, marks>>

-----------------------------------------------------------------------------
(* The monitor                                                              *)

TickBegins ==
  /\ live
  /\ tk.pc = "idle"
  /\ ~mutex
  /\ tk' = [NoTick EXCEPT !.pc = "rows", !.snap = open]
  /\ wants' = (wants \/ rng \in Outside)
  /\ UNCHANGED <<storeOf, open, pos, mutex, live, rq, recent, shifted, mishaps, marks>>

\* The rows are read after the orders, and only now.
ReadRows ==
  /\ tk.pc = "rows"
  /\ LET covered == {i \in Idx : \E o \in tk.snap : o.at = <<rows.of, i>>}
         bare == Idx \ covered
         gap == Closest(rows.of, bare)
     IN /\ has' = (has \cup covered) \ gap
        /\ flat' = (flat \ covered) \cup gap
        /\ tk' = [tk EXCEPT !.pc = "place", !.rows = rows.of, !.gen = rows.gen,
                            !.todo = bare \ gap, !.keep = Idx \ flat]
  /\ UNCHANGED <<rng, rows, open, pos, mutex, live, rq, recent, wants, shifted, mishaps, marks>>

JustPlacedHere(i) == <<tk.gen, i>> \in recent

\* The ids of rows replaced since reach no row any more.
WriteRow(i, S) == IF tk.gen = rows.gen THEN S \cup {i} ELSE S

\* An order of this tick, told apart from those of earlier ones.
Fresh(l) ==
  IF [at |-> l, by |-> "tick1"] \in open \cup tk.snap
    THEN [at |-> l, by |-> "tick2"] ELSE [at |-> l, by |-> "tick1"]

RePlace ==
  /\ tk.pc = "place"
  /\ \E i \in Closest(tk.rows, tk.todo) :
     LET o == Fresh(<<tk.rows, i>>)
     IN /\ tk' = [tk EXCEPT !.todo = @ \ {i}]
        /\ IF JustPlacedHere(i)
             THEN UNCHANGED <<open, has, flat, recent, mishaps>>
             ELSE /\ recent' = recent \cup {<<tk.gen, i>>}
                  /\ flat' = IF tk.gen = rows.gen THEN flat \ {i} ELSE flat
                  /\ \/ open' = open \cup {o} /\ has' = WriteRow(i, has) /\ UNCHANGED mishaps
                     \/ open' \in {open, open \cup {o}} /\ Fault("place") /\ UNCHANGED has
  /\ UNCHANGED <<rng, rows, pos, mutex, live, rq, wants, shifted, marks>>

\* Mutant: duplicates only.
SurplusDuplicates ==
  LET first(l) == CHOOSE o \in tk.snap : o.at = l
  IN IF Cardinality(tk.snap) <= Cardinality(tk.keep) THEN {}
     ELSE {o \in tk.snap : o # first(o.at)}

\* With more orders than levels expected: all but one at each level, and those
\* where no level is.
Surplus ==
  LET expected == {<<tk.rows, i>> : i \in tk.keep}
      first(l) == CHOOSE o \in tk.snap : o.at = l
  IN IF Cardinality(tk.snap) <= Cardinality(tk.keep) THEN {}
     ELSE {o \in tk.snap : o.at \notin expected \/ o # first(o.at)}

Kill ==
  /\ tk.pc = "place"
  /\ tk.todo = {}
  /\ \E kept \in SUBSET (Surplus \cap open) :
       /\ IF kept = {} THEN UNCHANGED mishaps ELSE Cardinality(kept) = 1 /\ Fault("cancel")
       /\ open' = open \ (Surplus \ kept)
  /\ tk' = NoTick
  /\ UNCHANGED <<storeOf, pos, mutex, live, rq, recent, wants, shifted, marks>>

-----------------------------------------------------------------------------
(* The world                                                                *)

Forget ==
  /\ recent # {}
  /\ tk.pc = "idle"
  /\ ~mutex
  /\ recent' = {}
  /\ UNCHANGED <<storeOf, open, pos, mutex, live, rq, tk, wants, shifted, mishaps, marks>>

\* pauseBot: the orders, then the instance; it does not look at the mutex.
Pause ==
  /\ live
  /\ Fault("pause")
  /\ open' = {}
  /\ live' = FALSE
  /\ marks' = [marks EXCEPT !.crossed = @ \/ mutex \/ tk.pc # "idle"]
  /\ UNCHANGED <<storeOf, pos, mutex, rq, tk, recent, wants, shifted>>

Dies ==
  /\ Fault("crash")
  /\ rq' = [q \in Reqs |-> IF rq[q].pc = "idle" THEN rq[q] ELSE NoReq("done")]
  /\ tk' = NoTick
  /\ mutex' = FALSE
  /\ recent' = {}
  /\ wants' = FALSE
  /\ marks' = [marks EXCEPT !.torn = @ \/ rng # rows.of]
  /\ UNCHANGED <<storeOf, open, pos, live, shifted>>

Apply(q) == Buy(q) \/ Verify(q) \/ CancelOld(q) \/ Replace(q) \/ WriteRange(q)
            \/ PlaceNew(q) \/ Return(q)
Update(q) == ReadPosition(q) \/ Decide(q) \/ Apply(q)
TickOn == ReadRows \/ RePlace \/ Kill

ShiftNext ==
  \/ \E q \in Users, r \in Ranges : Ask(q, r)
  \/ \E q \in Reqs : Update(q)
  \/ AutoShift
  \/ Stamp
  \/ TickBegins
  \/ TickOn
  \/ Forget
  \/ Pause
  \/ Dies

ShiftFairness ==
  /\ \A q \in Reqs : WF_shiftVars(Update(q))
  /\ WF_shiftVars(Stamp)
  /\ WF_shiftVars(TickOn)
  /\ SF_shiftVars(TickBegins)
  /\ SF_shiftVars(Forget)

ShiftSpec == ShiftInit /\ [][ShiftNext]_shiftVars /\ ShiftFairness

-----------------------------------------------------------------------------
At(l) == {o \in open : o.at = l}

\* Whenever no update is on its way the range of the bot is the one its levels
\* were made for, unless the process died between the two writes.
RangeMatchesRows == ~mutex /\ ~marks.torn => rng = rows.of

\* A level carries two orders at most, one more for every fault.
FewOrders == \A l \in Levels2 : Cardinality(At(l)) <= 2 + mishaps

\* The purchase never exceeds what the greediest range needs, unless a request
\* bought on a position it read before another one bought.
NoOverbuy == marks.stale \/ \E r \in Ranges : pos <= Need(r)

\* A paused bot has no orders, unless an update or a tick was on its way.
PausedIsQuiet == ~live /\ ~marks.crossed => open = {}

\* "The monitor() loop won't run for this bot until the mutex is released"
\* (grid-engine.ts, applyRangeUpdatePlan): the levels an update makes carry one
\* order each.
OneOrderEach == mishaps = 0 => \A l \in Levels2 : Cardinality(At(l)) <= 1

\* The orders are those of the rows: one at each level but one.
Clean ==
  /\ \A o \in open : o.at[1] = rows.of
  /\ \A i \in Idx : Cardinality(At(<<rows.of, i>>)) <= 1
  /\ Cardinality(open) = Top

\* Whatever the updates and the faults left behind, the ticks bring a running
\* bot back to one order per level.
ComesToRest == <>[](live => Clean)
=============================================================================
