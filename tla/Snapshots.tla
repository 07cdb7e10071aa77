----------------------------- MODULE Snapshots -----------------------------
(***************************************************************************)
(* The daily snapshots of one bot and the profit per day that is computed  *)
(* from them.  A job is started ten seconds after the engine and at every  *)
(* midnight; it looks twice whether the day has its row and replaces the   *)
(* row of the day.  Meanwhile fills are paired, the bot is paused and      *)
(* started and the process crashes.  Of the figures of a row the round     *)
(* trips are kept.                                                         *)
(***************************************************************************)
EXTENDS Integers, Sequences

CONSTANTS
  LastDay,     \* bound on the days
  MaxPairings, \* bound on the round trips
  MaxReboots   \* bound on the starts of the engine

ASSUME SnapshotsAssumption == LastDay \in Nat \ {0} /\ MaxPairings \in Nat /\ MaxReboots \in Nat \ {0}

VARIABLES
  day,      \* the date
  up,       \* "down", "booted": the first job is to come, "up"
  reboots,  \* starts of the engine so far
  traded,   \* the bot is running and in the map
  paired,   \* round trips in paired_roundtrips
  shots,    \* daily_snapshots: per date the row
  jobs,     \* runDailySnapshotsForAllBots, per timer
  behind    \* ghost: a row was written after the row of a later day

shotVars == <<day, up, reboots, traded, paired, shots, jobs, behind>>

Days == 1..LastDay
Timers == {"boot", "midnight"}
NoJob == [at |-> "idle", date |-> 0]
NoShot == -1
HasShot(d) == shots[d] # NoShot

ShotTypeOK ==
  /\ day \in Days /\ up \in {"down", "booted", "up"} /\ reboots \in 0..MaxReboots
  /\ traded \in BOOLEAN /\ behind \in BOOLEAN
  /\ paired \in 0..MaxPairings
  /\ \A d \in Days : shots[d] \in -1..paired
  /\ \A j \in Timers : jobs[j].at \in {"idle", "entered", "looked"}
                       /\ jobs[j].date \in 0..day

ShotInit ==
  /\ day = 1 /\ up = "booted" /\ reboots = 1 /\ traded = TRUE
  /\ paired = 0
  /\ shots = [d \in Days |-> NoShot]
  /\ jobs = [j \in Timers |-> NoJob]
  /\ behind = FALSE

-----------------------------------------------------------------------------
(* What goes on meanwhile *)

\* calculateRealGridProfit.
PairsUp ==
  /\ traded /\ up # "down" /\ paired < MaxPairings
  /\ paired' = paired + 1
  /\ UNCHANGED <<day, up, reboots, traded, shots, jobs, behind>>

\* The bot is paused or started.
Toggles ==
  /\ up # "down"
  /\ traded' = ~traded
  /\ UNCHANGED <<day, up, reboots, paired, shots, jobs, behind>>

\* The process dies, and is started again.
Crashes ==
  /\ up # "down" /\ reboots < MaxReboots
  /\ up' = "down" /\ jobs' = [j \in Timers |-> NoJob]
  /\ UNCHANGED <<day, reboots, traded, paired, shots, behind>>

Reboots ==
  /\ up = "down"
  /\ up' = "booted" /\ reboots' = reboots + 1
  /\ UNCHANGED <<day, traded, paired, shots, jobs, behind>>

-----------------------------------------------------------------------------
(* The job *)

\* For the bots that are running and in the map, unless the day has its row.
JobBegins(j) ==
  jobs' = [jobs EXCEPT ![j].at = IF traded /\ ~HasShot(day) THEN "entered" ELSE "idle"]

BootJob ==
  /\ up = "booted" /\ jobs["boot"].at = "idle"
  /\ up' = "up" /\ JobBegins("boot")
  /\ UNCHANGED <<day, reboots, traded, paired, shots, behind>>

\* Midnight: of an engine that is down, the day just ends.  The job of the day
\* before has long ended; the first one may have just begun.
Midnight ==
  /\ day < LastDay /\ jobs["midnight"].at = "idle"
  /\ day' = day + 1
  /\ IF up = "down" THEN UNCHANGED jobs
     ELSE jobs' = [jobs EXCEPT !["midnight"].at =
                     IF traded /\ ~HasShot(day + 1) THEN "entered" ELSE "idle"]
  /\ UNCHANGED <<up, reboots, traded, paired, shots, behind>>

\* createDailySnapshots takes the date anew, asks GRVT for a price and looks
\* again.
Looks(j) ==
  /\ jobs[j].at = "entered"
  /\ jobs' = [jobs EXCEPT ![j] =
                IF HasShot(day) THEN NoJob ELSE [@ EXCEPT !.at = "looked", !.date = day]]
  /\ UNCHANGED <<day, up, reboots, traded, paired, shots, behind>>

\* countPairedRoundtrips; INSERT OR REPLACE.
WritesRow(j) ==
  /\ jobs[j].at = "looked"
  /\ shots' = [shots EXCEPT ![jobs[j].date] = paired]
  /\ behind' = (behind \/ \E d \in Days : d > jobs[j].date /\ HasShot(d))
  /\ jobs' = [jobs EXCEPT ![j] = NoJob]
  /\ UNCHANGED <<day, up, reboots, traded, paired>>

ShotNext ==
  \/ PairsUp \/ Toggles \/ Crashes \/ Reboots
  \/ BootJob \/ Midnight
  \/ \E j \in Timers : Looks(j) \/ WritesRow(j)

ShotSpec == ShotInit /\ [][ShotNext]_shotVars

-----------------------------------------------------------------------------
(* GET /bots/:id/daily-pnl *)

\* The rows of the bot by date, and the last n + 1 of them.
History ==
  LET kept[d \in 0..LastDay] ==
        IF d = 0 THEN << >>
        ELSE IF HasShot(d) THEN Append(kept[d - 1], shots[d])
        ELSE kept[d - 1]
  IN  kept[LastDay]
Latest(n) == SubSeq(History, IF Len(History) > n THEN Len(History) - n ELSE 1, Len(History))

Gain(new, old) == IF new < old THEN 0 ELSE new - old

\* The row before the window is only the baseline; a history that is shorter
\* begins with nothing.
Points(n) ==
  LET all == IF Len(History) > n THEN Latest(n) ELSE <<0>> \o History
  IN  [k \in 1..Len(all) - 1 |-> Gain(all[k + 1], all[k])]

\* The sum of the points.
Total(points) ==
  LET sum[k \in 0..Len(points)] == IF k = 0 THEN 0 ELSE sum[k - 1] + points[k]
  IN  sum[Len(points)]

\* Whatever the days without a row, the points of any window count every round
\* trip up to the last row once and none twice (v2-router.ts:1640-1660), unless a
\* job that was overtaken by that of the next day wrote its row late.
DaysAddUp ==
  LET kept == History
      before(n) == IF Len(kept) > n THEN kept[Len(kept) - n] ELSE 0
  IN  kept # << >> /\ ~behind =>
        \A n \in 1..LastDay :
          Total(Points(n)) = kept[Len(kept)] - before(n)

=============================================================================
