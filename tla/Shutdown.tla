------------------------------ MODULE Shutdown ------------------------------
(***************************************************************************)
(* Starting and stopping the engine (GridEngine.start, stop, track,        *)
(* drainInflight) from the API and from the signals of the process, with   *)
(* the timers that launch its jobs.  start() awaits the load of the bots   *)
(* before it says that it runs; stop() awaits every job in flight, and the *)
(* signal handlers then close the database.                                *)
(***************************************************************************)
EXTENDS Integers, FiniteSets

CONSTANTS
  Starts,    \* calls of start()
  Stops,     \* calls of stop()
  Signals,   \* those made by SIGINT and SIGTERM, which then close the database
  Tasks      \* jobs: the monitor, the pollers, the rebalance, the snapshots

ASSUME ShutdownAssumption == Signals \subseteq Stops

VARIABLES
  isRunning,
  starting, \* per start() call: "idle", "loading" or "over"
  stopping, \* per stop() call: "idle", "drain", "pause" or "over"
  drained,  \* per stop() call the jobs it still waits for
  beat,     \* intervals whose handle the engine has: they are cleared by stop()
  stray,    \* intervals whose handle a later start() has overwritten
  later,    \* setTimeout calls of start() that are still to fire
  inflight, \* inflightTasks
  dbOpen

clockVars == <<isRunning, starting, stopping, drained, beat, stray, later, inflight, dbOpen>>

ClockTypeOK ==
  /\ isRunning \in BOOLEAN /\ beat \in BOOLEAN /\ stray \in BOOLEAN /\ dbOpen \in BOOLEAN
  /\ starting \in [Starts -> {"idle", "loading", "over"}]
  /\ stopping \in [Stops -> {"idle", "drain", "pause", "over"}]
  /\ drained \in [Stops -> SUBSET Tasks]
  /\ later \subseteq Starts
  /\ inflight \subseteq Tasks

ClockInit ==
  /\ isRunning = FALSE
  /\ starting = [a \in Starts |-> "idle"]
  /\ stopping = [s \in Stops |-> "idle"]
  /\ drained = [s \in Stops |-> {}]
  /\ beat = FALSE /\ stray = FALSE /\ later = {}
  /\ inflight = {}
  /\ dbOpen = TRUE

-----------------------------------------------------------------------------
\* start: nothing when the engine runs; otherwise the instruments and bots load.
StartCalled(a) ==
  /\ starting[a] = "idle" /\ dbOpen
  /\ starting' = [starting EXCEPT ![a] = IF isRunning THEN "over" ELSE "loading"]
  /\ UNCHANGED <<isRunning, stopping, drained, beat, stray, later, inflight, dbOpen>>

\* The engine runs from here on, whatever was called meanwhile; its handles
\* take the place of those that were there.
StartReady(a) ==
  /\ starting[a] = "loading"
  /\ starting' = [starting EXCEPT ![a] = "over"]
  /\ isRunning' = TRUE
  /\ beat' = TRUE /\ stray' = (stray \/ beat)
  /\ later' = later \cup {a}
  /\ UNCHANGED <<stopping, drained, inflight, dbOpen>>

StartThrows(a) ==
  /\ starting[a] = "loading"
  /\ starting' = [starting EXCEPT ![a] = "over"]
  /\ UNCHANGED <<isRunning, stopping, drained, beat, stray, later, inflight, dbOpen>>

\* Mutant: a timer that fires launches its job.
TrackAlways(t) ==
  /\ t \notin inflight
  /\ inflight' = inflight \cup {t}

\* track: no job is launched when the engine has been stopped.
Track(t) ==
  /\ isRunning
  /\ t \notin inflight
  /\ inflight' = inflight \cup {t}

\* An interval fires, or a timeout of start(), which nothing clears.
Fires(t) ==
  /\ \/ (beat \/ stray) /\ later' = later
     \/ \E a \in later : later' = later \ {a}
  /\ Track(t)
  /\ UNCHANGED <<isRunning, starting, stopping, drained, beat, stray, dbOpen>>

\* A job settles; the calls that wait for it see it.
Settles(t) ==
  /\ t \in inflight
  /\ inflight' = inflight \ {t}
  /\ drained' = [s \in Stops |-> drained[s] \ {t}]
  /\ UNCHANGED <<isRunning, starting, stopping, beat, stray, later, dbOpen>>

\* stop: nothing when the engine does not run; otherwise the intervals are
\* cleared and the jobs in flight awaited.
StopCalled(s) ==
  /\ stopping[s] = "idle"
  /\ stopping' = [stopping EXCEPT ![s] = IF isRunning THEN "drain" ELSE "over"]
  /\ drained' = [drained EXCEPT ![s] = IF isRunning THEN inflight ELSE {}]
  /\ isRunning' = FALSE
  /\ beat' = IF isRunning THEN FALSE ELSE beat
  /\ UNCHANGED <<starting, stray, later, inflight, dbOpen>>

StopDrained(s) ==
  /\ stopping[s] = "drain" /\ drained[s] = {}
  /\ stopping' = [stopping EXCEPT ![s] = "pause"]
  /\ UNCHANGED <<isRunning, starting, drained, beat, stray, later, inflight, dbOpen>>

\* The bots are paused, or left with their orders (preserveOrders); a pause
\* that fails ends the call too.
StopReturns(s) ==
  /\ stopping[s] = "pause"
  /\ stopping' = [stopping EXCEPT ![s] = "over"]
  /\ UNCHANGED <<isRunning, starting, drained, beat, stray, later, inflight, dbOpen>>

\* The signal's handler closes the database and ends the process.
Ends(s) ==
  /\ s \in Signals /\ stopping[s] = "over" /\ dbOpen
  /\ dbOpen' = FALSE
  /\ UNCHANGED <<isRunning, starting, stopping, drained, beat, stray, later, inflight>>

ClockNext ==
  \/ \E a \in Starts : StartCalled(a) \/ StartReady(a) \/ StartThrows(a)
  \/ \E t \in Tasks : Fires(t) \/ Settles(t)
  \/ \E s \in Stops : StopCalled(s) \/ StopDrained(s) \/ StopReturns(s) \/ Ends(s)

ClockSpec == ClockInit /\ [][ClockNext]_clockVars

-----------------------------------------------------------------------------
\* An engine that does not run has no job in flight once every stop() that
\* found it running has been through its drain, whatever calls and timers
\* overlap (stop: "drain in-flight async work before we let the caller close
\* the DB").  The signal that comes second returns at once and is not covered.
QuietWhenStopped ==
  ~isRunning /\ (\A s \in Stops : stopping[s] # "drain") => inflight = {}
=============================================================================
