---------------------------- MODULE MCEngineJobs ----------------------------
(***************************************************************************)
(* The jobs of the engine beside the monitor, and the stream that tells    *)
(* the pages of them, one instance of each.  They share no variable; focus *)
(* says which of them a behaviour follows, and the others stay as they     *)
(* are.                                                                    *)
(***************************************************************************)
EXTENDS SharedConnection, RangeUpdate, Brakes, Leverage, StopLoss, FundingGuard,
        VirtualWindow, Stream, TLC

VARIABLE focus

MCGapOf == "low" :> 2 @@ "high" :> 1

Jobs == {"connection", "range", "brakes", "leverage", "stop", "guard", "window",
         "stream"}

jobsVars == <<connVars, shiftVars, brakeVars, leverageVars, stopVars, guardVars,
              windowVars, streamVars, focus>>

\* A job that is not followed starts from one state.
JobsInit ==
  /\ focus \in Jobs
  /\ ConnInit /\ ShiftInit /\ BrakesInit /\ LeverageInit /\ StopInit /\ GuardInit
  /\ WindowInit /\ StreamInit
  /\ focus # "range" => rng = "low"
  /\ focus # "brakes" => equity = 6 /\ market = 1
  /\ focus # "leverage" => degree = 5 /\ intended = 5
  /\ focus # "stop" => guard = "off"
  /\ focus # "guard" => rate = 0 /\ length = 1

On(name, Step) == focus = name /\ Step /\ UNCHANGED focus

Still(name, vars) == focus # name => UNCHANGED vars

JobsNext ==
  /\ Still("connection", connVars) /\ Still("range", shiftVars)
  /\ Still("brakes", brakeVars) /\ Still("leverage", leverageVars)
  /\ Still("stop", stopVars) /\ Still("guard", guardVars)
  /\ Still("window", windowVars) /\ Still("stream", streamVars)
  /\ \/ On("connection", ConnNext)
     \/ On("range", ShiftNext)
     \/ On("brakes", BrakesNext)
     \/ On("leverage", LeverageNext)
     \/ On("stop", StopNext)
     \/ On("guard", GuardNext)
     \/ On("window", WindowNext)
     \/ On("stream", StreamNext)

\* The fairness of RangeUpdate, of StopLoss and of Stream, when a behaviour follows
\* them.
JobsFairness ==
  /\ \A q \in Reqs : WF_shiftVars(focus = "range" /\ Update(q))
  /\ WF_shiftVars(focus = "range" /\ Stamp)
  /\ WF_shiftVars(focus = "range" /\ TickOn)
  /\ SF_shiftVars(focus = "range" /\ TickBegins)
  /\ SF_shiftVars(focus = "range" /\ Forget)
  /\ WF_stopVars(focus = "stop" /\ TickGoesOn)
  /\ WF_streamVars(focus = "stream" /\ Proceeds)

JobsSpec == JobsInit /\ [][JobsNext]_jobsVars /\ JobsFairness

\* The type invariants of the jobs; those a behaviour does not follow keep their
\* initial values.
JobsTypeOK ==
  /\ focus = "connection" => ConnTypeOK
  /\ focus = "range" => ShiftTypeOK
  /\ focus = "brakes" => BrakesTypeOK
  /\ focus = "leverage" => LeverageTypeOK
  /\ focus = "stop" => StopTypeOK
  /\ focus = "guard" => GuardTypeOK
  /\ focus = "window" => WindowTypeOK
  /\ focus = "stream" => StreamTypeOK

\* The orders of a bot are those of its grid.  A range update leaves few above
\* them, buys no more than the range needs and places nothing once the bot is
\* paused; of a virtual grid the orders come to lie where the window is, and meanwhile
\* are no more than the window or than the tick began with, but for those it places
\* again, answers a fill with or fails to cancel; calls that throw with their order
\* placed and the brake on the margin are among the faults (grid-engine.ts:2651-2926,
\* 3955-4045).
OrdersOfARange ==
  FewOrders /\ NoOverbuy /\ PausedIsQuiet /\ WindowSettles /\ FewAboveWindow

\* The safeguards of a tick act on what is there: the stop-loss on the gap of its
\* price, the funding safeguard on the charges, the margin brake on the balance
\* (grid-engine.ts:3385-3470, 4242-4395).
BrakesSeeTrue == GapGoesToMarket /\ FundingIsCounted /\ HeadroomKept

=============================================================================
