---------------------------- MODULE MCGridMonitor ----------------------------
(* Instances of GridMonitor for TLC: three levels around the market, of which *)
(* two adjacent ones can execute within one tick, for everything at once; four *)
(* levels, of which three can, for the duplicate killer.                     *)
EXTENDS GridMonitor

\* Whatever may go wrong, but for a tick that takes longer than 10 s.
MCFaults == FaultKinds \ {"slow"}
=============================================================================
