---------------------------- MODULE MCBotCommands ----------------------------
(***************************************************************************)
(* The commands of a bot: start and pause (BotLifecycle), close and delete *)
(* (CloseBot), one instance of each.  They share no variable; focus says   *)
(* which of them a behaviour follows, and the other stays as it is.        *)
(***************************************************************************)
EXTENDS CloseBot, BotLifecycle

VARIABLE focus

MCStartPos == {2}
MCGridDeltas == {1}

\* Two closers where cancels, resumes and ticks can be trusted, one of either where
\* nothing can.
MCFaultSets == {{"create", "read", "restart"}, FaultKinds}

CommandsInit ==
  /\ focus \in {"start", "close"}
  /\ Init /\ StartInit
  /\ focus = "start" => status = "paused" /\ escalation /\ faults = FaultKinds

CommandsNext ==
  /\ UNCHANGED focus
  /\ \/ /\ focus = "close"
        /\ Next
        /\ ~Trusted => \E c \in Closers : \A d \in Closers \ {c} : calls'[d] = 0
        /\ UNCHANGED startVars
     \/ /\ focus = "start"
        /\ StartNext
        /\ UNCHANGED vars

CommandsSpec == CommandsInit /\ [][CommandsNext]_<<vars, startVars, focus>> /\ Fairness

\* The type invariants of both.
CommandsTypeOK == TypeOK /\ StartTypeOK
=============================================================================
