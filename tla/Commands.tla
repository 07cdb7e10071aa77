------------------------------ MODULE Commands ------------------------------
(***************************************************************************)
(* The commands on the bots of one user, instrument and GRVT account: the  *)
(* slot.  POST /api/v2/bots asks whether the slot is taken and then has    *)
(* the engine write the row, its levels and its settings one statement     *)
(* after the other; the legacy POST /api/bots does not ask.  Start, pause, *)
(* close and delete come at any time; what startBot and closeBot do on     *)
(* GRVT is the business of BotLifecycle and CloseBot.                      *)
(***************************************************************************)
EXTENDS Integers, FiniteSets

CONSTANTS
  Makers,         \* requests that create a bot
  MaxRows,        \* bound on the bots created
  RowLevels,      \* grid levels of a bot
  MaxSlotFaults   \* bound on statements that fail and on crashes

ASSUME CommandsAssumption ==
  /\ MaxRows \in Nat /\ RowLevels \in Nat \ {0} /\ MaxSlotFaults \in Nat

VARIABLES
  slot,      \* grid_bots: per id the row
  makes,     \* per request POST /bots
  begun,     \* the ids that startBot has read and not yet written
  removing,  \* the ids whose delete has passed its checks
  broke,     \* faults so far
  excused    \* ghost: the check of a request was overtaken or passed by

slotVars == <<slot, makes, begun, removing, broke, excused>>

RowIds == 1..MaxRows
NoSlotRow == [status |-> "none", levels |-> 0]
Active == {b \in RowIds : slot[b].status \in {"running", "paused"}}

SlotTypeOK ==
  /\ slot \in [RowIds -> [status : {"none", "paused", "running", "stopped", "deleted"},
                          levels : 0..RowLevels]]
  /\ makes \in [Makers -> [at : {"idle", "checked", "row", "refused", "done", "failed"},
                           bot : 0..MaxRows]]
  /\ begun \subseteq RowIds /\ removing \subseteq RowIds
  /\ broke \in 0..MaxSlotFaults /\ excused \in BOOLEAN

SlotInit ==
  /\ slot = [b \in RowIds |-> NoSlotRow]
  /\ makes = [m \in Makers |-> [at |-> "idle", bot |-> 0]]
  /\ begun = {} /\ removing = {}
  /\ broke = 0 /\ excused = FALSE

Mishap == broke < MaxSlotFaults /\ broke' = broke + 1

-----------------------------------------------------------------------------
(* Creation *)

\* Some other request may write a row after this one has looked.
Between(m) == \E o \in Makers \ {m} : makes[o].at = "checked"

\* Mutant: a paused bot does not take the slot.
MakeChecksRunning(m, api) ==
  /\ makes[m].at = "idle"
  /\ LET taken == api = "v2" /\ \E b \in RowIds : slot[b].status = "running"
     IN  /\ makes' = [makes EXCEPT ![m].at = IF taken THEN "refused" ELSE "checked"]
         /\ excused' = (excused \/ (~taken /\ (api = "legacy" \/ Between(m))))
  /\ UNCHANGED <<slot, begun, removing, broke>>

\* POST /api/v2/bots: a bot that is running or paused takes the slot.
MakeChecks(m, api) ==
  /\ makes[m].at = "idle"
  /\ LET taken == api = "v2" /\ Active # {}
     IN  /\ makes' = [makes EXCEPT ![m].at = IF taken THEN "refused" ELSE "checked"]
         /\ excused' = (excused \/ (~taken /\ (api = "legacy" \/ Between(m))))
  /\ UNCHANGED <<slot, begun, removing, broke>>

\* createBot: the row.
MakeWritesRow(m) ==
  /\ makes[m].at = "checked"
  /\ \E b \in RowIds :
       /\ slot[b] = NoSlotRow /\ \A a \in RowIds : a < b => slot[a] # NoSlotRow
       /\ slot' = [slot EXCEPT ![b].status = "paused"]
       /\ makes' = [makes EXCEPT ![m] = [at |-> "row", bot |-> b]]
  /\ UNCHANGED <<begun, removing, broke, excused>>

\* createGridLevel, level by level, even when the row has been deleted: foreign
\* keys are declared and no PRAGMA turns them on.
MakeWritesLevel(m) ==
  LET b == makes[m].bot IN
  /\ makes[m].at = "row" /\ slot[b].levels < RowLevels
  /\ slot' = [slot EXCEPT ![b].levels = @ + 1]
  /\ UNCHANGED <<makes, begun, removing, broke, excused>>

\* The settings asked for, and the answer.
MakeAnswers(m) ==
  LET b == makes[m].bot IN
  /\ makes[m].at = "row" /\ slot[b].levels = RowLevels
  /\ makes' = [makes EXCEPT ![m].at = "done"]
  /\ UNCHANGED <<slot, begun, removing, broke, excused>>

\* A statement fails: the client is told, what is written stays.
MakeFails(m) ==
  /\ Mishap
  /\ makes[m].at \in {"checked", "row"}
  /\ makes' = [makes EXCEPT ![m].at = "failed"]
  /\ UNCHANGED <<slot, begun, removing, excused>>

\* The client asks once more after an answer that was not a success.
MakeRetries(m) ==
  /\ makes[m].at \in {"refused", "failed"}
  /\ makes' = [makes EXCEPT ![m] = [at |-> "idle", bot |-> 0]]
  /\ UNCHANGED <<slot, begun, removing, broke, excused>>

-----------------------------------------------------------------------------
(* Start, pause, close, delete *)

\* startBot: any row that is not running is taken, a stopped one too.
StartReadsRow(b) ==
  /\ b \notin begun
  /\ slot[b].status \in {"paused", "stopped"}
  /\ begun' = begun \cup {b}
  /\ excused' = (excused \/ slot[b].status = "stopped")
  /\ UNCHANGED <<slot, makes, removing, broke>>

\* 'running', whatever the row has become meanwhile.
StartWritesRow(b) ==
  /\ b \in begun
  /\ begun' = begun \ {b}
  /\ slot' = IF slot[b].status = "deleted" THEN slot ELSE [slot EXCEPT ![b].status = "running"]
  /\ excused' = (excused \/ slot[b].status = "stopped")
  /\ UNCHANGED <<makes, removing, broke>>

StartGivesUp(b) ==
  /\ Mishap
  /\ b \in begun
  /\ begun' = begun \ {b}
  /\ UNCHANGED <<slot, makes, removing, excused>>

\* pauseBot asks for no status either.
PauseCommand(b) ==
  /\ slot[b].status \in {"paused", "running", "stopped"}
  /\ slot' = [slot EXCEPT ![b].status = "paused"]
  /\ excused' = (excused \/ slot[b].status = "stopped")
  /\ UNCHANGED <<makes, begun, removing, broke>>

\* closeBot that ends flat; one that fails leaves the bot paused.
CloseCommand(b) ==
  /\ slot[b].status \in {"paused", "running"}
  /\ slot' = [slot EXCEPT ![b].status = "stopped"]
  /\ UNCHANGED <<makes, begun, removing, broke, excused>>

\* POST /api/bots/:id/delete.
DeletePasses(b) ==
  /\ slot[b].status = "stopped" /\ b \notin removing
  /\ removing' = removing \cup {b}
  /\ UNCHANGED <<slot, makes, begun, broke, excused>>

\* The row goes, its levels stay.
DeleteTakesRow(b) ==
  /\ b \in removing
  /\ removing' = removing \ {b}
  /\ slot' = [slot EXCEPT ![b].status = "deleted"]
  /\ UNCHANGED <<makes, begun, broke, excused>>

\* The process dies and loadActiveBots brings the running bots back.
EngineDies ==
  /\ Mishap
  /\ makes' = [m \in Makers |-> IF makes[m].at \in {"checked", "row"}
                                  THEN [makes[m] EXCEPT !.at = "failed"] ELSE makes[m]]
  /\ begun' = {} /\ removing' = {}
  /\ UNCHANGED <<slot, excused>>

SlotNext ==
  \/ \E m \in Makers :
       \/ \E api \in {"v2", "legacy"} : MakeChecks(m, api)
       \/ MakeWritesRow(m) \/ MakeWritesLevel(m) \/ MakeAnswers(m)
       \/ MakeFails(m) \/ MakeRetries(m)
  \/ \E b \in RowIds :
       \/ StartReadsRow(b) \/ StartWritesRow(b) \/ StartGivesUp(b)
       \/ PauseCommand(b) \/ CloseCommand(b) \/ DeletePasses(b) \/ DeleteTakesRow(b)
  \/ EngineDies

SlotSpec == SlotInit /\ [][SlotNext]_slotVars

-----------------------------------------------------------------------------
\* One slot never has two active bots (POST /api/v2/bots: "reject if the same
\* tuple already has an active bot"), whatever fails, is retried or dies, unless
\* the check was no help: two requests between their check and their row, a
\* request that came through the legacy API, or a stopped bot that a start or a
\* pause made active again.
OneActivePerSlot == ~excused => Cardinality(Active) <= 1
=============================================================================
