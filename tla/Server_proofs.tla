---------------------------- MODULE Server_proofs ----------------------------
(***************************************************************************)
(* Theorems about the server around the engine: its start and stop         *)
(* (Shutdown), the slot of a bot (Commands), the start of the database     *)
(* (StoreStart), the news it sends (Notifier, Dispatcher) and its traffic  *)
(* with GRVT (Transport, Cache, RateBucket).  They hold for any number of  *)
(* calls, jobs, requests, rows, users, faults and restarts.                *)
(***************************************************************************)
EXTENDS Shutdown, Commands, StoreStart, Notifier, Dispatcher, Transport, Cache,
        RateBucket, Induction, FiniteSetTheorems, TLAPS

\* The greatest and the least of some numbers up to n.
LEMMA MaxOf ==
  ASSUME NEW n \in Nat, NEW S, S \subseteq 0..n, S # {}
  PROVE  Max(S) \in S /\ \A x \in S : x <= Max(S)
<1> DEFINE T == {n - x : x \in S}
<1>0. \A x \in S : x \in Nat /\ n - x \in Nat
  OBVIOUS
<1>1. T \subseteq Nat /\ T # {}
  BY <1>0
<1>2. PICK t \in T : \A y \in T : ~(y < t)
  BY <1>1, NatMin
<1>3. PICK m \in S : t = n - m
  BY <1>2
<1>4. ASSUME NEW x \in S PROVE m >= x
  <2>1. ~(n - x < n - m)
    BY <1>2, <1>3
  <2> QED BY <1>0, <1>3, <2>1
<1> QED BY <1>4 DEF Max

LEMMA MinOf ==
  ASSUME NEW n \in Nat, NEW S, S \subseteq 0..n, S # {}
  PROVE  Min(S) \in S /\ \A x \in S : Min(S) <= x
<1>1. S \subseteq Nat
  OBVIOUS
<1>2. PICK m \in S : \A y \in S : ~(y < m)
  BY <1>1, NatMin
<1>3. \A x \in S : m <= x
  BY <1>1, <1>2
<1> QED BY <1>3 DEF Min

-----------------------------------------------------------------------------
(* Shutdown *)

\* While the engine does not run, a stop() still waits for each job in flight.
AwaitedBySomeStop ==
  ~isRunning => \A t \in inflight : \E s \in Stops : stopping[s] = "drain" /\ t \in drained[s]

ClockInv == ClockTypeOK /\ AwaitedBySomeStop

LEMMA ClockInitial == ClockInit => ClockInv
BY DEF ClockInit, ClockInv, ClockTypeOK, AwaitedBySomeStop

\* No call, timer, job or signal breaks it: a job is launched only by an engine
\* that runs, and a stop() that ends its drain waits for no job.
LEMMA ClockStep == ClockInv /\ [ClockNext]_clockVars => ClockInv'
<1> SUFFICES ASSUME ClockInv, [ClockNext]_clockVars PROVE ClockInv'
  OBVIOUS
<1> USE DEF ClockInv, ClockTypeOK
<1>1. ASSUME NEW a \in Starts, StartCalled(a) \/ StartReady(a) \/ StartThrows(a)
      PROVE  ClockInv'
  BY <1>1 DEF StartCalled, StartReady, StartThrows, AwaitedBySomeStop
<1>2. ASSUME NEW t \in Tasks, Fires(t) PROVE ClockInv'
  BY <1>2 DEF Fires, Track, AwaitedBySomeStop
<1>3. ASSUME NEW t \in Tasks, Settles(t) PROVE ClockInv'
  <2>1. ClockTypeOK'
    BY <1>3 DEF Settles
  <2>2. ASSUME ~isRunning', NEW u \in inflight'
        PROVE  \E s \in Stops : stopping'[s] = "drain" /\ u \in drained'[s]
    <3>1. u \in inflight /\ u # t /\ ~isRunning
      BY <1>3, <2>2 DEF Settles
    <3>2. PICK s \in Stops : stopping[s] = "drain" /\ u \in drained[s]
      BY <3>1 DEF AwaitedBySomeStop
    <3> QED BY <1>3, <3>1, <3>2 DEF Settles
  <2> QED BY <2>1, <2>2 DEF AwaitedBySomeStop
<1>4. ASSUME NEW s \in Stops, StopCalled(s) PROVE ClockInv'
  <2>1. ClockTypeOK'
    BY <1>4 DEF StopCalled
  <2>2. ASSUME NEW u \in inflight'
        PROVE  \E r \in Stops : stopping'[r] = "drain" /\ u \in drained'[r]
    <3>1. CASE isRunning
      BY <1>4, <2>2, <3>1 DEF StopCalled
    <3>2. CASE ~isRunning
      <4>1. PICK r \in Stops : stopping[r] = "drain" /\ u \in drained[r]
        BY <1>4, <2>2, <3>2 DEF StopCalled, AwaitedBySomeStop
      <4>2. r # s
        BY <1>4, <4>1 DEF StopCalled
      <4> QED BY <1>4, <4>1, <4>2 DEF StopCalled
    <3> QED BY <3>1, <3>2
  <2> QED BY <2>1, <2>2 DEF AwaitedBySomeStop
<1>5. ASSUME NEW s \in Stops, StopDrained(s) PROVE ClockInv'
  <2>1. ClockTypeOK'
    BY <1>5 DEF StopDrained
  <2>2. ASSUME ~isRunning', NEW u \in inflight'
        PROVE  \E r \in Stops : stopping'[r] = "drain" /\ u \in drained'[r]
    <3>1. PICK r \in Stops : stopping[r] = "drain" /\ u \in drained[r]
      BY <1>5, <2>2 DEF StopDrained, AwaitedBySomeStop
    <3>2. r # s
      BY <1>5, <3>1 DEF StopDrained
    <3> QED BY <1>5, <3>1, <3>2 DEF StopDrained
  <2> QED BY <2>1, <2>2 DEF AwaitedBySomeStop
<1>6. ASSUME NEW s \in Stops, StopReturns(s) \/ Ends(s) PROVE ClockInv'
  BY <1>6 DEF StopReturns, Ends, AwaitedBySomeStop
<1>7. CASE UNCHANGED clockVars
  BY <1>7 DEF clockVars, AwaitedBySomeStop
<1> QED BY <1>1, <1>2, <1>3, <1>4, <1>5, <1>6, <1>7 DEF ClockNext

\* When the engine does not run and every stop() is through its drain, no job
\* is in flight (GridEngine.stop, drainInflight), for any calls and jobs.
THEOREM StopLeavesNoJob == ClockSpec => []QuietWhenStopped
<1>1. ClockInv => QuietWhenStopped
  BY DEF ClockInv, AwaitedBySomeStop, QuietWhenStopped
<1> QED BY <1>1, ClockInitial, ClockStep, PTL DEF ClockSpec
-----------------------------------------------------------------------------
(* Commands *)

\* A set of which no two elements differ has at most one.
LEMMA AtMostOneElement ==
  ASSUME NEW S, \A x, y \in S : x = y
  PROVE  IsFiniteSet(S) /\ Cardinality(S) <= 1
<1>2. CASE S # {}
  <2>1. PICK x : x \in S
    BY <1>2
  <2>2. S = {x}
    BY <2>1
  <2>3. IsFiniteSet(S) /\ Cardinality(S) = 1
    BY <2>2, FS_Singleton
  <2> QED BY <2>3
<1>3. {} = S => Cardinality(S) = 0 /\ IsFiniteSet(S)
  BY FS_EmptySet
<1> QED BY <1>2, <1>3

\* The slot as long as the check of no request was overtaken or passed by: a
\* request that has looked is alone and has found the slot free.
SlotIsTaken ==
  ~excused =>
    /\ \A a, b \in Active : a = b
    /\ \A m \in Makers : makes[m].at = "checked" =>
         Active = {} /\ \A o \in Makers : makes[o].at = "checked" => o = m

\* A row that startBot has read does not vanish, it is marked; a request writes
\* the levels of a row it has made.
RowsStay ==
  /\ \A b \in begun \cup removing : slot[b].status # "none"
  /\ \A m \in Makers : makes[m].at = "row" => makes[m].bot \in RowIds /\ slot[makes[m].bot].status # "none"

SlotInv == SlotTypeOK /\ RowsStay /\ SlotIsTaken

LEMMA SlotInitial == SlotInit => SlotInv
<1> SUFFICES ASSUME SlotInit PROVE SlotInv
  OBVIOUS
<1>1. SlotTypeOK
  <2>1. 0 \in 0..RowLevels /\ 0 \in 0..MaxRows /\ 0 \in 0..MaxSlotFaults
    BY CommandsAssumption
  <2> QED BY <2>1 DEF SlotInit, SlotTypeOK, NoSlotRow
<1>2. Active = {} /\ \A m \in Makers : makes[m].at = "idle"
  BY DEF SlotInit, Active, NoSlotRow
<1> QED BY <1>1, <1>2 DEF SlotInit, SlotInv, RowsStay, SlotIsTaken

\* The steps of a request that creates a bot.
LEMMA MakerStep ==
  ASSUME SlotInv, NEW m \in Makers,
         \/ \E api \in {"v2", "legacy"} : MakeChecks(m, api)
         \/ MakeWritesRow(m) \/ MakeWritesLevel(m) \/ MakeAnswers(m)
         \/ MakeFails(m) \/ MakeRetries(m)
  PROVE  SlotInv'
<1> USE CommandsAssumption DEF SlotInv, SlotTypeOK
<1>1. ASSUME NEW api \in {"v2", "legacy"}, MakeChecks(m, api) PROVE SlotInv'
  <2>1. SlotTypeOK'
    BY <1>1 DEF MakeChecks
  <2>2. RowsStay'
    BY <1>1 DEF MakeChecks, RowsStay
  <2>3. Active' = Active
    BY <1>1 DEF MakeChecks, Active
  <2>4. SlotIsTaken'
    BY <1>1, <2>3 DEF MakeChecks, Between, SlotIsTaken
  <2> QED BY <2>1, <2>2, <2>4
<1>2. CASE MakeWritesRow(m)
  <2>1. PICK b \in RowIds :
          /\ slot[b] = NoSlotRow
          /\ slot' = [slot EXCEPT ![b].status = "paused"]
          /\ makes' = [makes EXCEPT ![m] = [at |-> "row", bot |-> b]]
    BY <1>2 DEF MakeWritesRow
  <2>2. UNCHANGED <<begun, removing, broke, excused>> /\ makes[m].at = "checked"
    BY <1>2 DEF MakeWritesRow
  <2>3. SlotTypeOK'
    <3>1. b \in 0..MaxRows
      BY DEF RowIds
    <3> QED BY <2>1, <2>2, <3>1
  <2>4. RowsStay'
    BY <2>1, <2>2 DEF RowsStay, NoSlotRow
  <2>5. Active' = Active \cup {b}
    BY <2>1, <2>2 DEF Active
  <2>6. SlotIsTaken'
    BY <2>1, <2>2, <2>5 DEF SlotIsTaken
  <2> QED BY <2>3, <2>4, <2>6
<1>3. CASE MakeWritesLevel(m)
  <2>1. SlotTypeOK'
    <3> DEFINE a == makes[m].bot
    <3>1. a \in RowIds
      BY <1>3 DEF MakeWritesLevel, RowsStay
    <3>2. slot[a].levels + 1 \in 0..RowLevels
      BY <1>3, <3>1 DEF MakeWritesLevel
    <3> QED BY <1>3, <3>1, <3>2 DEF MakeWritesLevel
  <2>2. /\ \A b \in RowIds : slot'[b].status = slot[b].status
        /\ UNCHANGED <<makes, begun, removing, broke, excused>>
    BY <1>3 DEF MakeWritesLevel
  <2>3. Active' = Active
    BY <2>2 DEF Active
  <2> QED BY <2>1, <2>2, <2>3 DEF RowsStay, SlotIsTaken
<1>4. CASE MakeAnswers(m) \/ MakeFails(m) \/ MakeRetries(m)
  <2>1. broke' \in 0..MaxSlotFaults
    BY <1>4 DEF MakeAnswers, MakeFails, MakeRetries, Mishap
  <2>5. SlotTypeOK'
    BY <1>4, <2>1 DEF MakeAnswers, MakeFails, MakeRetries
  <2>2. RowsStay'
    BY <1>4 DEF MakeAnswers, MakeFails, MakeRetries, RowsStay
  <2>3. Active' = Active
    BY <1>4 DEF MakeAnswers, MakeFails, MakeRetries, Active
  <2>4. SlotIsTaken'
    BY <1>4, <2>3 DEF MakeAnswers, MakeFails, MakeRetries, SlotIsTaken
  <2> QED BY <2>5, <2>2, <2>4
<1> QED BY <1>1, <1>2, <1>3, <1>4

\* The commands on a row: none makes a bot active that was not, except one that
\* was stopped, and that excuses.
LEMMA RowStep ==
  ASSUME SlotInv, NEW b \in RowIds,
         \/ StartReadsRow(b) \/ StartWritesRow(b) \/ StartGivesUp(b)
         \/ PauseCommand(b) \/ CloseCommand(b) \/ DeletePasses(b) \/ DeleteTakesRow(b)
  PROVE  SlotInv'
<1> USE CommandsAssumption DEF SlotInv, SlotTypeOK
<1>1. SlotTypeOK'
  <2>1. CASE StartReadsRow(b) \/ DeletePasses(b)
    BY <2>1 DEF StartReadsRow, DeletePasses
  <2>2. CASE StartWritesRow(b)
    BY <2>2 DEF StartWritesRow
  <2>3. CASE StartGivesUp(b)
    BY <2>3 DEF StartGivesUp, Mishap
  <2>4. CASE PauseCommand(b) \/ CloseCommand(b)
    BY <2>4 DEF PauseCommand, CloseCommand
  <2>5. CASE DeleteTakesRow(b)
    BY <2>5 DEF DeleteTakesRow
  <2> QED BY <2>1, <2>2, <2>3, <2>4, <2>5
<1>2. RowsStay'
  BY DEF StartReadsRow, StartWritesRow, StartGivesUp, PauseCommand, CloseCommand,
         DeletePasses, DeleteTakesRow, RowsStay
<1>3. ASSUME ~excused' PROVE ~excused /\ Active' \subseteq Active
  <2>1. ~excused
    BY <1>3 DEF StartReadsRow, StartWritesRow, StartGivesUp, PauseCommand, CloseCommand,
                DeletePasses, DeleteTakesRow
  <2>2. ASSUME NEW a \in RowIds, slot'[a].status \in {"running", "paused"}
        PROVE  slot[a].status \in {"running", "paused"}
    <3>1. CASE StartWritesRow(b)
      BY <1>3, <2>2, <3>1 DEF StartWritesRow, RowsStay
    <3>2. CASE PauseCommand(b) \/ CloseCommand(b) \/ DeleteTakesRow(b)
      BY <1>3, <2>2, <3>2 DEF PauseCommand, CloseCommand, DeleteTakesRow
    <3>3. CASE StartReadsRow(b) \/ StartGivesUp(b) \/ DeletePasses(b)
      BY <2>2, <3>3 DEF StartReadsRow, StartGivesUp, DeletePasses
    <3> QED BY <3>1, <3>2, <3>3
  <2> QED BY <2>1, <2>2 DEF Active
<1>4. makes' = makes
  BY DEF StartReadsRow, StartWritesRow, StartGivesUp, PauseCommand, CloseCommand,
         DeletePasses, DeleteTakesRow
<1> QED BY <1>1, <1>2, <1>3, <1>4 DEF SlotIsTaken

LEMMA SlotStep == SlotInv /\ [SlotNext]_slotVars => SlotInv'
<1> SUFFICES ASSUME SlotInv, [SlotNext]_slotVars PROVE SlotInv'
  OBVIOUS
<1>1. CASE EngineDies
  <2>1. SlotTypeOK'
    <3>1. broke' \in 0..MaxSlotFaults
      BY <1>1, CommandsAssumption DEF EngineDies, Mishap, SlotInv, SlotTypeOK
    <3>2. \A m \in Makers : makes'[m] \in
            [at : {"idle", "checked", "row", "refused", "done", "failed"}, bot : 0..MaxRows]
      BY <1>1 DEF EngineDies, SlotInv, SlotTypeOK
    <3> QED BY <1>1, <3>1, <3>2 DEF EngineDies, SlotInv, SlotTypeOK
  <2>2. /\ Active' = Active /\ excused' = excused
        /\ \A m \in Makers : makes'[m].at \notin {"checked", "row"}
    BY <1>1 DEF EngineDies, Active, SlotInv, SlotTypeOK
  <2>3. RowsStay' /\ SlotIsTaken'
    BY <1>1, <2>2 DEF EngineDies, RowsStay, SlotIsTaken, SlotInv
  <2> QED BY <2>1, <2>3 DEF SlotInv
<1>2. CASE UNCHANGED slotVars
  BY <1>2 DEF slotVars, SlotInv, SlotTypeOK, RowsStay, SlotIsTaken, Active
<1> QED BY <1>1, <1>2, MakerStep, RowStep DEF SlotNext

\* One slot has at most one active bot, for any requests, rows and faults, as
\* long as no check was overtaken or passed by (POST /api/v2/bots).
THEOREM SlotHasOneActive == SlotSpec => []OneActivePerSlot
<1>1. SlotInv => OneActivePerSlot
  BY AtMostOneElement DEF SlotInv, SlotIsTaken, OneActivePerSlot
<1> QED BY <1>1, SlotInitial, SlotStep, PTL DEF SlotSpec
-----------------------------------------------------------------------------
(* StoreStart *)

\* A start that has come to a step has added the columns of the steps before.
ColumnsSoFar ==
  /\ phase \notin {"down", "original"} => "original" \in columns
  /\ phase \notin {"down", "original", "quantity"} => "quantity" \in columns
  /\ phase \in {"ledgers", "snapshots", "fills", "owners"} => "options" \in columns
  /\ phase \in {"snapshots", "fills", "owners"} => "ledgers" \in columns
  /\ phase \in {"fills", "owners"} => "snapshots" \in columns
  /\ phase \in {"count", "bots", "children"} => columns = Columns

StoreTypeInv == StoreTypeOK /\ ColumnsSoFar

LEMMA StoreTypeInit == StoreInit => StoreTypeInv
<1> SUFFICES ASSUME StoreInit PROVE StoreTypeInv
  OBVIOUS
<1> DEFINE Row == [here : BOOLEAN, invested : 0..MaxInvested, original : 0..MaxInvested,
                   user : 0..2]
           Fill == [here : BOOLEAN, bot : BotIds \cup {Null}, user : 0..2]
<1>1. 0 \in 0..MaxStarts /\ 0 \in 0..MaxInvested /\ 0 \in 0..2
  BY StoreStartAssumption
<1>2. \A d \in Deposits : d \in 0..MaxInvested
  BY StoreStartAssumption
<1>3. Gone \in Row /\ \A d \in Deposits : [Gone EXCEPT !.here = TRUE, !.invested = d] \in Row
  BY <1>1, <1>2 DEF Gone, Null
<1>4. NoFill \in Fill /\ [NoFill EXCEPT !.here = TRUE] \in Fill
  BY <1>1 DEF NoFill, Null
<1>5. table \in [BotIds -> Row]
  <2>1. /\ table \in [BotIds -> {Gone} \cup {[Gone EXCEPT !.here = TRUE, !.invested = d] : d \in Deposits}]
    BY DEF StoreInit
  <2>2. {Gone} \cup {[Gone EXCEPT !.here = TRUE, !.invested = d] : d \in Deposits} \subseteq Row
    BY <1>3
  <2> HIDE DEF Row
  <2> QED BY <2>1, <2>2
<1>6. archive \in [FillIds -> Fill]
  <2>1. archive \in [FillIds -> {NoFill, [NoFill EXCEPT !.here = TRUE]}]
    BY DEF StoreInit
  <2> HIDE DEF Fill
  <2> QED BY <1>4, <2>1
<1>7. StoreTypeOK
  BY <1>1, <1>5, <1>6 DEF StoreInit, StoreTypeOK
<1> QED BY <1>7 DEF StoreInit, StoreTypeInv, ColumnsSoFar

\* The columns grow in the order of the steps, at every start anew.
LEMMA ColumnsStep == StoreTypeInv /\ [StoreNext]_storeVars =>
                       ColumnsSoFar' /\ columns' \subseteq Columns /\ (phase' = "up" => columns' = Columns)
<1> SUFFICES ASSUME StoreTypeInv, [StoreNext]_storeVars
             PROVE  ColumnsSoFar' /\ columns' \subseteq Columns /\ (phase' = "up" => columns' = Columns)
  OBVIOUS
<1> USE DEF StoreTypeInv, StoreTypeOK, ColumnsSoFar, Columns
<1>1. CASE CreatesTables \/ ProcessEnds
  BY <1>1 DEF CreatesTables, StartsAt, ProcessEnds
<1>2. CASE AddsOriginal
  BY <1>2 DEF AddsOriginal
<1>3. CASE AddsQuantity
  BY <1>3 DEF AddsQuantity, Adds
<1>4. CASE AddsOptions \/ AddsLedgers
  BY <1>4 DEF AddsOptions, AddsLedgers, Adds
<1>5. CASE AddsSnapshots
  BY <1>5 DEF AddsSnapshots, Adds
<1>6. CASE AttributesFills
  BY <1>6 DEF AttributesFills
<1>7. CASE AddsOwners
  BY <1>7 DEF AddsOwners
<1>8. CASE BootstrapSkips \/ BootstrapCreates \/ BootstrapOwnsBots \/ BootstrapOwnsChildren
  BY <1>8 DEF BootstrapSkips, BootstrapCreates, BootstrapOwnsBots, BootstrapOwnsChildren
<1>9. CASE UNCHANGED <<phase, columns>>
  BY <1>9
<1>10. ASSUME NEW b \in BotIds, NEW amount \in Deposits, NEW u \in 1..2, NewBot(b, amount, u)
       PROVE  UNCHANGED <<phase, columns>>
  BY <1>10 DEF NewBot
<1>11. ASSUME NEW b \in BotIds, Compounds(b) \/ Deletes(b) \/ \E f \in FillIds : Archives(f, b)
       PROVE  UNCHANGED <<phase, columns>>
  BY <1>11 DEF Compounds, Deletes, Archives
<1>13. ASSUME NEW f \in FillIds, PageArchives(f) PROVE UNCHANGED <<phase, columns>>
  BY <1>13 DEF PageArchives
<1>12. SignsUp \/ UNCHANGED storeVars => UNCHANGED <<phase, columns>>
  BY DEF SignsUp, storeVars
<1> QED BY <1>1, <1>2, <1>3, <1>4, <1>5, <1>6, <1>7, <1>8, <1>9, <1>10, <1>11, <1>12, <1>13
  DEF StoreNext
\* The steps that leave both tables alone.
LEMMA StepsAside ==
  ASSUME \/ CreatesTables \/ AddsQuantity \/ AddsOptions \/ AddsLedgers \/ AddsSnapshots
         \/ AddsOwners \/ BootstrapSkips \/ BootstrapCreates \/ ProcessEnds \/ SignsUp
         \/ UNCHANGED storeVars
  PROVE  UNCHANGED <<table, archive>>
BY DEF CreatesTables, StartsAt, AddsQuantity, AddsOptions, AddsLedgers, AddsSnapshots, Adds,
       AddsOwners, BootstrapSkips, BootstrapCreates, ProcessEnds, SignsUp, storeVars

LEMMA StoreTypeStep == StoreTypeInv /\ [StoreNext]_storeVars => StoreTypeInv'
<1> SUFFICES ASSUME StoreTypeInv, [StoreNext]_storeVars PROVE StoreTypeInv'
  OBVIOUS
<1> DEFINE Row == [here : BOOLEAN, invested : 0..MaxInvested, original : 0..MaxInvested,
                   user : 0..2]
           Fill == [here : BOOLEAN, bot : BotIds \cup {Null}, user : 0..2]
           Ok == table' \in [BotIds -> Row] /\ archive' \in [FillIds -> Fill]
<1> USE StoreStartAssumption DEF StoreTypeInv, StoreTypeOK
<1>1. ASSUME UNCHANGED <<table, archive>> PROVE Ok
  BY <1>1
<1>2. ASSUME AddsOriginal PROVE Ok
  BY <1>2 DEF AddsOriginal
<1>3. ASSUME AttributesFills PROVE Ok
  <2>1. CASE Cardinality(Here) = 1
    <3>1. ASSUME Here = {} PROVE FALSE
      <4>1. Cardinality(Here) = 0
        BY <3>1, FS_EmptySet
      <4> QED BY <2>1, <4>1
    <3> DEFINE one == CHOOSE b \in BotIds : b \in Here
    <3>2. one \in BotIds
      BY <3>1 DEF Here
    <3> HIDE DEF one
    <3>3. archive' = [f \in FillIds |->
              IF archive[f].here /\ archive[f].bot = Null
                THEN [archive[f] EXCEPT !.bot = one] ELSE archive[f]]
      BY <1>3, <2>1 DEF AttributesFills, one
    <3> QED BY <1>3, <3>2, <3>3 DEF AttributesFills
  <2> QED BY <1>3, <2>1 DEF AttributesFills
<1>4. ASSUME BootstrapOwnsBots PROVE Ok
  BY <1>4 DEF BootstrapOwnsBots
<1>5. ASSUME BootstrapOwnsChildren PROVE Ok
  BY <1>5 DEF BootstrapOwnsChildren
<1>6. ASSUME NEW b \in BotIds, NEW amount \in Deposits, NEW u \in 1..2, NewBot(b, amount, u)
      PROVE  Ok
  <2>1. amount \in 1..MaxInvested
    BY StoreStartAssumption
  <2>3. amount \in 0..MaxInvested /\ u \in 0..2
    BY <2>1
  <2>2. [here |-> TRUE, invested |-> amount, original |-> amount, user |-> u] \in Row
    BY <2>3
  <2> QED BY <1>6, <2>2 DEF NewBot
<1>7. ASSUME NEW b \in BotIds, Compounds(b) \/ Deletes(b) PROVE Ok
  <2>1. CASE Compounds(b)
    <3>1. table[b].invested + 1 \in 0..MaxInvested
      BY <2>1 DEF Compounds
    <3> QED BY <2>1, <3>1 DEF Compounds
  <2>2. CASE Deletes(b)
    BY <2>2 DEF Deletes
  <2> QED BY <1>7, <2>1, <2>2
<1>8. ASSUME NEW b \in BotIds, NEW f \in FillIds, Archives(f, b) PROVE Ok
  <2>1. (IF table[b].here THEN table[b].user ELSE Null) \in 0..2
    BY DEF Null
  <2>2. [here |-> TRUE, bot |-> b,
         user |-> IF table[b].here THEN table[b].user ELSE Null] \in Fill
    BY <2>1
  <2> QED BY <1>8, <2>2 DEF Archives
<1>p. ASSUME NEW f \in FillIds, PageArchives(f) PROVE Ok
  <2>1. Null \in 0..2
    BY DEF Null
  <2>2. NoFill \in Fill
    BY <2>1 DEF NoFill
  <2>3. [NoFill EXCEPT !.here = TRUE] \in Fill
    <3> HIDE DEF NoFill
    <3> QED BY <2>2
  <2> QED BY <1>p, <2>3 DEF PageArchives
<1>9. Ok
  <2> HIDE DEF Ok
  <2>1. CASE \E f \in FillIds : PageArchives(f)
    BY <1>p, <2>1, Zenon
  <2>2. CASE \E b \in BotIds :
               \/ \E amount \in Deposits, u \in 1..2 : NewBot(b, amount, u)
               \/ Compounds(b) \/ Deletes(b) \/ \E f \in FillIds : Archives(f, b)
    BY <1>6, <1>7, <1>8, <2>2, Zenon
  <2>3. CASE AddsOriginal \/ AttributesFills \/ BootstrapOwnsBots \/ BootstrapOwnsChildren
    BY <1>2, <1>3, <1>4, <1>5, <2>3, Zenon
  <2>4. CASE UNCHANGED <<table, archive>>
    BY <1>1, <2>4, Zenon
  <2> QED BY <2>1, <2>2, <2>3, <2>4, StepsAside, Zenon DEF StoreNext
<1>10. phase' \in {"down", "up"} \cup Steps
  BY DEF StoreNext, CreatesTables, StartsAt, AddsOriginal, AddsQuantity, AddsOptions, AddsLedgers,
    AddsSnapshots, Adds, AttributesFills, AddsOwners, BootstrapSkips, BootstrapCreates,
    BootstrapOwnsBots, BootstrapOwnsChildren, ProcessEnds, SignsUp, NewBot, Compounds, Deletes,
    Archives, PageArchives, storeVars, Steps
<1>11. people' \in 0..2 /\ starts' \in 0..MaxStarts
  BY DEF StoreNext, CreatesTables, StartsAt, AddsOriginal, AddsQuantity, AddsOptions, AddsLedgers,
    AddsSnapshots, Adds, AttributesFills, AddsOwners, BootstrapSkips, BootstrapCreates,
    BootstrapOwnsBots, BootstrapOwnsChildren, ProcessEnds, SignsUp, NewBot, Compounds, Deletes,
    Archives, PageArchives, storeVars
<1>12. unowned' \in BOOLEAN
  BY DEF StoreNext, CreatesTables, StartsAt, AddsOriginal, AddsQuantity, AddsOptions, AddsLedgers,
    AddsSnapshots, Adds, AttributesFills, AddsOwners, BootstrapSkips, BootstrapCreates,
    BootstrapOwnsBots, BootstrapOwnsChildren, ProcessEnds, SignsUp, NewBot, Compounds, Deletes,
    Archives, PageArchives, storeVars
<1>13. ownerless' \subseteq FillIds
  BY DEF StoreNext, CreatesTables, StartsAt, AddsOriginal, AddsQuantity, AddsOptions, AddsLedgers,
    AddsSnapshots, Adds, AttributesFills, AddsOwners, BootstrapSkips, BootstrapCreates,
    BootstrapOwnsBots, BootstrapOwnsChildren, ProcessEnds, SignsUp, NewBot, Compounds, Deletes,
    Archives, PageArchives, storeVars
<1> QED BY <1>9, <1>10, <1>11, <1>12, <1>13, ColumnsStep

\* The database is well typed at every step of every start, and its schema is
\* complete once the process is up (GridBotDB.initialize).
THEOREM StoreIsTyped == StoreSpec => []StoreTypeOK
<1>1. StoreTypeInv => StoreTypeOK
  BY DEF StoreTypeInv
<1> QED BY <1>1, StoreTypeInit, StoreTypeStep, PTL DEF StoreSpec

\* No start and no compound changes the original investment of a bot that has
\* one (the migration fills it only where it is missing).
THEOREM OriginalStays == StoreSpec => OriginalIsKept
<1> DEFINE Keeps == \A b \in BotIds : table[b].original # Null => table'[b].original = table[b].original
<1>1. StoreTypeInv /\ [StoreNext]_storeVars => [Keeps]_storeVars
  <2> SUFFICES ASSUME StoreTypeInv, [StoreNext]_storeVars PROVE Keeps
    OBVIOUS
  <2> USE DEF StoreTypeInv, StoreTypeOK
  <2>1. ASSUME UNCHANGED <<table, archive>> PROVE Keeps
    BY <2>1
  <2>2. CASE AddsOriginal
    BY <2>2 DEF AddsOriginal
  <2>3. CASE AttributesFills \/ BootstrapOwnsChildren
    BY <2>3 DEF AttributesFills, BootstrapOwnsChildren
  <2>4. CASE BootstrapOwnsBots
    BY <2>4 DEF BootstrapOwnsBots
  <2>5. ASSUME NEW b \in BotIds, NEW amount \in Deposits, NEW u \in 1..2, NewBot(b, amount, u)
        PROVE  Keeps
    BY <2>5 DEF NewBot
  <2>6. ASSUME NEW b \in BotIds, Compounds(b) \/ Deletes(b) \/ \E f \in FillIds : Archives(f, b)
        PROVE  Keeps
    BY <2>6 DEF Compounds, Deletes, Archives
  <2>7. ASSUME NEW f \in FillIds, PageArchives(f) PROVE Keeps
    BY <2>7 DEF PageArchives
  <2> HIDE DEF Keeps
  <2> QED BY <2>1, <2>2, <2>3, <2>4, <2>5, <2>6, <2>7, StepsAside DEF StoreNext
<1> QED BY <1>1, StoreTypeInit, StoreTypeStep, PTL DEF StoreSpec, OriginalIsKept

-----------------------------------------------------------------------------
(* Who owns the rows *)

\* Once there is a user, every bot has one from the second statement of the
\* bootstrap on, and every fill from its last, unless it came with no bot to own it.
Owned ==
  people > 0 /\ ~unowned =>
    /\ phase # "bots" => \A b \in BotIds : table[b].here => table[b].user # Null
    /\ phase \notin {"bots", "children"} =>
         \A f \in FillIds \ ownerless : archive[f].here => archive[f].user # Null

LEMMA OwnedStep == StoreTypeInv /\ Owned /\ [StoreNext]_storeVars => Owned'
<1> SUFFICES ASSUME StoreTypeInv, Owned, [StoreNext]_storeVars, people' > 0, ~unowned'
             PROVE  Owned'
  BY DEF Owned
<1> USE DEF StoreTypeInv, StoreTypeOK, Owned, Null
<1>1. CASE CreatesTables \/ AddsQuantity \/ AddsOptions \/ AddsLedgers \/ AddsSnapshots \/ AddsOwners
  BY <1>1 DEF CreatesTables, StartsAt, AddsQuantity, AddsOptions, AddsLedgers, AddsSnapshots, Adds,
     AddsOwners
<1>2. CASE AddsOriginal
  BY <1>2 DEF AddsOriginal
<1>3. CASE AttributesFills
  <2>1. \A f \in FillIds : archive'[f].here = archive[f].here /\ archive'[f].user = archive[f].user
    BY <1>3 DEF AttributesFills
  <2> QED BY <1>3, <2>1 DEF AttributesFills
<1>4. CASE BootstrapSkips \/ BootstrapCreates \/ ProcessEnds
  BY <1>4 DEF BootstrapSkips, BootstrapCreates, ProcessEnds
<1>5. CASE BootstrapOwnsBots
  BY <1>5 DEF BootstrapOwnsBots
<1>6. CASE BootstrapOwnsChildren
  BY <1>6 DEF BootstrapOwnsChildren
<1>7. CASE SignsUp
  BY <1>7 DEF SignsUp
<1>8. ASSUME NEW b \in BotIds, NEW amount \in Deposits, NEW u \in 1..2, NewBot(b, amount, u)
      PROVE  Owned'
  BY <1>8 DEF NewBot
<1>9. ASSUME NEW b \in BotIds, Compounds(b) \/ Deletes(b) PROVE Owned'
  BY <1>9 DEF Compounds, Deletes
<1>10. ASSUME NEW b \in BotIds, NEW f \in FillIds, Archives(f, b) PROVE Owned'
  BY <1>10 DEF Archives, NoFill
<1>p. ASSUME NEW f \in FillIds, PageArchives(f) PROVE Owned'
  BY <1>p DEF PageArchives, NoFill
<1>11. CASE UNCHANGED storeVars
  BY <1>11 DEF storeVars
<1> QED BY <1>1, <1>2, <1>3, <1>4, <1>5, <1>6, <1>7, <1>8, <1>9, <1>10, <1>p, <1>11
        DEF StoreNext

\* Once there is an owner every bot has one when the process is up, and every fill
\* that was there at the bootstrap or came with its bot's row, wherever a start was
\* broken off before the bootstrap began (ownerBootstrap).
THEOREM RowsHaveOwners == StoreSpec => []EveryRowOwned
<1>1. StoreInit => Owned
  <2>1. people = 0 => ~(people > 0)
    OBVIOUS
  <2>2. StoreInit => people = 0
    BY DEF StoreInit
  <2> QED BY <2>1, <2>2 DEF Owned
<1>2. Owned /\ StoreTypeInv => EveryRowOwned
  BY DEF Owned, EveryRowOwned, Here
<1> QED BY <1>1, <1>2, StoreTypeInit, StoreTypeStep, OwnedStep, PTL DEF StoreSpec

-----------------------------------------------------------------------------
(* Notifier *)

\* What is saved, remembered or about to be saved.
StateOK(s) ==
  /\ s = [cursors |-> s.cursors, status |-> s.status, hwm |-> s.hwm, hash |-> s.hash,
          summary |-> s.summary]
  /\ s.cursors \in [Owners -> -1..MaxTrips]
  /\ s.status \in [Owners -> {"none", "running", "paused"}]
  /\ s.hwm \in [Owners -> -1..2]
  /\ s.hash = [u \in Owners |-> s.hash[u]]
  /\ s.summary \in -1..MaxNews

NotifierShape ==
  /\ trips \in Seq(Owners) /\ Len(trips) <= MaxTrips
  /\ fleet \in [Owners -> BotRows] /\ seen \in [Owners -> BotRows]
  /\ today \in 0..news /\ news \in 0..MaxNews /\ faults \in 0..MaxNotifyFaults
  /\ StateOK(saved) /\ StateOK(mem) /\ StateOK(patch)
  /\ check \in {"down", "idle", "status", "drawdown", "liquidation", "trips", "summary"}
  /\ \A e \in todo : e.owner \in Owners
  /\ passed \subseteq 1..MaxTrips /\ skipped \subseteq 1..MaxTrips
  /\ toldTrips \in [1..MaxTrips -> Nat]

\* Between two ticks there is nothing to send and to save.
AtRest ==
  /\ check \in {"down", "idle"} => todo = {} /\ patch = mem
  /\ check = "down" => mem = saved

\* The owners that are there from the start have a cursor once the notifier has
\* started; no cursor is ahead of the round trips.
CursorsThere ==
  /\ \A u \in Known : fleet[u].status # "none"
  /\ check # "down" => \A u \in Known : /\ mem.cursors[u] # NoEntry
                                        /\ saved.cursors[u] # NoEntry
                                        /\ patch.cursors[u] # NoEntry
  /\ \A v \in Owners : saved.cursors[v] # NoEntry =>
       \A u \in Known : saved.cursors[u] # NoEntry
  /\ \A u \in Owners : /\ mem.cursors[u] <= patch.cursors[u]
                       /\ mem.cursors[u] <= Len(trips)
                       /\ saved.cursors[u] <= Len(trips)
                       /\ patch.cursors[u] <= Len(trips)

\* The round trip i counts as told in the state s.
Covers(s, i) == i <= s.cursors[trips[i]]

\* The message about i is still to be sent.
Unsent(i) == \E e \in todo : e.kind = "trips" /\ i \in e.what

\* A batch holds round trips of one owner, which the state to be saved counts as
\* told and the one remembered does not; an owner gets one batch.
BatchesAreNew ==
  /\ check # "trips" => patch.cursors = mem.cursors
  /\ \A e \in todo : e.kind = "trips" =>
       /\ check = "trips"
       /\ \A i \in e.what : /\ i \in DOMAIN trips /\ trips[i] = e.owner
                            /\ Covers(patch, i) /\ ~Covers(mem, i)
  /\ \A e, f \in todo : e.kind = "trips" /\ f.kind = "trips" /\ e.owner = f.owner => e = f

\* How often i may have been told: once for each fault, and once if it counts.
Counts(i) == Covers(mem, i) \/ (Covers(patch, i) /\ ~Unsent(i))

TripsTold ==
  /\ \A i \in 1..MaxTrips : i \notin DOMAIN trips => toldTrips[i] = 0
  /\ \A i \in DOMAIN trips : toldTrips[i] <= faults + 1 /\ (~Counts(i) => toldTrips[i] <= faults)
  /\ \A i \in DOMAIN trips \ (passed \cup skipped) :
       Covers(saved, i) \/ Counts(i) => toldTrips[i] > 0
  /\ skipped \subseteq DOMAIN trips /\ \A i \in skipped : trips[i] \notin Known

\* The mark of u in s was told, as a drawdown or a liquidation that is near.
MarkTold(s, u) ==
  s.hash[u] # <<>> => \E kind \in {"drawdown", "liquidation"} : <<kind, u, s.hash[u]>> \in told

Message(kind, u, what) == [kind |-> kind, owner |-> u, what |-> what]

MarksTold ==
  /\ \A u \in Owners : MarkTold(saved, u) /\ MarkTold(mem, u)
  /\ \A u \in Owners : patch.hash[u] # <<>> => \E kind \in {"drawdown", "liquidation"} :
       <<kind, u, patch.hash[u]>> \in told \/ Message(kind, u, patch.hash[u]) \in todo

\* In the last check the day's summary of every running bot is sent or to be sent.
SummariesTold ==
  check = "summary" => \A u \in Owners : seen[u].status = "running" =>
    <<"summary", u, patch.summary>> \in told \/ Message("summary", u, patch.summary) \in todo

NotifierInv ==
  /\ NotifierShape /\ AtRest /\ CursorsThere /\ BatchesAreNew
  /\ TripsTold /\ MarksTold /\ SummariesTold

LEMMA NotifierInitial == NotifierInit => NotifierInv
<1> SUFFICES ASSUME NotifierInit PROVE NotifierInv
  OBVIOUS
<1> USE NotifierAssumption DEF NotifierInit
<1>1. StateOK(FreshState)
  BY DEF StateOK, FreshState, NoEntry
<1>2. fleet \in [Owners -> BotRows] /\ \A u \in Known : fleet[u].status # "none"
  BY DEF BotRows, NoBotRow
<1>3. NotifierShape
  BY <1>1, <1>2 DEF NotifierShape
<1>4. CursorsThere
  BY <1>2 DEF CursorsThere, FreshState, NoEntry
<1>5. BatchesAreNew /\ TripsTold
  BY DEF BatchesAreNew, TripsTold
<1>6. MarksTold
  BY DEF MarksTold, MarkTold, FreshState
<1> QED BY <1>3, <1>4, <1>5, <1>6 DEF NotifierInv, AtRest, SummariesTold

\* The checks that plan no batch of round trips.
Quiet ==
  /\ todo = {} /\ mem = patch /\ check # "down"
  /\ check' \in {"status", "drawdown", "liquidation", "summary"}
  /\ UNCHANGED <<worldVars, saved, mem, faults, passed, skipped, toldTrips, told>>
  /\ seen' \in [Owners -> BotRows]
  /\ StateOK(patch)' /\ patch'.cursors = mem.cursors
  /\ \A e \in todo' : e.owner \in Owners /\ e.kind # "trips"
  /\ \A u \in Owners :
       \/ patch'.hash[u] = mem.hash[u]
       \/ \E kind \in {"drawdown", "liquidation"} : Message(kind, u, patch'.hash[u]) \in todo'
  /\ SummariesTold'

LEMMA StatusIsQuiet == ASSUME NotifierShape, AtRest, StatusTransitions PROVE Quiet
<1> DEFINE status == [u \in Owners |->
             IF fleet[u] # NoBotRow THEN fleet[u].status ELSE mem.status[u]]
<1>1. patch' = [mem EXCEPT !.status = status] /\ check' = "status" /\ check = "idle"
  BY DEF StatusTransitions, Planned
<1>2. status \in [Owners -> {"none", "running", "paused"}]
  BY DEF NotifierShape, BotRows, StateOK
<1>3. StateOK(patch') /\ patch'.cursors = mem.cursors /\ patch'.hash = mem.hash
  BY <1>1, <1>2 DEF NotifierShape, StateOK
<1>4. \A e \in todo' : e.owner \in Owners /\ e.kind # "trips"
  BY DEF StatusTransitions, Planned
<1> QED BY <1>1, <1>3, <1>4 DEF StatusTransitions, Planned, Quiet, AtRest, NotifierShape, SummariesTold

LEMMA DrawdownIsQuiet == ASSUME NotifierShape, AtRest, Drawdown PROVE Quiet
<1> DEFINE hwm(u) == IF mem.hwm[u] = NoEntry THEN seen[u].equity ELSE mem.hwm[u]
           rises == {u \in Owners : seen[u] # NoBotRow /\ seen[u].equity > hwm(u)}
           mark(u) == <<"dd", hwm(u), hwm(u) - seen[u].equity>>
           drops == {u \in Owners : seen[u] # NoBotRow /\ seen[u].equity < hwm(u)
                                    /\ mem.hash[u] # mark(u)}
           highs == [u \in Owners |-> IF u \in rises THEN seen[u].equity ELSE mem.hwm[u]]
           marks == [u \in Owners |-> IF u \in drops THEN mark(u) ELSE mem.hash[u]]
<1>1. /\ patch' = [mem EXCEPT !.hwm = highs, !.hash = marks] /\ check' = "drawdown"
      /\ todo' = {[kind |-> "drawdown", owner |-> u, what |-> mark(u)] : u \in drops}
      /\ todo = {} /\ mem = patch /\ check = "status"
      /\ UNCHANGED <<worldVars, saved, mem, faults, passed, skipped, toldTrips, told, seen>>
  BY DEF Drawdown, Planned, Done
<1>2. highs \in [Owners -> -1..2]
  BY DEF NotifierShape, BotRows, StateOK
<1> HIDE DEF rises, mark, highs
<1>3. StateOK(patch') /\ patch'.cursors = mem.cursors /\ patch'.hash = marks
  BY <1>1, <1>2 DEF NotifierShape, StateOK
<1>4. \A e \in todo' : e.owner \in Owners /\ e.kind # "trips"
  BY <1>1
<1>5. ASSUME NEW u \in Owners
      PROVE  \/ patch'.hash[u] = mem.hash[u]
             \/ Message("drawdown", u, patch'.hash[u]) \in todo'
  BY <1>1, <1>3 DEF Message
<1> QED BY <1>1, <1>3, <1>4, <1>5 DEF Quiet, NotifierShape, SummariesTold

LEMMA LiquidationIsQuiet == ASSUME NotifierShape, AtRest, LiqProximity PROVE Quiet
<1> DEFINE mark(u) == <<"liq", seen[u].near>>
           close == {u \in Owners : seen[u].status = "running" /\ seen[u].near > 0
                                    /\ mem.hash[u] # mark(u)}
           marks == [u \in Owners |-> IF u \in close THEN mark(u) ELSE mem.hash[u]]
<1>1. /\ patch' = [mem EXCEPT !.hash = marks] /\ check' = "liquidation"
      /\ todo' = {[kind |-> "liquidation", owner |-> u, what |-> mark(u)] : u \in close}
      /\ todo = {} /\ mem = patch /\ check = "drawdown"
      /\ UNCHANGED <<worldVars, saved, mem, faults, passed, skipped, toldTrips, told, seen>>
  BY DEF LiqProximity, Planned, Done
<1> HIDE DEF mark
<1>2. StateOK(patch') /\ patch'.cursors = mem.cursors /\ patch'.hash = marks
  BY <1>1 DEF NotifierShape, StateOK
<1>3. \A e \in todo' : e.owner \in Owners /\ e.kind # "trips"
  BY <1>1
<1>4. ASSUME NEW u \in Owners
      PROVE  \/ patch'.hash[u] = mem.hash[u]
             \/ Message("liquidation", u, patch'.hash[u]) \in todo'
  BY <1>1, <1>2 DEF Message
<1> QED BY <1>1, <1>2, <1>3, <1>4 DEF Quiet, NotifierShape, SummariesTold

LEMMA SummaryIsQuiet == ASSUME NotifierShape, AtRest, DailySummary PROVE Quiet
<1>1. /\ patch' = [mem EXCEPT !.summary = today] /\ check' = "summary"
      /\ todo' = {[kind |-> "summary", owner |-> u, what |-> today] :
                    u \in {v \in Owners : seen[v].status = "running"}}
      /\ todo = {} /\ mem = patch /\ check = "trips"
      /\ UNCHANGED <<worldVars, saved, mem, faults, passed, skipped, toldTrips, told, seen>>
  BY DEF DailySummary, Planned, Done
<1>2. /\ StateOK(patch') /\ patch'.cursors = mem.cursors /\ patch'.hash = mem.hash
      /\ patch'.summary = today
  <2>1. today \in -1..MaxNews /\ StateOK(mem)
    BY NotifierAssumption DEF NotifierShape
  <2> QED BY <1>1, <2>1 DEF StateOK
<1>3. \A e \in todo' : e.owner \in Owners /\ e.kind # "trips"
  BY <1>1
<1>4. SummariesTold'
  BY <1>1, <1>2 DEF SummariesTold, Message
<1> QED BY <1>1, <1>2, <1>3, <1>4 DEF Quiet, NotifierShape

\* The check that plans batches.
Batched ==
  /\ todo = {} /\ mem = patch /\ check = "liquidation" /\ check' = "trips"
  /\ UNCHANGED <<worldVars, saved, mem, faults, passed, toldTrips, told, seen>>
  /\ StateOK(patch)' /\ patch'.hash = mem.hash
  /\ \A u \in Owners : mem.cursors[u] <= patch'.cursors[u] /\ patch'.cursors[u] <= Len(trips)
  /\ \A e \in todo' : /\ e.owner \in Owners /\ e.kind = "trips"
                      /\ \A i \in e.what : /\ i \in DOMAIN trips /\ trips[i] = e.owner
                                           /\ Covers(patch', i) /\ ~Covers(mem, i)
  /\ \A e, f \in todo' : e.owner = f.owner => e = f
  /\ skipped' = skipped \cup PassedOver
  /\ \A i \in DOMAIN trips : i \notin skipped' /\ Covers(patch', i) /\ ~Covers(mem, i)
       => Unsent(i)'

\* A page starts after the smallest cursor.
LEMMA PageIs ==
  ASSUME NotifierShape, CursorsThere
  PROVE  /\ PageStart \in Nat
         /\ \A u \in HasCursor : PageStart <= mem.cursors[u] /\ mem.cursors[u] \in Nat
<1>1. \A u \in Owners : mem.cursors[u] \in -1..MaxTrips
  BY DEF NotifierShape, StateOK
<1> DEFINE all == {mem.cursors[v] : v \in HasCursor}
<1>2. \A u \in HasCursor : mem.cursors[u] \in 0..MaxTrips
  BY <1>1, NotifierAssumption DEF HasCursor, NoEntry
<1>3. CASE HasCursor = {}
  BY <1>3 DEF PageStart
<1>4. CASE HasCursor # {}
  <2>1. all \subseteq 0..MaxTrips /\ all # {}
    BY <1>2, <1>4
  <2>2. Min(all) \in all /\ \A x \in all : Min(all) <= x
    BY <2>1, MinOf, NotifierAssumption
  <2>3. PageStart = Min(all)
    BY <1>4 DEF PageStart
  <2> QED BY <1>2, <2>1, <2>2, <2>3
<1> QED BY <1>3, <1>4

LEMMA RoundtripsAreBatched ==
  ASSUME NotifierShape, AtRest, CursorsThere, Roundtrips
  PROVE  Batched
<1> DEFINE full == {u \in Owners : Cardinality(New(u)) >= Batch}
           moved == [u \in Owners |-> IF u \in full THEN Max(New(u)) ELSE mem.cursors[u]]
<1>1. /\ patch' = [mem EXCEPT !.cursors = moved] /\ check' = "trips"
      /\ todo' = {[kind |-> "trips", owner |-> u, what |-> New(u)] : u \in full}
      /\ todo = {} /\ mem = patch /\ check = "liquidation"
      /\ UNCHANGED <<worldVars, saved, mem, faults, passed, toldTrips, told, seen>>
  BY DEF Roundtrips, Planned, Done
<1>2. DOMAIN trips = 1..Len(trips) /\ Len(trips) \in Nat /\ \A i \in DOMAIN trips : trips[i] \in Owners
  BY DEF NotifierShape
<1>3. ASSUME NEW u \in full
      PROVE  /\ Max(New(u)) \in New(u) /\ \A i \in New(u) : i <= Max(New(u))
             /\ New(u) \subseteq 1..Len(trips)
             /\ \A i \in New(u) : trips[i] = u /\ i > Cursor(u)
  <2>1. New(u) \subseteq 1..Len(trips) /\ \A i \in New(u) : trips[i] = u /\ i > Cursor(u)
    BY <1>2 DEF New, Candidates
  <2>2. New(u) # {}
    <3>1. Cardinality({}) = 0
      BY FS_EmptySet
    <3> QED BY <3>1, NotifierAssumption
  <2>3. New(u) \subseteq 0..Len(trips)
    BY <2>1
  <2> QED BY <1>2, <2>1, <2>2, <2>3, MaxOf
<1>4. \A u \in Owners : /\ mem.cursors[u] \in Int /\ mem.cursors[u] <= Len(trips)
                        /\ -1 <= mem.cursors[u] /\ mem.cursors[u] <= MaxTrips
  BY NotifierAssumption DEF NotifierShape, StateOK, CursorsThere
<1>5. \A u \in Owners : Cursor(u) \in Int /\ Cursor(u) >= mem.cursors[u] /\ Cursor(u) >= 0
  BY <1>4 DEF Cursor, NoEntry
<1>6. \A u \in Owners : moved[u] \in -1..MaxTrips /\ mem.cursors[u] <= moved[u] /\ moved[u] <= Len(trips)
  <2> SUFFICES ASSUME NEW u \in Owners
               PROVE  moved[u] \in -1..MaxTrips /\ mem.cursors[u] <= moved[u] /\ moved[u] <= Len(trips)
    OBVIOUS
  <2>1. CASE u \in full
    <3>1. moved[u] = Max(New(u))
      BY <2>1
    <3>2. Max(New(u)) \in 1..Len(trips) /\ Max(New(u)) > Cursor(u)
      BY <1>3, <2>1
    <3> QED BY <1>2, <1>4, <1>5, <3>1, <3>2, NotifierAssumption DEF NotifierShape
  <2>2. CASE u \notin full
    BY <1>4, <2>2, NotifierAssumption
  <2> QED BY <2>1, <2>2
<1>a. moved \in [Owners -> -1..MaxTrips]
  BY <1>6
<1>b. \A u \in full : moved[u] = Max(New(u))
  OBVIOUS
<1>c. \A u \in Owners : u \notin full => moved[u] = mem.cursors[u]
  OBVIOUS
<1>d. full \subseteq Owners
  OBVIOUS
<1> HIDE DEF moved, full
<1>7. StateOK(patch') /\ patch'.cursors = moved /\ patch'.hash = mem.hash
  BY <1>1, <1>a DEF NotifierShape, StateOK
<1>12. skipped' = skipped \cup PassedOver
  BY DEF Roundtrips
<1>13. PageStart \in Nat
  BY PageIs
<1>8. ASSUME NEW e \in todo', NEW i \in e.what
      PROVE  i \in DOMAIN trips /\ trips[i] = e.owner /\ Covers(patch', i) /\ ~Covers(mem, i)
  <2>1. PICK u \in full : e = [kind |-> "trips", owner |-> u, what |-> New(u)]
    BY <1>1
  <2>2. i \in New(u)
    BY <2>1
  <2>3. trips[i] = u /\ i \in 1..Len(trips) /\ i > Cursor(u) /\ i <= moved[u]
    BY <1>3, <1>b, <2>2
  <2> QED BY <1>2, <1>4, <1>5, <1>7, <1>d, <2>1, <2>3 DEF Covers
<1>9. ASSUME NEW i \in DOMAIN trips, i \notin skipped', Covers(patch', i), ~Covers(mem, i)
      PROVE  Unsent(i)'
  <2> DEFINE u == trips[i]
  <2>1. u \in Owners /\ i \in Nat /\ i >= 1
    BY <1>2
  <2>2. u \in full /\ i <= Max(New(u)) /\ i > mem.cursors[u]
    BY <1>4, <1>7, <1>9, <1>b, <1>c, <2>1 DEF Covers
  <2>3. i > Cursor(u)
    BY <2>1, <2>2 DEF Cursor
  <2>4. i \notin PassedOver
    BY <1>9, <1>12
  <2>5. PageStart \in Nat
    BY <1>13
  <2>6. i > PageStart
    BY <1>9, <2>1, <2>3, <2>4, <2>5 DEF PassedOver
  <2>8. Max(New(u)) \in Candidates /\ Max(New(u)) \in Nat
    <3>1. Max(New(u)) \in New(u) /\ New(u) \subseteq 1..Len(trips)
      BY <1>3, <2>2
    <3>2. New(u) \subseteq Candidates
      BY DEF New
    <3> QED BY <1>2, <3>1, <3>2
  <2>9. i \in Candidates
    BY <1>9, <2>1, <2>2, <2>5, <2>6, <2>8, NotifierAssumption DEF Candidates
  <2>11. i \in New(u)
    BY <2>3, <2>9 DEF New
  <2>12. [kind |-> "trips", owner |-> u, what |-> New(u)] \in todo'
    BY <1>1, <2>2
  <2> DEFINE e == [kind |-> "trips", owner |-> u, what |-> New(u)]
  <2>13. e \in todo' /\ e.kind = "trips" /\ i \in e.what
    BY <2>11, <2>12
  <2> QED BY <2>13 DEF Unsent
<1>10. \A e \in todo' : e.owner \in Owners /\ e.kind = "trips"
  BY <1>1, <1>d
<1>11. \A e, f \in todo' : e.owner = f.owner => e = f
  BY <1>1
<1> QED BY <1>1, <1>6, <1>7, <1>8, <1>9, <1>10, <1>11, <1>12 DEF Batched

\* The notifier starts from what it saved, or for the first time.
Booted ==
  /\ check = "down" /\ check' = "idle" /\ todo' = {} /\ seen' = fleet
  /\ saved' = mem' /\ patch' = mem' /\ StateOK(mem)' /\ mem'.hash = saved.hash
  /\ UNCHANGED <<worldVars, faults, skipped, toldTrips, told>>
  /\ \/ /\ mem' = saved /\ passed' = passed
        /\ \E u \in Owners : saved.cursors[u] # NoEntry
     \/ /\ \A u \in Owners : saved.cursors[u] = NoEntry
        /\ passed' = passed \cup DOMAIN trips
        /\ \A u \in Known : mem'.cursors[u] # NoEntry
        /\ \A u \in Owners : mem'.cursors[u] <= Len(trips)

LEMMA BootsFromSaved == ASSUME NotifierShape, CursorsThere, Boots PROVE Booted
<1> DEFINE cursors == [u \in Owners |->
              IF fleet[u] # NoBotRow \/ TripsOf(u) # {} THEN Max({0} \cup TripsOf(u))
              ELSE NoEntry]
           hwm == [u \in Owners |->
              IF fleet[u] # NoBotRow THEN fleet[u].equity ELSE NoEntry]
           first == [saved EXCEPT !.cursors = cursors, !.hwm = hwm]
<1>1. DOMAIN trips = 1..Len(trips) /\ Len(trips) \in Nat
  BY DEF NotifierShape
<1>2. \A u \in Owners : Max({0} \cup TripsOf(u)) \in 0..Len(trips)
  <2>1. \A u \in Owners : {0} \cup TripsOf(u) \subseteq 0..Len(trips)
    BY <1>1 DEF TripsOf
  <2> QED BY <1>1, <2>1, MaxOf
<1>3. cursors \in [Owners -> -1..MaxTrips] /\ \A u \in Owners : cursors[u] <= Len(trips)
  <2>1. Len(trips) <= MaxTrips /\ MaxTrips \in Nat
    BY NotifierAssumption DEF NotifierShape
  <2>2. \A u \in Owners : cursors[u] \in -1..Len(trips)
    BY <1>1, <1>2 DEF NoEntry
  <2>3. cursors = [u \in Owners |-> cursors[u]]
    OBVIOUS
  <2> HIDE DEF cursors
  <2>4. \A u \in Owners : cursors[u] \in -1..MaxTrips /\ cursors[u] <= Len(trips)
    BY <1>1, <2>1, <2>2
  <2> QED BY <2>3, <2>4
<1>4. hwm \in [Owners -> -1..2]
  BY DEF NotifierShape, BotRows, NoEntry
<1>5. \A u \in Known : cursors[u] # NoEntry
  <2>1. \A u \in Known : u \in Owners /\ fleet[u] # NoBotRow
    BY NotifierAssumption DEF CursorsThere, NoBotRow
  <2> QED BY <1>2, <2>1 DEF NoEntry
<1>6. /\ check = "down" /\ check' = "idle" /\ todo' = {} /\ seen' = fleet
      /\ saved' = mem' /\ patch' = mem' /\ UNCHANGED <<worldVars, faults, skipped, toldTrips, told>>
      /\ \/ /\ mem' = saved /\ passed' = passed
            /\ \E u \in Owners : saved.cursors[u] # NoEntry
         \/ /\ \A u \in Owners : saved.cursors[u] = NoEntry
            /\ mem' = first /\ passed' = passed \cup DOMAIN trips
  BY DEF Boots
<1> HIDE DEF cursors, hwm
<1>7. StateOK(first) /\ first.cursors = cursors /\ first.hash = saved.hash
  <2>1. StateOK(saved)
    BY DEF NotifierShape
  <2>2. ASSUME NEW f, f = first
        PROVE  StateOK(f) /\ f.cursors = cursors /\ f.hash = saved.hash
    BY <1>3, <1>4, <2>1, <2>2 DEF StateOK
  <2> QED BY <2>2
<1>8. CASE mem' = saved
  BY <1>6, <1>7, <1>8, <1>3, <1>5 DEF Booted, NotifierShape
<1>9. CASE mem' = first
  <2> HIDE DEF first
  <2> QED BY <1>3, <1>5, <1>6, <1>7, <1>9 DEF Booted, NotifierShape
<1> QED BY <1>6, <1>8, <1>9

\* The steps, with the planning of a check told apart by what it plans.
NotifierStep ==
  \/ \E u \in Owners : RoundTrip(u)
  \/ \E u \in Owners, row \in BotRows : BotChanges(u, row)
  \/ NextDay
  \/ Booted \/ Quiet \/ Batched \/ TickEnds
  \/ \E e \in todo : Sends(e)
  \/ Saves \/ SaveFails \/ ReadFails \/ NotifierDies
  \/ UNCHANGED notifierVars

LEMMA NotifierSteps == NotifierInv /\ [NotifierNext]_notifierVars => NotifierStep
BY StatusIsQuiet, DrawdownIsQuiet, LiquidationIsQuiet, SummaryIsQuiet, RoundtripsAreBatched,
   BootsFromSaved DEF NotifierInv, NotifierNext, NotifierStep

LEMMA ShapeStep == NotifierShape /\ AtRest /\ NotifierStep => NotifierShape'
<1> SUFFICES ASSUME NotifierShape, AtRest, NotifierStep PROVE NotifierShape'
  OBVIOUS
<1> USE NotifierAssumption DEF NotifierShape, worldVars
<1>0. StateOK(saved') = StateOK(saved)' /\ StateOK(mem') = StateOK(mem)'
      /\ StateOK(patch') = StateOK(patch)'
  BY DEF StateOK
<1>1. ASSUME NEW u \in Owners, RoundTrip(u) PROVE NotifierShape'
  <2>1. trips' \in Seq(Owners) /\ Len(trips') = Len(trips) + 1
    BY <1>1 DEF RoundTrip
  <2> QED BY <1>0, <1>1, <2>1 DEF RoundTrip
<1>2. ASSUME NEW u \in Owners, NEW row \in BotRows, BotChanges(u, row) PROVE NotifierShape'
  BY <1>0, <1>2 DEF BotChanges
<1>3. CASE NextDay
  BY <1>0, <1>3 DEF NextDay
<1>4. CASE Booted
  <2>1. DOMAIN trips \subseteq 1..MaxTrips
    OBVIOUS
  <2>2. passed' \subseteq 1..MaxTrips
    BY <1>4, <2>1 DEF Booted
  <2> QED BY <1>0, <1>4, <2>2 DEF Booted
<1>5. CASE Quiet
  <2>1. /\ UNCHANGED <<worldVars, saved, mem, faults, passed, skipped, toldTrips>>
        /\ StateOK(patch)' /\ seen' \in [Owners -> BotRows]
        /\ check' \in {"status", "drawdown", "liquidation", "summary"}
        /\ \A e \in todo' : e.owner \in Owners
    BY <1>5 DEF Quiet
  <2> QED BY <1>0, <2>1
<1>6. CASE Batched
  <2>0. DOMAIN trips \subseteq 1..MaxTrips
    OBVIOUS
  <2>1. skipped' \subseteq 1..MaxTrips
    <3>1. skipped' = skipped \cup PassedOver /\ PassedOver \subseteq DOMAIN trips
      BY <1>6 DEF Batched, PassedOver
    <3> QED BY <2>0, <3>1
  <2>2. /\ UNCHANGED <<worldVars, saved, mem, faults, passed, seen, toldTrips>>
        /\ StateOK(patch)' /\ check' = "trips" /\ \A e \in todo' : e.owner \in Owners
    BY <1>6 DEF Batched
  <2> QED BY <1>0, <2>1, <2>2
<1>7. CASE TickEnds \/ Saves
  BY <1>0, <1>7 DEF TickEnds, Saves
<1>8. ASSUME NEW e \in todo, Sends(e) PROVE NotifierShape'
  <2>1. toldTrips' \in [1..MaxTrips -> Nat]
    BY <1>8 DEF Sends
  <2> QED BY <1>0, <1>8, <2>1 DEF Sends
<1>9. CASE SaveFails \/ ReadFails \/ NotifierDies
  <2>1. faults' \in 0..MaxNotifyFaults
    BY <1>9 DEF SaveFails, ReadFails, NotifierDies, NotifyFault
  <2>2. /\ saved' = saved /\ mem' \in {mem, patch, saved} /\ patch' \in {mem, patch, saved}
        /\ check' \in {"idle", "down"} /\ todo' \subseteq todo
        /\ UNCHANGED <<worldVars, seen, passed, skipped, toldTrips>>
    BY <1>9 DEF SaveFails, ReadFails, NotifierDies
  <2> QED BY <1>0, <2>1, <2>2
<1>10. CASE UNCHANGED notifierVars
  BY <1>0, <1>10 DEF notifierVars
<1> QED BY <1>1, <1>2, <1>3, <1>4, <1>5, <1>6, <1>7, <1>8, <1>9, <1>10 DEF NotifierStep

LEMMA RestStep == NotifierShape /\ AtRest /\ NotifierStep => AtRest'
BY DEF AtRest, NotifierStep, NotifierShape, RoundTrip, BotChanges, NextDay, Booted, Quiet, Batched,
       TickEnds, Done, Sends, Saves, SaveFails, ReadFails, NotifierDies, notifierVars, worldVars

LEMMA CursorsStep == NotifierShape /\ AtRest /\ CursorsThere /\ NotifierStep => CursorsThere'
<1> SUFFICES ASSUME NotifierShape, AtRest, CursorsThere, NotifierStep PROVE CursorsThere'
  OBVIOUS
<1> USE NotifierAssumption DEF CursorsThere, worldVars
<1>0. \A v \in Owners : mem.cursors[v] \in Int /\ saved.cursors[v] \in Int /\ patch.cursors[v] \in Int
  BY DEF NotifierShape, StateOK
<1>1. ASSUME NEW u \in Owners, RoundTrip(u) PROVE CursorsThere'
  <2>1. Len(trips) \in Nat /\ Len(trips') = Len(trips) + 1
    BY <1>1 DEF RoundTrip, NotifierShape
  <2> QED BY <1>0, <1>1, <2>1 DEF RoundTrip
<1>2. ASSUME NEW u \in Owners, NEW row \in BotRows, BotChanges(u, row) PROVE CursorsThere'
  <2>1. \A v \in Known : fleet'[v].status # "none"
    BY <1>2 DEF BotChanges, NotifierShape
  <2> QED BY <1>2, <2>1 DEF BotChanges
<1>3. CASE NextDay
  BY <1>3 DEF NextDay
<1>4. CASE Booted
  <2>1. \A v \in Owners : mem'.cursors[v] \in Int
    BY <1>4 DEF Booted, StateOK
  <2> QED BY <1>4, <2>1 DEF Booted
<1>5. CASE Quiet
  BY <1>0, <1>5 DEF Quiet
<1>6. CASE Batched
  <2>1. \A v \in Owners : mem.cursors[v] # NoEntry => patch'.cursors[v] # NoEntry
    BY <1>6 DEF Batched, NotifierShape, StateOK, NoEntry
  <2> QED BY <1>6, <2>1 DEF Batched, NotifierShape
<1>7. CASE TickEnds \/ Saves
  BY <1>0, <1>7 DEF TickEnds, Saves, NotifierShape, Done
<1>8. ASSUME NEW e \in todo, Sends(e) PROVE CursorsThere'
  BY <1>8 DEF Sends
<1>9. CASE SaveFails \/ ReadFails \/ NotifierDies
  BY <1>0, <1>9 DEF SaveFails, ReadFails, NotifierDies
<1>10. CASE UNCHANGED notifierVars
  BY <1>10 DEF notifierVars
<1> QED BY <1>1, <1>2, <1>3, <1>4, <1>5, <1>6, <1>7, <1>8, <1>9, <1>10 DEF NotifierStep

LEMMA BatchesStep ==
  NotifierShape /\ AtRest /\ BatchesAreNew /\ NotifierStep => BatchesAreNew'
<1> SUFFICES ASSUME NotifierShape, AtRest, BatchesAreNew, NotifierStep PROVE BatchesAreNew'
  OBVIOUS
<1> USE DEF BatchesAreNew, Covers, worldVars
<1>1. ASSUME NEW u \in Owners, RoundTrip(u) PROVE BatchesAreNew'
  <2>1. \A i \in DOMAIN trips : i \in DOMAIN trips' /\ trips'[i] = trips[i]
    BY <1>1 DEF RoundTrip, NotifierShape
  <2> QED BY <1>1, <2>1 DEF RoundTrip
<1>2. ASSUME NEW u \in Owners, NEW row \in BotRows, BotChanges(u, row) PROVE BatchesAreNew'
  BY <1>2 DEF BotChanges
<1>3. CASE NextDay
  BY <1>3 DEF NextDay
<1>4. CASE Booted
  BY <1>4 DEF Booted
<1>5. CASE Quiet
  BY <1>5 DEF Quiet
<1>6. CASE Batched
  BY <1>6 DEF Batched
<1>7. CASE TickEnds \/ Saves
  BY <1>7 DEF TickEnds, Saves, Done
<1>8. ASSUME NEW e \in todo, Sends(e) PROVE BatchesAreNew'
  BY <1>8 DEF Sends
<1>9. CASE SaveFails \/ ReadFails \/ NotifierDies
  BY <1>9 DEF SaveFails, ReadFails, NotifierDies
<1>10. CASE UNCHANGED notifierVars
  BY <1>10 DEF notifierVars
<1> QED BY <1>1, <1>2, <1>3, <1>4, <1>5, <1>6, <1>7, <1>8, <1>9, <1>10 DEF NotifierStep

\* A fault allows each round trip to be told once more; what a fault or a start sets
\* back is what the saved state does not count as told.
LEMMA TripsStep ==
  NotifierShape /\ AtRest /\ CursorsThere /\ BatchesAreNew /\ TripsTold /\ NotifierStep
    => TripsTold'
<1> SUFFICES ASSUME NotifierShape, AtRest, CursorsThere, BatchesAreNew, TripsTold, NotifierStep
             PROVE  TripsTold'
  OBVIOUS
<1> DEFINE Low(i) == toldTrips[i] <= faults
<1>a. /\ DOMAIN trips = 1..Len(trips) /\ Len(trips) \in Nat /\ Len(trips) <= MaxTrips
      /\ faults \in Nat /\ \A i \in 1..MaxTrips : toldTrips[i] \in Nat
      /\ \A i \in DOMAIN trips : i \in 1..MaxTrips /\ trips[i] \in Owners
  BY NotifierAssumption DEF NotifierShape
<1>1. ASSUME NEW u \in Owners, RoundTrip(u) PROVE TripsTold'
  <2>1. PICK n \in Nat : n = Len(trips) + 1
    BY <1>a
  <2>2. /\ DOMAIN trips' = DOMAIN trips \cup {n} /\ trips'[n] = u /\ n \in 1..MaxTrips
        /\ n \notin DOMAIN trips /\ \A i \in DOMAIN trips : trips'[i] = trips[i]
    <3>1. trips' = Append(trips, u) /\ Len(trips) < MaxTrips /\ trips \in Seq(Owners)
      BY <1>1 DEF RoundTrip, NotifierShape
    <3>2. /\ DOMAIN trips' = 1..Len(trips) + 1 /\ trips'[Len(trips) + 1] = u
          /\ \A i \in 1..Len(trips) : trips'[i] = trips[i]
      BY <3>1
    <3> QED BY <1>a, <2>1, <3>1, <3>2, NotifierAssumption
  <2>3. UNCHANGED <<saved, mem, patch, todo, faults, passed, skipped, toldTrips>>
    BY <1>1 DEF RoundTrip
  <2>4. /\ mem.cursors[u] \in Int /\ mem.cursors[u] <= Len(trips)
        /\ saved.cursors[u] \in Int /\ saved.cursors[u] <= Len(trips)
        /\ patch.cursors[u] \in Int /\ patch.cursors[u] <= Len(trips)
    BY DEF NotifierShape, StateOK, CursorsThere
  <2>5. ~Covers(mem, n)' /\ ~Covers(patch, n)' /\ ~Covers(saved, n)'
    <3>1. ~(n <= mem.cursors[u]) /\ ~(n <= saved.cursors[u]) /\ ~(n <= patch.cursors[u])
      BY <1>a, <2>1, <2>4
    <3> QED BY <2>2, <2>3, <3>1 DEF Covers
  <2>6. \A i \in DOMAIN trips : (Counts(i)' <=> Counts(i)) /\ (Covers(saved, i)' <=> Covers(saved, i))
    BY <2>2, <2>3 DEF Counts, Covers, Unsent
  <2>7. ~Counts(n)' /\ toldTrips[n] = 0
    BY <2>2, <2>5 DEF Counts, TripsTold
  <2>8. \A i \in 1..MaxTrips : i \notin DOMAIN trips' => toldTrips[i] = 0
    BY <2>2 DEF TripsTold
  <2>9. ASSUME NEW i \in DOMAIN trips'
        PROVE  /\ toldTrips[i] <= faults + 1 /\ (~Counts(i)' => toldTrips[i] <= faults)
               /\ i \notin passed \cup skipped =>
                    (Covers(saved, i)' \/ Counts(i)' => toldTrips[i] > 0)
    <3>1. CASE i \in DOMAIN trips
      BY <2>2, <2>6, <3>1 DEF TripsTold
    <3>2. CASE i = n
      BY <1>a, <2>5, <2>7, <3>2
    <3> QED BY <2>2, <3>1, <3>2
  <2>10. skipped \subseteq DOMAIN trips' /\ \A i \in skipped : trips'[i] \notin Known
    BY <2>2 DEF TripsTold
  <2> QED BY <2>3, <2>8, <2>9, <2>10 DEF TripsTold
<1>2. ASSUME UNCHANGED <<trips, saved, mem, patch, todo, faults, passed, skipped, toldTrips>>
      PROVE  TripsTold'
  BY <1>2 DEF TripsTold, Counts, Covers, Unsent
<1>3. CASE Booted
  <2>1. UNCHANGED <<trips, faults, skipped, toldTrips>> /\ patch = mem /\ mem = saved
    BY <1>3 DEF Booted, AtRest, worldVars
  <2>2. CASE mem' = saved /\ passed' = passed
    <3>1. \A i : (Counts(i)' <=> Counts(i)) /\ (Covers(saved, i)' <=> Covers(saved, i))
      BY <1>3, <2>1, <2>2 DEF Booted, Counts, Covers
    <3> QED BY <2>1, <2>2, <3>1 DEF TripsTold
  <2>3. CASE passed' = passed \cup DOMAIN trips /\ \A u \in Owners : saved.cursors[u] = NoEntry
    <3>1. \A i \in DOMAIN trips : ~Counts(i)
      BY <1>a, <2>1, <2>3 DEF Counts, Covers, NoEntry
    <3> QED BY <1>a, <2>1, <2>3, <3>1 DEF TripsTold
  <2> QED BY <1>3, <2>2, <2>3 DEF Booted
<1>4. CASE Quiet
  <2>1. UNCHANGED <<trips, saved, mem, faults, passed, skipped, toldTrips>> /\ patch = mem
        /\ patch'.cursors = mem.cursors
    BY <1>4 DEF Quiet, worldVars
  <2>2. \A i : (Counts(i)' <=> Counts(i)) /\ (Covers(saved, i)' <=> Covers(saved, i))
    BY <2>1 DEF Counts, Covers
  <2> QED BY <2>1, <2>2 DEF TripsTold
<1>5. CASE Batched
  <2>1. UNCHANGED <<trips, saved, mem, faults, passed, toldTrips>> /\ patch = mem /\ check # "down"
    BY <1>5 DEF Batched, worldVars
  <2>2. \A i : (Covers(mem, i)' <=> Covers(mem, i)) /\ (Covers(saved, i)' <=> Covers(saved, i))
    BY <2>1 DEF Covers
  <2>3. \A i : Counts(i) <=> Covers(mem, i)
    BY <2>1 DEF Counts, Covers
  <2>4. \A u \in Known : u \in HasCursor
    BY <2>1, NotifierAssumption DEF CursorsThere, HasCursor
  <2>5. ASSUME NEW i \in DOMAIN trips, i \notin skipped', Counts(i)' PROVE Counts(i)
    BY <1>5, <2>1, <2>2, <2>3, <2>5 DEF Batched, Counts, Covers
  <2>6. \A i \in DOMAIN trips : ~Counts(i)' => ~Counts(i)
    BY <2>2, <2>3 DEF Counts
  <2>7. skipped' = skipped \cup PassedOver /\ PassedOver \subseteq DOMAIN trips
    BY <1>5 DEF Batched, PassedOver
  <2>8. ASSUME NEW i \in PassedOver PROVE trips[i] \notin Known
    <3>1. i \in Nat /\ trips[i] \in Owners /\ i <= PageStart /\ i > Cursor(trips[i])
      BY <1>a DEF PassedOver
    <3>2. trips[i] \notin HasCursor
      BY <3>1, PageIs DEF Cursor, HasCursor
    <3> QED BY <2>4, <3>2
  <2>9. skipped' \subseteq DOMAIN trips' /\ \A i \in skipped' : trips'[i] \notin Known
    BY <2>1, <2>7, <2>8 DEF TripsTold
  <2>10. \A i \in DOMAIN trips \ (passed \cup skipped') :
           Covers(saved, i)' \/ Counts(i)' => toldTrips[i] > 0
    BY <2>2, <2>5, <2>7 DEF TripsTold
  <2> QED BY <2>1, <2>6, <2>9, <2>10 DEF TripsTold
<1>6. ASSUME NEW e \in todo, Sends(e) PROVE TripsTold'
  <2>1. UNCHANGED <<trips, saved, mem, patch, faults, passed, skipped>> /\ todo' = todo \ {e}
    BY <1>6 DEF Sends, worldVars
  <2>2. \A i : (Covers(mem, i)' <=> Covers(mem, i)) /\ (Covers(saved, i)' <=> Covers(saved, i))
               /\ (Covers(patch, i)' <=> Covers(patch, i))
    BY <2>1 DEF Covers
  <2>3. CASE e.kind # "trips"
    <3>1. toldTrips' = toldTrips
      BY <1>6, <2>3 DEF Sends
    <3>2. \A i : Unsent(i)' <=> Unsent(i)
      BY <2>1, <2>3 DEF Unsent
    <3>3. \A i : Counts(i)' <=> Counts(i)
      BY <2>2, <3>2 DEF Counts
    <3> QED BY <2>1, <2>2, <3>1, <3>3 DEF TripsTold
  <2>4. CASE e.kind = "trips"
    <3>1. toldTrips' = [i \in 1..MaxTrips |-> IF i \in e.what THEN toldTrips[i] + 1 ELSE toldTrips[i]]
      BY <1>6, <2>4 DEF Sends
    <3>2. ASSUME NEW i \in e.what
          PROVE  /\ i \in DOMAIN trips /\ ~Covers(mem, i) /\ Covers(patch, i)
                 /\ Unsent(i) /\ ~Unsent(i)'
      <4>1. i \in DOMAIN trips /\ trips[i] = e.owner /\ ~Covers(mem, i) /\ Covers(patch, i)
        BY <2>4, <3>2 DEF BatchesAreNew
      <4>2. \A f \in todo : f.kind = "trips" /\ i \in f.what => f = e
        BY <2>4, <4>1 DEF BatchesAreNew
      <4> QED BY <2>1, <2>4, <3>2, <4>1, <4>2 DEF Unsent
    <3>3. \A i : i \notin e.what => (Unsent(i)' <=> Unsent(i))
      BY <2>1 DEF Unsent
    <3>4. \A i \in e.what : i \in DOMAIN trips /\ ~Counts(i) /\ Counts(i)'
      BY <2>2, <3>2 DEF Counts
    <3>5. \A i : i \notin e.what => (Counts(i)' <=> Counts(i))
      BY <2>2, <3>3 DEF Counts
    <3>6. \A i \in e.what : toldTrips[i] <= faults /\ toldTrips'[i] = toldTrips[i] + 1
      BY <1>a, <3>1, <3>4 DEF TripsTold
    <3>7. \A i \in 1..MaxTrips : i \notin e.what => toldTrips'[i] = toldTrips[i]
      BY <3>1
    <3>8. \A i \in 1..MaxTrips : i \notin DOMAIN trips => toldTrips'[i] = 0
      BY <3>4, <3>7 DEF TripsTold
    <3>9. \A i \in DOMAIN trips : toldTrips'[i] <= faults + 1 /\ (~Counts(i)' => toldTrips'[i] <= faults)
      BY <1>a, <3>4, <3>5, <3>6, <3>7 DEF TripsTold
    <3>10. \A i \in DOMAIN trips \ (passed \cup skipped) :
             Covers(saved, i) \/ Counts(i)' => toldTrips'[i] > 0
      BY <1>a, <3>4, <3>5, <3>6, <3>7 DEF TripsTold
    <3>11. skipped \subseteq DOMAIN trips /\ \A i \in skipped : trips[i] \notin Known
      BY DEF TripsTold
    <3> QED BY <2>1, <2>2, <3>8, <3>9, <3>10, <3>11 DEF TripsTold
  <2> QED BY <2>3, <2>4
<1>7. CASE Saves \/ SaveFails
  <2>1. UNCHANGED <<trips, passed, skipped, toldTrips>> /\ todo = {} /\ todo' = {} /\ mem' = patch
        /\ patch' = patch /\ saved' \in {saved, patch} /\ faults' \in {faults, faults + 1}
    BY <1>7 DEF Saves, SaveFails, NotifyFault, worldVars
  <2>2. \A i \in DOMAIN trips : (Counts(i)' <=> Covers(patch, i)) /\ (Covers(patch, i) => Counts(i))
    BY <2>1 DEF Counts, Covers, Unsent
  <2>3. \A i \in DOMAIN trips : Counts(i) => Covers(mem, i) \/ Covers(patch, i)
    BY DEF Counts
  <2>4. \A i \in DOMAIN trips : Covers(saved, i)' => Covers(saved, i) \/ Covers(patch, i)
    BY <2>1 DEF Covers
  <2>5. ASSUME NEW i \in DOMAIN trips, Covers(mem, i) PROVE Covers(patch, i)
    <3>1. mem.cursors[trips[i]] <= patch.cursors[trips[i]]
      BY <1>a DEF CursorsThere
    <3>2. mem.cursors[trips[i]] \in Int /\ patch.cursors[trips[i]] \in Int
      BY <1>a DEF NotifierShape, StateOK
    <3> QED BY <1>a, <2>5, <3>1, <3>2 DEF Covers
  <2> QED BY <1>a, <2>1, <2>2, <2>3, <2>4, <2>5 DEF TripsTold
<1>8. CASE ReadFails
  <2>1. UNCHANGED <<trips, passed, skipped, toldTrips, saved, mem>> /\ todo' = {} /\ patch' = mem
        /\ patch.cursors = mem.cursors /\ faults' = faults + 1
    BY <1>8 DEF ReadFails, NotifyFault, worldVars, BatchesAreNew
  <2>2. \A i \in DOMAIN trips : (Counts(i)' <=> Counts(i)) /\ (Covers(saved, i)' <=> Covers(saved, i))
    BY <2>1 DEF Counts, Covers
  <2> QED BY <1>a, <2>1, <2>2 DEF TripsTold
<1>9. CASE NotifierDies
  <2>1. UNCHANGED <<trips, passed, skipped, toldTrips, saved>> /\ todo' = {} /\ patch' = saved
        /\ mem' = saved /\ faults' = faults + 1
    BY <1>9 DEF NotifierDies, NotifyFault, worldVars
  <2>2. \A i \in DOMAIN trips : (Counts(i)' <=> Covers(saved, i)) /\ (Covers(saved, i)' <=> Covers(saved, i))
    BY <2>1 DEF Counts, Covers
  <2> QED BY <1>a, <2>1, <2>2 DEF TripsTold
<1> QED
  BY <1>1, <1>2, <1>3, <1>4, <1>5, <1>6, <1>7, <1>8, <1>9
     DEF NotifierStep, BotChanges, NextDay, TickEnds, worldVars, notifierVars

LEMMA MarksStep == AtRest /\ MarksTold /\ NotifierStep => MarksTold'
<1> SUFFICES ASSUME AtRest, MarksTold, NotifierStep PROVE MarksTold'
  OBVIOUS
<1> USE DEF MarksTold, MarkTold
<1>1. ASSUME UNCHANGED <<saved, mem, patch, todo, told>> PROVE MarksTold'
  BY <1>1
<1>2. CASE Booted
  BY <1>2 DEF Booted, worldVars
<1>3. CASE Quiet
  BY <1>3 DEF Quiet
<1>4. CASE Batched
  BY <1>4 DEF Batched
<1>5. ASSUME NEW e \in todo, Sends(e) PROVE MarksTold'
  <2>1. UNCHANGED <<saved, mem, patch>> /\ todo' = todo \ {e} /\ told \subseteq told'
        /\ (e.kind # "trips" => <<e.kind, e.owner, e.what>> \in told')
    BY <1>5 DEF Sends
  <2>2. \A kind, u, what : e = Message(kind, u, what) =>
          e.kind = kind /\ e.owner = u /\ e.what = what
    BY DEF Message
  <2>3. ASSUME NEW u \in Owners, NEW kind \in {"drawdown", "liquidation"},
               Message(kind, u, patch.hash[u]) \in todo
        PROVE  <<kind, u, patch.hash[u]>> \in told' \/ Message(kind, u, patch.hash[u]) \in todo'
    <3>1. CASE e = Message(kind, u, patch.hash[u])
      BY <2>1, <2>2, <3>1
    <3>2. CASE e # Message(kind, u, patch.hash[u])
      BY <2>1, <2>3, <3>2
    <3> QED BY <3>1, <3>2
  <2>4. ASSUME NEW u \in Owners, patch'.hash[u] # <<>>
        PROVE  \E kind \in {"drawdown", "liquidation"} :
                 <<kind, u, patch'.hash[u]>> \in told' \/ Message(kind, u, patch'.hash[u]) \in todo'
    <3>1. patch' = patch
      BY <2>1
    <3>2. PICK kind \in {"drawdown", "liquidation"} :
            <<kind, u, patch.hash[u]>> \in told \/ Message(kind, u, patch.hash[u]) \in todo
      BY <2>4, <3>1
    <3> QED BY <2>1, <2>3, <3>1, <3>2
  <2>5. \A u \in Owners : MarkTold(saved, u)' /\ MarkTold(mem, u)'
    BY <2>1
  <2> QED BY <2>4, <2>5
<1>6. CASE Saves \/ SaveFails \/ ReadFails \/ NotifierDies
  BY <1>6 DEF Saves, SaveFails, ReadFails, NotifierDies
<1> QED
  BY <1>1, <1>2, <1>3, <1>4, <1>5, <1>6
     DEF NotifierStep, RoundTrip, BotChanges, NextDay, TickEnds, notifierVars

LEMMA SummariesStep == AtRest /\ SummariesTold /\ NotifierStep => SummariesTold'
<1> SUFFICES ASSUME AtRest, SummariesTold, NotifierStep PROVE SummariesTold'
  OBVIOUS
<1> USE DEF SummariesTold
<1>1. ASSUME UNCHANGED <<patch, check, seen, todo, told>> PROVE SummariesTold'
  BY <1>1
<1>2. CASE Quiet
  BY <1>2 DEF Quiet
<1>3. ASSUME NEW e \in todo, Sends(e) PROVE SummariesTold'
  <2>1. UNCHANGED <<patch, check, seen>> /\ todo' = todo \ {e} /\ told \subseteq told'
        /\ (e.kind # "trips" => <<e.kind, e.owner, e.what>> \in told')
    BY <1>3 DEF Sends
  <2>2. \A kind, u, what : e = Message(kind, u, what) =>
          e.kind = kind /\ e.owner = u /\ e.what = what
    BY DEF Message
  <2> QED BY <2>1, <2>2
<1>4. CASE Saves
  BY <1>4 DEF Saves
<1>5. CASE Booted \/ Batched \/ TickEnds \/ SaveFails \/ ReadFails \/ NotifierDies
  BY <1>5 DEF Booted, Batched, TickEnds, SaveFails, ReadFails, NotifierDies
<1> QED
  BY <1>1, <1>2, <1>3, <1>4, <1>5
     DEF NotifierStep, RoundTrip, BotChanges, NextDay, notifierVars

LEMMA NotifierInvStep == NotifierInv /\ [NotifierNext]_notifierVars => NotifierInv'
BY NotifierSteps, ShapeStep, RestStep, CursorsStep, BatchesStep, TripsStep, MarksStep, SummariesStep
   DEF NotifierInv

LEMMA NotifierPromise == NotifierInv => NotifierTypeOK /\ SavedMeansTold /\ ToldOnce
<1> SUFFICES ASSUME NotifierInv PROVE NotifierTypeOK /\ SavedMeansTold /\ ToldOnce
  OBVIOUS
<1> USE NotifierAssumption DEF NotifierInv
<1>1. /\ faults \in 0..MaxNotifyFaults
      /\ \A i \in 1..MaxTrips : toldTrips[i] \in Nat /\ toldTrips[i] <= faults + 1
  <2>1. faults \in 0..MaxNotifyFaults /\ faults \in Nat
    BY DEF NotifierShape
  <2>2. ASSUME NEW i \in 1..MaxTrips PROVE toldTrips[i] \in Nat /\ toldTrips[i] <= faults + 1
    <3>1. toldTrips[i] \in Nat
      BY DEF NotifierShape
    <3>2. toldTrips[i] = 0 \/ toldTrips[i] <= faults + 1
      BY DEF TripsTold
    <3> QED BY <2>1, <3>1, <3>2
  <2> QED BY <2>1, <2>2
<1>2. toldTrips \in [1..MaxTrips -> 0..MaxNotifyFaults + 1]
  <2>1. \A i \in 1..MaxTrips : toldTrips[i] \in 0..MaxNotifyFaults + 1
    BY <1>1
  <2> QED BY <2>1 DEF NotifierShape
<1>3. check \in {"down", "idle"} \cup {Checks[i] : i \in 1..5}
  <2>1. /\ Checks[1] = "status" /\ Checks[2] = "drawdown" /\ Checks[3] = "liquidation"
        /\ Checks[4] = "trips" /\ Checks[5] = "summary"
    BY DEF Checks
  <2> QED BY <2>1 DEF NotifierShape
<1>4. NotifierTypeOK
  <2>1. today \in 0..MaxNews
    BY DEF NotifierShape
  <2> QED BY <1>2, <1>3, <2>1 DEF NotifierTypeOK, NotifierShape, StateOK
<1>5. ToldOnce
  BY DEF ToldOnce, TripsTold, NotifierShape
<1>6. /\ \A i \in DOMAIN trips \ (passed \cup skipped) :
           i <= mem.cursors[trips[i]] => toldTrips[i] > 0
      /\ \A i \in skipped : trips[i] \notin Known
  BY DEF TripsTold, Counts, Covers
<1>7. \A u \in Owners : mem.hash[u] # <<>> =>
        \E kind \in {"drawdown", "liquidation"} : <<kind, u, mem.hash[u]>> \in told
  BY DEF MarksTold, MarkTold
<1>8. Done("summary") => \A u \in Owners :
        seen[u].status = "running" => <<"summary", u, mem.summary>> \in told
  BY DEF Done, SummariesTold
<1> QED BY <1>4, <1>5, <1>6, <1>7, <1>8 DEF SavedMeansTold

\* What the daemon has saved as told was sent, but for the rows of a user without a
\* cursor that a page starts behind; a round trip is not sent twice as long as no save
\* fails and the daemon does not die between the two; for any number of users, round
\* trips, crashes and restarts (notifier/src/index.ts:266-309).
THEOREM WhatIsSavedWasTold == NotifierSpec => [](NotifierTypeOK /\ SavedMeansTold /\ ToldOnce)
BY NotifierInitial, NotifierInvStep, NotifierPromise, PTL DEF NotifierSpec

-----------------------------------------------------------------------------
(* Dispatcher *)

\* Every row paired since the poller was seeded, up to the id n, was published.
SaidUpTo(n) == \A k \in 1..MaxPairs : seed < k /\ k <= n => said[k] > 0

\* Not only the cursor: a poll under way starts from rows that were published, for
\* its answer moves the cursor on from there.
PollsFollow ==
  /\ poller # "on" => \A p \in Polls : poll[p] = NoPoll
  /\ poller = "on" => SaidUpTo(cursor)
  /\ \A p \in Polls : poll[p].at # "idle" => SaidUpTo(poll[p].from)

\* An incident the lookup has not reached when the bot is gone was there before it;
\* nobody but the owner is found while the bot is there.
OwnersKnown ==
  /\ bots => \A i \in Incidents : owner[i] = "owner"
  /\ \A i \in Incidents :
       \/ incident[i] \in {"acting", "lookup"} /\ ~bots
       \/ incident[i] \in {"insert", "kept"} /\ owner[i] = "first"
       => gone[i]

DispatchInv == DispatchTypeOK /\ PollsFollow /\ OwnersKnown

LEMMA DispatchInitial == DispatchInit => DispatchInv
<1> SUFFICES ASSUME DispatchInit PROVE DispatchInv
  OBVIOUS
<1>1. 0 \in 0..MaxPairs /\ 0 \in 0..MaxOutages
  BY DispatchAssumption
<1> QED BY <1>1 DEF DispatchInit, DispatchInv, DispatchTypeOK, PollsFollow, OwnersKnown, NoPoll

LEMMA DispatchTypeStep == DispatchTypeOK /\ [DispatchNext]_dispatchVars => DispatchTypeOK'
<1> SUFFICES ASSUME DispatchTypeOK, [DispatchNext]_dispatchVars PROVE DispatchTypeOK'
  OBVIOUS
<1> USE DispatchAssumption DEF DispatchTypeOK
<1>0. 0 \in 0..MaxPairs /\ (Outage => outages' \in 0..MaxOutages)
  BY DEF Outage
<1>1. CASE Pairs \/ SeedAsked \/ Seeded
  BY <1>1 DEF Pairs, SeedAsked, Seeded, fillVars, alertVars
<1>2. ASSUME NEW p \in Polls, PollAsks(p) \/ PollReads(p) \/ PollFails(p) PROVE DispatchTypeOK'
  <2>1. CASE PollAsks(p)
    <3>1. poll' \in [Polls -> [at : {"idle", "asked", "read"}, from : 0..MaxPairs,
                              upto : 0..MaxPairs]]
      BY <2>1 DEF PollAsks
    <3> QED BY <2>1, <3>1 DEF PollAsks, alertVars
  <2>2. CASE PollReads(p)
    <3>1. poll' \in [Polls -> [at : {"idle", "asked", "read"}, from : 0..MaxPairs,
                              upto : 0..MaxPairs]]
      BY <2>2 DEF PollReads
    <3> QED BY <2>2, <3>1 DEF PollReads, alertVars
  <2>3. CASE PollFails(p)
    BY <1>0, <2>3 DEF PollFails, alertVars, NoPoll
  <2> QED BY <1>2, <2>1, <2>2, <2>3
<1>3. ASSUME NEW p \in Polls, PollTells(p) PROVE DispatchTypeOK'
  <2>1. said' \in [1..MaxPairs -> 0..2]
    BY <1>3 DEF PollTells
  <2>2. poll' \in [Polls -> [at : {"idle", "asked", "read"}, from : 0..MaxPairs, upto : 0..MaxPairs]]
    BY <1>0, <1>3 DEF PollTells, NoPoll
  <2>3. cursor' \in 0..MaxPairs
    BY <1>3 DEF PollTells, Follows
  <2> QED BY <1>3, <2>1, <2>2, <2>3 DEF PollTells, alertVars
<1>4. ASSUME NEW i \in Incidents, Acts(i) \/ Emits(i) \/ LooksUp(i) \/ Records(i)
      PROVE  DispatchTypeOK'
  <2>1. CASE Acts(i) \/ Emits(i) \/ Records(i)
    BY <1>0, <2>1 DEF Acts, Emits, Records, fillVars
  <2>2. CASE LooksUp(i)
    BY <1>0, <2>2 DEF LooksUp, OwnerOf, fillVars
  <2> QED BY <1>4, <2>1, <2>2
<1>5. CASE DispatchDies
  BY <1>0, <1>5 DEF DispatchDies, NoPoll
<1>6. CASE BotDeleted
  <2>1. \A i \in Incidents : (incident[i] \in {"acting", "lookup"}) \in BOOLEAN
    OBVIOUS
  <2>2. gone' \in [Incidents -> BOOLEAN]
    BY <1>6, <2>1, Zenon DEF BotDeleted
  <2> QED BY <1>6, <2>2 DEF BotDeleted, fillVars
<1>7. CASE UNCHANGED dispatchVars
  BY <1>7 DEF dispatchVars
<1> QED BY <1>1, <1>2, <1>3, <1>4, <1>5, <1>6, <1>7 DEF DispatchNext

\* An answer publishes what lies between the rows it started from, which were
\* published, and the rows it ends with, to which the cursor moves.
LEMMA PollsStep == DispatchTypeOK /\ PollsFollow /\ [DispatchNext]_dispatchVars => PollsFollow'
<1> SUFFICES ASSUME DispatchTypeOK, PollsFollow, [DispatchNext]_dispatchVars PROVE PollsFollow'
  OBVIOUS
<1> USE DispatchAssumption DEF DispatchTypeOK, PollsFollow, SaidUpTo
<1>1. CASE Pairs \/ SeedAsked \/ BotDeleted \/ UNCHANGED dispatchVars
  BY <1>1 DEF Pairs, SeedAsked, BotDeleted, dispatchVars, fillVars, alertVars
<1>2. CASE Seeded
  BY <1>2 DEF Seeded, NoPoll
<1>3. ASSUME NEW p \in Polls, PollAsks(p) \/ PollReads(p) \/ PollFails(p) PROVE PollsFollow'
  <2>1. poller = "on" /\ UNCHANGED <<cursor, poller, said, seed>>
    BY <1>3 DEF PollAsks, PollReads, PollFails, NoPoll
  <2>2. ASSUME NEW q \in Polls, poll'[q].at # "idle"
        PROVE  \/ poll[q].at # "idle" /\ poll'[q].from = poll[q].from
               \/ poll'[q].from = cursor
    <3>1. CASE q # p
      BY <1>3, <2>2, <3>1 DEF PollAsks, PollReads, PollFails
    <3>2. CASE q = p /\ PollAsks(p)
      BY <3>2 DEF PollAsks
    <3>3. CASE q = p /\ PollReads(p)
      BY <3>3 DEF PollReads
    <3>4. CASE q = p /\ PollFails(p)
      BY <2>2, <3>4 DEF PollFails, NoPoll
    <3> QED BY <1>3, <3>1, <3>2, <3>3, <3>4
  <2> QED BY <2>1, <2>2
<1>4. ASSUME NEW p \in Polls, PollTells(p) PROVE PollsFollow'
  <2>1. poller = "on" /\ poller' = "on" /\ seed' = seed
    BY <1>4 DEF PollTells, NoPoll
  <2>2. \A k \in 1..MaxPairs : said[k] > 0 => said'[k] > 0
    BY <1>4 DEF PollTells
  <2>3. \A k \in 1..MaxPairs : Told(k, p) => said'[k] > 0
    BY <1>4 DEF PollTells
  <2>4. SaidUpTo(cursor)'
    BY <1>4, <2>1, <2>2, <2>3 DEF PollTells, Follows, Told
  <2>5. ASSUME NEW q \in Polls, poll'[q].at # "idle"
        PROVE  \A k \in 1..MaxPairs : seed' < k /\ k <= poll'[q].from => said'[k] > 0
    <3>1. q # p /\ poll'[q] = poll[q]
      BY <1>4, <2>5 DEF PollTells, NoPoll
    <3> QED BY <2>1, <2>2, <2>5, <3>1
  <2> QED BY <2>1, <2>2, <2>4, <2>5
<1>5. ASSUME NEW i \in Incidents, Acts(i) \/ Emits(i) \/ LooksUp(i) \/ Records(i)
      PROVE  PollsFollow'
  BY <1>5 DEF Acts, Emits, LooksUp, Records, fillVars
<1>6. CASE DispatchDies
  BY <1>6 DEF DispatchDies, NoPoll
<1> QED BY <1>1, <1>2, <1>3, <1>4, <1>5, <1>6 DEF DispatchNext

LEMMA OwnersStep == DispatchTypeOK /\ OwnersKnown /\ [DispatchNext]_dispatchVars => OwnersKnown'
<1> SUFFICES ASSUME DispatchTypeOK, OwnersKnown, [DispatchNext]_dispatchVars PROVE OwnersKnown'
  OBVIOUS
<1> USE DEF DispatchTypeOK, OwnersKnown
<1>1. CASE Pairs \/ SeedAsked \/ Seeded \/ UNCHANGED dispatchVars
  BY <1>1 DEF Pairs, SeedAsked, Seeded, dispatchVars, alertVars
<1>2. ASSUME NEW p \in Polls, PollAsks(p) \/ PollReads(p) \/ PollFails(p) \/ PollTells(p)
      PROVE  OwnersKnown'
  BY <1>2 DEF PollAsks, PollReads, PollFails, PollTells, alertVars
<1>3. ASSUME NEW i \in Incidents, Acts(i) \/ Emits(i) \/ LooksUp(i) \/ Records(i)
      PROVE  OwnersKnown'
  BY <1>3 DEF Acts, Emits, LooksUp, Records, OwnerOf
<1>4. CASE BotDeleted
  BY <1>4 DEF BotDeleted
<1>5. CASE DispatchDies
  BY <1>5 DEF DispatchDies
<1> QED BY <1>1, <1>2, <1>3, <1>4, <1>5 DEF DispatchNext

\* Every round trip after the seed that the cursor has passed was published, and an
\* incident reaches its owner unless the bot was deleted meanwhile, for any number
\* of polls, incidents and outages (ws-dispatcher.ts:106, 413).
THEOREM NoNewsIsPassedOver == DispatchSpec => [](DispatchTypeOK /\ FillsAreSaid /\ AlertsFindOwner)
<1>1. DispatchInv => DispatchTypeOK /\ FillsAreSaid /\ AlertsFindOwner
  BY DEF DispatchInv, PollsFollow, SaidUpTo, OwnersKnown, FillsAreSaid, AlertsFindOwner
<1>2. DispatchInv /\ [DispatchNext]_dispatchVars => DispatchInv'
  BY DispatchTypeStep, PollsStep, OwnersStep DEF DispatchInv
<1> QED BY <1>1, <1>2, DispatchInitial, PTL DEF DispatchSpec

-----------------------------------------------------------------------------
(* Transport *)

\* A mutation that has not ended has not been carried out.
NotYetTaken ==
  \A c \in Mutations :
    /\ calls[c].at \in {"idle", "login", "flight", "backoff"} => taken[c] = 0
    /\ calls[c].at = "done" => taken[c] = 1
    /\ taken[c] \in 0..1

\* The call that fetches the ticker is the pending one; who has joined it waits
\* for it.  A ticker needs no login, and only callers of a ticker join.
OneFetches ==
  /\ \A c \in Tickers : /\ Fetching(c) <=> pending = c
                        /\ calls[c].at # "login"
                        /\ calls[c].at = "joined" => pending # NoCall
  /\ \A c \in Calls : calls[c].at = "joined" => c \in Tickers

TransportInv == TransportTypeOK /\ NotYetTaken /\ OneFetches

LEMMA TransportInitial == TransportInit => TransportInv
<1> SUFFICES ASSUME TransportInit PROVE TransportInv
  OBVIOUS
<1> USE TransportAssumption DEF TransportInit
<1>0. 0 \in 0..MaxSessions /\ 1 \in 1..MaxSessions /\ 0 \in 0..MaxRetries /\ 0 \in 0..MaxLosses
  OBVIOUS
<1>1. TransportTypeOK
  <2>1. session \in [on : BOOLEAN, cookie : 0..MaxSessions, aging : BOOLEAN]
    BY <1>0
  <2>2. calls \in [Calls -> [at : {"idle", "login", "flight", "backoff", "joined", "done", "failed"},
                            cookie : 0..MaxSessions, tries : 0..MaxRetries]]
    BY <1>0
  <2>3. taken \in [Mutations -> 0..2]
    OBVIOUS
  <2> QED BY <1>0, <2>1, <2>2, <2>3 DEF TransportTypeOK
<1>2. NotYetTaken /\ OneFetches
  BY DEF NotYetTaken, OneFetches, Fetching, Calls
<1> QED BY <1>1, <1>2 DEF TransportInv

\* The record of a call.
CallRecord == [at : {"idle", "login", "flight", "backoff", "joined", "done", "failed"},
               cookie : 0..MaxSessions, tries : 0..MaxRetries]

\* What the moves of a call do to it; the others stay as they are.
LEMMA MovesOf ==
  ASSUME TransportTypeOK, NEW c \in Calls
  PROVE  /\ \A w \in {"login", "flight", "backoff", "joined", "done", "failed"} : Moves(c, w) =>
              calls' \in [Calls -> CallRecord] /\ calls'[c].at = w
         /\ Enters(c) => calls' \in [Calls -> CallRecord] /\ calls'[c].at \in {"flight", "login"}
         /\ LogsInAnew(c) => calls' \in [Calls -> CallRecord] /\ calls'[c].at = "flight"
         /\ TooMany(c) => calls' \in [Calls -> CallRecord] /\ calls'[c].at = "backoff"
<1> USE TransportAssumption DEF CallRecord
<1>1. calls \in [Calls -> CallRecord] /\ session.cookie \in 0..MaxSessions /\ epoch \in 0..MaxSessions
  BY DEF TransportTypeOK
<1>2. ASSUME NEW w \in {"login", "flight", "backoff", "joined", "done", "failed"}
      PROVE  /\ [calls EXCEPT ![c].at = w] \in [Calls -> CallRecord]
             /\ [calls EXCEPT ![c].at = w][c].at = w
             /\ [calls EXCEPT ![c].at = w][c].tries = calls[c].tries
  BY <1>1
<1>3. ASSUME NEW f \in [Calls -> CallRecord], NEW k \in 0..MaxSessions
      PROVE  /\ [f EXCEPT ![c].cookie = k] \in [Calls -> CallRecord]
             /\ [f EXCEPT ![c].cookie = k][c].at = f[c].at
  OBVIOUS
<1>4. ASSUME NEW f \in [Calls -> CallRecord], f[c].tries < MaxRetries
      PROVE  /\ [f EXCEPT ![c].tries = @ + 1] \in [Calls -> CallRecord]
             /\ [f EXCEPT ![c].tries = @ + 1][c].at = f[c].at
  BY <1>4
<1>5. ASSUME Enters(c)
      PROVE  calls' \in [Calls -> CallRecord] /\ calls'[c].at \in {"flight", "login"}
  <2>1. PICK w \in {"flight", "login"} : calls' = [calls EXCEPT ![c].at = w, ![c].cookie = session.cookie]
    BY <1>5 DEF Enters
  <2>2. PICK f : f = [calls EXCEPT ![c].at = w]
    OBVIOUS
  <2>3. calls' = [f EXCEPT ![c].cookie = session.cookie]
    BY <2>1, <2>2
  <2>4. f \in [Calls -> CallRecord] /\ f[c].at = w
    BY <1>2, <2>2
  <2>5. session.cookie \in 0..MaxSessions
    BY <1>1
  <2> HIDE DEF CallRecord
  <2> QED BY <1>3, <2>3, <2>4, <2>5
<1>6. ASSUME LogsInAnew(c)
      PROVE  calls' \in [Calls -> CallRecord] /\ calls'[c].at = "flight"
  <2>1. PICK f : f = [calls EXCEPT ![c].at = "flight"]
    OBVIOUS
  <2>2. calls' = [f EXCEPT ![c].cookie = epoch]
    BY <1>6, <2>1 DEF LogsInAnew
  <2>3. f \in [Calls -> CallRecord] /\ f[c].at = "flight"
    BY <1>2, <2>1
  <2>4. epoch \in 0..MaxSessions
    BY <1>1
  <2> HIDE DEF CallRecord
  <2> QED BY <1>3, <2>2, <2>3, <2>4
<1>7. ASSUME TooMany(c)
      PROVE  calls' \in [Calls -> CallRecord] /\ calls'[c].at = "backoff"
  <2>1. PICK f : f = [calls EXCEPT ![c].at = "backoff"]
    OBVIOUS
  <2>2. calls' = [f EXCEPT ![c].tries = @ + 1] /\ calls[c].tries < MaxRetries
    BY <1>7, <2>1 DEF TooMany, MayRetry
  <2>3. f \in [Calls -> CallRecord] /\ f[c].at = "backoff" /\ f[c].tries = calls[c].tries
    BY <1>2, <2>1
  <2> QED BY <1>4, <2>2, <2>3
<1> QED BY <1>2, <1>5, <1>6, <1>7 DEF Moves

\* The other calls stay where they are.
LEMMA OthersStay ==
  ASSUME TransportTypeOK, NEW c \in Calls, NEW d \in Calls, d # c,
         \/ \E w \in {"login", "flight", "backoff", "joined", "done", "failed"} : Moves(c, w)
         \/ Enters(c) \/ LogsInAnew(c) \/ TooMany(c)
  PROVE  calls'[d] = calls[d]
BY DEF TransportTypeOK, Moves, Enters, LogsInAnew, TooMany

LEMMA TransportTypeStep ==
  TransportTypeOK /\ NotYetTaken /\ [TransportNext]_transportVars => TransportTypeOK'
<1> SUFFICES ASSUME TransportTypeOK, NotYetTaken, [TransportNext]_transportVars
             PROVE  TransportTypeOK'
  OBVIOUS
<1> USE TransportAssumption
<1>1. /\ session \in [on : BOOLEAN, cookie : 0..MaxSessions, aging : BOOLEAN]
      /\ epoch \in 1..MaxSessions /\ epoch \in 0..MaxSessions
      /\ calls \in [Calls -> CallRecord] /\ taken \in [Mutations -> 0..2]
      /\ pending \in Tickers \cup {NoCall} /\ kept \in BOOLEAN /\ losses \in 0..MaxLosses
  BY DEF TransportTypeOK, CallRecord
<1>2. ASSUME /\ session' \in [on : BOOLEAN, cookie : 0..MaxSessions, aging : BOOLEAN]
             /\ epoch' \in 1..MaxSessions
             /\ calls' \in [Calls -> CallRecord] /\ taken' \in [Mutations -> 0..2]
             /\ pending' \in Tickers \cup {NoCall} /\ kept' \in BOOLEAN /\ losses' \in 0..MaxLosses
      PROVE  TransportTypeOK'
  BY <1>2 DEF TransportTypeOK, CallRecord
<1>3. Loses => losses' \in 0..MaxLosses
  BY <1>1 DEF Loses
<1>4. \A on, aging \in BOOLEAN, k \in 0..MaxSessions :
        [on |-> on, cookie |-> k, aging |-> aging]
          \in [on : BOOLEAN, cookie : 0..MaxSessions, aging : BOOLEAN]
  OBVIOUS
<1>5. /\ [session EXCEPT !.on = FALSE] \in [on : BOOLEAN, cookie : 0..MaxSessions, aging : BOOLEAN]
      /\ [session EXCEPT !.aging = TRUE] \in [on : BOOLEAN, cookie : 0..MaxSessions, aging : BOOLEAN]
  BY <1>1
<1>6. CASE SessionAges \/ SessionDropped \/ TickerExpires
  <2>1. CASE SessionAges
    BY <1>1, <1>2, <1>5, <2>1 DEF SessionAges
  <2>2. CASE SessionDropped
    BY <1>1, <1>2, <2>2 DEF SessionDropped
  <2>3. CASE TickerExpires
    BY <1>1, <1>2, <2>3 DEF TickerExpires
  <2> QED BY <1>6, <2>1, <2>2, <2>3
<1>7. ASSUME NEW c \in Calls, Begins(c) \/ TooMany(c) \/ Refused(c) \/ BackoffEnds(c)
      PROVE  TransportTypeOK'
  <2>1. calls' \in [Calls -> CallRecord]
    BY <1>7, MovesOf DEF Begins, Refused, BackoffEnds
  <2> QED BY <1>1, <1>2, <1>7, <2>1 DEF Begins, TooMany, Refused, BackoffEnds
<1>8. ASSUME NEW c \in Calls, LogsInAnew(c) PROVE TransportTypeOK'
  <2>1. calls' \in [Calls -> CallRecord]
    BY <1>8, MovesOf
  <2>2. session' \in [on : BOOLEAN, cookie : 0..MaxSessions, aging : BOOLEAN]
    BY <1>1, <1>4, <1>8 DEF LogsInAnew
  <2> QED BY <1>1, <1>2, <1>8, <2>1, <2>2 DEF LogsInAnew
<1>9. ASSUME NEW c \in Calls, LoginFails(c) \/ Unauthorised(c) PROVE TransportTypeOK'
  <2>1. calls' \in [Calls -> CallRecord]
    BY <1>9, MovesOf DEF LoginFails, Unauthorised
  <2> QED BY <1>1, <1>2, <1>3, <1>5, <1>9, <2>1 DEF LoginFails, Unauthorised
<1>10. ASSUME NEW c \in Calls, Answered(c) \/ AnswerLost(c) PROVE TransportTypeOK'
  <2>1. calls' \in [Calls -> CallRecord]
    BY <1>10, MovesOf DEF Answered, AnswerLost
  <2>2. taken' \in [Mutations -> 0..2]
    BY <1>1, <1>10 DEF Answered, AnswerLost, CarriedOut, NotYetTaken
  <2> QED BY <1>1, <1>2, <1>3, <1>10, <2>1, <2>2 DEF Answered, AnswerLost
<1>11. ASSUME NEW c \in Calls, TickerAsked(c) \/ TickerAgain(c) PROVE TransportTypeOK'
  <2>1. calls' \in [Calls -> CallRecord]
    <3>1. CASE TickerAsked(c)
      BY <3>1, MovesOf DEF TickerAsked
    <3>2. CASE TickerAgain(c)
      <4>1. [at |-> "idle", cookie |-> 0, tries |-> 0] \in CallRecord
        BY DEF CallRecord
      <4> QED BY <1>1, <3>2, <4>1 DEF TickerAgain
    <3> QED BY <1>11, <3>1, <3>2
  <2> QED BY <1>1, <1>2, <1>11, <2>1 DEF TickerAsked, TickerAgain
<1>12. ASSUME NEW c \in Calls, TickerFetched(c) \/ TickerFails(c) PROVE TransportTypeOK'
  <2>1. PICK outcome \in {"done", "failed"} : FetchEnds(c, outcome)
    BY <1>12 DEF TickerFetched, TickerFails
  <2>2. \A d \in Calls : [calls[d] EXCEPT !.at = outcome] \in CallRecord
    BY <1>1 DEF CallRecord
  <2>3. calls' \in [Calls -> CallRecord]
    BY <1>1, <2>1, <2>2 DEF FetchEnds
  <2> QED BY <1>1, <1>2, <1>3, <1>12, <2>1, <2>3 DEF TickerFetched, TickerFails, FetchEnds
<1>13. CASE UNCHANGED transportVars
  BY <1>1, <1>2, <1>13 DEF transportVars
<1> QED BY <1>6, <1>7, <1>8, <1>9, <1>10, <1>11, <1>12, <1>13 DEF TransportNext

\* A request is carried out when it is answered or its answer is lost, and then its
\* call has ended.
LEMMA TakenStep ==
  TransportInv /\ [TransportNext]_transportVars => NotYetTaken'
<1> SUFFICES ASSUME TransportTypeOK, NotYetTaken, OneFetches, [TransportNext]_transportVars
             PROVE  NotYetTaken'
  BY DEF TransportInv
<1> USE TransportAssumption
<1>a. \A c \in Mutations : c \in Calls /\ c \notin Tickers /\ calls[c].at # "joined"
  BY DEF Calls, OneFetches
<1>1. ASSUME UNCHANGED <<calls, taken>> PROVE NotYetTaken'
  BY <1>1 DEF NotYetTaken
<1>2. ASSUME NEW c \in Calls, \A d \in Calls : d # c => calls'[d] = calls[d],
             taken' = taken, c \in Tickers
      PROVE  NotYetTaken'
  BY <1>a, <1>2 DEF NotYetTaken
<1>3. ASSUME NEW c \in Calls, \A d \in Calls : d # c => calls'[d] = calls[d],
             calls[c].at \in {"idle", "login", "flight", "backoff"}, taken' = taken,
             calls'[c].at \in {"login", "flight", "backoff", "failed"}
      PROVE  NotYetTaken'
  BY <1>a, <1>3 DEF NotYetTaken
<1>4. ASSUME NEW c \in Calls,
             \/ Begins(c) \/ LogsInAnew(c) \/ LoginFails(c) \/ Unauthorised(c)
             \/ TooMany(c) \/ Refused(c) \/ BackoffEnds(c)
      PROVE  NotYetTaken'
  <2>1. \A d \in Calls : d # c => calls'[d] = calls[d]
    BY <1>4, OthersStay DEF Begins, LoginFails, Unauthorised, Refused, BackoffEnds
  <2>2. calls'[c].at \in {"login", "flight", "backoff", "failed"}
    BY <1>4, MovesOf DEF Begins, LoginFails, Unauthorised, Refused, BackoffEnds
  <2>3. calls[c].at \in {"idle", "login", "flight", "backoff"} /\ taken' = taken
    BY <1>4 DEF Begins, LogsInAnew, LoginFails, Unauthorised, TooMany, Refused, BackoffEnds, Heard
  <2> QED BY <1>3, <2>1, <2>2, <2>3
<1>5. ASSUME NEW c \in Calls, Answered(c) \/ AnswerLost(c) PROVE NotYetTaken'
  <2>1. /\ \A d \in Calls : d # c => calls'[d] = calls[d]
        /\ calls'[c].at \in {"done", "failed"}
    BY <1>5, OthersStay, MovesOf DEF Answered, AnswerLost
  <2>2. calls[c].at = "flight" /\ CarriedOut(c)
    BY <1>5 DEF Answered, AnswerLost, Heard
  <2>3. ASSUME NEW d \in Mutations, d # c PROVE taken'[d] = taken[d] /\ calls'[d] = calls[d]
    BY <1>a, <2>1, <2>2, <2>3 DEF CarriedOut, TransportTypeOK
  <2>4. c \in Mutations => taken'[c] = 1
    BY <2>2 DEF CarriedOut, NotYetTaken, TransportTypeOK
  <2> QED BY <2>1, <2>3, <2>4 DEF NotYetTaken
<1>6. ASSUME NEW c \in Calls, TickerAsked(c) PROVE NotYetTaken'
  <2>1. \A d \in Calls : d # c => calls'[d] = calls[d]
    BY <1>6, OthersStay DEF TickerAsked
  <2> QED BY <1>2, <1>6, <2>1 DEF TickerAsked
<1>7. ASSUME NEW c \in Calls, TickerAgain(c) PROVE NotYetTaken'
  <2>1. \A d \in Calls : d # c => calls'[d] = calls[d]
    BY <1>7 DEF TickerAgain, TransportTypeOK
  <2> QED BY <1>2, <1>7, <2>1 DEF TickerAgain
<1>8. ASSUME NEW c \in Calls, TickerFetched(c) \/ TickerFails(c) PROVE NotYetTaken'
  <2>1. PICK outcome : FetchEnds(c, outcome)
    BY <1>8 DEF TickerFetched, TickerFails
  <2>2. \A d \in Mutations : calls'[d] = calls[d]
    BY <1>a, <2>1 DEF FetchEnds
  <2> QED BY <2>1, <2>2 DEF FetchEnds, NotYetTaken
<1>9. CASE SessionAges \/ SessionDropped \/ TickerExpires \/ UNCHANGED transportVars
  BY <1>1, <1>9 DEF SessionAges, SessionDropped, TickerExpires, transportVars
<1> QED BY <1>4, <1>5, <1>6, <1>7, <1>8, <1>9 DEF TransportNext

\* Only a caller that finds no fetch under way begins one, and its end is the end of
\* all that have joined.
LEMMA FetchesStep ==
  TransportInv /\ [TransportNext]_transportVars => OneFetches'
<1> SUFFICES ASSUME TransportTypeOK, OneFetches, [TransportNext]_transportVars
             PROVE  OneFetches'
  BY DEF TransportInv
<1> USE TransportAssumption
<1>a. /\ \A c \in Tickers : c \in Calls /\ c # NoCall
      /\ \A c \in Mutations \cup Reads : c \notin Tickers
      /\ pending \in Tickers \cup {NoCall}
  BY DEF Calls, TransportTypeOK
<1>1. ASSUME UNCHANGED <<calls, pending>> PROVE OneFetches'
  BY <1>1 DEF OneFetches, Fetching
<1>2. ASSUME NEW c \in Calls \ Tickers, \A d \in Calls : d # c => calls'[d] = calls[d],
             calls'[c].at # "joined", pending' = pending
      PROVE  OneFetches'
  BY <1>a, <1>2 DEF OneFetches, Fetching
<1>3. ASSUME NEW c \in Tickers, \A d \in Calls : d # c => calls'[d] = calls[d],
             Fetching(c), calls'[c].at \in {"flight", "backoff"}, pending' = pending
      PROVE  OneFetches'
  BY <1>a, <1>3 DEF OneFetches, Fetching
<1>4. ASSUME NEW c \in Calls,
             \/ Begins(c) \/ LogsInAnew(c) \/ LoginFails(c) \/ Unauthorised(c)
             \/ Answered(c) \/ AnswerLost(c) \/ Refused(c)
      PROVE  OneFetches'
  <2>1. \A d \in Calls : d # c => calls'[d] = calls[d]
    BY <1>4, OthersStay DEF Begins, LoginFails, Unauthorised, Answered, AnswerLost, Refused
  <2>2. calls'[c].at # "joined"
    BY <1>4, MovesOf DEF Begins, LoginFails, Unauthorised, Answered, AnswerLost, Refused
  <2>3. c \notin Tickers /\ pending' = pending
    BY <1>4, <1>a DEF Begins, LogsInAnew, LoginFails, Unauthorised, Answered, AnswerLost, Refused,
                      OneFetches
  <2> QED BY <1>2, <2>1, <2>2, <2>3
<1>5. ASSUME NEW c \in Calls, TooMany(c) \/ BackoffEnds(c) PROVE OneFetches'
  <2>1. \A d \in Calls : d # c => calls'[d] = calls[d]
    BY <1>5, OthersStay DEF BackoffEnds
  <2>2. /\ calls'[c].at # "joined" /\ Fetching(c) /\ pending' = pending
        /\ c \in Tickers => calls'[c].at \in {"flight", "backoff"}
    BY <1>5, MovesOf DEF TooMany, BackoffEnds, Fetching, Heard
  <2> QED BY <1>2, <1>3, <2>1, <2>2
<1>6. ASSUME NEW c \in Calls, TickerAsked(c) PROVE OneFetches'
  <2>1. \A d \in Calls : d # c => calls'[d] = calls[d]
    BY <1>6, OthersStay DEF TickerAsked
  <2>2. calls'[c].at = IF kept THEN "done" ELSE IF pending # NoCall THEN "joined" ELSE "flight"
    BY <1>6, MovesOf DEF TickerAsked
  <2>3. c \in Tickers /\ calls[c].at = "idle" /\ ~Fetching(c) /\ pending # c
    BY <1>6, <1>a DEF TickerAsked, Fetching, OneFetches
  <2>4. pending' = IF ~kept /\ pending = NoCall THEN c ELSE pending
    BY <1>6 DEF TickerAsked
  <2>5. CASE kept \/ pending # NoCall
    BY <1>a, <2>1, <2>2, <2>3, <2>4, <2>5 DEF OneFetches, Fetching
  <2>6. CASE ~kept /\ pending = NoCall
    BY <1>a, <2>1, <2>2, <2>3, <2>4, <2>6 DEF OneFetches, Fetching
  <2> QED BY <2>5, <2>6
<1>7. ASSUME NEW c \in Calls, TickerAgain(c) PROVE OneFetches'
  <2>1. \A d \in Calls : d # c => calls'[d] = calls[d]
    BY <1>7 DEF TickerAgain, TransportTypeOK
  <2>2. c \in Tickers /\ calls'[c].at = "idle" /\ ~Fetching(c) /\ pending' = pending
    BY <1>7 DEF TickerAgain, TransportTypeOK, Fetching
  <2> QED BY <1>a, <2>1, <2>2 DEF OneFetches, Fetching
<1>8. ASSUME NEW c \in Calls, TickerFetched(c) \/ TickerFails(c) PROVE OneFetches'
  <2>1. PICK outcome \in {"done", "failed"} : FetchEnds(c, outcome)
    BY <1>8 DEF TickerFetched, TickerFails
  <2>2. c \in Tickers /\ pending = c /\ pending' = NoCall
    BY <2>1 DEF FetchEnds, Heard, OneFetches, Fetching
  <2>3. \A d \in Calls : d = c \/ calls[d].at = "joined" => calls'[d].at = outcome
    BY <2>1 DEF FetchEnds, TransportTypeOK
  <2>4. \A d \in Calls : ~(d = c \/ calls[d].at = "joined") => calls'[d] = calls[d]
    BY <2>1 DEF FetchEnds
  <2>5. \A d \in Calls : calls'[d].at # "joined"
    BY <2>3, <2>4
  <2>6. \A d \in Tickers : calls'[d].at \notin {"login", "flight", "backoff"}
    BY <1>a, <2>2, <2>3, <2>4 DEF OneFetches, Fetching
  <2> QED BY <1>a, <2>2, <2>5, <2>6 DEF OneFetches, Fetching
<1>9. CASE SessionAges \/ SessionDropped \/ TickerExpires \/ UNCHANGED transportVars
  BY <1>1, <1>9 DEF SessionAges, SessionDropped, TickerExpires, transportVars
<1> QED BY <1>4, <1>5, <1>6, <1>7, <1>8, <1>9 DEF TransportNext

\* A mutation is carried out at most once, whatever answers are lost and however often
\* the client tries again, and whoever asks for a ticker that is being fetched is
\* served by that fetch (client.ts:227-299, auth.ts:326-378).
THEOREM RequestsAreTakenOnce == TransportSpec => [](TransportTypeOK /\ TakenOnce /\ FetchIsShared)
<1>1. TransportInv => TransportTypeOK /\ TakenOnce /\ FetchIsShared
  <2> SUFFICES ASSUME TransportInv PROVE TakenOnce /\ FetchIsShared
    BY DEF TransportInv
  <2>1. TakenOnce
    BY DEF TransportInv, NotYetTaken, TakenOnce
  <2>2. pending \in Tickers \cup {NoCall}
    BY DEF TransportInv, TransportTypeOK
  <2>3. FetchIsShared
    BY <2>2 DEF TransportInv, OneFetches, FetchIsShared
  <2> QED BY <2>1, <2>3
<1>2. TransportInv /\ [TransportNext]_transportVars => TransportInv'
  BY TransportTypeStep, TakenStep, FetchesStep DEF TransportInv
<1> QED BY <1>1, <1>2, TransportInitial, PTL DEF TransportSpec

-----------------------------------------------------------------------------
(* Cache *)

\* A fetch lasts at most MaxFetch, and GRVT is read in the course of it; an entry
\* lives TTL from the end of its fetch.
FetchesEnd ==
  /\ \A c \in Callers :
       /\ fetches[c].since = Never => fetches[c].read = Never
       /\ fetches[c].since <= clock
       /\ fetches[c].since # Never => clock <= fetches[c].since + MaxFetch
       /\ fetches[c].read # Never => fetches[c].since <= fetches[c].read
  /\ entry.read # Never => entry.until <= entry.read + MaxFetch + TTL

CacheInv == CacheTypeOK /\ FetchesEnd /\ AnswersAreRecent

LEMMA CacheInitial == CacheInit => CacheInv
<1> SUFFICES ASSUME CacheInit PROVE CacheInv
  OBVIOUS
<1> USE CacheAssumption DEF CacheInit, Never, NoFetch
<1>1. CacheTypeOK
  BY DEF CacheTypeOK
<1>2. FetchesEnd /\ AnswersAreRecent
  BY DEF FetchesEnd, AnswersAreRecent
<1> QED BY <1>1, <1>2 DEF CacheInv

LEMMA CacheStep == CacheInv /\ [CacheNext]_cacheVars => CacheInv'
<1> SUFFICES ASSUME CacheInv, [CacheNext]_cacheVars PROVE CacheInv'
  OBVIOUS
<1> USE CacheAssumption DEF CacheInv, Never
<1> DEFINE Fetch == [since : -1..Horizon, read : -1..Horizon]
<1>a. /\ clock \in 0..Horizon /\ fetches \in [Callers -> Fetch]
      /\ entry \in [read : -1..Horizon, until : -1..Horizon + TTL]
  BY DEF CacheTypeOK
<1>b. Reset \in [Callers -> -1..Horizon] /\ \A c \in Callers : Reset[c] = -1
  BY DEF Reset
<1>c. NoFetch \in Fetch /\ NoFetch.since = -1 /\ NoFetch.read = -1
  BY DEF NoFetch
<1>1. ASSUME NEW c \in Callers, Hits(c) PROVE CacheInv'
  <2>1. answers' \in [Callers -> -1..Horizon] /\ answers'[c] = entry.read
        /\ \A d \in Callers : d # c => answers'[d] = -1
    BY <1>1, <1>a, <1>b DEF Hits
  <2>2. clock - entry.read <= TTL + MaxFetch
    BY <1>1, <1>a DEF Hits, Fresh, FetchesEnd
  <2> QED BY <1>1, <2>1, <2>2 DEF Hits, CacheTypeOK, FetchesEnd, AnswersAreRecent
<1>2. ASSUME NEW c \in Callers, Misses(c) PROVE CacheInv'
  <2>1. fetches' \in [Callers -> Fetch] /\ fetches'[c].since = clock /\ fetches'[c].read = -1
        /\ \A d \in Callers : d # c => fetches'[d] = fetches[d]
    BY <1>2, <1>a, <1>c DEF Misses
  <2> QED BY <1>2, <1>a, <1>b, <2>1 DEF Misses, CacheTypeOK, FetchesEnd, AnswersAreRecent
<1>3. ASSUME NEW c \in Callers, Fetched(c) PROVE CacheInv'
  <2>1. fetches' \in [Callers -> Fetch] /\ fetches'[c].since = fetches[c].since
        /\ fetches'[c].read = clock /\ \A d \in Callers : d # c => fetches'[d] = fetches[d]
    BY <1>3, <1>a DEF Fetched
  <2> QED BY <1>3, <1>a, <1>b, <2>1 DEF Fetched, CacheTypeOK, FetchesEnd, AnswersAreRecent
<1>4. ASSUME NEW c \in Callers, Stores(c) PROVE CacheInv'
  <2>1. fetches' \in [Callers -> Fetch] /\ fetches'[c] = NoFetch
        /\ \A d \in Callers : d # c => fetches'[d] = fetches[d]
    BY <1>4, <1>a, <1>c DEF Stores
  <2>2. answers' \in [Callers -> -1..Horizon] /\ answers'[c] = fetches[c].read
        /\ \A d \in Callers : d # c => answers'[d] = -1
    BY <1>4, <1>a, <1>b DEF Stores
  <2>3. clock <= fetches[c].read + MaxFetch
    BY <1>4, <1>a DEF Stores, FetchesEnd
  <2>4. /\ entry' \in [read : -1..Horizon, until : -1..Horizon + TTL]
        /\ entry'.read = fetches[c].read /\ entry'.until = clock + TTL
    BY <1>4, <1>a DEF Stores
  <2> QED BY <1>4, <1>a, <1>c, <2>1, <2>2, <2>3, <2>4
             DEF Stores, CacheTypeOK, FetchesEnd, AnswersAreRecent
<1>5. ASSUME NEW c \in Callers, FetchFails(c) PROVE CacheInv'
  <2>1. fetches' \in [Callers -> Fetch] /\ fetches'[c] = NoFetch
        /\ \A d \in Callers : d # c => fetches'[d] = fetches[d]
    BY <1>5, <1>a, <1>c DEF FetchFails
  <2> QED BY <1>5, <1>a, <1>b, <1>c, <2>1
             DEF FetchFails, CacheTypeOK, FetchesEnd, AnswersAreRecent
<1>6. CASE Invalidates
  BY <1>6, <1>a, <1>b DEF Invalidates, CacheTypeOK, FetchesEnd, AnswersAreRecent
<1>7. CASE TimePasses
  BY <1>7, <1>a, <1>b DEF TimePasses, CacheTypeOK, FetchesEnd, AnswersAreRecent
<1>8. CASE UNCHANGED cacheVars
  BY <1>8 DEF cacheVars, CacheTypeOK, FetchesEnd, AnswersAreRecent
<1> QED BY <1>1, <1>2, <1>3, <1>4, <1>5, <1>6, <1>7, <1>8 DEF CacheNext

\* No answer is older than the life of an entry and the fetch before it, for any
\* life, length of a fetch and number of callers (cache.ts:54-81).
THEOREM CacheIsRecent == CacheSpec => [](CacheTypeOK /\ AnswersAreRecent)
<1>1. CacheInv => CacheTypeOK /\ AnswersAreRecent
  BY DEF CacheInv
<1> QED BY <1>1, CacheInitial, CacheStep, PTL DEF CacheSpec

-----------------------------------------------------------------------------
(* RateBucket *)

\* How many of the times in s are not before x.
Since(s, x) == {i \in DOMAIN s : s[i] >= x}

\* The first n requests, without those that have left the window.
Kept(k, n) ==
  k = [i \in 0..n |->
         IF i = 0 THEN <<>>
         ELSE IF tick - requests[i] < Window THEN Append(k[i - 1], requests[i])
         ELSE k[i - 1]]

LEMMA KeptExists ==
  ASSUME requests \in Seq(Times)
  PROVE  \E k : Kept(k, Len(requests))
<1> DEFINE S == {n \in Nat : \E k : Kept(k, n)}
<1>1. 0 \in S
  <2>1. Kept([i \in 0..0 |-> <<>>], 0)
    BY DEF Kept
  <2> QED BY <2>1
<1>2. ASSUME NEW n \in Nat, n \in S PROVE n + 1 \in S
  <2>1. PICK k : Kept(k, n)
    BY <1>2
  <2> DEFINE last == IF tick - requests[n + 1] < Window THEN Append(k[n], requests[n + 1]) ELSE k[n]
             l == [i \in 0..n + 1 |-> IF i <= n THEN k[i] ELSE last]
  <2>2. \A i \in 0..n : l[i] = k[i]
    OBVIOUS
  <2>3. \A i \in 0..n : k[i] = IF i = 0 THEN <<>>
         ELSE IF tick - requests[i] < Window THEN Append(k[i - 1], requests[i])
         ELSE k[i - 1]
    BY <2>1 DEF Kept
  <2>4. l[n + 1] = last /\ l[n] = k[n]
    OBVIOUS
  <2> HIDE DEF l
  <2>5. ASSUME NEW i \in 0..n + 1
        PROVE  l[i] = IF i = 0 THEN <<>>
                      ELSE IF tick - requests[i] < Window THEN Append(l[i - 1], requests[i])
                      ELSE l[i - 1]
    <3>1. CASE i \in 0..n
      <4>1. i # 0 => i - 1 \in 0..n
        BY <3>1
      <4> QED BY <2>2, <2>3, <3>1, <4>1
    <3>2. CASE i = n + 1
      <4>1. i # 0 /\ i - 1 = n
        BY <3>2
      <4> QED BY <2>4, <3>2, <4>1
    <3> QED BY <3>1, <3>2
  <2>6. Kept(l, n + 1)
    <3>1. l = [i \in 0..n + 1 |-> l[i]]
      BY DEF l
    <3>2. l = [i \in 0..n + 1 |->
                 IF i = 0 THEN <<>>
                 ELSE IF tick - requests[i] < Window THEN Append(l[i - 1], requests[i])
                 ELSE l[i - 1]]
      BY <2>5, <3>1
    <3> QED BY <3>2 DEF Kept
  <2> QED BY <2>6
<1>3. Nat \subseteq S
  <2> HIDE DEF S
  <2> QED BY <1>1, <1>2, SetInduction
<1> QED BY <1>3

\* What is kept is recent, and of what is recent all is kept.
LEMMA RecentKeeps ==
  ASSUME requests \in Seq(Times), tick \in Times, Window \in Nat
  PROVE  /\ Recent \in Seq(Times)
         /\ \A i \in DOMAIN Recent : tick - Recent[i] < Window
         /\ \A x \in Int : x > tick - Window =>
              Cardinality(Since(Recent, x)) = Cardinality(Since(requests, x))
<1> DEFINE N == Len(requests)
           k == CHOOSE f : Kept(f, N)
<1>1. Kept(k, N)
  BY KeptExists
<1>2. Recent = k[N]
  BY DEF Recent, Kept
<1> HIDE DEF k
<1>3. k[0] = <<>> /\ \A i \in 1..N :
        k[i] = IF tick - requests[i] < Window THEN Append(k[i - 1], requests[i]) ELSE k[i - 1]
  <2>1. \A i \in 0..N : k[i] = IF i = 0 THEN <<>>
          ELSE IF tick - requests[i] < Window THEN Append(k[i - 1], requests[i])
          ELSE k[i - 1]
    BY <1>1 DEF Kept
  <2>2. N \in Nat /\ 0 \in 0..N /\ \A i \in 1..N : i \in 0..N /\ i # 0
    OBVIOUS
  <2> QED BY <2>1, <2>2
<1> DEFINE Prefix(n, x) == {i \in 1..n : requests[i] >= x}
           P(n) == /\ k[n] \in Seq(Times)
                   /\ \A i \in DOMAIN k[n] : tick - k[n][i] < Window
                   /\ \A x \in Int : x > tick - Window =>
                        /\ IsFiniteSet(Since(k[n], x)) /\ IsFiniteSet(Prefix(n, x))
                        /\ Cardinality(Since(k[n], x)) = Cardinality(Prefix(n, x))
           S == {n \in Nat : n <= N => P(n)}
<1>a. N \in Nat
  OBVIOUS
<1>b. tick \in Int
  BY DEF Times
<1> HIDE DEF N
<1>4. P(0)
  <2>1. \A x : Since(k[0], x) = {} /\ Prefix(0, x) = {}
    BY <1>3 DEF Since
  <2>2. k[0] \in Seq(Times) /\ DOMAIN k[0] = {}
    BY <1>3
  <2> HIDE DEF Prefix
  <2> QED BY <2>1, <2>2, FS_EmptySet
<1>5. ASSUME NEW n \in Nat, n + 1 <= N, P(n) PROVE P(n + 1)
  <2>0. n + 1 \in 1..N /\ n = (n + 1) - 1
    BY <1>5, <1>a
  <2>1. PICK e \in Times : e = requests[n + 1]
    <3>1. requests[n + 1] \in Times
      BY <2>0 DEF N
    <3> QED BY <3>1
  <2>2. /\ k[n] \in Seq(Times) /\ \A i \in DOMAIN k[n] : tick - k[n][i] < Window
        /\ \A x \in Int : x > tick - Window =>
             /\ IsFiniteSet(Since(k[n], x)) /\ IsFiniteSet(Prefix(n, x))
             /\ Cardinality(Since(k[n], x)) = Cardinality(Prefix(n, x))
    BY <1>5
  <2>3. k[n + 1] = IF tick - e < Window THEN Append(k[n], e) ELSE k[n]
    BY <1>3, <2>0, <2>1
  <2>4. \A x : Prefix(n + 1, x) = IF e >= x THEN Prefix(n, x) \cup {n + 1} ELSE Prefix(n, x)
    BY <2>0, <2>1
  <2>5. \A x : n + 1 \notin Prefix(n, x)
    OBVIOUS
  <2> HIDE DEF P, Prefix
  <2> SUFFICES /\ k[n + 1] \in Seq(Times) /\ \A i \in DOMAIN k[n + 1] : tick - k[n + 1][i] < Window
               /\ \A x \in Int : x > tick - Window =>
                    /\ IsFiniteSet(Since(k[n + 1], x)) /\ IsFiniteSet(Prefix(n + 1, x))
                    /\ Cardinality(Since(k[n + 1], x)) = Cardinality(Prefix(n + 1, x))
    BY DEF P
  <2>6. CASE tick - e < Window
    <3>1. PICK s \in Seq(Times) : s = k[n]
      BY <2>2
    <3>2. PICK t \in Seq(Times) : t = Append(s, e)
      <4>1. Append(s, e) \in Seq(Times)
        OBVIOUS
      <4> QED BY <4>1
    <3>3. k[n + 1] = t
      BY <2>3, <2>6, <3>1, <3>2
    <3>4. /\ Len(s) \in Nat /\ DOMAIN s = 1..Len(s) /\ DOMAIN t = 1..Len(s) + 1
          /\ t[Len(s) + 1] = e /\ \A i \in 1..Len(s) : t[i] = s[i]
      BY <3>2
    <3>5. \A i \in DOMAIN t : tick - t[i] < Window
      BY <2>2, <2>6, <3>1, <3>4
    <3>6. \A x : /\ Since(t, x) = IF e >= x THEN Since(s, x) \cup {Len(s) + 1} ELSE Since(s, x)
                 /\ Len(s) + 1 \notin Since(s, x)
      BY <3>4 DEF Since
    <3>7. ASSUME NEW x \in Int, x > tick - Window
          PROVE  /\ IsFiniteSet(Since(t, x)) /\ IsFiniteSet(Prefix(n + 1, x))
                 /\ Cardinality(Since(t, x)) = Cardinality(Prefix(n + 1, x))
      <4>1. /\ IsFiniteSet(Since(s, x)) /\ IsFiniteSet(Prefix(n, x))
            /\ Cardinality(Since(s, x)) = Cardinality(Prefix(n, x))
        BY <2>2, <3>1, <3>7
      <4>2. CASE e >= x
        <5>1. Since(t, x) = Since(s, x) \cup {Len(s) + 1} /\ Prefix(n + 1, x) = Prefix(n, x) \cup {n + 1}
          BY <2>4, <3>6, <4>2
        <5>2. /\ Len(s) + 1 \notin Since(s, x) /\ n + 1 \notin Prefix(n, x)
          BY <2>5, <3>6
        <5>3. /\ IsFiniteSet(Since(s, x) \cup {Len(s) + 1})
              /\ Cardinality(Since(s, x) \cup {Len(s) + 1}) = Cardinality(Since(s, x)) + 1
          BY <4>1, <5>2, FS_AddElement
        <5>4. /\ IsFiniteSet(Prefix(n, x) \cup {n + 1})
              /\ Cardinality(Prefix(n, x) \cup {n + 1}) = Cardinality(Prefix(n, x)) + 1
          BY <4>1, <5>2, FS_AddElement
        <5> QED BY <4>1, <5>1, <5>3, <5>4
      <4>3. CASE ~(e >= x)
        <5>1. Since(t, x) = Since(s, x) /\ Prefix(n + 1, x) = Prefix(n, x)
          BY <2>4, <3>6, <4>3
        <5> QED BY <4>1, <5>1
      <4> QED BY <4>2, <4>3
    <3> QED BY <3>2, <3>3, <3>5, <3>7
  <2>7. CASE ~(tick - e < Window)
    <3>1. k[n + 1] = k[n]
      BY <2>3, <2>7
    <3>2. ASSUME NEW x \in Int, x > tick - Window PROVE Prefix(n + 1, x) = Prefix(n, x)
      <4>1. ~(e >= x)
        BY <1>b, <2>7, <3>2 DEF Times
      <4> QED BY <2>4, <4>1
    <3> QED BY <2>2, <3>1, <3>2
  <2> QED BY <2>6, <2>7
<1>6. N \in S
  <2> HIDE DEF P
  <2>1. 0 \in S
    BY <1>4
  <2>2. \A n \in Nat : n \in S => n + 1 \in S
    BY <1>5, <1>a
  <2> HIDE DEF S
  <2> QED BY <1>a, <2>1, <2>2, SetInduction
<1>7. P(N)
  <2> HIDE DEF P
  <2> QED BY <1>6, <1>a
<1>8. \A x : Prefix(N, x) = Since(requests, x)
  BY DEF Since, N
<1> QED BY <1>2, <1>7, <1>8

\* The callers asleep since before the tick.
Overslept == {c \in Senders : sleepers[c] # Awake /\ sleepers[c].since < tick}

\* What was sent at once is noted as long as it is in the window, in its order; a
\* caller that has fallen asleep wakes in a later tick.
BucketInv ==
  /\ BucketTypeOK
  /\ \A i, j \in DOMAIN atOnce : i <= j => atOnce[i] <= atOnce[j]
  /\ \A i \in DOMAIN atOnce : atOnce[i] <= tick
  /\ \A x \in Int : x > tick - Window =>
       Cardinality(Since(atOnce, x)) <= Cardinality(Since(requests, x))
  /\ \A c \in Senders : sleepers[c] # Awake =>
       sleepers[c].since <= tick /\ sleepers[c].since < sleepers[c].until
       /\ sleepers[c].since \in Times
  /\ woken[tick] + Cardinality(Overslept) <= Cardinality(Senders)
  /\ \A t \in Times : t > tick => woken[t] = 0
  /\ BurstIsBounded

LEMMA BucketInitial == BucketInit => BucketInv
<1> SUFFICES ASSUME BucketInit PROVE BucketInv
  OBVIOUS
<1> USE RateBucketAssumption DEF BucketInit, Times
<1>1. Overslept = {} /\ \A x : Since(atOnce, x) = {} /\ Since(requests, x) = {}
  BY DEF Overslept, Since
<1>2. Cardinality({}) = 0 /\ Cardinality(Senders) \in Nat
  BY FS_EmptySet, FS_CardinalityType
<1>3. BucketTypeOK
  <2>1. Awake \in [since : 0..LastTick, until : 0..LastTick + Window + Margin]
    BY DEF Awake
  <2> QED BY <2>1 DEF BucketTypeOK
<1>4. BurstIsBounded
  BY <1>2 DEF BurstIsBounded
<1>5. /\ \A i, j \in DOMAIN atOnce : i <= j => atOnce[i] <= atOnce[j]
      /\ \A i \in DOMAIN atOnce : atOnce[i] <= tick
  OBVIOUS
<1>6. \A x \in Int : x > tick - Window =>
        Cardinality(Since(atOnce, x)) <= Cardinality(Since(requests, x))
  <2>1. \A x : Cardinality(Since(atOnce, x)) = 0 /\ Cardinality(Since(requests, x)) = 0
    BY <1>1, <1>2
  <2> QED BY <2>1
<1>7. \A c \in Senders : sleepers[c] = Awake
  OBVIOUS
<1>8. woken[tick] + Cardinality(Overslept) <= Cardinality(Senders)
  <2>1. woken[tick] = 0
    OBVIOUS
  <2>2. Cardinality(Overslept) = 0
    BY <1>1, <1>2
  <2> QED BY <1>2, <2>1, <2>2
<1>9. \A t \in Times : t > tick => woken[t] = 0
  OBVIOUS
<1> QED BY <1>3, <1>4, <1>5, <1>6, <1>7, <1>8, <1>9 DEF BucketInv

\* The times of a sequence that are not before x are finitely many.
LEMMA CountTimes ==
  ASSUME NEW s \in Seq(Times), NEW x \in Int
  PROVE  /\ IsFiniteSet(Since(s, x)) /\ Cardinality(Since(s, x)) \in Nat
         /\ Cardinality(Since(s, x)) <= Len(s)
<1>1. PICK n \in Nat : n = Len(s) /\ DOMAIN s = 1..n
  OBVIOUS
<1>2. Since(s, x) \subseteq 1..n
  BY <1>1 DEF Since
<1>3. IsFiniteSet(1..n) /\ Cardinality(1..n) = n
  BY FS_Interval
<1>4. IsFiniteSet(Since(s, x)) /\ Cardinality(Since(s, x)) <= n
  BY <1>2, <1>3, FS_Subset
<1>5. Cardinality(Since(s, x)) \in Nat
  BY <1>4, FS_CardinalityType
<1> QED BY <1>1, <1>4, <1>5

\* So a time that is noted counts the same in two sequences.
LEMMA AppendTime ==
  ASSUME NEW s \in Seq(Times), NEW e \in Times, NEW x \in Int, NEW t, t = Append(s, e)
  PROVE  Cardinality(Since(t, x)) = IF e >= x THEN Cardinality(Since(s, x)) + 1 ELSE Cardinality(Since(s, x))
<1>1. PICK n \in Nat : n = Len(s)
  OBVIOUS
<1>2. t \in Seq(Times) /\ Len(t) = n + 1 /\ t[n + 1] = e /\ \A i \in 1..n : t[i] = s[i]
  BY <1>1
<1>3. PICK d \in Int : d = e
  BY DEF Times
<1>a. /\ t \in Seq(Times) /\ Len(s) = n /\ Len(t) = n + 1 /\ t[n + 1] = d
      /\ \A i \in 1..n : t[i] = s[i]
  BY <1>1, <1>2, <1>3
<1>b. DOMAIN s = 1..n /\ DOMAIN t = 1..n + 1 /\ n + 1 \notin 1..n
  BY <1>a
<1>4. CASE d >= x
  <2>1. Since(t, x) = Since(s, x) \cup {n + 1} /\ n + 1 \notin Since(s, x)
    BY <1>4, <1>a, <1>b DEF Since
  <2>2. Cardinality(Since(s, x) \cup {n + 1}) = Cardinality(Since(s, x)) + 1
    BY <2>1, CountTimes, FS_AddElement
  <2> QED BY <1>3, <1>4, <2>1, <2>2
<1>5. CASE ~(d >= x)
  <2>1. Since(t, x) = Since(s, x)
    BY <1>5, <1>a, <1>b DEF Since
  <2> QED BY <1>3, <1>5, <2>1
<1> QED BY <1>4, <1>5

LEMMA BucketStep == BucketInv /\ [BucketNext]_bucketVars => BucketInv'
<1> SUFFICES ASSUME BucketInv, [BucketNext]_bucketVars PROVE BucketInv'
  OBVIOUS
<1>0. /\ tick \in Times /\ requests \in Seq(Times) /\ atOnce \in Seq(Times)
      /\ sleepers \in [Senders -> [since : 0..LastTick, until : 0..LastTick + Window + Margin]]
      /\ woken \in [Times -> Nat] /\ tick \in Int /\ LastTick \in Nat
      /\ Window \in Nat /\ Margin \in Nat /\ MaxRequests \in Nat /\ MaxRequests # 0
  BY RateBucketAssumption DEF BucketInv, BucketTypeOK, Times
<1>1. /\ \A i, j \in DOMAIN atOnce : i <= j => atOnce[i] <= atOnce[j]
      /\ \A i \in DOMAIN atOnce : atOnce[i] <= tick
  BY DEF BucketInv
<1>2. \A x \in Int : x > tick - Window =>
        Cardinality(Since(atOnce, x)) <= Cardinality(Since(requests, x))
  BY DEF BucketInv
<1>3. \A c \in Senders : sleepers[c] # Awake =>
        sleepers[c].since <= tick /\ sleepers[c].since < sleepers[c].until
        /\ sleepers[c].since \in Times
  BY DEF BucketInv
<1>4. /\ woken[tick] + Cardinality(Overslept) <= Cardinality(Senders)
      /\ \A t \in Times : t > tick => woken[t] = 0
  BY DEF BucketInv
<1>5. BurstIsBounded
  BY DEF BucketInv
<1>6. /\ IsFiniteSet(Overslept) /\ Cardinality(Overslept) \in Nat /\ Cardinality(Senders) \in Nat
  <2>1. Overslept \subseteq Senders
    BY DEF Overslept
  <2> QED BY <2>1, RateBucketAssumption, FS_Subset, FS_CardinalityType
<1>7. /\ Recent \in Seq(Times)
      /\ \A i \in DOMAIN Recent : tick - Recent[i] < Window
      /\ \A x \in Int : x > tick - Window =>
           Cardinality(Since(Recent, x)) = Cardinality(Since(requests, x))
  BY <1>0, RecentKeeps
<1>8. PICK r \in Seq(Times) : r = Recent
  BY <1>7
<1>9. PICK n \in Nat : n = Len(atOnce) /\ DOMAIN atOnce = 1..n
  BY <1>0
<1>10. ASSUME NEW c \in Senders, Goes(c) PROVE BucketInv'
  <2>1. PICK a \in Seq(Times) : a = Append(atOnce, tick)
    <3>1. Append(atOnce, tick) \in Seq(Times)
      BY <1>0
    <3> QED BY <3>1
  <2>2. PICK q \in Seq(Times) : q = Append(r, tick)
    <3>1. Append(r, tick) \in Seq(Times)
      BY <1>0
    <3> QED BY <3>1
  <2>3. /\ sleepers[c] = Awake /\ Len(r) < MaxRequests
        /\ requests' = q /\ atOnce' = a
        /\ tick' = tick /\ sleepers' = sleepers /\ woken' = woken
    BY <1>8, <1>10, <2>1, <2>2 DEF Goes
  <2>4. /\ DOMAIN a = 1..n + 1 /\ a[n + 1] = tick /\ \A i \in 1..n : a[i] = atOnce[i]
    BY <1>0, <1>9, <2>1
  <2>a. \A i \in 1..n : atOnce[i] <= tick
    BY <1>1, <1>9
  <2>b. tick <= tick
    BY <1>0
  <2>5. BucketTypeOK'
    BY <1>0, <2>3 DEF BucketTypeOK, Times
  <2>6. \A i, j \in DOMAIN a : i <= j => a[i] <= a[j]
    <3> SUFFICES ASSUME NEW i \in 1..n + 1, NEW j \in 1..n + 1, i <= j PROVE a[i] <= a[j]
      BY <2>4
    <3>1. CASE j = n + 1
      <4>1. i \in 1..n \/ i = n + 1
        OBVIOUS
      <4> QED BY <2>4, <2>a, <2>b, <3>1, <4>1
    <3>2. CASE j \in 1..n
      <4>1. i \in 1..n
        BY <3>2
      <4> QED BY <1>1, <1>9, <2>4, <3>2, <4>1
    <3> QED BY <3>1, <3>2
  <2>7. \A i \in DOMAIN a : a[i] <= tick
    <3> SUFFICES ASSUME NEW i \in 1..n + 1 PROVE a[i] <= tick
      BY <2>4
    <3>1. i \in 1..n \/ i = n + 1
      OBVIOUS
    <3> QED BY <2>4, <2>a, <2>b, <3>1
  <2>8. ASSUME NEW x \in Int, x > tick - Window
        PROVE  Cardinality(Since(a, x)) <= Cardinality(Since(q, x))
    <3>1. /\ tick >= x => Cardinality(Since(a, x)) = Cardinality(Since(atOnce, x)) + 1
          /\ ~(tick >= x) => Cardinality(Since(a, x)) = Cardinality(Since(atOnce, x))
          /\ Cardinality(Since(atOnce, x)) \in Nat
      <4>1. tick \in Times /\ atOnce \in Seq(Times)
        BY <1>0
      <4>2. PICK s \in Seq(Times), e \in Times : s = atOnce /\ e = tick
        BY <4>1
      <4>3. a = Append(s, e)
        BY <2>1, <4>2
      <4>4. /\ e >= x => Cardinality(Since(a, x)) = Cardinality(Since(s, x)) + 1
            /\ ~(e >= x) => Cardinality(Since(a, x)) = Cardinality(Since(s, x))
        BY <4>3, AppendTime
      <4>5. Cardinality(Since(s, x)) \in Nat
        BY CountTimes
      <4> QED BY <4>2, <4>4, <4>5
    <3>2. /\ tick >= x => Cardinality(Since(q, x)) = Cardinality(Since(r, x)) + 1
          /\ ~(tick >= x) => Cardinality(Since(q, x)) = Cardinality(Since(r, x))
          /\ Cardinality(Since(r, x)) \in Nat
      <4>1. tick \in Times
        BY <1>0
      <4>2. PICK s \in Seq(Times), e \in Times : s = r /\ e = tick
        BY <4>1
      <4>3. q = Append(s, e)
        BY <2>2, <4>2
      <4>4. /\ e >= x => Cardinality(Since(q, x)) = Cardinality(Since(s, x)) + 1
            /\ ~(e >= x) => Cardinality(Since(q, x)) = Cardinality(Since(s, x))
        BY <4>3, AppendTime
      <4>5. Cardinality(Since(s, x)) \in Nat
        BY CountTimes
      <4> QED BY <4>2, <4>4, <4>5
    <3>3. Cardinality(Since(atOnce, x)) <= Cardinality(Since(requests, x))
      BY <1>2, <2>8
    <3>4. Cardinality(Since(r, x)) = Cardinality(Since(requests, x))
      BY <1>7, <1>8, <2>8
    <3>5. Cardinality(Since(atOnce, x)) <= Cardinality(Since(r, x))
      BY <3>3, <3>4
    <3> QED BY <3>1, <3>2, <3>5
  <2>9. ASSUME n + 1 > MaxRequests PROVE tick - a[n + 1 - MaxRequests] >= Window
    <3>1. PICK m \in 1..n : m = n + 1 - MaxRequests
      <4>1. n + 1 - MaxRequests \in 1..n
        BY <1>0, <2>9
      <4> QED BY <4>1
    <3>2. PICK x \in Times : x = atOnce[m]
      <4>1. atOnce[m] \in Times
        BY <1>0, <1>9
      <4> QED BY <4>1
    <3>3. x \in Int
      BY DEF Times
    <3> SUFFICES ASSUME x > tick - Window PROVE FALSE
      BY <1>0, <2>4, <3>1, <3>2, <3>3
    <3>4. m..n \subseteq Since(atOnce, x)
      BY <1>1, <1>9, <3>2 DEF Since
    <3>5. IsFiniteSet(Since(atOnce, x)) /\ Cardinality(Since(atOnce, x)) \in Nat
      BY <1>0, <3>3, CountTimes
    <3>6. Cardinality(m..n) = MaxRequests
      BY <1>0, <3>1, FS_Interval
    <3>7. Cardinality(m..n) <= Cardinality(Since(atOnce, x))
      BY <3>4, <3>5, FS_Subset
    <3>8. Cardinality(Since(atOnce, x)) <= Cardinality(Since(r, x))
      BY <1>2, <1>7, <1>8, <3>3
    <3>9. Cardinality(Since(r, x)) <= Len(r) /\ Cardinality(Since(r, x)) \in Nat /\ Len(r) \in Nat
      BY <1>0, <3>3, CountTimes
    <3> QED BY <1>0, <2>3, <3>5, <3>6, <3>7, <3>8, <3>9
  <2>10. BurstIsBounded'
    <3>1. ASSUME NEW i \in 1..n + 1, i > MaxRequests PROVE a[i] - a[i - MaxRequests] >= Window
      <4>1. CASE i = n + 1
        BY <1>0, <2>4, <2>9, <3>1, <4>1
      <4>2. CASE i \in 1..n
        <5>1. i - MaxRequests \in 1..n
          BY <1>0, <3>1, <4>2
        <5> QED BY <1>5, <1>9, <2>4, <3>1, <4>2, <5>1 DEF BurstIsBounded
      <4> QED BY <4>1, <4>2
    <3>2. \A t \in Times : woken[t] <= Cardinality(Senders)
      BY <1>5 DEF BurstIsBounded
    <3> QED BY <2>3, <2>4, <3>1, <3>2 DEF BurstIsBounded, Times
  <2>11. Overslept' = Overslept
    BY <2>3 DEF Overslept
  <2>12. \A x \in Int : x > tick' - Window =>
           Cardinality(Since(a, x)) <= Cardinality(Since(q, x))
    BY <2>3, <2>8
  <2>13. Since(atOnce, 0)' = Since(a, 0) /\ \A x : Since(atOnce, x)' = Since(a, x) /\ Since(requests, x)' = Since(q, x)
    BY <2>3 DEF Since
  <2> QED BY <1>3, <1>4, <2>3, <2>5, <2>6, <2>7, <2>10, <2>11, <2>12, <2>13 DEF BucketInv, Awake, Times
<1>11. ASSUME NEW c \in Senders, FallsAsleep(c) PROVE BucketInv'
  <2>1. /\ sleepers[c] = Awake /\ Len(r) >= MaxRequests /\ requests' = r
        /\ sleepers' = [sleepers EXCEPT ![c] = [since |-> tick, until |-> Head(r) + Window + Margin]]
        /\ tick' = tick /\ atOnce' = atOnce /\ woken' = woken
    BY <1>8, <1>11 DEF FallsAsleep
  <2>2. PICK u \in Times : (u = Head(r)) /\ (tick - u < Window)
    <3>1. Len(r) \in Nat /\ Len(r) # 0 /\ 1 \in DOMAIN r
      BY <1>0, <2>1
    <3>2. Head(r) = r[1] /\ r[1] \in Times
      BY <3>1
    <3> QED BY <1>7, <1>8, <3>1, <3>2
  <2>3. PICK w : w = [since |-> tick, until |-> u + Window + Margin]
    OBVIOUS
  <2>c. u \in 1..LastTick /\ u + Window + Margin \in 0..LastTick + Window + Margin
        /\ tick \in 0..LastTick /\ tick < u + Window + Margin
    <3>1. u \in 1..LastTick /\ tick \in 1..LastTick
      BY <1>0 DEF Times
    <3>2. u + Window + Margin <= LastTick + Window + Margin /\ u + Window + Margin \in Nat
      BY <1>0, <3>1
    <3>3. tick < u + Window + Margin
      <4>1. tick - u < Window
        BY <2>2
      <4> QED BY <1>0, <3>1, <4>1
    <3> QED BY <1>0, <3>1, <3>2, <3>3
  <2>4. /\ w \in [since : 0..LastTick, until : 0..LastTick + Window + Margin]
        /\ w.since = tick /\ w.since < w.until
    BY <2>3, <2>c
  <2>5. sleepers' = [sleepers EXCEPT ![c] = w]
    BY <2>1, <2>2, <2>3
  <2>6. sleepers' \in [Senders -> [since : 0..LastTick, until : 0..LastTick + Window + Margin]]
    BY <1>0, <2>4, <2>5
  <2>7. BucketTypeOK'
    BY <1>0, <2>1, <2>6 DEF BucketTypeOK, Times
  <2>8. \A b \in Senders : sleepers'[b] = IF b = c THEN w ELSE sleepers[b]
    BY <1>0, <2>5
  <2>9. \A b \in Senders : sleepers'[b] # Awake =>
          sleepers'[b].since <= tick /\ sleepers'[b].since < sleepers'[b].until
          /\ sleepers'[b].since \in Times
    BY <1>0, <1>3, <2>4, <2>8
  <2>10. Overslept' = Overslept
    BY <1>0, <2>1, <2>4, <2>8 DEF Overslept, Awake
  <2>11. \A x \in Int : x > tick - Window =>
           Cardinality(Since(atOnce, x)) <= Cardinality(Since(r, x))
    BY <1>2, <1>7, <1>8
  <2>12. \A x : Since(atOnce, x)' = Since(atOnce, x) /\ Since(requests, x)' = Since(r, x)
    BY <2>1 DEF Since
  <2>13. BurstIsBounded'
    BY <1>5, <2>1 DEF BurstIsBounded, Times
  <2> QED BY <1>1, <1>4, <2>1, <2>7, <2>9, <2>10, <2>11, <2>12, <2>13 DEF BucketInv, Awake, Times
<1>12. ASSUME NEW c \in Senders, WakesUp(c) PROVE BucketInv'
  <2>1. PICK u \in Times : u = sleepers[c].since
    BY <1>3, <1>12 DEF WakesUp
  <2>2. PICK q \in Seq(Times) : q = Append(requests, u)
    <3>1. Append(requests, u) \in Seq(Times)
      BY <1>0
    <3> QED BY <3>1
  <2>3. /\ sleepers[c] # Awake /\ tick >= sleepers[c].until /\ requests' = q
        /\ woken' = [woken EXCEPT ![tick] = @ + 1] /\ sleepers' = [sleepers EXCEPT ![c] = Awake]
        /\ tick' = tick /\ atOnce' = atOnce
    BY <1>12, <2>1, <2>2 DEF WakesUp
  <2>4. Awake \in [since : 0..LastTick, until : 0..LastTick + Window + Margin]
    BY <1>0 DEF Awake
  <2>5. /\ sleepers' \in [Senders -> [since : 0..LastTick, until : 0..LastTick + Window + Margin]]
        /\ \A b \in Senders : sleepers'[b] = IF b = c THEN Awake ELSE sleepers[b]
    BY <1>0, <2>3, <2>4
  <2>6. /\ woken' \in [Times -> Nat] /\ woken'[tick] = woken[tick] + 1 /\ woken[tick] \in Nat
        /\ \A t \in Times : t # tick => woken'[t] = woken[t]
    BY <1>0, <2>3
  <2>7. BucketTypeOK'
    BY <1>0, <2>3, <2>5, <2>6 DEF BucketTypeOK, Times
  <2>8. c \in Overslept
    <3>1. sleepers[c].since < sleepers[c].until
      BY <1>3, <2>3
    <3>2. sleepers[c].since \in Int /\ sleepers[c].until \in Int
      BY <1>0
    <3> QED BY <1>0, <2>3, <3>1, <3>2 DEF Overslept
  <2>9. Overslept' = Overslept \ {c}
    BY <2>3, <2>5 DEF Overslept, Awake
  <2>10. Cardinality(Overslept \ {c}) = Cardinality(Overslept) - 1
    BY <1>6, <2>8, FS_RemoveElement
  <2>11. woken'[tick] + Cardinality(Overslept \ {c}) <= Cardinality(Senders)
    BY <1>4, <1>6, <2>6, <2>10
  <2>12. Cardinality(Overslept \ {c}) \in Nat
    BY <1>6, FS_RemoveElement, FS_CardinalityType
  <2>13. ASSUME NEW x \in Int, x > tick - Window
         PROVE  Cardinality(Since(atOnce, x)) <= Cardinality(Since(q, x))
    <3>1. /\ u >= x => Cardinality(Since(q, x)) = Cardinality(Since(requests, x)) + 1
          /\ ~(u >= x) => Cardinality(Since(q, x)) = Cardinality(Since(requests, x))
          /\ Cardinality(Since(requests, x)) \in Nat
      <4>1. requests \in Seq(Times)
        BY <1>0
      <4>2. PICK s \in Seq(Times), e \in Times : s = requests /\ e = u
        BY <4>1
      <4>3. q = Append(s, e)
        BY <2>2, <4>2
      <4>4. /\ e >= x => Cardinality(Since(q, x)) = Cardinality(Since(s, x)) + 1
            /\ ~(e >= x) => Cardinality(Since(q, x)) = Cardinality(Since(s, x))
        BY <4>3, AppendTime
      <4>5. Cardinality(Since(s, x)) \in Nat
        BY CountTimes
      <4> QED BY <4>2, <4>4, <4>5
    <3>2. Cardinality(Since(atOnce, x)) \in Nat
      BY <1>0, CountTimes
    <3>3. Cardinality(Since(atOnce, x)) <= Cardinality(Since(requests, x))
      BY <1>2, <2>13
    <3> QED BY <3>1, <3>2, <3>3
  <2>14. BurstIsBounded'
    <3>1. \A t \in Times : woken'[t] <= Cardinality(Senders)
      <4>1. woken'[tick] <= Cardinality(Senders)
        BY <1>6, <2>6, <2>11, <2>12
      <4> QED BY <1>5, <2>6, <4>1 DEF BurstIsBounded
    <3> QED BY <1>5, <2>3, <3>1 DEF BurstIsBounded, Times
  <2>15. \A b \in Senders : sleepers'[b] # Awake =>
          sleepers'[b].since <= tick /\ sleepers'[b].since < sleepers'[b].until
          /\ sleepers'[b].since \in Times
    BY <1>3, <2>5
  <2>16. \A x : Since(atOnce, x)' = Since(atOnce, x) /\ Since(requests, x)' = Since(q, x)
    BY <2>3 DEF Since
  <2>17. \A t \in Times : t > tick => woken'[t] = 0
    BY <1>0, <1>4, <2>6
  <2> QED BY <1>1, <2>3, <2>7, <2>9, <2>11, <2>13, <2>14, <2>15, <2>16, <2>17 DEF BucketInv, Awake, Times
<1>13. CASE Passes
  <2>1. /\ tick < LastTick /\ tick' = tick + 1 /\ requests' = requests
        /\ sleepers' = sleepers /\ atOnce' = atOnce /\ woken' = woken
    BY <1>13 DEF Passes
  <2>2. tick + 1 \in Times
    BY <1>0, <2>1 DEF Times
  <2>3. BucketTypeOK'
    BY <1>0, <2>1, <2>2 DEF BucketTypeOK, Times
  <2>4. PICK O : O = Overslept' /\ O \subseteq Senders
    BY DEF Overslept
  <2>5. Cardinality(O) <= Cardinality(Senders) /\ Cardinality(O) \in Nat
    BY <2>4, RateBucketAssumption, FS_Subset, FS_CardinalityType
  <2>6. woken[tick + 1] = 0
    BY <1>0, <1>4, <2>2
  <2>7. woken'[tick'] + Cardinality(O) <= Cardinality(Senders)
    BY <2>1, <2>5, <2>6
  <2>8. \A x \in Int : x > tick + 1 - Window =>
          Cardinality(Since(atOnce, x)) <= Cardinality(Since(requests, x))
    BY <1>0, <1>2
  <2>9. /\ \A i \in DOMAIN atOnce : atOnce[i] <= tick + 1
    <3>1. \A i \in DOMAIN atOnce : atOnce[i] \in Int
      BY <1>0 DEF Times
    <3> QED BY <1>0, <1>1, <3>1
  <2>10. \A c \in Senders : sleepers[c] # Awake =>
          sleepers[c].since <= tick + 1 /\ sleepers[c].since < sleepers[c].until
          /\ sleepers[c].since \in Times
    BY <1>0, <1>3 DEF Times
  <2>11. \A t \in Times : t > tick + 1 => woken[t] = 0
    BY <1>0, <1>4 DEF Times
  <2>12. BurstIsBounded'
    BY <1>5, <2>1 DEF BurstIsBounded, Times
  <2>13. \A x : Since(atOnce, x)' = Since(atOnce, x) /\ Since(requests, x)' = Since(requests, x)
    BY <2>1 DEF Since
  <2>14. \A x \in Int : x > tick' - Window => Cardinality(Since(atOnce, x)') <= Cardinality(Since(requests, x)')
    <3> SUFFICES ASSUME NEW x \in Int, x > tick' - Window
                 PROVE  Cardinality(Since(atOnce, x)') <= Cardinality(Since(requests, x)')
      OBVIOUS
    <3>1. Since(atOnce, x)' = Since(atOnce, x) /\ Since(requests, x)' = Since(requests, x)
      BY <2>1 DEF Since
    <3>2. Cardinality(Since(atOnce, x)) <= Cardinality(Since(requests, x))
      <4>1. x > tick + 1 - Window
        BY <1>0, <2>1
      <4> QED BY <2>8, <4>1
    <3> QED BY <3>1, <3>2
  <2>15. Awake' = Awake /\ Times' = Times
    BY DEF Awake, Times
  <2>16. /\ \A i, j \in DOMAIN atOnce' : i <= j => atOnce'[i] <= atOnce'[j]
         /\ \A i \in DOMAIN atOnce' : atOnce'[i] <= tick'
    BY <1>1, <2>1, <2>9
  <2>17. \A c \in Senders : sleepers'[c] # Awake =>
          sleepers'[c].since <= tick' /\ sleepers'[c].since < sleepers'[c].until
          /\ sleepers'[c].since \in Times
    BY <2>1, <2>10
  <2>18. \A t \in Times : t > tick' => woken'[t] = 0
    BY <2>1, <2>11
  <2> QED BY <2>3, <2>4, <2>7, <2>12, <2>14, <2>15, <2>16, <2>17, <2>18 DEF BucketInv
<1>14. CASE UNCHANGED bucketVars
  <2>1. /\ tick' = tick /\ requests' = requests /\ sleepers' = sleepers
        /\ atOnce' = atOnce /\ woken' = woken
    BY <1>14 DEF bucketVars
  <2>2. Overslept' = Overslept /\ BurstIsBounded' /\ BucketTypeOK'
    BY <1>0, <1>5, <2>1 DEF Overslept, BurstIsBounded, BucketTypeOK, Times, Awake
  <2>3. \A x : Since(atOnce, x)' = Since(atOnce, x) /\ Since(requests, x)' = Since(requests, x)
    BY <2>1 DEF Since
  <2> QED BY <1>1, <1>2, <1>3, <1>4, <2>1, <2>2, <2>3 DEF BucketInv, Awake, Times
<1> QED BY <1>10, <1>11, <1>12, <1>13, <1>14 DEF BucketNext

\* No window takes more requests sent at once than the quota, for any quota, window,
\* margin and number of callers, and no tick more that slept than there are callers
\* (RateLimiter.waitIfNeeded, client.ts:154-177).
THEOREM QuotaHolds == BucketSpec => [](BucketTypeOK /\ BurstIsBounded)
<1>1. BucketInv => BucketTypeOK /\ BurstIsBounded
  BY DEF BucketInv
<1> QED BY <1>1, BucketInitial, BucketStep, PTL DEF BucketSpec
=============================================================================
