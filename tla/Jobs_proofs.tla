----------------------------- MODULE Jobs_proofs -----------------------------
(***************************************************************************)
(* Theorems about the jobs of MCEngineJobs, for any number of starts,      *)
(* requests, sockets and channels, any prices and rates, and any faults.   *)
(***************************************************************************)
EXTENDS MCEngineJobs, Induction, FiniteSetTheorems, TLAPS

-----------------------------------------------------------------------------
(* SharedConnection: well typed, and an implementation of BotStore, for any  *)
(* bots, levels, callers and faults.                                         *)

\* Every row the callers write is one of Rows.
LEMMA RowKinds ==
  /\ \A w \in Inserts : [kind |-> "insert", id |-> w] \in Rows
  /\ \A c \in Creators : [kind |-> "bot", id |-> c] \in Rows
  /\ \A c \in Creators \cup {NoBot} : [kind |-> "initial", id |-> c] \in Rows
BY DEF Rows

\* The rows stay well typed whatever statement is executed.
LEMMA TypeStep == ConnTypeOK /\ [ConnNext]_connVars => ConnTypeOK'
<1> SUFFICES ASSUME ConnTypeOK, [ConnNext]_connVars PROVE ConnTypeOK'
  OBVIOUS
<1> USE DEF ConnTypeOK, Gens, JobStates
<1>1. CASE UNCHANGED connVars
  BY <1>1 DEF connVars, gridVars, rowVars, jobVars, createVars, heldVars
<1>2. ASSUME NEW b \in Bots, BeginDelete(b) PROVE ConnTypeOK'
  BY <1>2 DEF BeginDelete, Grid, Whole, rowVars, createVars, heldVars
<1>3. ASSUME NEW b \in Bots, DeleteFails(b) PROVE ConnTypeOK'
  BY <1>3 DEF DeleteFails, gridVars, rowVars, createVars, heldVars
<1>4. ASSUME NEW b \in Bots, NEW i \in Levels, InsertLevel(b, i) PROVE ConnTypeOK'
  <2>1. [connGrid[b] EXCEPT ![i] = "new"] \in [Levels -> Gens]
    OBVIOUS
  <2>2. connGrid' \in [Bots -> [Levels -> Gens]]
    BY <1>4, <2>1 DEF InsertLevel, Grid
  <2>3. diskGrid' \in [Bots -> [Levels -> Gens]]
    BY <1>4, <2>2 DEF InsertLevel, Grid
  <2>4. /\ job' \in [Bots -> JobStates]
        /\ pend' \in [Bots -> SUBSET Levels]
        /\ last' \in Creators \cup {NoBot}
    BY <1>4 DEF InsertLevel
  <2> QED BY <1>4, <2>2, <2>3, <2>4 DEF InsertLevel, rowVars, heldVars
<1>5. ASSUME NEW b \in Bots, NEW i \in Levels, InsertFails(b, i) PROVE ConnTypeOK'
  BY <1>5 DEF InsertFails, gridVars, rowVars, createVars, heldVars
<1>6. ASSUME NEW b \in Bots, Commit(b) PROVE ConnTypeOK'
  BY <1>6 DEF Commit, CommitAll, createVars
<1>7. ASSUME NEW b \in Bots, Rollback(b) PROVE ConnTypeOK'
  BY <1>7 DEF Rollback, RollbackAll, createVars
<1>8. ASSUME NEW w \in Inserts, InsertRow(w) PROVE ConnTypeOK'
  BY <1>8, RowKinds DEF InsertRow, Row, gridVars, jobVars
<1>9. ASSUME NEW c \in Creators, CreateInsert(c) PROVE ConnTypeOK'
  BY <1>9, RowKinds DEF CreateInsert, Row, gridVars, jobVars
<1>10. ASSUME NEW c \in Creators, CreateSelect(c) PROVE ConnTypeOK'
  BY <1>10 DEF CreateSelect, gridVars, rowVars, jobVars, heldVars
<1>11. ASSUME NEW c \in Creators, CreateSeed(c) PROVE ConnTypeOK'
  BY <1>11, RowKinds DEF CreateSeed, Row, gridVars, jobVars
<1>12. CASE ProcessDies
  BY <1>12 DEF ProcessDies, RollbackAll
<1>13. ASSUME NEW b \in Bots, CommitFails(b) PROVE ConnTypeOK'
  BY <1>13 DEF CommitFails, RollbackAll, gridVars, rowVars, createVars, heldVars
<1> QED
  BY <1>1, <1>2, <1>3, <1>4, <1>5, <1>6, <1>7, <1>8, <1>9, <1>10, <1>11, <1>12, <1>13
  DEF ConnNext, Replacing, BeginFatal, Crash

LEMMA TypeInit == ConnInit => ConnTypeOK
<1> SUFFICES ASSUME ConnInit PROVE ConnTypeOK
  OBVIOUS
<1>1. [b \in Bots |-> Whole("old")] \in [Bots -> [Levels -> Gens]]
  BY DEF Whole, Gens
<1>2. /\ job \in [Bots -> JobStates]
      /\ pend \in [Bots -> SUBSET Levels]
      /\ undo \subseteq Bots
  BY DEF ConnInit, JobStates
<1>3. /\ step \in [Creators -> {"insert", "select", "seed", "done", "gone"}]
      /\ ret \in [Creators -> Creators \cup {NoBot}]
  BY DEF ConnInit
<1> QED BY <1>1, <1>2, <1>3 DEF ConnInit, ConnTypeOK

\* Every reachable state of the connection is well typed.
THEOREM ConnTypeCorrect == ConnSpec => []ConnTypeOK
<1> QED BY TypeInit, TypeStep, PTL DEF ConnSpec

-----------------------------------------------------------------------------
(* The inductive invariant: at most one transaction, its owner known, and    *)
(* what it has done so far.                                                  *)

Owns(b) == job[b] \in {"inserting", "committing"} \/ b \in undo

OneOwner == \A a, b \in Bots : Busy(a) /\ Busy(b) => a = b

\* A transaction has an owner or was left open, and nobody else's grid differs from the
\* disk but by being the new one.
InTxn ==
  /\ txn <=> left \/ \E b \in Bots : Owns(b)
  /\ left => \A b \in Bots : ~Owns(b)
  /\ \A b \in Bots : ~Owns(b) => connGrid[b] \in {diskGrid[b], Whole("new")}
  /\ ~txn => connRows = diskRows /\ connGrid = diskGrid
  /\ diskRows \subseteq connRows

\* What the INSERTs have done as long as none has failed.
Progressing ==
  \A b \in Bots :
    /\ job[b] = "inserting" =>
         \A i \in Levels : connGrid[b][i] = IF i \in pend[b] THEN "none" ELSE "new"
    /\ job[b] = "committing" => pend[b] = {} /\ connGrid[b] = Whole("new")
    /\ b \in undo => job[b] = "failed"

WholeOnDisk == \A b \in Bots : diskGrid[b] \in {Whole("old"), Whole("new")}

ConnInv == ConnTypeOK /\ OneOwner /\ InTxn /\ Progressing /\ WholeOnDisk

\* Neither what other callers write nor a replacement at rest disturbs them.
LEMMA GridsKept ==
  ASSUME UNCHANGED <<gridVars, jobVars>>
  PROVE  /\ OneOwner => OneOwner'
         /\ Progressing => Progressing'
         /\ WholeOnDisk => WholeOnDisk'
         /\ \A b \in Bots : Owns(b)' = Owns(b)
BY DEF OneOwner, Busy, Progressing, WholeOnDisk, Owns, gridVars, jobVars

LEMMA InvInit == ConnInit => ConnInv
<1> SUFFICES ASSUME ConnInit PROVE ConnInv
  OBVIOUS
<1>1. \A b \in Bots : diskGrid[b] = Whole("old") /\ ~Busy(b) /\ ~Owns(b)
  BY DEF ConnInit, Busy, Owns
<1>2. OneOwner /\ WholeOnDisk
  BY <1>1 DEF OneOwner, WholeOnDisk
<1>3. InTxn
  BY <1>1 DEF InTxn, ConnInit
<1>4. Progressing
  BY <1>1 DEF Progressing, ConnInit
<1> QED BY TypeInit, <1>2, <1>3, <1>4 DEF ConnInv

LEMMA BeginStep ==
  ASSUME ConnInv, NEW b \in Bots, BeginDelete(b)
  PROVE  OneOwner' /\ InTxn' /\ Progressing' /\ WholeOnDisk'
<1> USE DEF ConnInv, ConnTypeOK
<1>1. \A o \in Bots : ~Busy(o) /\ ~Owns(o)
  BY DEF BeginDelete, Busy, Owns
<1>2. \A o \in Bots : o # b => ~Busy(o)' /\ ~Owns(o)'
  BY <1>1 DEF BeginDelete, Busy, Owns
<1>3. Owns(b)' /\ job'[b] = "inserting" /\ pend'[b] = Levels /\ ~(b \in undo')
  BY <1>1 DEF BeginDelete, Owns, Busy
<1>4. /\ connGrid'[b] = Whole("none")
      /\ \A o \in Bots : o # b => connGrid'[o] = connGrid[o]
      /\ diskGrid' = diskGrid
  BY DEF BeginDelete, Grid
<1>5. OneOwner'
  BY <1>2 DEF OneOwner
<1>6. InTxn'
  BY <1>1, <1>2, <1>3, <1>4 DEF InTxn, BeginDelete, rowVars
<1>7. Progressing'
  BY <1>2, <1>3, <1>4 DEF Progressing, Owns, Whole
<1>8. WholeOnDisk'
  BY <1>4 DEF WholeOnDisk
<1> QED BY <1>5, <1>6, <1>7, <1>8

LEMMA DeleteFailsStep ==
  ASSUME ConnInv, NEW b \in Bots, DeleteFails(b)
  PROVE  OneOwner' /\ InTxn' /\ Progressing' /\ WholeOnDisk'
<1> USE DEF ConnInv, ConnTypeOK
<1>1. \A o \in Bots : ~Busy(o) /\ ~Owns(o)
  BY DEF DeleteFails, Busy, Owns
<1>2. \A o \in Bots : o # b => ~Busy(o)' /\ ~Owns(o)'
  BY <1>1 DEF DeleteFails, Busy, Owns
<1>3. Owns(b)' /\ job'[b] = "failed"
  BY DEF DeleteFails, Owns
<1>4. connGrid' = connGrid /\ diskGrid' = diskGrid
  BY DEF DeleteFails, gridVars
<1>5. OneOwner'
  BY <1>2 DEF OneOwner
<1>6. InTxn'
  BY <1>1, <1>2, <1>3, <1>4 DEF InTxn, DeleteFails, rowVars
<1>7. Progressing'
  BY <1>2, <1>3 DEF Progressing, Owns
<1>8. WholeOnDisk'
  BY <1>4 DEF WholeOnDisk
<1> QED BY <1>5, <1>6, <1>7, <1>8

LEMMA InsertStep ==
  ASSUME ConnInv, NEW b \in Bots, NEW i \in Levels, InsertLevel(b, i)
  PROVE  OneOwner' /\ InTxn' /\ Progressing' /\ WholeOnDisk'
<1> USE DEF ConnInv, ConnTypeOK
<1>1. Busy(b) /\ \A o \in Bots : o # b => ~Busy(o) /\ ~Owns(o)
  BY DEF InsertLevel, Busy, OneOwner, Owns
<1>2. Owns(b)
  <2> SUFFICES ASSUME ~Owns(b) PROVE FALSE
    OBVIOUS
  <2>1. connGrid[b] \in {Whole("old"), Whole("new")}
    BY DEF InTxn, WholeOnDisk
  <2>2. connGrid[b][i] \in {"old", "new"}
    BY <2>1 DEF Whole
  <2> QED BY <2>2 DEF InsertLevel
<1>3. txn /\ txn'
  BY <1>2 DEF InTxn, InsertLevel
<1>4. /\ connGrid'[b] = [connGrid[b] EXCEPT ![i] = "new"]
      /\ \A o \in Bots : o # b => connGrid'[o] = connGrid[o]
      /\ diskGrid' = diskGrid
  BY <1>3 DEF InsertLevel, Grid
<1>5. /\ pend'[b] = pend[b] \ {i}
      /\ job'[b] = (IF job[b] = "inserting" /\ pend'[b] = {} THEN "committing" ELSE job[b])
      /\ undo' = undo
      /\ \A o \in Bots : o # b => pend'[o] = pend[o] /\ job'[o] = job[o]
  BY DEF InsertLevel
<1>6. \A o \in Bots : Owns(o)' = Owns(o)
  BY <1>5 DEF Owns
<1>7. OneOwner'
  BY <1>1, <1>5 DEF OneOwner, Busy
<1>8. InTxn'
  BY <1>2, <1>3, <1>4, <1>6 DEF InTxn, InsertLevel, rowVars
<1>9. \A j \in Levels : connGrid'[b][j] = IF j = i THEN "new" ELSE connGrid[b][j]
  BY <1>4
<1>10. ASSUME job[b] = "inserting"
       PROVE  \A j \in Levels : connGrid'[b][j] = IF j \in pend'[b] THEN "none" ELSE "new"
  BY <1>5, <1>9, <1>10 DEF Progressing
<1>11. ASSUME job'[b] = "committing" PROVE pend'[b] = {} /\ connGrid'[b] = Whole("new")
  <2>1. CASE job[b] = "committing"
    BY <2>1 DEF Progressing, InsertLevel
  <2>2. CASE job[b] = "inserting" /\ pend'[b] = {}
    <3>1. \A j \in Levels : connGrid'[b][j] = "new"
      BY <1>10, <2>2
    <3>2. connGrid'[b] = [j \in Levels |-> connGrid'[b][j]]
      BY <1>4
    <3> QED BY <2>2, <3>1, <3>2 DEF Whole
  <2> QED BY <1>5, <1>11, <2>1, <2>2
<1>12. \A o \in Bots : o # b => job'[o] \notin {"inserting", "committing"} /\ o \notin undo'
  BY <1>1, <1>5 DEF Owns
<1>13. job'[b] = "inserting" => job[b] = "inserting"
  BY <1>5
<1>14. b \in undo' => job'[b] = "failed"
  BY <1>5 DEF Progressing
<1>15. Progressing'
  BY <1>10, <1>11, <1>12, <1>13, <1>14 DEF Progressing
<1>16. WholeOnDisk'
  BY <1>4 DEF WholeOnDisk
<1> QED BY <1>7, <1>8, <1>15, <1>16
LEMMA InsertFailsStep ==
  ASSUME ConnInv, NEW b \in Bots, NEW i \in Levels, InsertFails(b, i)
  PROVE  OneOwner' /\ InTxn' /\ Progressing' /\ WholeOnDisk'
<1> USE DEF ConnInv, ConnTypeOK
<1>1. Busy(b) /\ \A o \in Bots : o # b => ~Busy(o) /\ ~Owns(o)
  BY DEF InsertFails, Busy, OneOwner, Owns
<1>2. job[b] # "committing"
  BY DEF InsertFails, Progressing
<1>3. /\ job'[b] = "failed"
      /\ b \in undo' <=> (b \in undo \/ job[b] = "inserting")
      /\ \A o \in Bots : o # b => pend'[o] = pend[o] /\ job'[o] = job[o]
                                   /\ (o \in undo' <=> o \in undo)
  BY DEF InsertFails
<1>4. \A o \in Bots : Owns(o)' = Owns(o)
  BY <1>2, <1>3 DEF Owns
<1>5. connGrid' = connGrid /\ diskGrid' = diskGrid /\ txn' = txn
  BY DEF InsertFails, gridVars
<1>6. OneOwner'
  BY <1>1, <1>3 DEF OneOwner, Busy
<1>7. InTxn'
  BY <1>4, <1>5 DEF InTxn, InsertFails, rowVars
<1>8. Progressing'
  BY <1>1, <1>3, <1>5 DEF Progressing, Owns
<1>9. WholeOnDisk'
  BY <1>5 DEF WholeOnDisk
<1> QED BY <1>6, <1>7, <1>8, <1>9

LEMMA CommitStep ==
  ASSUME ConnInv, NEW b \in Bots, Commit(b)
  PROVE  OneOwner' /\ InTxn' /\ Progressing' /\ WholeOnDisk'
<1> USE DEF ConnInv, ConnTypeOK
<1>1. Busy(b) /\ Owns(b) /\ \A o \in Bots : o # b => ~Busy(o) /\ ~Owns(o)
  BY DEF Commit, Busy, OneOwner, Owns
<1>2. b \notin undo /\ pend[b] = {} /\ connGrid[b] = Whole("new")
  BY DEF Commit, Progressing
<1>3. /\ job'[b] = "ok" /\ pend' = pend /\ undo' = undo
      /\ \A o \in Bots : o # b => job'[o] = job[o]
  BY DEF Commit
<1>4. \A o \in Bots : ~Busy(o)' /\ ~Owns(o)'
  BY <1>1, <1>2, <1>3 DEF Busy, Owns
<1>5. diskGrid' = connGrid /\ connGrid' = connGrid /\ txn' = FALSE /\ ~left'
      /\ diskRows' = connRows /\ connRows' = connRows
  BY <1>1 DEF Commit, CommitAll, InTxn
<1>6. OneOwner'
  BY <1>4 DEF OneOwner
<1>7. InTxn'
  BY <1>4, <1>5 DEF InTxn
<1>8. Progressing'
  BY <1>4 DEF Progressing, Owns
<1>9. WholeOnDisk'
  BY <1>1, <1>2, <1>5 DEF WholeOnDisk, InTxn
<1> QED BY <1>6, <1>7, <1>8, <1>9

LEMMA RollbackStep ==
  ASSUME ConnInv, NEW b \in Bots, Rollback(b)
  PROVE  OneOwner' /\ InTxn' /\ Progressing' /\ WholeOnDisk'
<1> USE DEF ConnInv, ConnTypeOK
<1>1. Busy(b) /\ \A o \in Bots : o # b => ~Busy(o) /\ ~Owns(o)
  BY DEF Rollback, Busy, OneOwner, Owns
<1>2. job[b] = "failed"
  BY DEF Rollback, Progressing
<1>3. job' = job /\ pend' = pend /\ undo' = undo \ {b}
  BY DEF Rollback
<1>4. \A o \in Bots : ~Owns(o)'
  BY <1>1, <1>2, <1>3 DEF Owns
<1>5. diskGrid' = diskGrid /\ connGrid' = diskGrid /\ txn' = FALSE /\ ~left'
      /\ diskRows' = diskRows /\ connRows' = diskRows
  BY DEF Rollback, RollbackAll, InTxn, Owns
<1>6. OneOwner'
  BY <1>1, <1>3 DEF OneOwner, Busy
<1>7. InTxn'
  BY <1>4, <1>5 DEF InTxn
<1>8. Progressing'
  BY <1>4 DEF Progressing, Owns
<1>9. WholeOnDisk'
  BY <1>5 DEF WholeOnDisk
<1> QED BY <1>6, <1>7, <1>8, <1>9

\* A COMMIT that failed: SQLite has rolled back, or the transaction stays as it is, with
\* nobody to end it and no grid half made in it.
LEMMA CommitFailsStep ==
  ASSUME ConnInv, NEW b \in Bots, CommitFails(b)
  PROVE  OneOwner' /\ InTxn' /\ Progressing' /\ WholeOnDisk'
<1> USE DEF ConnInv, ConnTypeOK
<1>1. Busy(b) /\ Owns(b) /\ \A o \in Bots : o # b => ~Busy(o) /\ ~Owns(o)
  BY DEF CommitFails, Busy, OneOwner, Owns
<1>2. b \notin undo /\ pend[b] = {} /\ connGrid[b] = Whole("new")
  BY DEF CommitFails, Progressing
<1>3. /\ job'[b] = "failed" /\ pend' = pend /\ undo' = undo
      /\ \A o \in Bots : o # b => job'[o] = job[o]
  BY DEF CommitFails
<1>4. \A o \in Bots : ~Busy(o)' /\ ~Owns(o)'
  BY <1>1, <1>2, <1>3 DEF Busy, Owns
<1>5. OneOwner' /\ Progressing'
  BY <1>4 DEF OneOwner, Progressing, Owns
<1>6. txn /\ ~left
  BY <1>1 DEF InTxn
<1>7. diskGrid' = diskGrid
  BY DEF CommitFails, RollbackAll, gridVars
<1>8. InTxn'
  <2>1. CASE RollbackAll /\ left' = left
    BY <1>4, <1>6, <2>1 DEF InTxn, RollbackAll
  <2>2. CASE left' = TRUE /\ UNCHANGED <<gridVars, rowVars, txn, heldVars>>
    BY <1>1, <1>2, <1>4, <1>6, <2>2 DEF InTxn, gridVars, rowVars
  <2> QED BY <2>1, <2>2 DEF CommitFails
<1>9. WholeOnDisk'
  BY <1>7 DEF WholeOnDisk
<1> QED BY <1>5, <1>8, <1>9

LEMMA DiesStep ==
  ASSUME ConnInv, ProcessDies
  PROVE  OneOwner' /\ InTxn' /\ Progressing' /\ WholeOnDisk'
<1> USE DEF ConnInv, ConnTypeOK
<1>1. \A o \in Bots : ~Busy(o)' /\ ~Owns(o)'
  BY DEF ProcessDies, Busy, Owns
<1>2. diskGrid' = diskGrid /\ connGrid' = diskGrid /\ txn' = FALSE /\ left' = FALSE
      /\ diskRows' = diskRows /\ connRows' = diskRows
  BY DEF ProcessDies, RollbackAll
<1>3. OneOwner' /\ Progressing'
  BY <1>1 DEF OneOwner, Progressing, Owns
<1>4. InTxn'
  BY <1>1, <1>2 DEF InTxn
<1>5. WholeOnDisk'
  BY <1>2 DEF WholeOnDisk
<1> QED BY <1>3, <1>4, <1>5

\* A row of another caller, in whatever transaction it falls.
LEMMA RowStep ==
  ASSUME ConnInv, NEW r, Row(r), UNCHANGED <<gridVars, txn, left, jobVars>>
  PROVE  OneOwner' /\ InTxn' /\ Progressing' /\ WholeOnDisk'
<1>1. InTxn'
  <2>1. \A b \in Bots : Owns(b)' = Owns(b)
    BY GridsKept
  <2> QED BY <2>1 DEF ConnInv, InTxn, Row, gridVars
<1> QED BY <1>1, GridsKept DEF ConnInv

LEMMA InvStep == ConnInv /\ [ConnNext]_connVars => ConnInv'
<1> SUFFICES ASSUME ConnInv, [ConnNext]_connVars
             PROVE  OneOwner' /\ InTxn' /\ Progressing' /\ WholeOnDisk'
  BY TypeStep DEF ConnInv
<1>1. ASSUME UNCHANGED <<gridVars, rowVars, txn, left, jobVars>>
      PROVE  OneOwner' /\ InTxn' /\ Progressing' /\ WholeOnDisk'
  <2>1. \A b \in Bots : Owns(b)' = Owns(b)
    BY <1>1, GridsKept
  <2>2. InTxn'
    BY <1>1, <2>1 DEF ConnInv, InTxn, gridVars, rowVars
  <2> QED BY <1>1, <2>2, GridsKept DEF ConnInv
<1>2. CASE UNCHANGED connVars
  BY <1>1, <1>2 DEF connVars
<1>3. CASE \E b \in Bots : Replacing(b)
  BY <1>3, BeginStep, DiesStep, DeleteFailsStep, InsertStep, InsertFailsStep, CommitStep,
     CommitFailsStep, RollbackStep DEF Replacing, BeginFatal
<1>4. ASSUME NEW w \in Inserts, InsertRow(w)
      PROVE  OneOwner' /\ InTxn' /\ Progressing' /\ WholeOnDisk'
  BY <1>4, RowStep DEF InsertRow
<1>5. ASSUME NEW c \in Creators, CreateInsert(c) \/ CreateSelect(c) \/ CreateSeed(c)
      PROVE  OneOwner' /\ InTxn' /\ Progressing' /\ WholeOnDisk'
  <2>1. CASE CreateInsert(c)
    BY <2>1, RowStep DEF CreateInsert
  <2>2. CASE CreateSelect(c)
    BY <2>2, <1>1 DEF CreateSelect
  <2>3. CASE CreateSeed(c)
    BY <2>3, RowStep DEF CreateSeed
  <2> QED BY <1>5, <2>1, <2>2, <2>3
<1> QED BY <1>2, <1>3, <1>4, <1>5, DiesStep DEF ConnNext, Crash

\* Between transactions and inside them, no grid on disk is ever a partial one:
\* what replaceAllGridLevels promises its callers, whenever the process dies.
THEOREM GridsWhole == ConnSpec => []NoPartialGrid
<1>1. ConnInv => NoPartialGrid
  BY DEF ConnInv, WholeOnDisk, NoPartialGrid, GridOnDisk
<1> QED BY <1>1, InvInit, InvStep, PTL DEF ConnSpec

\* Whatever else fails, an open transaction has a call that still ends it; one that a
\* failed COMMIT has left to the next replacement holds complete grids only.
THEOREM TransactionsOwned == ConnSpec => []TransactionHasOwner
<1>1. ConnInv => TransactionHasOwner
  <2> SUFFICES ASSUME ConnInv PROVE TransactionHasOwner
    OBVIOUS
  <2>1. txn => left \/ \E b \in Bots : job[b] \in {"inserting", "committing"} \/ b \in undo
    BY DEF ConnInv, InTxn, Owns
  <2>2. ASSUME left, NEW b \in Bots PROVE connGrid[b] \in {Whole("old"), Whole("new")}
    BY <2>2 DEF ConnInv, InTxn, WholeOnDisk
  <2>3. left => txn
    BY DEF ConnInv, InTxn
  <2> QED BY <2>1, <2>2, <2>3 DEF TransactionHasOwner
<1> QED BY <1>1, InvInit, InvStep, PTL DEF ConnSpec

-----------------------------------------------------------------------------
(* Every step of the connection is a step of BotStore or changes nothing     *)
(* on disk.                                                                  *)

LEMMA DiskKept ==
  ASSUME UNCHANGED <<diskGrid, diskRows>>
  PROVE  UNCHANGED Promise!storeVars
BY DEF Promise!storeVars, GridOnDisk

LEMMA RowStored ==
  ASSUME ConnInv, ConnInv', UNCHANGED gridVars, NEW r, Row(r)
  PROVE  [Promise!StoreNext]_(Promise!storeVars)
<1>1. \A b \in Bots : GridOnDisk(b)' = GridOnDisk(b)
  BY DEF gridVars, GridOnDisk
<1>2. diskRows \subseteq diskRows' /\ diskRows' \in SUBSET Rows
  BY DEF ConnInv, ConnTypeOK, InTxn, Row
<1> QED BY <1>1, <1>2 DEF Promise!StoreNext, Promise!Store

LEMMA CommittedGrids ==
  ASSUME ConnInv, ConnInv', NEW b \in Bots, Commit(b)
  PROVE  \E S \in SUBSET Bots : Promise!Replace(S)
<1> DEFINE S == {o \in Bots : connGrid[o] # diskGrid[o]}
<1>1. /\ diskGrid' = connGrid
      /\ diskRows' = connRows
  BY DEF Commit, CommitAll
<1>2. ASSUME NEW o \in S PROVE connGrid[o] = Whole("new")
  <2>1. CASE o = b
    BY <2>1 DEF ConnInv, Progressing, Commit
  <2>2. CASE o # b
    <3>1. ~Owns(o)
      BY <2>2 DEF Commit, Busy, ConnInv, OneOwner, Owns
    <3> QED BY <3>1 DEF ConnInv, InTxn
  <2> QED BY <2>1, <2>2
<1>3. Whole("new") # Whole("old")
  <2>1. PICK i \in Levels : TRUE
    BY ConnAssumption
  <2> QED BY <2>1 DEF Whole
<1>4. \A o \in Bots : GridOnDisk(o)' = IF o \in S THEN "new" ELSE GridOnDisk(o)
  BY <1>1, <1>2, <1>3 DEF GridOnDisk
<1>5. [o \in Bots |-> GridOnDisk(o)]' =
         [o \in Bots |-> IF o \in S THEN "new" ELSE [p \in Bots |-> GridOnDisk(p)][o]]
  BY <1>4
<1>6. diskRows \subseteq diskRows' /\ diskRows' \in SUBSET Rows
  BY <1>1 DEF ConnInv, ConnTypeOK, InTxn
<1>7. S \in SUBSET Bots
  OBVIOUS
<1> QED BY <1>5, <1>6, <1>7 DEF Promise!Replace

LEMMA StepImplements ==
  ConnInv /\ ConnInv' /\ [ConnNext]_connVars => [Promise!StoreNext]_(Promise!storeVars)
<1> SUFFICES ASSUME ConnInv, ConnInv', [ConnNext]_connVars
             PROVE  [Promise!StoreNext]_(Promise!storeVars)
  OBVIOUS
<1>1. CASE UNCHANGED connVars
  BY <1>1, DiskKept DEF connVars, gridVars, rowVars
<1>2. ASSUME NEW b \in Bots, Replacing(b) PROVE [Promise!StoreNext]_(Promise!storeVars)
  <2>1. CASE BeginDelete(b)
    BY <2>1, DiskKept DEF BeginDelete, Grid, rowVars
  <2>2. CASE DeleteFails(b)
    BY <2>2, DiskKept DEF DeleteFails, gridVars, rowVars
  <2>3. ASSUME NEW i \in Levels, InsertLevel(b, i)
        PROVE [Promise!StoreNext]_(Promise!storeVars)
    <3>1. CASE txn
      BY <2>3, <3>1, DiskKept DEF InsertLevel, Grid, rowVars
    <3>2. CASE ~txn
      <4>1. connGrid[b] \in {Whole("old"), Whole("new")}
        BY <3>2 DEF ConnInv, InTxn, WholeOnDisk
      <4>2. connGrid[b][i] \in {"old", "new"}
        BY <4>1 DEF Whole
      <4> QED BY <2>3, <4>2 DEF InsertLevel
    <3> QED BY <3>1, <3>2
  <2>4. ASSUME NEW i \in Levels, InsertFails(b, i)
        PROVE [Promise!StoreNext]_(Promise!storeVars)
    BY <2>4, DiskKept DEF InsertFails, gridVars, rowVars
  <2>5. CASE Commit(b)
    BY <2>5, CommittedGrids DEF Promise!StoreNext
  <2>6. CASE Rollback(b) \/ CommitFails(b) \/ BeginFatal(b)
    BY <2>6, DiskKept
    DEF Rollback, CommitFails, BeginFatal, ProcessDies, RollbackAll, gridVars, rowVars
  <2> QED BY <1>2, <2>1, <2>2, <2>3, <2>4, <2>5, <2>6 DEF Replacing
<1>3. ASSUME NEW w \in Inserts, InsertRow(w) PROVE [Promise!StoreNext]_(Promise!storeVars)
  BY <1>3, RowStored DEF InsertRow
<1>4. ASSUME NEW c \in Creators, CreateInsert(c) \/ CreateSelect(c) \/ CreateSeed(c)
      PROVE  [Promise!StoreNext]_(Promise!storeVars)
  BY <1>4, RowStored, DiskKept
  DEF CreateInsert, CreateSelect, CreateSeed, gridVars, rowVars
<1>5. CASE Crash
  BY <1>5, DiskKept DEF Crash, ProcessDies, RollbackAll
<1> QED BY <1>1, <1>2, <1>3, <1>4, <1>5 DEF ConnNext

LEMMA InitImplements == ConnInit => Promise!StoreInit
BY DEF ConnInit, Promise!StoreInit, GridOnDisk

\* The statement-level connection implements the store its callers rely on:
\* grids change as a whole and rows on disk stay there.
THEOREM Implementation == ConnSpec => ImplementsStore
<1> QED BY InvInit, InvStep, InitImplements, StepImplements, PTL
        DEF ConnSpec, ImplementsStore, Promise!StoreSpec

-----------------------------------------------------------------------------
(* What the callers are told                                                *)

\* Every acknowledged row is where its transaction has brought it, and no transaction is
\* open but with rows of its own.
Located ==
  /\ acked \subseteq diskRows \cup carried \cup lost
  /\ carried \subseteq connRows
  /\ ~txn => carried = {}

LEMMA LocatedStep ==
  ConnInv /\ Located /\ [ConnNext]_connVars => Located'
<1> SUFFICES ASSUME ConnInv, Located, [ConnNext]_connVars PROVE Located'
  OBVIOUS
<1>0. txn \in BOOLEAN /\ diskRows \subseteq connRows /\ (~txn => connRows = diskRows)
  BY DEF ConnInv, ConnTypeOK, InTxn
<1>1. ASSUME UNCHANGED <<rowVars, heldVars>>, txn => txn' PROVE Located'
  BY <1>1 DEF Located, rowVars, heldVars
<1>2. ASSUME NEW r, Row(r), UNCHANGED txn PROVE Located'
  BY <1>0, <1>2 DEF Located, Row
<1>3. ASSUME RollbackAll PROVE Located'
  BY <1>0, <1>3 DEF Located, RollbackAll
<1>4. ASSUME CommitAll PROVE Located'
  BY <1>0, <1>4 DEF Located, CommitAll
<1>5. ASSUME NEW b \in Bots, Replacing(b) PROVE Located'
  <2>1. CASE BeginDelete(b) \/ DeleteFails(b)
    BY <1>0, <1>1, <2>1 DEF BeginDelete, DeleteFails, Grid, Located, rowVars, heldVars
  <2>2. CASE BeginFatal(b)
    BY <1>3, <2>2 DEF BeginFatal, ProcessDies
  <2>3. ASSUME NEW i \in Levels, InsertLevel(b, i) \/ InsertFails(b, i) PROVE Located'
    BY <1>1, <2>3 DEF InsertLevel, InsertFails, heldVars
  <2>4. CASE Commit(b)
    BY <1>4, <2>4 DEF Commit
  <2>5. CASE CommitFails(b)
    BY <1>1, <1>3, <2>5 DEF CommitFails
  <2>6. CASE Rollback(b)
    BY <1>3, <2>6 DEF Rollback
  <2> QED BY <1>5, <2>1, <2>2, <2>3, <2>4, <2>5, <2>6 DEF Replacing
<1>6. CASE (\E w \in Inserts : InsertRow(w))
           \/ \E c \in Creators : CreateInsert(c) \/ CreateSelect(c) \/ CreateSeed(c)
  BY <1>1, <1>2, <1>6 DEF InsertRow, CreateInsert, CreateSelect, CreateSeed
<1>7. CASE Crash
  BY <1>3, <1>7 DEF Crash, ProcessDies
<1>8. CASE UNCHANGED connVars
  BY <1>1, <1>8 DEF connVars
<1> QED BY <1>5, <1>6, <1>7, <1>8 DEF ConnNext

\* A row that was acknowledged is on disk for good, but while or after the transaction of
\* somebody else it fell into is open or was given up: what insertFillArchive and
\* recordCashMovement tell their callers.
THEOREM AcksAreStored == ConnSpec => []AckedIsStored
<1>1. ConnInit => Located
  BY DEF ConnInit, Located
<1>2. Located => AckedIsStored
  BY DEF Located, AckedIsStored
<1> QED BY <1>1, <1>2, InvInit, InvStep, LocatedStep, PTL DEF ConnSpec

-----------------------------------------------------------------------------
(* Leverage *)

UnderWay(b) == boot[b] \in {"reading", "setting", "verifying"}
Requested(s) == setter[s] \in {"asked", "confirmed"}

\* One start at a time, and none once the bot trades; only a resume reads first.
StartsAlone ==
  /\ \A b \in Boots : UnderWay(b) => ~trading
  /\ \A a, b \in Boots : UnderWay(a) /\ UnderWay(b) => a = b
  /\ \A b \in Boots : boot[b] = "reading" => resumes[b]

\* Nothing of the dashboard is under way: a start wants what the row says, and GRVT
\* applies it unless a fresh start has yet to set it.
RowIsApplied ==
  ~meddled /\ ~Setting =>
    /\ \A b \in Boots : UnderWay(b) => wanted[b] = intended
    /\ degree = intended \/ \E b \in Boots : boot[b] = "setting" /\ ~resumes[b]

\* A request that nothing has overlapped: GRVT applies what the row says, and from
\* its confirmation on what the request says.
RequestIsAlone ==
  ~meddled /\ Setting =>
    /\ ~Booting
    /\ \A r, s \in Setters : Requested(r) /\ Requested(s) => r = s
    /\ \A s \in Setters : /\ setter[s] = "asked" => degree = intended
                          /\ setter[s] = "confirmed" => degree = asked[s]

LeverageInv == LeverageTypeOK /\ StartsAlone /\ RowIsApplied /\ RequestIsAlone

LEMMA LeverageInitial == LeverageInit => LeverageInv
<1> SUFFICES ASSUME LeverageInit PROVE LeverageInv
  OBVIOUS
<1> USE DEF LeverageInit
<1>1. LeverageTypeOK
  <2>1. slips \in 0..MaxMishaps
    BY LeverageAssumption DEF LeverageAssumption
  <2>2. meddled \in BOOLEAN
    OBVIOUS
  <2>3. boot \in [Boots -> {"idle", "reading", "setting", "verifying", "over"}]
    OBVIOUS
  <2> QED BY <2>1, <2>2, <2>3 DEF LeverageTypeOK
<1>2. StartsAlone /\ ~Setting
  BY DEF StartsAlone, UnderWay, Setting
<1>3. RowIsApplied
  BY DEF RowIsApplied, UnderWay
<1> QED BY <1>1, <1>2, <1>3 DEF LeverageInv, RequestIsAlone

LEMMA LeverageTypeStep == LeverageTypeOK /\ [LeverageNext]_leverageVars => LeverageTypeOK'
<1> SUFFICES ASSUME LeverageTypeOK, [LeverageNext]_leverageVars PROVE LeverageTypeOK'
  OBVIOUS
<1> DEFINE Phases == {"idle", "reading", "setting", "verifying", "over"}
<1> USE DEF LeverageTypeOK
<1>0. Mishap => slips' \in 0..MaxMishaps
  BY LeverageAssumption DEF Mishap, LeverageAssumption
<1>1. ASSUME NEW b \in Boots, BootBegins(b) PROVE LeverageTypeOK'
  BY <1>1 DEF BootBegins
<1>2. ASSUME NEW b \in Boots, ReadsFirst(b) PROVE LeverageTypeOK'
  BY <1>2 DEF ReadsFirst, Succeeds, Confirms, Setting
<1>3. ASSUME NEW b \in Boots, SetByBoot(b) PROVE LeverageTypeOK'
  <2>1. slips' \in 0..MaxMishaps
    BY <1>3, <1>0 DEF SetByBoot
  <2>2. boot' \in [Boots -> Phases] /\ trading' \in BOOLEAN
    BY <1>3 DEF SetByBoot, SetRefused, Succeeds, Throws
  <2>3. meddled' \in BOOLEAN
    BY <1>3 DEF SetByBoot, SetRefused, Confirms
  <2>4. degree' \in Degrees
    BY <1>3 DEF SetByBoot
  <2> QED BY <1>3, <2>1, <2>2, <2>3, <2>4 DEF SetByBoot
<1>4. ASSUME NEW b \in Boots, Verifies(b) PROVE LeverageTypeOK'
  <2>1. slips' \in 0..MaxMishaps
    BY <1>4, <1>0 DEF Verifies
  <2>2. boot' \in [Boots -> Phases] /\ trading' \in BOOLEAN
    BY <1>4 DEF Verifies, Succeeds, Throws
  <2>3. meddled' \in BOOLEAN
    BY <1>4 DEF Verifies, Confirms
  <2> QED BY <1>4, <2>1, <2>2, <2>3 DEF Verifies
<1>5. ASSUME NEW s \in Setters, NEW d \in Degrees, Asks(s, d) PROVE LeverageTypeOK'
  BY <1>5 DEF Asks
<1>6. ASSUME NEW s \in Setters, Answers(s) PROVE LeverageTypeOK'
  <2>1. slips' \in 0..MaxMishaps
    BY <1>6, <1>0 DEF Answers
  <2>2. setter' \in [Setters -> {"idle", "asked", "confirmed", "over"}]
    BY <1>6 DEF Answers
  <2>3. meddled' \in BOOLEAN
    BY <1>6 DEF Answers
  <2>4. asked[s] \in Degrees
    OBVIOUS
  <2>5. degree' \in Degrees
    BY <1>6, <2>4 DEF Answers
  <2> QED BY <1>6, <2>1, <2>2, <2>3, <2>5 DEF Answers
<1>7. ASSUME NEW s \in Setters, Writes(s) PROVE LeverageTypeOK'
  BY <1>7 DEF Writes
<1>8. CASE Trades \/ Halts
  BY <1>8 DEF Trades, Halts
<1>9. CASE ChangedAtGRVT
  BY <1>0, <1>9 DEF ChangedAtGRVT
<1>10. CASE LeverageDies
  <2>1. boot' \in [Boots -> Phases]
    BY <1>10 DEF LeverageDies
  <2>2. setter' \in [Setters -> {"idle", "asked", "confirmed", "over"}]
    BY <1>10 DEF LeverageDies
  <2>3. meddled' \in BOOLEAN
    BY <1>10 DEF LeverageDies, Setting, Booting
  <2> QED BY <1>0, <1>10, <2>1, <2>2, <2>3 DEF LeverageDies
<1>11. CASE UNCHANGED leverageVars
  BY <1>11 DEF leverageVars
<1> QED
  BY <1>1, <1>2, <1>3, <1>4, <1>5, <1>6, <1>7, <1>8, <1>9, <1>10, <1>11 DEF LeverageNext

\* What a step of the starts keeps.
LEMMA StartsStep == LeverageInv /\ [LeverageNext]_leverageVars => StartsAlone'
<1> SUFFICES ASSUME LeverageInv, [LeverageNext]_leverageVars PROVE StartsAlone'
  OBVIOUS
<1> USE DEF LeverageInv, LeverageTypeOK, StartsAlone, UnderWay
<1>1. ASSUME NEW b \in Boots, BootBegins(b) PROVE StartsAlone'
  BY <1>1 DEF BootBegins, Booting
<1>2. ASSUME NEW b \in Boots, ReadsFirst(b) PROVE StartsAlone'
  BY <1>2 DEF ReadsFirst, Succeeds
<1>3. ASSUME NEW b \in Boots, SetByBoot(b) PROVE StartsAlone'
  BY <1>3 DEF SetByBoot, SetRefused, Succeeds, Throws
<1>4. ASSUME NEW b \in Boots, Verifies(b) PROVE StartsAlone'
  BY <1>4 DEF Verifies, Succeeds, Throws
<1>5. CASE \/ \E s \in Setters : (\E d \in Degrees : Asks(s, d)) \/ Answers(s) \/ Writes(s)
           \/ Trades \/ Halts \/ ChangedAtGRVT \/ UNCHANGED leverageVars
  BY <1>5 DEF Asks, Answers, Writes, Trades, Halts, ChangedAtGRVT, leverageVars
<1>6. CASE LeverageDies
  BY <1>6 DEF LeverageDies
<1> QED BY <1>1, <1>2, <1>3, <1>4, <1>5, <1>6 DEF LeverageNext

\* What is applied and what is confirmed, after a step.
Agreed == RowIsApplied /\ RequestIsAlone

LEMMA AgreedStep == LeverageInv /\ [LeverageNext]_leverageVars => Agreed'
<1> SUFFICES ASSUME LeverageInv, [LeverageNext]_leverageVars PROVE Agreed'
  OBVIOUS
<1> USE DEF LeverageInv, LeverageTypeOK, Agreed
<1>1. ASSUME NEW b \in Boots, BootBegins(b) PROVE Agreed'
  <2>1. Setting' = Setting /\ (Setting => meddled')
    BY <1>1 DEF BootBegins, Setting
  <2>2. RequestIsAlone'
    BY <2>1 DEF RequestIsAlone
  <2>3. ASSUME ~meddled', ~Setting' PROVE ~resumes'[b] \/ ~meddled
    BY <1>1, <2>3 DEF BootBegins
  <2>4. RowIsApplied'
    BY <1>1, <2>1, <2>3 DEF BootBegins, RowIsApplied, UnderWay, Booting
  <2> QED BY <2>2, <2>4
<1>2. ASSUME NEW b \in Boots, ReadsFirst(b) PROVE Agreed'
  <2>1. Setting' = Setting /\ Booting
    BY <1>2 DEF ReadsFirst, Setting, Booting
  <2>2. RequestIsAlone'
    BY <1>2, <2>1 DEF ReadsFirst, RequestIsAlone, Confirms
  <2>3. RowIsApplied'
    BY <1>2, <2>1 DEF ReadsFirst, RowIsApplied, UnderWay, Succeeds, Confirms, StartsAlone
  <2> QED BY <2>2, <2>3
<1>3. ASSUME NEW b \in Boots, SetByBoot(b) PROVE Agreed'
  <2>1. Setting' = Setting /\ Booting
    BY <1>3 DEF SetByBoot, Setting, Booting
  <2>2. RequestIsAlone'
    BY <1>3, <2>1 DEF SetByBoot, SetRefused, RequestIsAlone, Confirms
  <2>3. RowIsApplied'
    BY <1>3, <2>1
      DEF SetByBoot, SetRefused, RowIsApplied, UnderWay, Succeeds, Throws, Confirms, StartsAlone
  <2> QED BY <2>2, <2>3
<1>4. ASSUME NEW b \in Boots, Verifies(b) PROVE Agreed'
  <2>1. Setting' = Setting /\ Booting
    BY <1>4 DEF Verifies, Setting, Booting
  <2>2. RequestIsAlone'
    BY <1>4, <2>1 DEF Verifies, RequestIsAlone, Confirms
  <2>3. RowIsApplied'
    BY <1>4, <2>1
      DEF Verifies, RowIsApplied, UnderWay, Succeeds, Throws, Confirms, StartsAlone
  <2> QED BY <2>2, <2>3
<1>5. ASSUME NEW s \in Setters, NEW d \in Degrees, Asks(s, d) PROVE Agreed'
  <2>1. Setting' /\ Booting' = Booting
    BY <1>5 DEF Asks, Setting, Booting
  <2>2. RowIsApplied'
    BY <2>1 DEF RowIsApplied
  <2>3. ~meddled' => degree = intended
    BY <1>5 DEF Asks, RowIsApplied, Booting
  <2>4. RequestIsAlone'
    BY <1>5, <2>1, <2>3 DEF Asks, RequestIsAlone, Requested, Setting
  <2> QED BY <2>2, <2>4
<1>6. ASSUME NEW s \in Setters, Answers(s) PROVE Agreed'
  <2>1. Setting /\ Booting' = Booting
    BY <1>6 DEF Answers, Setting, Booting
  <2>2. RowIsApplied'
    BY <1>6, <2>1 DEF Answers, RowIsApplied, RequestIsAlone, UnderWay, Booting, Setting
  <2>3. RequestIsAlone'
    BY <1>6, <2>1 DEF Answers, RequestIsAlone, Requested, Setting
  <2> QED BY <2>2, <2>3
<1>7. ASSUME NEW s \in Setters, Writes(s) PROVE Agreed'
  <2>1. Setting /\ Booting' = Booting
    BY <1>7 DEF Writes, Setting, Booting
  <2>2. ~meddled => ~Setting'
    BY <1>7, <2>1 DEF Writes, RequestIsAlone, Requested, Setting
  <2>3. RequestIsAlone'
    BY <1>7, <2>2 DEF Writes, RequestIsAlone
  <2>4. RowIsApplied'
    BY <1>7, <2>1 DEF Writes, RowIsApplied, RequestIsAlone, UnderWay, Booting
  <2> QED BY <2>3, <2>4
<1>8. CASE Trades \/ Halts \/ UNCHANGED leverageVars
  BY <1>8 DEF Trades, Halts, leverageVars, RowIsApplied, RequestIsAlone, UnderWay, Requested,
              Setting, Booting
<1>9. CASE ChangedAtGRVT
  BY <1>9 DEF ChangedAtGRVT, RowIsApplied, RequestIsAlone
<1>10. CASE LeverageDies
  <2>1. ~Setting' /\ ~Booting'
    BY <1>10 DEF LeverageDies, Setting, Booting
  <2>2. ~meddled' => degree = intended
    BY <1>10 DEF LeverageDies, RowIsApplied, Booting, UnderWay
  <2> QED BY <1>10, <2>1, <2>2 DEF LeverageDies, RowIsApplied, RequestIsAlone, UnderWay, Booting
<1> QED
  BY <1>1, <1>2, <1>3, <1>4, <1>5, <1>6, <1>7, <1>8, <1>9, <1>10 DEF LeverageNext

LEMMA FollowsLeverage == JobsSpec => LeverageSpec
<1>1. JobsInit => LeverageInit
  BY DEF JobsInit
<1>2. [JobsNext]_jobsVars => [LeverageNext]_leverageVars
  BY DEF JobsNext, jobsVars, Still, On
<1> QED BY <1>1, <1>2, PTL DEF JobsSpec, LeverageSpec

\* A bot trades at the leverage of its row, for any number of starts and requests and
\* any answers lost, unless something has come between (applyAndVerifyLeverage).
THEOREM TradesAsLevered == JobsSpec => [](LeverageTypeOK /\ LeverageAgrees)
<1>1. LeverageInv /\ [LeverageNext]_leverageVars => LeverageInv'
  BY LeverageTypeStep, StartsStep, AgreedStep DEF LeverageInv, Agreed
<1>2. LeverageInv => LeverageTypeOK /\ LeverageAgrees
  BY DEF LeverageInv, StartsAlone, RowIsApplied, LeverageAgrees, UnderWay
<1> QED BY <1>1, <1>2, LeverageInitial, FollowsLeverage, PTL DEF LeverageSpec
-----------------------------------------------------------------------------
(* StopLoss *)

\* Within a tick that has read its price, and that no failed tick came before, the
\* gap is that between its price and the price of the last tick that ended well.
GapIsKept ==
  phase \in {"work", "pnl", "pause", "close", "stop"} /\ ~eaten =>
    gap = Apart(whole, lastTick)

LEMMA StopInitial == StopInit => StopTypeOK /\ GapIsKept
<1> SUFFICES ASSUME StopInit PROVE StopTypeOK /\ GapIsKept
  OBVIOUS
<1>1. 0 \in 0..MaxTurns /\ 0 \in 0..MaxMisses /\ Highest \in 0..Highest /\ -1 \in -1..Highest
  BY StopAssumption DEF StopAssumption
<1> QED BY <1>1 DEF StopInit, StopTypeOK, GapIsKept

LEMMA StopTypeStep == StopTypeOK /\ [StopNext]_stopVars => StopTypeOK'
<1> SUFFICES ASSUME StopTypeOK, [StopNext]_stopVars PROVE StopTypeOK'
  OBVIOUS
<1> USE DEF StopTypeOK
<1>0. Misses => misses' \in 0..MaxMisses
  BY StopAssumption DEF Misses, StopAssumption
<1>1. CASE PriceTurns
  BY <1>1, StopAssumption DEF PriceTurns, StopAssumption
<1>2. CASE StopTick
  BY <1>2 DEF StopTick
<1>3. CASE Errs
  BY <1>0, <1>3 DEF Errs
<1>4. CASE ReadsMarket
  <2>1. quote \in -1..Highest
    BY StopAssumption DEF StopAssumption
  <2>2. gap' \in BOOLEAN
    BY <1>4 DEF ReadsMarket, MeasuresGap, Apart
  <2>3. phase' \in {"work", "pause", "close"}
    BY <1>4 DEF ReadsMarket
  <2> QED BY <1>4, <2>1, <2>2, <2>3 DEF ReadsMarket, MeasuresGap
<1>5. CASE WorksOn
  BY <1>5 DEF WorksOn
<1>6. CASE UpdatesPnl
  BY <1>6 DEF UpdatesPnl, PnlDecides
<1>7. CASE PnlUnread
  BY <1>0, <1>7 DEF PnlUnread
<1>8. CASE StopCloses
  BY <1>8 DEF StopCloses
<1>9. CASE RouteFails \/ RowUnwritten
  BY <1>0, <1>9 DEF RouteFails, RowUnwritten
<1>10. CASE StopPauses
  BY <1>10 DEF StopPauses
<1>11. CASE StopRestart
  <2>1. -1 \in -1..Highest
    BY StopAssumption DEF StopAssumption
  <2> QED BY <1>0, <1>11, <2>1 DEF StopRestart
<1>12. CASE UNCHANGED stopVars
  BY <1>12 DEF stopVars
<1> QED
  BY <1>1, <1>2, <1>3, <1>4, <1>5, <1>6, <1>7, <1>8, <1>9, <1>10, <1>11, <1>12
    DEF StopNext, TickGoesOn

LEMMA GapStep == GapIsKept /\ [StopNext]_stopVars => GapIsKept'
<1> SUFFICES ASSUME GapIsKept, [StopNext]_stopVars PROVE GapIsKept'
  OBVIOUS
<1> USE DEF GapIsKept
<1>1. CASE ReadsMarket
  <2>1. ~eaten' => whole' = lastTick
    BY <1>1 DEF ReadsMarket
  <2>2. gap' = Apart(lastTick, lastTick')
    BY <1>1 DEF ReadsMarket, MeasuresGap
  <2> QED BY <2>1, <2>2 DEF Apart
<1>2. CASE PriceTurns \/ WorksOn \/ UNCHANGED stopVars
  BY <1>2 DEF PriceTurns, WorksOn, stopVars, Apart
<1>3. CASE \/ StopTick \/ Errs \/ PnlUnread \/ StopCloses \/ RouteFails \/ RowUnwritten
            \/ StopPauses \/ StopRestart
  BY <1>3 DEF StopTick, Errs, PnlUnread, StopCloses, RouteFails, RowUnwritten, StopPauses,
     StopRestart
<1>4. CASE UpdatesPnl
  BY <1>4 DEF UpdatesPnl, PnlDecides, Apart
<1> QED BY <1>1, <1>2, <1>3, <1>4 DEF StopNext, TickGoesOn

\* A stop-loss closes at MARKET whenever its price is a gap away from the last whole
\* tick, for any prices, thresholds and failures (monitor, monitorAllBots).
THEOREM StopsAtTheGap == StopSpec => [](StopTypeOK /\ GapGoesToMarket)
<1>1. GapIsKept => GapGoesToMarket
  BY DEF GapIsKept, GapGoesToMarket
<1> QED BY <1>1, StopInitial, StopTypeStep, GapStep, PTL DEF StopSpec
-----------------------------------------------------------------------------
(* Brakes *)

Balances ==
  [equity : Equities \cup {0}, others : 0..MaxBrakeFaults, stake : 0..(Rungs + MaxSwings)]

\* Every move of the market fills one order at most, every change by others takes one
\* level's margin at most.
BrakesTypeInv ==
  /\ BrakesTypeOK
  /\ swings \in 0..MaxSwings /\ brakeFaults \in 0..MaxBrakeFaults
  /\ others <= brakeFaults
  /\ stake <= Rungs + swings /\ rowPosition <= Rungs + swings
  /\ balance \in Balances /\ passed \in Balances

\* The resting buys that gridLevels counts.
Heeded == Buys \cap counted

\* What the bot commits at the levels that count keeps to the headroom of the last
\* check, the buy it has been allowed and not yet sent included.
AllowedFits ==
  /\ at = "buying" => Buys = {}
  /\ ~blind /\ passed # NoBalance =>
       stake + Cardinality(Heeded) + passed.others + (IF at = "buy" THEN 1 ELSE 0) <=
         Cap(passed.equity) + unseen

LEMMA BalanceTyped ==
  ASSUME NEW b \in Balances
  PROVE  b.equity \in Nat /\ b.others \in Nat /\ b.stake \in Nat /\ Cap(b.equity) \in Int
<1>1. b.equity \in Equities \cup {0} /\ b.others \in Nat /\ b.stake \in Nat
  BY BrakesAssumption DEF Balances, BrakesAssumption
<1>2. b.equity \in Equities => b.equity \in Nat
  BY BrakesAssumption DEF BrakesAssumption
<1>3. b.equity = 0 => b.equity \in Nat
  OBVIOUS
<1>4. b.equity \in Nat
  BY <1>1, <1>2, <1>3
<1>5. Cap(b.equity) \in Int
  BY <1>4 DEF Cap
<1> QED BY <1>1, <1>4, <1>5

LEMMA BrakesInitial == BrakesInit => BrakesTypeInv /\ AllowedFits
<1> SUFFICES ASSUME BrakesInit PROVE BrakesTypeInv /\ AllowedFits
  OBVIOUS
<1> USE BrakesAssumption DEF BrakesInit, BrakesAssumption
<1>1. 0 \in 0..MaxSwings /\ 0 \in 0..MaxBrakeFaults /\ 0 \in 0..(Rungs + MaxSwings)
  OBVIOUS
<1>2. 0 \in 0..(CacheLife - 1) /\ 0 \in 0..Rungs /\ market \in 0..Rungs
  OBVIOUS
<1>3. counted \subseteq Rung
  BY DEF Rung
<1>4. NoBalance \in Balances
  BY <1>1 DEF NoBalance, Balances
<1>5. BrakesTypeOK
  BY <1>1, <1>2, <1>3 DEF BrakesTypeOK
<1>6. BrakesTypeInv
  BY <1>1, <1>4, <1>5 DEF BrakesTypeInv
<1> QED BY <1>6 DEF AllowedFits, Buys, NoBalance

\* The checks of an order keep the types of what they change.
LEMMA ReadsTyped ==
  ASSUME BrakesTypeInv, Reads
  PROVE  /\ at' \in {"buying", "buy", "braked"}
         /\ checks' \in 0..(CacheLife - 1)
         /\ balance' \in Balances /\ passed' \in Balances
         /\ unseen' \in Nat /\ blind' \in BOOLEAN
         /\ brakeFaults' \in 0..MaxBrakeFaults /\ brakeFaults <= brakeFaults'
<1> USE BrakesAssumption DEF BrakesAssumption, BrakesTypeInv, BrakesTypeOK
<1>1. Now \in Balances
  BY DEF Now, Balances
<1>2. checks' \in 0..(CacheLife - 1)
  BY DEF Reads
<1>3. brakeFaults' \in 0..MaxBrakeFaults /\ brakeFaults <= brakeFaults'
  BY DEF Reads
<1>4. ASSUME NEW b \in Balances, Judges(b)
      PROVE  /\ at' \in {"buying", "buy", "braked"} /\ passed' \in Balances
             /\ unseen' \in Nat /\ blind' \in BOOLEAN
  <2>1. b.stake \in Nat /\ stake \in Nat
    BY DEF Balances
  <2>2. at' \in {"buying", "buy", "braked"}
    BY <1>4 DEF Judges
  <2>3. passed' \in Balances
    BY <1>4 DEF Judges
  <2>4. unseen' \in Nat
    BY <1>4, <2>1 DEF Judges
  <2>5. blind' \in BOOLEAN
    BY <1>4 DEF Judges
  <2> QED BY <2>2, <2>3, <2>4, <2>5
<1>5. balance' \in Balances
  BY <1>1 DEF Reads
<1>6. /\ at' \in {"buying", "buy", "braked"} /\ passed' \in Balances
      /\ unseen' \in Nat /\ blind' \in BOOLEAN
  <2>1. CASE Judges(balance)
    BY <2>1, <1>4
  <2>2. CASE Judges(Now)
    BY <2>2, <1>1, <1>4
  <2>3. CASE /\ at' = IF at = "buying" THEN "buying" ELSE "buy"
             /\ blind' = TRUE
             /\ UNCHANGED <<balance, passed, unseen>>
    BY <2>3
  <2> QED BY <2>1, <2>2, <2>3 DEF Reads
<1> QED BY <1>2, <1>3, <1>5, <1>6

LEMMA BrakesTypeStep == BrakesTypeInv /\ [BrakesNext]_brakeVars => BrakesTypeInv'
<1> SUFFICES ASSUME BrakesTypeInv, [BrakesNext]_brakeVars PROVE BrakesTypeInv'
  OBVIOUS
<1> USE BrakesAssumption DEF BrakesAssumption, BrakesTypeInv, BrakesTypeOK
<1>1. CASE Purchase
  <2>1. CASE NotionalOK(Size)
    <3>1. Reads
      BY <1>1, <2>1 DEF Purchase
    <3>2. stake' \in 0..(Rungs + MaxSwings) /\ stake' <= Rungs + swings
      BY <1>1 DEF Purchase
    <3> QED BY <1>1, <3>1, <3>2, ReadsTyped DEF Purchase
  <2>2. CASE ~NotionalOK(Size)
    BY <1>1, <2>2 DEF Purchase, Brake
  <2> QED BY <2>1, <2>2
<1>2. CASE Bought
  BY <1>2 DEF Bought, accountVars
<1>3. CASE Checks
  BY <1>3, ReadsTyped DEF Checks, accountVars
<1>4. CASE Books
  BY <1>4 DEF Books, accountVars
<1>5. ASSUME NEW l \in Rung, Wants(l) PROVE BrakesTypeInv'
  <2>1. sending' \in 0..Rungs
    BY <1>5 DEF Wants, Rung
  <2>2. at' \in {"sell", "placing", "braked"}
    BY <1>5 DEF Wants
  <2> QED BY <1>5, <2>1, <2>2 DEF Wants, accountVars
<1>6. ASSUME NEW s \in {"buy", "sell"}, Creates(s) PROVE BrakesTypeInv'
  <2>1. resting' \in [Rung -> {"buy", "sell", "none"}]
    BY <1>6 DEF Creates
  <2>2. at' \in {"idle", "braked"}
    BY <1>6 DEF Creates
  <2>3. sending' \in 0..Rungs
    BY <1>6 DEF Creates
  <2> QED BY <1>6, <2>1, <2>2, <2>3 DEF Creates
<1>7. CASE Falls
  <2>1. resting' \in [Rung -> {"buy", "sell", "none"}]
    BY <1>7 DEF Falls
  <2>2. /\ market' \in 0..Rungs /\ swings' \in 0..MaxSwings
        /\ stake' \in 0..(Rungs + MaxSwings) /\ stake' <= Rungs + swings'
    BY <1>7 DEF Falls
  <2>3. unseen' \in Nat /\ rowPosition <= Rungs + swings'
    BY <1>7 DEF Falls
  <2> QED BY <1>7, <2>1, <2>2, <2>3 DEF Falls
<1>8. CASE Rises
  <2>1. resting' \in [Rung -> {"buy", "sell", "none"}]
    BY <1>8 DEF Rises
  <2>2. /\ market' \in 0..Rungs /\ swings' \in 0..MaxSwings
        /\ stake' \in 0..(Rungs + MaxSwings) /\ stake' <= Rungs + swings'
    BY <1>8 DEF Rises
  <2>3. rowPosition <= Rungs + swings'
    BY <1>8 DEF Rises
  <2> QED BY <1>8, <2>1, <2>2, <2>3 DEF Rises
<1>9. CASE Disturbs
  BY <1>9 DEF Disturbs
<1>10. CASE UNCHANGED brakeVars
  BY <1>10 DEF brakeVars
<1> QED BY <1>1, <1>2, <1>3, <1>4, <1>5, <1>6, <1>7, <1>8, <1>9, <1>10 DEF BrakesNext

\* The resting buys are the counted and the others.
LEMMA BuysCounted ==
  ASSUME BrakesTypeInv
  PROVE  /\ IsFiniteSet(Heeded)
         /\ Cardinality(Heeded) \in Nat /\ Cardinality(Buys \ counted) \in Nat
         /\ Cardinality(Buys) = Cardinality(Heeded) + Cardinality(Buys \ counted)
         /\ Cardinality(counted) \in Nat /\ Cardinality(Heeded) <= Cardinality(counted)
<1> USE BrakesAssumption DEF BrakesAssumption, BrakesTypeInv, BrakesTypeOK
<1>1. IsFiniteSet(Rung)
  BY FS_Interval DEF Rung
<1>2. IsFiniteSet(Buys) /\ IsFiniteSet(counted)
  BY <1>1, FS_Subset DEF Buys
<1>3. IsFiniteSet(Buys \ counted) /\ IsFiniteSet(Heeded)
  BY <1>2, FS_Subset DEF Heeded
<1>4. Cardinality(Buys \ counted) = Cardinality(Buys) - Cardinality(Heeded)
  BY <1>2, FS_Difference DEF Heeded
<1>5. Cardinality(Heeded) <= Cardinality(counted)
  BY <1>2, FS_Subset DEF Heeded
<1>6. /\ Cardinality(Buys) \in Nat /\ Cardinality(Buys \ counted) \in Nat
      /\ Cardinality(counted) \in Nat /\ Cardinality(Heeded) \in Nat
  BY <1>2, <1>3, FS_CardinalityType
<1> QED BY <1>3, <1>4, <1>5, <1>6

\* Losing buys leaves no more of them to heed.
LEMMA HeedsNoMore ==
  ASSUME BrakesTypeInv, BrakesTypeInv', Heeded' \subseteq Heeded
  PROVE  Cardinality(Heeded') \in Nat /\ Cardinality(Heeded') <= Cardinality(Heeded)
<1>1. IsFiniteSet(Heeded)
  BY BuysCounted
<1>2. IsFiniteSet(Heeded') /\ Cardinality(Heeded') <= Cardinality(Heeded)
  BY <1>1, FS_Subset
<1> QED BY <1>2, FS_CardinalityType

\* A check that lets an order pass with a balance has found room for it beside what is
\* committed at the levels that count, but for what the balance does not show.
LEMMA PassedFits ==
  ASSUME BrakesTypeInv, Reads, ~blind'
  PROVE  \/ at' = "braked" /\ UNCHANGED <<passed, unseen, blind>>
         \/ /\ at' = IF at = "buying" THEN "buying" ELSE "buy"
            /\ at # "buying" =>
                 stake + Cardinality(Heeded) + passed'.others + 1 <=
                   Cap(passed'.equity) + unseen'
            /\ at = "buying" => Size + passed'.others <= Cap(passed'.equity)
<1> USE DEF BrakesTypeInv, BrakesTypeOK
<1>1. Now \in Balances
  BY DEF Now, Balances
<1>2. PICK b \in Balances : Judges(b)
  BY <1>1 DEF Reads
<1>3. CASE b.equity > 0 /\ Projected(b, Size, at # "buying") > Cap(b.equity)
  BY <1>2, <1>3 DEF Judges
<1>4. CASE ~(b.equity > 0 /\ Projected(b, Size, at # "buying") > Cap(b.equity))
  <2>1. /\ at' = IF at = "buying" THEN "buying" ELSE "buy"
        /\ passed' = b
        /\ unseen' = IF stake > b.stake THEN stake - b.stake ELSE 0
        /\ b.equity # 0
    BY <1>2, <1>4 DEF Judges
  <2>2. /\ b.equity \in Nat /\ b.others \in Nat /\ b.stake \in Nat /\ stake \in Nat
        /\ Size \in Nat /\ Cap(b.equity) \in Int
    <3>1. Size \in Nat
      BY BrakesAssumption DEF Size, BrakesAssumption
    <3> QED BY <3>1, BalanceTyped
  <2>3. Cardinality(counted) \in Nat
    BY BuysCounted
  <2>4. Projected(b, Size, at # "buying") <= Cap(b.equity)
    BY <1>4, <2>1, <2>2, <2>3 DEF Projected
  <2>5. CASE at = "buying"
    <3>1. b.stake + b.others + Size <= Cap(b.equity)
      BY <2>2, <2>4, <2>5 DEF Projected
    <3> QED BY <2>1, <2>2, <2>5, <3>1
  <2>6. CASE at # "buying"
    <3>1. Size = 1
      BY <2>6 DEF Size
    <3>2. b.stake + b.others + Cardinality(counted) + 1 <= Cap(b.equity)
      BY <2>2, <2>4, <2>6, <3>1 DEF Projected
    <3>3. stake <= b.stake + unseen' /\ unseen' \in Nat
      BY <2>1, <2>2
    <3> QED BY <2>1, <2>2, <2>3, <2>6, <3>2, <3>3, BuysCounted
  <2> QED BY <2>5, <2>6
<1> QED BY <1>3, <1>4

\* The inequality is monotone in what is left of it.
LEMMA StaysAllowed ==
  ASSUME BrakesTypeInv, BrakesTypeInv', AllowedFits, UNCHANGED <<passed, blind>>,
         at' # "buying", at' = "buy" => at = "buy",
         stake' + Cardinality(Heeded') + unseen <= stake + Cardinality(Heeded) + unseen'
  PROVE  AllowedFits'
<1>1. CASE blind \/ passed = NoBalance
  BY <1>1 DEF AllowedFits
<1>2. CASE ~blind /\ passed # NoBalance
  <2>1. /\ passed.others \in Nat /\ Cap(passed.equity) \in Int
        /\ stake \in Nat /\ stake' \in Nat /\ unseen \in Nat /\ unseen' \in Nat
    BY BalanceTyped DEF BrakesTypeInv, BrakesTypeOK
  <2>2. Cardinality(Heeded) \in Nat
    BY BuysCounted
  <2>3. Cardinality(Heeded') \in Nat
    <3>1. IsFiniteSet(Rung)
      BY FS_Interval, BrakesAssumption DEF Rung, BrakesAssumption
    <3>2. IsFiniteSet(Heeded')
      BY <3>1, FS_Subset DEF Heeded, Buys
    <3> QED BY <3>2, FS_CardinalityType
  <2>4. stake + Cardinality(Heeded) + passed.others + (IF at = "buy" THEN 1 ELSE 0) <=
          Cap(passed.equity) + unseen
    BY <1>2 DEF AllowedFits
  <2>5. stake' + Cardinality(Heeded') + passed.others + (IF at' = "buy" THEN 1 ELSE 0) <=
          Cap(passed.equity) + unseen'
    BY <2>1, <2>2, <2>3, <2>4
  <2> QED BY <1>2, <2>5 DEF AllowedFits
<1> QED BY <1>1, <1>2

LEMMA AllowedStep == BrakesTypeInv /\ AllowedFits /\ [BrakesNext]_brakeVars => AllowedFits'
<1> SUFFICES ASSUME BrakesTypeInv, AllowedFits, [BrakesNext]_brakeVars PROVE AllowedFits'
  OBVIOUS
<1>0. BrakesTypeInv'
  BY BrakesTypeStep
<1>t. /\ stake \in Nat /\ unseen \in Nat /\ market \in 0..Rungs /\ counted \subseteq Rung
      /\ resting \in [Rung -> {"buy", "sell", "none"}]
      /\ IsFiniteSet(Heeded) /\ Cardinality(Heeded) \in Nat
  BY BuysCounted DEF BrakesTypeInv, BrakesTypeOK
<1>1. CASE Purchase
  <2>1. /\ at = "buying" /\ Buys = {} /\ Buys' = {} /\ Heeded = {} /\ Heeded' = {}
    BY <1>1 DEF Purchase, AllowedFits, Buys, Heeded
  <2>2. Cardinality(Heeded') = 0 /\ Cardinality(Heeded) = 0
    BY <2>1, FS_EmptySet
  <2>3. CASE NotionalOK(Size) /\ ~blind'
    <3>1. Reads
      BY <1>1, <2>3 DEF Purchase
    <3>2. CASE at' = "braked" /\ UNCHANGED <<passed, unseen, blind>>
      <4>1. stake' = stake
        BY <1>1, <3>2 DEF Purchase
      <4> QED BY <1>0, <1>t, <2>2, <3>2, <4>1, StaysAllowed
    <3>3. CASE at' = "buying" /\ Size + passed'.others <= Cap(passed'.equity)
      <4>1. stake' = Size /\ stake' \in Nat
        BY <1>0, <1>1, <2>1, <3>3 DEF Purchase, Size, BrakesTypeInv, BrakesTypeOK
      <4>2. passed' \in Balances /\ unseen' \in Nat
        BY <1>0 DEF BrakesTypeInv, BrakesTypeOK
      <4>3. passed'.others \in Nat /\ Cap(passed'.equity) \in Int
        BY <4>2, BalanceTyped
      <4>4. stake' + Cardinality(Heeded') + passed'.others + (IF at' = "buy" THEN 1 ELSE 0)
              <= Cap(passed'.equity) + unseen'
        BY <2>2, <3>3, <4>1, <4>2, <4>3
      <4> QED BY <2>1, <4>4 DEF AllowedFits
    <3> QED BY <2>1, <2>3, <3>1, <3>2, <3>3, PassedFits
  <2>4. CASE ~NotionalOK(Size) \/ blind'
    <3>1. CASE blind'
      BY <2>1, <3>1 DEF AllowedFits
    <3>2. CASE ~NotionalOK(Size)
      <4>1. at' = "braked" /\ UNCHANGED <<stake, passed, unseen, blind>>
        BY <1>1, <3>2 DEF Purchase, Brake
      <4> QED BY <1>0, <1>t, <2>2, <4>1, StaysAllowed
    <3> QED BY <2>4, <3>1, <3>2
  <2> QED BY <2>3, <2>4
<1>2. CASE Checks
  <2>1. Reads /\ at = "placing" /\ UNCHANGED <<accountVars, counted>>
    BY <1>2 DEF Checks
  <2>2. UNCHANGED <<stake, Heeded>>
    BY <2>1 DEF accountVars, Buys, Heeded
  <2>3. CASE blind'
    <3>1. at' # "buying"
      BY <2>1 DEF Reads, Judges
    <3> QED BY <2>3, <3>1 DEF AllowedFits
  <2>4. CASE ~blind'
    <3>1. CASE at' = "braked" /\ UNCHANGED <<passed, unseen, blind>>
      BY <1>0, <1>t, <2>2, <3>1, StaysAllowed
    <3>2. CASE /\ at' = "buy"
               /\ stake + Cardinality(Heeded) + passed'.others + 1 <=
                    Cap(passed'.equity) + unseen'
      BY <2>2, <3>2 DEF AllowedFits
    <3> QED BY <2>1, <2>4, <3>1, <3>2, PassedFits
  <2> QED BY <2>3, <2>4
<1>3. CASE Bought \/ Books \/ (\E l \in Rung : Wants(l)) \/ Disturbs \/ UNCHANGED brakeVars
  <2>1. /\ UNCHANGED <<stake, resting, counted, passed, unseen, blind>>
        /\ at' # "buying" \/ at = "buying"
        /\ at' = "buy" => at = "buy"
    BY <1>3 DEF Bought, Books, Wants, Disturbs, brakeVars, accountVars
  <2>2. UNCHANGED <<Buys, Heeded>>
    BY <2>1 DEF Buys, Heeded
  <2>3. CASE at' = "buying"
    BY <2>1, <2>2, <2>3 DEF AllowedFits
  <2>4. CASE at' # "buying"
    BY <1>0, <1>t, <2>1, <2>2, <2>4, StaysAllowed
  <2> QED BY <2>3, <2>4
<1>4. ASSUME NEW s \in {"buy", "sell"}, Creates(s) PROVE AllowedFits'
  <2>1. /\ at' \in {"idle", "braked"} /\ at = s
        /\ UNCHANGED <<stake, counted, passed, unseen, blind>>
    BY <1>4 DEF Creates
  <2>2. CASE Heeded' \subseteq Heeded
    <3>1. Cardinality(Heeded') \in Nat /\ Cardinality(Heeded') <= Cardinality(Heeded)
      BY <1>0, <2>2, HeedsNoMore
    <3> QED BY <1>0, <1>t, <2>1, <3>1, StaysAllowed
  <2>3. CASE s = "buy" /\ Heeded' \subseteq Heeded \cup {sending}
    <3>1. /\ IsFiniteSet(Heeded \cup {sending})
          /\ Cardinality(Heeded \cup {sending}) <= Cardinality(Heeded) + 1
          /\ Cardinality(Heeded \cup {sending}) \in Nat
      <4>1. IsFiniteSet(Heeded \cup {sending})
        BY <1>t, FS_AddElement
      <4>2. Cardinality(Heeded \cup {sending}) =
              IF sending \in Heeded THEN Cardinality(Heeded) ELSE Cardinality(Heeded) + 1
        BY <1>t, FS_AddElement
      <4> QED BY <1>t, <4>1, <4>2
    <3>2. Cardinality(Heeded') <= Cardinality(Heeded) + 1 /\ Cardinality(Heeded') \in Nat
      <4>1. /\ IsFiniteSet(Heeded')
            /\ Cardinality(Heeded') <= Cardinality(Heeded \cup {sending})
        BY <2>3, <3>1, FS_Subset
      <4>2. Cardinality(Heeded') \in Nat
        BY <4>1, FS_CardinalityType
      <4> QED BY <1>t, <3>1, <4>1, <4>2
    <3>3. passed.others \in Nat /\ Cap(passed.equity) \in Int
      BY BalanceTyped DEF BrakesTypeInv
    <3> QED BY <1>t, <2>1, <2>3, <3>2, <3>3 DEF AllowedFits
  <2>4. CASE resting' = resting
    <3>1. Heeded' = Heeded
      BY <2>1, <2>4 DEF Heeded, Buys
    <3> QED BY <2>2, <3>1
  <2>5. CASE resting' = [resting EXCEPT ![sending] = s]
    <3>1. s = "sell" => Heeded' \subseteq Heeded
      BY <1>t, <2>1, <2>5 DEF Heeded, Buys
    <3>2. s = "buy" => Heeded' \subseteq Heeded \cup {sending}
      BY <1>t, <2>1, <2>5 DEF Heeded, Buys
    <3> QED BY <2>2, <2>3, <3>1, <3>2
  <2> QED BY <1>4, <2>4, <2>5 DEF Creates
<1>5. CASE Falls
  <2>1. /\ at' \notin {"buying"} /\ at' = at
        /\ UNCHANGED <<counted, passed, blind>>
        /\ resting' = [resting EXCEPT ![market] = "none"]
    BY <1>5 DEF Falls
  <2>2. market \in Rung
    BY <1>5, BrakesAssumption DEF Falls, Rung, BrakesTypeInv, BrakesTypeOK, BrakesAssumption
  <2>3. Heeded' = Heeded \ {market}
    BY <1>t, <2>1, <2>2 DEF Heeded, Buys
  <2>4. Cardinality(Heeded') = IF market \in Heeded THEN Cardinality(Heeded) - 1
                               ELSE Cardinality(Heeded)
    BY <1>t, <2>3, FS_RemoveElement
  <2>5. market \in Heeded <=> resting[market] = "buy" /\ market \in counted
    BY <2>2 DEF Heeded, Buys
  <2>6. stake' + Cardinality(Heeded') + unseen <= stake + Cardinality(Heeded) + unseen'
    BY <1>5, <1>t, <2>4, <2>5 DEF Falls
  <2> QED BY <1>0, <2>1, <2>6, StaysAllowed
<1>6. CASE Rises
  <2>1. /\ at' \notin {"buying"} /\ at' = at
        /\ UNCHANGED <<counted, passed, blind, unseen>>
        /\ resting' = [resting EXCEPT ![market + 1] = "none"]
        /\ stake' <= stake /\ stake' \in Nat
    BY <1>0, <1>6, <1>t DEF Rises, BrakesTypeInv, BrakesTypeOK
  <2>2. Heeded' \subseteq Heeded
    BY <1>t, <2>1 DEF Heeded, Buys
  <2>3. Cardinality(Heeded') \in Nat /\ Cardinality(Heeded') <= Cardinality(Heeded)
    BY <1>0, <2>2, HeedsNoMore
  <2> QED BY <1>0, <1>t, <2>1, <2>3, StaysAllowed
<1> QED BY <1>1, <1>2, <1>3, <1>4, <1>5, <1>6 DEF BrakesNext

\* The margin brake keeps what the bot commits within the headroom it has read, for any
\* levels, account, market and failed reads (assertMarginHeadroom).
THEOREM MarginIsKept == BrakesSpec => [](BrakesTypeOK /\ HeadroomKept)
<1>1. BrakesTypeInv /\ AllowedFits => BrakesTypeOK /\ HeadroomKept
  <2> SUFFICES ASSUME BrakesTypeInv, AllowedFits, ~blind, passed # NoBalance
               PROVE  Committed + passed.others <=
                        Cap(passed.equity) + Cardinality(Buys \ counted) + unseen
    BY DEF BrakesTypeInv, HeadroomKept
  <2>1. /\ passed.others \in Nat /\ Cap(passed.equity) \in Int
        /\ stake \in Nat /\ unseen \in Nat
    BY BalanceTyped DEF BrakesTypeInv, BrakesTypeOK
  <2> QED BY <2>1, BuysCounted DEF AllowedFits, Committed
<1>2. BrakesTypeInv /\ AllowedFits /\ [BrakesNext]_brakeVars
        => (BrakesTypeInv /\ AllowedFits)'
  BY BrakesTypeStep, AllowedStep
<1> QED BY <1>1, <1>2, BrakesInitial, PTL DEF BrakesSpec
-----------------------------------------------------------------------------
(* FundingGuard *)

\* The bounds of GuardTypeOK by the charges so far, and a streak below the limit until
\* it brakes.
GuardTypeInv ==
  /\ GuardTypeOK
  /\ charges \in 0..MaxCharges /\ charged <= charges
  /\ prevNext # 0 => nextAt - prevNext <= Longest * charges
  /\ ~braked => streak < PauseAfter
  /\ nextAt > 0

\* The streak is the charges once a tick has looked; after one charge that was seen
\* as it was made the next look makes it so.
StreakFollows ==
  /\ ~inside \/ prevNext = 0 => charged = 0
  /\ prevNext = 0 => streak = 0
  /\ ~blurred =>
       /\ prevNext = nextAt /\ inside => streak = charged
       /\ prevNext \notin {0, nextAt} => /\ nextAt - prevNext = length
                                        /\ charged = Counts(prevRate, length, Kept)

\* At most one alert for the open interval, and then none is due.
AlertedOnce == alerts <= 1 /\ (alerts = 1 => alerted = nextAt)

LEMMA LongestIsOne == Longest \in Lengths /\ \A k \in Lengths : k <= Longest
BY FundingGuardAssumption DEF Longest, FundingGuardAssumption

LEMMA YearlyInt ==
  ASSUME NEW r \in Int, NEW n \in Nat \ {0}
  PROVE  Yearly(r, n) \in Int
<1>1. Longest \in Int
  BY LongestIsOne, FundingGuardAssumption DEF FundingGuardAssumption
<1>2. r * Longest \in Int
  BY <1>1
<1> QED BY <1>2 DEF Yearly

LEMMA GuardInitial == GuardInit => GuardTypeInv /\ StreakFollows /\ AlertedOnce
<1> SUFFICES ASSUME GuardInit PROVE GuardTypeInv /\ StreakFollows /\ AlertedOnce
  OBVIOUS
<1> USE FundingGuardAssumption DEF GuardInit, FundingGuardAssumption
<1>1. Longest \in Nat \ {0}
  BY LongestIsOne
<1>2. Longest * MaxCharges \in Nat
  BY <1>1
<1>3. 0 \in 0..(Longest * MaxCharges) /\ 0 \in 0..MaxCharges /\ 0 \in 0..PauseAfter
  BY <1>2
<1>4. nextAt \in Nat \ {0}
  OBVIOUS
<1>5. GuardTypeOK
  <2>1. prevNext \in 0..nextAt /\ alerted \in 0..nextAt
    BY <1>4
  <2>2. alerts \in Nat /\ rate \in Rates /\ prevRate \in Rates /\ length \in Lengths
    OBVIOUS
  <2> QED BY <1>3, <1>4, <2>1, <2>2 DEF GuardTypeOK
<1>6. GuardTypeInv
  BY <1>3, <1>4, <1>5 DEF GuardTypeInv
<1> QED BY <1>4, <1>6 DEF StreakFollows, AlertedOnce

\* Counting raises by one at most.
LEMMA CountsTyped ==
  ASSUME NEW r \in Rates, NEW n \in Nat \ {0}, NEW k \in Nat
  PROVE  Counts(r, n, k) \in 0..(k + 1)
BY DEF Counts

LEMMA AlertsTyped ==
  ASSUME NEW n \in Nat, Alerts(n), alerted \in 0..nextAt, alerts \in Nat, nextAt \in Nat,
         AlertedOnce
  PROVE  /\ alerted' \in 0..nextAt /\ alerts' \in Nat
         /\ alerts' <= 1 /\ (alerts' = 1 => alerted' = nextAt)
<1>1. CASE inside /\ rate > 0 /\ n # 0 /\ alerted # nextAt /\ Yearly(rate, n) >= AlertRate
  BY <1>1 DEF Alerts, AlertedOnce
<1>2. CASE ~(inside /\ rate > 0 /\ n # 0 /\ alerted # nextAt /\ Yearly(rate, n) >= AlertRate)
  BY <1>2 DEF Alerts, AlertedOnce
<1> QED BY <1>1, <1>2

LEMMA GuardTypeStep ==
  GuardTypeInv /\ AlertedOnce /\ [GuardNext]_guardVars => GuardTypeInv' /\ AlertedOnce'
<1> SUFFICES ASSUME GuardTypeInv, AlertedOnce, [GuardNext]_guardVars
             PROVE  GuardTypeInv' /\ AlertedOnce'
  OBVIOUS
<1> USE FundingGuardAssumption DEF GuardTypeInv, GuardTypeOK, FundingGuardAssumption
<1>0. Longest \in Nat \ {0} /\ \A k \in Lengths : k <= Longest
  BY LongestIsOne
<1>t. /\ nextAt \in Nat /\ nextAt > 0 /\ prevNext \in Nat /\ prevNext <= nextAt
      /\ alerted \in Nat /\ alerted <= nextAt /\ streak \in 0..PauseAfter
      /\ (~braked => streak < PauseAfter)
  OBVIOUS
<1>1. CASE Drifts
  BY <1>1 DEF Drifts, AlertedOnce
<1>2. CASE Charges
  <2>1. PICK n \in Lengths : length' = n /\ nextAt' = nextAt + n
    BY <1>2 DEF Charges
  <2>l. n \in Nat /\ n > 0 /\ n <= Longest
    BY <1>0
  <2>2. charges' = charges + 1 /\ charges' \in 0..MaxCharges
    BY <1>2 DEF Charges
  <2>3. charged' \in 0..MaxCharges /\ charged' <= charges'
    BY <1>2, <2>2 DEF Charges
  <2>4. Longest * charges' = Longest * charges + Longest /\ Longest * charges \in Nat
    <3>1. charges \in Nat /\ Longest \in Nat
      BY <1>0
    <3> QED BY <2>2, <3>1
  <2>t. nextAt \in Nat /\ prevNext \in Nat /\ alerted \in Nat /\ Longest \in Nat
        /\ prevNext <= nextAt /\ alerted <= nextAt
    BY <1>0
  <2>5. prevNext # 0 => nextAt' - prevNext <= Longest * charges'
    <3> DEFINE p == Longest * charges
    <3>1. prevNext # 0 => nextAt - prevNext <= p
      OBVIOUS
    <3>2. p \in Nat /\ Longest * charges' = p + Longest
      BY <2>4
    <3> HIDE DEF p
    <3>3. prevNext # 0 => nextAt + n - prevNext <= p + Longest
      BY <2>l, <2>t, <3>1, <3>2
    <3> QED BY <2>1, <3>2, <3>3
  <2>6. nextAt' \in Nat /\ nextAt' > 0 /\ prevNext \in 0..nextAt' /\ alerted \in 0..nextAt'
    <3>1. /\ nextAt + n \in Nat /\ nextAt + n > 0
          /\ prevNext \in 0..(nextAt + n) /\ alerted \in 0..(nextAt + n)
      BY <1>t, <2>l
    <3> QED BY <2>1, <3>1
  <2>7. blurred' \in BOOLEAN /\ rate' \in Rates /\ length' \in Lengths
    BY <1>2 DEF Charges
  <2>8. UNCHANGED <<inside, prevNext, prevRate, learnt, streak, alerted, braked>> /\ alerts' = 0
    BY <1>2 DEF Charges
  <2>9. GuardTypeOK'
    BY <2>3, <2>6, <2>7, <2>8
  <2>10. ~braked' => streak' < PauseAfter
    BY <2>8
  <2>11. (prevNext # 0 => nextAt - prevNext <= Longest * charges)'
    BY <2>5, <2>8
  <2>12. GuardTypeInv'
    BY <2>2, <2>3, <2>6, <2>9, <2>10, <2>11
  <2> QED BY <2>8, <2>12 DEF AlertedOnce
<1>3. CASE Flips
  <2>1. blurred' \in BOOLEAN /\ inside' \in BOOLEAN /\ charged' = 0
    BY <1>3 DEF Flips
  <2> QED BY <1>3, <2>1 DEF Flips, AlertedOnce
<1>4. CASE LooksFirst
  <2>1. nextAt - nextAt <= Longest * charges
    <3>1. Longest * charges \in Nat
      BY <1>0
    <3> QED BY <3>1
  <2>2. prevNext' \in 0..nextAt /\ prevNext' = nextAt
    BY <1>4 DEF LooksFirst
  <2> QED BY <1>4, <2>1, <2>2 DEF LooksFirst, AlertedOnce
<1>5. CASE LooksOn
  <2>1. Kept \in 0..PauseAfter /\ Kept <= streak
    BY DEF Kept
  <2>2. learnt \in Nat
    OBVIOUS
  <2>3. /\ alerted' \in 0..nextAt /\ alerts' \in Nat
        /\ alerts' <= 1 /\ (alerts' = 1 => alerted' = nextAt)
    BY <1>5, <2>2, AlertsTyped DEF LooksOn
  <2> QED BY <1>5, <2>1, <2>3 DEF LooksOn, AlertedOnce
<1>6. CASE LooksAfterCharge
  <2>1. nextAt - prevNext \in Nat \ {0} /\ ~braked /\ prevNext # 0
    BY <1>6 DEF LooksAfterCharge
  <2>2. nextAt - prevNext \in 0..(Longest * MaxCharges)
    <3>1. Longest * charges <= Longest * MaxCharges
      BY <1>0
    <3>2. Longest * charges \in Nat /\ Longest * MaxCharges \in Nat
      BY <1>0
    <3> QED BY <2>1, <3>1, <3>2
  <2>3. Kept \in Nat /\ Kept <= streak
    BY DEF Kept
  <2>l. Learns \in Nat /\ Learns \in 0..(Longest * MaxCharges)
    BY <2>1, <2>2 DEF Learns
  <2> DEFINE k == IF Learns = 0 THEN Kept ELSE Counts(prevRate, Learns, Kept)
  <2>4. k \in 0..(Kept + 1)
    <3>1. CASE Learns = 0
      BY <2>3, <3>1
    <3>2. CASE Learns # 0
      <4>1. Counts(prevRate, Learns, Kept) \in 0..(Kept + 1)
        BY <2>l, <2>3, <3>2, CountsTyped
      <4> QED BY <3>2, <4>1
    <3> QED BY <3>1, <3>2
  <2>5. streak' = k /\ braked' = (k >= PauseAfter)
    BY <1>6 DEF LooksAfterCharge
  <2>6. streak' \in 0..PauseAfter /\ braked' \in BOOLEAN /\ (~braked' => streak' < PauseAfter)
    <3> HIDE DEF k
    <3>1. k \in 0..PauseAfter /\ (~(k >= PauseAfter) => k < PauseAfter)
      BY <1>t, <2>1, <2>3, <2>4
    <3>2. streak' \in 0..PauseAfter
      BY <2>5, <3>1
    <3>3. braked' \in BOOLEAN
      BY <2>5
    <3>4. ~braked' => streak' < PauseAfter
      BY <2>5, <3>1, Zenon
    <3> QED BY <3>2, <3>3, <3>4
  <2>7. /\ alerted' \in 0..nextAt /\ alerts' \in Nat
        /\ alerts' <= 1 /\ (alerts' = 1 => alerted' = nextAt)
    <3>1. learnt' \in Nat
      BY <1>6, <2>l DEF LooksAfterCharge
    <3>2. CASE Alerts(learnt')
      BY <3>1, <3>2, AlertsTyped
    <3>3. CASE UNCHANGED <<alerted, alerts>>
      BY <3>3 DEF AlertedOnce
    <3> QED BY <1>6, <3>2, <3>3 DEF LooksAfterCharge
  <2>8. nextAt - nextAt <= Longest * charges
    <3>1. Longest * charges \in Nat
      BY <1>0
    <3> QED BY <3>1
  <2> HIDE DEF k
  <2>9. /\ learnt' = Learns /\ prevNext' = nextAt /\ prevRate' = rate
        /\ UNCHANGED <<rate, nextAt, length, inside, charged, blurred, charges>>
    BY <1>6 DEF LooksAfterCharge
  <2>10. prevNext' \in 0..nextAt' /\ alerted' \in 0..nextAt'
    BY <2>7, <2>9
  <2> QED BY <2>l, <2>6, <2>7, <2>8, <2>9, <2>10 DEF AlertedOnce
<1>7. CASE UNCHANGED guardVars
  BY <1>7 DEF guardVars, AlertedOnce
<1> QED BY <1>1, <1>2, <1>3, <1>4, <1>5, <1>6, <1>7 DEF GuardNext

LEMMA StreakStep ==
  GuardTypeInv /\ StreakFollows /\ [GuardNext]_guardVars => StreakFollows'
<1> SUFFICES ASSUME GuardTypeInv, StreakFollows, [GuardNext]_guardVars PROVE StreakFollows'
  OBVIOUS
<1>0. GuardTypeOK
  BY DEF GuardTypeInv
<1>t. nextAt \in Nat /\ nextAt > 0 /\ prevNext \in Nat /\ prevNext <= nextAt
  BY <1>0 DEF GuardTypeOK, GuardTypeInv
<1>1. CASE Drifts
  BY <1>1 DEF Drifts, Kept, Counts, StreakFollows
<1>2. CASE Charges
  <2>1. PICK n \in Lengths : length' = n /\ nextAt' = nextAt + n
    BY <1>2 DEF Charges
  <2>2. ~inside \/ prevNext = 0 => charged' = 0
    BY <1>2 DEF Charges
  <2>3. prevNext # nextAt'
    <3>1. n \in Nat /\ n > 0
      BY FundingGuardAssumption DEF FundingGuardAssumption
    <3>2. prevNext # nextAt + n
      BY <1>t, <3>1
    <3> QED BY <2>1, <3>2
  <2>4. ASSUME ~blurred', prevNext # 0
        PROVE  nextAt' - prevNext = length' /\ charged' = Counts(prevRate, length, Kept)
    <3>1. ~blurred /\ prevNext = nextAt /\ prevRate = rate /\ length' = length
      BY <1>2, <2>4 DEF Charges, Unseen
    <3>2. Yearly(rate, length) \in Int /\ rate \in Int
      BY <1>0, YearlyInt, FundingGuardAssumption DEF FundingGuardAssumption, GuardTypeOK
    <3>3. PauseRate \in Nat /\ AlertRate \in Nat /\ PauseRate >= AlertRate
      BY FundingGuardAssumption DEF FundingGuardAssumption
    <3>4. charged' = Counts(rate, length, Kept)
      BY <1>0, <1>2, <2>4, <3>1, <3>2, <3>3 DEF Charges, Counts, Kept, StreakFollows, GuardTypeOK
    <3>5. (nextAt + n) - nextAt = n
      BY <1>t, FundingGuardAssumption DEF FundingGuardAssumption
    <3>6. nextAt' - prevNext = length'
      <4>1. nextAt' - nextAt = n
        BY <2>1, <3>5
      <4>2. nextAt' - prevNext = nextAt' - nextAt /\ length' = n
        BY <2>1, <3>1
      <4> QED BY <4>1, <4>2, Zenon
    <3>7. charged' = Counts(prevRate, length, Kept)
      BY <3>1, <3>4
    <3> QED BY <3>6, <3>7
  <2>5. UNCHANGED <<inside, prevNext, prevRate, streak>>
    BY <1>2 DEF Charges
  <2>6. ~blurred' /\ prevNext # 0 => length' = length
    BY <1>2 DEF Charges, Unseen
  <2>7. Counts(prevRate, length, Kept) = Counts(prevRate, length, Kept)' \/ length' # length
    BY <2>5 DEF Counts, Kept
  <2> QED BY <2>2, <2>3, <2>4, <2>5, <2>6, <2>7 DEF StreakFollows
<1>3. CASE Flips
  <2>1. charged' = 0 /\ inside' = ~inside
    BY <1>3 DEF Flips
  <2>2. ASSUME ~blurred' PROVE ~blurred /\ prevNext \in {0, nextAt} /\ (inside' => streak = 0)
    BY <1>3, <2>2 DEF Flips
  <2> QED BY <1>3, <2>1, <2>2 DEF Flips, StreakFollows
<1>4. CASE LooksFirst
  BY <1>4 DEF LooksFirst, StreakFollows
<1>5. CASE LooksOn
  BY <1>5 DEF LooksOn, Kept, StreakFollows
<1>6. CASE LooksAfterCharge
  <2>1. prevNext' = nextAt /\ nextAt' = nextAt /\ nextAt # 0 /\ prevNext \notin {0, nextAt}
    BY <1>t, <1>6 DEF LooksAfterCharge
  <2>2. ~blurred => streak' = Counts(prevRate, length, Kept)
    <3> SUFFICES ASSUME ~blurred PROVE streak' = Counts(prevRate, length, Kept)
      OBVIOUS
    <3>1. nextAt - prevNext = length
      BY <2>1 DEF StreakFollows
    <3>2. length \in Plausible /\ length # 0
      BY <1>0, FundingGuardAssumption DEF GuardTypeOK, FundingGuardAssumption
    <3>3. Learns = length
      BY <3>1, <3>2 DEF Learns
    <3> QED BY <1>6, <3>2, <3>3 DEF LooksAfterCharge
  <2>3. UNCHANGED <<blurred, charged, inside>>
    BY <1>6 DEF LooksAfterCharge
  <2> QED BY <2>1, <2>2, <2>3 DEF StreakFollows, Kept
<1>7. CASE UNCHANGED guardVars
  BY <1>7 DEF guardVars, Kept, Counts, StreakFollows
<1> QED BY <1>1, <1>2, <1>3, <1>4, <1>5, <1>6, <1>7 DEF GuardNext

\* The funding safeguard counts what was charged and alerts once per interval, for any
\* rates, lengths and bands and any ticks that do not come (assertFundingHeadroom).
THEOREM ChargesAreCounted == GuardSpec => [](GuardTypeOK /\ FundingIsCounted)
<1>1. GuardTypeInv /\ StreakFollows /\ AlertedOnce => GuardTypeOK /\ FundingIsCounted
  BY DEF GuardTypeInv, StreakFollows, AlertedOnce, FundingIsCounted
<1> QED BY <1>1, GuardInitial, GuardTypeStep, StreakStep, PTL DEF GuardSpec

-----------------------------------------------------------------------------
(* Stream *)

\* A socket that the server has not accepted, or never will.
Unheld == {"none", "connecting", "barred", "refused"}

\* The server has nothing of a socket before it is open; what it registers stays on the
\* bus until it is torn down.
ServedWhileOpen ==
  \A s \in Sockets :
    /\ wire[s] \in Unheld => held[s] = "none"
    /\ held[s] = "none" => \A c \in Channels : waiting[s][c] = 0 /\ bus[s][c] = 0
    /\ held[s] = "none" => teardowns[s] = {}
    /\ \A c \in teardowns[s] : bus[s][c] > 0

StreamTypeInv == StreamTypeOK /\ ServedWhileOpen

LEMMA StreamInitial == StreamInit => StreamTypeInv /\ BusMatchesSockets
<1> SUFFICES ASSUME StreamInit PROVE StreamTypeInv /\ BusMatchesSockets
  OBVIOUS
<1> USE StreamAssumption DEF StreamInit, StreamAssumption
<1>1. /\ 0 \in 0..MaxSockets /\ 0 \in 0..MaxTroubles /\ 0 \in 0..MaxLogins
      /\ 0 \in 0..MaxMounts
  OBVIOUS
<1>2. \A s \in Sockets : inbox[s] \in Seq(Frames)
  OBVIOUS
<1>3. /\ waiting \in [Sockets -> [Channels -> Nat]] /\ bus \in [Sockets -> [Channels -> Nat]]
      /\ teardowns \in [Sockets -> SUBSET Channels]
  OBVIOUS
<1>4. wire \in [Sockets -> Wires]
  BY DEF Wires
<1>5. StreamTypeOK
  BY <1>1, <1>2, <1>3, <1>4 DEF StreamTypeOK
<1> QED BY <1>5 DEF StreamTypeInv, ServedWhileOpen, BusMatchesSockets

\* A frame for each channel that is listened to.
LEMMA FramesTyped ==
  ASSUME StreamTypeOK,
         NEW frames \in [1..Cardinality(listeners) -> {"sub"} \X listeners]
  PROVE  frames \in Seq(Frames)
<1>1. Cardinality(listeners) \in Nat
  BY StreamAssumption, FS_Subset, FS_CardinalityType DEF StreamAssumption, StreamTypeOK
<1>2. {"sub"} \X listeners \subseteq Frames
  BY DEF Frames, StreamTypeOK
<1>3. frames \in [1..Cardinality(listeners) -> Frames]
  BY <1>2
<1> QED BY <1>1, <1>3

LEMMA InboxTyped ==
  ASSUME StreamTypeOK, NEW s \in Sockets, NEW f \in Frames,
         inbox' = [inbox EXCEPT ![s] = Append(@, f)]
  PROVE  \A r \in Sockets : inbox'[r] \in Seq(Frames)
BY DEF StreamTypeOK

LEMMA StreamTypeStep == StreamTypeInv /\ [StreamNext]_streamVars => StreamTypeOK'
<1> SUFFICES ASSUME StreamTypeInv, [StreamNext]_streamVars PROVE StreamTypeOK'
  OBVIOUS
<1> USE DEF StreamTypeInv, boundVars, Wires
<1>t. StreamTypeOK
  OBVIOUS
<1>0. Trouble => troubles' \in 0..MaxTroubles
  BY StreamAssumption DEF Trouble, StreamTypeOK, StreamAssumption
<1>1. ASSUME NEW c \in Channels, Mounts(c) PROVE StreamTypeOK'
  <2>1. listeners' \subseteq Channels /\ mounts' \in 0..MaxMounts
    BY <1>1, StreamAssumption DEF Mounts, StreamTypeOK, StreamAssumption
  <2>2. \A s \in Sockets : inbox'[s] \in Seq(Frames)
    <3>1. <<"sub", c>> \in Frames
      BY DEF Frames
    <3>2. CASE inbox' = inbox
      BY <3>2 DEF StreamTypeOK
    <3>3. CASE ws # 0 /\ inbox' = [inbox EXCEPT ![ws] = Append(@, <<"sub", c>>)]
      <4>1. ws \in Sockets
        BY <3>3 DEF StreamTypeOK, Sockets
      <4> QED BY <1>t, <3>1, <3>3, <4>1, InboxTyped
    <3> QED BY <1>1, <3>2, <3>3 DEF Mounts
  <2>3. ws' \in 0..MaxSockets /\ shown' \in {"connecting", "open", "closed", "error"}
        /\ wire' \in [Sockets -> Wires] /\ barred' \in BOOLEAN
    <3>1. \/ UNCHANGED <<ws, shown, wire, barred>>
          \/ \E s \in Sockets : Connects(s)
      BY <1>1 DEF Mounts
    <3>2. ASSUME NEW s \in Sockets, Connects(s)
          PROVE  ws' \in 0..MaxSockets /\ shown' = "connecting" /\ wire' \in [Sockets -> Wires]
                 /\ barred' = FALSE
      BY <3>2, StreamAssumption DEF Connects, Sockets, StreamTypeOK, StreamAssumption
    <3> QED BY <3>1, <3>2 DEF StreamTypeOK
  <2> QED BY <1>1, <2>1, <2>2, <2>3 DEF Mounts, serverVars, StreamTypeOK
<1>2. ASSUME NEW c \in Channels, Unmounts(c) PROVE StreamTypeOK'
  <2>1. \A s \in Sockets : inbox'[s] \in Seq(Frames)
    <3>1. <<"unsub", c>> \in Frames
      BY DEF Frames
    <3>2. CASE inbox' = inbox
      BY <3>2 DEF StreamTypeOK
    <3>3. CASE ws # 0 /\ inbox' = [inbox EXCEPT ![ws] = Append(@, <<"unsub", c>>)]
      <4>1. ws \in Sockets
        BY <3>3 DEF StreamTypeOK, Sockets
      <4> QED BY <1>t, <3>1, <3>3, <4>1, InboxTyped
    <3> QED BY <1>2, <3>2, <3>3 DEF Unmounts
  <2> QED BY <1>2, <2>1 DEF Unmounts, serverVars, StreamTypeOK
<1>3. ASSUME NEW s \in Sockets, Opens(s) PROVE StreamTypeOK'
  <2>1. wire' \in [Sockets -> Wires] /\ held' \in [Sockets -> {"none", "open", "closed"}]
    BY <1>3 DEF Opens, StreamTypeOK
  <2>2. \A r \in Sockets : inbox'[r] \in Seq(Frames)
    <3>1. PICK frames \in [1..Cardinality(listeners) -> {"sub"} \X listeners] :
             inbox' = IF ws = s THEN [inbox EXCEPT ![s] = frames] ELSE inbox
      BY <1>3 DEF Opens
    <3>2. frames \in Seq(Frames)
      BY <1>t, FramesTyped
    <3> QED BY <3>1, <3>2 DEF StreamTypeOK
  <2> QED BY <1>3, <2>1, <2>2 DEF Opens, StreamTypeOK
<1>4. ASSUME NEW s \in Sockets, SeesClose(s) \/ SeesRefusal(s) \/ OpensRefused(s)
      PROVE  StreamTypeOK'
  <2>1. wire' \in [Sockets -> Wires]
    BY <1>4 DEF SeesClose, SeesRefusal, OpensRefused, StreamTypeOK
  <2>2. 0 \in 0..MaxSockets
    BY StreamAssumption DEF StreamAssumption
  <2> QED BY <1>4, <2>1, <2>2
          DEF SeesClose, SeesRefusal, OpensRefused, serverVars, StreamTypeOK
<1>5. ASSUME NEW s \in Sockets, Breaks(s) PROVE StreamTypeOK'
  <2>1. wire' \in [Sockets -> Wires]
    BY <1>5 DEF Breaks, StreamTypeOK
  <2>2. troubles' \in 0..MaxTroubles /\ UNCHANGED <<logins, mounts>>
    BY <1>0, <1>5 DEF Breaks, Trouble
  <2> QED BY <1>5, <2>1, <2>2 DEF Breaks, tabVars, serverVars, StreamTypeOK
<1>6. ASSUME NEW s \in Sockets, Receives(s) PROVE StreamTypeOK'
  <2> DEFINE c == Head(inbox[s])[2]
  <2>1. inbox[s] \in Seq(Frames) /\ inbox[s] # <<>>
    BY <1>6 DEF Receives, StreamTypeOK
  <2>2. Head(inbox[s]) \in Frames /\ Tail(inbox[s]) \in Seq(Frames)
    BY <2>1
  <2>3. c \in Channels
    BY <2>2 DEF Frames
  <2>4. \A r \in Sockets : inbox'[r] \in Seq(Frames)
    BY <1>6, <2>2 DEF Receives, StreamTypeOK
  <2>5. waiting[s] \in [Channels -> Nat] /\ bus[s] \in [Channels -> Nat]
    BY DEF StreamTypeOK
  <2>6. waiting' \in [Sockets -> [Channels -> Nat]]
    <3>1. waiting' = waiting \/ waiting' = [waiting EXCEPT ![s][c] = waiting[s][c] + 1]
      BY <1>6 DEF Receives
    <3>2. waiting[s][c] + 1 \in Nat
      BY <2>3, <2>5
    <3>3. [waiting[s] EXCEPT ![c] = waiting[s][c] + 1] \in [Channels -> Nat]
      BY <2>5, <3>2
    <3> QED BY <3>1, <3>3 DEF StreamTypeOK
  <2>7. teardowns' \in [Sockets -> SUBSET Channels]
    <3>1. teardowns' = teardowns \/ teardowns' = [teardowns EXCEPT ![s] = teardowns[s] \ {c}]
      BY <1>6 DEF Receives
    <3>2. teardowns[s] \ {c} \in SUBSET Channels
      BY DEF StreamTypeOK
    <3> HIDE DEF c
    <3> QED BY <3>1, <3>2 DEF StreamTypeOK
  <2>8. bus' \in [Sockets -> [Channels -> Nat]]
    <3>1. \/ bus' = bus
          \/ c \in teardowns[s] /\ bus' = [bus EXCEPT ![s][c] = bus[s][c] - 1]
      BY <1>6 DEF Receives
    <3>2. c \in teardowns[s] => bus[s][c] - 1 \in Nat
      BY <2>3, <2>5 DEF ServedWhileOpen
    <3>3. c \in teardowns[s] => [bus[s] EXCEPT ![c] = bus[s][c] - 1] \in [Channels -> Nat]
      BY <2>5, <3>2
    <3> QED BY <3>1, <3>3 DEF StreamTypeOK
  <2> QED BY <1>6, <2>4, <2>6, <2>7, <2>8 DEF Receives, tabVars, StreamTypeOK
<1>7. ASSUME NEW s \in Sockets, ServerCloses(s) PROVE StreamTypeOK'
  <2>1. held' \in [Sockets -> {"none", "open", "closed"}]
    BY <1>7 DEF ServerCloses, StreamTypeOK
  <2>2. \A r \in Sockets : inbox'[r] \in Seq(Frames)
    BY <1>7 DEF ServerCloses, StreamTypeOK
  <2>3. teardowns' \in [Sockets -> SUBSET Channels]
    BY <1>7 DEF ServerCloses, StreamTypeOK
  <2>4. bus' \in [Sockets -> [Channels -> Nat]]
    <3> DEFINE rest == [c \in Channels |-> IF c \in teardowns[s] THEN bus[s][c] - 1 ELSE bus[s][c]]
    <3>1. bus' = [bus EXCEPT ![s] = rest]
      BY <1>7 DEF ServerCloses
    <3>2. bus[s] \in [Channels -> Nat]
      BY DEF StreamTypeOK
    <3>3. \A c \in Channels : (IF c \in teardowns[s] THEN bus[s][c] - 1 ELSE bus[s][c]) \in Nat
      BY <3>2 DEF ServedWhileOpen
    <3>4. rest \in [Channels -> Nat]
      BY <3>3
    <3> HIDE DEF rest
    <3> QED BY <3>1, <3>4 DEF StreamTypeOK
  <2> QED BY <1>7, <2>1, <2>2, <2>3, <2>4 DEF ServerCloses, tabVars, StreamTypeOK
<1>8. CASE Reconnects
  <2>1. ws' \in 0..MaxSockets /\ shown' \in {"connecting", "open", "closed", "error"}
        /\ wire' \in [Sockets -> Wires] /\ barred' \in BOOLEAN
    <3>1. CASE UNCHANGED <<ws, shown, wire, barred>>
      BY <3>1 DEF StreamTypeOK
    <3>2. ASSUME NEW s \in Sockets, Connects(s)
          PROVE  ws' \in 0..MaxSockets /\ shown' = "connecting" /\ wire' \in [Sockets -> Wires]
                 /\ barred' = FALSE
      BY <3>2, StreamAssumption DEF Connects, Sockets, StreamTypeOK, StreamAssumption
    <3> QED BY <1>8, <3>1, <3>2 DEF Reconnects
  <2> QED BY <1>8, <2>1 DEF Reconnects, serverVars, StreamTypeOK
<1>9. CASE AuthChanges
  <2> DEFINE closed == IF ws # 0 /\ wire[ws] # "refused"
                         THEN [wire EXCEPT ![ws] = "broken"] ELSE wire
  <2>1. closed \in [Sockets -> Wires]
    BY DEF StreamTypeOK
  <2>2. ws' \in 0..MaxSockets /\ shown' \in {"connecting", "open", "closed", "error"}
        /\ barred' \in BOOLEAN
    <3>1. \/ ws' = 0 /\ shown' = "closed" /\ barred' = barred
          \/ \E s \in Sockets : ws' = s /\ shown' = "connecting" /\ barred' = FALSE
      BY <1>9 DEF AuthChanges
    <3>2. 0 \in 0..MaxSockets /\ Sockets \subseteq 0..MaxSockets /\ barred \in BOOLEAN
      BY StreamAssumption DEF Sockets, StreamTypeOK, StreamAssumption
    <3> QED BY <3>1, <3>2
  <2>3. \/ wire' = closed
        \/ \E s \in Sockets :
             wire' = [closed EXCEPT ![s] = IF expired' THEN "barred" ELSE "connecting"]
    BY <1>9 DEF AuthChanges
  <2>4. wire' \in [Sockets -> Wires]
    <3> HIDE DEF closed
    <3> QED BY <2>1, <2>3
  <2>5. logins' \in 0..MaxLogins
    BY <1>9, StreamAssumption DEF AuthChanges, StreamTypeOK, StreamAssumption
  <2> QED BY <1>9, <2>2, <2>4, <2>5 DEF AuthChanges, serverVars, StreamTypeOK
<1>10. ASSUME NEW s \in Sockets, NEW c \in Channels, Authorised(s, c) PROVE StreamTypeOK'
  <2>1. waiting[s] \in [Channels -> Nat] /\ bus[s] \in [Channels -> Nat]
    BY DEF StreamTypeOK
  <2>2. waiting[s][c] - 1 \in Nat /\ bus[s][c] + 1 \in Nat
    BY <1>10, <2>1 DEF Authorised
  <2>3. [waiting[s] EXCEPT ![c] = waiting[s][c] - 1] \in [Channels -> Nat]
    BY <2>1, <2>2
  <2>4. [bus[s] EXCEPT ![c] = bus[s][c] + 1] \in [Channels -> Nat]
    BY <2>1, <2>2
  <2>5. waiting' \in [Sockets -> [Channels -> Nat]]
    BY <1>10, <2>3 DEF Authorised, StreamTypeOK
  <2>6. bus' \in [Sockets -> [Channels -> Nat]]
    BY <1>10, <2>4 DEF Authorised, StreamTypeOK
  <2>7. teardowns' \in [Sockets -> SUBSET Channels]
    <3>1. teardowns[s] \cup {c} \in SUBSET Channels
      BY DEF StreamTypeOK
    <3> QED BY <1>10, <3>1 DEF Authorised, StreamTypeOK
  <2>8. overtaken' \in BOOLEAN
    BY <1>10 DEF Authorised, StreamTypeOK
  <2> QED BY <1>10, <2>5, <2>6, <2>7, <2>8 DEF Authorised, tabVars, StreamTypeOK
<1>11. ASSUME NEW s \in Sockets, NEW c \in Channels, ChannelRefused(s, c) PROVE StreamTypeOK'
  <2>1. waiting[s] \in [Channels -> Nat]
    BY DEF StreamTypeOK
  <2>2. [waiting[s] EXCEPT ![c] = waiting[s][c] - 1] \in [Channels -> Nat]
    BY <1>11, <2>1 DEF ChannelRefused
  <2>3. waiting' \in [Sockets -> [Channels -> Nat]]
    BY <1>11, <2>2 DEF ChannelRefused, StreamTypeOK
  <2>4. troubles' \in 0..MaxTroubles /\ UNCHANGED <<logins, mounts>>
    BY <1>0, <1>11 DEF ChannelRefused, Trouble
  <2>5. denied' \subseteq Sockets \X Channels
    BY <1>11 DEF ChannelRefused, StreamTypeOK
  <2>6. UNCHANGED <<tabVars, wire, held, inbox, teardowns, bus, overtaken>>
    BY <1>11 DEF ChannelRefused
  <2> QED BY <2>3, <2>4, <2>5, <2>6 DEF tabVars, StreamTypeOK
<1>12. CASE Expires
  BY <1>0, <1>12 DEF Expires, Trouble, serverVars, StreamTypeOK
<1>13. CASE UNCHANGED streamVars
  BY <1>13 DEF streamVars, StreamTypeOK
<1> QED
  BY <1>1, <1>2, <1>3, <1>4, <1>5, <1>6, <1>7, <1>8, <1>9, <1>10, <1>11, <1>12, <1>13
  DEF StreamNext

LEMMA ServedStep ==
  StreamTypeInv /\ BusMatchesSockets /\ [StreamNext]_streamVars
    => ServedWhileOpen' /\ BusMatchesSockets'
<1> SUFFICES ASSUME StreamTypeInv, BusMatchesSockets, [StreamNext]_streamVars
             PROVE  ServedWhileOpen' /\ BusMatchesSockets'
  OBVIOUS
<1> USE DEF StreamTypeInv, ServedWhileOpen, BusMatchesSockets, Unheld
<1>t. /\ wire \in [Sockets -> Wires]
      /\ held \in [Sockets -> {"none", "open", "closed"}] /\ overtaken \in BOOLEAN
      /\ waiting \in [Sockets -> [Channels -> Nat]] /\ bus \in [Sockets -> [Channels -> Nat]]
      /\ teardowns \in [Sockets -> SUBSET Channels]
  BY DEF StreamTypeOK
\* What changes the tab and its sockets only, and leaves no socket less open.
<1>0. ASSUME UNCHANGED serverVars,
             \A s \in Sockets : wire'[s] \in Unheld => held[s] = "none"
      PROVE  ServedWhileOpen' /\ BusMatchesSockets'
  BY <1>0 DEF serverVars
<1>1. ASSUME NEW c \in Channels, Mounts(c) \/ Unmounts(c)
      PROVE  ServedWhileOpen' /\ BusMatchesSockets'
  <2>1. UNCHANGED serverVars
    BY <1>1 DEF Mounts, Unmounts
  <2>2. wire' = wire \/ \E s \in Sockets, w \in {"connecting", "barred"} :
                         wire[s] = "none" /\ wire' = [wire EXCEPT ![s] = w]
    BY <1>1 DEF Mounts, Unmounts, Connects, NewSocket
  <2> QED BY <1>0, <1>t, <2>1, <2>2
<1>2. CASE Reconnects
  <2>1. UNCHANGED serverVars
    BY <1>2 DEF Reconnects
  <2>2. wire' = wire \/ \E s \in Sockets, w \in {"connecting", "barred"} :
                         wire[s] = "none" /\ wire' = [wire EXCEPT ![s] = w]
    BY <1>2 DEF Reconnects, Connects, NewSocket
  <2> QED BY <1>0, <1>t, <2>1, <2>2
<1>3. CASE AuthChanges
  <2>1. UNCHANGED serverVars
    BY <1>3 DEF AuthChanges
  <2> DEFINE closed == IF ws # 0 /\ wire[ws] # "refused"
                         THEN [wire EXCEPT ![ws] = "broken"] ELSE wire
  <2>2. \A r \in Sockets : closed[r] \in Unheld => held[r] = "none"
    BY <1>t
  <2>3. \/ wire' = closed
        \/ \E s \in Sockets, w \in {"connecting", "barred"} :
             wire[s] = "none" /\ wire' = [closed EXCEPT ![s] = w]
    BY <1>3 DEF AuthChanges, NewSocket
  <2>4. closed \in [Sockets -> Wires]
    BY <1>t DEF Wires
  <2>5. \A s \in Sockets : wire[s] = "none" => held[s] = "none"
    OBVIOUS
  <2> HIDE DEF closed
  <2>6. \A s \in Sockets : wire'[s] \in Unheld => held[s] = "none"
    BY <2>2, <2>3, <2>4, <2>5
  <2> QED BY <1>0, <2>1, <2>6
<1>4. ASSUME NEW s \in Sockets,
             SeesClose(s) \/ SeesRefusal(s) \/ OpensRefused(s) \/ Breaks(s)
      PROVE  ServedWhileOpen' /\ BusMatchesSockets'
  <2>1. UNCHANGED serverVars
    BY <1>4 DEF SeesClose, SeesRefusal, OpensRefused, Breaks
  <2>2. \/ wire' = [wire EXCEPT ![s] = "over"] \/ wire' = [wire EXCEPT ![s] = "broken"]
        \/ wire[s] = "barred" /\ wire' = [wire EXCEPT ![s] = "refused"]
    BY <1>4 DEF SeesClose, SeesRefusal, OpensRefused, Breaks
  <2> QED BY <1>0, <1>t, <2>1, <2>2
<1>5. ASSUME NEW s \in Sockets, Opens(s) PROVE ServedWhileOpen' /\ BusMatchesSockets'
  BY <1>5, <1>t DEF Opens
<1>6. ASSUME NEW s \in Sockets, Receives(s) PROVE ServedWhileOpen' /\ BusMatchesSockets'
  <2> DEFINE c == Head(inbox[s])[2]
  <2>1. held[s] = "open" /\ UNCHANGED <<wire, held, overtaken>>
    BY <1>6 DEF Receives, tabVars
  <2>2. CASE UNCHANGED <<teardowns, bus>>
            /\ (waiting' = waiting \/ waiting' = [waiting EXCEPT ![s][c] = @ + 1])
    <3>1. \A r \in Sockets : r # s => waiting'[r] = waiting[r]
      BY <1>t, <2>2
    <3> QED BY <2>1, <2>2, <3>1
  <2>3. CASE /\ teardowns' = [teardowns EXCEPT ![s] = @ \ {c}]
             /\ bus' = IF c \in teardowns[s] THEN [bus EXCEPT ![s][c] = @ - 1] ELSE bus
             /\ waiting' = waiting
    <3>1. \A r \in Sockets : r # s => teardowns'[r] = teardowns[r] /\ bus'[r] = bus[r]
      BY <1>t, <2>3
    <3>2. teardowns'[s] = teardowns[s] \ {c}
      BY <1>t, <2>3
    <3>3. \A d \in Channels : d # c => bus'[s][d] = bus[s][d]
      BY <1>t, <2>3
    <3>4. c \in Channels => bus'[s][c] = IF c \in teardowns[s] THEN bus[s][c] - 1 ELSE bus[s][c]
      BY <1>t, <2>3
    <3> HIDE DEF c
    <3>5. ServedWhileOpen'
      BY <1>t, <2>1, <2>3, <3>1, <3>2, <3>3
    <3>6. BusMatchesSockets'
      BY <1>t, <2>1, <2>3, <3>1, <3>2, <3>3, <3>4
    <3> QED BY <3>5, <3>6
  <2> QED BY <1>6, <2>2, <2>3 DEF Receives
<1>7. ASSUME NEW s \in Sockets, ServerCloses(s) PROVE ServedWhileOpen' /\ BusMatchesSockets'
  <2>1. /\ held[s] = "open" /\ wire[s] \in {"broken", "over"}
        /\ held' = [held EXCEPT ![s] = "closed"] /\ UNCHANGED <<wire, waiting, overtaken>>
        /\ teardowns' = [teardowns EXCEPT ![s] = {}]
    BY <1>7 DEF ServerCloses, tabVars
  <2>2. \A r \in Sockets : r # s => /\ teardowns'[r] = teardowns[r] /\ bus'[r] = bus[r]
                                    /\ held'[r] = held[r]
    BY <1>7, <1>t, <2>1 DEF ServerCloses
  <2>3. teardowns'[s] = {} /\ held'[s] = "closed"
    BY <1>t, <2>1
  <2>4. \A c \in Channels :
          bus'[s][c] = IF c \in teardowns[s] THEN bus[s][c] - 1 ELSE bus[s][c]
    BY <1>7, <1>t DEF ServerCloses
  <2>5. ServedWhileOpen'
    BY <2>1, <2>2, <2>3
  <2>6. ~overtaken => \A c \in Channels : bus'[s][c] = 0
    <3>1. ~overtaken => \A c \in Channels : bus[s][c] = IF c \in teardowns[s] THEN 1 ELSE 0
      BY <2>1
    <3>2. 1 - 1 = 0
      OBVIOUS
    <3> QED BY <2>4, <3>1, <3>2
  <2>7. BusMatchesSockets'
    BY <2>1, <2>2, <2>3, <2>6
  <2> QED BY <2>5, <2>7
<1>8. ASSUME NEW s \in Sockets, NEW c \in Channels, Authorised(s, c)
      PROVE  ServedWhileOpen' /\ BusMatchesSockets'
  <2>1. /\ waiting[s][c] > 0 /\ UNCHANGED <<wire, held>>
        /\ waiting' = [waiting EXCEPT ![s][c] = @ - 1]
        /\ teardowns' = [teardowns EXCEPT ![s] = @ \cup {c}]
        /\ bus' = [bus EXCEPT ![s][c] = @ + 1]
        /\ overtaken' = (overtaken \/ held[s] = "closed" \/ c \in teardowns[s])
    BY <1>8 DEF Authorised, tabVars
  <2>2. held[s] # "none"
    BY <1>t, <2>1
  <2>3. \A r \in Sockets : r # s => /\ teardowns'[r] = teardowns[r] /\ bus'[r] = bus[r]
                                    /\ waiting'[r] = waiting[r]
    BY <1>t, <2>1
  <2>4. teardowns'[s] = teardowns[s] \cup {c}
    BY <1>t, <2>1
  <2>5. /\ bus'[s][c] = bus[s][c] + 1 /\ bus[s][c] \in Nat
        /\ \A d \in Channels : d # c => bus'[s][d] = bus[s][d]
    BY <1>t, <2>1
  <2>6. ServedWhileOpen'
    BY <1>t, <2>1, <2>2, <2>3, <2>4, <2>5
  <2>7. BusMatchesSockets'
    <3>1. ASSUME ~overtaken'
          PROVE  ~overtaken /\ held[s] = "open" /\ c \notin teardowns[s]
      BY <1>t, <2>1, <2>2, <3>1
    <3>2. ~overtaken' => bus[s][c] = 0
      BY <3>1
    <3>3. ~overtaken' => bus'[s][c] = 1
      BY <2>5, <3>2
    <3>4. ASSUME ~overtaken', NEW d \in Channels
          PROVE  bus'[s][d] = IF d \in teardowns'[s] THEN 1 ELSE 0
      BY <2>4, <2>5, <3>1, <3>3, <3>4
    <3> QED BY <2>1, <2>3, <3>1, <3>4
  <2> QED BY <2>6, <2>7
<1>9. ASSUME NEW s \in Sockets, NEW c \in Channels, ChannelRefused(s, c)
      PROVE  ServedWhileOpen' /\ BusMatchesSockets'
  <2>1. /\ waiting[s][c] > 0 /\ UNCHANGED <<wire, held, teardowns, bus, overtaken>>
        /\ waiting' = [waiting EXCEPT ![s][c] = @ - 1]
    BY <1>9 DEF ChannelRefused, tabVars
  <2>2. held[s] # "none"
    BY <1>t, <2>1
  <2>3. \A r \in Sockets : r # s => waiting'[r] = waiting[r]
    BY <1>t, <2>1
  <2> QED BY <1>t, <2>1, <2>2, <2>3
<1>10. CASE Expires \/ UNCHANGED streamVars
  BY <1>0, <1>10 DEF Expires, streamVars, serverVars
<1> QED
  BY <1>1, <1>2, <1>3, <1>4, <1>5, <1>6, <1>7, <1>8, <1>9, <1>10 DEF StreamNext

-----------------------------------------------------------------------------
(* RangeUpdate *)

USE DEF Idx, NoRead

LEMMA NoReqType == \A pc \in ReqStates : NoReq(pc) \in Request
BY ShiftAssumption DEF NoReq, Request

LEMMA NoTickType == NoTick \in Tick
BY ShiftAssumption DEF NoTick, Tick, TickStates

LEMMA ShiftTypeInit == ShiftInit => ShiftTypeOK
<1> SUFFICES ASSUME ShiftInit PROVE ShiftTypeOK
  OBVIOUS
<1>1. PICK r \in Ranges :
        /\ rng = r
        /\ rows = [of |-> r, gen |-> 0]
        /\ has = Idx \ {GapOf[r]}
        /\ flat = {GapOf[r]}
        /\ open = {[at |-> <<r, i>>, by |-> "start"] : i \in Idx \ {GapOf[r]}}
        /\ pos = Need(r) - 1
  BY DEF ShiftInit
<1>2. GapOf[r] \in Idx /\ Top \in Nat
  BY ShiftAssumption
<1>3. open \subseteq Orders
  BY <1>1 DEF Orders, Levels2, Makers
<1>4. pos \in Nat
  BY <1>1, <1>2 DEF Need
<1>5. rq \in [Reqs -> Request] /\ tk \in Tick
  BY NoReqType, NoTickType DEF ShiftInit, ReqStates
<1>6. mutex \in BOOLEAN /\ live \in BOOLEAN /\ wants \in BOOLEAN /\ shifted \in BOOLEAN
  BY Zenon DEF ShiftInit
<1>10. marks \in Marks /\ recent \subseteq Nat \X Idx
  BY DEF ShiftInit, Marks
<1>7. mishaps \in 0..MaxShiftFaults
  BY ShiftAssumption DEF ShiftInit
<1>8. has \subseteq Idx /\ flat \subseteq Idx /\ rng \in Ranges
  BY <1>1, <1>2
<1>9. rows \in [of : Ranges, gen : Nat]
  BY <1>1
<1> QED BY <1>3, <1>4, <1>5, <1>6, <1>7, <1>8, <1>9, <1>10 DEF ShiftTypeOK

LEMMA FaultType ==
  ASSUME ShiftTypeOK, NEW kind, Fault(kind)
  PROVE  mishaps' \in 0..MaxShiftFaults
BY ShiftAssumption DEF ShiftTypeOK, Fault

\* A request whose program counter moves stays a request.
LEMMA GoType ==
  ASSUME ShiftTypeOK, NEW q \in Reqs, NEW pc \in ReqStates, Go(q, pc)
  PROVE  rq' \in [Reqs -> Request]
BY DEF ShiftTypeOK, Go, Request

LEMMA LeavesType ==
  ASSUME ShiftTypeOK, NEW q \in Reqs, NEW ok \in BOOLEAN, Leaves(q, ok)
  PROVE  rq' \in [Reqs -> Request] /\ mutex' \in BOOLEAN
BY NoReqType DEF ShiftTypeOK, Leaves, ReqStates

LEMMA NeedType == \A r \in Ranges : Need(r) \in Nat /\ GapOf[r] \in Idx
BY ShiftAssumption DEF Need

LEMMA DeficitType ==
  ASSUME ShiftTypeOK, NEW q \in Reqs
  PROVE  Deficit(q) \in Nat /\ rq[q].to \in Ranges /\ rq[q].seen \in Nat
<1>1. rq[q] \in Request
  BY DEF ShiftTypeOK
<1>2. rq[q].to \in Ranges /\ rq[q].seen \in Nat
  BY <1>1 DEF Request
<1> QED BY <1>2, NeedType DEF Deficit

LEMMA PlanSteps ==
  ASSUME ShiftTypeOK, NEW q \in Reqs,
         (\E r \in Ranges : Ask(q, r)) \/ ReadPosition(q) \/ Decide(q)
  PROVE  ShiftTypeOK'
<1> USE DEF storeOf
<1>1. ASSUME NEW r \in Ranges, Ask(q, r) PROVE ShiftTypeOK'
  <2>1. [NoReq("plan") EXCEPT !.to = r, !.base = rng] \in Request
    BY ShiftAssumption DEF NoReq, Request, ReqStates, ShiftTypeOK
  <2> QED BY <1>1, <2>1 DEF Ask, ShiftTypeOK
<1>2. CASE ReadPosition(q)
  <2>0. rq[q] \in Request /\ pos \in Nat /\ NoRead \in Nat
    BY ShiftAssumption DEF ShiftTypeOK
  <2>5. \A s \in Nat : [rq[q] EXCEPT !.pc = "decide", !.seen = s] \in Request
    BY <2>0 DEF Request, ReqStates
  <2>1. /\ [rq[q] EXCEPT !.pc = "decide", !.seen = pos] \in Request
        /\ [rq[q] EXCEPT !.pc = "decide", !.seen = NoRead] \in Request
    BY <2>0, <2>5
  <2>2. rq' \in [Reqs -> Request]
    BY <1>2, <2>1 DEF ReadPosition, ShiftTypeOK
  <2>3. mishaps' \in 0..MaxShiftFaults
    BY <1>2, FaultType DEF ReadPosition, ShiftTypeOK
  <2> QED BY <1>2, <2>2, <2>3 DEF ReadPosition, ShiftTypeOK
<1>3. CASE Decide(q)
  <2>1. Known \subseteq Orders
    BY DEF Known, ShiftTypeOK
  <2>2. \A pc \in ReqStates, s \in Nat, t \in SUBSET Orders, l \in SUBSET Idx :
          [rq[q] EXCEPT !.pc = pc, !.base = AutoTo, !.seen = s, !.todo = t, !.left = l] \in Request
    BY ShiftAssumption DEF Request, ShiftTypeOK
  <2>3. rq[q].seen \in Nat
    BY DeficitType
  <2>4. rq' \in [Reqs -> Request]
    <3>1. CASE Refused(q) \/ rq[q].to = rq[q].base \/ mutex
      BY <1>3, <3>1, NoReqType DEF Decide, ReqStates, ShiftTypeOK
    <3>2. CASE ~(Refused(q) \/ rq[q].to = rq[q].base \/ mutex)
      <4>1. PICK pc \in ReqStates, s \in Nat, t \in SUBSET Orders, l \in SUBSET Idx :
              rq' = [rq EXCEPT ![q].pc = pc, ![q].base = AutoTo, ![q].seen = s, ![q].todo = t, ![q].left = l]
        <5>1. rq' = [rq EXCEPT
                 ![q].pc = IF Deficit(q) > 0 THEN "buy" ELSE "cancel",
                 ![q].base = AutoTo,
                 ![q].seen = IF Deficit(q) > 0 THEN @ ELSE 0,
                 ![q].todo = IF Cardinality(has) <= SampleSize THEN Known ELSE {},
                 ![q].left = IF Cardinality(has) <= SampleSize THEN {} ELSE Idx]
          BY <1>3, <3>2 DEF Decide
        <5> QED BY <5>1, <2>1, <2>3, ZenonT(30) DEF ReqStates
      <4> QED BY <4>1, <2>2 DEF ShiftTypeOK
    <3> QED BY <3>1, <3>2
  <2>5. mutex' \in BOOLEAN
    BY <1>3 DEF Decide, ShiftTypeOK
  <2> QED BY <1>3, <2>4, <2>5 DEF Decide, ShiftTypeOK
<1> QED BY <1>1, <1>2, <1>3
\* The locals of a request, one at a time.
LEMMA ReqFields ==
  ASSUME ShiftTypeOK, NEW q \in Reqs
  PROVE  /\ rq[q] \in Request
         /\ \A pc \in ReqStates, s \in Nat, t \in SUBSET Orders, l \in SUBSET Idx :
              /\ [rq[q] EXCEPT !.pc = pc, !.seen = s] \in Request
              /\ [rq[q] EXCEPT !.pc = pc, !.todo = t, !.left = l] \in Request
              /\ [rq[q] EXCEPT !.pc = pc, !.left = l] \in Request
              /\ [rq[q] EXCEPT !.left = l] \in Request
<1>1. rq[q] \in Request
  BY DEF ShiftTypeOK
<1> QED BY <1>1 DEF Request

LEMMA ApplySteps ==
  ASSUME ShiftTypeOK, NEW q \in Reqs, Apply(q)
  PROVE  ShiftTypeOK'
<1> USE DEF storeOf
<1>1. CASE Buy(q)
  <2>1. PICK k \in 0..Deficit(q) :
          /\ pos' = pos + k
          /\ marks' = [marks EXCEPT !.stale = @ \/ (k > 0 /\ pos # rq[q].seen)]
    BY <1>1 DEF Buy
  <2>2. pos' \in Nat
    BY <2>1, DeficitType DEF ShiftTypeOK
  <2>3. marks' \in Marks
    BY <2>1, Zenon DEF ShiftTypeOK, Marks
  <2>4. rq' \in [Reqs -> Request] /\ mutex' \in BOOLEAN
    BY <1>1, GoType, LeavesType DEF Buy, ReqStates, ShiftTypeOK
  <2>5. mishaps' \in 0..MaxShiftFaults
    BY <1>1, FaultType DEF Buy, ShiftTypeOK
  <2> QED BY <1>1, <2>2, <2>3, <2>4, <2>5 DEF Buy, ShiftTypeOK
<1>2. CASE Verify(q)
  <2>1. PICK after \in {pos, rq[q].seen} :
          /\ IF after = pos THEN UNCHANGED mishaps ELSE Fault("read")
          /\ IF after >= Need(rq[q].to)
               THEN /\ rq' = [rq EXCEPT ![q].pc = "cancel", ![q].seen = 0]
                    /\ UNCHANGED mutex
               ELSE Leaves(q, FALSE)
    BY <1>2 DEF Verify
  <2>2. [rq[q] EXCEPT !.pc = "cancel", !.seen = 0] \in Request
    BY ReqFields DEF ReqStates
  <2>3. rq' \in [Reqs -> Request] /\ mutex' \in BOOLEAN
    BY <2>1, <2>2, LeavesType DEF ShiftTypeOK
  <2>4. mishaps' \in 0..MaxShiftFaults
    BY <2>1, FaultType DEF ShiftTypeOK
  <2> QED BY <1>2, <2>3, <2>4 DEF Verify, ShiftTypeOK
<1>3. CASE CancelOld(q)
  <2>1. open' \subseteq open
    BY <1>3 DEF CancelOld
  <2>2. [rq[q] EXCEPT !.pc = "replace", !.todo = {}, !.left = {}] \in Request
    BY ReqFields DEF ReqStates
  <2>3. rq' \in [Reqs -> Request]
    BY <1>3, <2>2 DEF CancelOld, ShiftTypeOK
  <2>4. mishaps' \in 0..MaxShiftFaults
    BY <1>3, FaultType DEF CancelOld, ShiftTypeOK
  <2> QED BY <1>3, <2>1, <2>3, <2>4 DEF CancelOld, ShiftTypeOK
<1>4. CASE Replace(q)
  <2>1. rq' \in [Reqs -> Request]
    BY <1>4, GoType DEF Replace, ReqStates
  <2>2. rows' \in [of : Ranges, gen : Nat]
    BY <1>4, DeficitType DEF Replace, ShiftTypeOK
  <2> QED BY <1>4, <2>1, <2>2 DEF Replace, ShiftTypeOK
<1>5. CASE WriteRange(q)
  <2>1. \A l \in SUBSET Idx : [rq[q] EXCEPT !.pc = "place", !.left = l] \in Request
    BY ReqFields DEF ReqStates
  <2>2. rq' \in [Reqs -> Request]
    BY <1>5, <2>1 DEF WriteRange, ShiftTypeOK
  <2> QED BY <1>5, <2>2, DeficitType DEF WriteRange, ShiftTypeOK
<1>6. CASE PlaceNew(q)
  <2>1. PICK i \in rq[q].left :
          /\ rq' = [rq EXCEPT ![q].left = @ \ {i}]
          /\ recent' = recent \cup {<<rows.gen, i>>}
          /\ has' \in {has, has \cup {i}}
          /\ open' \in {open, open \cup {[at |-> <<rq[q].to, i>>, by |-> q]}}
          /\ UNCHANGED mishaps \/ Fault("place")
    BY <1>6 DEF PlaceNew
  <2>2. rq[q].left \in SUBSET Idx /\ rows.gen \in Nat
    BY ReqFields DEF Request, ShiftTypeOK
  <2>3. [rq[q] EXCEPT !.left = rq[q].left \ {i}] \in Request
    BY <2>2, ReqFields DEF ReqStates
  <2>4. rq' \in [Reqs -> Request]
    BY <2>1, <2>3 DEF ShiftTypeOK
  <2>5. [at |-> <<rq[q].to, i>>, by |-> q] \in Orders
    BY <2>2, DeficitType DEF Orders, Levels2, Makers
  <2>6. recent' \subseteq Nat \X Idx /\ has' \subseteq Idx /\ open' \subseteq Orders
    BY <2>1, <2>2, <2>5 DEF ShiftTypeOK
  <2>7. mishaps' \in 0..MaxShiftFaults
    BY <2>1, FaultType DEF ShiftTypeOK
  <2> QED BY <1>6, <2>4, <2>6, <2>7 DEF PlaceNew, ShiftTypeOK
<1>7. CASE Return(q)
  BY <1>7, LeavesType DEF Return, ShiftTypeOK
<1> QED BY <1>1, <1>2, <1>3, <1>4, <1>5, <1>6, <1>7 DEF Apply

LEMMA TickSteps ==
  ASSUME ShiftTypeOK, TickBegins \/ TickOn
  PROVE  ShiftTypeOK'
<1> USE DEF storeOf
<1>0. tk \in Tick /\ rows.gen \in Nat /\ rows.of \in Ranges
  BY DEF ShiftTypeOK
<1>1. CASE TickBegins
  <2>1. [NoTick EXCEPT !.pc = "rows", !.snap = open] \in Tick
    BY NoTickType DEF Tick, TickStates, ShiftTypeOK
  <2>2. wants' \in BOOLEAN
    BY <1>1 DEF TickBegins, ShiftTypeOK
  <2> QED BY <1>1, <2>1, <2>2 DEF TickBegins, ShiftTypeOK
<1>2. CASE ReadRows
  <2>1. \A r \in Ranges, g \in Nat, t \in SUBSET Idx, k \in SUBSET Idx :
          [tk EXCEPT !.pc = "place", !.rows = r, !.gen = g, !.todo = t, !.keep = k] \in Tick
    BY <1>0 DEF Tick, TickStates
  <2> DEFINE covered == {i \in Idx : \E o \in tk.snap : o.at = <<rows.of, i>>}
             nearest == Closest(rows.of, Idx \ covered)
  <2>2. nearest \in SUBSET Idx /\ covered \in SUBSET Idx
    BY DEF Closest
  <2>3. /\ has' = (has \cup covered) \ nearest
        /\ flat' = (flat \ covered) \cup nearest
        /\ tk' = [tk EXCEPT !.pc = "place", !.rows = rows.of, !.gen = rows.gen,
                            !.todo = (Idx \ covered) \ nearest, !.keep = Idx \ flat]
    BY <1>2 DEF ReadRows
  <2> HIDE DEF covered, nearest
  <2>4. tk' \in Tick
    BY <1>0, <2>1, <2>2, <2>3
  <2> QED BY <1>2, <2>2, <2>3, <2>4 DEF ReadRows, ShiftTypeOK
<1>3. CASE RePlace
  <2>1. PICK i \in tk.todo :
          /\ tk' = [tk EXCEPT !.todo = @ \ {i}]
          /\ recent' \in {recent, recent \cup {<<tk.gen, i>>}}
          /\ has' \in {has, WriteRow(i, has)}
          /\ flat' \in {flat, flat \ {i}}
          /\ open' \in {open, open \cup {Fresh(<<tk.rows, i>>)}}
          /\ UNCHANGED mishaps \/ Fault("place")
    BY <1>3 DEF RePlace, Closest
  <2>2. tk.todo \in SUBSET Idx /\ tk.rows \in Ranges /\ tk.gen \in Nat
    BY <1>0 DEF Tick
  <2>3. Fresh(<<tk.rows, i>>) \in Orders
    BY <2>2 DEF Fresh, Orders, Levels2, Makers
  <2>4. [tk EXCEPT !.todo = tk.todo \ {i}] \in Tick
    BY <1>0, <2>2 DEF Tick
  <2>5. has' \subseteq Idx /\ flat' \subseteq Idx
    BY <2>1, <2>2 DEF WriteRow, ShiftTypeOK
  <2>6. recent' \subseteq Nat \X Idx /\ open' \subseteq Orders
    BY <2>1, <2>2, <2>3 DEF ShiftTypeOK
  <2>7. mishaps' \in 0..MaxShiftFaults
    BY <2>1, FaultType DEF ShiftTypeOK
  <2>8. tk' \in Tick
    BY <2>1, <2>4
  <2> QED BY <1>3, <2>5, <2>6, <2>7, <2>8 DEF RePlace, ShiftTypeOK
<1>4. CASE Kill
  <2>1. open' \subseteq open
    BY <1>4 DEF Kill
  <2>2. mishaps' \in 0..MaxShiftFaults
    BY <1>4, FaultType DEF Kill, ShiftTypeOK
  <2> QED BY <1>4, <2>1, <2>2, NoTickType DEF Kill, ShiftTypeOK
<1> QED BY <1>1, <1>2, <1>3, <1>4 DEF TickOn

LEMMA OtherSteps ==
  ASSUME ShiftTypeOK, AutoShift \/ Stamp \/ Forget \/ Pause \/ Dies
  PROVE  ShiftTypeOK'
<1> USE DEF storeOf
<1>1. CASE AutoShift
  <2>1. [NoReq("plan") EXCEPT !.base = rng] \in Request
    BY NoReqType DEF Request, ReqStates, ShiftTypeOK
  <2> QED BY <1>1, <2>1 DEF AutoShift, ShiftTypeOK
<1>2. CASE Stamp
  BY <1>2, GoType DEF Stamp, ReqStates, Reqs, ShiftTypeOK
<1>3. CASE Forget
  BY <1>3 DEF Forget, ShiftTypeOK
<1>4. CASE Pause
  <2>1. marks' \in Marks
    BY <1>4, Zenon DEF Pause, ShiftTypeOK, Marks
  <2> QED BY <1>4, <2>1, FaultType DEF Pause, ShiftTypeOK
<1>5. CASE Dies
  <2>1. rq' \in [Reqs -> Request]
    BY <1>5, NoReqType DEF Dies, ReqStates, ShiftTypeOK
  <2>2. marks' \in Marks
    BY <1>5, Zenon DEF Dies, ShiftTypeOK, Marks
  <2> QED BY <1>5, <2>1, <2>2, FaultType, NoTickType DEF Dies, ShiftTypeOK
<1> QED BY <1>1, <1>2, <1>3, <1>4, <1>5

LEMMA ShiftTypeStep == ShiftTypeOK /\ [ShiftNext]_shiftVars => ShiftTypeOK'
<1> SUFFICES ASSUME ShiftTypeOK, [ShiftNext]_shiftVars PROVE ShiftTypeOK'
  OBVIOUS
<1>1. CASE UNCHANGED shiftVars
  BY <1>1 DEF ShiftTypeOK, shiftVars, storeOf
<1> QED BY <1>1, PlanSteps, ApplySteps, TickSteps, OtherSteps DEF ShiftNext, Update, Reqs

\* Every reachable state is well typed.
THEOREM ShiftTypeCorrect == ShiftSpec => []ShiftTypeOK
<1> QED BY ShiftTypeInit, ShiftTypeStep, PTL DEF ShiftSpec
-----------------------------------------------------------------------------
(* The mutex has one holder, and only between its two writes do the range    *)
(* and the rows differ.                                                      *)

Holds(q) == rq[q].pc \in {"buy", "verify", "cancel", "replace", "range", "place"}

MutexInv ==
  /\ \A q \in Reqs : Holds(q) => mutex
  /\ \A p, q \in Reqs : Holds(p) /\ Holds(q) => p = q
  /\ \A q \in Reqs : rq[q].pc = "range" => rows.of = rq[q].to
  /\ marks.torn \/ rng = rows.of \/ \E q \in Reqs : rq[q].pc = "range"

RangeInv == ShiftTypeOK /\ MutexInv

LEMMA RangeInit == ShiftInit => MutexInv
BY DEF ShiftInit, MutexInv, Holds, NoReq

\* A step of one request that leaves the rows and the range alone.
LEMMA HolderMoves ==
  ASSUME RangeInv, NEW q \in Reqs,
         UNCHANGED <<rng, rows>>, marks'.torn = marks.torn,
         \A p \in Reqs : p # q => rq'[p] = rq[p],
         rq[q].pc # "range", rq'[q].pc # "range",
         Holds(q)' => (Holds(q) /\ mutex' = mutex) \/ (~mutex /\ mutex'),
         mutex' = mutex \/ (~mutex /\ mutex') \/ (Holds(q) /\ ~Holds(q)')
  PROVE  MutexInv'
<1> USE DEF RangeInv, MutexInv, Holds
<1>1. \A p \in Reqs : p # q => Holds(p)' = Holds(p)
  OBVIOUS
<1>2. \A p \in Reqs : Holds(p)' => mutex'
  BY <1>1
<1>3. \A p, r \in Reqs : Holds(p)' /\ Holds(r)' => p = r
  BY <1>1
<1>4. \A p \in Reqs : rq'[p].pc = "range" => rows'.of = rq'[p].to
  OBVIOUS
<1>5. marks'.torn \/ rng' = rows'.of \/ \E p \in Reqs : rq'[p].pc = "range"
  OBVIOUS
<1> QED BY <1>2, <1>3, <1>4, <1>5

LEMMA GoSteps ==
  ASSUME ShiftTypeOK, NEW q \in Reqs, NEW pc, Go(q, pc)
  PROVE  rq'[q].pc = pc /\ \A p \in Reqs : p # q => rq'[p] = rq[p]
<1>1. rq[q] \in Request
  BY DEF ShiftTypeOK
<1> QED BY <1>1 DEF ShiftTypeOK, Go, Request

LEMMA LeavesSteps ==
  ASSUME ShiftTypeOK, NEW q \in Reqs, NEW ok, Leaves(q, ok)
  PROVE  /\ rq'[q].pc \in {"stamp", "done"} /\ mutex' = FALSE
         /\ \A p \in Reqs : p # q => rq'[p] = rq[p]
BY DEF ShiftTypeOK, Leaves, NoReq

\* A decision takes the free mutex or ends the request.
LEMMA DecideMoves ==
  ASSUME ShiftTypeOK, NEW q \in Reqs, Decide(q)
  PROVE  /\ \/ rq'[q].pc = "done" /\ mutex' = mutex
            \/ rq'[q].pc \in {"buy", "cancel"} /\ ~mutex /\ mutex'
         /\ \A p \in Reqs : p # q => rq'[p] = rq[p]
<1>0. rq[q] \in Request
  BY DEF ShiftTypeOK
<1>1. CASE Refused(q) \/ rq[q].to = rq[q].base \/ mutex
  <2>1. rq' = [rq EXCEPT ![q] = NoReq("done")] /\ mutex' = mutex
    BY <1>1 DEF Decide
  <2> QED BY <1>0, <2>1 DEF NoReq, ShiftTypeOK
<1>2. CASE ~(Refused(q) \/ rq[q].to = rq[q].base \/ mutex)
  <2>1. ~mutex /\ mutex' = TRUE
    BY <1>2, Zenon DEF Decide
  <2>2. \E pc \in {"buy", "cancel"} : \E s, t, l :
          rq' = [rq EXCEPT ![q].pc = pc, ![q].base = AutoTo, ![q].seen = s,
                           ![q].todo = t, ![q].left = l]
    <3>1. rq' = [rq EXCEPT
             ![q].pc = IF Deficit(q) > 0 THEN "buy" ELSE "cancel",
             ![q].base = AutoTo,
             ![q].seen = IF Deficit(q) > 0 THEN @ ELSE 0,
             ![q].todo = IF Cardinality(has) <= SampleSize THEN Known ELSE {},
             ![q].left = IF Cardinality(has) <= SampleSize THEN {} ELSE Idx]
      BY <1>2 DEF Decide
    <3> QED BY <3>1, ZenonT(30)
  <2>3. PICK pc \in {"buy", "cancel"} : \E s, t, l :
          rq' = [rq EXCEPT ![q].pc = pc, ![q].base = AutoTo, ![q].seen = s,
                           ![q].todo = t, ![q].left = l]
    BY <2>2
  <2>4. rq'[q].pc = pc /\ \A p \in Reqs : p # q => rq'[p] = rq[p]
    BY <1>0, <2>3 DEF Request, ShiftTypeOK
  <2> QED BY <2>1, <2>3, <2>4
<1> QED BY <1>1, <1>2

LEMMA RequestSteps ==
  ASSUME RangeInv, NEW q \in Reqs,
         (\E r \in Ranges : Ask(q, r)) \/ Update(q)
  PROVE  MutexInv'
<1> USE DEF storeOf
<1>0. ShiftTypeOK /\ rq[q] \in Request /\ marks \in Marks
  BY DEF RangeInv, ShiftTypeOK
<1>1. ASSUME NEW r \in Ranges, Ask(q, r) PROVE MutexInv'
  <2>1. rq'[q].pc = "plan" /\ \A p \in Reqs : p # q => rq'[p] = rq[p]
    BY <1>0, <1>1 DEF Ask, NoReq, ShiftTypeOK
  <2> QED BY <1>1, <2>1, HolderMoves DEF Ask, Holds
<1>2. CASE ReadPosition(q)
  <2>1. rq'[q].pc = "decide" /\ \A p \in Reqs : p # q => rq'[p] = rq[p]
    BY <1>0, <1>2 DEF ReadPosition, Request, ShiftTypeOK
  <2> QED BY <1>2, <2>1, HolderMoves DEF ReadPosition, Holds
<1>3. CASE Decide(q)
  <2>1. /\ \/ rq'[q].pc = "done" /\ mutex' = mutex
           \/ rq'[q].pc \in {"buy", "cancel"} /\ ~mutex /\ mutex'
        /\ \A p \in Reqs : p # q => rq'[p] = rq[p]
    BY <1>0, <1>3, DecideMoves
  <2>2. rq[q].pc = "decide" /\ UNCHANGED <<rng, rows, marks>>
    BY <1>3 DEF Decide
  <2> QED BY <2>1, <2>2, HolderMoves DEF Holds
<1>4. CASE Buy(q)
  <2>1. \/ rq'[q].pc = "verify" /\ mutex' = mutex
        \/ rq'[q].pc \in {"stamp", "done"} /\ mutex' = FALSE
    BY <1>0, <1>4, GoSteps, LeavesSteps DEF Buy
  <2>2. \A p \in Reqs : p # q => rq'[p] = rq[p]
    BY <1>0, <1>4, GoSteps, LeavesSteps DEF Buy
  <2>3. marks'.torn = marks.torn
    BY <1>0, <1>4 DEF Buy, Marks
  <2>4. rq[q].pc = "buy" /\ UNCHANGED <<rng, rows>>
    BY <1>4 DEF Buy
  <2> QED BY <2>1, <2>2, <2>3, <2>4, HolderMoves DEF Holds
<1>5. CASE Verify(q)
  <2>1. /\ \/ rq'[q].pc = "cancel" /\ mutex' = mutex
           \/ rq'[q].pc \in {"stamp", "done"} /\ mutex' = FALSE
        /\ \A p \in Reqs : p # q => rq'[p] = rq[p]
    <3>1. CASE Leaves(q, FALSE)
      BY <1>0, <3>1, LeavesSteps
    <3>2. CASE rq' = [rq EXCEPT ![q].pc = "cancel", ![q].seen = 0] /\ UNCHANGED mutex
      BY <1>0, <3>2 DEF Request, ShiftTypeOK
    <3> QED BY <1>5, <3>1, <3>2 DEF Verify
  <2> QED BY <1>5, <2>1, HolderMoves DEF Verify, Holds
<1>6. CASE CancelOld(q)
  <2>1. rq'[q].pc = "replace" /\ \A p \in Reqs : p # q => rq'[p] = rq[p]
    BY <1>0, <1>6 DEF CancelOld, Request, ShiftTypeOK
  <2> QED BY <1>6, <2>1, HolderMoves DEF CancelOld, Holds
<1>7. CASE Replace(q)
  <2>1. /\ rq'[q] = [rq[q] EXCEPT !.pc = "range"]
        /\ \A p \in Reqs : p # q => rq'[p] = rq[p]
    BY <1>0, <1>7 DEF Replace, Go, ShiftTypeOK
  <2>2. rq'[q].pc = "range" /\ rq'[q].to = rq[q].to
    BY <1>0, <2>1 DEF Request
  <2>3. rows'.of = rq[q].to /\ rq[q].pc = "replace" /\ mutex' = mutex
    BY <1>7 DEF Replace
  <2>4. \A p \in Reqs : Holds(p)' <=> Holds(p)
    BY <2>1, <2>2, <2>3 DEF Holds
  <2>5. \A p \in Reqs : p # q => rq[p].pc # "range"
    BY <2>3 DEF RangeInv, MutexInv, Holds
  <2> QED BY <2>1, <2>2, <2>3, <2>4, <2>5 DEF RangeInv, MutexInv
<1>8. CASE WriteRange(q)
  <2>1. rq'[q].pc = "place" /\ \A p \in Reqs : p # q => rq'[p] = rq[p]
    BY <1>0, <1>8 DEF WriteRange, Request, ShiftTypeOK
  <2>2. rng' = rows'.of /\ rq[q].pc = "range" /\ mutex' = mutex
    BY <1>8 DEF WriteRange, RangeInv, MutexInv
  <2>3. \A p \in Reqs : Holds(p)' <=> Holds(p)
    BY <2>1, <2>2 DEF Holds
  <2>4. \A p \in Reqs : rq'[p].pc # "range"
    BY <2>1, <2>2 DEF RangeInv, MutexInv, Holds
  <2> QED BY <2>2, <2>3, <2>4 DEF RangeInv, MutexInv
<1>9. CASE PlaceNew(q)
  <2>1. PICK i \in rq[q].left : rq' = [rq EXCEPT ![q].left = @ \ {i}]
    BY <1>9 DEF PlaceNew
  <2>2. rq'[q].pc = rq[q].pc /\ \A p \in Reqs : p # q => rq'[p] = rq[p]
    BY <1>0, <2>1 DEF Request, ShiftTypeOK
  <2> QED BY <1>9, <2>2, HolderMoves DEF PlaceNew, Holds
<1>10. CASE Return(q)
  <2>1. /\ rq'[q].pc \in {"stamp", "done"} /\ mutex' = FALSE
        /\ \A p \in Reqs : p # q => rq'[p] = rq[p]
    BY <1>0, <1>10, LeavesSteps DEF Return
  <2> QED BY <1>10, <2>1, HolderMoves DEF Return, Holds
<1> QED BY <1>1, <1>2, <1>3, <1>4, <1>5, <1>6, <1>7, <1>8, <1>9, <1>10 DEF Update, Apply

\* The tick, the expiry and the pause touch neither the mutex nor the range.
LEMMA Bystanders ==
  ASSUME RangeInv, UNCHANGED <<rng, rows, mutex, rq>>, marks'.torn = marks.torn
  PROVE  MutexInv'
BY DEF RangeInv, MutexInv, Holds

LEMMA RangeStep == RangeInv /\ [ShiftNext]_shiftVars => RangeInv'
<1> SUFFICES ASSUME RangeInv, [ShiftNext]_shiftVars PROVE MutexInv'
  BY ShiftTypeStep DEF RangeInv
<1> USE DEF storeOf
<1>0. ShiftTypeOK /\ marks \in Marks
  BY DEF RangeInv, ShiftTypeOK
<1>1. CASE UNCHANGED shiftVars
  BY <1>1, Bystanders DEF shiftVars
<1>2. ASSUME NEW q \in Reqs, (\E r \in Ranges : Ask(q, r)) \/ Update(q) PROVE MutexInv'
  BY <1>2, RequestSteps
<1>3. CASE AutoShift
  <2>1. Engine \in Reqs /\ rq[Engine].pc \in {"idle", "done"}
    BY <1>3 DEF Reqs, AutoShift
  <2>2. /\ rq'[Engine].pc \in {"idle", "done", "plan"}
        /\ \A p \in Reqs : p # Engine => rq'[p] = rq[p]
    BY <1>0, <1>3, <2>1 DEF AutoShift, NoReq, ShiftTypeOK
  <2> QED BY <1>3, <2>1, <2>2, HolderMoves DEF AutoShift, Holds
<1>4. CASE Stamp
  <2>1. rq'[Engine].pc = "done" /\ \A p \in Reqs : p # Engine => rq'[p] = rq[p]
    BY <1>0, <1>4, GoSteps DEF Stamp, Reqs
  <2> QED BY <1>4, <2>1, HolderMoves DEF Stamp, Holds, Reqs
<1>5. CASE TickBegins
  BY <1>5, Bystanders DEF TickBegins
<1>6. CASE TickOn
  BY <1>6, Bystanders DEF TickOn, ReadRows, RePlace, Kill
<1>7. CASE Forget
  BY <1>7, Bystanders DEF Forget
<1>8. CASE Pause
  <2>1. marks'.torn = marks.torn
    BY <1>0, <1>8 DEF Pause, Marks
  <2> QED BY <1>8, <2>1, Bystanders DEF Pause
<1>9. CASE Dies
  <2>1. \A q \in Reqs : rq'[q].pc \in {"idle", "done"}
    BY <1>0, <1>9 DEF Dies, NoReq, ShiftTypeOK
  <2>2. marks'.torn \/ rng' = rows'.of
    BY <1>0, <1>9, Zenon DEF Dies, Marks
  <2> QED BY <2>1, <2>2 DEF MutexInv, Holds
<1> QED BY <1>1, <1>2, <1>3, <1>4, <1>5, <1>6, <1>7, <1>8, <1>9 DEF ShiftNext, Reqs

\* The mutex does its work: with no update on its way the levels of a bot are
\* those of its range, unless the process died between the two writes.
THEOREM RangeAndRows == ShiftSpec => []RangeMatchesRows
<1>1. RangeInv => RangeMatchesRows
  BY DEF RangeInv, MutexInv, RangeMatchesRows, Holds
<1> QED BY <1>1, ShiftTypeInit, RangeInit, RangeStep, PTL DEF ShiftSpec, RangeInv
-----------------------------------------------------------------------------
(* A paused bot                                                              *)

\* Once nothing crossed the pause: no order, no tick, and of an update that begins
\* later the instance is not found, so that it has no level to place.
QuietOnceOff ==
  ~live /\ ~marks.crossed =>
    /\ open = {}
    /\ tk.pc = "idle"
    /\ \A q \in Reqs : rq[q].pc = "place" => rq[q].left = {}

LEMMA QuietInit == ShiftInit => QuietOnceOff
BY DEF ShiftInit, QuietOnceOff

\* A step of a request that adds no order, and enters "place" with nothing to place.
LEMMA QuietRequest ==
  ASSUME QuietOnceOff, NEW q \in Reqs,
         live' = live, tk' = tk, marks'.crossed = marks.crossed,
         ~live /\ ~marks.crossed => open' \subseteq open,
         \A p \in Reqs : p # q => rq'[p] = rq[p],
         ~live => (rq'[q].pc = "place" => rq'[q].left \subseteq {})
  PROVE  QuietOnceOff'
<1> SUFFICES ASSUME ~live', ~marks'.crossed
             PROVE  /\ open' = {}
                    /\ tk'.pc = "idle"
                    /\ \A p \in Reqs : rq'[p].pc = "place" => rq'[p].left = {}
  BY DEF QuietOnceOff
<1>1. ~live /\ ~marks.crossed
  OBVIOUS
<1>2. open' = {} /\ tk'.pc = "idle"
  BY <1>1 DEF QuietOnceOff
<1>3. \A p \in Reqs : rq'[p].pc = "place" => rq'[p].left = {}
  BY <1>1 DEF QuietOnceOff
<1> QED BY <1>2, <1>3

LEMMA QuietUpdates ==
  ASSUME ShiftTypeOK, QuietOnceOff, NEW q \in Reqs,
         (\E r \in Ranges : Ask(q, r)) \/ Update(q)
  PROVE  QuietOnceOff'
<1> USE DEF storeOf
<1>0. rq[q] \in Request /\ marks \in Marks
  BY DEF ShiftTypeOK
<1>1. ASSUME NEW r \in Ranges, Ask(q, r) PROVE QuietOnceOff'
  <2>1. rq'[q].pc = "plan" /\ \A p \in Reqs : p # q => rq'[p] = rq[p]
    BY <1>1 DEF Ask, NoReq, ShiftTypeOK
  <2> QED BY <1>1, <2>1, QuietRequest DEF Ask
<1>2. CASE ReadPosition(q)
  <2>1. rq'[q].pc = "decide" /\ \A p \in Reqs : p # q => rq'[p] = rq[p]
    BY <1>0, <1>2 DEF ReadPosition, Request, ShiftTypeOK
  <2> QED BY <1>2, <2>1, QuietRequest DEF ReadPosition
<1>3. CASE Decide(q)
  <2>1. rq'[q].pc # "place" /\ \A p \in Reqs : p # q => rq'[p] = rq[p]
    BY <1>0, <1>3, DecideMoves
  <2> QED BY <1>3, <2>1, QuietRequest DEF Decide
<1>4. CASE Buy(q)
  <2>1. rq'[q].pc # "place" /\ \A p \in Reqs : p # q => rq'[p] = rq[p]
    <3>1. CASE Go(q, "verify")
      BY <3>1, GoSteps
    <3>2. CASE Leaves(q, FALSE)
      BY <3>2, LeavesSteps
    <3> QED BY <1>4, <3>1, <3>2 DEF Buy
  <2>2. marks'.crossed = marks.crossed
    BY <1>0, <1>4 DEF Buy, Marks
  <2>3. UNCHANGED <<live, tk, open>>
    BY <1>4 DEF Buy
  <2> QED BY <2>1, <2>2, <2>3, QuietRequest
<1>5. CASE Verify(q)
  <2>1. rq'[q].pc # "place" /\ \A p \in Reqs : p # q => rq'[p] = rq[p]
    <3>1. CASE Leaves(q, FALSE)
      BY <3>1, LeavesSteps
    <3>2. CASE rq' = [rq EXCEPT ![q].pc = "cancel", ![q].seen = 0]
      BY <1>0, <3>2 DEF Request, ShiftTypeOK
    <3>3. Leaves(q, FALSE) \/ rq' = [rq EXCEPT ![q].pc = "cancel", ![q].seen = 0]
      BY <1>5, Zenon DEF Verify
    <3> QED BY <3>1, <3>2, <3>3
  <2> QED BY <1>5, <2>1, QuietRequest DEF Verify
<1>6. CASE CancelOld(q)
  <2>1. rq'[q].pc = "replace" /\ \A p \in Reqs : p # q => rq'[p] = rq[p]
    BY <1>0, <1>6 DEF CancelOld, Request, ShiftTypeOK
  <2>2. open' \subseteq open
    BY <1>6 DEF CancelOld
  <2> QED BY <1>6, <2>1, <2>2, QuietRequest DEF CancelOld
<1>7. CASE Replace(q)
  <2>1. rq'[q].pc = "range" /\ \A p \in Reqs : p # q => rq'[p] = rq[p]
    BY <1>7, GoSteps DEF Replace
  <2> QED BY <1>7, <2>1, QuietRequest DEF Replace
<1>8. CASE WriteRange(q)
  <2>1. \A p \in Reqs : p # q => rq'[p] = rq[p]
    BY <1>8 DEF WriteRange, ShiftTypeOK
  <2>2. rq'[q].left = IF live THEN Idx \ {GapOf[rq[q].to]} ELSE {}
    BY <1>0, <1>8 DEF WriteRange, ShiftTypeOK, Request
  <2>3. UNCHANGED <<open, live, tk, marks>>
    BY <1>8 DEF WriteRange
  <2> QED BY <2>1, <2>2, <2>3, QuietRequest
<1>9. CASE PlaceNew(q)
  <2>1. PICK i \in rq[q].left : rq' = [rq EXCEPT ![q].left = @ \ {i}]
    BY <1>9 DEF PlaceNew
  <2>2. \A p \in Reqs : p # q => rq'[p] = rq[p]
    BY <1>0, <2>1 DEF Request, ShiftTypeOK
  <2>3. live \/ marks.crossed
    BY <1>9, <2>1 DEF PlaceNew, QuietOnceOff
  <2>4. live' = live /\ marks' = marks
    BY <1>9 DEF PlaceNew
  <2> QED BY <2>3, <2>4 DEF QuietOnceOff
<1>10. CASE Return(q)
  <2>1. /\ rq'[q].pc # "place"
        /\ \A p \in Reqs : p # q => rq'[p] = rq[p]
    BY <1>10, LeavesSteps DEF Return
  <2> QED BY <1>10, <2>1, QuietRequest DEF Return
<1> QED BY <1>1, <1>2, <1>3, <1>4, <1>5, <1>6, <1>7, <1>8, <1>9, <1>10 DEF Update, Apply

LEMMA QuietStep ==
  RangeInv /\ QuietOnceOff /\ [ShiftNext]_shiftVars => QuietOnceOff'
<1> SUFFICES ASSUME RangeInv, QuietOnceOff, [ShiftNext]_shiftVars PROVE QuietOnceOff'
  OBVIOUS
<1> USE DEF storeOf
<1>0. ShiftTypeOK /\ marks \in Marks
  BY DEF RangeInv, ShiftTypeOK
<1>1. ASSUME UNCHANGED <<open, live, rq, tk, marks>> PROVE QuietOnceOff'
  BY <1>1 DEF QuietOnceOff
<1>2. ASSUME NEW q \in Reqs, (\E r \in Ranges : Ask(q, r)) \/ Update(q) PROVE QuietOnceOff'
  BY <1>0, <1>2, QuietUpdates
<1>3. CASE AutoShift
  BY <1>3 DEF AutoShift, QuietOnceOff
<1>4. CASE Stamp
  <2>1. rq'[Engine].pc = "done" /\ \A p \in Reqs : p # Engine => rq'[p] = rq[p]
    BY <1>0, <1>4, GoSteps DEF Stamp, Reqs
  <2> QED BY <1>4, <2>1, QuietRequest DEF Stamp, Reqs
<1>5. CASE TickBegins
  BY <1>5 DEF TickBegins, QuietOnceOff
<1>6. CASE TickOn
  <2>1. tk.pc # "idle" /\ UNCHANGED <<live, marks>>
    BY <1>6 DEF TickOn, ReadRows, RePlace, Kill
  <2> QED BY <2>1 DEF QuietOnceOff
<1>7. CASE Forget
  BY <1>1, <1>7 DEF Forget
<1>8. CASE Pause
  <2>1. open' = {} /\ tk' = tk /\ rq' = rq
    BY <1>8 DEF Pause
  <2>2. marks'.crossed = (marks.crossed \/ mutex \/ tk.pc # "idle")
    BY <1>0, <1>8, Zenon DEF Pause, Marks
  <2>3. ~mutex => \A q \in Reqs : rq[q].pc # "place"
    BY DEF RangeInv, MutexInv, Holds
  <2> QED BY <2>1, <2>2, <2>3 DEF QuietOnceOff
<1>9. CASE Dies
  <2>1. \A q \in Reqs : rq'[q].pc \in {"idle", "done"}
    BY <1>0, <1>9 DEF Dies, NoReq, ShiftTypeOK
  <2>2. marks'.crossed = marks.crossed /\ tk'.pc = "idle" /\ UNCHANGED <<open, live>>
    BY <1>0, <1>9 DEF Dies, Marks, NoTick
  <2> QED BY <2>1, <2>2 DEF QuietOnceOff
<1>10. CASE UNCHANGED shiftVars
  BY <1>1, <1>10 DEF shiftVars
<1> QED BY <1>2, <1>3, <1>4, <1>5, <1>6, <1>7, <1>8, <1>9, <1>10 DEF ShiftNext, Reqs

\* A pause that meets neither an update nor a tick leaves the bot without orders, and
\* no update that begins after it gives it any (pauseBot, applyRangeUpdatePlan).
THEOREM PausedStaysQuiet == ShiftSpec => []PausedIsQuiet
<1>1. QuietOnceOff => PausedIsQuiet
  BY DEF QuietOnceOff, PausedIsQuiet
<1> QED
  BY <1>1, ShiftTypeInit, RangeInit, RangeStep, QuietInit, QuietStep, PTL DEF ShiftSpec, RangeInv
-----------------------------------------------------------------------------
(* The purchase                                                              *)

LEMMA OverbuyInit == ShiftInit => NoOverbuy
<1> SUFFICES ASSUME ShiftInit PROVE NoOverbuy
  OBVIOUS
<1>1. PICK r \in Ranges : pos = Need(r) - 1
  BY DEF ShiftInit
<1> QED BY <1>1, NeedType DEF NoOverbuy

LEMMA OverbuyBuys ==
  ASSUME ShiftTypeOK, NoOverbuy, NEW q \in Reqs, Buy(q)
  PROVE  NoOverbuy'
<1>1. PICK k \in 0..Deficit(q) :
        /\ pos' = pos + k
        /\ marks' = [marks EXCEPT !.stale = @ \/ (k > 0 /\ pos # rq[q].seen)]
  BY DEF Buy
<1>2. marks'.stale = (marks.stale \/ (k > 0 /\ pos # rq[q].seen))
  BY <1>1, Zenon DEF ShiftTypeOK, Marks
<1>3. pos \in Nat /\ Deficit(q) \in Nat /\ rq[q].to \in Ranges /\ Need(rq[q].to) \in Nat
  BY DeficitType, NeedType DEF ShiftTypeOK
<1>4. CASE k = 0
  <2>1. pos' = pos
    BY <1>1, <1>3, <1>4
  <2>2. marks.stale => marks'.stale
    BY <1>2, Zenon
  <2> QED BY <2>1, <2>2 DEF NoOverbuy, Need
<1>5. CASE k > 0 /\ pos = rq[q].seen
  <2>1. Deficit(q) = Need(rq[q].to) - pos
    BY <1>3, <1>5 DEF Deficit
  <2>2. pos' <= Need(rq[q].to)
    BY <1>1, <1>3, <2>1
  <2> QED BY <1>3, <2>2 DEF NoOverbuy, Need
<1>6. CASE k > 0 /\ pos # rq[q].seen
  BY <1>2, <1>6 DEF NoOverbuy
<1> QED BY <1>3, <1>4, <1>5, <1>6

LEMMA OverbuyStep ==
  ShiftTypeOK /\ NoOverbuy /\ [ShiftNext]_shiftVars => NoOverbuy'
<1> SUFFICES ASSUME ShiftTypeOK, NoOverbuy, [ShiftNext]_shiftVars PROVE NoOverbuy'
  OBVIOUS
<1>0. marks \in Marks
  BY DEF ShiftTypeOK
<1>1. ASSUME pos' = pos, marks'.stale = marks.stale PROVE NoOverbuy'
  BY <1>1 DEF NoOverbuy, Need
<1>2. ASSUME NEW q \in Reqs, Update(q), ~Buy(q) PROVE NoOverbuy'
  <2>1. pos' = pos /\ marks' = marks
    BY <1>2, Zenon DEF Update, ReadPosition, Decide, Apply, Verify, CancelOld, Replace,
       WriteRange, PlaceNew, Return, storeOf
  <2> QED BY <1>1, <2>1
<1>3. ASSUME NEW q \in Users, NEW r \in Ranges, Ask(q, r) PROVE NoOverbuy'
  BY <1>1, <1>3 DEF Ask
<1>4. CASE AutoShift \/ Stamp \/ TickBegins \/ TickOn \/ Forget
  BY <1>1, <1>4 DEF AutoShift, Stamp, TickBegins, TickOn, ReadRows, RePlace, Kill, Forget
<1>5. CASE Pause \/ Dies
  <2>1. marks'.stale = marks.stale /\ pos' = pos
    BY <1>0, <1>5 DEF Pause, Dies, Marks
  <2> QED BY <1>1, <2>1
<1>6. CASE UNCHANGED shiftVars
  BY <1>1, <1>6 DEF shiftVars
<1> QED BY <1>2, <1>3, <1>4, <1>5, <1>6, OverbuyBuys DEF ShiftNext

\* Whatever an IOC order fills and whichever answer is lost, the updates never buy more
\* than the greediest range needs, unless one bought on a position read before another
\* bought (applyRangeUpdatePlan).
THEOREM BuysWhatIsNeeded == ShiftSpec => []NoOverbuy
<1> QED BY ShiftTypeInit, ShiftTypeStep, OverbuyInit, OverbuyStep, PTL DEF ShiftSpec

-----------------------------------------------------------------------------
(* The orders at a level                                                     *)

\* The level's row knows an order, as far as it goes.
InRow(l) == l[1] = rows.of /\ l[2] \in has

\* The tick has seen no order at the level and may still place one.
Bare(l) ==
  \/ tk.pc = "rows" /\ \A o \in tk.snap : o.at # l
  \/ tk.pc = "place" /\ l[1] = tk.rows /\ l[2] \in tk.todo

\* Room for k orders and one for every fault, the tick's own counted in.
Fits(l, S, k) ==
  /\ Cardinality(At(l) \ S) <= k + mishaps
  /\ Bare(l) => Cardinality(At(l) \ S) < k + mishaps

\* An update that has the mutex is going to place an order at the level, but first
\* cancels some of those there.
Expects(q, l) ==
  \/ rq[q].pc \in {"buy", "verify", "cancel", "replace", "range"}
  \/ rq[q].pc = "place" /\ l[1] = rq[q].to /\ l[2] \in rq[q].left

Cancels(q) ==
  IF rq[q].pc \notin {"buy", "verify", "cancel"} THEN {}
  ELSE IF rq[q].left = {} THEN rq[q].todo ELSE Known

CrowdAt(l) ==
  /\ Fits(l, {}, 2)
  /\ ~InRow(l) => Fits(l, {}, 1)
  /\ \A q \in Reqs : Expects(q, l) => Fits(l, Cancels(q), 1)

PlacesThere == \A q \in Reqs : rq[q].pc = "place" => rows.of = rq[q].to

CrowdInv ==
  /\ IsFiniteSet(open)
  /\ PlacesThere
  /\ \A l \in Levels2 : CrowdAt(l)

LEMMA CountsLess ==
  ASSUME NEW A, NEW B, IsFiniteSet(A), B \subseteq A
  PROVE  IsFiniteSet(B) /\ Cardinality(B) \in Nat /\ Cardinality(A) \in Nat
         /\ Cardinality(B) <= Cardinality(A)
BY FS_Subset, FS_CardinalityType

LEMMA CountsOneMore ==
  ASSUME NEW A, NEW B, NEW x, IsFiniteSet(A), B \subseteq A \cup {x}
  PROVE  IsFiniteSet(B) /\ Cardinality(B) \in Nat /\ Cardinality(A) \in Nat
         /\ Cardinality(B) <= Cardinality(A) + 1
<1>1. IsFiniteSet(A \cup {x}) /\ Cardinality(A \cup {x}) <= Cardinality(A) + 1
      /\ Cardinality(A \cup {x}) \in Nat /\ Cardinality(A) \in Nat
  BY FS_AddElement, FS_CardinalityType
<1>2. IsFiniteSet(B) /\ Cardinality(B) \in Nat /\ Cardinality(B) <= Cardinality(A \cup {x})
  BY <1>1, CountsLess
<1> QED BY <1>1, <1>2

\* Fewer orders, no more faults forgiven: what fitted fits.
LEMMA StillFits ==
  ASSUME IsFiniteSet(open), mishaps \in Nat, mishaps' \in Nat, mishaps' >= mishaps,
         NEW l, NEW S, NEW T, NEW k \in Nat, Fits(l, S, k),
         At(l)' \ T \subseteq At(l) \ S, Bare(l)' => Bare(l)
  PROVE  /\ Cardinality(At(l)' \ T) <= k + mishaps'
         /\ Bare(l)' => Cardinality(At(l)' \ T) < k + mishaps'
<1>1. IsFiniteSet(At(l) \ S)
  BY FS_Subset DEF At
<1>2. /\ Cardinality(At(l)' \ T) \in Nat /\ Cardinality(At(l) \ S) \in Nat
      /\ Cardinality(At(l)' \ T) <= Cardinality(At(l) \ S)
  BY <1>1, CountsLess
<1> QED BY <1>2 DEF Fits

LEMMA CrowdInitial == ShiftInit => CrowdInv
<1> SUFFICES ASSUME ShiftInit PROVE CrowdInv
  OBVIOUS
<1>1. PICK r \in Ranges :
        /\ rows = [of |-> r, gen |-> 0]
        /\ has = Idx \ {GapOf[r]}
        /\ open = {[at |-> <<r, i>>, by |-> "start"] : i \in Idx \ {GapOf[r]}}
  BY DEF ShiftInit
<1>2. IsFiniteSet(Idx \ {GapOf[r]})
  <2>1. 0 \in Int /\ Top \in Int
    BY ShiftAssumption
  <2>2. IsFiniteSet(0..Top)
    BY <2>1, FS_Interval
  <2> QED BY <2>2, FS_Subset
<1>3. IsFiniteSet(open)
  <2> DEFINE f == [i \in Idx \ {GapOf[r]} |-> [at |-> <<r, i>>, by |-> "start"]]
  <2>1. open = {f[i] : i \in Idx \ {GapOf[r]}}
    BY <1>1
  <2>2. f \in [Idx \ {GapOf[r]} -> open]
    BY <2>1
  <2>3. f \in Surjection(Idx \ {GapOf[r]}, open)
    BY <2>1, <2>2 DEF Surjection
  <2> HIDE DEF f
  <2> QED BY <1>2, <2>3, FS_Surjection
<1>4. mishaps = 0 /\ tk.pc = "idle" /\ \A q \in Reqs : rq[q].pc = "idle"
  BY DEF ShiftInit, NoTick, NoReq
<1>5. ASSUME NEW l \in Levels2 PROVE CrowdAt(l)
  <2>1. ~Bare(l) /\ \A q \in Reqs : ~Expects(q, l)
    BY <1>4 DEF Bare, Expects
  <2>2. At(l) \subseteq {[at |-> l, by |-> "start"]}
    BY <1>1 DEF At
  <2>3. Cardinality(At(l)) <= 1 /\ Cardinality(At(l)) \in Nat
    <3>1. IsFiniteSet({[at |-> l, by |-> "start"]}) /\ Cardinality({[at |-> l, by |-> "start"]}) = 1
      BY FS_Singleton
    <3> QED BY <2>2, <3>1, CountsLess
  <2>4. ~InRow(l) => At(l) = {}
    BY <1>1 DEF At, InRow
  <2>5. At(l) \ {} = At(l)
    OBVIOUS
  <2> QED BY <1>4, <2>1, <2>3, <2>5 DEF CrowdAt, Fits
<1> QED BY <1>3, <1>4, <1>5 DEF CrowdInv, PlacesThere

\* A step that places nothing, leaves the rows alone and gives no update a right it had
\* not.
LEMMA CrowdCalm ==
  ASSUME ShiftTypeOK, CrowdInv, mishaps' \in Nat, mishaps' >= mishaps,
         open' \subseteq open, UNCHANGED <<rows, has>>,
         \A l \in Levels2 : Bare(l)' => Bare(l),
         PlacesThere',
         \A q \in Reqs, l \in Levels2 : Expects(q, l)' =>
           Expects(q, l) /\ At(l)' \ Cancels(q)' \subseteq At(l) \ Cancels(q)
  PROVE  CrowdInv'
<1>1. IsFiniteSet(open)'
  BY FS_Subset DEF CrowdInv
<1>2. ASSUME NEW l \in Levels2 PROVE CrowdAt(l)'
  <2>0. mishaps \in Nat /\ IsFiniteSet(open) /\ CrowdAt(l) /\ At(l)' \subseteq At(l)
    BY DEF ShiftTypeOK, CrowdInv, At
  <2>1. Fits(l, {}, 2)'
    BY <2>0, StillFits DEF CrowdAt, Fits
  <2>2. ~InRow(l)' => Fits(l, {}, 1)'
    BY <2>0, StillFits DEF CrowdAt, Fits, InRow
  <2>3. ASSUME NEW q \in Reqs, Expects(q, l)' PROVE Fits(l, Cancels(q), 1)'
    <3>1. Fits(l, Cancels(q), 1) /\ At(l)' \ Cancels(q)' \subseteq At(l) \ Cancels(q)
      BY <2>0, <2>3 DEF CrowdAt
    <3> QED BY <2>0, <3>1, StillFits DEF Fits
  <2> QED BY <2>1, <2>2, <2>3 DEF CrowdAt
<1> QED BY <1>1, <1>2 DEF CrowdInv

\* A step of request q that places nothing: q keeps its rights or gives them up.
LEMMA CrowdRequest ==
  ASSUME RangeInv, CrowdInv, NEW q \in Reqs,
         mishaps' \in Nat, mishaps' >= mishaps,
         UNCHANGED <<open, rows, has, tk>>,
         \A p \in Reqs : p # q => rq'[p] = rq[p],
         rq'[q].pc = "place" => rows.of = rq'[q].to,
         \A l \in Levels2 : Expects(q, l)' => Expects(q, l) /\ Cancels(q)' = Cancels(q)
  PROVE  CrowdInv'
<1>1. \A l \in Levels2 : Bare(l)' => Bare(l)
  BY DEF Bare
<1>2. PlacesThere'
  BY DEF PlacesThere, CrowdInv
<1>4. ASSUME NEW p \in Reqs, NEW l \in Levels2, Expects(p, l)'
      PROVE  Expects(p, l) /\ At(l)' \ Cancels(p)' \subseteq At(l) \ Cancels(p)
  <2>1. At(l)' = At(l)
    BY DEF At
  <2>2. CASE p = q
    BY <1>4, <2>1, <2>2
  <2>3. CASE p # q
    <3>1. Expects(p, l) /\ Cancels(p)' = Cancels(p)
      BY <1>4, <2>3 DEF Expects, Cancels, Known
    <3> QED BY <2>1, <3>1
  <2> QED BY <2>2, <2>3
<1> QED BY <1>1, <1>2, <1>4, CrowdCalm DEF RangeInv

LEMMA MishapsGrow ==
  ASSUME ShiftTypeOK, NEW kind, Fault(kind) \/ UNCHANGED mishaps
  PROVE  mishaps \in Nat /\ mishaps' \in Nat /\ mishaps' >= mishaps
         /\ (Fault(kind) => mishaps' = mishaps + 1)
BY ShiftAssumption DEF ShiftTypeOK, Fault

\* What a decision to go on leaves in the locals.
LEMMA DecideLocals ==
  ASSUME ShiftTypeOK, NEW q \in Reqs, Decide(q), rq'[q].pc # "done"
  PROVE  ~mutex /\ rq'[q].pc \in {"buy", "cancel"}
         /\ (rq'[q].left = {} => rq'[q].todo = Known)
<1>0. rq[q] \in Request /\ Idx # {}
  BY ShiftAssumption DEF ShiftTypeOK
<1>1. ~(Refused(q) \/ rq[q].to = rq[q].base \/ mutex)
  BY <1>0 DEF Decide, NoReq, ShiftTypeOK
<1>2. rq' = [rq EXCEPT
           ![q].pc = IF Deficit(q) > 0 THEN "buy" ELSE "cancel",
           ![q].base = AutoTo,
           ![q].seen = IF Deficit(q) > 0 THEN @ ELSE 0,
           ![q].todo = IF Cardinality(has) <= SampleSize THEN Known ELSE {},
           ![q].left = IF Cardinality(has) <= SampleSize THEN {} ELSE Idx]
  BY <1>1 DEF Decide
<1>3. rq'[q] = [rq[q] EXCEPT
           !.pc = IF Deficit(q) > 0 THEN "buy" ELSE "cancel",
           !.base = AutoTo,
           !.seen = IF Deficit(q) > 0 THEN @ ELSE 0,
           !.todo = IF Cardinality(has) <= SampleSize THEN Known ELSE {},
           !.left = IF Cardinality(has) <= SampleSize THEN {} ELSE Idx]
  BY <1>2 DEF ShiftTypeOK
<1> HIDE DEF Known, Idx
<1>4. /\ rq'[q].pc = IF Deficit(q) > 0 THEN "buy" ELSE "cancel"
      /\ rq'[q].todo = IF Cardinality(has) <= SampleSize THEN Known ELSE {}
      /\ rq'[q].left = IF Cardinality(has) <= SampleSize THEN {} ELSE Idx
  BY <1>0, <1>3 DEF Request
<1> QED BY <1>0, <1>1, <1>4

\* The orders an update is about to cancel are all that the rows know of a level.
LEMMA CrowdDecide ==
  ASSUME RangeInv, CrowdInv, NEW q \in Reqs, Decide(q)
  PROVE  CrowdInv'
<1>0. ShiftTypeOK /\ mishaps \in Nat
  BY DEF RangeInv, ShiftTypeOK
<1>1. /\ UNCHANGED <<open, rows, has, tk, mishaps>>
      /\ \A p \in Reqs : p # q => rq'[p] = rq[p]
  BY <1>0, DecideMoves DEF Decide, storeOf
<1>2. CASE rq'[q].pc = "done"
  <2>1. \A l \in Levels2 : ~Expects(q, l)'
    BY <1>2 DEF Expects
  <2> QED BY <1>0, <1>1, <1>2, <2>1, CrowdRequest
<1>3. CASE rq'[q].pc # "done"
  <2>1. /\ ~mutex /\ rq'[q].pc \in {"buy", "cancel"}
        /\ rq'[q].left = {} => rq'[q].todo = Known
    BY <1>0, <1>3, DecideLocals
  <2>2. Cancels(q)' = Known
    BY <1>1, <2>1 DEF Cancels, Known
  <2>3. \A p \in Reqs : rq[p].pc \notin {"buy", "verify", "cancel", "replace", "range", "place"}
    BY <2>1 DEF RangeInv, MutexInv, Holds
  <2>4. PlacesThere'
    BY <1>1, <2>1, <2>3 DEF PlacesThere
  <2>5. IsFiniteSet(open)' /\ IsFiniteSet(open)
    BY <1>1 DEF CrowdInv
  <2>6. ASSUME NEW l \in Levels2 PROVE CrowdAt(l)'
    <3>1. CrowdAt(l) /\ At(l)' = At(l) /\ Bare(l)' = Bare(l) /\ InRow(l)' = InRow(l)
      BY <1>1 DEF CrowdInv, At, Bare, InRow
    <3>2. Fits(l, {}, 2)' /\ (~InRow(l)' => Fits(l, {}, 1)')
      BY <1>1, <3>1 DEF CrowdAt, Fits
    <3>3. ASSUME NEW p \in Reqs, Expects(p, l)' PROVE Fits(l, Cancels(p), 1)'
      <4>1. p = q
        BY <1>1, <2>3, <3>3 DEF Expects
      <4>2. CASE InRow(l)
        <5>1. At(l) \ Known = {}
          BY <4>2 DEF InRow, At, Known, Levels2
        <5>2. Cardinality(At(l)' \ Cancels(q)') = 0
          BY <2>2, <3>1, <5>1, FS_EmptySet
        <5> QED BY <1>0, <1>1, <4>1, <5>2 DEF Fits
      <4>3. CASE ~InRow(l)
        <5>1. Fits(l, {}, 1) /\ At(l)' \ Cancels(q)' \subseteq At(l) \ {}
          BY <3>1, <4>3 DEF CrowdAt
        <5>2. mishaps' \in Nat /\ mishaps' >= mishaps /\ 1 \in Nat
          BY <1>0, <1>1
        <5>3. /\ Cardinality(At(l)' \ Cancels(q)') <= 1 + mishaps'
              /\ Bare(l)' => Cardinality(At(l)' \ Cancels(q)') < 1 + mishaps'
          BY <1>0, <2>5, <3>1, <5>1, <5>2, StillFits
        <5> QED BY <4>1, <5>3 DEF Fits
      <4> QED BY <4>2, <4>3
    <3> QED BY <3>2, <3>3 DEF CrowdAt
  <2> QED BY <2>4, <2>5, <2>6 DEF CrowdInv
<1> QED BY <1>2, <1>3

\* The steps of an update that neither place nor take an order.
LEMMA CrowdUpdates ==
  ASSUME RangeInv, CrowdInv, NEW q \in Reqs,
         \/ \E r \in Ranges : Ask(q, r)
         \/ ReadPosition(q) \/ Buy(q) \/ Verify(q) \/ WriteRange(q) \/ Return(q)
  PROVE  CrowdInv'
<1> USE DEF storeOf
<1>0. ShiftTypeOK /\ rq[q] \in Request /\ mishaps \in Nat /\ mishaps <= mishaps
  BY DEF RangeInv, ShiftTypeOK
<1>a. ASSUME rq'[q].pc \notin {"buy", "verify", "cancel", "replace", "range", "place"}
      PROVE  \A l \in Levels2 : ~Expects(q, l)'
  BY <1>a DEF Expects
<1>1. ASSUME NEW r \in Ranges, Ask(q, r) PROVE CrowdInv'
  <2>1. rq'[q].pc = "plan" /\ \A p \in Reqs : p # q => rq'[p] = rq[p]
    BY <1>0, <1>1 DEF Ask, NoReq, ShiftTypeOK
  <2>2. UNCHANGED <<open, rows, has, tk, mishaps>>
    BY <1>1 DEF Ask
  <2> QED BY <1>0, <1>a, <2>1, <2>2, CrowdRequest
<1>2. CASE ReadPosition(q)
  <2>1. rq'[q].pc = "decide" /\ \A p \in Reqs : p # q => rq'[p] = rq[p]
    BY <1>0, <1>2 DEF ReadPosition, Request, ShiftTypeOK
  <2>2. UNCHANGED <<open, rows, has, tk>> /\ mishaps' \in Nat /\ mishaps' >= mishaps
    BY <1>0, <1>2, MishapsGrow DEF ReadPosition
  <2> QED BY <1>a, <2>1, <2>2, CrowdRequest
<1>3. CASE Buy(q)
  <2>1. UNCHANGED <<open, rows, has, tk>> /\ rq[q].pc = "buy"
        /\ (Go(q, "verify") \/ Leaves(q, FALSE))
    BY <1>3 DEF Buy
  <2>2. mishaps' \in Nat /\ mishaps' >= mishaps
    BY <1>0, <1>3, MishapsGrow DEF Buy
  <2>3. CASE Leaves(q, FALSE)
    BY <1>0, <1>a, <2>1, <2>2, <2>3, LeavesSteps, CrowdRequest
  <2>4. CASE Go(q, "verify")
    <3>1. /\ rq'[q].pc = "verify" /\ rq'[q].todo = rq[q].todo /\ rq'[q].left = rq[q].left
          /\ \A p \in Reqs : p # q => rq'[p] = rq[p]
      BY <1>0, <2>4 DEF Go, Request, ShiftTypeOK
    <3>2. \A l \in Levels2 : Expects(q, l)' => Expects(q, l) /\ Cancels(q)' = Cancels(q)
      BY <2>1, <3>1 DEF Expects, Cancels, Known
    <3> QED BY <2>1, <2>2, <3>1, <3>2, CrowdRequest
  <2> QED BY <2>1, <2>3, <2>4
<1>4. CASE Verify(q)
  <2>1. UNCHANGED <<open, rows, has, tk>> /\ rq[q].pc = "verify"
    BY <1>4 DEF Verify
  <2>2. mishaps' \in Nat /\ mishaps' >= mishaps
    BY <1>0, <1>4, MishapsGrow DEF Verify
  <2>3. CASE Leaves(q, FALSE)
    BY <1>0, <1>a, <2>1, <2>2, <2>3, LeavesSteps, CrowdRequest
  <2>4. CASE rq' = [rq EXCEPT ![q].pc = "cancel", ![q].seen = 0]
    <3>1. /\ rq'[q].pc = "cancel" /\ rq'[q].todo = rq[q].todo /\ rq'[q].left = rq[q].left
          /\ \A p \in Reqs : p # q => rq'[p] = rq[p]
      BY <1>0, <2>4 DEF Request, ShiftTypeOK
    <3>2. \A l \in Levels2 : Expects(q, l)' => Expects(q, l) /\ Cancels(q)' = Cancels(q)
      BY <2>1, <3>1 DEF Expects, Cancels, Known
    <3> QED BY <2>1, <2>2, <3>1, <3>2, CrowdRequest
  <2>5. Leaves(q, FALSE) \/ rq' = [rq EXCEPT ![q].pc = "cancel", ![q].seen = 0]
    BY <1>4, Zenon DEF Verify
  <2> QED BY <2>3, <2>4, <2>5
<1>5. CASE WriteRange(q)
  <2>1. /\ rq'[q].pc = "place" /\ rq'[q].to = rq[q].to
        /\ \A p \in Reqs : p # q => rq'[p] = rq[p]
    BY <1>0, <1>5 DEF WriteRange, Request, ShiftTypeOK
  <2>2. UNCHANGED <<open, rows, has, tk, mishaps>> /\ rq[q].pc = "range" /\ rows.of = rq[q].to
    BY <1>5 DEF WriteRange, RangeInv, MutexInv
  <2>3. \A l \in Levels2 : Expects(q, l)' => Expects(q, l) /\ Cancels(q)' = Cancels(q)
    BY <2>1, <2>2 DEF Expects, Cancels
  <2> QED BY <1>0, <2>1, <2>2, <2>3, CrowdRequest
<1>6. CASE Return(q)
  <2>1. /\ rq'[q].pc \in {"stamp", "done"}
        /\ \A p \in Reqs : p # q => rq'[p] = rq[p]
    BY <1>0, <1>6, LeavesSteps DEF Return
  <2>2. UNCHANGED <<open, rows, has, tk, mishaps>>
    BY <1>6 DEF Return
  <2> QED BY <1>0, <1>a, <2>1, <2>2, CrowdRequest
<1> QED BY <1>1, <1>2, <1>3, <1>4, <1>5, <1>6

\* While one request has the mutex no other expects anything.
LEMMA OthersExpectNone ==
  ASSUME RangeInv, NEW q \in Reqs, Holds(q), NEW p \in Reqs, p # q,
         rq'[p] = rq[p], NEW l
  PROVE  ~Expects(p, l)'
BY DEF RangeInv, MutexInv, Holds, Expects

\* The cancels leave one order for every fault.
LEMMA CrowdCancels ==
  ASSUME RangeInv, CrowdInv, NEW q \in Reqs, CancelOld(q)
  PROVE  CrowdInv'
<1>0. ShiftTypeOK /\ rq[q] \in Request /\ IsFiniteSet(open)
  BY DEF RangeInv, ShiftTypeOK, CrowdInv
<1> DEFINE old == IF rq[q].left = {} THEN rq[q].todo ELSE Known
<1>1. PICK kept \in SUBSET (old \cap open) :
        /\ IF kept = {} THEN UNCHANGED mishaps ELSE Cardinality(kept) = 1 /\ Fault("cancel")
        /\ open' = open \ (old \ kept)
  BY DEF CancelOld
<1>2. /\ rq'[q].pc = "replace" /\ \A p \in Reqs : p # q => rq'[p] = rq[p]
      /\ UNCHANGED <<rows, has, tk>> /\ rq[q].pc = "cancel"
  BY <1>0 DEF CancelOld, Request, ShiftTypeOK, storeOf
<1>3. mishaps \in Nat /\ mishaps' \in Nat /\ mishaps' >= mishaps
      /\ (kept # {} => mishaps' = mishaps + 1)
  BY <1>0, <1>1, MishapsGrow
<1>4. Cancels(q) = old
  BY <1>2 DEF Cancels
<1> HIDE DEF old
<1>5. IsFiniteSet(open)' /\ open' \subseteq open
  BY <1>0, <1>1, FS_Subset
<1>6. PlacesThere'
  BY <1>2 DEF PlacesThere, CrowdInv
<1>7. ASSUME NEW l \in Levels2 PROVE CrowdAt(l)'
  <2>0. CrowdAt(l) /\ Bare(l)' = Bare(l) /\ InRow(l)' = InRow(l) /\ At(l)' \subseteq At(l)
    BY <1>2, <1>5 DEF CrowdInv, Bare, InRow, At
  <2>1. Fits(l, {}, 2)' /\ (~InRow(l)' => Fits(l, {}, 1)')
    BY <1>0, <1>3, <2>0, StillFits DEF CrowdAt, Fits
  <2>2. Fits(l, old, 1)
    BY <1>2, <1>4, <2>0 DEF CrowdAt, Expects
  <2>3. Fits(l, {}, 1)'
    <3>1. CASE kept = {}
      <4>1. At(l)' \ {} \subseteq At(l) \ old
        BY <1>1, <3>1 DEF At
      <4> QED BY <1>0, <1>3, <2>0, <2>2, <4>1, StillFits DEF Fits
    <3>2. CASE kept # {}
      <4>1. PICK x : kept = {x}
        <5>1. IsFiniteSet(kept)
          BY <1>0, <1>1, FS_Subset
        <5>2. Cardinality(kept) = 1
          BY <1>1, <3>2
        <5> QED BY <5>1, <5>2, FS_Singleton
      <4>2. At(l)' \ {} \subseteq (At(l) \ old) \cup {x}
        BY <1>1, <4>1 DEF At
      <4>3. IsFiniteSet(At(l) \ old)
        BY <1>0, FS_Subset DEF At
      <4>4. /\ Cardinality(At(l)' \ {}) \in Nat /\ Cardinality(At(l) \ old) \in Nat
            /\ Cardinality(At(l)' \ {}) <= Cardinality(At(l) \ old) + 1
        BY <4>2, <4>3, CountsOneMore
      <4> QED BY <1>3, <2>0, <2>2, <3>2, <4>4 DEF Fits
    <3> QED BY <3>1, <3>2
  <2>4. ASSUME NEW p \in Reqs, Expects(p, l)' PROVE Fits(l, Cancels(p), 1)'
    <3>1. p = q
      BY <1>2, <2>4, OthersExpectNone DEF Holds
    <3>2. Cancels(p)' = {}
      BY <1>2, <3>1 DEF Cancels
    <3> QED BY <2>3, <3>2 DEF Fits
  <2> QED BY <2>1, <2>3, <2>4 DEF CrowdAt
<1> QED BY <1>5, <1>6, <1>7 DEF CrowdInv

\* The new rows know no order, and there is room for what the old ones left.
LEMMA CrowdReplace ==
  ASSUME RangeInv, CrowdInv, NEW q \in Reqs, Replace(q)
  PROVE  CrowdInv'
<1>0. ShiftTypeOK /\ rq[q] \in Request
  BY DEF RangeInv, ShiftTypeOK
<1>1. /\ rq'[q].pc = "range" /\ \A p \in Reqs : p # q => rq'[p] = rq[p]
      /\ UNCHANGED <<open, tk, mishaps>> /\ rq[q].pc = "replace"
  BY <1>0, GoSteps DEF Replace
<1>2. \A p \in Reqs : rq'[p].pc # "place"
  BY <1>1 DEF RangeInv, MutexInv, Holds
<1>3. ASSUME NEW l \in Levels2 PROVE CrowdAt(l)'
  <2>0. CrowdAt(l) /\ Bare(l)' = Bare(l) /\ At(l)' = At(l)
    BY <1>1 DEF CrowdInv, Bare, At
  <2>1. Fits(l, {}, 2)'
    BY <1>1, <2>0 DEF CrowdAt, Fits
  <2>2. Fits(l, {}, 1)'
    <3>1. Expects(q, l) /\ Cancels(q) = {}
      BY <1>1 DEF Expects, Cancels
    <3>2. Fits(l, {}, 1)
      BY <2>0, <3>1 DEF CrowdAt
    <3> QED BY <1>1, <2>0, <3>2 DEF Fits
  <2>3. ASSUME NEW p \in Reqs, Expects(p, l)' PROVE Fits(l, Cancels(p), 1)'
    <3>1. p = q
      BY <1>1, <2>3, OthersExpectNone DEF Holds
    <3>2. Cancels(p)' = {}
      BY <1>1, <3>1 DEF Cancels
    <3> QED BY <2>2, <3>2 DEF Fits
  <2> QED BY <2>1, <2>2, <2>3 DEF CrowdAt
<1> QED BY <1>1, <1>2, <1>3 DEF CrowdInv, PlacesThere

\* One order more at a level that had room for it.
LEMMA FitsOneMore ==
  ASSUME IsFiniteSet(open), mishaps \in Nat, mishaps' \in Nat,
         NEW l, NEW S, NEW T, NEW k \in Nat, NEW o, Fits(l, S, k),
         At(l)' \ T \subseteq (At(l) \ S) \cup {o}
  PROVE  /\ mishaps' >= mishaps => Cardinality(At(l)' \ T) <= (k + 1) + mishaps'
         /\ mishaps' > mishaps => Cardinality(At(l)' \ T) <= k + mishaps'
         /\ Bare(l) => /\ mishaps' >= mishaps => Cardinality(At(l)' \ T) <= k + mishaps'
                       /\ mishaps' > mishaps => Cardinality(At(l)' \ T) < k + mishaps'
         /\ Bare(l) /\ mishaps' >= mishaps => Cardinality(At(l)' \ T) < (k + 1) + mishaps'
<1>1. IsFiniteSet(At(l) \ S)
  BY FS_Subset DEF At
<1>2. /\ Cardinality(At(l)' \ T) \in Nat /\ Cardinality(At(l) \ S) \in Nat
      /\ Cardinality(At(l)' \ T) <= Cardinality(At(l) \ S) + 1
  BY <1>1, CountsOneMore
<1> QED BY <1>2 DEF Fits

\* The update places an order at a level it made; the row knows it, or a fault is spent.
LEMMA CrowdPlaces ==
  ASSUME RangeInv, CrowdInv, NEW q \in Reqs, PlaceNew(q)
  PROVE  CrowdInv'
<1>0. ShiftTypeOK /\ rq[q] \in Request /\ IsFiniteSet(open)
  BY DEF RangeInv, ShiftTypeOK, CrowdInv
<1>1. PICK i \in rq[q].left :
        LET o == [at |-> <<rq[q].to, i>>, by |-> q]
        IN /\ rq' = [rq EXCEPT ![q].left = @ \ {i}]
           /\ \/ open' = open \cup {o} /\ has' = has \cup {i} /\ UNCHANGED mishaps
              \/ open' \in {open, open \cup {o}} /\ Fault("place") /\ UNCHANGED has
  BY DEF PlaceNew
<1> DEFINE o == [at |-> <<rq[q].to, i>>, by |-> q]
<1>2. /\ rq'[q].pc = "place" /\ rq'[q].to = rq[q].to /\ rq'[q].left = rq[q].left \ {i}
      /\ \A p \in Reqs : p # q => rq'[p] = rq[p]
      /\ rq[q].pc = "place"
  BY <1>0, <1>1 DEF Request, ShiftTypeOK, PlaceNew
<1>3. /\ open \subseteq open' /\ open' \subseteq open \cup {o}
      /\ has \subseteq has' /\ UNCHANGED <<rows, tk>>
      /\ \/ i \in has' /\ mishaps' = mishaps
         \/ Fault("place") /\ has' = has
  BY <1>1 DEF PlaceNew
<1>4. /\ mishaps \in Nat /\ mishaps' \in Nat /\ mishaps' >= mishaps
      /\ \/ i \in has' /\ mishaps' = mishaps
         \/ mishaps' > mishaps /\ has' = has
  BY <1>0, <1>3, MishapsGrow
<1>5. IsFiniteSet(open)'
  BY <1>0, <1>3, CountsOneMore
<1>6. rows.of = rq[q].to
  BY <1>2 DEF CrowdInv, PlacesThere
<1>7. PlacesThere'
  BY <1>2, <1>3 DEF PlacesThere, CrowdInv
<1>8. Cancels(q)' = {} /\ Cancels(q) = {}
  BY <1>2 DEF Cancels
<1>9. ASSUME NEW l \in Levels2 PROVE CrowdAt(l)'
  <2>0. CrowdAt(l) /\ Bare(l)' = Bare(l) /\ (InRow(l) => InRow(l)')
    BY <1>3 DEF CrowdInv, Bare, InRow
  <2>1. CASE l # <<rq[q].to, i>>
    <3>1. At(l)' \subseteq At(l)
      BY <1>3, <2>1 DEF At
    <3>2. Fits(l, {}, 2)' /\ (~InRow(l)' => Fits(l, {}, 1)')
      BY <1>0, <1>4, <2>0, <3>1, StillFits DEF CrowdAt, Fits
    <3>3. ASSUME NEW p \in Reqs, Expects(p, l)' PROVE Fits(l, Cancels(p), 1)'
      <4>1. p = q
        BY <1>2, <3>3, OthersExpectNone DEF Holds
      <4>2. Expects(q, l)
        BY <1>2, <3>3, <4>1 DEF Expects
      <4>3. Fits(l, {}, 1)
        BY <1>8, <2>0, <4>2 DEF CrowdAt
      <4>4. Fits(l, {}, 1)'
        BY <1>0, <1>4, <2>0, <3>1, <4>3, StillFits DEF Fits
      <4> QED BY <1>8, <4>1, <4>4 DEF Fits
    <3> QED BY <3>2, <3>3 DEF CrowdAt
  <2>2. CASE l = <<rq[q].to, i>>
    <3>1. Fits(l, {}, 1)
      <4>1. Expects(q, l)
        BY <1>2, <2>2 DEF Expects
      <4> QED BY <1>8, <2>0, <4>1 DEF CrowdAt
    <3>2. At(l)' \ {} \subseteq (At(l) \ {}) \cup {o}
      BY <1>3 DEF At
    <3>3. /\ Cardinality(At(l)' \ {}) <= 2 + mishaps'
          /\ Bare(l) => Cardinality(At(l)' \ {}) < 2 + mishaps'
          /\ mishaps' > mishaps => Cardinality(At(l)' \ {}) <= 1 + mishaps'
          /\ mishaps' > mishaps /\ Bare(l) => Cardinality(At(l)' \ {}) < 1 + mishaps'
      <4> HIDE DEF o
      <4>1. /\ mishaps' >= mishaps => Cardinality(At(l)' \ {}) <= (1 + 1) + mishaps'
            /\ mishaps' > mishaps => Cardinality(At(l)' \ {}) <= 1 + mishaps'
            /\ Bare(l) => /\ mishaps' >= mishaps => Cardinality(At(l)' \ {}) <= 1 + mishaps'
                          /\ mishaps' > mishaps => Cardinality(At(l)' \ {}) < 1 + mishaps'
            /\ Bare(l) /\ mishaps' >= mishaps => Cardinality(At(l)' \ {}) < (1 + 1) + mishaps'
        BY <1>0, <1>4, <3>1, <3>2, FitsOneMore
      <4>2. 1 + 1 = 2
        OBVIOUS
      <4> QED BY <1>4, <4>1, <4>2
    <3>4. Fits(l, {}, 2)'
      BY <2>0, <3>3 DEF Fits
    <3>5. ~InRow(l)' => Fits(l, {}, 1)'
      <4>1. i \in has' => InRow(l)'
        BY <1>3, <1>6, <2>2 DEF InRow
      <4> QED BY <1>4, <2>0, <3>3, <4>1 DEF Fits
    <3>6. ASSUME NEW p \in Reqs, Expects(p, l)' PROVE FALSE
      <4>1. p = q
        BY <1>2, <3>6, OthersExpectNone DEF Holds
      <4> QED BY <1>2, <2>2, <3>6, <4>1 DEF Expects
    <3> QED BY <3>4, <3>5, <3>6 DEF CrowdAt
  <2> QED BY <2>1, <2>2
<1> QED BY <1>5, <1>7, <1>9 DEF CrowdInv

\* The tick may only place where it has seen no order.
LEMMA CrowdLooks ==
  ASSUME RangeInv, CrowdInv, TickBegins
  PROVE  CrowdInv'
<1>0. ShiftTypeOK /\ mishaps \in Nat
  BY DEF RangeInv, ShiftTypeOK
<1>1. /\ tk' = [NoTick EXCEPT !.pc = "rows", !.snap = open] /\ ~mutex
      /\ UNCHANGED <<open, rows, has, rq, mishaps>>
  BY DEF TickBegins, storeOf
<1>2. \A q \in Reqs : ~Holds(q)
  BY <1>1 DEF RangeInv, MutexInv
<1>3. ASSUME NEW l \in Levels2 PROVE CrowdAt(l)'
  <2>0. CrowdAt(l) /\ At(l)' = At(l) /\ (InRow(l) <=> InRow(l)')
    BY <1>1 DEF CrowdInv, At, InRow
  <2>1. Bare(l)' => At(l) \ {} = {}
    BY <1>1 DEF Bare, At, NoTick
  <2>2. Bare(l)' => Cardinality(At(l) \ {}) = 0
    BY <2>1, FS_EmptySet
  <2>3. Fits(l, {}, 2)' /\ (~InRow(l)' => Fits(l, {}, 1)')
    BY <1>0, <1>1, <2>0, <2>2 DEF CrowdAt, Fits
  <2>4. \A q \in Reqs : ~Expects(q, l)'
    BY <1>1, <1>2 DEF Expects, Holds
  <2> QED BY <2>3, <2>4 DEF CrowdAt
<1>4. PlacesThere' /\ IsFiniteSet(open)'
  BY <1>1 DEF CrowdInv, PlacesThere
<1> QED BY <1>3, <1>4 DEF CrowdInv

\* The level left out loses the order its row knew: the tick had seen none there.
LEMMA CrowdRows ==
  ASSUME RangeInv, CrowdInv, ReadRows
  PROVE  CrowdInv'
<1>0. ShiftTypeOK /\ mishaps \in Nat /\ tk \in Tick /\ IsFiniteSet(open)
  BY DEF RangeInv, ShiftTypeOK, CrowdInv
<1> DEFINE covered == {i \in Idx : \E o \in tk.snap : o.at = <<rows.of, i>>}
           nearest == Closest(rows.of, Idx \ covered)
<1>1. /\ has' = (has \cup covered) \ nearest
      /\ tk' = [tk EXCEPT !.pc = "place", !.rows = rows.of, !.gen = rows.gen,
                          !.todo = (Idx \ covered) \ nearest, !.keep = Idx \ flat]
      /\ tk.pc = "rows" /\ UNCHANGED <<open, rows, rq, mishaps>>
  BY DEF ReadRows
<1>2. nearest \subseteq Idx \ covered
  BY DEF Closest
<1> HIDE DEF nearest
<1>3. tk'.pc = "place" /\ tk'.rows = rows.of /\ tk'.todo = (Idx \ covered) \ nearest
  BY <1>0, <1>1 DEF Tick
<1>4. \A l \in Levels2 : Bare(l)' => Bare(l) /\ l[2] \notin nearest
  BY <1>1, <1>3 DEF Bare, Levels2
<1>5. \A l \in Levels2 : InRow(l) /\ ~InRow(l)' => Bare(l) /\ ~Bare(l)'
  BY <1>1, <1>2, <1>3 DEF InRow, Bare, Levels2
<1>6. PlacesThere' /\ IsFiniteSet(open)'
  BY <1>1 DEF CrowdInv, PlacesThere
<1>7. ASSUME NEW l \in Levels2 PROVE CrowdAt(l)'
  <2>0. CrowdAt(l) /\ At(l)' = At(l) /\ Cardinality(At(l) \ {}) \in Nat /\ At(l) \ {} = At(l)
    <3>1. IsFiniteSet(At(l))
      BY <1>0, FS_Subset DEF At
    <3> QED BY <1>1, <3>1, FS_CardinalityType DEF CrowdInv, At
  <2>1. Fits(l, {}, 2)'
    BY <1>1, <1>4, <2>0 DEF CrowdAt, Fits
  <2>2. ~InRow(l) => Fits(l, {}, 1)'
    BY <1>1, <1>4, <2>0 DEF CrowdAt, Fits
  <2>3. InRow(l) /\ ~InRow(l)' => Fits(l, {}, 1)'
    <3>1. InRow(l) /\ ~InRow(l)' => Cardinality(At(l) \ {}) < 2 + mishaps /\ ~Bare(l)'
      BY <1>5, <2>0 DEF CrowdAt, Fits
    <3> QED BY <1>0, <1>1, <2>0, <3>1 DEF Fits
  <2>4. ASSUME NEW q \in Reqs, Expects(q, l)' PROVE Fits(l, Cancels(q), 1)'
    <3>1. Expects(q, l) /\ Fits(l, Cancels(q), 1)
      BY <1>1, <2>0, <2>4 DEF Expects, CrowdAt
    <3>2. CASE Cancels(q)' = Cancels(q)
      BY <1>1, <1>4, <2>0, <3>1, <3>2 DEF Fits
    <3>3. CASE Cancels(q)' # Cancels(q)
      <4>1. Cancels(q) = Known /\ Cancels(q)' = Known'
        BY <1>1, <3>3 DEF Cancels
      <4>2. CASE InRow(l) /\ ~InRow(l)'
        <5>1. Fits(l, {}, 1)'
          BY <2>3, <4>2
        <5>2. At(l)' \ Known' \subseteq At(l)' \ {}
          OBVIOUS
        <5>3. ~Bare(l)'
          BY <1>5, <4>2
        <5>4. Cardinality(At(l)' \ Known') \in Nat
              /\ Cardinality(At(l)' \ Known') <= Cardinality(At(l)' \ {})
          <6>1. IsFiniteSet(At(l)' \ {})
            BY <1>0, <2>0, FS_Subset DEF At
          <6> QED BY <5>2, <6>1, CountsLess
        <5>5. Cardinality(At(l)' \ Known') <= 1 + mishaps'
          BY <1>0, <1>1, <2>0, <5>1, <5>4 DEF Fits
        <5> QED BY <4>1, <5>3, <5>5 DEF Fits
      <4>3. CASE ~(InRow(l) /\ ~InRow(l)')
        <5>1. At(l)' \ Known' \subseteq At(l) \ Known
          BY <1>1, <2>0, <4>3 DEF Known, InRow, At, Levels2
        <5>2. Bare(l)' => Bare(l)
          BY <1>4
        <5>3. /\ Cardinality(At(l)' \ Known') <= 1 + mishaps'
              /\ Bare(l)' => Cardinality(At(l)' \ Known') < 1 + mishaps'
          <6>1. mishaps' \in Nat /\ mishaps' >= mishaps /\ 1 \in Nat
            BY <1>0, <1>1
          <6>2. Fits(l, Known, 1)
            BY <3>1, <4>1
          <6> HIDE DEF Known
          <6> QED BY <1>0, <5>1, <5>2, <6>1, <6>2, StillFits
        <5> QED BY <4>1, <5>3 DEF Fits
      <4> QED BY <4>2, <4>3
    <3> QED BY <3>2, <3>3
  <2> QED BY <2>1, <2>2, <2>3, <2>4 DEF CrowdAt
<1> QED BY <1>6, <1>7 DEF CrowdInv

\* The tick places an order where it has seen none.
LEMMA CrowdRePlaces ==
  ASSUME RangeInv, CrowdInv, RePlace
  PROVE  CrowdInv'
<1>0. ShiftTypeOK /\ tk \in Tick /\ IsFiniteSet(open)
  BY DEF RangeInv, ShiftTypeOK, CrowdInv
<1>1. PICK i \in tk.todo :
        /\ tk' = [tk EXCEPT !.todo = @ \ {i}]
        /\ has' \in {has, WriteRow(i, has)}
        /\ open' \in {open, open \cup {Fresh(<<tk.rows, i>>)}}
        /\ UNCHANGED mishaps \/ Fault("place")
  BY DEF RePlace, Closest
<1> DEFINE o == Fresh(<<tk.rows, i>>)
<1>2. o.at = <<tk.rows, i>>
  BY DEF Fresh
<1>3. /\ open \subseteq open' /\ open' \subseteq open \cup {o}
      /\ has \subseteq has' /\ UNCHANGED <<rows, rq>>
      /\ tk.pc = "place" /\ tk'.pc = "place" /\ tk'.rows = tk.rows /\ tk'.todo = tk.todo \ {i}
  <2>1. tk.pc = "place" /\ UNCHANGED <<rows, rq>>
    BY DEF RePlace
  <2>2. has \subseteq has'
    BY <1>1 DEF WriteRow
  <2> QED BY <1>0, <1>1, <2>1, <2>2 DEF Tick
<1>4. mishaps \in Nat /\ mishaps' \in Nat /\ mishaps' >= mishaps
  BY <1>0, <1>1, MishapsGrow
<1> HIDE DEF o
<1>5. IsFiniteSet(open)'
  BY <1>0, <1>3, CountsOneMore
<1>6. PlacesThere'
  BY <1>3 DEF PlacesThere, CrowdInv
<1>7. ASSUME NEW q \in Reqs, NEW l \in Levels2
      PROVE  (Expects(q, l)' => Expects(q, l))
             /\ At(l)' \ Cancels(q)' \subseteq (At(l) \ Cancels(q)) \cup {o}
             /\ (l # <<tk.rows, i>> => At(l)' \ Cancels(q)' \subseteq At(l) \ Cancels(q))
  <2>1. Expects(q, l)' => Expects(q, l)
    BY <1>3 DEF Expects
  <2>2. Cancels(q) \subseteq Cancels(q)'
    <3>1. Known \subseteq Known'
      BY <1>3 DEF Known
    <3> HIDE DEF Known
    <3> QED BY <1>3, <3>1 DEF Cancels
  <2>3. At(l)' \subseteq At(l) \cup {o}
    BY <1>3 DEF At
  <2>4. l # <<tk.rows, i>> => At(l)' \subseteq At(l)
    BY <1>2, <1>3 DEF At
  <2> QED BY <2>1, <2>2, <2>3, <2>4
<1>8. ASSUME NEW l \in Levels2 PROVE CrowdAt(l)'
  <2>0. CrowdAt(l) /\ (InRow(l) => InRow(l)') /\ (Bare(l)' => Bare(l))
    BY <1>3 DEF CrowdInv, Bare, InRow
  <2>1. CASE l # <<tk.rows, i>>
    <3>1. At(l)' \subseteq At(l)
      BY <1>2, <1>3, <2>1 DEF At
    <3>2. Fits(l, {}, 2)' /\ (~InRow(l)' => Fits(l, {}, 1)')
      BY <1>0, <1>4, <2>0, <3>1, StillFits DEF CrowdAt, Fits
    <3>3. ASSUME NEW q \in Reqs, Expects(q, l)' PROVE Fits(l, Cancels(q), 1)'
      <4>1. Fits(l, Cancels(q), 1) /\ At(l)' \ Cancels(q)' \subseteq At(l) \ Cancels(q)
        BY <1>7, <2>0, <2>1, <3>3 DEF CrowdAt
      <4> QED BY <1>0, <1>4, <2>0, <4>1, StillFits DEF Fits
    <3> QED BY <3>2, <3>3 DEF CrowdAt
  <2>2. CASE l = <<tk.rows, i>>
    <3>1. Bare(l) /\ ~Bare(l)'
      BY <1>3, <2>2 DEF Bare
    <3>2. ASSUME NEW S, NEW T, NEW k \in Nat, Fits(l, S, k), At(l)' \ T \subseteq (At(l) \ S) \cup {o}
          PROVE  Cardinality(At(l)' \ T) <= k + mishaps'
      BY <1>0, <1>4, <3>1, <3>2, FitsOneMore
    <3>3. At(l)' \ {} \subseteq (At(l) \ {}) \cup {o}
      BY <1>3 DEF At
    <3>4. Fits(l, {}, 2)'
      BY <2>0, <3>1, <3>2, <3>3 DEF CrowdAt, Fits
    <3>5. ~InRow(l)' => Fits(l, {}, 1)'
      BY <2>0, <3>1, <3>2, <3>3 DEF CrowdAt, Fits
    <3>6. ASSUME NEW q \in Reqs, Expects(q, l)' PROVE Fits(l, Cancels(q), 1)'
      <4>1. Fits(l, Cancels(q), 1) /\ At(l)' \ Cancels(q)' \subseteq (At(l) \ Cancels(q)) \cup {o}
        BY <1>7, <2>0, <3>6 DEF CrowdAt
      <4>2. Cardinality(At(l)' \ Cancels(q)') <= 1 + mishaps'
        BY <3>2, <4>1
      <4> QED BY <3>1, <4>2 DEF Fits
    <3> QED BY <3>4, <3>5, <3>6 DEF CrowdAt
  <2> QED BY <2>1, <2>2
<1> QED BY <1>5, <1>6, <1>8 DEF CrowdInv

LEMMA CrowdStep == RangeInv /\ CrowdInv /\ [ShiftNext]_shiftVars => CrowdInv'
<1> SUFFICES ASSUME RangeInv, CrowdInv, [ShiftNext]_shiftVars PROVE CrowdInv'
  OBVIOUS
<1> USE DEF storeOf
<1>0. ShiftTypeOK /\ mishaps \in Nat /\ mishaps <= mishaps
  BY DEF RangeInv, ShiftTypeOK
<1>1. ASSUME open' \subseteq open, UNCHANGED <<rows, has>>, mishaps' \in Nat, mishaps' >= mishaps,
             tk' = tk \/ tk'.pc = "idle",
             \A q \in Reqs : \/ rq'[q] = rq[q]
                             \/ rq'[q].pc \in {"idle", "plan", "done"}
      PROVE  CrowdInv'
  <2>1. \A l \in Levels2 : Bare(l)' => Bare(l)
    BY <1>1 DEF Bare
  <2>2. PlacesThere'
    BY <1>1 DEF PlacesThere, CrowdInv
  <2>3. ASSUME NEW q \in Reqs, NEW l \in Levels2, Expects(q, l)'
        PROVE  Expects(q, l) /\ At(l)' \ Cancels(q)' \subseteq At(l) \ Cancels(q)
    <3>1. rq'[q] = rq[q]
      BY <1>1, <2>3 DEF Expects
    <3>2. Expects(q, l)
      BY <2>3, <3>1 DEF Expects
    <3>3. At(l)' \subseteq At(l) /\ At(l)' \ Known' \subseteq At(l) \ Known
      BY <1>1 DEF At, Known
    <3> HIDE DEF Known
    <3>4. At(l)' \ Cancels(q)' \subseteq At(l) \ Cancels(q)
      BY <3>1, <3>3 DEF Cancels
    <3> QED BY <3>2, <3>4
  <2> QED BY <1>0, <1>1, <2>1, <2>2, <2>3, CrowdCalm
<1>2. CASE UNCHANGED shiftVars
  BY <1>0, <1>1, <1>2 DEF shiftVars
<1>3. ASSUME NEW q \in Reqs, (\E r \in Ranges : Ask(q, r)) \/ Update(q) PROVE CrowdInv'
  BY <1>3, CrowdUpdates, CrowdDecide, CrowdCancels, CrowdReplace, CrowdPlaces DEF Update, Apply
<1>4. CASE AutoShift
  <2>1. \A q \in Reqs : rq'[q] = rq[q] \/ rq'[q].pc \in {"idle", "plan", "done"}
    BY <1>0, <1>4 DEF AutoShift, NoReq, ShiftTypeOK
  <2> QED BY <1>0, <1>1, <1>4, <2>1 DEF AutoShift
<1>5. CASE Stamp
  <2>1. \A q \in Reqs : rq'[q] = rq[q] \/ rq'[q].pc \in {"idle", "plan", "done"}
    BY <1>0, <1>5, GoSteps DEF Stamp, Reqs
  <2> QED BY <1>0, <1>1, <1>5, <2>1 DEF Stamp
<1>6. CASE TickOn
  <2>1. CASE Kill
    <3>1. open' \subseteq open /\ tk'.pc = "idle" /\ UNCHANGED <<rows, has, rq>>
      BY <2>1 DEF Kill, NoTick
    <3>2. mishaps' \in Nat /\ mishaps' >= mishaps
      BY <1>0, <2>1, MishapsGrow DEF Kill
    <3> QED BY <1>1, <3>1, <3>2
  <2> QED BY <1>6, <2>1, CrowdRows, CrowdRePlaces DEF TickOn
<1>7. CASE Forget
  BY <1>0, <1>1, <1>7 DEF Forget
<1>8. CASE Pause
  <2>1. mishaps' \in Nat /\ mishaps' >= mishaps
    BY <1>0, <1>8, MishapsGrow DEF Pause
  <2> QED BY <1>1, <1>8, <2>1 DEF Pause
<1>9. CASE Dies
  <2>1. \A q \in Reqs : rq'[q] = rq[q] \/ rq'[q].pc \in {"idle", "plan", "done"}
    BY <1>0, <1>9 DEF Dies, NoReq, ShiftTypeOK
  <2>2. mishaps' \in Nat /\ mishaps' >= mishaps
    BY <1>0, <1>9, MishapsGrow DEF Dies
  <2>3. tk'.pc = "idle" /\ UNCHANGED <<open, rows, has>>
    BY <1>9 DEF Dies, NoTick
  <2> QED BY <1>1, <2>1, <2>2, <2>3
<1> QED BY <1>2, <1>3, <1>4, <1>5, <1>6, <1>7, <1>8, <1>9, CrowdLooks DEF ShiftNext, Reqs

LEMMA CrowdIsFew == ShiftTypeOK /\ CrowdInv => FewOrders
<1> SUFFICES ASSUME CrowdInv, NEW l \in Levels2 PROVE Cardinality(At(l)) <= 2 + mishaps
  BY DEF FewOrders
<1>1. Fits(l, {}, 2) /\ At(l) \ {} = At(l)
  BY DEF CrowdInv, CrowdAt
<1> QED BY <1>1 DEF Fits

\* Whatever two updates, the auto-shift and a tick do to each other's orders, no level
\* of the bot carries more than two, and one more for every fault: the level the tick
\* leaves out, the levels whose rows are replaced and the cancels that fail included
\* (applyRangeUpdatePlan, monitor).
THEOREM OrdersStayFew == ShiftSpec => []FewOrders
<1> QED
  BY ShiftTypeInit, RangeInit, RangeStep, CrowdInitial, CrowdStep, CrowdIsFew, PTL
     DEF ShiftSpec, RangeInv

HIDE DEF Idx, NoRead

-----------------------------------------------------------------------------
(* VirtualWindow *)

\* The running sum and the walk outwards, as Open and ByDistance define them.
SumsTo(upTo, b) == upTo = [l \in 0..N |-> IF l = 0 THEN 0 ELSE upTo[l - 1] + b[l]]

WalksOut(walk, S, m) ==
  walk = [p \in 0..2 * N |->
            IF p = 0 THEN << >>
            ELSE IF Place(p, m) \in S THEN Append(walk[p - 1], Place(p, m)) ELSE walk[p - 1]]

\* A running sum of the book ends in the number of its orders.
LEMMA OpenIs ==
  ASSUME NEW b, NEW g \in [0..N -> Int], g[0] = 0, \A l \in Lines : g[l] = g[l - 1] + b[l]
  PROVE  Open(b) = g[N]
<1>0. N \in Nat /\ N > 0
  BY WindowAssumption
<1>1. SumsTo(g, b)
  <2>1. g = [l \in 0..N |-> g[l]]
    OBVIOUS
  <2>2. \A l \in 0..N : g[l] = IF l = 0 THEN 0 ELSE g[l - 1] + b[l]
    BY <1>0 DEF Lines
  <2>3. g = [l \in 0..N |-> IF l = 0 THEN 0 ELSE g[l - 1] + b[l]]
    BY <2>1, <2>2
  <2> QED BY <2>3 DEF SumsTo
<1>2. PICK f : f = CHOOSE h : SumsTo(h, b)
  OBVIOUS
<1>3. SumsTo(f, b)
  BY <1>1, <1>2
<1>4. Open(b) = f[N]
  BY <1>2 DEF Open, SumsTo
<1>5. \A l \in 0..N : f[l] = IF l = 0 THEN 0 ELSE f[l - 1] + b[l]
  BY <1>3 DEF SumsTo
<1> DEFINE T == {l \in Nat : l <= N => f[l] = g[l]}
<1>6. 0 \in T
  BY <1>0, <1>5
<1>7. ASSUME NEW n \in Nat, n \in T PROVE n + 1 \in T
  <2> SUFFICES ASSUME n + 1 <= N PROVE f[n + 1] = g[n + 1]
    OBVIOUS
  <2>1. n + 1 \in Lines /\ n + 1 \in 0..N /\ n + 1 # 0 /\ (n + 1) - 1 = n /\ f[n] = g[n]
    BY <1>0, <1>7 DEF Lines
  <2> QED BY <1>5, <2>1
<1>8. N \in T
  <2> HIDE DEF T
  <2> QED BY <1>0, <1>6, <1>7, SetInduction
<1> QED BY <1>4, <1>8

\* Every book has a running sum.
LEMMA OpenRuns ==
  ASSUME NEW b \in [Lines -> Nat]
  PROVE  \E g \in [0..N -> Nat] : g[0] = 0 /\ \A l \in Lines : g[l] = g[l - 1] + b[l]
<1>0. N \in Nat /\ \A l \in Lines : l \in Nat /\ l \in 1..N /\ b[l] \in Nat
  BY WindowAssumption DEF Lines
<1>1. PICK F : F = [l \in Nat |-> [n \in Nat |-> IF l \in Lines THEN n + b[l] ELSE n]]
  OBVIOUS
<1>2. F \in [Nat -> [Nat -> Nat]]
  BY <1>0, <1>1
<1>3. \A l \in Lines, n \in Nat : F[l][n] = n + b[l]
  BY <1>0, <1>1
<1>5. Recurs(Nat, 0, F, N)
  BY <1>0, <1>2, RecursUpTo
<1>6. PICK g \in [0..N -> Nat] : g[0] = 0 /\ \A l \in 1..N : g[l] = F[l][g[l - 1]]
  BY <1>5 DEF Recurs
<1>7. ASSUME NEW l \in Lines PROVE g[l] = g[l - 1] + b[l]
  <2>1. l - 1 \in 0..N /\ g[l - 1] \in Nat
    BY <1>0, <1>6
  <2> QED BY <1>0, <1>3, <1>6, <2>1
<1> QED BY <1>6, <1>7

LEMMA OpenType == ASSUME NEW b \in [Lines -> Nat] PROVE Open(b) \in Nat
<1>1. PICK g \in [0..N -> Nat] : g[0] = 0 /\ \A l \in Lines : g[l] = g[l - 1] + b[l]
  BY OpenRuns
<1>2. g \in [0..N -> Int] /\ N \in 0..N
  BY WindowAssumption
<1>3. Open(b) = g[N]
  BY <1>1, <1>2, OpenIs
<1> QED BY <1>2, <1>3

\* One level more or less counts as much in all the orders.
LEMMA OpenChanges ==
  ASSUME NEW b \in [Lines -> Nat], NEW l \in Lines, NEW n \in Nat
  PROVE  Open([b EXCEPT ![l] = n]) = Open(b) + n - b[l]
<1>0. N \in Nat /\ l \in 1..N /\ l \in Nat /\ b[l] \in Nat
  BY WindowAssumption DEF Lines
<1>1. PICK g \in [0..N -> Nat] : g[0] = 0 /\ \A i \in Lines : g[i] = g[i - 1] + b[i]
  BY OpenRuns
<1>2. PICK h : h = [i \in 0..N |-> IF i < l THEN g[i] ELSE g[i] + n - b[l]]
  OBVIOUS
<1>3. PICK c : c = [b EXCEPT ![l] = n]
  OBVIOUS
<1>4. g \in [0..N -> Int] /\ h \in [0..N -> Int] /\ h[0] = 0 /\ h[N] = g[N] + n - b[l]
  BY <1>0, <1>1, <1>2
<1>5. ASSUME NEW i \in Lines PROVE h[i] = h[i - 1] + c[i]
  <2>1. i \in 0..N /\ i - 1 \in 0..N /\ g[i] \in Nat /\ g[i - 1] \in Nat /\ b[i] \in Nat
    BY <1>0, <1>1 DEF Lines
  <2>2. g[i] = g[i - 1] + b[i]
    BY <1>1
  <2>3. c[i] = IF i = l THEN n ELSE b[i]
    BY <1>3
  <2> QED BY <1>0, <1>2, <2>1, <2>2, <2>3
<1>6. Open(b) = g[N]
  BY <1>1, <1>4, OpenIs
<1>7. Open(c) = h[N]
  BY <1>4, <1>5, OpenIs
<1> QED BY <1>3, <1>4, <1>6, <1>7

\* A book with no more orders at any level has no more of them.
LEMMA OpenLess ==
  ASSUME NEW b \in [Lines -> Nat], NEW c \in [Lines -> Nat], \A l \in Lines : c[l] <= b[l]
  PROVE  Open(c) <= Open(b)
<1>0. N \in Nat
  BY WindowAssumption
<1>1. PICK g \in [0..N -> Nat] : g[0] = 0 /\ \A i \in Lines : g[i] = g[i - 1] + b[i]
  BY OpenRuns
<1>2. PICK h \in [0..N -> Nat] : h[0] = 0 /\ \A i \in Lines : h[i] = h[i - 1] + c[i]
  BY OpenRuns
<1>3. g \in [0..N -> Int] /\ h \in [0..N -> Int]
  OBVIOUS
<1>4. Open(b) = g[N] /\ Open(c) = h[N]
  BY <1>1, <1>2, <1>3, OpenIs
<1> DEFINE T == {i \in Nat : i <= N => h[i] <= g[i]}
<1>5. 0 \in T
  BY <1>0, <1>1, <1>2
<1>6. ASSUME NEW n \in Nat, n \in T PROVE n + 1 \in T
  <2> SUFFICES ASSUME n + 1 <= N PROVE h[n + 1] <= g[n + 1]
    OBVIOUS
  <2>1. n + 1 \in Lines /\ n \in 0..N /\ (n + 1) - 1 = n /\ h[n] <= g[n]
    BY <1>0, <1>6 DEF Lines
  <2>2. h[n + 1] = h[n] + c[n + 1] /\ g[n + 1] = g[n] + b[n + 1]
    BY <1>1, <1>2, <2>1
  <2>3. h[n] \in Nat /\ g[n] \in Nat /\ c[n + 1] \in Nat /\ b[n + 1] \in Nat
    BY <2>1
  <2> QED BY <2>1, <2>2, <2>3
<1>7. N \in T
  <2> HIDE DEF T
  <2> QED BY <1>0, <1>5, <1>6, SetInduction
<1> QED BY <1>4, <1>7

\* ByDistance lists levels of its set.
LEMMA ByDistanceType ==
  ASSUME NEW S, NEW m PROVE ByDistance(S, m) \in Seq(S)
<1>0. N \in Nat /\ 2 * N \in Nat /\ 2 * N \in 0..2 * N
  BY WindowAssumption
<1>1. PICK F : F = [p \in Nat |-> [q \in Seq(S) |->
                     IF Place(p, m) \in S THEN Append(q, Place(p, m)) ELSE q]]
  OBVIOUS
<1>2. F \in [Nat -> [Seq(S) -> Seq(S)]]
  BY <1>1
<1>3. \A p \in Nat, q \in Seq(S) :
        F[p][q] = IF Place(p, m) \in S THEN Append(q, Place(p, m)) ELSE q
  BY <1>1
<1>4. PICK a : a = << >>
  OBVIOUS
<1>a. a \in Seq(S)
  BY <1>4
<1>5. Recurs(Seq(S), a, F, 2 * N)
  BY <1>0, <1>2, <1>a, RecursUpTo
<1>6. PICK k \in [0..2 * N -> Seq(S)] : k[0] = a /\ \A p \in 1..2 * N : k[p] = F[p][k[p - 1]]
  BY <1>5 DEF Recurs
<1>7. ASSUME NEW p \in 0..2 * N
      PROVE  k[p] = IF p = 0 THEN << >>
                    ELSE IF Place(p, m) \in S THEN Append(k[p - 1], Place(p, m)) ELSE k[p - 1]
  <2>1. CASE p = 0
    BY <1>4, <1>6, <2>1
  <2>2. CASE p # 0
    <3>1. p \in Nat /\ p \in 1..2 * N /\ p - 1 \in 0..2 * N
      BY <1>0, <2>2
    <3>2. k[p - 1] \in Seq(S)
      BY <1>6, <3>1
    <3>3. k[p] = F[p][k[p - 1]]
      BY <1>6, <3>1
    <3> QED BY <1>3, <2>2, <3>1, <3>2, <3>3
  <2> QED BY <2>1, <2>2
<1>8. k = [p \in 0..2 * N |-> k[p]]
  BY <1>6
<1>9. k = [p \in 0..2 * N |->
             IF p = 0 THEN << >>
             ELSE IF Place(p, m) \in S THEN Append(k[p - 1], Place(p, m)) ELSE k[p - 1]]
  BY <1>7, <1>8
<1>10. WalksOut(k, S, m)
  BY <1>9 DEF WalksOut
<1>11. PICK f : f = CHOOSE h : WalksOut(h, S, m)
  OBVIOUS
<1>12. WalksOut(f, S, m)
  BY <1>10, <1>11
<1>13. ByDistance(S, m) = f[2 * N]
  BY <1>11 DEF ByDistance, WalksOut
<1>14. \A p \in 0..2 * N :
         f[p] = IF p = 0 THEN << >>
                ELSE IF Place(p, m) \in S THEN Append(f[p - 1], Place(p, m)) ELSE f[p - 1]
  BY <1>12 DEF WalksOut
<1> DEFINE T == {p \in Nat : p <= 2 * N => f[p] \in Seq(S)}
<1>15. 0 \in T
  <2>1. 0 \in 0..2 * N
    BY <1>0
  <2>2. f[0] = << >>
    BY <1>14, <2>1
  <2> QED BY <1>4, <1>a, <2>2
<1>16. ASSUME NEW n \in Nat, n \in T PROVE n + 1 \in T
  <2> SUFFICES ASSUME n + 1 <= 2 * N PROVE f[n + 1] \in Seq(S)
    OBVIOUS
  <2>1. n + 1 \in 0..2 * N /\ n + 1 # 0 /\ (n + 1) - 1 = n /\ f[n] \in Seq(S)
    BY <1>0, <1>16
  <2>2. f[n + 1] = IF Place(n + 1, m) \in S THEN Append(f[n], Place(n + 1, m)) ELSE f[n]
    BY <1>14, <2>1
  <2> QED BY <2>1, <2>2
<1>17. 2 * N \in T
  <2> HIDE DEF T
  <2> QED BY <1>0, <1>15, <1>16, SetInduction
<1> QED BY <1>0, <1>13, <1>17
OrderBooks == [Lines -> Nat]
LineRows == [state : {"active", "virtual", "filled"}, id : {"none", "0x00", "real"},
             filled : BOOLEAN]
Ladders == [Lines -> LineRows]
Taken == Seq(Lines \X Sides)

\* The locals of the tick in each of its states.
Looked == [at : {"looked"}, seen : OrderBooks, began : Nat, extra : {0}, calm : BOOLEAN]
Placing == [at : {"placing"}, seen : OrderBooks, calm : BOOLEAN, price : 0..N, rows : Ladders,
            new : SUBSET Lines, filled : Taken, began : Nat, extra : Nat, todo : Seq(Lines)]
Rotating == [at : {"rotating"}, seen : OrderBooks, calm : BOOLEAN, price : 0..N, rows : Ladders,
             new : SUBSET Lines, filled : Taken, began : Nat, extra : Nat,
             cut : SUBSET Lines, cuts : 0..MaxOps, adds : 0..MaxOps,
             virtualize : Seq(Lines), activate : Seq(Lines)]
Killing == [at : {"killing"}, seen : OrderBooks, calm : BOOLEAN, price : 0..N, rows : Ladders,
            new : SUBSET Lines, filled : Taken, began : Nat, extra : Nat, cut : SUBSET Lines]
Answering == [at : {"answering"}, calm : BOOLEAN, price : 0..N, rows : Ladders,
              filled : Taken, began : Nat, extra : Nat]

TickTyped ==
  tick = Idle \/ tick = Halted \/ tick \in Looked \/ tick \in Placing \/ tick \in Rotating \/ tick \in Killing
  \/ tick \in Answering

\* The tick knows what it began with.  The rotation has taken away as many orders as
\* it counts, but for those of extra, and the orders it adds find room below the window.
OrdersCounted ==
  /\ tick.at \in {"looked", "placing", "rotating", "killing"} => tick.began = Open(tick.seen)
  /\ tick.at \in {"looked", "placing"} => Open(book) <= tick.began + tick.extra
  /\ tick.at = "rotating" =>
       LET cutSoFar == MaxOps - tick.cuts
           added == MaxOps - tick.adds
       IN  /\ Open(book) + cutSoFar <= tick.began + tick.extra + added
           /\ added = 0 \/ added + tick.began <= Window + cutSoFar
  /\ FewAboveWindow

\* The types of all but the tick.
LinesTyped ==
  /\ below \in 0..N /\ book \in OrderBooks /\ ladder \in Ladders
  /\ lately \in [Lines -> Sides \cup {"no"}]
  /\ handled \subseteq Lines /\ placed \subseteq Lines
  /\ crossings \in 0..MaxCrossings /\ failings \in 0..MaxFailings
  /\ calm \in 0..N

WindowInv == LinesTyped /\ TickTyped /\ OrdersCounted

LEMMA IdleIs == (tick = Idle => tick.at = "idle") /\ (tick = Halted => tick.at = "paused")
BY DEF Idle, Halted

\* Which locals a tick has, by the state it is in.
LEMMA TickIs ==
  ASSUME TickTyped
  PROVE  /\ tick.at = "idle" => tick = Idle
         /\ tick.at = "paused" => tick = Halted
         /\ tick.at = "looked" => tick \in Looked
         /\ tick.at = "placing" => tick \in Placing
         /\ tick.at = "rotating" => tick \in Rotating
         /\ tick.at = "killing" => tick \in Killing
         /\ tick.at = "answering" => tick \in Answering
<1>1. (tick = Idle => tick.at = "idle") /\ (tick = Halted => tick.at = "paused")
  BY IdleIs
<1>2. tick \in Looked => tick.at = "looked"
  BY DEF Looked
<1>3. tick \in Placing => tick.at = "placing"
  BY DEF Placing
<1>4. tick \in Rotating => tick.at = "rotating"
  BY DEF Rotating
<1>5. tick \in Killing => tick.at = "killing"
  BY DEF Killing
<1>6. tick \in Answering => tick.at = "answering"
  BY DEF Answering
<1> QED BY <1>1, <1>2, <1>3, <1>4, <1>5, <1>6, Zenon DEF TickTyped

LEMMA TickCounts ==
  ASSUME TickTyped, InTick
  PROVE  tick.began \in Nat /\ tick.extra \in Nat
BY TickIs DEF TickTyped, InTick, Looked, Placing, Rotating, Killing, Answering, Idle, Halted

\* The window and the calls of a tick are numbers.
LEMMA WindowNumbers == N \in Nat /\ N > 0 /\ Window \in Nat /\ MaxOps \in Nat
BY WindowAssumption

LEMMA WindowInitial == WindowInit => WindowInv
<1> SUFFICES ASSUME WindowInit PROVE WindowInv
  OBVIOUS
<1>1. below \in 0..N
  BY WindowNumbers DEF WindowInit
<1> DEFINE near == ByDistance(Lines, below)
           act == First(near, Window)
<1>2. /\ ladder = [l \in Lines |->
                  IF l = near[1] THEN [state |-> "filled", id |-> "none", filled |-> TRUE]
                  ELSE IF l \in act THEN [state |-> "active", id |-> "0x00", filled |-> FALSE]
                  ELSE [state |-> "virtual", id |-> "none", filled |-> FALSE]]
      /\ book = [l \in Lines |-> IF l \in act \ {near[1]} THEN 1 ELSE 0]
  BY DEF WindowInit
<1> HIDE DEF near, act
<1>3. book \in OrderBooks
  BY <1>2 DEF OrderBooks
<1>4. ladder \in Ladders
  BY <1>2 DEF Ladders, LineRows
<1>5. lately \in [Lines -> Sides \cup {"no"}] /\ handled \subseteq Lines /\ placed \subseteq Lines
  BY DEF WindowInit
<1>6. tick.at = "idle"
  BY DEF WindowInit, Idle
<1>7. crossings \in 0..MaxCrossings /\ failings \in 0..MaxFailings /\ calm \in 0..N
  BY WindowAssumption DEF WindowInit
<1>8. LinesTyped
  BY <1>1, <1>3, <1>4, <1>5, <1>6, <1>7 DEF LinesTyped
<1>9. TickTyped /\ OrdersCounted
  BY <1>6 DEF TickTyped, OrdersCounted, FewAboveWindow, InTick, WindowInit
<1> QED BY <1>8, <1>9 DEF WindowInv

\* The tick is no longer calm, and nothing else of it changes.
LEMMA CalmOff ==
  ASSUME TickTyped, InTick, NEW e, e = [tick EXCEPT !.calm = FALSE]
  PROVE  /\ e.at = tick.at /\ e.began = tick.began /\ e.extra = tick.extra
         /\ e \in Looked \/ e \in Placing \/ e \in Rotating \/ e \in Killing \/ e \in Answering
         /\ tick.at \in {"looked", "placing", "rotating", "killing"} => e.seen = tick.seen
         /\ tick.at = "rotating" => e.cuts = tick.cuts /\ e.adds = tick.adds
<1>0. tick # Idle /\ tick # Halted
  BY IdleIs DEF InTick
<1>1. CASE tick \in Looked
  BY <1>1 DEF Looked
<1>2. CASE tick \in Placing
  BY <1>2 DEF Placing
<1>3. CASE tick \in Rotating
  BY <1>3 DEF Rotating
<1>4. CASE tick \in Killing
  BY <1>4 DEF Killing
<1>5. CASE tick \in Answering
  BY <1>5 DEF Answering
<1> QED BY <1>0, <1>1, <1>2, <1>3, <1>4, <1>5 DEF TickTyped

\* Beside the tick the orders only get fewer.
LEMMA FewerOrders ==
  ASSUME WindowInv, book' \in OrderBooks, Open(book') <= Open(book),
         \/ tick' = tick \/ tick' = Idle \/ tick' = Halted
         \/ InTick /\ tick' = [tick EXCEPT !.calm = FALSE]
         \/ tick = Halted /\ tick' = [tick EXCEPT !.calm = FALSE]
  PROVE  TickTyped' /\ OrdersCounted'
<1>1. CASE \/ tick' = Idle \/ tick' = Halted
           \/ tick = Halted /\ tick' = [tick EXCEPT !.calm = FALSE]
  <2>1. tick' = Idle \/ tick' = Halted
    BY <1>1 DEF Halted
  <2>2. tick'.at = "idle" \/ tick'.at = "paused"
    BY <2>1 DEF Idle, Halted
  <2> QED BY <2>1, <2>2 DEF TickTyped, OrdersCounted, FewAboveWindow, InTick
<1>2. CASE tick' = tick /\ ~InTick
  <2>1. tick = Idle \/ tick = Halted
    BY <1>2, TickIs DEF WindowInv, InTick
  <2>2. tick'.at = "idle" \/ tick'.at = "paused"
    BY <1>2, <2>1 DEF Idle, Halted
  <2> QED BY <1>2, <2>1, <2>2 DEF TickTyped, OrdersCounted, FewAboveWindow, InTick
<1>3. CASE InTick /\ (tick' = tick \/ tick' = [tick EXCEPT !.calm = FALSE])
  <2>1. /\ tick'.at = tick.at /\ tick'.began = tick.began /\ tick'.extra = tick.extra
        /\ tick.at \in {"looked", "placing", "rotating", "killing"} => tick'.seen = tick.seen
        /\ tick.at = "rotating" => tick'.cuts = tick.cuts /\ tick'.adds = tick.adds
    BY <1>3, CalmOff DEF WindowInv
  <2>2. TickTyped'
    BY <1>3, CalmOff DEF WindowInv, TickTyped
  <2>3. Open(book') \in Nat /\ Open(book) \in Nat
    BY OpenType DEF WindowInv, LinesTyped, OrderBooks
  <2>4. tick.began \in Nat /\ tick.extra \in Nat
    BY <1>3, TickCounts DEF WindowInv
  <2>5. Window \in Nat /\ MaxOps \in Nat
    BY WindowNumbers
  <2>6. tick.at = "rotating" => tick.cuts \in 0..MaxOps /\ tick.adds \in 0..MaxOps
    BY TickIs DEF WindowInv, Rotating
  <2>7. OrdersCounted
    BY DEF WindowInv
  <2>8. Larger(Window, tick.began) \in Nat
    BY <2>4, <2>5 DEF Larger
  <2>9. FewAboveWindow'
    <3>1. Open(book) <= Larger(Window, tick.began) + tick.extra
      BY <1>3, <2>7 DEF OrdersCounted, FewAboveWindow, InTick
    <3>2. Larger(Window, tick'.began) = Larger(Window, tick.began)
      BY <2>1
    <3>3. Open(book') <= Larger(Window, tick.began) + tick.extra
      BY <2>3, <2>4, <2>8, <3>1
    <3> QED BY <2>1, <3>2, <3>3 DEF FewAboveWindow
  <2>10. tick'.at \in {"looked", "placing", "rotating", "killing"} => tick'.began = Open(tick'.seen)
    BY <2>1, <2>7 DEF OrdersCounted
  <2>11. tick'.at \in {"looked", "placing"} => Open(book') <= tick'.began + tick'.extra
    BY <2>1, <2>3, <2>4, <2>7 DEF OrdersCounted
  <2>12. tick'.at = "rotating" =>
           /\ Open(book') + (MaxOps - tick'.cuts) <= tick'.began + tick'.extra + (MaxOps - tick'.adds)
           /\ MaxOps - tick'.adds = 0
              \/ (MaxOps - tick'.adds) + tick'.began <= Window + (MaxOps - tick'.cuts)
    <3> SUFFICES ASSUME tick.at = "rotating"
                 PROVE  /\ Open(book') + (MaxOps - tick.cuts)
                             <= tick.began + tick.extra + (MaxOps - tick.adds)
                        /\ MaxOps - tick.adds = 0
                           \/ (MaxOps - tick.adds) + tick.began <= Window + (MaxOps - tick.cuts)
      BY <2>1
    <3>1. /\ Open(book) + (MaxOps - tick.cuts) <= tick.began + tick.extra + (MaxOps - tick.adds)
          /\ MaxOps - tick.adds = 0
             \/ (MaxOps - tick.adds) + tick.began <= Window + (MaxOps - tick.cuts)
      BY <2>7 DEF OrdersCounted
    <3> QED BY <2>3, <2>4, <2>5, <2>6, <3>1
  <2> QED BY <2>2, <2>9, <2>10, <2>11, <2>12 DEF OrdersCounted
<1> QED BY <1>1, <1>2, <1>3

LEMMA WindowTyped == WindowInv => WindowTypeOK
<1> SUFFICES ASSUME WindowInv PROVE WindowTypeOK
  OBVIOUS
<1>1. tick.at \in {"idle", "paused", "looked", "placing", "rotating", "killing", "answering"}
  BY DEF WindowInv, TickTyped, Idle, Halted, Looked, Placing, Rotating, Killing, Answering
<1> QED BY <1>1 DEF WindowInv, LinesTyped, WindowTypeOK, OrderBooks, Ladders, LineRows

\* A call that may fail.
LEMMA FailuresTyped ==
  ASSUME LinesTyped, calm' = calm \/ calm' = 0,
         failings' = failings \/ (failings < MaxFailings /\ failings' = failings + 1)
  PROVE  failings' \in 0..MaxFailings /\ calm' \in 0..N
<1>1. failings \in 0..MaxFailings /\ calm \in 0..N
  BY DEF LinesTyped
<1>2. MaxFailings \in Nat /\ N \in Nat
  BY WindowAssumption
<1> QED BY <1>1, <1>2

\* The tick ends in a pause that cancels the orders, or in one that fails.
LEMMA MarginStep ==
  ASSUME WindowInv, MarginBrakes
  PROVE  book' \in OrderBooks /\ TickTyped' /\ OrdersCounted'
<1>1. book \in OrderBooks /\ Open(book) \in Nat
  BY OpenType DEF WindowInv, LinesTyped, OrderBooks
<1>2. PICK b \in OrderBooks : b = [l \in Lines |-> 0]
  BY DEF OrderBooks
<1>3. \A l \in Lines : b[l] <= book[l]
  BY <1>1, <1>2 DEF OrderBooks
<1>4. Open(b) <= Open(book)
  BY <1>1, <1>2, <1>3, OpenLess DEF OrderBooks
<1>5. book' = b \/ book' = book
  BY <1>2 DEF MarginBrakes
<1>6. book' \in OrderBooks /\ Open(book') <= Open(book)
  BY <1>1, <1>2, <1>4, <1>5
<1>7. tick' = Idle \/ tick' = Halted
  BY DEF MarginBrakes
<1> QED BY <1>6, <1>7, FewerOrders

\* The market moves, time passes, the process dies, a read fails, the tick ends.
LEMMA BesideTick ==
  ASSUME WindowInv, MarketCrosses \/ TimePasses \/ Resumes \/ TickFails \/ TickEnds
         \/ UNCHANGED windowVars
  PROVE  WindowInv'
<1>0. /\ LinesTyped /\ TickTyped /\ OrdersCounted /\ book \in OrderBooks
      /\ N \in Nat /\ Open(book) \in Nat
  BY OpenType, WindowNumbers DEF WindowInv, LinesTyped, OrderBooks
<1>1. CASE MarketCrosses
  <2>1. PICK l \in Lines, m \in 0..N : Crosses(l, m)
    BY <1>0, <1>1 DEF MarketCrosses, LinesTyped, Lines
  <2>2. book' = [book EXCEPT ![l] = 0] /\ book' \in OrderBooks
    BY <1>0, <2>1 DEF Crosses, OrderBooks
  <2>3. Open(book') <= Open(book)
    <3>1. book \in [Lines -> Nat] /\ book[l] \in Nat
      BY <1>0 DEF OrderBooks
    <3>2. Open([book EXCEPT ![l] = 0]) = Open(book) + 0 - book[l]
      BY <3>1, OpenChanges
    <3> QED BY <1>0, <2>2, <3>1, <3>2
  <2>4. \/ tick' = tick
        \/ (InTick \/ tick = Halted) /\ tick' = [tick EXCEPT !.calm = FALSE]
    BY <1>0, <2>1, TickIs DEF Crosses, InTick
  <2>5. LinesTyped'
    <3>1. crossings' \in 0..MaxCrossings
      BY <1>0, <2>1, WindowAssumption DEF Crosses, LinesTyped
    <3>2. SideOf(l, below) \in Sides
      BY DEF SideOf, Sides
    <3>3. lately' \in [Lines -> Sides \cup {"no"}] /\ handled' \subseteq Lines
      BY <1>0, <2>1, <3>2 DEF Crosses, LinesTyped
    <3> QED BY <1>0, <2>1, <2>2, <3>1, <3>3 DEF Crosses, LinesTyped
  <2> QED BY <2>2, <2>3, <2>4, <2>5, FewerOrders DEF WindowInv
<1>2. CASE TimePasses
  <2>1. LinesTyped'
    <3>1. lately' \in [Lines -> Sides \cup {"no"}]
      BY <1>0, <1>2 DEF TimePasses, LinesTyped
    <3> QED BY <1>0, <1>2, <3>1 DEF TimePasses, LinesTyped
  <2>2. book' = book /\ tick' = tick
    BY <1>2 DEF TimePasses
  <2> QED BY <1>0, <2>1, <2>2, FewerOrders DEF WindowInv
<1>3. CASE Resumes
  <2>1. LinesTyped'
    <3>a. /\ failings' = failings \/ (failings < MaxFailings /\ failings' = failings + 1)
          /\ calm' = calm \/ calm' = 0
      BY <1>3 DEF Resumes, CallFails
    <3>1. failings' \in 0..MaxFailings /\ calm' \in 0..N
      BY <1>0, <3>a, FailuresTyped
    <3>2. ladder' \in Ladders
      BY <1>0, <1>3 DEF Resumes, LinesTyped, Ladders, LineRows
    <3> QED BY <1>0, <1>3, <3>1, <3>2 DEF Resumes, LinesTyped
  <2>2. book' = book /\ tick' = Idle
    BY <1>3 DEF Resumes
  <2> QED BY <1>0, <2>1, <2>2, FewerOrders DEF WindowInv
<1>4. CASE TickFails
  <2>1. LinesTyped'
    <3>1. failings' \in 0..MaxFailings /\ calm' \in 0..N
      BY <1>0, <1>4, WindowAssumption DEF TickFails, CallFails, LinesTyped
    <3> QED BY <1>0, <1>4, <3>1 DEF TickFails, LinesTyped
  <2>2. book' = book /\ tick' = Idle
    BY <1>4 DEF TickFails
  <2> QED BY <1>0, <2>1, <2>2, FewerOrders DEF WindowInv
<1>5. CASE TickEnds
  <2>1. LinesTyped'
    <3>1. calm' \in 0..N
      BY <1>0, <1>5 DEF TickEnds, LinesTyped
    <3> QED BY <1>0, <1>5, <3>1 DEF TickEnds, LinesTyped
  <2>2. book' = book /\ tick' = Idle
    BY <1>5 DEF TickEnds
  <2> QED BY <1>0, <2>1, <2>2, FewerOrders DEF WindowInv
<1>6. CASE UNCHANGED windowVars
  <2>1. LinesTyped'
    BY <1>0, <1>6 DEF windowVars, LinesTyped
  <2>2. book' = book /\ tick' = tick
    BY <1>6 DEF windowVars
  <2> QED BY <1>0, <2>1, <2>2, FewerOrders DEF WindowInv
<1> QED BY <1>1, <1>2, <1>3, <1>4, <1>5, <1>6

\* The tick begins, and goes through the levels without an order.
LEMMA LooksStep == ASSUME WindowInv, Looks PROVE WindowInv'
<1>0. LinesTyped /\ book \in OrderBooks /\ Open(book) \in Nat /\ Window \in Nat
  BY OpenType, WindowNumbers DEF WindowInv, LinesTyped, OrderBooks
<1>1. LinesTyped'
  BY <1>0 DEF Looks, LinesTyped
<1>2. /\ tick' \in Looked /\ tick'.at = "looked" /\ tick'.began = Open(book) /\ tick'.extra = 0
      /\ tick'.seen = book /\ book' = book
  <2>1. (placed = {} /\ \A l \in Lines : lately[l] = "no") \in BOOLEAN
    OBVIOUS
  <2> QED BY <1>0, <2>1 DEF Looks, Looked
<1>3. OrdersCounted'
  <2>1. FewAboveWindow'
    BY <1>0, <1>2 DEF FewAboveWindow, InTick, Larger
  <2> QED BY <1>0, <1>2, <2>1 DEF OrdersCounted
<1> QED BY <1>1, <1>2, <1>3 DEF WindowInv, TickTyped

\* In "placing" the count is all there is to see to.
LEMMA CountsPlacing ==
  ASSUME tick' \in Placing, tick'.began = Open(tick'.seen), Open(book') \in Nat,
         Open(book') <= tick'.began + tick'.extra
  PROVE  TickTyped' /\ OrdersCounted'
<1>1. tick'.at = "placing" /\ tick'.began \in Nat /\ tick'.extra \in Nat
  BY DEF Placing
<1>2. FewAboveWindow'
  BY <1>1, WindowNumbers DEF FewAboveWindow, InTick, Larger
<1> QED BY <1>1, <1>2 DEF TickTyped, OrdersCounted

LEMMA ReconcilesStep == ASSUME WindowInv, Reconciles PROVE WindowInv'
<1>0. /\ LinesTyped /\ OrdersCounted /\ book \in OrderBooks /\ Open(book) \in Nat
      /\ tick \in Looked /\ tick.at = "looked"
  BY OpenType, TickIs DEF WindowInv, LinesTyped, OrderBooks, Reconciles
<1>1. PICK unc \in Seq(Lines) : unc = ByDistance(Uncovered, below)
  <2>1. Uncovered \subseteq Lines
    BY DEF Uncovered
  <2>2. ByDistance(Uncovered, below) \in Seq(Uncovered)
    BY ByDistanceType
  <2>3. Seq(Uncovered) \subseteq Seq(Lines)
    BY <2>1
  <2> QED BY <2>2, <2>3
<1>2. /\ ladder' = [l \in Lines |->
                    IF unc # << >> /\ l = unc[1] THEN [ladder[l] EXCEPT !.filled = TRUE, !.id = "none"]
                    ELSE Synced(l)]
      /\ tick' = [at |-> "placing", seen |-> tick.seen, calm |-> tick.calm, price |-> below,
                  rows |-> ladder, new |-> {}, filled |-> << >>,
                  began |-> tick.began, extra |-> 0,
                  todo |-> IF unc = << >> THEN << >> ELSE Tail(unc)]
  BY <1>1 DEF Reconciles
<1>3. ladder' \in Ladders
  <2>1. ASSUME NEW l \in Lines
        PROVE  Synced(l) \in LineRows /\ [ladder[l] EXCEPT !.filled = TRUE, !.id = "none"] \in LineRows
    <3>1. PICK r \in LineRows : r = ladder[l]
      BY <1>0 DEF LinesTyped, Ladders
    <3>2. PICK e : e = [r EXCEPT !.filled = TRUE, !.id = "none"]
      OBVIOUS
    <3>3. e \in LineRows
      BY <3>2 DEF LineRows
    <3>4. Synced(l) \in LineRows
      BY <3>1 DEF Synced, LineRows
    <3> QED BY <3>1, <3>2, <3>3, <3>4
  <2> QED BY <1>2, <2>1 DEF Ladders
<1>4. LinesTyped'
  BY <1>0, <1>3 DEF Reconciles, LinesTyped
<1>5. PICK todo \in Seq(Lines) : todo = IF unc = << >> THEN << >> ELSE Tail(unc)
  <2>1. unc # << >> => Tail(unc) \in Seq(Lines)
    BY <1>1
  <2>2. (IF unc = << >> THEN << >> ELSE Tail(unc)) \in Seq(Lines)
    BY <1>1, <2>1
  <2> QED BY <2>2
<1>6. << >> \in Taken
  <2>1. PICK q : q = << >>
    OBVIOUS
  <2>2. q \in Taken
    BY <2>1 DEF Taken
  <2> QED BY <2>1, <2>2
<1>7. tick' \in Placing /\ tick'.began = tick.began /\ tick'.extra = 0 /\ tick'.seen = tick.seen
  BY <1>0, <1>2, <1>5, <1>6 DEF Placing, Looked, LinesTyped
<1>8. book' = book /\ tick.began = Open(tick.seen) /\ Open(book) <= tick.began + tick.extra
  BY <1>0 DEF Reconciles, OrdersCounted
<1>9. tick.began \in Nat /\ tick.extra = 0
  BY <1>0 DEF Looked
<1> QED BY <1>0, <1>4, <1>7, <1>8, <1>9, CountsPlacing DEF WindowInv

LEMMA HeadTail ==
  ASSUME NEW q \in Seq(Lines), q # << >>
  PROVE  Head(q) \in Lines /\ Tail(q) \in Seq(Lines)
OBVIOUS

\* A level of the ladder is written.
LEMMA LadderWritten ==
  ASSUME ladder \in Ladders, NEW l \in Lines, NEW r \in LineRows
  PROVE  [ladder EXCEPT ![l] = r] \in Ladders
BY DEF Ladders

\* The fields of a level are written one by one.
LEMMA FieldsWritten ==
  ASSUME ladder \in Ladders, NEW l \in Lines
  PROVE  /\ [ladder EXCEPT ![l].id = "0x00", ![l].filled = FALSE] \in Ladders
         /\ [ladder EXCEPT ![l].state = "virtual", ![l].id = "none"] \in Ladders
         /\ [ladder EXCEPT ![l].filled = TRUE, ![l].state = "filled"] \in Ladders
         /\ [ladder EXCEPT ![l].filled = TRUE] \in Ladders
<1>1. PICK r \in LineRows : r = ladder[l]
  BY DEF Ladders
<1>2. /\ [r EXCEPT !.id = "0x00", !.filled = FALSE] \in LineRows
      /\ [r EXCEPT !.state = "virtual", !.id = "none"] \in LineRows
      /\ [r EXCEPT !.filled = TRUE, !.state = "filled"] \in LineRows
      /\ [r EXCEPT !.filled = TRUE] \in LineRows
  BY DEF LineRows
<1>3. PICK a \in LineRows : a = [ladder[l] EXCEPT !.id = "0x00", !.filled = FALSE]
  BY <1>1, <1>2
<1>4. [ladder EXCEPT ![l].id = "0x00", ![l].filled = FALSE] = [ladder EXCEPT ![l] = a]
  BY <1>3 DEF Ladders
<1>5. PICK b \in LineRows : b = [ladder[l] EXCEPT !.state = "virtual", !.id = "none"]
  BY <1>1, <1>2
<1>6. [ladder EXCEPT ![l].state = "virtual", ![l].id = "none"] = [ladder EXCEPT ![l] = b]
  BY <1>5 DEF Ladders
<1>7. PICK c \in LineRows : c = [ladder[l] EXCEPT !.filled = TRUE, !.state = "filled"]
  BY <1>1, <1>2
<1>8. [ladder EXCEPT ![l].filled = TRUE, ![l].state = "filled"] = [ladder EXCEPT ![l] = c]
  BY <1>7 DEF Ladders
<1>9. PICK d \in LineRows : d = [ladder[l] EXCEPT !.filled = TRUE]
  BY <1>1, <1>2
<1>10. [ladder EXCEPT ![l].filled = TRUE] = [ladder EXCEPT ![l] = d]
  BY <1>9 DEF Ladders
<1>11. /\ [ladder EXCEPT ![l] = a] \in Ladders /\ [ladder EXCEPT ![l] = b] \in Ladders
       /\ [ladder EXCEPT ![l] = c] \in Ladders /\ [ladder EXCEPT ![l] = d] \in Ladders
  BY <1>3, <1>5, <1>7, <1>9, LadderWritten
<1>12. [ladder EXCEPT ![l].id = "0x00", ![l].filled = FALSE] \in Ladders
  BY <1>4, <1>11, Zenon
<1>13. [ladder EXCEPT ![l].state = "virtual", ![l].id = "none"] \in Ladders
  BY <1>6, <1>11, Zenon
<1>14. [ladder EXCEPT ![l].filled = TRUE, ![l].state = "filled"] \in Ladders
  BY <1>8, <1>11, Zenon
<1>15. [ladder EXCEPT ![l].filled = TRUE] \in Ladders
  BY <1>10, <1>11, Zenon
<1> QED BY <1>12, <1>13, <1>14, <1>15, Zenon

\* One order more at a level.
LEMMA OneMore ==
  ASSUME book \in OrderBooks, NEW l \in Lines
  PROVE  /\ [book EXCEPT ![l] = @ + 1] \in OrderBooks
         /\ Open([book EXCEPT ![l] = @ + 1]) = Open(book) + 1
<1>1. book \in [Lines -> Nat] /\ book[l] \in Nat /\ Open(book) \in Nat
  BY OpenType DEF OrderBooks
<1>2. PICK n \in Nat : n = book[l] + 1
  BY <1>1
<1>3. Open([book EXCEPT ![l] = n]) = Open(book) + n - book[l]
  BY <1>1, OpenChanges
<1>4. [book EXCEPT ![l] = @ + 1] = [book EXCEPT ![l] = n]
  BY <1>1, <1>2
<1>5. [book EXCEPT ![l] = n] \in OrderBooks
  BY <1>1 DEF OrderBooks
<1> QED BY <1>1, <1>2, <1>3, <1>4, <1>5

LEMMA PlacingStep == ASSUME WindowInv, Answered \/ Waits \/ RePlaces PROVE WindowInv'
<1>0. /\ LinesTyped /\ OrdersCounted /\ book \in OrderBooks /\ Open(book) \in Nat
      /\ tick \in Placing /\ tick.at = "placing" /\ tick.todo # << >>
  BY OpenType, TickIs DEF WindowInv, LinesTyped, OrderBooks, Answered, Waits, RePlaces
<1>1. PICK l \in Lines : l = Head(tick.todo)
  BY <1>0 DEF Placing
<1>2. /\ tick.began = Open(tick.seen) /\ Open(book) <= tick.began + tick.extra
      /\ tick.began \in Nat /\ tick.extra \in Nat
      /\ tick.filled \in Taken /\ tick.new \in SUBSET Lines /\ tick.calm \in BOOLEAN
  BY <1>0 DEF OrdersCounted, Placing
<1>a. PICK t \in Placing : t = tick
  BY <1>0
<1>b. PICK rest \in Seq(Lines) : rest = Tail(t.todo)
  <2>1. t.todo \in Seq(Lines) /\ t.todo # << >>
    BY <1>0, <1>a DEF Placing
  <2>2. Tail(t.todo) \in Seq(Lines)
    BY <2>1
  <2> QED BY <2>2
<1>3. CASE Answered
  <2>1. PICK f \in Taken : f = IF l \in handled THEN tick.filled ELSE Append(tick.filled, <<l, lately[l]>>)
    <3>1. lately[l] \in Sides
      BY <1>0, <1>1, <1>3 DEF Answered, LinesTyped
    <3>2. Append(tick.filled, <<l, lately[l]>>) \in Taken
      BY <1>2, <3>1 DEF Taken
    <3> QED BY <1>2, <3>2
  <2>2. tick' = [t EXCEPT !.todo = rest, !.filled = f]
    BY <1>1, <1>3, <1>a, <1>b, <2>1 DEF Answered
  <2>4. tick' \in Placing /\ tick'.began = t.began /\ tick'.extra = t.extra /\ tick'.seen = t.seen
    BY <2>2 DEF Placing
  <2>5. LinesTyped' /\ book' = book
    BY <1>0, <1>1, <1>3 DEF Answered, LinesTyped
  <2> QED BY <1>0, <1>2, <1>a, <2>4, <2>5, CountsPlacing DEF WindowInv
<1>4. CASE Waits
  <2>1. tick' = [t EXCEPT !.todo = rest]
    BY <1>4, <1>a, <1>b DEF Waits
  <2>3. tick' \in Placing /\ tick'.began = t.began /\ tick'.extra = t.extra /\ tick'.seen = t.seen
    BY <2>1 DEF Placing
  <2>4. LinesTyped' /\ book' = book
    BY <1>0, <1>4 DEF Waits, LinesTyped
  <2> QED BY <1>0, <1>2, <1>a, <2>3, <2>4, CountsPlacing DEF WindowInv
<1>5. CASE RePlaces
  <2>0. /\ ladder' = [ladder EXCEPT ![l].id = "0x00", ![l].filled = FALSE]
        /\ placed' = placed \cup {l} /\ UNCHANGED <<below, lately, handled, crossings>>
        /\ failings' = failings \/ (failings < MaxFailings /\ failings' = failings + 1)
        /\ calm' = calm \/ calm' = 0
    BY <1>1, <1>5 DEF RePlaces, MarginBrakes, CallFails
  <2>1. ladder' \in Ladders
    BY <1>0, <2>0, FieldsWritten DEF LinesTyped
  <2>2. failings' \in 0..MaxFailings /\ calm' \in 0..N
    BY <1>0, <2>0, FailuresTyped
  <2>3. ASSUME NEW ok \in BOOLEAN, book' = [book EXCEPT ![l] = @ + 1],
               tick' = [tick EXCEPT !.todo = Tail(@), !.new = @ \cup {l}, !.extra = @ + 1,
                                    !.calm = IF ok THEN @ ELSE FALSE]
        PROVE  WindowInv'
    <3>1. book' \in OrderBooks /\ Open(book') = Open(book) + 1
      BY <1>0, <2>3, OneMore
    <3>2. PICK w \in SUBSET Lines : w = tick.new \cup {l}
      BY <1>2
    <3>a. PICK n \in Nat : n = t.extra + 1
      BY <1>2, <1>a
    <3>b. PICK q \in BOOLEAN : q = IF ok THEN t.calm ELSE FALSE
      BY <1>0, <1>a DEF Placing
    <3>3. tick' = [t EXCEPT !.todo = rest, !.new = w, !.extra = n, !.calm = q]
      BY <1>a, <1>b, <2>3, <3>2, <3>a, <3>b
    <3>4. tick' \in Placing /\ tick'.began = t.began /\ tick'.extra = n /\ tick'.seen = t.seen
      BY <3>3 DEF Placing
    <3>5. LinesTyped'
      BY <1>0, <2>0, <2>1, <2>2, <3>1 DEF LinesTyped
    <3> QED BY <1>0, <1>2, <1>a, <3>1, <3>a, <3>4, <3>5, CountsPlacing DEF WindowInv
  <2>4. CASE book' = book /\ tick' = [tick EXCEPT !.todo = Tail(@), !.calm = FALSE]
    <3>1. tick' = [t EXCEPT !.todo = rest, !.calm = FALSE]
      BY <1>a, <1>b, <2>4
    <3>2. tick' \in Placing /\ tick'.began = t.began /\ tick'.extra = t.extra /\ tick'.seen = t.seen
      BY <3>1 DEF Placing
    <3>3. LinesTyped'
      BY <1>0, <2>0, <2>1, <2>2, <2>4 DEF LinesTyped
    <3> QED BY <1>0, <1>2, <1>a, <2>4, <3>2, <3>3, CountsPlacing DEF WindowInv
  <2>5. CASE MarginBrakes
    <3>1. book' \in OrderBooks /\ TickTyped' /\ OrdersCounted'
      BY <2>5, MarginStep
    <3>2. LinesTyped'
      BY <1>0, <2>0, <2>1, <2>2, <3>1 DEF LinesTyped
    <3> QED BY <3>1, <3>2 DEF WindowInv
  <2> QED BY <1>1, <1>5, <2>3, <2>4, <2>5 DEF RePlaces
<1> QED BY <1>3, <1>4, <1>5

\* A list by distance of levels is a list of levels.
LEMMA ListType == ASSUME NEW S \in SUBSET Lines, NEW m PROVE ByDistance(S, m) \in Seq(Lines)
<1>1. ByDistance(S, m) \in Seq(S)
  BY ByDistanceType
<1>2. Seq(S) \subseteq Seq(Lines)
  OBVIOUS
<1> QED BY <1>1, <1>2

\* In "rotating" the count of the rotation is all there is to see to.
LEMMA CountsRotating ==
  ASSUME tick' \in Rotating, tick'.began = Open(tick'.seen), Open(book') \in Nat,
         Open(book') + (MaxOps - tick'.cuts) <= tick'.began + tick'.extra + (MaxOps - tick'.adds),
         \/ MaxOps - tick'.adds = 0
         \/ (MaxOps - tick'.adds) + tick'.began <= Window + (MaxOps - tick'.cuts)
  PROVE  TickTyped' /\ OrdersCounted'
<1>1. /\ tick'.at = "rotating" /\ tick'.began \in Nat /\ tick'.extra \in Nat
      /\ tick'.cuts \in 0..MaxOps /\ tick'.adds \in 0..MaxOps
  BY DEF Rotating
<1>2. FewAboveWindow'
  <2>1. Larger(Window, tick'.began) \in Nat /\ Window <= Larger(Window, tick'.began)
        /\ tick'.began <= Larger(Window, tick'.began)
    BY <1>1, WindowNumbers DEF Larger
  <2>2. Open(book') <= Larger(Window, tick'.began) + tick'.extra
    BY <1>1, <2>1, WindowNumbers
  <2> QED BY <2>2 DEF FewAboveWindow
<1> QED BY <1>1, <1>2 DEF TickTyped, OrdersCounted

LEMMA RotationBeginsStep == ASSUME WindowInv, RotationBegins PROVE WindowInv'
<1>0. /\ LinesTyped /\ OrdersCounted /\ book \in OrderBooks /\ Open(book) \in Nat
      /\ tick \in Placing /\ tick.at = "placing"
  BY OpenType, TickIs DEF WindowInv, LinesTyped, OrderBooks, RotationBegins
<1>1. PICK v \in Seq(Lines), a \in Seq(Lines) :
        tick' = [at |-> "rotating", seen |-> tick.seen, calm |-> tick.calm, price |-> tick.price,
                 rows |-> tick.rows, new |-> tick.new, filled |-> tick.filled,
                 began |-> tick.began, extra |-> tick.extra,
                 cut |-> {}, cuts |-> MaxOps, adds |-> MaxOps,
                 virtualize |-> v, activate |-> a]
  <2> DEFINE want == Near(ladder, tick.price)
             still == {l \in Lines : ladder[l].state # "filled"}
             far == {l \in still \ want : ladder[l].state = "active" /\ ladder[l].id = "real"}
             close == {l \in want : ladder[l].state = "virtual"}
  <2>1. want \subseteq Lines
    <3>1. PICK q \in Seq(Lines) : q = ByDistance(still, tick.price)
      BY ListType
    <3>2. First(q, Window) \subseteq Lines
      BY <3>1, WindowNumbers DEF First
    <3> QED BY <3>1, <3>2 DEF Near
  <2>2. far \in SUBSET Lines /\ close \in SUBSET Lines
    BY <2>1
  <2>3. ByDistance(far, tick.price) \in Seq(Lines) /\ ByDistance(close, tick.price) \in Seq(Lines)
    BY <2>2, ListType
  <2>4. tick' = [at |-> "rotating", seen |-> tick.seen, calm |-> tick.calm, price |-> tick.price,
                 rows |-> tick.rows, new |-> tick.new, filled |-> tick.filled,
                 began |-> tick.began, extra |-> tick.extra,
                 cut |-> {}, cuts |-> MaxOps, adds |-> MaxOps,
                 virtualize |-> ByDistance(far, tick.price),
                 activate |-> ByDistance(close, tick.price)]
    BY DEF RotationBegins
  <2> HIDE DEF far, close, want, still
  <2> QED BY <2>3, <2>4
<1>2. tick' \in Rotating /\ tick'.seen = tick.seen /\ tick'.began = tick.began
      /\ tick'.extra = tick.extra /\ tick'.cuts = MaxOps /\ tick'.adds = MaxOps
  BY <1>0, <1>1, WindowNumbers DEF Placing, Rotating
<1>3. LinesTyped' /\ book' = book
  BY <1>0 DEF RotationBegins, LinesTyped
<1>4. /\ tick.began = Open(tick.seen) /\ Open(book) <= tick.began + tick.extra
      /\ tick.began \in Nat /\ tick.extra \in Nat
  BY <1>0 DEF OrdersCounted, Placing
<1> QED BY <1>0, <1>2, <1>3, <1>4, CountsRotating, WindowNumbers DEF WindowInv

\* One order less at a level that has one.
LEMMA OneLess ==
  ASSUME book \in OrderBooks, NEW l \in Lines
  PROVE  /\ [book EXCEPT ![l] = IF @ > 0 THEN @ - 1 ELSE 0] \in OrderBooks
         /\ Open([book EXCEPT ![l] = IF @ > 0 THEN @ - 1 ELSE 0])
              = IF book[l] > 0 THEN Open(book) - 1 ELSE Open(book)
<1>1. book \in [Lines -> Nat] /\ book[l] \in Nat /\ Open(book) \in Nat
  BY OpenType DEF OrderBooks
<1>2. PICK n \in Nat : n = IF book[l] > 0 THEN book[l] - 1 ELSE 0
  BY <1>1
<1>3. Open([book EXCEPT ![l] = n]) = Open(book) + n - book[l]
  BY <1>1, OpenChanges
<1>4. [book EXCEPT ![l] = IF @ > 0 THEN @ - 1 ELSE 0] = [book EXCEPT ![l] = n]
  BY <1>1, <1>2
<1>5. [book EXCEPT ![l] = n] \in OrderBooks
  BY <1>1 DEF OrderBooks
<1> QED BY <1>1, <1>2, <1>3, <1>4, <1>5

\* What holds of a rotation on its way.
LEMMA RotationIs ==
  ASSUME WindowInv, tick.at = "rotating"
  PROVE  /\ LinesTyped /\ book \in OrderBooks /\ Open(book) \in Nat /\ tick \in Rotating
         /\ tick.began \in Nat /\ tick.extra \in Nat /\ tick.began = Open(tick.seen)
         /\ tick.cuts \in 0..MaxOps /\ tick.adds \in 0..MaxOps
         /\ Open(book) + (MaxOps - tick.cuts) <= tick.began + tick.extra + (MaxOps - tick.adds)
         /\ MaxOps - tick.adds = 0
            \/ (MaxOps - tick.adds) + tick.began <= Window + (MaxOps - tick.cuts)
<1>1. /\ LinesTyped /\ OrdersCounted /\ book \in OrderBooks /\ Open(book) \in Nat /\ tick \in Rotating
  BY OpenType, TickIs DEF WindowInv, LinesTyped, OrderBooks
<1> QED BY <1>1 DEF OrdersCounted, Rotating

LEMMA VirtualizesStep == ASSUME WindowInv, Virtualizes PROVE WindowInv'
<1>0. tick.at = "rotating" /\ tick.virtualize # << >> /\ tick.cuts > 0
  BY DEF Virtualizes
<1>1. /\ LinesTyped /\ book \in OrderBooks /\ Open(book) \in Nat /\ tick \in Rotating
      /\ tick.began \in Nat /\ tick.extra \in Nat /\ tick.began = Open(tick.seen)
      /\ tick.cuts \in 0..MaxOps /\ tick.adds \in 0..MaxOps
      /\ Open(book) + (MaxOps - tick.cuts) <= tick.began + tick.extra + (MaxOps - tick.adds)
      /\ MaxOps - tick.adds = 0
         \/ (MaxOps - tick.adds) + tick.began <= Window + (MaxOps - tick.cuts)
  BY <1>0, RotationIs
<1>2. PICK t \in Rotating : t = tick
  BY <1>1
<1>3. t.virtualize \in Seq(Lines) /\ t.virtualize # << >>
  BY <1>0, <1>2 DEF Rotating
<1>a. Head(t.virtualize) \in Lines /\ Tail(t.virtualize) \in Seq(Lines)
  BY <1>3, HeadTail
<1>e. PICK l \in Lines : l = Head(t.virtualize)
  BY <1>a
<1>f. PICK rest : rest = Tail(t.virtualize) /\ rest \in Seq(Lines)
  BY <1>a
<1>4. l = Head(t.virtualize) /\ rest = Tail(t.virtualize) /\ rest \in Seq(Lines)
  BY <1>e, <1>f
<1>5. PICK n \in 0..MaxOps : n = t.cuts - 1
  BY <1>0, <1>1, <1>2, WindowNumbers
<1>6. /\ ladder' = [ladder EXCEPT ![l].state = "virtual", ![l].id = "none"]
      /\ UNCHANGED <<below, lately, handled, placed, crossings>>
      /\ failings' = failings \/ (failings < MaxFailings /\ failings' = failings + 1)
      /\ calm' = calm \/ calm' = 0
  BY <1>2, <1>4 DEF Virtualizes, CallFails
<1>7. ladder' \in Ladders
  BY <1>1, <1>4, <1>6, FieldsWritten DEF LinesTyped
<1>8. failings' \in 0..MaxFailings /\ calm' \in 0..N
  BY <1>1, <1>6, FailuresTyped
<1>9. PICK e \in Nat : e = t.extra + 1
  BY <1>1, <1>2
<1>10. book[l] \in Nat
  BY <1>1 DEF OrderBooks
<1>b. /\ t.began \in Int /\ t.extra \in Int /\ t.cuts \in Int /\ t.adds \in Int /\ n \in Int
      /\ MaxOps \in Int /\ Window \in Int /\ Open(book) \in Int /\ n = t.cuts - 1 /\ e = t.extra + 1
  BY <1>1, <1>2, <1>5, <1>9, WindowNumbers
<1>c. /\ Open(book) + (MaxOps - t.cuts) <= t.began + t.extra + (MaxOps - t.adds)
      /\ MaxOps - t.adds = 0 \/ (MaxOps - t.adds) + t.began <= Window + (MaxOps - t.cuts)
  BY <1>1, <1>2
<1>11. CASE /\ book' = [book EXCEPT ![l] = IF @ > 0 THEN @ - 1 ELSE 0]
            /\ tick' = [t EXCEPT !.virtualize = rest, !.cuts = n, !.cut = @ \cup {l},
                                 !.extra = IF book[l] > 0 THEN @ ELSE e]
  <2>1. /\ book' \in OrderBooks
        /\ Open(book') = IF book[l] > 0 THEN Open(book) - 1 ELSE Open(book)
    BY <1>1, <1>11, OneLess
  <2>2. Open(book') \in Nat
    BY <2>1, OpenType DEF OrderBooks
  <2>3. PICK x \in Nat : x = IF book[l] > 0 THEN t.extra ELSE e
    BY <1>1, <1>2, <1>9
  <2>4. PICK w \in SUBSET Lines : w = t.cut \cup {l}
    BY DEF Rotating
  <2>5. tick' = [t EXCEPT !.virtualize = rest, !.cuts = n, !.cut = w, !.extra = x]
    BY <1>11, <2>3, <2>4
  <2>6. tick' \in Rotating /\ tick'.began = t.began /\ tick'.seen = t.seen /\ tick'.extra = x
        /\ tick'.cuts = n /\ tick'.adds = t.adds
    BY <1>4, <2>5 DEF Rotating
  <2>7. LinesTyped'
    BY <1>1, <1>6, <1>7, <1>8, <2>1 DEF LinesTyped
  <2>a. (Open(book') = Open(book) - 1 /\ x = t.extra) \/ (Open(book') = Open(book) /\ x = t.extra + 1)
    BY <1>b, <2>1, <2>3
  <2>b. Open(book') \in Int /\ x \in Int
    BY <2>2, <2>3
  <2>8. /\ Open(book') + (MaxOps - n) <= t.began + x + (MaxOps - t.adds)
        /\ MaxOps - t.adds = 0 \/ (MaxOps - t.adds) + t.began <= Window + (MaxOps - n)
    BY <1>b, <1>c, <2>a, <2>b
  <2> QED BY <1>1, <1>2, <2>2, <2>6, <2>7, <2>8, CountsRotating DEF WindowInv
<1>12. CASE /\ book' = book
            /\ tick' = [t EXCEPT !.virtualize = rest, !.cuts = n, !.calm = FALSE, !.extra = e]
  <2>1. tick' \in Rotating /\ tick'.began = t.began /\ tick'.seen = t.seen /\ tick'.extra = e
        /\ tick'.cuts = n /\ tick'.adds = t.adds
    BY <1>4, <1>12 DEF Rotating
  <2>2. LinesTyped'
    BY <1>1, <1>6, <1>7, <1>8, <1>12 DEF LinesTyped
  <2>a. Open(book') = Open(book) /\ e \in Int
    BY <1>b, <1>12
  <2>3. /\ Open(book') + (MaxOps - n) <= t.began + e + (MaxOps - t.adds)
        /\ MaxOps - t.adds = 0 \/ (MaxOps - t.adds) + t.began <= Window + (MaxOps - n)
    BY <1>b, <1>c, <2>a
  <2> QED BY <1>1, <1>2, <1>12, <2>1, <2>2, <2>3, CountsRotating DEF WindowInv
<1>13. \/ /\ book' = [book EXCEPT ![l] = IF @ > 0 THEN @ - 1 ELSE 0]
          /\ tick' = [t EXCEPT !.virtualize = rest, !.cuts = n, !.cut = @ \cup {l},
                               !.extra = IF book[l] > 0 THEN @ ELSE e]
       \/ /\ book' = book
          /\ tick' = [t EXCEPT !.virtualize = rest, !.cuts = n, !.calm = FALSE, !.extra = e]
  BY <1>2, <1>4, <1>5, <1>9 DEF Virtualizes
<1> QED BY <1>11, <1>12, <1>13

LEMMA ActivatesStep == ASSUME WindowInv, Activates PROVE WindowInv'
<1>0. tick.at = "rotating" /\ tick.activate # << >> /\ tick.adds > 0 /\ Headroom
  BY DEF Activates, MayActivate
<1>1. /\ LinesTyped /\ book \in OrderBooks /\ Open(book) \in Nat /\ tick \in Rotating
      /\ tick.began \in Nat /\ tick.extra \in Nat /\ tick.began = Open(tick.seen)
      /\ tick.cuts \in 0..MaxOps /\ tick.adds \in 0..MaxOps
      /\ Open(book) + (MaxOps - tick.cuts) <= tick.began + tick.extra + (MaxOps - tick.adds)
  BY <1>0, RotationIs
<1>2. PICK t \in Rotating : t = tick
  BY <1>1
<1>3. t.activate \in Seq(Lines) /\ t.activate # << >>
  BY <1>0, <1>2 DEF Rotating
<1>a. Head(t.activate) \in Lines /\ Tail(t.activate) \in Seq(Lines)
  BY <1>3, HeadTail
<1>e. PICK l \in Lines : l = Head(t.activate)
  BY <1>a
<1>f. PICK rest : rest = Tail(t.activate) /\ rest \in Seq(Lines)
  BY <1>a
<1>4. l = Head(t.activate) /\ rest = Tail(t.activate) /\ rest \in Seq(Lines)
  BY <1>e, <1>f
<1>5. PICK n \in 0..MaxOps : n = t.adds - 1
  BY <1>0, <1>1, <1>2, WindowNumbers
<1>6. /\ placed' = placed \cup {l} /\ UNCHANGED <<below, lately, handled, crossings>>
      /\ failings' = failings \/ (failings < MaxFailings /\ failings' = failings + 1)
      /\ calm' = calm \/ calm' = 0
  BY <1>2, <1>4 DEF Activates, MarginBrakes, CallFails
<1>8. failings' \in 0..MaxFailings /\ calm' \in 0..N
  BY <1>1, <1>6, FailuresTyped
<1>b. /\ t.began \in Int /\ t.extra \in Int /\ t.cuts \in Int /\ t.adds \in Int /\ n \in Int
      /\ MaxOps \in Int /\ Window \in Int /\ Open(book) \in Int /\ n = t.adds - 1
  BY <1>1, <1>2, <1>5, WindowNumbers
<1>c. Open(book) + (MaxOps - t.cuts) <= t.began + t.extra + (MaxOps - t.adds)
  BY <1>1, <1>2
<1>d. (MaxOps - n) + t.began <= Window + (MaxOps - t.cuts)
  <2>1. Window - (t.began - (MaxOps - t.cuts)) > MaxOps - t.adds
    BY <1>0, <1>1, <1>2 DEF Headroom
  <2> QED BY <1>b, <2>1
<1>7. /\ [ladder EXCEPT ![l] = [state |-> "active", id |-> "0x00", filled |-> FALSE]] \in Ladders
      /\ [ladder EXCEPT ![l] = [state |-> "virtual", id |-> "none", filled |-> FALSE]] \in Ladders
  <2>1. /\ [state |-> "active", id |-> "0x00", filled |-> FALSE] \in LineRows
        /\ [state |-> "virtual", id |-> "none", filled |-> FALSE] \in LineRows
    BY DEF LineRows
  <2> QED BY <1>1, <2>1, LadderWritten DEF LinesTyped
<1>9. /\ \/ ladder' = [ladder EXCEPT ![l] = [state |-> "active", id |-> "0x00", filled |-> FALSE]]
         \/ ladder' = [ladder EXCEPT ![l] = [state |-> "virtual", id |-> "none", filled |-> FALSE]]
      /\ \/ MarginBrakes
         \/ /\ book' = book
            /\ tick' = [t EXCEPT !.activate = rest, !.adds = n, !.calm = FALSE]
         \/ \E ok \in BOOLEAN :
              /\ book' = [book EXCEPT ![l] = @ + 1]
              /\ tick' = [t EXCEPT !.activate = rest, !.adds = n, !.new = @ \cup {l},
                                   !.calm = IF ok THEN @ ELSE FALSE]
  <2> DEFINE again == [ladder EXCEPT ![l] = [state |-> "virtual", id |-> "none", filled |-> FALSE]]
             rests == [ladder EXCEPT ![l] = [state |-> "active", id |-> "0x00", filled |-> FALSE]]
             done == [t EXCEPT !.activate = Tail(@), !.adds = @ - 1]
  <2>1. \/ /\ book' = [book EXCEPT ![l] = @ + 1]
           /\ \E ok \in BOOLEAN :
                /\ ladder' = IF ok THEN rests ELSE again
                /\ tick' = [done EXCEPT !.new = @ \cup {l}, !.calm = IF ok THEN @ ELSE FALSE]
        \/ book' = book /\ ladder' = again /\ tick' = [done EXCEPT !.calm = FALSE]
        \/ ladder' = again /\ MarginBrakes
    BY <1>2, <1>4, Zenon DEF Activates
  <2>2. done = [t EXCEPT !.activate = rest, !.adds = n]
    BY <1>4, <1>5
  <2>3. \A ok \in BOOLEAN :
          [done EXCEPT !.new = @ \cup {l}, !.calm = IF ok THEN @ ELSE FALSE]
            = [t EXCEPT !.activate = rest, !.adds = n, !.new = @ \cup {l},
                        !.calm = IF ok THEN @ ELSE FALSE]
    BY <2>2
  <2>4. [done EXCEPT !.calm = FALSE] = [t EXCEPT !.activate = rest, !.adds = n, !.calm = FALSE]
    BY <2>2
  <2> HIDE DEF done, again, rests
  <2>5. \A ok \in BOOLEAN : (IF ok THEN rests ELSE again) \in {rests, again}
    OBVIOUS
  <2>6. ladder' = rests \/ ladder' = again
    BY <2>1, <2>5
  <2>7. \/ MarginBrakes
        \/ book' = book /\ tick' = [t EXCEPT !.activate = rest, !.adds = n, !.calm = FALSE]
        \/ \E ok \in BOOLEAN :
             /\ book' = [book EXCEPT ![l] = @ + 1]
             /\ tick' = [t EXCEPT !.activate = rest, !.adds = n, !.new = @ \cup {l},
                                  !.calm = IF ok THEN @ ELSE FALSE]
    BY <2>1, <2>3, <2>4, Zenon
  <2> QED BY <2>6, <2>7, Zenon DEF again, rests
<1>10. ladder' \in Ladders
  BY <1>7, <1>9
<1>11. ASSUME NEW ok \in BOOLEAN, book' = [book EXCEPT ![l] = @ + 1],
              tick' = [t EXCEPT !.activate = rest, !.adds = n, !.new = @ \cup {l},
                                !.calm = IF ok THEN @ ELSE FALSE]
       PROVE  WindowInv'
  <2>1. book' \in OrderBooks /\ Open(book') = Open(book) + 1
    BY <1>1, <1>11, OneMore
  <2>2. Open(book') \in Nat
    BY <2>1, OpenType DEF OrderBooks
  <2>3. PICK w \in SUBSET Lines : w = t.new \cup {l}
    BY DEF Rotating
  <2>a. PICK q \in BOOLEAN : q = IF ok THEN t.calm ELSE FALSE
    BY DEF Rotating, Answering
  <2>4. tick' = [t EXCEPT !.activate = rest, !.adds = n, !.new = w, !.calm = q]
    BY <1>11, <2>3, <2>a
  <2>5. tick' \in Rotating /\ tick'.began = t.began /\ tick'.seen = t.seen /\ tick'.extra = t.extra
        /\ tick'.cuts = t.cuts /\ tick'.adds = n
    BY <1>4, <2>4 DEF Rotating
  <2>7. LinesTyped'
    BY <1>1, <1>6, <1>8, <1>10, <2>1 DEF LinesTyped
  <2>8. Open(book') + (MaxOps - t.cuts) <= t.began + t.extra + (MaxOps - n)
    BY <1>b, <1>c, <2>1
  <2> QED BY <1>1, <1>2, <1>d, <2>2, <2>5, <2>7, <2>8, CountsRotating DEF WindowInv
<1>12. CASE book' = book /\ tick' = [t EXCEPT !.activate = rest, !.adds = n, !.calm = FALSE]
  <2>5. tick' \in Rotating /\ tick'.began = t.began /\ tick'.seen = t.seen /\ tick'.extra = t.extra
        /\ tick'.cuts = t.cuts /\ tick'.adds = n
    BY <1>4, <1>12 DEF Rotating
  <2>7. LinesTyped'
    BY <1>1, <1>6, <1>8, <1>10, <1>12 DEF LinesTyped
  <2>8. Open(book') + (MaxOps - t.cuts) <= t.began + t.extra + (MaxOps - n)
    BY <1>b, <1>c, <1>12
  <2> QED BY <1>1, <1>2, <1>d, <1>12, <2>5, <2>7, <2>8, CountsRotating DEF WindowInv
<1>13. CASE MarginBrakes
  <2>1. book' \in OrderBooks /\ TickTyped' /\ OrdersCounted'
    BY <1>13, MarginStep
  <2>2. LinesTyped'
    BY <1>1, <1>6, <1>8, <1>10, <2>1 DEF LinesTyped
  <2> QED BY <2>1, <2>2 DEF WindowInv
<1> QED BY <1>9, <1>11, <1>12, <1>13

\* Once the rotation is over, the bound of FewAboveWindow is all that is left of it.
LEMMA CountsLater ==
  ASSUME tick' \in Answering \/ (tick' \in Killing /\ tick'.began = Open(tick'.seen)), FewAboveWindow'
  PROVE  TickTyped' /\ OrdersCounted'
BY DEF TickTyped, OrdersCounted, Killing, Answering

LEMMA RotationEndsStep == ASSUME WindowInv, RotationEnds PROVE WindowInv'
<1>0. tick.at = "rotating" /\ OrdersCounted
  BY DEF RotationEnds, WindowInv
<1>1. LinesTyped /\ tick \in Rotating /\ tick.began = Open(tick.seen)
  BY <1>0, RotationIs
<1>2. tick' \in Killing /\ tick'.began = tick.began /\ tick'.extra = tick.extra /\ tick'.seen = tick.seen
  BY <1>1 DEF RotationEnds, Rotating, Killing
<1>3. LinesTyped' /\ book' = book
  BY <1>1 DEF RotationEnds, LinesTyped
<1>4. FewAboveWindow'
  <2>1. Open(book) <= Larger(Window, tick.began) + tick.extra
    BY <1>0 DEF OrdersCounted, FewAboveWindow, InTick
  <2>2. Larger(Window, tick'.began) = Larger(Window, tick.began)
    BY <1>2
  <2> QED BY <1>2, <1>3, <2>1, <2>2 DEF FewAboveWindow
<1> QED BY <1>1, <1>2, <1>3, <1>4, CountsLater DEF WindowInv

\* The killer leaves no more at a level than it finds.
LEMMA KillerLeaves ==
  ASSUME NEW l \in Lines, book \in OrderBooks, book[l] > 0
  PROVE  Left(l) \in Nat /\ Left(l) <= book[l]
<1>1. book[l] \in Nat
  BY DEF OrderBooks
<1> QED BY <1>1 DEF Left

LEMMA KillsStep == ASSUME WindowInv, Kills PROVE WindowInv'
<1>0. /\ LinesTyped /\ OrdersCounted /\ book \in OrderBooks /\ Open(book) \in Nat
      /\ tick \in Killing /\ tick.at = "killing"
  BY OpenType, TickIs DEF WindowInv, LinesTyped, OrderBooks, Kills
<1>1. PICK c \in BOOLEAN :
        tick' = [at |-> "answering", calm |-> c, price |-> tick.price,
                 rows |-> ladder, filled |-> tick.filled,
                 began |-> tick.began, extra |-> tick.extra]
  <2>1. tick.calm \in BOOLEAN
    BY <1>0 DEF Killing
  <2> QED BY <2>1 DEF Kills
<1>2. tick' \in Answering /\ tick'.began = tick.began /\ tick'.extra = tick.extra
  BY <1>0, <1>1 DEF Killing, Answering, LinesTyped
<1>3. PICK b \in OrderBooks : b = [l \in Lines |-> IF book[l] > 0 THEN Left(l) ELSE 0]
  BY <1>0, KillerLeaves DEF OrderBooks
<1>4. book' = b \/ book' = book
  BY <1>3 DEF Kills
<1>5. book' \in OrderBooks /\ Open(book') \in Nat /\ Open(book') <= Open(book)
  <2>1. \A l \in Lines : b[l] <= book[l]
    <3> SUFFICES ASSUME NEW l \in Lines PROVE b[l] <= book[l]
      OBVIOUS
    <3>1. book[l] \in Nat
      BY <1>0 DEF OrderBooks
    <3> QED BY <1>0, <1>3, <3>1, KillerLeaves
  <2>2. Open(b) <= Open(book)
    BY <1>0, <1>3, <2>1, OpenLess DEF OrderBooks
  <2>3. Open(b) \in Nat
    BY <1>3, OpenType DEF OrderBooks
  <2> QED BY <1>0, <1>3, <1>4, <2>2, <2>3
<1>6. LinesTyped'
  <2>0. /\ UNCHANGED <<below, ladder, lately, handled, placed, crossings>>
        /\ failings' = failings \/ (failings < MaxFailings /\ failings' = failings + 1)
        /\ calm' = calm \/ calm' = 0
    BY DEF Kills, CallFails
  <2>1. failings' \in 0..MaxFailings /\ calm' \in 0..N
    BY <1>0, <2>0, FailuresTyped
  <2> QED BY <1>0, <1>5, <2>0, <2>1 DEF LinesTyped
<1>7. FewAboveWindow'
  <2>1. Open(book) <= Larger(Window, tick.began) + tick.extra
    BY <1>0 DEF OrdersCounted, FewAboveWindow, InTick
  <2>2. tick.began \in Nat /\ tick.extra \in Nat /\ Larger(Window, tick.began) \in Nat
    BY <1>0, WindowNumbers DEF Killing, Larger
  <2>3. Open(book') <= Larger(Window, tick.began) + tick.extra
    BY <1>0, <1>5, <2>1, <2>2
  <2>4. Larger(Window, tick'.began) = Larger(Window, tick.began)
    BY <1>2
  <2> QED BY <1>2, <2>3, <2>4 DEF FewAboveWindow
<1> QED BY <1>2, <1>6, <1>7, CountsLater DEF WindowInv

LEMMA CountersFillStep == ASSUME WindowInv, CountersFill PROVE WindowInv'
<1>0. /\ LinesTyped /\ OrdersCounted /\ book \in OrderBooks /\ Open(book) \in Nat
      /\ tick \in Answering /\ tick.at = "answering" /\ tick.filled # << >>
  BY OpenType, TickIs DEF WindowInv, LinesTyped, OrderBooks, CountersFill
<1>1. PICK t \in Answering : t = tick
  BY <1>0
<1>2. t.filled \in Seq(Lines \X Sides) /\ t.filled # << >>
  BY <1>0, <1>1 DEF Answering, Taken
<1>a. Head(t.filled) \in Lines \X Sides /\ Tail(t.filled) \in Taken
  BY <1>2 DEF Taken
<1>3. PICK f \in Lines \X Sides : f = Head(t.filled)
  BY <1>a
<1>4. PICK rest : rest = Tail(t.filled) /\ rest \in Taken
  BY <1>a
<1>5. PICK l \in Lines : l = f[1]
  OBVIOUS
<1>6. PICK c : c = Counter(f)
  OBVIOUS
<1>7. PICK g \in Ladders : g = [ladder EXCEPT ![l].filled = TRUE, ![l].state = "filled"]
  BY <1>0, FieldsWritten DEF LinesTyped
<1>8. ladder' \in Ladders
  <2>1. \/ ladder' = ladder \/ ladder' = [ladder EXCEPT ![l].filled = TRUE]
        \/ ladder' = [g EXCEPT ![c] = [state |-> "virtual", id |-> "none", filled |-> FALSE]]
        \/ ladder' = [g EXCEPT ![c] = [state |-> "active", id |-> "0x00", filled |-> FALSE]]
    BY <1>1, <1>3, <1>5, <1>6, <1>7 DEF CountersFill
  <2>2. [ladder EXCEPT ![l].filled = TRUE] \in Ladders
    BY <1>0, FieldsWritten DEF LinesTyped
  <2>3. /\ [state |-> "virtual", id |-> "none", filled |-> FALSE] \in LineRows
        /\ [state |-> "active", id |-> "0x00", filled |-> FALSE] \in LineRows
    BY DEF LineRows
  <2>4. \A row \in LineRows : [g EXCEPT ![c] = row] \in Ladders
    BY <1>7 DEF Ladders
  <2> QED BY <1>0, <2>1, <2>2, <2>3, <2>4 DEF LinesTyped
<1>9. PICK e \in Nat : e = t.extra + 1
  BY DEF Answering
<1>10. \/ MarginBrakes
       \/ book' = book /\ tick' = [t EXCEPT !.filled = rest]
       \/ \E ok \in BOOLEAN :
            /\ c \in Lines /\ book' = [book EXCEPT ![c] = @ + 1]
            /\ tick' = [t EXCEPT !.filled = rest, !.extra = e, !.calm = IF ok THEN @ ELSE FALSE]
       \/ book' = book /\ tick' = [t EXCEPT !.filled = rest, !.calm = FALSE]
  <2> DEFINE done == [tick EXCEPT !.filled = Tail(@)]
             d == Counter(Head(tick.filled))
             placing(ok) == /\ d \in Lines /\ book' = [book EXCEPT ![d] = @ + 1]
                            /\ tick' = [done EXCEPT !.extra = @ + 1,
                                                    !.calm = IF ok THEN @ ELSE FALSE]
  <2>a. \/ MarginBrakes
        \/ book' = book /\ tick' = done
        \/ \E ok \in BOOLEAN : placing(ok)
        \/ book' = book /\ tick' = [done EXCEPT !.calm = FALSE]
    BY Zenon DEF CountersFill
  <2>b. d = c /\ done = [t EXCEPT !.filled = Tail(@)]
    BY <1>1, <1>3, <1>6
  <2>2. done = [t EXCEPT !.filled = rest]
    BY <1>4, <2>b
  <2>3. \A ok \in BOOLEAN :
          [done EXCEPT !.extra = @ + 1, !.calm = IF ok THEN @ ELSE FALSE]
            = [t EXCEPT !.filled = rest, !.extra = e, !.calm = IF ok THEN @ ELSE FALSE]
    BY <1>9, <2>2 DEF Answering
  <2>4. [done EXCEPT !.calm = FALSE] = [t EXCEPT !.filled = rest, !.calm = FALSE]
    BY <2>2
  <2>5. \A ok \in BOOLEAN : placing(ok) =>
          /\ c \in Lines /\ book' = [book EXCEPT ![c] = @ + 1]
          /\ tick' = [t EXCEPT !.filled = rest, !.extra = e, !.calm = IF ok THEN @ ELSE FALSE]
    BY <2>b, <2>3
  <2> HIDE DEF done, placing
  <2> QED BY <2>a, <2>2, <2>4, <2>5, Zenon
<1>11. /\ UNCHANGED <<below, lately, handled, crossings>>
       /\ failings' = failings \/ (failings < MaxFailings /\ failings' = failings + 1)
       /\ calm' = calm \/ calm' = 0
       /\ placed' = placed \/ (c \in Lines /\ placed' = placed \cup {c})
  BY <1>1, <1>3, <1>6 DEF CountersFill, MarginBrakes, CallFails
<1>12. failings' \in 0..MaxFailings /\ calm' \in 0..N
  BY <1>0, <1>11, FailuresTyped
<1>13. placed' \subseteq Lines
  BY <1>0, <1>11 DEF LinesTyped
<1>14. /\ t.began \in Nat /\ t.extra \in Nat /\ Larger(Window, t.began) \in Nat
       /\ Open(book) <= Larger(Window, t.began) + t.extra
  BY <1>0, <1>1, WindowNumbers DEF Answering, Larger, OrdersCounted, FewAboveWindow, InTick
<1>15. CASE book' = book /\ (tick' = [t EXCEPT !.filled = rest]
                             \/ tick' = [t EXCEPT !.filled = rest, !.calm = FALSE])
  <2>1. tick' \in Answering /\ tick'.began = t.began /\ tick'.extra = t.extra
    BY <1>4, <1>15 DEF Answering
  <2>2. Larger(Window, tick'.began) = Larger(Window, t.began)
    BY <2>1
  <2>3. FewAboveWindow'
    BY <1>14, <1>15, <2>1, <2>2 DEF FewAboveWindow
  <2>4. LinesTyped'
    BY <1>0, <1>8, <1>11, <1>12, <1>13, <1>15 DEF LinesTyped
  <2> QED BY <2>1, <2>3, <2>4, CountsLater DEF WindowInv
<1>16. ASSUME NEW ok \in BOOLEAN, c \in Lines, book' = [book EXCEPT ![c] = @ + 1],
              tick' = [t EXCEPT !.filled = rest, !.extra = e, !.calm = IF ok THEN @ ELSE FALSE]
       PROVE  WindowInv'
  <2>a. PICK q \in BOOLEAN : q = IF ok THEN t.calm ELSE FALSE
    BY DEF Rotating, Answering
  <2>b. tick' = [t EXCEPT !.filled = rest, !.extra = e, !.calm = q]
    BY <1>16, <2>a
  <2>1. tick' \in Answering /\ tick'.began = t.began /\ tick'.extra = e
    BY <1>4, <2>b DEF Answering
  <2>2. Larger(Window, tick'.began) = Larger(Window, t.began)
    BY <2>1
  <2>3. book' \in OrderBooks /\ Open(book') = Open(book) + 1
    BY <1>0, <1>16, OneMore
  <2>4. Open(book') <= Larger(Window, t.began) + e
    BY <1>0, <1>9, <1>14, <2>3
  <2>5. FewAboveWindow'
    BY <2>1, <2>2, <2>4 DEF FewAboveWindow
  <2>6. LinesTyped'
    BY <1>0, <1>8, <1>11, <1>12, <1>13, <2>3 DEF LinesTyped
  <2> QED BY <2>1, <2>5, <2>6, CountsLater DEF WindowInv
<1>17. CASE MarginBrakes
  <2>1. book' \in OrderBooks /\ TickTyped' /\ OrdersCounted'
    BY <1>17, MarginStep
  <2>2. LinesTyped'
    BY <1>0, <1>8, <1>11, <1>12, <1>13, <2>1 DEF LinesTyped
  <2> QED BY <2>1, <2>2 DEF WindowInv
<1> QED BY <1>10, <1>15, <1>16, <1>17

LEMMA WindowStep == WindowInv /\ [WindowNext]_windowVars => WindowInv'
BY BesideTick, LooksStep, ReconcilesStep, PlacingStep, RotationBeginsStep, VirtualizesStep,
   ActivatesStep, RotationEndsStep, KillsStep, CountersFillStep DEF WindowNext

\* The rotation of a virtual grid adds orders below its window only, for any number of
\* levels, any window and any faults, a call that throws with its order placed and a
\* brake on the margin in the middle of the tick among them: a tick never sees more
\* orders than the window or than those it began with, but for those it places again,
\* answers a fill with or fails to cancel (FewAboveWindow; grid-engine.ts:4013-4038).
THEOREM RotationStaysBelow == WindowSpec => [](WindowTypeOK /\ FewAboveWindow)
<1>1. WindowInv => FewAboveWindow
  BY DEF WindowInv, OrdersCounted
<1> QED BY <1>1, WindowInitial, WindowStep, WindowTyped, PTL DEF WindowSpec

-----------------------------------------------------------------------------
(* The composition *)

\* A behaviour of the jobs is one of each of them: it follows one and leaves the
\* others as they are.
LEMMA FollowsBrakes == JobsSpec => BrakesSpec
<1>1. JobsInit => BrakesInit
  BY DEF JobsInit
<1>2. [JobsNext]_jobsVars => [BrakesNext]_brakeVars
  BY DEF JobsNext, jobsVars, Still, On
<1> QED BY <1>1, <1>2, PTL DEF JobsSpec, BrakesSpec

LEMMA FollowsStop == JobsSpec => StopInit /\ [][StopNext]_stopVars
<1>1. JobsInit => StopInit
  BY DEF JobsInit
<1>2. [JobsNext]_jobsVars => [StopNext]_stopVars
  BY DEF JobsNext, jobsVars, Still, On
<1> QED BY <1>1, <1>2, PTL DEF JobsSpec

LEMMA FollowsGuard == JobsSpec => GuardSpec
<1>1. JobsInit => GuardInit
  BY DEF JobsInit
<1>2. [JobsNext]_jobsVars => [GuardNext]_guardVars
  BY DEF JobsNext, jobsVars, Still, On
<1> QED BY <1>1, <1>2, PTL DEF JobsSpec, GuardSpec

LEMMA FollowsStream == JobsSpec => StreamInit /\ [][StreamNext]_streamVars
<1>1. JobsInit => StreamInit
  BY DEF JobsInit
<1>2. [JobsNext]_jobsVars => [StreamNext]_streamVars
  BY DEF JobsNext, jobsVars, Still, On
<1> QED BY <1>1, <1>2, PTL DEF JobsSpec

\* The bus holds what the sockets have registered and nothing of a closed one, for any
\* number of sockets and channels and any breaks (ws-server.ts onClose).
THEOREM BusStaysTrue == JobsSpec => [](StreamTypeOK /\ BusMatchesSockets)
<1>1. StreamTypeInv /\ BusMatchesSockets /\ [StreamNext]_streamVars
        => (StreamTypeInv /\ BusMatchesSockets)'
  BY StreamTypeStep, ServedStep DEF StreamTypeInv
<1>2. StreamTypeInv => StreamTypeOK
  BY DEF StreamTypeInv
<1> QED BY <1>1, <1>2, StreamInitial, FollowsStream, PTL

\* The safeguards of a tick act on what is there: the gap of its price, the charges,
\* the balance (GapGoesToMarket, FundingIsCounted, HeadroomKept).
THEOREM SafeguardsSeeTrue == JobsSpec => []BrakesSeeTrue
<1>1. StopTypeOK /\ GapIsKept => GapGoesToMarket
  BY DEF GapIsKept, GapGoesToMarket
<1>2. JobsSpec => []GapGoesToMarket
  BY <1>1, FollowsStop, StopInitial, StopTypeStep, GapStep, PTL
<1>3. GapGoesToMarket /\ FundingIsCounted /\ HeadroomKept => BrakesSeeTrue
  BY DEF BrakesSeeTrue
<1> QED
  BY <1>2, <1>3, FollowsBrakes, FollowsGuard, MarginIsKept, ChargesAreCounted, PTL

LEMMA FollowsConnection == JobsSpec => ConnSpec
<1>1. JobsInit => ConnInit
  BY DEF JobsInit
<1>2. [JobsNext]_jobsVars => [ConnNext]_connVars
  BY DEF JobsNext, jobsVars, Still, On
<1> QED BY <1>1, <1>2, PTL DEF JobsSpec, ConnSpec

\* The rows the shared connection has acknowledged are on disk, in the composite.
THEOREM AnswersAreTrue == JobsSpec => []AckedIsStored
<1> QED BY FollowsConnection, AcksAreStored, PTL

LEMMA FollowsWindow == JobsSpec => WindowSpec
<1>1. JobsInit => WindowInit
  BY DEF JobsInit
<1>2. [JobsNext]_jobsVars => [WindowNext]_windowVars
  BY DEF JobsNext, jobsVars, Still, On
<1> QED BY <1>1, <1>2, PTL DEF JobsSpec, WindowSpec

LEMMA FollowsShift == JobsSpec => ShiftInit /\ [][ShiftNext]_shiftVars
<1>1. JobsInit => ShiftInit
  BY DEF JobsInit
<1>2. [JobsNext]_jobsVars => [ShiftNext]_shiftVars
  BY DEF JobsNext, jobsVars, Still, On
<1> QED BY <1>1, <1>2, PTL DEF JobsSpec

\* The orders of a range: no level carries more than two of them and one for every fault,
\* the purchase is what a range needs, a paused bot has none, and those of a virtual grid
\* stay below its window (the parts of OrdersOfARange but WindowSettles, which says how
\* many quiet ticks bring the window to rest and is left to the runs).
THEOREM OrdersStayInRange ==
  JobsSpec => [](RangeMatchesRows /\ FewOrders /\ NoOverbuy /\ PausedIsQuiet /\ FewAboveWindow)
<1>1. RangeInv => RangeMatchesRows /\ ShiftTypeOK
  BY DEF RangeInv, MutexInv, RangeMatchesRows, Holds
<1>2. QuietOnceOff => PausedIsQuiet
  BY DEF QuietOnceOff, PausedIsQuiet
<1>3. ShiftInit => RangeInv
  BY ShiftTypeInit, RangeInit DEF RangeInv
<1>4. JobsSpec => []RangeInv
  BY <1>3, RangeStep, FollowsShift, PTL
<1>5. JobsSpec => []PausedIsQuiet
  BY <1>2, <1>4, QuietInit, QuietStep, FollowsShift, PTL
<1>6. JobsSpec => []NoOverbuy
  BY <1>1, <1>4, OverbuyInit, OverbuyStep, FollowsShift, PTL
<1>7. JobsSpec => []FewOrders
  BY <1>1, <1>4, CrowdInitial, CrowdStep, CrowdIsFew, FollowsShift, PTL
<1> QED BY <1>1, <1>4, <1>5, <1>6, <1>7, FollowsWindow, RotationStaysBelow, PTL

\* Every job keeps the types of its state, whichever of them a behaviour follows.
THEOREM JobsStayTyped == JobsSpec => []JobsTypeOK
<1>1. JobsSpec => []StopTypeOK
  BY FollowsStop, StopInitial, StopTypeStep, PTL
<1>2. JobsSpec => []ShiftTypeOK
  BY FollowsShift, ShiftTypeInit, ShiftTypeStep, PTL
<1>3. JobsSpec => []ConnTypeOK
  BY FollowsConnection, ConnTypeCorrect, PTL
<1>4. ConnTypeOK /\ ShiftTypeOK /\ BrakesTypeOK /\ LeverageTypeOK /\ StopTypeOK /\ GuardTypeOK
      /\ WindowTypeOK /\ StreamTypeOK => JobsTypeOK
  BY DEF JobsTypeOK
<1> QED BY <1>1, <1>2, <1>3, <1>4, FollowsBrakes, FollowsGuard, FollowsWindow, MarginIsKept,
           ChargesAreCounted, BusStaysTrue, TradesAsLevered, RotationStaysBelow, PTL
=============================================================================
