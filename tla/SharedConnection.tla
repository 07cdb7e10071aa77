-------------------------- MODULE SharedConnection --------------------------
(***************************************************************************)
(* The one SQLite connection of the process (GridBotDB, packages/bot/src/  *)
(* database/db.ts) at the level of its statements.  Every caller, the      *)
(* engine, both routers and the dispatcher, sends its statements over the  *)
(* same connection, and a caller is only ordered with itself.  So          *)
(*   - a statement of anyone belongs to the transaction that is open;      *)
(*   - replaceAllGridLevels sends BEGIN and DELETE back to back, its       *)
(*     INSERTs from the callback of the DELETE and the COMMIT from that of *)
(*     the last INSERT, with room for others in between;                   *)
(*   - createBot and createGridLevel insert and then ask the connection    *)
(*     for last_insert_rowid().                                            *)
(***************************************************************************)
EXTENDS Naturals, FiniteSets

CONSTANTS
  Bots,        \* bots whose grid is replaced
  Levels,      \* level_index values of a grid
  Inserts,     \* single INSERTs of others: fills, orders, cash movements
  Creators,    \* createBot calls, standing for the bots they make
  NoBot,       \* an id that is no bot's, or was given by another table
  DbFaults     \* what may fail, see DbFaultKinds

\* "insert": an INSERT of replaceAllGridLevels fails;
\* "delete": its DELETE fails;
\* "commit": its COMMIT fails;
\* "crash":  the process dies: the open transaction is lost.
DbFaultKinds == {"insert", "delete", "commit", "crash"}

ASSUME ConnAssumption ==
  /\ DbFaults \subseteq DbFaultKinds
  /\ NoBot \notin Creators
  /\ Levels # {}
  /\ IsFiniteSet(Levels)

\* The rows other than those of the grids being replaced.
Rows == [kind : {"insert"}, id : Inserts]
          \cup [kind : {"bot"}, id : Creators]
          \cup [kind : {"initial"}, id : Creators \cup {NoBot}]

Gens == {"none", "old", "new"}

VARIABLES
  diskGrid,    \* grid_levels on disk: the generation of the row at each index
  connGrid,    \* the same as the connection sees it
  diskRows,    \* the other rows on disk
  connRows,    \* the same as the connection sees them
  txn,         \* a transaction is open
  job,         \* replaceAllGridLevels, per bot
  pend,        \* its INSERTs not executed yet
  undo,        \* bots whose ROLLBACK is on its way
  last,        \* last_insert_rowid() of the connection
  step,        \* createBot, per call
  ret,         \* the id it took for its bot's
  left,        \* the open transaction is one whose COMMIT has failed
  acked,       \* rows whose statement was acknowledged to its caller
  carried,      \* history: those of them the open transaction holds
  lost         \* history: those whose transaction was rolled back or died

gridVars == <<diskGrid, connGrid>>
rowVars == <<diskRows, connRows>>
jobVars == <<job, pend, undo>>
createVars == <<last, step, ret>>
heldVars == <<acked, carried, lost>>
connVars == <<gridVars, rowVars, txn, left, jobVars, createVars, heldVars>>

JobStates == {"idle", "inserting", "committing", "ok", "failed"}

ConnTypeOK ==
  /\ diskGrid \in [Bots -> [Levels -> Gens]]
  /\ connGrid \in [Bots -> [Levels -> Gens]]
  /\ diskRows \subseteq Rows
  /\ connRows \subseteq Rows
  /\ txn \in BOOLEAN
  /\ job \in [Bots -> JobStates]
  /\ pend \in [Bots -> SUBSET Levels]
  /\ undo \subseteq Bots
  /\ last \in Creators \cup {NoBot}
  /\ step \in [Creators -> {"insert", "select", "seed", "done", "gone"}]
  /\ ret \in [Creators -> Creators \cup {NoBot}]
  /\ left \in BOOLEAN
  /\ acked \subseteq Rows
  /\ carried \subseteq Rows
  /\ lost \subseteq Rows

Whole(gen) == [i \in Levels |-> gen]

ConnInit ==
  /\ diskGrid = [b \in Bots |-> Whole("old")]
  /\ connGrid = diskGrid
  /\ diskRows = {}
  /\ connRows = {}
  /\ txn = FALSE
  /\ job = [b \in Bots |-> "idle"]
  /\ pend = [b \in Bots |-> {}]
  /\ undo = {}
  /\ last = NoBot
  /\ step = [c \in Creators |-> "insert"]
  /\ ret = [c \in Creators |-> NoBot]
  /\ left = FALSE
  /\ acked = {}
  /\ carried = {}
  /\ lost = {}

-----------------------------------------------------------------------------
(* What a statement does: the connection sees it, the disk unless a         *)
(* transaction is open.                                                     *)

Grid(b, g) ==
  /\ connGrid' = [connGrid EXCEPT ![b] = g]
  /\ diskGrid' = IF txn' THEN diskGrid ELSE connGrid'

\* Mutant: the disk learns of a row with the next transaction only.
RowLater(r) ==
  /\ connRows' = connRows \cup {r}
  /\ diskRows' = diskRows
  /\ acked' = acked \cup {r}
  /\ carried' = IF txn THEN carried \cup {r} ELSE carried
  /\ lost' = lost

Row(r) ==
  /\ connRows' = connRows \cup {r}
  /\ diskRows' = IF txn THEN diskRows ELSE connRows'
  /\ acked' = acked \cup {r}
  /\ carried' = IF txn THEN carried \cup {r} ELSE carried
  /\ lost' = lost

CommitAll ==
  /\ txn' = FALSE
  /\ diskGrid' = connGrid
  /\ diskRows' = connRows
  /\ carried' = {}
  /\ UNCHANGED <<connGrid, connRows, acked, lost>>

RollbackAll ==
  /\ txn' = FALSE
  /\ connGrid' = diskGrid
  /\ connRows' = diskRows
  /\ carried' = {}
  /\ lost' = lost \cup carried
  /\ UNCHANGED <<diskGrid, diskRows, acked>>

\* The process dies: SQLite drops the open transaction, the calls are gone.
ProcessDies ==
  /\ RollbackAll
  /\ left' = FALSE
  /\ job' = [b \in Bots |-> "idle"]
  /\ pend' = [b \in Bots |-> {}]
  /\ undo' = {}
  /\ last' = NoBot
  /\ step' = [c \in Creators |-> IF step[c] \in {"select", "seed"} THEN "gone" ELSE step[c]]
  /\ UNCHANGED ret

-----------------------------------------------------------------------------
(* replaceAllGridLevels                                                     *)

Busy(b) == job[b] \in {"inserting", "committing"} \/ b \in undo \/ pend[b] # {}

\* Mutant: DELETE without BEGIN.
BeginDeleteAlone(b) ==
  /\ \A o \in Bots : ~Busy(o)
  /\ txn' = FALSE
  /\ Grid(b, Whole("none"))
  /\ job' = [job EXCEPT ![b] = "inserting"]
  /\ pend' = [pend EXCEPT ![b] = Levels]
  /\ UNCHANGED <<rowVars, left, undo, createVars, heldVars>>

\* BEGIN and DELETE.  Two bots are not replaced at the same time.  In a transaction that
\* a failed COMMIT has left open, what the error of a BEGIN without a callback does is up
\* to the driver: it is ignored, and the call's statements join that transaction ...
BeginDelete(b) ==
  /\ \A o \in Bots : ~Busy(o)
  /\ txn' = TRUE
  /\ left' = FALSE
  /\ Grid(b, Whole("none"))
  /\ job' = [job EXCEPT ![b] = "inserting"]
  /\ pend' = [pend EXCEPT ![b] = Levels]
  /\ UNCHANGED <<rowVars, undo, createVars, heldVars>>

\* ... or nobody catches it and the process dies.
BeginFatal(b) ==
  /\ txn
  /\ \A o \in Bots : ~Busy(o)
  /\ ProcessDies

\* The DELETE fails: ROLLBACK is sent and the call rejects.
DeleteFails(b) ==
  /\ "delete" \in DbFaults
  /\ \A o \in Bots : ~Busy(o)
  /\ txn' = TRUE
  /\ left' = FALSE
  /\ job' = [job EXCEPT ![b] = "failed"]
  /\ undo' = undo \cup {b}
  /\ UNCHANGED <<gridVars, rowVars, pend, createVars, heldVars>>

\* The last INSERT to succeed sends the COMMIT; after a failure the rest are
\* executed all the same.
InsertLevel(b, i) ==
  /\ i \in pend[b]
  /\ connGrid[b][i] = "none"
  /\ UNCHANGED <<txn, left>>
  /\ Grid(b, [connGrid[b] EXCEPT ![i] = "new"])
  /\ pend' = [pend EXCEPT ![b] = @ \ {i}]
  /\ job' = [job EXCEPT ![b] = IF @ = "inserting" /\ pend'[b] = {}
                               THEN "committing" ELSE @]
  /\ last' = NoBot
  /\ UNCHANGED <<rowVars, undo, step, ret, heldVars>>

\* Mutant: the call rejects without ROLLBACK.
InsertFailsOpen(b, i) ==
  /\ i \in pend[b]
  /\ "insert" \in DbFaults \/ connGrid[b][i] # "none"
  /\ pend' = [pend EXCEPT ![b] = @ \ {i}]
  /\ job' = [job EXCEPT ![b] = "failed"]
  /\ UNCHANGED <<gridVars, rowVars, txn, left, undo, createVars, heldVars>>

\* An INSERT fails, by itself or on UNIQUE(bot_id, level_index): the first
\* failure sends ROLLBACK and rejects.
InsertFails(b, i) ==
  /\ i \in pend[b]
  /\ "insert" \in DbFaults \/ connGrid[b][i] # "none"
  /\ pend' = [pend EXCEPT ![b] = @ \ {i}]
  /\ job' = [job EXCEPT ![b] = "failed"]
  /\ undo' = IF job[b] = "inserting" THEN undo \cup {b} ELSE undo
  /\ UNCHANGED <<gridVars, rowVars, txn, left, createVars, heldVars>>

Commit(b) ==
  /\ job[b] = "committing"
  /\ CommitAll
  /\ job' = [job EXCEPT ![b] = "ok"]
  /\ UNCHANGED <<left, pend, undo, createVars>>

\* The COMMIT fails: the call rejects and sends no ROLLBACK.  SQLite has ended the
\* transaction by itself (a full disk, an I/O error) or leaves it open (a lock).
CommitFails(b) ==
  /\ "commit" \in DbFaults
  /\ job[b] = "committing"
  /\ \/ RollbackAll /\ left' = left
     \/ left' = TRUE /\ UNCHANGED <<gridVars, rowVars, txn, heldVars>>
  /\ job' = [job EXCEPT ![b] = "failed"]
  /\ UNCHANGED <<pend, undo, createVars>>

Rollback(b) ==
  /\ b \in undo
  /\ undo' = undo \ {b}
  /\ RollbackAll
  /\ UNCHANGED <<left, job, pend, createVars>>

-----------------------------------------------------------------------------
(* The other callers                                                        *)

\* A statement of its own: insertFillArchive, createOrder, recordCashMovement.
InsertRow(w) ==
  /\ [kind |-> "insert", id |-> w] \notin acked
  /\ Row([kind |-> "insert", id |-> w])
  /\ last' = NoBot
  /\ UNCHANGED <<gridVars, txn, left, jobVars, step, ret>>

\* createBot: the row, then its id, then the first line of its ledger.
CreateInsert(c) ==
  /\ step[c] = "insert"
  /\ Row([kind |-> "bot", id |-> c])
  /\ last' = c
  /\ step' = [step EXCEPT ![c] = "select"]
  /\ UNCHANGED <<gridVars, txn, left, jobVars, ret>>

\* last_insert_rowid() is that of the last INSERT of anyone: the row id another table
\* gave may be any bot's or no bot's.
CreateSelect(c) ==
  /\ step[c] = "select"
  /\ \E d \in IF last = NoBot THEN Creators \cup {NoBot} ELSE {last} :
       ret' = [ret EXCEPT ![c] = d]
  /\ step' = [step EXCEPT ![c] = "seed"]
  /\ UNCHANGED <<gridVars, rowVars, txn, left, jobVars, last, heldVars>>

CreateSeed(c) ==
  /\ step[c] = "seed"
  /\ Row([kind |-> "initial", id |-> ret[c]])
  /\ last' = NoBot
  /\ step' = [step EXCEPT ![c] = "done"]
  /\ UNCHANGED <<gridVars, txn, left, jobVars, ret>>

Crash == "crash" \in DbFaults /\ ProcessDies

-----------------------------------------------------------------------------
Replacing(b) ==
  \/ BeginDelete(b)
  \/ BeginFatal(b)
  \/ DeleteFails(b)
  \/ \E i \in Levels : InsertLevel(b, i) \/ InsertFails(b, i)
  \/ Commit(b)
  \/ CommitFails(b)
  \/ Rollback(b)

ConnNext ==
  \/ \E b \in Bots : Replacing(b)
  \/ \E w \in Inserts : InsertRow(w)
  \/ \E c \in Creators : CreateInsert(c) \/ CreateSelect(c) \/ CreateSeed(c)
  \/ Crash

ConnSpec == ConnInit /\ [][ConnNext]_connVars

-----------------------------------------------------------------------------
(* The promise of BotStore, with the grid on disk read as a whole.          *)

GridOnDisk(b) ==
  IF diskGrid[b] = Whole("old") THEN "old"
  ELSE IF diskGrid[b] = Whole("new") THEN "new" ELSE "partial"

Promise == INSTANCE BotStore WITH
  grid <- [b \in Bots |-> GridOnDisk(b)],
  stored <- diskRows

\* The connection implements the store: a crash or a failing statement at any
\* moment leaves every grid on disk complete and keeps what was on disk.
ImplementsStore == Promise!StoreSpec

\* "all in a single transaction so a crash mid-flight cannot leave a partial
\* grid in the DB" (db.ts, replaceAllGridLevels).
NoPartialGrid == \A b \in Bots : GridOnDisk(b) # "partial"

\* A row acknowledged to its caller (insertFillArchive, recordCashMovement, createBot) is
\* on disk from then on, unless it fell into a transaction of somebody else: it is on disk
\* once that commits, and gone if that is rolled back or dies.  Nothing else loses a row.
AckedIsStored ==
  /\ acked \subseteq diskRows \cup carried \cup lost
  /\ ~txn => carried = {}

\* "Seed the cash-movements ledger with the initial deposit so the history is complete
\* from day 1" (db.ts, createBot): a bot whose createBot has returned has its first line.
LedgerFromDayOne ==
  \A c \in Creators : step[c] = "done" => [kind |-> "initial", id |-> c] \in acked

\* While a transaction is open a call of replaceAllGridLevels still has its COMMIT or its
\* ROLLBACK to send, or a COMMIT has failed, after which the code sends neither: every later
\* write of the process then waits for the next replacement.  Such a transaction holds
\* complete grids only, so that who ends it, by whatever means, leaves none half made.
TransactionHasOwner ==
  /\ txn => left \/ \E b \in Bots : job[b] \in {"inserting", "committing"} \/ b \in undo
  /\ left => /\ txn
             /\ \A b \in Bots : connGrid[b] \in {Whole("old"), Whole("new")}
=============================================================================
