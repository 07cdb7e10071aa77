------------------------------ MODULE BotStore ------------------------------
(***************************************************************************)
(* What the engine takes GridBotDB (packages/bot/src/database/db.ts) to    *)
(* promise, whatever fails and whenever the process dies: the grid of a    *)
(* bot on disk is a complete one, the old or the new, and a row once on    *)
(* disk stays there.  SharedConnection is the statement-level description  *)
(* of the code that has to implement this.                                 *)
(***************************************************************************)
CONSTANTS
  Bots,        \* bots whose grid may be replaced
  Rows         \* the other rows written meanwhile

VARIABLES
  grid,        \* which grid of the bot is on disk
  stored       \* the other rows on disk

storeVars == <<grid, stored>>

StoreInit ==
  /\ grid = [b \in Bots |-> "old"]
  /\ stored = {}

\* Rows reach the disk, alone or with the transaction they fell into.
Store ==
  /\ stored' \in SUBSET Rows
  /\ stored \subseteq stored'
  /\ grid' = grid

\* A transaction commits, and with it every replacement it holds: the whole grid of a
\* bot changes at once, and that of several bots when an earlier COMMIT had failed.
Replace(S) ==
  /\ grid' = [b \in Bots |-> IF b \in S THEN "new" ELSE grid[b]]
  /\ stored' \in SUBSET Rows
  /\ stored \subseteq stored'

StoreNext ==
  \/ Store
  \/ \E S \in SUBSET Bots : Replace(S)

StoreSpec == StoreInit /\ [][StoreNext]_storeVars
=============================================================================
