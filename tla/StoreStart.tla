----------------------------- MODULE StoreStart -----------------------------
(***************************************************************************)
(* A start of the bot process: GridBotDB.initialize brings the schema and  *)
(* its old rows up to date, step by step and again at every start, then    *)
(* ownerBootstrap makes the first user the owner of every row.  The        *)
(* process may die between two steps.  While it is up, bots are created,   *)
(* compounded and deleted, fills are archived and users sign up.           *)
(***************************************************************************)
EXTENDS Integers, FiniteSets

CONSTANTS
  BotIds,         \* ids of bots
  OldBots,        \* the bots that are older than the migrations
  FillIds,        \* fills
  OldFills,       \* the fills that are older than the migrations
  Deposits,       \* what is invested in a bot
  MaxStarts,      \* bound on the starts
  MaxInvested     \* bound on the investment a compound reaches

ASSUME StoreStartAssumption ==
  /\ OldBots \subseteq BotIds /\ OldFills \subseteq FillIds
  /\ Deposits \subseteq 1..MaxInvested /\ MaxStarts \in Nat /\ MaxInvested \in Nat

VARIABLES
  phase,    \* "down", the step of the start that is next, "up"
  columns,  \* the columns added so far
  table,    \* grid_bots
  archive,  \* fills_archive: per fill its bot and its user
  people,   \* users: how many
  starts,   \* starts so far
  unowned,  \* ghost: someone signed up before a bootstrap, or one was broken off
  ownerless \* ghost: fills archived since the bootstrap with no bot to own them

storeVars == <<phase, columns, table, archive, people, starts, unowned, ownerless>>

Null == 0
Gone == [here |-> FALSE, invested |-> 0, original |-> Null, user |-> Null]
NoFill == [here |-> FALSE, bot |-> Null, user |-> Null]
Columns == {"original", "quantity", "options", "ledgers", "snapshots", "user"}
Steps == {"original", "quantity", "options", "ledgers", "snapshots", "fills", "owners",
          "count", "bots", "children"}
Here == {b \in BotIds : table[b].here}

StoreTypeOK ==
  /\ phase \in {"down", "up"} \cup Steps
  /\ columns \subseteq Columns /\ (phase = "up" => columns = Columns)
  /\ table \in [BotIds -> [here : BOOLEAN, invested : 0..MaxInvested,
                           original : 0..MaxInvested, user : 0..2]]
  /\ archive \in [FillIds -> [here : BOOLEAN, bot : BotIds \cup {Null}, user : 0..2]]
  /\ people \in 0..2 /\ starts \in 0..MaxStarts /\ unowned \in BOOLEAN /\ ownerless \subseteq FillIds

\* A database of the first release, or none yet.
StoreInit ==
  /\ phase = "down" /\ columns = {} /\ people = 0 /\ starts = 0 /\ unowned = FALSE
  /\ ownerless = {}
  /\ table \in {t \in [BotIds -> {Gone} \cup {[Gone EXCEPT !.here = TRUE, !.invested = d] :
                                                d \in Deposits}] :
                   \A b \in BotIds : t[b].here => b \in OldBots}
  /\ archive \in {a \in [FillIds -> {NoFill, [NoFill EXCEPT !.here = TRUE]}] :
                     \A f \in FillIds : a[f].here => f \in OldFills}

-----------------------------------------------------------------------------
(* initialize *)

StartsAt(s) ==
  /\ phase = "down" /\ starts < MaxStarts
  /\ phase' = s /\ starts' = starts + 1
  /\ UNCHANGED <<columns, table, archive, people, unowned, ownerless>>

\* grid_bots and grid_levels are there from here on.
CreatesTables == StartsAt("original")

\* Mutant: every row takes its investment of today for the original one.
AddsOriginalAnew ==
  /\ phase = "original" /\ phase' = "quantity"
  /\ columns' = columns \cup {"original"}
  /\ table' = [b \in BotIds |->
       IF table[b].here THEN [table[b] EXCEPT !.original = table[b].invested] ELSE table[b]]
  /\ UNCHANGED <<archive, people, starts, unowned, ownerless>>

\* original_investment_usdt, and its value for the rows that have none.
AddsOriginal ==
  /\ phase = "original" /\ phase' = "quantity"
  /\ columns' = columns \cup {"original"}
  /\ table' = [b \in BotIds |->
       IF table[b].here /\ table[b].original = Null
         THEN [table[b] EXCEPT !.original = table[b].invested] ELSE table[b]]
  /\ UNCHANGED <<archive, people, starts, unowned, ownerless>>

\* A step whose rows no property tells apart.
Adds(c, after) ==
  /\ phase = c /\ phase' = after
  /\ columns' = columns \cup {c}
  /\ UNCHANGED <<table, archive, people, starts, unowned, ownerless>>

\* quantity_per_level, from the first level of a row that has none.
AddsQuantity == Adds("quantity", "options")

\* The options of a bot, and the state of its levels.
AddsOptions == Adds("options", "ledgers")

\* Cash movements, orders, trades and funding.
AddsLedgers == Adds("ledgers", "snapshots")

\* The daily snapshots of the old schema get the columns of the new one.
AddsSnapshots == Adds("snapshots", "fills")

\* fills_archive.bot_id: with one bot in the table the fills of none are its.
AttributesFills ==
  /\ phase = "fills" /\ phase' = "owners"
  /\ archive' = IF Cardinality(Here) = 1
       THEN [f \in FillIds |->
              IF archive[f].here /\ archive[f].bot = Null
                THEN [archive[f] EXCEPT !.bot = CHOOSE b \in BotIds : b \in Here]
                ELSE archive[f]]
       ELSE archive
  /\ UNCHANGED <<columns, table, people, starts, unowned, ownerless>>

\* users and what belongs to them, user_id everywhere, and its triggers.
AddsOwners ==
  /\ phase = "owners" /\ phase' = "count"
  /\ columns' = columns \cup {"user"}
  /\ UNCHANGED <<table, archive, people, starts, unowned, ownerless>>

-----------------------------------------------------------------------------
(* ownerBootstrap, then the engine *)

\* OWNER_EMAIL is not set, or there are users: nothing is assigned.
BootstrapSkips ==
  /\ phase = "count" /\ phase' = "up"
  /\ UNCHANGED <<columns, table, archive, people, starts, unowned, ownerless>>

BootstrapCreates ==
  /\ phase = "count" /\ people = 0
  /\ people' = 1
  /\ phase' = "bots"
  /\ UNCHANGED <<columns, table, archive, starts, unowned, ownerless>>

BootstrapOwnsBots ==
  /\ phase = "bots" /\ phase' = "children"
  /\ table' = [b \in BotIds |->
       IF table[b].here /\ table[b].user = Null THEN [table[b] EXCEPT !.user = 1] ELSE table[b]]
  /\ UNCHANGED <<columns, archive, people, starts, unowned, ownerless>>

\* Mutant: only the rows that a bot is known for.
BootstrapOwnsAttributed ==
  /\ phase = "children" /\ phase' = "up"
  /\ archive' = [f \in FillIds |->
       IF archive[f].here /\ archive[f].user = Null /\ archive[f].bot # Null
         THEN [archive[f] EXCEPT !.user = 1] ELSE archive[f]]
  /\ ownerless' = {}
  /\ UNCHANGED <<columns, table, people, starts, unowned>>

\* The tables of what the bots did.
BootstrapOwnsChildren ==
  /\ phase = "children" /\ phase' = "up"
  /\ archive' = [f \in FillIds |->
       IF archive[f].here /\ archive[f].user = Null
         THEN [archive[f] EXCEPT !.user = 1] ELSE archive[f]]
  /\ ownerless' = {}
  /\ UNCHANGED <<columns, table, people, starts, unowned>>

\* The process dies or is stopped; a step that throws ends it too.  A bootstrap
\* that was under way is not taken up again: there is a user now.
ProcessEnds ==
  /\ phase # "down" /\ phase' = "down"
  /\ unowned' = (unowned \/ phase \in {"bots", "children"})
  /\ UNCHANGED <<columns, table, archive, people, starts, ownerless>>

-----------------------------------------------------------------------------
(* While the process is up *)

SignsUp ==
  /\ phase = "up" /\ people < 2
  /\ people' = people + 1
  /\ unowned' = (unowned \/ people = 0)
  /\ UNCHANGED <<phase, columns, table, archive, starts, ownerless>>

\* createBot, for a user or, by the legacy API, for user 1.
NewBot(b, amount, u) ==
  /\ phase = "up" /\ b \notin OldBots /\ ~table[b].here /\ table[b].original = Null
  /\ u \in 1..people \cup {1}
  /\ table' = [table EXCEPT ![b] = [here |-> TRUE, invested |-> amount,
                                    original |-> amount, user |-> u]]
  /\ UNCHANGED <<phase, columns, archive, people, starts, unowned, ownerless>>

\* A compound, by the engine or by hand.
Compounds(b) ==
  /\ phase = "up" /\ table[b].here /\ table[b].invested < MaxInvested
  /\ table' = [table EXCEPT ![b].invested = @ + 1]
  /\ UNCHANGED <<phase, columns, archive, people, starts, unowned, ownerless>>

\* insertFillArchive, with its trigger, which takes the user from the bot's row; a
\* poll or a backfill may have read the bot before it was deleted.
Archives(f, b) ==
  /\ phase = "up" /\ ~archive[f].here /\ f \notin OldFills
  /\ table[b].original # Null
  /\ archive' = [archive EXCEPT ![f] = [here |-> TRUE, bot |-> b,
                                        user |-> IF table[b].here THEN table[b].user ELSE Null]]
  /\ ownerless' = IF table[b].here THEN ownerless ELSE ownerless \cup {f}
  /\ UNCHANGED <<phase, columns, table, people, starts, unowned>>

\* The legacy page archives the fills of the account for no bot, and the trigger
\* does not fire.
PageArchives(f) ==
  /\ phase = "up" /\ ~archive[f].here /\ f \notin OldFills
  /\ archive' = [archive EXCEPT ![f] = [NoFill EXCEPT !.here = TRUE]]
  /\ ownerless' = ownerless \cup {f}
  /\ UNCHANGED <<phase, columns, table, people, starts, unowned>>

\* deleteBot: an id is not used again; the fills stay.
Deletes(b) ==
  /\ phase = "up" /\ table[b].here
  /\ table' = [table EXCEPT ![b].here = FALSE]
  /\ UNCHANGED <<phase, columns, archive, people, starts, unowned, ownerless>>

StoreNext ==
  \/ CreatesTables \/ AddsOriginal \/ AddsQuantity \/ AddsOptions \/ AddsLedgers
  \/ AddsSnapshots \/ AttributesFills \/ AddsOwners
  \/ BootstrapSkips \/ BootstrapCreates \/ BootstrapOwnsBots \/ BootstrapOwnsChildren
  \/ ProcessEnds \/ SignsUp
  \/ \E b \in BotIds :
       \/ \E amount \in Deposits, u \in 1..2 : NewBot(b, amount, u)
       \/ Compounds(b) \/ Deletes(b) \/ \E f \in FillIds : Archives(f, b)
  \/ \E f \in FillIds : PageArchives(f)

StoreSpec == StoreInit /\ [][StoreNext]_storeVars

-----------------------------------------------------------------------------
\* The original investment of a bot, once set, stays whatever is compounded and
\* however often the process starts again (initialize: "the cash deposit at bot
\* creation, immutable").
OriginalIsKept ==
  [][\A b \in BotIds : table[b].original # Null => table'[b].original = table[b].original]_storeVars

\* Once there is an owner, every bot has one when the process is up, and every fill
\* but those that came, after the bootstrap, with no bot whose row could name the
\* owner: the old rows and the new ones alike, unless someone signed up before the
\* bootstrap or it was broken off half way (ownerBootstrap: "backfills every existing
\* per-bot row").
EveryRowOwned ==
  phase = "up" /\ people > 0 /\ ~unowned =>
    /\ \A b \in Here : table[b].user # Null
    /\ \A f \in FillIds \ ownerless : archive[f].here => archive[f].user # Null
=============================================================================
