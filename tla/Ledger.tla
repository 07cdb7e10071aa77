------------------------------- MODULE Ledger -------------------------------
(***************************************************************************)
(* The archive of fills of one account, the round trips paired from it and *)
(* the summary read from both.  Rows are written by the engine's poll      *)
(* (Profit has its inserts one by one), by the admin's backfill, which     *)
(* pages back through the history of GRVT, and by the page of the legacy   *)
(* dashboard; each start of the process attributes the rows of no bot.     *)
(*                                                                         *)
(* Every bot trades an instrument of its own, a fill is known by its place *)
(* in time, and all buys and sells are one spacing apart.                  *)
(***************************************************************************)
EXTENDS Integers, FiniteSets, Sequences

CONSTANTS
  AllBots,      \* bots that can exist; GRVT has fills of the instruments of all
  FirstBot,     \* the one that exists at first
  Unattributed, \* bot_id NULL
  MaxTrades,    \* bound on the fills
  GrvtCap,      \* fills GRVT returns at most, whatever the limit asked for
  MaxBatches    \* bound on maxBatches of the backfill

ASSUME LedgerAssumption ==
  /\ FirstBot \in AllBots /\ Unattributed \notin AllBots /\ MaxTrades \in Nat
  /\ GrvtCap \in Nat \ {0} /\ MaxBatches \in Nat \ {0}

VARIABLES
  roster,    \* the bots of grid_bots
  executed,  \* the fills of the account, by time: instrument, side, whether of the
             \* size of a level
  archived,  \* fills_archive: fill, what its fill_id is made of, bot_id
  matched,   \* paired_roundtrips: buy, sell (as fill_id), bot_id
  filling,   \* POST /admin/backfill-fills: under way or how the last one ended;
             \* deaf: GRVT ignores end_time
  summary,   \* GET /bots/:id/realized-summary under way, or what its last answer
             \* lacks: the fills of the trips it counts that it does not count
  legacy,    \* ghost: the page of the legacy dashboard was asked for
  strays     \* ghost: fills the backfill archived for a bot of another instrument

ledgerVars == <<roster, executed, archived, matched, filling, summary, legacy, strays>>

FillId(r) == <<r.fill, r.key>>
NoFilling == [at |-> "idle", bot |-> Unattributed, deaf |-> FALSE, end |-> MaxTrades, oldest |-> 0,
              batches |-> 0, batch |-> {}, known |-> {}]
NoSummary == [at |-> "none", bot |-> Unattributed, matched |-> {}, fills |-> {}, lacks |-> {}]

LedgerTypeOK ==
  /\ roster \subseteq AllBots
  /\ executed \in Seq([pair : AllBots, buy : BOOLEAN, level : BOOLEAN])
  /\ Len(executed) <= MaxTrades
  /\ \A r \in archived : r.fill \in DOMAIN executed /\ r.key \in {"time", "id"}
                         /\ r.bot \in AllBots \cup {Unattributed}
  /\ \A t \in matched : {t.buy, t.sell} \subseteq {FillId(r) : r \in archived}
  /\ filling.at \in {"idle", "ask", "insert", "empty", "stalled", "capped"}
  /\ filling.batches \in 0..MaxBatches /\ filling.batch \subseteq DOMAIN executed
  /\ summary.at \in {"none", "matched", "answered"}
  /\ legacy \in BOOLEAN /\ strays \subseteq DOMAIN executed

LedgerInit ==
  /\ roster = {FirstBot}
  /\ executed = << >> /\ archived = {} /\ matched = {}
  /\ filling = NoFilling /\ summary = NoSummary
  /\ legacy = FALSE /\ strays = {}

\* INSERT OR IGNORE of the fills in fs, on the unique fill_id.
Inserted(fs, key, b) ==
  archived \cup {[fill |-> f, key |-> key, bot |-> b] :
                   f \in {g \in fs : \A r \in archived : FillId(r) # <<g, key>>}}

\* INSERT OR IGNORE of the pairs in ps, on the unique pair of fill_ids.
Stored(ps, b) ==
  matched \cup {[buy |-> p[1], sell |-> p[2], bot |-> b] :
                  p \in {q \in ps : \A t \in matched : <<t.buy, t.sell>> # q}}

\* /trading/fill_history: the newest fills up to a time, of every instrument.
Answer(end) ==
  LET upTo == {f \in DOMAIN executed : f <= end}
  IN  {f \in upTo : Cardinality({g \in upTo : g > f}) < GrvtCap}

\* Bound: between two starts of the process a summary, a backfill or the legacy page.
Unasked == filling = NoFilling /\ summary = NoSummary /\ ~legacy

\* Rows in time order: of two of one fill that under its own id comes first.
IdAt(p) == <<(p + 1) \div 2, IF p % 2 = 1 THEN "id" ELSE "time">>
Earlier(r, q) == r.fill < q.fill \/ (r.fill = q.fill /\ r.key = "id" /\ q.key = "time")

-----------------------------------------------------------------------------
(* The account and the engine *)

Trade(b, buy, level) ==
  /\ Len(executed) < MaxTrades
  /\ executed' = Append(executed, [pair |-> b, buy |-> buy, level |-> level])
  /\ UNCHANGED <<roster, archived, matched, filling, summary, legacy, strays>>

\* An order of a level executes, or one that was placed elsewhere.
LevelFills(b, buy) == Trade(b, buy, TRUE)

\* POST /admin/manual-trade: an order across the market of any size up to five, on the
\* instrument of a bot that exists; the levels do not know of it.
ManualTrade(b, buy) == b \in roster /\ Trade(b, buy, FALSE)

Creates(b) ==
  /\ b \notin roster
  /\ roster' = roster \cup {b}
  /\ UNCHANGED <<executed, archived, matched, filling, summary, legacy, strays>>

\* Mutant: the fills of every instrument are the bot's.
PollTakesAll(b) ==
  /\ b \in roster
  /\ archived' = Inserted(Answer(MaxTrades), "time", b)
  /\ UNCHANGED <<roster, executed, matched, filling, summary, legacy, strays>>

\* pollFillArchive, for one bot.
Poll(b) ==
  /\ b \in roster
  /\ archived' = Inserted({f \in Answer(MaxTrades) : executed[f].pair = b}, "time", b)
  /\ UNCHANGED <<roster, executed, matched, filling, summary, legacy, strays>>

\* calculateRealGridProfit: each sell takes the oldest buy that waits.
Joined(walk, id) ==
  IF executed[id[1]].buy THEN [walk EXCEPT !.wait = Append(@, id)]
  ELSE IF walk.wait = << >> THEN walk
  ELSE [wait |-> Tail(walk.wait), found |-> walk.found \cup {<<Head(walk.wait), id>>}]

PairUp(rs) ==
  LET ids == {FillId(r) : r \in rs}
      walk[p \in 0..2 * MaxTrades] ==
        IF p = 0 THEN [wait |-> << >>, found |-> {}]
        ELSE IF IdAt(p) \in ids THEN Joined(walk[p - 1], IdAt(p))
        ELSE walk[p - 1]
  IN  walk[2 * MaxTrades].found

Walked(b) == PairUp({r \in archived : r.bot = b})

Matches(b) ==
  /\ b \in roster
  /\ matched' = Stored(Walked(b), b)
  /\ UNCHANGED <<roster, executed, archived, filling, summary, legacy, strays>>

\* initializeTables: with one bot in the table the rows of none are its, and a trip
\* of none is of the bot of its buy.
Restarts ==
  /\ LET owner == IF Cardinality(roster) = 1 THEN CHOOSE b \in roster : TRUE ELSE Unattributed
     IN  archived' = {[r EXCEPT !.bot = IF @ = Unattributed THEN owner ELSE @] : r \in archived}
  /\ LET botOf(id) == (CHOOSE r \in archived' : FillId(r) = id).bot
     IN  matched' = {[t EXCEPT !.bot = IF @ = Unattributed THEN botOf(t.buy) ELSE @] : t \in matched}
  /\ filling' = NoFilling /\ summary' = NoSummary
  /\ UNCHANGED <<roster, executed, legacy, strays>>

-----------------------------------------------------------------------------
(* The dashboards *)

\* calculateRealPnL of the legacy dashboard: it archives what GRVT returns under the
\* fill's own id and without a bot, and pairs what is unpaired and of the size of a
\* level, in time order.
LegacyPage ==
  /\ Unasked /\ legacy' = TRUE
  /\ archived' = Inserted(Answer(MaxTrades), "id", Unattributed)
  /\ LET joined == {t.buy : t \in matched} \cup {t.sell : t \in matched}
         loose(buy) == {r \in archived' : /\ executed[r.fill].buy = buy
                                          /\ executed[r.fill].level
                                          /\ FillId(r) \notin joined}
         rank(r) == Cardinality({q \in loose(executed[r.fill].buy) : Earlier(q, r)})
         pairs == {p \in loose(TRUE) \X loose(FALSE) : rank(p[1]) = rank(p[2])}
     IN  matched' = Stored({<<FillId(p[1]), FillId(p[2])>> : p \in pairs}, Unattributed)
  /\ UNCHANGED <<roster, executed, filling, summary, strays>>

MatchedOf(b) == {t \in matched : t.bot = b}
FillsOf(b) == {FillId(r) : r \in {q \in archived : q.bot = b}}

\* GET /bots/:id/realized-summary reads the trips and then the fills.
SummaryStarts(b) ==
  /\ b \in roster /\ Unasked
  /\ summary' = [NoSummary EXCEPT !.at = "matched", !.bot = b, !.matched = MatchedOf(b)]
  /\ UNCHANGED <<roster, executed, archived, matched, filling, legacy, strays>>

SummaryEnds ==
  /\ summary.at = "matched"
  /\ summary' = [NoSummary EXCEPT !.at = "answered",
                   !.lacks = (UNION {{t.buy, t.sell} : t \in summary.matched})
                             \ FillsOf(summary.bot)]
  /\ UNCHANGED <<roster, executed, archived, matched, filling, legacy, strays>>

-----------------------------------------------------------------------------
(* POST /admin/backfill-fills *)

BackfillStarts(b) ==
  /\ b \in roster /\ Unasked
  /\ \E deaf \in BOOLEAN :
       filling' = [NoFilling EXCEPT !.at = "ask", !.bot = b, !.deaf = deaf,
                                    !.known = DOMAIN executed]
  /\ UNCHANGED <<roster, executed, archived, matched, summary, legacy, strays>>

\* One answer: nothing left, the same oldest fill as before, or a batch to insert.
BackfillAsks ==
  /\ filling.at = "ask"
  /\ LET batch == Answer(IF filling.deaf THEN MaxTrades ELSE filling.end)
         oldest == IF batch = {} THEN 0 ELSE CHOOSE f \in batch : \A g \in batch : f <= g
     IN  \/ batch = {}
            /\ filling' = [NoFilling EXCEPT !.at = "empty", !.known = filling.known]
         \/ batch # {} /\ oldest = filling.oldest
            /\ filling' = [NoFilling EXCEPT !.at = "stalled"]
         \/ batch # {} /\ oldest # filling.oldest
            /\ filling' = [filling EXCEPT !.at = "insert", !.batches = @ + 1,
                                          !.batch = batch, !.oldest = oldest]
  /\ UNCHANGED <<roster, executed, archived, matched, summary, legacy, strays>>

\* Every fill of the batch is archived as the bot's, whatever its instrument; the
\* next batch is strictly older, and any may be the last that the body allows.
BackfillInserts ==
  /\ filling.at = "insert"
  /\ archived' = Inserted(filling.batch, "time", filling.bot)
  /\ \/ filling' = [NoFilling EXCEPT !.at = "capped"]
     \/ /\ filling.batches < MaxBatches
        /\ filling' = [filling EXCEPT !.at = "ask", !.end = filling.oldest - 1, !.batch = {}]
  /\ strays' = strays \cup {f \in filling.batch : executed[f].pair # filling.bot}
  /\ UNCHANGED <<roster, executed, matched, summary, legacy>>

\* GRVT does not answer: 500, and what was inserted stays.
BackfillFails ==
  /\ filling.at = "ask"
  /\ filling' = NoFilling
  /\ UNCHANGED <<roster, executed, archived, matched, summary, legacy, strays>>

LedgerNext ==
  \/ \E b \in AllBots : \/ \E buy \in BOOLEAN : LevelFills(b, buy) \/ ManualTrade(b, buy)
                     \/ Creates(b) \/ Poll(b) \/ Matches(b)
                     \/ SummaryStarts(b) \/ BackfillStarts(b)
  \/ Restarts \/ LegacyPage \/ SummaryEnds
  \/ BackfillAsks \/ BackfillInserts \/ BackfillFails

LedgerSpec == LedgerInit /\ [][LedgerNext]_ledgerVars

-----------------------------------------------------------------------------
\* A fill is archived once, so its fee is charged once, unless the legacy dashboard
\* was asked for its page: it archives the same fills under other ids
\* (grid-engine.ts:2917-2927, dashboard/server.ts:1326).
FillsCountOnce ==
  ~legacy => \A r, q \in archived : r.fill = q.fill => r = q

\* Each bot is charged with the fills of its own instrument: GRVT answers with those
\* of all, and only a backfill archives them as they come (grid-engine.ts:2960-2967,
\* v2-router.ts:1935).
FillsAreOwn ==
  ~legacy => \A r \in archived : executed[r.fill].pair = r.bot \/ r.fill \in strays

\* A backfill that ran until nothing was left has archived every fill there was when
\* it began (v2-router.ts:1971-1977).
BackfillReachesBack ==
  filling.at = "empty" => filling.known \subseteq {r.fill : r \in archived}

\* A summary counts both fills, and with them both fees, of each round trip it counts
\* (v2-router.ts:1736-1752).
SummaryIsWhole ==
  ~legacy => summary.lacks = {}

=============================================================================
