------------------------------ MODULE Notifier ------------------------------
(***************************************************************************)
(* The notifier daemon (packages/notifier).  A tick reads the bots and     *)
(* goes through five checks; a check plans its messages, sends them one    *)
(* after the other, and only then saves what it has told (StateStore).     *)
(* The process may die, and a read may fail, between a message and the     *)
(* save.  Every owner has one bot.                                         *)
(***************************************************************************)
EXTENDS Integers, Sequences, FiniteSets, FiniteSetsExt

CONSTANTS
  Owners,         \* owners of bots
  Known,          \* the owners that have a bot when the notifier first starts
  PageSize,       \* rows a tick reads (500 in the code)
  Batch,          \* NOTIFY_FILL_BATCH
  MaxTrips,       \* bound on the round trips
  MaxNews,        \* bound on the changes of bots and of the day
  MaxNotifyFaults \* bound on crashes, failed reads and failed saves

ASSUME NotifierAssumption ==
  /\ Known \subseteq Owners /\ IsFiniteSet(Owners)
  /\ PageSize \in Nat \ {0} /\ Batch \in Nat \ {0}
  /\ MaxTrips \in Nat /\ MaxNews \in Nat /\ MaxNotifyFaults \in Nat

VARIABLES
  trips,     \* paired_roundtrips: the owner of each row, by id
  fleet,     \* grid_bots: per owner the status, equity, liquidation bucket
  seen,      \* the bots as the tick has read them
  today,     \* the UTC day
  saved,     \* state.json
  mem,       \* StateStore.state
  check,     \* where the tick is: "down", "idle" or the check it runs
  todo,      \* the messages the check still has to send
  patch,     \* the state the check will save
  news,      \* changes so far
  faults,    \* crashes and failures so far
  passed,    \* ghost: the round trips older than the first start
  skipped,   \* ghost: those that no page will show, of owners without a cursor
  toldTrips, \* ghost: how often each round trip was told
  told       \* ghost: the other messages sent

notifierVars == <<trips, fleet, seen, today, saved, mem, check, todo, patch,
                  news, faults, passed, skipped, toldTrips, told>>
worldVars == <<trips, fleet, today, news>>

NoEntry == -1
NoBotRow == [status |-> "none", equity |-> 0, near |-> 0]
BotRows == [status : {"none", "running", "paused"}, equity : 0..2, near : 0..1]
FreshState ==
  [cursors |-> [u \in Owners |-> NoEntry], status |-> [u \in Owners |-> "none"],
   hwm |-> [u \in Owners |-> NoEntry], hash |-> [u \in Owners |-> <<>>],
   summary |-> NoEntry]
Checks == <<"status", "drawdown", "liquidation", "trips", "summary">>

NotifierTypeOK ==
  /\ trips \in Seq(Owners) /\ Len(trips) <= MaxTrips
  /\ fleet \in [Owners -> BotRows] /\ seen \in [Owners -> BotRows]
  /\ today \in 0..MaxNews /\ news \in 0..MaxNews /\ faults \in 0..MaxNotifyFaults
  /\ \A s \in {saved, mem, patch} :
       /\ s.cursors \in [Owners -> -1..MaxTrips]
       /\ s.status \in [Owners -> {"none", "running", "paused"}]
       /\ s.hwm \in [Owners -> -1..2]
       /\ s.summary \in -1..MaxNews
  /\ check \in {"down", "idle"} \cup {Checks[i] : i \in 1..5}
  /\ \A e \in todo : e.owner \in Owners
  /\ passed \subseteq 1..MaxTrips /\ skipped \subseteq 1..MaxTrips
  /\ toldTrips \in [1..MaxTrips -> 0..MaxNotifyFaults + 1]

NotifierInit ==
  /\ trips = <<>>
  /\ fleet = [u \in Owners |->
                IF u \in Known THEN [status |-> "running", equity |-> 1, near |-> 0]
                ELSE NoBotRow]
  /\ seen = fleet
  /\ today = 0
  /\ saved = FreshState /\ mem = FreshState /\ patch = FreshState
  /\ check = "down" /\ todo = {}
  /\ news = 0 /\ faults = 0
  /\ passed = {} /\ skipped = {}
  /\ toldTrips = [i \in 1..MaxTrips |-> 0]
  /\ told = {}

-----------------------------------------------------------------------------
(* The bot's side. *)

RoundTrip(u) ==
  /\ Len(trips) < MaxTrips
  /\ fleet[u] # NoBotRow
  /\ trips' = Append(trips, u)
  /\ UNCHANGED <<fleet, today, news, seen, saved, mem, check, todo, patch, faults,
                 passed, skipped, toldTrips, told>>

\* A bot is created, starts or stops, gains or loses, nears its liquidation.
BotChanges(u, row) ==
  /\ news < MaxNews
  /\ row # fleet[u] /\ row.status # "none"
  /\ fleet' = [fleet EXCEPT ![u] = row]
  /\ news' = news + 1
  /\ UNCHANGED <<trips, today, seen, saved, mem, check, todo, patch, faults,
                 passed, skipped, toldTrips, told>>

NextDay ==
  /\ news < MaxNews
  /\ today' = today + 1
  /\ news' = news + 1
  /\ UNCHANGED <<trips, fleet, seen, saved, mem, check, todo, patch, faults,
                 passed, skipped, toldTrips, told>>

-----------------------------------------------------------------------------
(* start, tick *)

\* The ids of u's round trips.
TripsOf(u) == {i \in DOMAIN trips : trips[i] = u}

\* Notifier.start: the saved state is loaded; without a cursor in it every owner
\* with a bot or a round trip starts after its latest one.
Boots ==
  /\ check = "down"
  /\ check' = "idle" /\ todo' = {} /\ seen' = fleet
  /\ LET first == [saved EXCEPT
           !.cursors = [u \in Owners |->
              IF fleet[u] # NoBotRow \/ TripsOf(u) # {} THEN Max({0} \cup TripsOf(u))
              ELSE NoEntry],
           !.hwm = [u \in Owners |->
              IF fleet[u] # NoBotRow THEN fleet[u].equity ELSE NoEntry]]
     IN  IF \A u \in Owners : saved.cursors[u] = NoEntry
           THEN mem' = first /\ passed' = passed \cup DOMAIN trips
           ELSE mem' = saved /\ passed' = passed
  /\ saved' = mem' /\ patch' = mem'
  /\ UNCHANGED <<worldVars, faults, skipped, toldTrips, told>>

\* Enter check c with messages ms and the state s to save after them.
Planned(c, ms, s) ==
  /\ check' = c /\ todo' = ms /\ patch' = s
  /\ UNCHANGED <<worldVars, saved, mem, faults, passed, toldTrips, told>>

\* tick, checkStatusTransitions.
StatusTransitions ==
  /\ check = "idle"
  /\ seen' = fleet /\ UNCHANGED skipped
  /\ Planned("status",
       {[kind |-> "status", owner |-> u, what |-> fleet[u].status] : u \in
          {v \in Owners : fleet[v] # NoBotRow /\ mem.status[v] # "none"
                          /\ mem.status[v] # fleet[v].status}},
       [mem EXCEPT !.status = [u \in Owners |->
          IF fleet[u] # NoBotRow THEN fleet[u].status ELSE mem.status[u]]])

\* The messages of check c are sent and saved.
Done(c) == check = c /\ todo = {} /\ mem = patch

\* checkDrawdown: a new high is noted; a drop is told once per high and bucket.
Drawdown ==
  /\ Done("status")
  /\ LET hwm(u) == IF mem.hwm[u] = NoEntry THEN seen[u].equity ELSE mem.hwm[u]
         rises == {u \in Owners : seen[u] # NoBotRow /\ seen[u].equity > hwm(u)}
         mark(u) == <<"dd", hwm(u), hwm(u) - seen[u].equity>>
         drops == {u \in Owners : seen[u] # NoBotRow /\ seen[u].equity < hwm(u)
                                  /\ mem.hash[u] # mark(u)}
     IN  Planned("drawdown",
           {[kind |-> "drawdown", owner |-> u, what |-> mark(u)] : u \in drops},
           [mem EXCEPT
              !.hwm = [u \in Owners |-> IF u \in rises THEN seen[u].equity ELSE mem.hwm[u]],
              !.hash = [u \in Owners |-> IF u \in drops THEN mark(u) ELSE mem.hash[u]]])
  /\ UNCHANGED <<seen, skipped>>

\* checkLiqProximity: told once per bucket, on the same mark as the drawdown.
LiqProximity ==
  /\ Done("drawdown")
  /\ LET mark(u) == <<"liq", seen[u].near>>
         close == {u \in Owners : seen[u].status = "running" /\ seen[u].near > 0
                                  /\ mem.hash[u] # mark(u)}
     IN  Planned("liquidation",
           {[kind |-> "liquidation", owner |-> u, what |-> mark(u)] : u \in close},
           [mem EXCEPT !.hash = [u \in Owners |->
              IF u \in close THEN mark(u) ELSE mem.hash[u]]])
  /\ UNCHANGED <<seen, skipped>>

Cursor(u) == IF mem.cursors[u] = NoEntry THEN 0 ELSE mem.cursors[u]
HasCursor == {u \in Owners : mem.cursors[u] # NoEntry}

\* getRoundtripsSince: the first rows after the smallest cursor.
PageStart == IF HasCursor = {} THEN 0 ELSE Min({mem.cursors[u] : u \in HasCursor})
Candidates == {i \in DOMAIN trips : i > PageStart /\ i <= PageStart + PageSize}

\* The rows before the page that their owner has not been told.
PassedOver == {i \in DOMAIN trips : i <= PageStart /\ i > Cursor(trips[i])}

\* The candidates that are news to u.
New(u) == {i \in Candidates : trips[i] = u /\ i > Cursor(u)}

\* checkRoundtrips: an owner with a full batch is told, the others are held.
Roundtrips ==
  /\ Done("liquidation")
  /\ LET full == {u \in Owners : Cardinality(New(u)) >= Batch}
     IN  Planned("trips",
           {[kind |-> "trips", owner |-> u, what |-> New(u)] : u \in full},
           [mem EXCEPT !.cursors = [u \in Owners |->
              IF u \in full THEN Max(New(u)) ELSE mem.cursors[u]]])
  /\ skipped' = skipped \cup PassedOver
  /\ UNCHANGED seen

\* checkDailySummary, in its hour: every running bot, once a day.
DailySummary ==
  /\ Done("trips")
  /\ mem.summary # today
  /\ Planned("summary",
       {[kind |-> "summary", owner |-> u, what |-> today] :
          u \in {v \in Owners : seen[v].status = "running"}},
       [mem EXCEPT !.summary = today])
  /\ UNCHANGED <<seen, skipped>>

\* The tick ends: muted after the critical checks, or after the last one.
TickEnds ==
  /\ \E c \in {"liquidation", "trips", "summary"} : Done(c)
  /\ check' = "idle"
  /\ UNCHANGED <<worldVars, seen, saved, mem, todo, patch, faults, passed, skipped, toldTrips, told>>

\* notify: the alert is recorded and sent; a sink that fails is passed over.
Sends(e) ==
  /\ todo' = todo \ {e}
  /\ IF e.kind = "trips"
       THEN /\ toldTrips' = [i \in 1..MaxTrips |->
                   IF i \in e.what THEN toldTrips[i] + 1 ELSE toldTrips[i]]
            /\ told' = told
       ELSE /\ told' = told \cup {<<e.kind, e.owner, e.what>>}
            /\ toldTrips' = toldTrips
  /\ UNCHANGED <<worldVars, seen, saved, mem, check, patch, faults, passed, skipped>>

\* Mutant: the state is saved before the messages are sent.
SavesFirst ==
  /\ check # "down" /\ mem # patch
  /\ mem' = patch /\ saved' = patch
  /\ UNCHANGED <<worldVars, seen, check, todo, patch, faults, passed, skipped, toldTrips, told>>

\* StateStore.update: memory and file, after the last message.
Saves ==
  /\ check # "down" /\ todo = {} /\ mem # patch
  /\ mem' = patch /\ saved' = patch
  /\ UNCHANGED <<worldVars, seen, check, todo, patch, faults, passed, skipped, toldTrips, told>>

NotifyFault == faults < MaxNotifyFaults /\ faults' = faults + 1

\* StateStore.update sets the memory and fails to write the file; the tick ends.
SaveFails ==
  /\ NotifyFault
  /\ check # "down" /\ todo = {} /\ mem # patch
  /\ mem' = patch /\ check' = "idle"
  /\ UNCHANGED <<worldVars, seen, saved, todo, patch, passed, skipped, toldTrips, told>>

\* A read of the database fails between two messages; the tick ends.
ReadFails ==
  /\ NotifyFault
  /\ check \in {"liquidation", "summary"} /\ mem # patch
  /\ check' = "idle" /\ todo' = {} /\ patch' = mem
  /\ UNCHANGED <<worldVars, seen, saved, mem, passed, skipped, toldTrips, told>>

NotifierDies ==
  /\ NotifyFault
  /\ check # "down"
  /\ check' = "down" /\ todo' = {} /\ patch' = saved /\ mem' = saved
  /\ UNCHANGED <<worldVars, seen, saved, passed, skipped, toldTrips, told>>

NotifierNext ==
  \/ \E u \in Owners : RoundTrip(u)
  \/ \E u \in Owners, row \in BotRows : BotChanges(u, row)
  \/ NextDay
  \/ Boots
  \/ StatusTransitions \/ Drawdown \/ LiqProximity \/ Roundtrips \/ DailySummary
  \/ TickEnds
  \/ \E e \in todo : Sends(e)
  \/ Saves \/ SaveFails \/ ReadFails \/ NotifierDies

NotifierSpec == NotifierInit /\ [][NotifierNext]_notifierVars

-----------------------------------------------------------------------------
\* What the state counts as told has been told: an owner's round trips up to the
\* cursor since the first start, the last drawdown or liquidation mark, the day's
\* summary of every running bot.  "Read from min cursor across users so a
\* slow-tracking user doesn't get permanently skipped" (index.ts:271-272) holds of
\* the owners that have a cursor: a tick passes over the rows of an owner that came
\* later and had no message yet, when they lie at or below the smallest cursor.
SavedMeansTold ==
  /\ \A i \in DOMAIN trips \ (passed \cup skipped) :
       i <= mem.cursors[trips[i]] => toldTrips[i] > 0
  /\ \A i \in skipped : trips[i] \notin Known
  /\ \A u \in Owners : mem.hash[u] # <<>> =>
       \E kind \in {"drawdown", "liquidation"} : <<kind, u, mem.hash[u]>> \in told
  /\ Done("summary") => \A u \in Owners :
       seen[u].status = "running" => <<"summary", u, mem.summary>> \in told

\* A round trip is told once, and again only for each crash or failed save
\* between its message and the saved cursor.
ToldOnce == \A i \in DOMAIN trips : toldTrips[i] <= 1 + faults
=============================================================================
