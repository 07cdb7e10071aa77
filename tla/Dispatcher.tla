----------------------------- MODULE Dispatcher -----------------------------
(***************************************************************************)
(* WsDispatcher: the poller that tells the round trips to the bus, and the *)
(* alerts it keeps of the engine's incidents.  A poll asks the database from lastBroadcastRoundtripId on   *)
(* and publishes when the answer comes; the next one does not wait for it. *)
(***************************************************************************)
EXTENDS Integers, FiniteSets

CONSTANTS
  Polls,       \* polls under way at once
  Incidents,   \* safeguard and margin pauses, failed closes, drifts, orphans
  MaxPairs,    \* bound: rows of paired_roundtrips
  MaxOutages   \* bound: failed queries, restarts of the process

ASSUME DispatchAssumption == MaxPairs \in Nat /\ MaxOutages \in Nat

VARIABLES
  pairs,     \* rows of paired_roundtrips: ids 1..pairs
  cursor,    \* lastBroadcastRoundtripId
  poller,    \* "off", "seeding" or "on"
  poll,      \* per poll: "idle", "asked" or "read", from where and up to where
  said,      \* how often each row was published, up to 2
  bots,      \* the bot's row is there
  incident,  \* per incident: "none", "acting", "lookup", "insert", "kept" or "lost"
  owner,     \* per incident: whom the alert is written for: "owner" or "first" (user 1)
  \* history
  seed,      \* the newest row when the poller was seeded
  gone,      \* per incident: the bot was deleted before the lookup
  outages

dispatchVars == <<pairs, cursor, poller, poll, said, bots, incident,
                  owner, seed, gone, outages>>
fillVars == <<cursor, poller, poll, said, seed>>
alertVars == <<bots, incident, owner, gone>>

NoPoll == [at |-> "idle", from |-> 0, upto |-> 0]

DispatchTypeOK ==
  /\ pairs \in 0..MaxPairs /\ cursor \in 0..MaxPairs /\ seed \in 0..MaxPairs
  /\ poller \in {"off", "seeding", "on"}
  /\ poll \in [Polls -> [at : {"idle", "asked", "read"}, from : 0..MaxPairs,
                         upto : 0..MaxPairs]]
  /\ said \in [1..MaxPairs -> 0..2]
  /\ bots \in BOOLEAN /\ gone \in [Incidents -> BOOLEAN]
  /\ incident \in [Incidents -> {"none", "acting", "lookup", "insert", "kept", "lost"}]
  /\ owner \in [Incidents -> {"owner", "first"}]
  /\ outages \in 0..MaxOutages

DispatchInit ==
  /\ pairs = 0 /\ cursor = 0 /\ poller = "off" /\ seed = 0
  /\ poll = [p \in Polls |-> NoPoll]
  /\ said = [k \in 1..MaxPairs |-> 0]
  /\ bots = TRUE
  /\ incident = [i \in Incidents |-> "none"]
  /\ owner = [i \in Incidents |-> "owner"] /\ gone = [i \in Incidents |-> FALSE]
  /\ outages = 0

Outage == outages < MaxOutages /\ outages' = outages + 1

-----------------------------------------------------------------------------
\* insertPairedRoundtrip
Pairs ==
  /\ pairs < MaxPairs /\ pairs' = pairs + 1
  /\ UNCHANGED <<fillVars, alertVars, outages>>

\* startFillPoller asks for the newest row; there is no poll before the answer,
\* and none at all when the query fails.
SeedAsked ==
  /\ poller = "off" /\ poller' = "seeding"
  /\ UNCHANGED <<pairs, cursor, poll, said, seed, alertVars, outages>>

Seeded ==
  /\ poller = "seeding" /\ poller' = "on"
  /\ cursor' = pairs /\ seed' = pairs
  /\ UNCHANGED <<pairs, poll, said, alertVars, outages>>

\* broadcastNewFills, by the interval
PollAsks(p) ==
  /\ poller = "on" /\ poll[p].at = "idle"
  /\ poll' = [poll EXCEPT ![p] = [at |-> "asked", from |-> cursor, upto |-> cursor]]
  /\ UNCHANGED <<pairs, cursor, poller, said, seed, alertVars, outages>>

\* The query runs.
PollReads(p) ==
  /\ poll[p].at = "asked"
  /\ poll' = [poll EXCEPT ![p].at = "read", ![p].upto = pairs]
  /\ UNCHANGED <<pairs, cursor, poller, said, seed, alertVars, outages>>

PollFails(p) ==
  /\ poll[p].at = "asked" /\ Outage
  /\ poll' = [poll EXCEPT ![p] = NoPoll]
  /\ UNCHANGED <<pairs, cursor, poller, said, seed, alertVars>>

\* The cursor follows the rows of this answer, which may be older than those of
\* another; an empty answer leaves it.
Follows(p) == cursor' = IF poll[p].upto > poll[p].from THEN poll[p].upto ELSE cursor

Told(k, p) == poll[p].from < k /\ k <= poll[p].upto

\* The answer: every row goes to the bus.
PollTells(p) ==
  /\ poll[p].at = "read"
  /\ said' = [k \in 1..MaxPairs |-> IF Told(k, p) /\ said[k] < 2 THEN said[k] + 1 ELSE said[k]]
  /\ Follows(p)
  /\ poll' = [poll EXCEPT ![p] = NoPoll]
  /\ UNCHANGED <<pairs, poller, seed, alertVars, outages>>

-----------------------------------------------------------------------------
\* A brake acts, and emits its event when pauseBot or closeBot is over.
Acts(i) ==
  /\ incident[i] = "none" /\ bots
  /\ incident' = [incident EXCEPT ![i] = "acting"]
  /\ UNCHANGED <<pairs, fillVars, bots, owner, gone, outages>>

Emits(i) ==
  /\ incident[i] = "acting"
  /\ incident' = [incident EXCEPT ![i] = "lookup"]
  /\ UNCHANGED <<pairs, fillVars, bots, owner, gone, outages>>

\* The owner of the row; of a row that is gone, user 1.
OwnerOf(i) == IF bots THEN "owner" ELSE "first"

LooksUp(i) ==
  /\ incident[i] = "lookup"
  /\ \/ incident' = [incident EXCEPT ![i] = "insert"] /\ outages' = outages
     \/ incident' = [incident EXCEPT ![i] = "lost"] /\ Outage
  /\ owner' = [owner EXCEPT ![i] = OwnerOf(i)]
  /\ UNCHANGED <<pairs, fillVars, bots, gone>>

Records(i) ==
  /\ incident[i] = "insert"
  /\ \/ incident' = [incident EXCEPT ![i] = "kept"] /\ outages' = outages
     \/ incident' = [incident EXCEPT ![i] = "lost"] /\ Outage
  /\ UNCHANGED <<pairs, fillVars, bots, owner, gone>>

\* The bot is deleted.
BotDeleted ==
  /\ bots /\ bots' = FALSE
  /\ gone' = [i \in Incidents |-> incident[i] \in {"acting", "lookup"}]
  /\ UNCHANGED <<pairs, fillVars, incident, owner, outages>>

\* The process dies and starts again: what was under way is lost.
DispatchDies ==
  /\ Outage
  /\ cursor' = 0 /\ poller' = "off" /\ poll' = [p \in Polls |-> NoPoll]
  /\ incident' = [i \in Incidents |-> IF incident[i] \in {"none", "kept"}
                                      THEN incident[i] ELSE "lost"]
  /\ UNCHANGED <<pairs, said, seed, bots, owner, gone>>

DispatchNext ==
  \/ Pairs \/ SeedAsked \/ Seeded
  \/ \E p \in Polls : PollAsks(p) \/ PollReads(p) \/ PollFails(p) \/ PollTells(p)
  \/ \E i \in Incidents : Acts(i) \/ Emits(i) \/ LooksUp(i) \/ Records(i)
  \/ BotDeleted \/ DispatchDies

DispatchSpec == DispatchInit /\ [][DispatchNext]_dispatchVars

-----------------------------------------------------------------------------
\* No round trip paired since the poller was seeded is passed over, however the
\* polls overlap (broadcastNewFills, ws-dispatcher.ts:413: every row up to the
\* cursor has been published).
FillsAreSaid ==
  poller = "on" => \A k \in 1..MaxPairs : seed < k /\ k <= cursor => said[k] > 0

\* An alert is written for the owner of the bot, unless the bot was deleted
\* between the incident and the lookup (persistAlert, ws-dispatcher.ts:106).
AlertsFindOwner ==
  \A i \in Incidents : incident[i] = "kept" /\ owner[i] = "first" => gone[i]
=============================================================================
