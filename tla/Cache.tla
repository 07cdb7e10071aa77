-------------------------------- MODULE Cache --------------------------------
(***************************************************************************)
(* The TTL cache between the API and GRVT (server/cache.ts), for one key.  *)
(* A caller that finds no fresh value fetches one and stores it when it    *)
(* has come back; two callers may fetch at the same time, and a value that *)
(* was read early may be stored late.  Time passes in ticks; a fetch that  *)
(* lasts longer than MaxFetch has failed.                                  *)
(***************************************************************************)
EXTENDS Integers

CONSTANTS
  Callers,
  TTL,       \* life of an entry
  MaxFetch,  \* the longest a fetch lasts before it fails
  Horizon    \* bound on the time

ASSUME CacheAssumption ==
  /\ TTL \in Nat \ {0} /\ MaxFetch \in Nat /\ Horizon \in Nat

VARIABLES
  clock,
  entry,   \* the stored value: when GRVT was read, and until when it is fresh
  fetches, \* per caller its fetch: since when, and when GRVT was read
  answers  \* per caller when the value it was last answered had been read

cacheVars == <<clock, entry, fetches, answers>>

Never == -1
NoFetch == [since |-> Never, read |-> Never]

CacheTypeOK ==
  /\ clock \in 0..Horizon
  /\ entry \in [read : -1..Horizon, until : -1..Horizon + TTL]
  /\ fetches \in [Callers -> [since : -1..Horizon, read : -1..Horizon]]
  /\ answers \in [Callers -> -1..Horizon]

CacheInit ==
  /\ clock = 0
  /\ entry = [read |-> Never, until |-> Never]
  /\ fetches = [c \in Callers |-> NoFetch]
  /\ answers = [c \in Callers |-> Never]

\* Mutant: an entry is fresh until the next one.
FreshAlways == entry.read # Never

\* TtlCache.get: an entry that has expired is none.
Fresh == entry.read # Never /\ clock <= entry.until

\* The caller's answer has been used.
Reset == [c \in Callers |-> Never]

\* getOrFetch: a hit.
Hits(c) ==
  /\ fetches[c] = NoFetch /\ Fresh
  /\ answers' = [Reset EXCEPT ![c] = entry.read]
  /\ UNCHANGED <<clock, entry, fetches>>

\* getOrFetch: a miss; nobody waits for a fetch that is under way.
Misses(c) ==
  /\ fetches[c] = NoFetch /\ ~Fresh
  /\ fetches' = [fetches EXCEPT ![c].since = clock]
  /\ answers' = Reset
  /\ UNCHANGED <<clock, entry>>

\* GRVT answers the fetch.
Fetched(c) ==
  /\ fetches[c].since # Never /\ fetches[c].read = Never
  /\ fetches' = [fetches EXCEPT ![c].read = clock]
  /\ answers' = Reset
  /\ UNCHANGED <<clock, entry>>

\* Mutant: the life of an entry is counted twice.
StoresLonger(c) ==
  /\ fetches[c].read # Never
  /\ entry' = [read |-> fetches[c].read, until |-> clock + 2 * TTL]
  /\ answers' = [Reset EXCEPT ![c] = fetches[c].read]
  /\ fetches' = [fetches EXCEPT ![c] = NoFetch]
  /\ UNCHANGED clock

\* The value has come back: stored from now on, over any other, and answered.
Stores(c) ==
  /\ fetches[c].read # Never
  /\ entry' = [read |-> fetches[c].read, until |-> clock + TTL]
  /\ answers' = [Reset EXCEPT ![c] = fetches[c].read]
  /\ fetches' = [fetches EXCEPT ![c] = NoFetch]
  /\ UNCHANGED clock

\* The fetch fails: nothing is stored.
FetchFails(c) ==
  /\ fetches[c].since # Never
  /\ fetches' = [fetches EXCEPT ![c] = NoFetch]
  /\ answers' = Reset
  /\ UNCHANGED <<clock, entry>>

\* invalidate, invalidatePrefix: the entry goes, a fetch under way does not.
Invalidates ==
  /\ entry.read # Never
  /\ entry' = [read |-> Never, until |-> Never]
  /\ answers' = Reset
  /\ UNCHANGED <<clock, fetches>>

\* A fetch that has lasted MaxFetch does not see another tick.
TimePasses ==
  /\ clock < Horizon
  /\ \A c \in Callers : fetches[c].since # Never => clock < fetches[c].since + MaxFetch
  /\ clock' = clock + 1
  /\ answers' = Reset
  /\ UNCHANGED <<entry, fetches>>

CacheNext ==
  \/ \E c \in Callers : Hits(c) \/ Misses(c) \/ Fetched(c) \/ Stores(c) \/ FetchFails(c)
  \/ Invalidates
  \/ TimePasses

CacheSpec == CacheInit /\ [][CacheNext]_cacheVars

-----------------------------------------------------------------------------
\* An answer was true of GRVT at most the life of an entry and one fetch ago,
\* whatever callers overlap and whatever is stored late ("a 2-second TTL ...
\* without making the data feel stale").
AnswersAreRecent ==
  \A c \in Callers : answers[c] # Never => clock - answers[c] <= TTL + MaxFetch
=============================================================================
