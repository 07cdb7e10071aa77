----------------------------- MODULE RateBucket -----------------------------
(***************************************************************************)
(* The rate bucket of one GRVT account (RateLimiter.waitIfNeeded), which   *)
(* every client and bot of the account shares.  A caller that finds the    *)
(* window full sleeps and then sends without looking again, and it notes   *)
(* the time at which it came, not the one at which it sends.               *)
(***************************************************************************)
EXTENDS Integers, Sequences, FiniteSets

CONSTANTS
  Senders,      \* callers of waitIfNeeded
  MaxRequests,  \* requests a window takes (10 in the code)
  Window,       \* its length in ticks
  Margin,       \* what is waited beyond it
  LastTick      \* bound on the time

ASSUME RateBucketAssumption ==
  /\ MaxRequests \in Nat \ {0} /\ Window \in Nat \ {0} /\ Margin \in Nat
  /\ LastTick \in Nat \ {0} /\ IsFiniteSet(Senders)

VARIABLES
  tick,
  requests, \* RateLimiter.requests: times, in the order they were noted
  sleepers, \* per caller since when and until when it sleeps, or 0 and 0
  atOnce,   \* ghost: when the requests went out that did not sleep
  woken     \* ghost: per tick how many went out of those that slept

bucketVars == <<tick, requests, sleepers, atOnce, woken>>

Awake == [since |-> 0, until |-> 0]
Times == 1..LastTick

BucketTypeOK ==
  /\ tick \in Times
  /\ requests \in Seq(Times)
  /\ sleepers \in [Senders -> [since : 0..LastTick, until : 0..LastTick + Window + Margin]]
  /\ atOnce \in Seq(Times)
  /\ woken \in [Times -> Nat]

BucketInit ==
  /\ tick = 1
  /\ requests = <<>>
  /\ sleepers = [c \in Senders |-> Awake]
  /\ atOnce = <<>>
  /\ woken = [t \in Times |-> 0]

\* The requests that are still in the window.
Recent ==
  LET kept[i \in 0..Len(requests)] ==
        IF i = 0 THEN <<>>
        ELSE IF tick - requests[i] < Window THEN Append(kept[i - 1], requests[i])
        ELSE kept[i - 1]
  IN  kept[Len(requests)]

Goes(c) ==
  /\ sleepers[c] = Awake /\ Len(Recent) < MaxRequests
  /\ requests' = Append(Recent, tick)
  /\ atOnce' = Append(atOnce, tick)
  /\ UNCHANGED <<tick, sleepers, woken>>

\* The window is full: until the first noted request has left it.
FallsAsleep(c) ==
  /\ sleepers[c] = Awake /\ Len(Recent) >= MaxRequests
  /\ requests' = Recent
  /\ sleepers' = [sleepers EXCEPT ![c] =
       [since |-> tick, until |-> Head(Recent) + Window + Margin]]
  /\ UNCHANGED <<tick, atOnce, woken>>

\* The timer fires, late or in time.
WakesUp(c) ==
  /\ sleepers[c] # Awake /\ tick >= sleepers[c].until
  /\ requests' = Append(requests, sleepers[c].since)
  /\ woken' = [woken EXCEPT ![tick] = @ + 1]
  /\ sleepers' = [sleepers EXCEPT ![c] = Awake]
  /\ UNCHANGED <<tick, atOnce>>

Passes ==
  /\ tick < LastTick
  /\ tick' = tick + 1
  /\ UNCHANGED <<requests, sleepers, atOnce, woken>>

BucketNext ==
  \/ \E c \in Senders : Goes(c) \/ FallsAsleep(c) \/ WakesUp(c)
  \/ Passes

BucketSpec == BucketInit /\ [][BucketNext]_bucketVars

-----------------------------------------------------------------------------
\* The account's quota ("max 10 requests/segundo") holds for the requests that are
\* sent at once, in every window.  Those that slept are sent unlooked on top of it;
\* a caller wakes once a tick, so that they are no more in a tick than the callers
\* that share the bucket.
BurstIsBounded ==
  /\ \A i \in DOMAIN atOnce :
       i > MaxRequests => atOnce[i] - atOnce[i - MaxRequests] >= Window
  /\ \A t \in Times : woken[t] <= Cardinality(Senders)
=============================================================================
