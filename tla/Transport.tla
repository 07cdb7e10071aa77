----------------------------- MODULE Transport -----------------------------
(***************************************************************************)
(* The calls of one GRVTClient: the session they share (a cookie that GRVT *)
(* may drop at any time), the new login after a 401, the backoff of reads  *)
(* after a 429, and the fetch of public data that concurrent callers share *)
(* (coalesce).  Orders and the other mutations are never repeated after    *)
(* an error.  An answer may be lost when its request was accepted.         *)
(***************************************************************************)
EXTENDS Integers, FiniteSets

CONSTANTS
  Mutations,   \* calls of createOrder, cancelOrder, setLeverage
  Reads,       \* calls of getPositions, getOpenOrders, getBalance, ...
  Tickers,     \* calls of getTicker for one instrument
  NoCall,
  MaxRetries,  \* retries after a 429 (3 in the code)
  MaxSessions, \* bound on the sessions that GRVT opens
  MaxLosses    \* bound on lost answers and failed logins

ASSUME TransportAssumption ==
  /\ Mutations \cap Reads = {} /\ (Mutations \cup Reads) \cap Tickers = {}
  /\ NoCall \notin Tickers
  /\ MaxRetries \in Nat /\ MaxSessions \in Nat \ {0} /\ MaxLosses \in Nat

VARIABLES
  session,  \* AuthState: authenticated, its cookie, less than an hour left
  epoch,    \* the cookies older than this one are refused by GRVT
  calls,    \* per call where it is, the cookie it was sent with, its retries
  taken,    \* per mutation how often GRVT has carried it out
  pending,  \* coalesceInflight: the call that fetches the ticker
  kept,     \* coalesceCache holds a ticker
  losses    \* answers lost and logins failed so far

transportVars == <<session, epoch, calls, taken, pending, kept, losses>>

Calls == Mutations \cup Reads \cup Tickers
Fetching(c) == calls[c].at \in {"flight", "backoff"}

TransportTypeOK ==
  /\ session \in [on : BOOLEAN, cookie : 0..MaxSessions, aging : BOOLEAN]
  /\ epoch \in 1..MaxSessions
  /\ calls \in [Calls -> [at : {"idle", "login", "flight", "backoff", "joined", "done", "failed"},
                          cookie : 0..MaxSessions, tries : 0..MaxRetries]]
  /\ taken \in [Mutations -> 0..2]
  /\ pending \in Tickers \cup {NoCall}
  /\ kept \in BOOLEAN /\ losses \in 0..MaxLosses

TransportInit ==
  /\ session = [on |-> FALSE, cookie |-> 0, aging |-> FALSE]
  /\ epoch = 1
  /\ calls = [c \in Calls |-> [at |-> "idle", cookie |-> 0, tries |-> 0]]
  /\ taken = [c \in Mutations |-> 0]
  /\ pending = NoCall /\ kept = FALSE /\ losses = 0

Moves(c, where) == calls' = [calls EXCEPT ![c].at = where]
Loses == losses < MaxLosses /\ losses' = losses + 1

-----------------------------------------------------------------------------
(* authenticatedRequestWithState *)

\* The session serves, or a login comes first.
Enters(c) ==
  calls' = [calls EXCEPT
    ![c].at = IF session.on /\ ~session.aging THEN "flight" ELSE "login",
    ![c].cookie = session.cookie]

Begins(c) ==
  /\ c \in Mutations \cup Reads /\ calls[c].at = "idle"
  /\ Enters(c)
  /\ UNCHANGED <<session, epoch, taken, pending, kept, losses>>

\* authenticateWithKey; calls that need it at the same time each make a login.
LogsInAnew(c) ==
  /\ calls[c].at = "login"
  /\ session' = [on |-> TRUE, cookie |-> epoch, aging |-> FALSE]
  /\ calls' = [calls EXCEPT ![c].at = "flight", ![c].cookie = epoch]
  /\ UNCHANGED <<epoch, taken, pending, kept, losses>>

\* Refused, which leaves the session as it was, or unreachable.
LoginFails(c) ==
  /\ Loses
  /\ calls[c].at = "login"
  /\ session' \in {session, [session EXCEPT !.on = FALSE]}
  /\ Moves(c, "failed")
  /\ UNCHANGED <<epoch, taken, pending, kept>>

\* A 401: the session is over for every call, and this one is sent once more.
Unauthorised(c) ==
  /\ c \notin Tickers /\ calls[c].at = "flight" /\ calls[c].cookie < epoch
  /\ session' = [session EXCEPT !.on = FALSE]
  /\ Moves(c, "login")
  /\ UNCHANGED <<epoch, taken, pending, kept, losses>>

SessionAges ==
  /\ session.on /\ ~session.aging
  /\ session' = [session EXCEPT !.aging = TRUE]
  /\ UNCHANGED <<epoch, calls, taken, pending, kept, losses>>

SessionDropped ==
  /\ epoch < MaxSessions
  /\ epoch' = epoch + 1
  /\ UNCHANGED <<session, calls, taken, pending, kept, losses>>

-----------------------------------------------------------------------------
(* Mutations and reads *)

Heard(c) == calls[c].at = "flight" /\ (c \in Tickers \/ calls[c].cookie = epoch)

CarriedOut(c) ==
  taken' = IF c \in Mutations THEN [taken EXCEPT ![c] = @ + 1] ELSE taken

Answered(c) ==
  /\ c \notin Tickers /\ Heard(c)
  /\ CarriedOut(c)
  /\ Moves(c, "done")
  /\ UNCHANGED <<session, epoch, pending, kept, losses>>

\* The request is carried out and its answer never comes: the call throws.
AnswerLost(c) ==
  /\ Loses
  /\ c \notin Tickers /\ Heard(c)
  /\ CarriedOut(c)
  /\ Moves(c, "failed")
  /\ UNCHANGED <<session, epoch, pending, kept>>

\* A mutation throws; a read waits and tries again, MaxRetries times.
MayRetry(c) == c \notin Mutations /\ calls[c].tries < MaxRetries

TooMany(c) ==
  /\ Heard(c) /\ MayRetry(c)
  /\ calls' = [calls EXCEPT ![c].at = "backoff", ![c].tries = @ + 1]
  /\ UNCHANGED <<session, epoch, taken, pending, kept, losses>>

Refused(c) ==
  /\ c \notin Tickers /\ Heard(c) /\ ~MayRetry(c)
  /\ Moves(c, "failed")
  /\ UNCHANGED <<session, epoch, taken, pending, kept, losses>>

BackoffEnds(c) ==
  /\ calls[c].at = "backoff"
  /\ IF c \in Tickers THEN Moves(c, "flight") ELSE Enters(c)
  /\ UNCHANGED <<session, epoch, taken, pending, kept, losses>>

-----------------------------------------------------------------------------
(* coalesce *)

\* The value kept, the fetch under way, or a fetch of its own.
TickerAsked(c) ==
  /\ c \in Tickers /\ calls[c].at = "idle"
  /\ Moves(c, IF kept THEN "done" ELSE IF pending # NoCall THEN "joined" ELSE "flight")
  /\ pending' = IF ~kept /\ pending = NoCall THEN c ELSE pending
  /\ UNCHANGED <<session, epoch, taken, kept, losses>>

\* Every caller of the fetch gets what it gets, a value or an error.
FetchEnds(c, outcome) ==
  /\ c \in Tickers /\ Heard(c)
  /\ calls' = [d \in Calls |-> IF d = c \/ calls[d].at = "joined"
                                 THEN [calls[d] EXCEPT !.at = outcome] ELSE calls[d]]
  /\ pending' = NoCall
  /\ UNCHANGED <<session, epoch, taken>>

TickerFetched(c) == FetchEnds(c, "done") /\ kept' = TRUE /\ UNCHANGED losses

TickerFails(c) ==
  /\ FetchEnds(c, "failed") /\ kept' = kept
  /\ Loses \/ (~MayRetry(c) /\ losses' = losses)

\* A second later; the next call of a caller.
TickerExpires ==
  /\ kept
  /\ kept' = FALSE
  /\ UNCHANGED <<session, epoch, calls, taken, pending, losses>>

TickerAgain(c) ==
  /\ c \in Tickers /\ calls[c].at \in {"done", "failed"}
  /\ calls' = [calls EXCEPT ![c] = [at |-> "idle", cookie |-> 0, tries |-> 0]]
  /\ UNCHANGED <<session, epoch, taken, pending, kept, losses>>

TransportNext ==
  \/ SessionAges \/ SessionDropped \/ TickerExpires
  \/ \E c \in Calls :
       \/ Begins(c) \/ LogsInAnew(c) \/ LoginFails(c) \/ Unauthorised(c)
       \/ Answered(c) \/ AnswerLost(c) \/ TooMany(c) \/ Refused(c) \/ BackoffEnds(c)
       \/ TickerAsked(c) \/ TickerFetched(c) \/ TickerFails(c) \/ TickerAgain(c)

TransportSpec == TransportInit /\ [][TransportNext]_transportVars

-----------------------------------------------------------------------------
\* An order is carried out at most once for one call, and exactly once when the
\* call succeeds, through logins, 401s and lost answers ("blindly retrying
\* mutations risks duplicates").
TakenOnce ==
  \A c \in Mutations : taken[c] <= 1 /\ (calls[c].at = "done" => taken[c] = 1)

\* Callers of one ticker share one fetch, and none waits for a fetch that has
\* ended (coalesce: "shares ONE in-flight promise").
FetchIsShared ==
  /\ \A c, d \in Tickers : Fetching(c) /\ Fetching(d) => c = d
  /\ \A c \in Tickers : calls[c].at = "joined" => pending # NoCall /\ Fetching(pending)
=============================================================================
