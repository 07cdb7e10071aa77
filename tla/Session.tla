------------------------------- MODULE Session -------------------------------
(***************************************************************************)
(* The session of the dashboard.  Each tab has a token in its api-client   *)
(* and a user in its AuthProvider; localStorage, which the tabs share, has *)
(* the token of the last login.  Requests carry the token the tab had when *)
(* it sent them and are answered at any time, in any order; a refusal ends *)
(* the session that the tab has by then.                                   *)
(***************************************************************************)
EXTENDS Integers, FiniteSets

CONSTANTS
  Tabs,
  People,       \* users that log in
  MaxTokens,    \* bound on the logins
  MaxAsked      \* bound on the requests under way

Anyone == "nobody"

ASSUME SessionAssumption == MaxTokens \in Nat /\ MaxAsked \in Nat /\ Anyone \notin People

VARIABLES
  stored,   \* localStorage: the token, or 0
  tabs,     \* per tab: shown (mounted), token (jwtToken), person (user), loading
  asked,    \* requests under way: tab, kind, the token they carry, its person
  issued,   \* per token whom it was issued to
  expired,  \* tokens past their 24 hours
  refused,  \* ghost: per tab the tokens of its requests that were refused
  crossed \* ghost: tabs where a profile was answered after another login or logout

sessionVars == <<stored, tabs, asked, issued, expired, refused, crossed>>

Tokens == 1..MaxTokens
Blank == [shown |-> FALSE, token |-> 0, person |-> Anyone, loading |-> FALSE]

SessionTypeOK ==
  /\ stored \in 0..MaxTokens
  /\ tabs \in [Tabs -> [shown : BOOLEAN, token : 0..MaxTokens, person : People \cup {Anyone},
                        loading : BOOLEAN]]
  /\ asked \subseteq [tab : Tabs, kind : {"me", "data", "login"}, token : 0..MaxTokens,
                      person : People \cup {Anyone}]
  /\ issued \in [Tokens -> People \cup {Anyone}]
  /\ expired \subseteq Tokens /\ refused \subseteq Tabs \X Tokens /\ crossed \subseteq Tabs

SessionInit ==
  /\ stored = 0 /\ tabs = [t \in Tabs |-> Blank]
  /\ asked = {} /\ issued = [k \in Tokens |-> Anyone]
  /\ expired = {} /\ refused = {} /\ crossed = {}

\* What ProtectedRoute lets a tab see.
Page(t) ==
  IF tabs[t].loading THEN "loading"
  ELSE IF tabs[t].token = 0 \/ tabs[t].person = Anyone THEN "login" ELSE "dashboard"

SentBy(t) == {c \in asked : c.tab = t}
Asking(t, kind, token, person) ==
  Cardinality(asked) < MaxAsked /\ asked' = asked \cup {[tab |-> t, kind |-> kind,
                                                         token |-> token, person |-> person]}

-----------------------------------------------------------------------------
(* auth-context.tsx *)

\* A tab is opened or loaded again: it takes the token that is stored and asks
\* whose it is.
OpensTab(t) ==
  /\ tabs' = [tabs EXCEPT ![t] = [shown |-> TRUE, token |-> stored, person |-> Anyone,
                                  loading |-> stored # 0]]
  /\ asked' = (asked \ SentBy(t)) \cup (IF stored = 0 THEN {}
               ELSE {[tab |-> t, kind |-> "me", token |-> stored, person |-> issued[stored]]})
  /\ Cardinality(asked') <= MaxAsked
  /\ crossed' = crossed \ {t}
  /\ UNCHANGED <<stored, issued, expired, refused>>

\* The login page, one attempt at a time; /login is public, and whose the password
\* is shows when it is answered.
Submits(t) ==
  /\ tabs[t].shown /\ ~\E c \in SentBy(t) : c.kind = "login"
  /\ Asking(t, "login", 0, Anyone)
  /\ UNCHANGED <<stored, tabs, issued, expired, refused, crossed>>

\* The tab's profile requests are of another session from here on.
LeavesBehind(t) ==
  crossed' = IF \E c \in SentBy(t) : c.kind = "me" THEN crossed \cup {t} ELSE crossed

\* login: the token is stored, then the user is shown.
LoggedIn(c) ==
  /\ c.kind = "login"
  /\ \E k \in Tokens, u \in People :
       /\ issued[k] = Anyone /\ \A j \in Tokens : j < k => issued[j] # Anyone
       /\ issued' = [issued EXCEPT ![k] = u]
       /\ stored' = k
       /\ tabs' = [tabs EXCEPT ![c.tab].token = k, ![c.tab].person = u]
  /\ asked' = asked \ {c} /\ LeavesBehind(c.tab)
  /\ UNCHANGED <<expired, refused>>

\* A wrong password, or no answer: publicRequest throws and the page stays.
SignInFails(c) ==
  /\ c.kind = "login"
  /\ asked' = asked \ {c}
  /\ UNCHANGED <<stored, tabs, issued, expired, refused, crossed>>

Logout(t) ==
  /\ stored' = 0
  /\ tabs' = [tabs EXCEPT ![t].token = 0, ![t].person = Anyone]

ClicksLogout(t) ==
  /\ Page(t) = "dashboard"
  /\ Logout(t) /\ LeavesBehind(t)
  /\ UNCHANGED <<asked, issued, expired, refused>>

\* refreshMe, after the onboarding.
Refreshes(t) ==
  /\ Page(t) = "dashboard"
  /\ Asking(t, "me", tabs[t].token, issued[tabs[t].token])
  /\ UNCHANGED <<stored, tabs, issued, expired, refused, crossed>>

-----------------------------------------------------------------------------
(* api-client.ts: request *)

\* Any other request of a page.
AsksData(t) ==
  /\ Page(t) = "dashboard"
  /\ Asking(t, "data", tabs[t].token, issued[tabs[t].token])
  /\ UNCHANGED <<stored, tabs, issued, expired, refused, crossed>>

\* makeAuthMiddleware takes the token; a profile is shown and ends the loading.
Served(c) ==
  /\ c.kind # "login" /\ c.token \notin expired
  /\ asked' = asked \ {c}
  /\ tabs' = IF c.kind = "me"
               THEN [tabs EXCEPT ![c.tab].person = c.person, ![c.tab].loading = FALSE] ELSE tabs
  /\ UNCHANGED <<stored, issued, expired, refused, crossed>>

\* verifyToken finds the token expired: 401, and whatever session the tab has now
\* ends; a profile that fails ends it in any case.
TurnedAway(c) ==
  /\ c.kind # "login" /\ c.token \in expired
  /\ asked' = asked \ {c}
  /\ refused' = refused \cup {<<c.tab, c.token>>}
  /\ IF tabs[c.tab].token # 0 \/ c.kind = "me"
       THEN /\ stored' = 0
            /\ tabs' = [tabs EXCEPT ![c.tab] = [shown |-> TRUE, token |-> 0, person |-> Anyone,
                                                loading |-> @.loading /\ c.kind # "me"]]
       ELSE UNCHANGED <<tabs, stored>>
  /\ LeavesBehind(c.tab)
  /\ UNCHANGED <<issued, expired>>

\* No answer: a page shows its error, a profile ends the session.
Lost(c) ==
  /\ c.kind # "login"
  /\ asked' = asked \ {c}
  /\ IF c.kind = "me" THEN /\ stored' = 0
                           /\ tabs' = [tabs EXCEPT ![c.tab] = [Blank EXCEPT !.shown = TRUE]]
                           /\ crossed' = crossed
     ELSE UNCHANGED <<stored, tabs, crossed>>
  /\ UNCHANGED <<issued, expired, refused>>

\* jwt.ts: a token lasts 24 hours.
Expires(k) ==
  /\ issued[k] # Anyone /\ k \notin expired
  /\ expired' = expired \cup {k}
  /\ UNCHANGED <<stored, tabs, asked, issued, refused, crossed>>

SessionNext ==
  \/ \E t \in Tabs : \/ OpensTab(t) \/ ClicksLogout(t) \/ Refreshes(t) \/ AsksData(t)
                     \/ Submits(t)
  \/ \E c \in asked : LoggedIn(c) \/ SignInFails(c) \/ Served(c) \/ TurnedAway(c) \/ Lost(c)
  \/ \E k \in Tokens : Expires(k)

SessionSpec == SessionInit /\ [][SessionNext]_sessionVars

-----------------------------------------------------------------------------
\* The dashboard a tab shows is the one of the user its requests are made for, in
\* every tab and whatever the order of the answers; but for a tab where a login or
\* a logout overtook a profile, whose answer then replaces the user
\* (auth-context.tsx:66-79, 101-112).
PageIsOwn ==
  \A t \in Tabs \ crossed :
    Page(t) = "dashboard" => tabs[t].person = issued[tabs[t].token]

\* A token that was refused is gone: the tab that heard of it has it no more, and no
\* tab will load it (auth-context.tsx:5,
\* api-client.ts:79-85).
RefusedIsForgotten == \A r \in refused : stored # r[2] /\ tabs[r[1]].token # r[2]

=============================================================================
