---------------------------- MODULE SubAccounts ----------------------------
(***************************************************************************)
(* The GRVT sub-accounts of two users: requests list, create, edit and     *)
(* delete them.  Making one the default takes two statements, of which the *)
(* first takes the flag from the others; requests interleave between the   *)
(* statements and the process may die there.  A created sub-account has    *)
(* been tried against GRVT first.                                          *)
(***************************************************************************)
EXTENDS Integers, FiniteSets

CONSTANTS
  Holders,    \* users
  Clicks,    \* requests under way at a time
  MaxSubs,   \* bound on the sub-accounts created
  MaxDeaths  \* bound on crashes

Nobody == "nobody"

ASSUME SubAccountsAssumption == MaxSubs \in Nat /\ MaxDeaths \in Nat /\ Nobody \notin Holders

VARIABLES
  subs,    \* grvt_sub_accounts: per id its owner and is_default
  clicks,  \* per request what it has done
  deaths,  \* crashes so far
  mixed    \* ghost: users whose requests for a default overlapped

subVars == <<subs, clicks, deaths, mixed>>

Ids == 1..MaxSubs
NoSub == [owner |-> Nobody, def |-> FALSE]
NoClick == [at |-> "idle", owner |-> Nobody, id |-> 0, def |-> FALSE]

SubTypeOK ==
  /\ subs \in [Ids -> [owner : Holders \cup {Nobody}, def : BOOLEAN]]
  /\ clicks \in [Clicks -> [at : {"idle", "tested", "demoted", "found", "counted"},
                            owner : Holders \cup {Nobody}, id : 0..MaxSubs, def : BOOLEAN]]
  /\ deaths \in 0..MaxDeaths /\ mixed \subseteq Holders

SubInit ==
  /\ subs = [i \in Ids |-> NoSub]
  /\ clicks = [c \in Clicks |-> NoClick]
  /\ deaths = 0 /\ mixed = {}

Of(o) == {i \in Ids : subs[i].owner = o}
Defaults(o) == {i \in Of(o) : subs[i].def}

\* The rows of a user but i lose the flag.
Demoted(o, i) ==
  [j \in Ids |-> IF subs[j].owner = o /\ j # i THEN [subs[j] EXCEPT !.def = FALSE] ELSE subs[j]]

\* Another request of the user is between its two statements.
Overlaps(c) ==
  \E d \in Clicks \ {c} : clicks[d].owner = clicks[c].owner /\ clicks[d].at = "demoted"

Mixing(c) == mixed' = IF clicks[c].def /\ Overlaps(c) THEN mixed \cup {clicks[c].owner} ELSE mixed

-----------------------------------------------------------------------------
(* POST /auth/grvt-sub-accounts *)

\* The credentials have been tried with a login and a balance, or refused.
CreateTests(c, o, d) ==
  /\ clicks[c].at = "idle"
  /\ clicks' = [clicks EXCEPT ![c] = [at |-> "tested", owner |-> o, id |-> 0, def |-> d]]
  /\ UNCHANGED <<subs, deaths, mixed>>

\* createGrvtSubAccount, a new default: the others lose the flag.
CreateDemotes(c) ==
  /\ clicks[c].at = "tested" /\ clicks[c].def
  /\ subs' = Demoted(clicks[c].owner, 0)
  /\ clicks' = [clicks EXCEPT ![c].at = "demoted"]
  /\ Mixing(c)
  /\ UNCHANGED <<deaths>>

\* The id is not one that was used before.
CreateInserts(c) ==
  /\ clicks[c].id = 0
  /\ clicks[c].at = IF clicks[c].def THEN "demoted" ELSE "tested"
  /\ \E i \in Ids :
       /\ subs[i] = NoSub /\ \A j \in Ids : j < i => subs[j] # NoSub
       /\ subs' = [subs EXCEPT ![i] = [owner |-> clicks[c].owner, def |-> clicks[c].def]]
  /\ clicks' = [clicks EXCEPT ![c] = NoClick]
  /\ UNCHANGED <<deaths, mixed>>

-----------------------------------------------------------------------------
(* PATCH /auth/grvt-sub-accounts/:id *)

\* getGrvtSubAccountRaw: a sub-account of the user.
EditFinds(c, o, i, d) ==
  /\ clicks[c].at = "idle" /\ subs[i].owner = o
  /\ clicks' = [clicks EXCEPT ![c] = [at |-> "found", owner |-> o, id |-> i, def |-> d]]
  /\ UNCHANGED <<subs, deaths, mixed>>

\* Mutant: the flag is given and no other row loses it.
EditKeepsOthers(c) ==
  /\ clicks[c].at = "found" /\ clicks[c].def
  /\ clicks' = [clicks EXCEPT ![c].at = "demoted"]
  /\ Mixing(c)
  /\ UNCHANGED <<subs, deaths>>

\* updateGrvtSubAccountMeta, is_default true.
EditDemotes(c) ==
  /\ clicks[c].at = "found" /\ clicks[c].def
  /\ subs' = Demoted(clicks[c].owner, clicks[c].id)
  /\ clicks' = [clicks EXCEPT ![c].at = "demoted"]
  /\ Mixing(c)
  /\ UNCHANGED <<deaths>>

\* A row that was deleted meanwhile is not there to be written.
EditWrites(c) ==
  /\ clicks[c].id # 0
  /\ clicks[c].at = IF clicks[c].def THEN "demoted" ELSE "found"
  /\ subs' = IF subs[clicks[c].id].owner = clicks[c].owner
               THEN [subs EXCEPT ![clicks[c].id].def = clicks[c].def] ELSE subs
  /\ clicks' = [clicks EXCEPT ![c] = NoClick]
  /\ UNCHANGED <<deaths, mixed>>

-----------------------------------------------------------------------------
(* DELETE /auth/grvt-sub-accounts/:id; crashes *)

\* No bot references it: Credentials has what that is worth.
DeleteFinds(c, o, i) ==
  /\ clicks[c].at = "idle" /\ subs[i].owner = o
  /\ clicks' = [clicks EXCEPT ![c] = [at |-> "counted", owner |-> o, id |-> i, def |-> FALSE]]
  /\ UNCHANGED <<subs, deaths, mixed>>

\* The id is not given again (AUTOINCREMENT): the row stays, without owner.
DeleteGoes(c) ==
  /\ clicks[c].at = "counted"
  /\ subs' = [subs EXCEPT ![clicks[c].id] = [owner |-> Nobody, def |-> TRUE]]
  /\ clicks' = [clicks EXCEPT ![c] = NoClick]
  /\ UNCHANGED <<deaths, mixed>>

SubServerDies ==
  /\ deaths < MaxDeaths
  /\ deaths' = deaths + 1
  /\ clicks' = [c \in Clicks |-> NoClick]
  /\ UNCHANGED <<subs, mixed>>

SubNext ==
  \/ \E c \in Clicks :
       \/ CreateDemotes(c) \/ CreateInserts(c) \/ EditDemotes(c) \/ EditWrites(c) \/ DeleteGoes(c)
       \/ \E o \in Holders :
            \/ \E d \in BOOLEAN : CreateTests(c, o, d)
            \/ \E i \in Ids : DeleteFinds(c, o, i) \/ \E d \in BOOLEAN : EditFinds(c, o, i, d)
  \/ SubServerDies

SubSpec == SubInit /\ [][SubNext]_subVars

-----------------------------------------------------------------------------
\* A user has one default sub-account at most, whatever the order of his
\* requests and wherever the process dies, unless two that ask for a default
\* overlapped between their statements (db.ts:2262-2268).
OneDefault == \A o \in Holders \ mixed : Cardinality(Defaults(o)) <= 1

=============================================================================
