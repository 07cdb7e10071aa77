---------------------------- MODULE Credentials ----------------------------
(***************************************************************************)
(* The GRVT credentials of one user and the clients made from them.  A     *)
(* lookup (getGrvtClientForBot) answers from a cache or reads the row,     *)
(* logs in and caches the client; saving new credentials writes the row,   *)
(* drops the cached clients and binds the running bots to new ones; a bot  *)
(* is created on a set of credentials, started and paused; credentials are *)
(* deleted when no bot needs them.  Each step ends at an await.            *)
(***************************************************************************)
EXTENDS Integers, FiniteSets

CONSTANTS
  Traders,     \* bots of the user
  MaxVersions  \* bound on the credentials saved

ASSUME CredentialsAssumption == MaxVersions \in Nat \ {0}

VARIABLES
  rows,     \* per key the version of the credentials in the database, 0: no row
  newest,   \* the version saved last: no version is given twice
  cached,   \* per key the version of the cached client, 0: none
  lookups,  \* per asker its lookup
  saving,   \* POST grvt-credentials
  deleting, \* per key the DELETE handler: "idle" or "counted"
  traders,  \* per bot its row: status and key
  clients,  \* per bot in GridEngine.bots the version of its client
  raced     \* ghost: a client was cached whose row had changed since it was read

credVars == <<rows, newest, cached, lookups, saving, deleting, traders, clients, raced>>

\* The default credentials and one sub-account.
Keys == {"default", "sub"}
Versions == 0..MaxVersions
NotInMap == -1
Singleton == -2  \* the client of the environment, which is the operator's
Askers == Traders \cup {"rebind", "api"}
NoLookup == [at |-> "idle", key |-> "default", version |-> 0]
Failed == [NoLookup EXCEPT !.at = "failed"]

CredTypeOK ==
  /\ rows \in [Keys -> Versions] /\ newest \in Versions /\ cached \in [Keys -> Versions]
  /\ lookups \in [Askers -> [at : {"idle", "row", "login", "got", "failed"},
                             key : Keys, version : Versions]]
  /\ saving \in [at : {"idle", "written", "rebind"}, left : SUBSET Traders,
                now : SUBSET Traders]
  /\ deleting \in [Keys -> {"idle", "counted"}]
  /\ traders \in [Traders -> [status : {"none", "asked", "paused", "starting", "running"},
                              key : Keys]]
  /\ clients \in [Traders -> Versions \cup {NotInMap, Singleton}]
  /\ raced \in BOOLEAN

CredInit ==
  /\ rows = [k \in Keys |-> 1] /\ newest = 1
  /\ cached = [k \in Keys |-> 0]
  /\ lookups = [a \in Askers |-> NoLookup]
  /\ saving = [at |-> "idle", left |-> {}, now |-> {}]
  /\ deleting = [k \in Keys |-> "idle"]
  /\ traders = [b \in Traders |-> [status |-> "none", key |-> "default"]]
  /\ clients = [b \in Traders |-> NotInMap]
  /\ raced = FALSE

InMap(b) == clients[b] # NotInMap

-----------------------------------------------------------------------------
(* getGrvtClientForBot *)

\* A hit is answered at once; otherwise the row is asked for.
Asked(a, k) ==
  lookups' = [lookups EXCEPT ![a] =
    IF cached[k] # 0 THEN [NoLookup EXCEPT !.at = "got", !.version = cached[k]]
    ELSE [at |-> "row", key |-> k, version |-> 0]]

LookupReads(a) ==
  /\ lookups[a].at = "row"
  /\ LET v == rows[lookups[a].key] IN
       lookups' = [lookups EXCEPT ![a] =
         IF v = 0 THEN Failed ELSE [@ EXCEPT !.at = "login", !.version = v]]
  /\ UNCHANGED <<rows, newest, cached, saving, deleting, traders, clients, raced>>

LookupLogsIn(a) ==
  /\ lookups[a].at = "login"
  /\ cached' = [cached EXCEPT ![lookups[a].key] = lookups[a].version]
  /\ raced' = (raced \/ lookups[a].version # rows[lookups[a].key])
  /\ lookups' = [lookups EXCEPT ![a] = [NoLookup EXCEPT !.at = "got", !.version = lookups[a].version]]
  /\ UNCHANGED <<rows, newest, saving, deleting, traders, clients>>

\* GRVT refuses the login, or cannot be reached.
LookupRefused(a) ==
  /\ lookups[a].at = "login"
  /\ lookups' = [lookups EXCEPT ![a] = Failed]
  /\ UNCHANGED <<rows, newest, cached, saving, deleting, traders, clients, raced>>

\* Five minutes later.
CacheExpires(k) ==
  /\ cached[k] # 0
  /\ cached' = [cached EXCEPT ![k] = 0]
  /\ UNCHANGED <<rows, newest, lookups, saving, deleting, traders, clients, raced>>

\* A request of the user that needs a client, for instance his balance.
ApiAsks(k) ==
  /\ lookups["api"].at = "idle"
  /\ Asked("api", k)
  /\ UNCHANGED <<rows, newest, cached, saving, deleting, traders, clients, raced>>

ApiAnswers ==
  /\ lookups["api"].at \in {"got", "failed"}
  /\ lookups' = [lookups EXCEPT !["api"] = NoLookup]
  /\ UNCHANGED <<rows, newest, cached, saving, deleting, traders, clients, raced>>

-----------------------------------------------------------------------------
(* POST /auth/grvt-credentials *)

\* The new credentials have been tried with a client of their own.
SaveWrites ==
  /\ saving.at = "idle"
  /\ newest < MaxVersions /\ newest' = newest + 1
  /\ rows' = [rows EXCEPT !["default"] = newest']
  /\ saving' = [saving EXCEPT !.at = "written"]
  /\ UNCHANGED <<cached, lookups, deleting, traders, clients, raced>>

\* Mutant: only the bots are bound again, the cache is kept.
SaveDropsNothing ==
  /\ saving.at = "written"
  /\ saving' = [at |-> "rebind", left |-> Traders, now |-> {}]
  /\ UNCHANGED <<rows, newest, cached, lookups, deleting, traders, clients, raced>>

\* invalidateGrvtClient drops every key of the user; rebindGrvtClient goes
\* through the bots of the map, as it is when it gets to them.
SaveDrops ==
  /\ saving.at = "written"
  /\ cached' = [k \in Keys |-> 0]
  /\ saving' = [at |-> "rebind", left |-> Traders, now |-> {}]
  /\ UNCHANGED <<rows, newest, lookups, deleting, traders, clients, raced>>

RebindAsks(b) ==
  /\ saving.at = "rebind" /\ saving.now = {}
  /\ b \in saving.left /\ InMap(b)
  /\ saving' = [saving EXCEPT !.left = @ \ {b}, !.now = {b}]
  /\ Asked("rebind", traders[b].key)
  /\ UNCHANGED <<rows, newest, cached, deleting, traders, clients, raced>>

\* rebindClient, or the old client stays; a bot that left the map meanwhile is
\* not heard of again.
Rebinds(b) ==
  /\ saving.now = {b}
  /\ lookups["rebind"].at \in {"got", "failed"}
  /\ clients' = IF lookups["rebind"].at = "got" /\ InMap(b)
                  THEN [clients EXCEPT ![b] = lookups["rebind"].version] ELSE clients
  /\ lookups' = [lookups EXCEPT !["rebind"] = NoLookup]
  /\ saving' = [saving EXCEPT !.now = {}]
  /\ UNCHANGED <<rows, newest, cached, deleting, traders, raced>>

SaveReturns ==
  /\ saving.at = "rebind" /\ saving.now = {}
  /\ \A b \in saving.left : ~InMap(b)
  /\ saving' = [at |-> "idle", left |-> {}, now |-> {}]
  /\ UNCHANGED <<rows, newest, cached, lookups, deleting, traders, clients, raced>>

-----------------------------------------------------------------------------
(* DELETE /auth/grvt-credentials and /auth/grvt-sub-accounts/:id *)

\* countActiveBotsForUser, countBotsUsingSubAccount.
Uses(k) ==
  {b \in Traders : traders[b].status \in {"paused", "starting", "running"}
                   /\ (k = "default" \/ traders[b].key = k)}

DeleteCounts(k) ==
  /\ deleting[k] = "idle" /\ rows[k] # 0
  /\ Uses(k) = {}
  /\ deleting' = [deleting EXCEPT ![k] = "counted"]
  /\ UNCHANGED <<rows, newest, cached, lookups, saving, traders, clients, raced>>

\* Only the deletion of a sub-account drops its cached client.
DeleteRemoves(k) ==
  /\ deleting[k] = "counted"
  /\ rows' = [rows EXCEPT ![k] = 0]
  /\ cached' = IF k = "sub" THEN [cached EXCEPT ![k] = 0] ELSE cached
  /\ deleting' = [deleting EXCEPT ![k] = "idle"]
  /\ UNCHANGED <<newest, lookups, saving, traders, clients, raced>>

-----------------------------------------------------------------------------
(* The bots *)

\* POST /bots: the sub-account must be there; the default is not asked for.
CreateChecks(b, k) ==
  /\ traders[b].status = "none"
  /\ k = "sub" => rows[k] # 0
  /\ traders' = [traders EXCEPT ![b] = [status |-> "asked", key |-> k]]
  /\ UNCHANGED <<rows, newest, cached, lookups, saving, deleting, clients, raced>>

CreateWrites(b) ==
  /\ traders[b].status = "asked"
  /\ traders' = [traders EXCEPT ![b].status = "paused"]
  /\ UNCHANGED <<rows, newest, cached, lookups, saving, deleting, clients, raced>>

\* startBot: getClientForBot.
StartAsks(b) ==
  /\ traders[b].status = "paused"
  /\ traders' = [traders EXCEPT ![b].status = "starting"]
  /\ Asked(b, traders[b].key)
  /\ UNCHANGED <<rows, newest, cached, saving, deleting, clients, raced>>

\* The instance is registered with its client; a lookup that failed is
\* replaced by the singleton.
StartRegisters(b) ==
  /\ lookups[b].at \in {"got", "failed"}
  /\ clients' = [clients EXCEPT ![b] =
       IF lookups[b].at = "got" THEN lookups[b].version ELSE Singleton]
  /\ traders' = [traders EXCEPT ![b].status = "running"]
  /\ lookups' = [lookups EXCEPT ![b] = NoLookup]
  /\ UNCHANGED <<rows, newest, cached, saving, deleting, raced>>

StopsTrading(b) ==
  /\ traders[b].status = "running"
  /\ traders' = [traders EXCEPT ![b].status = "paused"]
  /\ clients' = [clients EXCEPT ![b] = NotInMap]
  /\ UNCHANGED <<rows, newest, cached, lookups, saving, deleting, raced>>

CredNext ==
  \/ \E a \in Askers : LookupReads(a) \/ LookupLogsIn(a) \/ LookupRefused(a)
  \/ \E k \in Keys : CacheExpires(k) \/ ApiAsks(k) \/ DeleteCounts(k) \/ DeleteRemoves(k)
  \/ ApiAnswers
  \/ SaveWrites \/ SaveDrops \/ SaveReturns
  \/ \E b \in Traders : RebindAsks(b) \/ Rebinds(b)
  \/ \E b \in Traders, k \in Keys : CreateChecks(b, k)
  \/ \E b \in Traders :
       CreateWrites(b) \/ StartAsks(b) \/ StartRegisters(b) \/ StopsTrading(b)

CredSpec == CredInit /\ [][CredNext]_credVars

-----------------------------------------------------------------------------
\* Once a save has dropped the cached clients (invalidateGrvtClient), a lookup
\* is answered from the credentials in the database, whatever interleaves,
\* except after a login that was still under way with the old ones.
CacheIsCurrent ==
  ~raced /\ saving.at # "written" =>
    \A k \in Keys : rows[k] # 0 => cached[k] \in {0, rows[k]}

=============================================================================
