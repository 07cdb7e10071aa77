--------------------------- MODULE Services_proofs ---------------------------
(***************************************************************************)
(* Theorems about the services of MCServices, for any number of users,     *)
(* requests, sub-accounts, credentials, links and tabs, and any faults.    *)
(* Those about a property of the composition follow every component of it: *)
(* what is not followed stays as it is.                                    *)
(***************************************************************************)
EXTENDS MCServices, Server_proofs, Plans_proofs, FiniteSetTheorems, TLAPS

-----------------------------------------------------------------------------
(* SubAccounts *)

\* A request between its two statements.
MidWay(c, o) == clicks[c].at = "demoted" /\ clicks[c].owner = o

\* A user whose requests for a default have not overlapped has one default; while
\* a request of his is between its statements that is the one it will make.
OneAtATime ==
  /\ \A c \in Clicks : clicks[c].at = "demoted" => clicks[c].def
  /\ \A o \in Holders \ mixed :
       /\ \A i, j \in Defaults(o) : i = j
       /\ \A c \in Clicks : MidWay(c, o) => \A i \in Defaults(o) : i = clicks[c].id
       /\ \A c, d \in Clicks : MidWay(c, o) /\ MidWay(d, o) => c = d

\* A request has the user it came from.
ClicksOwned == \A c \in Clicks : clicks[c].at # "idle" => clicks[c].owner \in Holders

SubTypeInv == SubTypeOK /\ ClicksOwned

LEMMA SubInitial == SubInit => SubTypeInv /\ OneAtATime
<1> SUFFICES ASSUME SubInit PROVE SubTypeInv /\ OneAtATime
  OBVIOUS
<1>1. SubTypeOK
  <2>1. 0 \in 0..MaxSubs /\ 0 \in 0..MaxDeaths
    BY SubAccountsAssumption
  <2> QED BY <2>1 DEF SubInit, SubTypeOK, NoSub, NoClick
<1>2. \A o \in Holders : Defaults(o) = {}
  BY DEF SubInit, NoSub, Defaults, Of
<1> QED BY <1>1, <1>2 DEF SubTypeInv, ClicksOwned, OneAtATime, SubInit, NoClick, MidWay

LEMMA SubTypeStep == SubTypeInv /\ [SubNext]_subVars => SubTypeInv'
<1> SUFFICES ASSUME SubTypeInv, [SubNext]_subVars PROVE SubTypeInv'
  OBVIOUS
<1> DEFINE Row == [owner : Holders \cup {Nobody}, def : BOOLEAN]
           Click == [at : {"idle", "tested", "demoted", "found", "counted"},
                     owner : Holders \cup {Nobody}, id : 0..MaxSubs, def : BOOLEAN]
           Begun(c) == clicks'[c].at # "idle" => clicks'[c].owner \in Holders
<1> USE SubAccountsAssumption DEF SubTypeInv, SubTypeOK, ClicksOwned
<1>a. NoClick \in Click
  BY DEF NoClick
<1>b. \A o, i : Demoted(o, i) \in [Ids -> Row]
  BY DEF Demoted
<1>1. ASSUME NEW c \in Clicks, CreateDemotes(c) \/ EditDemotes(c) PROVE SubTypeInv'
  <2>1. subs' \in [Ids -> Row]
    BY <1>1, <1>b DEF CreateDemotes, EditDemotes
  <2>2. clicks' \in [Clicks -> Click]
    BY <1>1 DEF CreateDemotes, EditDemotes
  <2>3. clicks[c].owner \in Holders
    BY <1>1 DEF CreateDemotes, EditDemotes
  <2>4. mixed' \subseteq Holders
    BY <1>1, <2>3 DEF CreateDemotes, EditDemotes, Mixing
  <2>5. ASSUME NEW d \in Clicks PROVE Begun(d)
    BY <1>1, <2>3 DEF CreateDemotes, EditDemotes
  <2> QED BY <1>1, <2>1, <2>2, <2>4, <2>5 DEF CreateDemotes, EditDemotes
<1>2. ASSUME NEW c \in Clicks, CreateInserts(c) \/ EditWrites(c) \/ DeleteGoes(c)
      PROVE  SubTypeInv'
  <2>1. subs' \in [Ids -> Row]
    <3>1. CASE CreateInserts(c)
      BY <3>1 DEF CreateInserts
    <3>2. CASE EditWrites(c)
      <4>1. CASE subs[clicks[c].id].owner = clicks[c].owner
        <5>1. subs' = [subs EXCEPT ![clicks[c].id].def = clicks[c].def]
          BY <3>2, <4>1 DEF EditWrites
        <5>2. ASSUME clicks[c].id \in Ids PROVE [subs[clicks[c].id] EXCEPT !.def = clicks[c].def] \in Row
          BY <5>2
        <5> QED BY <5>1, <5>2
      <4>2. CASE subs[clicks[c].id].owner # clicks[c].owner
        BY <3>2, <4>2 DEF EditWrites
      <4> QED BY <4>1, <4>2
    <3>3. CASE DeleteGoes(c)
      BY <3>3 DEF DeleteGoes
    <3> QED BY <1>2, <3>1, <3>2, <3>3
  <2>2. clicks' = [clicks EXCEPT ![c] = NoClick] /\ UNCHANGED <<deaths, mixed>>
    BY <1>2 DEF CreateInserts, EditWrites, DeleteGoes
  <2>3. clicks' \in [Clicks -> Click]
    BY <1>a, <2>2
  <2>4. \A d \in Clicks : Begun(d)
    BY <2>2 DEF NoClick
  <2> QED BY <2>1, <2>2, <2>3, <2>4
<1>3. ASSUME NEW c \in Clicks, NEW o \in Holders, NEW i \in 0..MaxSubs, NEW d \in BOOLEAN,
             NEW k \in {"tested", "found", "counted"},
             clicks' = [clicks EXCEPT ![c] = [at |-> k, owner |-> o, id |-> i, def |-> d]],
             UNCHANGED <<subs, deaths, mixed>>
      PROVE  SubTypeInv'
  <2>1. clicks' \in [Clicks -> Click]
    BY <1>3
  <2>2. \A e \in Clicks : Begun(e)
    BY <1>3
  <2> QED BY <1>3, <2>1, <2>2
<1>4. ASSUME NEW c \in Clicks, NEW o \in Holders,
             \/ \E d \in BOOLEAN : CreateTests(c, o, d)
             \/ \E i \in Ids : DeleteFinds(c, o, i) \/ \E d \in BOOLEAN : EditFinds(c, o, i, d)
      PROVE  SubTypeInv'
  <2>1. 0 \in 0..MaxSubs /\ \A i \in Ids : i \in 0..MaxSubs
    BY DEF Ids
  <2>2. ASSUME NEW d \in BOOLEAN, CreateTests(c, o, d) PROVE SubTypeInv'
    BY <1>3, <2>1, <2>2 DEF CreateTests
  <2>3. ASSUME NEW i \in Ids, DeleteFinds(c, o, i) PROVE SubTypeInv'
    BY <1>3, <2>1, <2>3 DEF DeleteFinds
  <2>4. ASSUME NEW i \in Ids, NEW d \in BOOLEAN, EditFinds(c, o, i, d) PROVE SubTypeInv'
    BY <1>3, <2>1, <2>4 DEF EditFinds
  <2> QED BY <1>4, <2>2, <2>3, <2>4
<1>5. CASE SubServerDies
  <2>1. clicks' \in [Clicks -> Click] /\ \A e \in Clicks : Begun(e)
    BY <1>5, <1>a DEF SubServerDies, NoClick
  <2> QED BY <1>5, <2>1 DEF SubServerDies
<1>6. CASE UNCHANGED subVars
  BY <1>6 DEF subVars
<1> QED BY <1>1, <1>2, <1>4, <1>5, <1>6 DEF SubNext
\* One request takes the flag from the others: it is alone there, or the user's
\* requests are mixed.
LEMMA DemoteStep ==
  ASSUME SubTypeInv, OneAtATime, NEW c \in Clicks, CreateDemotes(c) \/ EditDemotes(c)
  PROVE  OneAtATime'
<1> USE DEF SubTypeInv, SubTypeOK, ClicksOwned
<1> DEFINE u == clicks[c].owner
<1>1. /\ clicks[c].def /\ clicks[c].at \in {"tested", "found"} /\ Mixing(c)
      /\ clicks' = [clicks EXCEPT ![c].at = "demoted"]
      /\ \E i : subs' = Demoted(u, i) /\ (i = 0 \/ i = clicks[c].id)
  BY DEF CreateDemotes, EditDemotes
<1>2. ASSUME NEW o \in Holders \ mixed'
      PROVE  /\ \A i, j \in Defaults(o)' : i = j
             /\ \A d \in Clicks : MidWay(d, o)' => \A i \in Defaults(o)' : i = clicks'[d].id
             /\ \A d, e \in Clicks : MidWay(d, o)' /\ MidWay(e, o)' => d = e
  <2>1. o \notin mixed
    BY <1>1, <1>2 DEF Mixing
  <2>2. Defaults(o)' \subseteq Defaults(o)
    BY <1>1 DEF Demoted, Defaults, Of
  <2>3. \A d \in Clicks : clicks'[d].id = clicks[d].id /\ clicks'[d].owner = clicks[d].owner
    BY <1>1
  <2>4. ASSUME u = o PROVE \A d \in Clicks : MidWay(d, o)' => d = c
    BY <1>1, <1>2, <2>4 DEF Mixing, Overlaps, MidWay
  <2>5. ASSUME u = o PROVE \A i \in Defaults(o)' : i = clicks[c].id
    BY <1>1, <2>5 DEF Demoted, Defaults, Of, Ids
  <2>6. CASE u = o
    BY <2>1, <2>2, <2>3, <2>4, <2>5, <2>6 DEF OneAtATime
  <2>7. CASE u # o
    <3>1. \A d \in Clicks : MidWay(d, o)' => MidWay(d, o)
      BY <1>1, <2>7 DEF MidWay
    <3> QED BY <2>1, <2>2, <2>3, <3>1 DEF OneAtATime
  <2> QED BY <2>6, <2>7
<1>3. \A d \in Clicks : clicks'[d].at = "demoted" => clicks'[d].def
  BY <1>1 DEF OneAtATime
<1> QED BY <1>2, <1>3 DEF OneAtATime

\* The second statement: the flag goes to the row the request is about.
LEMMA FlagStep ==
  ASSUME SubTypeInv, OneAtATime, NEW c \in Clicks,
         CreateInserts(c) \/ EditWrites(c) \/ DeleteGoes(c)
  PROVE  OneAtATime'
<1> USE SubAccountsAssumption DEF SubTypeInv, SubTypeOK, ClicksOwned
<1> DEFINE u == clicks[c].owner
<1>1. clicks' = [clicks EXCEPT ![c] = NoClick] /\ mixed' = mixed
  BY DEF CreateInserts, EditWrites, DeleteGoes
<1>2. \A d \in Clicks : clicks'[d].at = "demoted" => d # c /\ clicks'[d] = clicks[d]
  BY <1>1 DEF NoClick
<1>3. \A d \in Clicks, o \in Holders : MidWay(d, o)' => d # c /\ MidWay(d, o)
  BY <1>2 DEF MidWay
<1>4. ASSUME NEW o \in Holders, ~MidWay(c, o) PROVE Defaults(o)' \subseteq Defaults(o)
  <2>1. CASE CreateInserts(c)
    <3>1. u = o => ~clicks[c].def
      BY <1>4, <2>1 DEF CreateInserts, MidWay
    <3> QED BY <2>1, <3>1 DEF CreateInserts, Defaults, Of, NoSub
  <2>2. CASE EditWrites(c)
    <3>1. u = o => ~clicks[c].def
      BY <1>4, <2>2 DEF EditWrites, MidWay
    <3> QED BY <2>2, <3>1 DEF EditWrites, Defaults, Of
  <2>3. CASE DeleteGoes(c)
    BY <2>3 DEF DeleteGoes, Defaults, Of
  <2> QED BY <2>1, <2>2, <2>3
<1>5. ASSUME NEW o \in Holders \ mixed, MidWay(c, o) PROVE \A i, j \in Defaults(o)' : i = j
  <2>1. \A i \in Defaults(o) : i = clicks[c].id
    BY <1>5 DEF OneAtATime
  <2>2. CASE CreateInserts(c)
    <3>1. Defaults(o) = {}
      BY <2>1, <2>2 DEF CreateInserts, Defaults, Of, Ids
    <3>2. PICK i \in Ids : subs' = [subs EXCEPT ![i] = [owner |-> u, def |-> clicks[c].def]]
      BY <2>2 DEF CreateInserts
    <3>3. Defaults(o)' \subseteq {i}
      BY <3>1, <3>2 DEF Defaults, Of
    <3> QED BY <3>3
  <2>3. CASE EditWrites(c)
    <3>1. Defaults(o)' \subseteq {clicks[c].id}
      BY <2>1, <2>3 DEF EditWrites, Defaults, Of
    <3> QED BY <3>1
  <2>4. CASE DeleteGoes(c)
    BY <1>5, <2>4 DEF DeleteGoes, MidWay
  <2> QED BY <2>2, <2>3, <2>4
<1>6. ASSUME NEW o \in Holders \ mixed'
      PROVE  /\ \A i, j \in Defaults(o)' : i = j
             /\ \A d \in Clicks : MidWay(d, o)' => \A i \in Defaults(o)' : i = clicks'[d].id
             /\ \A d, e \in Clicks : MidWay(d, o)' /\ MidWay(e, o)' => d = e
  <2>1. CASE MidWay(c, o)
    <3>1. \A d \in Clicks : ~MidWay(d, o)'
      BY <1>1, <1>3, <2>1 DEF OneAtATime
    <3> QED BY <1>1, <1>5, <2>1, <3>1
  <2>2. CASE ~MidWay(c, o)
    <3>1. Defaults(o)' \subseteq Defaults(o)
      BY <1>4, <2>2
    <3>2. \A d \in Clicks : MidWay(d, o)' => MidWay(d, o) /\ clicks'[d] = clicks[d]
      BY <1>2, <1>3 DEF MidWay
    <3> QED BY <1>1, <3>1, <3>2 DEF OneAtATime
  <2> QED BY <2>1, <2>2
<1> QED BY <1>2, <1>6 DEF OneAtATime

LEMMA OneAtATimeStep == SubTypeInv /\ OneAtATime /\ [SubNext]_subVars => OneAtATime'
<1> SUFFICES ASSUME SubTypeInv, OneAtATime, [SubNext]_subVars PROVE OneAtATime'
  OBVIOUS
<1> USE DEF SubTypeInv, SubTypeOK
<1>1. ASSUME UNCHANGED <<subs, mixed>>,
             \A c \in Clicks : clicks'[c].at = "demoted" => clicks'[c] = clicks[c]
      PROVE  OneAtATime'
  <2>1. \A o \in Holders : Defaults(o)' = Defaults(o)
    BY <1>1 DEF Defaults, Of
  <2>2. \A c \in Clicks, o \in Holders : MidWay(c, o)' => MidWay(c, o) /\ clicks'[c] = clicks[c]
    BY <1>1 DEF MidWay
  <2> QED BY <1>1, <2>1, <2>2 DEF OneAtATime
<1>2. ASSUME NEW c \in Clicks, NEW o \in Holders,
             \/ \E d \in BOOLEAN : CreateTests(c, o, d)
             \/ \E i \in Ids : DeleteFinds(c, o, i) \/ \E d \in BOOLEAN : EditFinds(c, o, i, d)
      PROVE  OneAtATime'
  BY <1>1, <1>2 DEF CreateTests, DeleteFinds, EditFinds
<1>3. CASE SubServerDies
  BY <1>1, <1>3 DEF SubServerDies, NoClick
<1>4. CASE UNCHANGED subVars
  BY <1>1, <1>4 DEF subVars
<1> QED BY <1>2, <1>3, <1>4, DemoteStep, FlagStep DEF SubNext

\* No user has two default sub-accounts, for any requests, rows and crashes, as
\* long as two of his requests for a default have not overlapped (db.ts:2256-2268).
THEOREM SubsHaveOneDefault == SubSpec => []OneDefault
<1>1. OneAtATime => OneDefault
  BY AtMostOneElement DEF OneAtATime, OneDefault
<1> QED BY <1>1, SubInitial, SubTypeStep, OneAtATimeStep, PTL DEF SubSpec
-----------------------------------------------------------------------------
(* Credentials *)

\* A question takes the key it asks for, or the client in the cache.
LEMMA AskedLookup ==
  ASSUME CredTypeOK, NEW a \in Askers, NEW k \in Keys, Asked(a, k)
  PROVE  lookups' \in [Askers -> [at : {"idle", "row", "login", "got", "failed"},
                                 key : Keys, version : Versions]]
<1>1. /\ [NoLookup EXCEPT !.at = "got", !.version = cached[k]] \in
            [at : {"idle", "row", "login", "got", "failed"}, key : Keys, version : Versions]
      /\ [at |-> "row", key |-> k, version |-> 0] \in
            [at : {"idle", "row", "login", "got", "failed"}, key : Keys, version : Versions]
  <2>1. 0 \in Versions /\ cached[k] \in Versions
    BY CredentialsAssumption DEF CredTypeOK, Versions
  <2> QED BY <2>1 DEF NoLookup, Keys
<1> QED BY <1>1 DEF Asked, CredTypeOK

LEMMA CredTypeStep == CredTypeOK /\ [CredNext]_credVars => CredTypeOK'
<1> SUFFICES ASSUME CredTypeOK, [CredNext]_credVars PROVE CredTypeOK'
  OBVIOUS
<1> DEFINE Lookup == [at : {"idle", "row", "login", "got", "failed"}, key : Keys, version : Versions]
<1>a. 0 \in Versions /\ 1 \in Versions
  BY CredentialsAssumption DEF Versions
<1>b. NoLookup \in Lookup /\ Failed \in Lookup /\ \A v \in Versions : [NoLookup EXCEPT !.at = "got", !.version = v] \in Lookup
  BY <1>a DEF NoLookup, Failed, Keys
<1> USE DEF CredTypeOK
<1>1. ASSUME NEW a \in Askers, LookupReads(a) \/ LookupLogsIn(a) \/ LookupRefused(a)
      PROVE  CredTypeOK'
  <2>1. rows[lookups[a].key] \in Versions /\ lookups[a].version \in Versions
    OBVIOUS
  <2>2. lookups' \in [Askers -> Lookup]
    <3>1. CASE LookupReads(a)
      <4>1. lookups[a] \in Lookup
        OBVIOUS
      <4>2. [lookups[a] EXCEPT !.at = "login", !.version = rows[lookups[a].key]] \in Lookup
        BY <2>1, <4>1
      <4> QED BY <3>1, <4>2, <1>b DEF LookupReads
    <3>2. CASE LookupLogsIn(a)
      BY <3>2, <1>b, <2>1 DEF LookupLogsIn
    <3>3. CASE LookupRefused(a)
      BY <3>3, <1>b DEF LookupRefused
    <3> QED BY <1>1, <3>1, <3>2, <3>3
  <2> QED BY <1>1, <2>1, <2>2 DEF LookupReads, LookupLogsIn, LookupRefused
<1>2. ASSUME NEW k \in Keys, CacheExpires(k) \/ DeleteCounts(k) \/ DeleteRemoves(k) PROVE CredTypeOK'
  BY <1>2, <1>a DEF CacheExpires, DeleteCounts, DeleteRemoves
<1>3. ASSUME NEW k \in Keys, ApiAsks(k) PROVE CredTypeOK'
  BY <1>3, AskedLookup DEF ApiAsks, Askers
<1>4. CASE ApiAnswers
  BY <1>4, <1>b DEF ApiAnswers
<1>5. CASE SaveWrites
  <2>1. newest' \in Versions
    BY <1>5, CredentialsAssumption DEF SaveWrites, Versions
  <2> QED BY <1>5, <2>1 DEF SaveWrites
<1>6. CASE SaveDrops \/ SaveReturns
  BY <1>6, <1>a DEF SaveDrops, SaveReturns
<1>7. ASSUME NEW b \in Traders, RebindAsks(b) PROVE CredTypeOK'
  BY <1>7, AskedLookup DEF RebindAsks, Askers
<1>8. ASSUME NEW b \in Traders, Rebinds(b) PROVE CredTypeOK'
  <2>1. lookups["rebind"].version \in Versions
    BY DEF Askers
  <2>2. clients' \in [Traders -> Versions \cup {NotInMap, Singleton}]
    BY <1>8, <2>1 DEF Rebinds
  <2>3. lookups' \in [Askers -> Lookup]
    BY <1>8, <1>b DEF Rebinds
  <2> QED BY <1>8, <2>2, <2>3 DEF Rebinds
<1>9. ASSUME NEW b \in Traders, NEW k \in Keys, CreateChecks(b, k) PROVE CredTypeOK'
  BY <1>9 DEF CreateChecks
<1>10. ASSUME NEW b \in Traders, StartAsks(b) PROVE CredTypeOK'
  <2>1. lookups' \in [Askers -> Lookup]
    BY <1>10, AskedLookup DEF StartAsks, Askers
  <2> QED BY <1>10, <2>1 DEF StartAsks
<1>11. ASSUME NEW b \in Traders, CreateWrites(b) \/ StartRegisters(b) \/ StopsTrading(b)
       PROVE  CredTypeOK'
  <2>1. CASE StartRegisters(b)
    <3>1. b \in Askers /\ lookups[b].version \in Versions
      BY DEF Askers
    <3>2. clients' \in [Traders -> Versions \cup {NotInMap, Singleton}]
      BY <2>1, <3>1 DEF StartRegisters
    <3>3. lookups' \in [Askers -> Lookup]
      BY <2>1, <1>b DEF StartRegisters
    <3> QED BY <2>1, <3>2, <3>3 DEF StartRegisters
  <2>2. CASE CreateWrites(b) \/ StopsTrading(b)
    BY <2>2 DEF CreateWrites, StopsTrading
  <2> QED BY <1>11, <2>1, <2>2
<1>12. CASE UNCHANGED credVars
  BY <1>12 DEF credVars
<1> QED BY <1>1, <1>2, <1>3, <1>4, <1>5, <1>6, <1>7, <1>8, <1>9, <1>10, <1>11, <1>12 DEF CredNext

LEMMA CurrentStep == CredTypeOK /\ CacheIsCurrent /\ [CredNext]_credVars => CacheIsCurrent'
<1> SUFFICES ASSUME CredTypeOK, CacheIsCurrent, [CredNext]_credVars PROVE CacheIsCurrent'
  OBVIOUS
<1> USE DEF CredTypeOK
<1>1. ASSUME UNCHANGED <<rows, cached, raced>>, saving.at = "written" => saving'.at = "written"
      PROVE  CacheIsCurrent'
  BY <1>1 DEF CacheIsCurrent
<1>2. ASSUME NEW a \in Askers, LookupLogsIn(a) PROVE CacheIsCurrent'
  BY <1>2 DEF LookupLogsIn, CacheIsCurrent
<1>3. ASSUME NEW a \in Askers, LookupReads(a) \/ LookupRefused(a) PROVE CacheIsCurrent'
  BY <1>1, <1>3 DEF LookupReads, LookupRefused
<1>4. ASSUME NEW k \in Keys, CacheExpires(k) PROVE CacheIsCurrent'
  BY <1>4 DEF CacheExpires, CacheIsCurrent
<1>5. ASSUME NEW k \in Keys, DeleteRemoves(k) PROVE CacheIsCurrent'
  BY <1>5 DEF DeleteRemoves, CacheIsCurrent
<1>6. ASSUME NEW k \in Keys, DeleteCounts(k) \/ ApiAsks(k) PROVE CacheIsCurrent'
  BY <1>1, <1>6 DEF DeleteCounts, ApiAsks
<1>7. CASE SaveWrites
  BY <1>7 DEF SaveWrites, CacheIsCurrent
<1>8. CASE SaveDrops
  BY <1>8 DEF SaveDrops, CacheIsCurrent
<1>9. CASE SaveReturns \/ ApiAnswers \/ UNCHANGED credVars
  BY <1>1, <1>9 DEF SaveReturns, ApiAnswers, credVars
<1>10. ASSUME NEW b \in Traders,
              \/ RebindAsks(b) \/ Rebinds(b) \/ CreateWrites(b) \/ StartAsks(b)
              \/ StartRegisters(b) \/ StopsTrading(b) \/ \E k \in Keys : CreateChecks(b, k)
       PROVE  CacheIsCurrent'
  BY <1>1, <1>10 DEF RebindAsks, Rebinds, CreateWrites, StartAsks, StartRegisters, StopsTrading,
     CreateChecks
<1> QED BY <1>2, <1>3, <1>4, <1>5, <1>6, <1>7, <1>8, <1>9, <1>10 DEF CredNext

LEMMA CredInitial == CredInit => CredTypeOK
<1> SUFFICES ASSUME CredInit PROVE CredTypeOK
  OBVIOUS
<1>1. 0 \in Versions /\ 1 \in Versions
  BY CredentialsAssumption DEF Versions
<1>2. NoLookup \in [at : {"idle", "row", "login", "got", "failed"}, key : Keys, version : Versions]
  BY <1>1 DEF NoLookup, Keys
<1>3. "default" \in Keys
  BY DEF Keys
<1>4. lookups \in [Askers -> [at : {"idle", "row", "login", "got", "failed"}, key : Keys,
                             version : Versions]]
  BY <1>2 DEF CredInit
<1>5. saving \in [at : {"idle", "written", "rebind"}, left : SUBSET Traders, now : SUBSET Traders]
  BY DEF CredInit
<1>6. traders \in [Traders -> [status : {"none", "asked", "paused", "starting", "running"},
                              key : Keys]]
  BY <1>3 DEF CredInit
<1> QED BY <1>1, <1>4, <1>5, <1>6 DEF CredInit, CredTypeOK

\* A lookup is answered from the credentials in the database once a save has
\* dropped the cached clients, for any bots and any number of saves, except after a
\* login that was under way with older ones (invalidateGrvtClient).
THEOREM CacheStaysCurrent == CredSpec => [](CredTypeOK /\ CacheIsCurrent)
<1>1. CredInit => CacheIsCurrent
  BY DEF CredInit, CacheIsCurrent
<1> QED BY <1>1, CredInitial, CredTypeStep, CurrentStep, PTL DEF CredSpec
-----------------------------------------------------------------------------
(* Session *)

\* Requests of a session: those of the login page carry no token.
OfSession == {c \in asked : c.kind # "login"}

\* Every token in use was issued, and a request is its person's.
TokensAreIssued ==
  /\ stored # 0 => issued[stored] # Anyone
  /\ \A t \in Tabs : tabs[t].token # 0 => issued[tabs[t].token] # Anyone
  /\ \A c \in OfSession : /\ c.token \in Tokens /\ issued[c.token] # Anyone
                          /\ c.person = issued[c.token]
  /\ \A r \in refused : issued[r[2]] # Anyone

\* A tab that no login or logout has taken from under a profile shows the person of
\* its token, and awaits profiles of that token only.
TabsAreOwn ==
  \A t \in Tabs \ crossed : tabs[t].token # 0 =>
    /\ tabs[t].person \in {Anyone, issued[tabs[t].token]}
    /\ \A c \in SentBy(t) : c.kind = "me" => c.token = tabs[t].token

\* What a tab has given up is stored no more.
GivenUp ==
  /\ \A c \in OfSession : tabs[c.tab].token # c.token => stored # c.token
  /\ RefusedIsForgotten

SessionInv == SessionTypeOK /\ TokensAreIssued /\ TabsAreOwn /\ GivenUp

LEMMA SessionInitial == SessionInit => SessionInv
<1> SUFFICES ASSUME SessionInit PROVE SessionInv
  OBVIOUS
<1>1. 0 \in 0..MaxTokens
  BY SessionAssumption
<1>2. SessionTypeOK
  BY <1>1 DEF SessionInit, SessionTypeOK, Blank
<1> QED BY <1>2 DEF SessionInit, SessionInv, TokensAreIssued, TabsAreOwn, GivenUp, OfSession,
            SentBy, RefusedIsForgotten, Blank

\* A tab that is loaded takes the stored token.
LEMMA OpensStep == ASSUME SessionInv, NEW t \in Tabs, OpensTab(t) PROVE SessionInv'
<1> USE SessionAssumption DEF SessionInv, SessionTypeOK
<1> DEFINE Tab == [shown : BOOLEAN, token : 0..MaxTokens, person : People \cup {Anyone},
                   loading : BOOLEAN]
           Asked1 == [tab : Tabs, kind : {"me", "data", "login"}, token : 0..MaxTokens,
                      person : People \cup {Anyone}]
           me == [tab |-> t, kind |-> "me", token |-> stored, person |-> issued[stored]]
<1>1. /\ tabs' = [tabs EXCEPT ![t] = [shown |-> TRUE, token |-> stored, person |-> Anyone,
                                     loading |-> stored # 0]]
      /\ asked' = (asked \ SentBy(t)) \cup (IF stored = 0 THEN {} ELSE {me})
      /\ crossed' = crossed \ {t}
      /\ UNCHANGED <<stored, issued, expired, refused>>
  BY DEF OpensTab
<1>2. stored # 0 => stored \in Tokens /\ me \in Asked1
  BY DEF Tokens
<1>3. SessionTypeOK'
  <2>1. tabs' \in [Tabs -> Tab]
    BY <1>1
  <2>2. asked' \subseteq Asked1
    BY <1>1, <1>2
  <2> QED BY <1>1, <2>1, <2>2
<1>4. TokensAreIssued'
  BY <1>1, <1>2 DEF TokensAreIssued, OfSession
<1>5. TabsAreOwn'
  BY <1>1, <1>2 DEF TabsAreOwn, SentBy
<1>6. GivenUp'
  BY <1>1, <1>2 DEF GivenUp, OfSession, RefusedIsForgotten, SentBy
<1> QED BY <1>3, <1>4, <1>5, <1>6
\* A request carries the token its tab has.
LEMMA AsksStep ==
  ASSUME SessionInv, NEW t \in Tabs, Refreshes(t) \/ AsksData(t) \/ Submits(t)
  PROVE  SessionInv'
<1> USE SessionAssumption DEF SessionInv, SessionTypeOK
<1> DEFINE Call == [tab : Tabs, kind : {"me", "data", "login"}, token : 0..MaxTokens,
                    person : People \cup {Anyone}]
<1>1. PICK c \in Call :
        /\ asked' = asked \cup {c} /\ c.tab = t
        /\ c.kind # "login" => /\ c.token = tabs[t].token /\ c.token # 0
                              /\ c.person = issued[c.token]
  <2>1. CASE Submits(t)
    <3> DEFINE d == [tab |-> t, kind |-> "login", token |-> 0, person |-> Anyone]
    <3>1. asked' = asked \cup {d}
      BY <2>1 DEF Submits, Asking
    <3>2. d \in Call
      OBVIOUS
    <3> WITNESS d \in Call
    <3> QED BY <3>1
  <2>2. ASSUME NEW k \in {"me", "data"}, Page(t) = "dashboard",
               Asking(t, k, tabs[t].token, issued[tabs[t].token])
        PROVE  \E d \in Call :
                 /\ asked' = asked \cup {d} /\ d.tab = t
                 /\ d.kind # "login" => /\ d.token = tabs[t].token /\ d.token # 0
                                       /\ d.person = issued[d.token]
    <3> DEFINE d == [tab |-> t, kind |-> k, token |-> tabs[t].token,
                     person |-> issued[tabs[t].token]]
    <3>1. asked' = asked \cup {d}
      BY <2>2 DEF Asking
    <3>2. tabs[t].token # 0
      BY <2>2 DEF Page
    <3>3. tabs[t].token \in Tokens
      BY <3>2 DEF Tokens
    <3>4. issued[tabs[t].token] \in People \cup {Anyone} /\ tabs[t].token \in 0..MaxTokens
      BY <3>3
    <3>5. d \in Call
      BY <3>4
    <3> WITNESS d \in Call
    <3> QED BY <3>1, <3>2
  <2> QED BY <2>1, <2>2 DEF Refreshes, AsksData
<1>2. UNCHANGED <<stored, tabs, issued, expired, refused, crossed>>
  BY DEF Refreshes, AsksData, Submits
<1>3. SessionTypeOK'
  BY <1>1, <1>2
<1>4. TokensAreIssued'
  BY <1>1, <1>2 DEF TokensAreIssued, OfSession, Tokens
<1>5. TabsAreOwn'
  BY <1>1, <1>2 DEF TabsAreOwn, SentBy
<1>6. GivenUp'
  BY <1>1, <1>2 DEF GivenUp, OfSession, RefusedIsForgotten
<1> QED BY <1>3, <1>4, <1>5, <1>6

\* A login brings a token that nobody had; a profile under way is left behind.
LEMMA LoginStep == ASSUME SessionInv, NEW c \in asked, LoggedIn(c) PROVE SessionInv'
<1> USE SessionAssumption DEF SessionInv, SessionTypeOK
<1> DEFINE t == c.tab
<1>1. PICK k \in Tokens, u \in People :
        /\ issued[k] = Anyone /\ issued' = [issued EXCEPT ![k] = u] /\ stored' = k
        /\ tabs' = [tabs EXCEPT ![t].token = k, ![t].person = u]
  BY DEF LoggedIn
<1>2. /\ asked' = asked \ {c} /\ LeavesBehind(t) /\ UNCHANGED <<expired, refused>>
      /\ t \in Tabs
  BY DEF LoggedIn
<1>3. k \in 0..MaxTokens /\ k # 0 /\ u # Anyone
  BY DEF Tokens
<1>4. SessionTypeOK'
  <2>1. tabs' \in [Tabs -> [shown : BOOLEAN, token : 0..MaxTokens, person : People \cup {Anyone},
                          loading : BOOLEAN]]
    BY <1>1, <1>3
  <2>2. crossed' \subseteq Tabs
    BY <1>2 DEF LeavesBehind
  <2> QED BY <1>1, <1>2, <1>3, <2>1, <2>2
<1>5. \A j : issued[j] # Anyone => j # k /\ issued'[j] = issued[j]
  BY <1>1
<1>6. TokensAreIssued'
  BY <1>1, <1>2, <1>3, <1>5 DEF TokensAreIssued, OfSession
<1>7. TabsAreOwn'
  <2> SUFFICES ASSUME NEW s \in Tabs \ crossed', tabs'[s].token # 0
               PROVE  /\ tabs'[s].person \in {Anyone, issued'[tabs'[s].token]}
                      /\ \A d \in SentBy(s)' : d.kind = "me" => d.token = tabs'[s].token
    BY DEF TabsAreOwn
  <2>1. s \notin crossed
    BY <1>2 DEF LeavesBehind
  <2>2. CASE s = t
    <3>1. \A d \in SentBy(t) : d.kind # "me"
      BY <1>2, <2>2 DEF LeavesBehind
    <3> QED BY <1>1, <1>2, <1>3, <2>2, <3>1 DEF SentBy
  <2>3. CASE s # t
    <3>1. tabs'[s] = tabs[s] /\ SentBy(s)' \subseteq SentBy(s)
      BY <1>1, <1>2, <2>3 DEF SentBy
    <3> QED BY <1>5, <2>1, <3>1 DEF TabsAreOwn, TokensAreIssued
  <2> QED BY <2>2, <2>3
<1>8. GivenUp'
  BY <1>1, <1>2, <1>5 DEF GivenUp, OfSession, RefusedIsForgotten, TokensAreIssued
<1> QED BY <1>4, <1>6, <1>7, <1>8

\* A session ends in one tab: its token is stored no more, and requests it sent go
\* on without one.
LEMMA SessionEnds ==
  ASSUME SessionInv, NEW t \in Tabs, stored' = 0,
         tabs' \in [Tabs -> [shown : BOOLEAN, token : 0..MaxTokens,
                                       person : People \cup {Anyone}, loading : BOOLEAN]],
         tabs'[t].token = 0, \A s \in Tabs \ {t} : tabs'[s] = tabs[s],
         asked' \subseteq asked, crossed \subseteq crossed', crossed' \subseteq Tabs,
         UNCHANGED <<issued, expired>>,
         refused \subseteq refused',
         \A r \in refused' \ refused : \E c \in OfSession : c.tab = t /\ r = <<t, c.token>>
  PROVE  SessionInv'
<1> USE SessionAssumption DEF SessionInv, SessionTypeOK
<1>1. \A r \in refused' : r \in Tabs \X Tokens /\ issued[r[2]] # Anyone /\ (r \in refused \/ r[1] = t)
  BY DEF TokensAreIssued
<1>2. SessionTypeOK'
  <2>1. refused' \subseteq Tabs \X Tokens
    BY <1>1
  <2>2. stored' \in 0..MaxTokens
    OBVIOUS
  <2> QED BY <2>1, <2>2
<1>3. TokensAreIssued'
  BY <1>1 DEF TokensAreIssued, OfSession
<1>4. TabsAreOwn'
  BY DEF TabsAreOwn, SentBy
<1>5. GivenUp'
  <2>1. \A c \in OfSession' : c \in OfSession /\ c.token # 0
    BY DEF OfSession, TokensAreIssued, Tokens
  <2>2. \A r \in refused' : r[2] # 0 /\ tabs'[r[1]].token # r[2]
    <3>1. \A r \in refused' : r[2] # 0
      BY <1>1 DEF Tokens
    <3> QED BY <1>1, <3>1 DEF GivenUp, RefusedIsForgotten
  <2> QED BY <2>1, <2>2 DEF GivenUp, RefusedIsForgotten
<1> QED BY <1>2, <1>3, <1>4, <1>5
\* A request answered or expired leaves the session as it was, but for a profile,
\* which is shown.
LEMMA ServedStep == ASSUME SessionInv, NEW c \in asked, Served(c) PROVE SessionInv'
<1> USE DEF SessionInv, SessionTypeOK
<1>1. /\ asked' = asked \ {c} /\ UNCHANGED <<stored, issued, expired, refused, crossed>>
      /\ c \in OfSession /\ c.tab \in Tabs
      /\ tabs' = IF c.kind = "me"
                   THEN [tabs EXCEPT ![c.tab].person = c.person, ![c.tab].loading = FALSE]
                   ELSE tabs
  BY DEF Served, OfSession
<1>2. /\ tabs' \in [Tabs -> [shown : BOOLEAN, token : 0..MaxTokens,
                            person : People \cup {Anyone}, loading : BOOLEAN]]
      /\ \A t \in Tabs : tabs'[t].token = tabs[t].token
  <2>1. c.person \in People \cup {Anyone}
    BY <1>1 DEF OfSession
  <2> QED BY <1>1, <2>1
<1>3. TokensAreIssued'
  BY <1>1, <1>2 DEF TokensAreIssued, OfSession
<1>4. TabsAreOwn'
  <2> SUFFICES ASSUME NEW s \in Tabs \ crossed, tabs[s].token # 0
               PROVE  /\ tabs'[s].person \in {Anyone, issued[tabs[s].token]}
                      /\ \A d \in SentBy(s)' : d.kind = "me" => d.token = tabs[s].token
    BY <1>1, <1>2 DEF TabsAreOwn
  <2>1. SentBy(s)' \subseteq SentBy(s)
    BY <1>1 DEF SentBy
  <2>2. CASE s = c.tab /\ c.kind = "me"
    <3>1. c.token = tabs[s].token
      BY <1>1, <2>2 DEF TabsAreOwn, SentBy
    <3>2. tabs'[s].person = issued[tabs[s].token]
      BY <1>1, <2>2, <3>1 DEF TokensAreIssued
    <3> QED BY <2>1, <3>2 DEF TabsAreOwn
  <2>3. CASE s # c.tab \/ c.kind # "me"
    <3>1. tabs'[s] = tabs[s]
      BY <1>1, <2>3
    <3> QED BY <2>1, <3>1 DEF TabsAreOwn
  <2> QED BY <2>2, <2>3
<1>5. GivenUp'
  BY <1>1, <1>2 DEF GivenUp, OfSession, RefusedIsForgotten
<1> QED BY <1>1, <1>2, <1>3, <1>4, <1>5

\* A refusal ends the session that the tab has by then; if it has none, the refused
\* token is stored no more.
LEMMA TurnedAwayStep == ASSUME SessionInv, NEW c \in asked, TurnedAway(c) PROVE SessionInv'
<1> USE SessionAssumption DEF SessionInv, SessionTypeOK
<1>1. /\ asked' = asked \ {c} /\ LeavesBehind(c.tab) /\ UNCHANGED <<issued, expired>>
      /\ refused' = refused \cup {<<c.tab, c.token>>}
      /\ c \in OfSession /\ c.tab \in Tabs
  BY DEF TurnedAway, OfSession
<1>2. crossed \subseteq crossed' /\ crossed' \subseteq Tabs
  BY <1>1 DEF LeavesBehind
<1>3. CASE tabs[c.tab].token # 0 \/ c.kind = "me"
  <2>1. /\ stored' = 0
        /\ tabs' = [tabs EXCEPT ![c.tab] = [shown |-> TRUE, token |-> 0, person |-> Anyone,
                                           loading |-> @.loading /\ c.kind # "me"]]
    BY <1>3 DEF TurnedAway
  <2>2. (tabs[c.tab].loading /\ c.kind # "me") \in BOOLEAN /\ 0 \in 0..MaxTokens
    BY <1>1
  <2>3. /\ tabs' \in [Tabs -> [shown : BOOLEAN, token : 0..MaxTokens,
                              person : People \cup {Anyone}, loading : BOOLEAN]]
        /\ tabs'[c.tab].token = 0 /\ \A s \in Tabs \ {c.tab} : tabs'[s] = tabs[s]
    BY <1>1, <2>1, <2>2
  <2> QED BY <1>1, <1>2, <2>1, <2>3, SessionEnds
<1>4. CASE tabs[c.tab].token = 0 /\ c.kind # "me"
  <2>1. UNCHANGED <<tabs, stored>>
    BY <1>4 DEF TurnedAway
  <2>2. c.token \in Tokens /\ issued[c.token] # Anyone /\ c.token # 0
    BY <1>1 DEF TokensAreIssued, Tokens
  <2>3. SessionTypeOK'
    BY <1>1, <1>2, <2>1, <2>2
  <2>4. TokensAreIssued'
    BY <1>1, <2>1, <2>2 DEF TokensAreIssued, OfSession
  <2>5. TabsAreOwn'
    BY <1>1, <1>2, <2>1 DEF TabsAreOwn, SentBy
  <2>6. GivenUp'
    BY <1>1, <1>4, <2>1, <2>2 DEF GivenUp, OfSession, RefusedIsForgotten
  <2> QED BY <2>3, <2>4, <2>5, <2>6
<1> QED BY <1>3, <1>4

\* No answer, a logout, a login that fails, a token that expires.
LEMMA QuietSteps ==
  ASSUME SessionInv,
         \/ \E c \in asked : Lost(c) \/ SignInFails(c)
         \/ \E t \in Tabs : ClicksLogout(t)
         \/ \E k \in Tokens : Expires(k)
         \/ UNCHANGED sessionVars
  PROVE  SessionInv'
<1> USE SessionAssumption DEF SessionInv, SessionTypeOK
<1>1. ASSUME asked' \subseteq asked, expired' \subseteq Tokens,
             UNCHANGED <<stored, tabs, issued, refused, crossed>>
      PROVE  SessionInv'
  <2>1. SessionTypeOK'
    BY <1>1
  <2>2. TokensAreIssued' /\ GivenUp'
    BY <1>1 DEF TokensAreIssued, GivenUp, OfSession, RefusedIsForgotten
  <2>3. TabsAreOwn'
    BY <1>1 DEF TabsAreOwn, SentBy
  <2> QED BY <2>1, <2>2, <2>3
<1>2. ASSUME NEW c \in asked, Lost(c) PROVE SessionInv'
  <2>1. CASE c.kind = "me"
    <3>1. /\ stored' = 0 /\ crossed' = crossed /\ asked' = asked \ {c}
          /\ tabs' = [tabs EXCEPT ![c.tab] = [Blank EXCEPT !.shown = TRUE]]
          /\ UNCHANGED <<issued, expired, refused>> /\ c.tab \in Tabs
      BY <1>2, <2>1 DEF Lost
    <3>2. 0 \in 0..MaxTokens
      OBVIOUS
    <3>3. /\ [Blank EXCEPT !.shown = TRUE].token = 0
          /\ [Blank EXCEPT !.shown = TRUE] \in
               [shown : BOOLEAN, token : 0..MaxTokens, person : People \cup {Anyone},
                loading : BOOLEAN]
      BY <3>2 DEF Blank
    <3>4. /\ tabs' \in [Tabs -> [shown : BOOLEAN, token : 0..MaxTokens,
                                person : People \cup {Anyone}, loading : BOOLEAN]]
          /\ tabs'[c.tab].token = 0 /\ \A s \in Tabs \ {c.tab} : tabs'[s] = tabs[s]
      BY <3>1, <3>2, <3>3
    <3> QED BY <3>1, <3>4, SessionEnds
  <2>2. CASE c.kind # "me"
    BY <1>1, <1>2, <2>2 DEF Lost
  <2> QED BY <2>1, <2>2
<1>3. ASSUME NEW t \in Tabs, ClicksLogout(t) PROVE SessionInv'
  <2>1. /\ stored' = 0 /\ UNCHANGED <<asked, issued, expired, refused>>
        /\ tabs' = [tabs EXCEPT ![t].token = 0, ![t].person = Anyone]
        /\ crossed \subseteq crossed' /\ crossed' \subseteq Tabs
    BY <1>3 DEF ClicksLogout, Logout, LeavesBehind
  <2>2. 0 \in 0..MaxTokens
    OBVIOUS
  <2>3. /\ tabs' \in [Tabs -> [shown : BOOLEAN, token : 0..MaxTokens,
                              person : People \cup {Anyone}, loading : BOOLEAN]]
        /\ tabs'[t].token = 0 /\ \A s \in Tabs \ {t} : tabs'[s] = tabs[s]
    BY <2>1, <2>2
  <2> QED BY <2>1, <2>3, SessionEnds
<1>4. ASSUME NEW c \in asked, SignInFails(c) PROVE SessionInv'
  BY <1>1, <1>4 DEF SignInFails
<1>5. ASSUME NEW k \in Tokens, Expires(k) PROVE SessionInv'
  BY <1>1, <1>5 DEF Expires
<1>6. CASE UNCHANGED sessionVars
  BY <1>1, <1>6 DEF sessionVars
<1> QED BY <1>2, <1>3, <1>4, <1>5, <1>6

LEMMA SessionStep == SessionInv /\ [SessionNext]_sessionVars => SessionInv'
BY OpensStep, AsksStep, LoginStep, ServedStep, TurnedAwayStep, QuietSteps DEF SessionNext

\* The dashboard a tab shows is the one of the person its requests are made for,
\* and a token that was refused is gone from it and from the store, for any tabs,
\* people and requests.
THEOREM SessionsAreSound == SessionSpec => [](SessionTypeOK /\ PageIsOwn /\ RefusedIsForgotten)
<1>1. SessionInv => SessionTypeOK /\ PageIsOwn /\ RefusedIsForgotten
  BY DEF SessionInv, TabsAreOwn, GivenUp, PageIsOwn, Page
<1> QED BY <1>1, SessionInitial, SessionStep, PTL DEF SessionSpec
-----------------------------------------------------------------------------
(* Accounts *)

\* Links are issued in the order of their ids and stay; a reset holds one of them.
LinksInOrder ==
  /\ \A k \in Links : links[k] = "none" => \A j \in Links : j > k => links[j] = "none"
  /\ \A r \in Resets : resets[r].at # "idle" =>
       resets[r].link \in Links /\ links[resets[r].link] # "none"

\* The links issued before the last reset that ended are spent.
OldLinksSpent == \A k \in Links : k <= resetAt => links[k] \notin {"none", "open"}

AccountsInv == AccountsTypeOK /\ LinksInOrder /\ OldLinksSpent

LEMMA AccountsInitial == AccountsInit => AccountsInv
<1> SUFFICES ASSUME AccountsInit PROVE AccountsInv
  OBVIOUS
<1>1. 0 \in 0..MaxLinks /\ 0 \in 0..MaxAccountFaults
  BY AccountsAssumption
<1>2. AccountsTypeOK
  BY <1>1 DEF AccountsInit, AccountsTypeOK, NoReset
<1>3. LinksInOrder /\ OldLinksSpent
  BY DEF AccountsInit, NoReset, LinksInOrder, OldLinksSpent, Links
<1> QED BY <1>2, <1>3 DEF AccountsInv

\* As many links as were issued have ids up to that number.
LEMMA IssuedCount ==
  ASSUME AccountsTypeOK, LinksInOrder
  PROVE  Issued \in 0..MaxLinks /\ \A k \in Links : k <= Issued => links[k] # "none"
<1> DEFINE S == {k \in Links : links[k] # "none"}
<1> USE AccountsAssumption
<1>1. IsFiniteSet(1..MaxLinks) /\ Cardinality(1..MaxLinks) <= MaxLinks
  BY FS_Interval
<1>2. S \in SUBSET (1..MaxLinks)
  BY DEF Links
<1>3. Cardinality(S) <= Cardinality(1..MaxLinks) /\ IsFiniteSet(S) /\ Cardinality(1..MaxLinks) \in Nat
  BY <1>1, <1>2, FS_Subset, FS_CardinalityType
<1>4. Cardinality(S) \in Nat
  BY <1>3, FS_CardinalityType
<1>5. ASSUME NEW k \in Links, links[k] = "none" PROVE Cardinality(S) < k
  <2>1. k \in Nat /\ k >= 1
    BY DEF Links
  <2>2. IsFiniteSet(1..(k - 1)) /\ Cardinality(1..(k - 1)) = k - 1
    BY <2>1, FS_Interval
  <2>3. S \in SUBSET (1..(k - 1))
    <3>1. ASSUME NEW j \in S PROVE j \in 1..(k - 1)
      <4>1. j \in 1..MaxLinks /\ k \in 1..MaxLinks /\ ~(j > k) /\ j # k
        BY <1>5, <3>1 DEF LinksInOrder, Links
      <4> QED BY <4>1
    <3> QED BY <3>1
  <2>4. Cardinality(S) <= k - 1
    BY <2>2, <2>3, FS_Subset
  <2> QED BY <1>4, <2>1, <2>4
<1>6. ASSUME NEW k \in Links, k <= Cardinality(S) PROVE links[k] # "none"
  <2>1. k \in Nat
    BY DEF Links
  <2> QED BY <1>4, <1>5, <1>6, <2>1
<1>7. Cardinality(S) \in 0..MaxLinks
  BY <1>1, <1>3, <1>4
<1>8. Issued = Cardinality(S)
  BY DEF Issued
<1> HIDE DEF S
<1> QED BY <1>6, <1>7, <1>8

\* The steps of a sign-up, a login and a link that expires.
LEMMA SignUpStep ==
  ASSUME AccountsInv,
         \/ \E r \in SignUps : SignUpLooks(r) \/ SignUpCreates(r) \/ SignUpAccepts(r)
         \/ LogsIn \/ \E k \in Links : LinkExpires(k)
         \/ UNCHANGED accountVars
  PROVE  AccountsInv'
<1> USE DEF AccountsInv, AccountsTypeOK
<1>1. ASSUME UNCHANGED <<links, resets, resetAt>>, AccountsTypeOK' PROVE AccountsInv'
  BY <1>1 DEF LinksInOrder, OldLinksSpent
<1>2. ASSUME NEW r \in SignUps, SignUpLooks(r) \/ SignUpCreates(r) \/ SignUpAccepts(r)
      PROVE  AccountsInv'
  <2>1. AccountsTypeOK'
    BY <1>2 DEF SignUpLooks, SignUpCreates, SignUpAccepts
  <2> QED BY <1>1, <1>2, <2>1 DEF SignUpLooks, SignUpCreates, SignUpAccepts
<1>3. CASE LogsIn
  BY <1>1, <1>3 DEF LogsIn
<1>4. ASSUME NEW k \in Links, LinkExpires(k) PROVE AccountsInv'
  BY <1>4 DEF LinkExpires, LinksInOrder, OldLinksSpent
<1>5. CASE UNCHANGED accountVars
  BY <1>5 DEF accountVars, LinksInOrder, OldLinksSpent
<1> QED BY <1>2, <1>3, <1>4, <1>5

\* A new link has an id after those of the last reset.
LEMMA ForgotStep ==
  ASSUME AccountsInv, NEW f \in Forgets, ForgotFinds(f) \/ ForgotClears(f) \/ ForgotIssues(f)
  PROVE  AccountsInv'
<1> USE DEF AccountsInv, AccountsTypeOK
<1>1. CASE ForgotFinds(f)
  BY <1>1 DEF ForgotFinds, LinksInOrder, OldLinksSpent
<1>2. CASE ForgotClears(f)
  BY <1>2 DEF ForgotClears, UseAll, LinksInOrder, OldLinksSpent
<1>3. CASE ForgotIssues(f)
  <2>1. PICK k \in Links : /\ links[k] = "none" /\ \A j \in Links : j < k => links[j] # "none"
                          /\ links' = [links EXCEPT ![k] = "open"]
    BY <1>3 DEF ForgotIssues
  <2>2. AccountsTypeOK'
    BY <1>3, <2>1 DEF ForgotIssues
  <2>3. LinksInOrder'
    <3>1. ASSUME NEW i \in Links, links'[i] = "none", NEW j \in Links, j > i
          PROVE  links'[j] = "none"
      <4>1. i # k /\ links[i] = "none"
        BY <2>1, <3>1
      <4>2. k < i
        BY <2>1, <4>1 DEF Links
      <4>3. links[j] = "none" /\ j # k
        BY <3>1, <4>1, <4>2 DEF LinksInOrder, Links
      <4> QED BY <2>1, <4>3
    <3>2. \A r \in Resets : resets'[r].at # "idle" =>
            resets'[r].link \in Links /\ links'[resets'[r].link] # "none"
      BY <1>3, <2>1 DEF ForgotIssues, LinksInOrder
    <3> QED BY <3>1, <3>2 DEF LinksInOrder
  <2>4. OldLinksSpent'
    BY <1>3, <2>1 DEF ForgotIssues, OldLinksSpent
  <2> QED BY <2>2, <2>3, <2>4
<1> QED BY <1>1, <1>2, <1>3

\* A reset that ends spends every link, and all those issued are its past.
LEMMA ResetStep ==
  ASSUME AccountsInv, NEW r \in Resets,
         ResetWrites(r) \/ ResetMarks(r) \/ ResetClears(r) \/ \E k \in Links : ResetFinds(r, k)
  PROVE  AccountsInv'
<1> USE DEF AccountsInv, AccountsTypeOK
<1>1. ASSUME NEW k \in Links, ResetFinds(r, k) PROVE AccountsInv'
  <2>1. k \in 0..MaxLinks
    BY DEF Links
  <2> QED BY <1>1, <2>1 DEF ResetFinds, LinksInOrder, OldLinksSpent
<1>2. CASE ResetWrites(r)
  BY <1>2 DEF ResetWrites, LinksInOrder, OldLinksSpent
<1>3. CASE ResetMarks(r)
  <2>1. resets[r].link \in Links /\ links[resets[r].link] # "none"
    BY <1>3 DEF ResetMarks, LinksInOrder
  <2> QED BY <1>3, <2>1 DEF ResetMarks, LinksInOrder, OldLinksSpent
<1>4. CASE ResetClears(r)
  <2>1. /\ resets' = [resets EXCEPT ![r] = NoReset] /\ links' = UseAll /\ resetAt' = Issued
        /\ UNCHANGED <<user, signups, forgets, crashes>>
    BY <1>4 DEF ResetClears
  <2>2. \A k \in Links : /\ links'[k] # "open" /\ (links'[k] = "none" <=> links[k] = "none")
    BY <2>1 DEF UseAll
  <2>3. AccountsTypeOK'
    <3>1. links' \in [Links -> {"none", "open", "used", "expired"}]
      BY <2>1 DEF UseAll
    <3>2. NoReset \in [at : {"idle", "valid", "written", "marked"}, link : 0..MaxLinks]
      BY AccountsAssumption DEF NoReset
    <3> QED BY <2>1, <3>1, <3>2, IssuedCount
  <2>4. LinksInOrder'
    BY <2>1, <2>2 DEF LinksInOrder, NoReset
  <2>5. OldLinksSpent'
    BY <2>1, <2>2, IssuedCount DEF OldLinksSpent
  <2> QED BY <2>3, <2>4, <2>5
<1> QED BY <1>1, <1>2, <1>3, <1>4

LEMMA AccountsStep == AccountsInv /\ [AccountsNext]_accountVars => AccountsInv'
<1> SUFFICES ASSUME AccountsInv, [AccountsNext]_accountVars PROVE AccountsInv'
  OBVIOUS
<1>1. CASE ServerDies
  <2> USE DEF AccountsInv, AccountsTypeOK
  <2>1. AccountsTypeOK'
    <3>1. NoReset \in [at : {"idle", "valid", "written", "marked"}, link : 0..MaxLinks]
      BY AccountsAssumption DEF NoReset
    <3>2. crashes' \in 0..MaxAccountFaults
      BY <1>1, AccountsAssumption DEF ServerDies
    <3>3. signups' \in [SignUps -> {"idle", "free", "row", "done", "refused"}]
      BY <1>1 DEF ServerDies
    <3> QED BY <1>1, <3>1, <3>2, <3>3 DEF ServerDies
  <2>2. LinksInOrder' /\ OldLinksSpent'
    BY <1>1 DEF ServerDies, LinksInOrder, OldLinksSpent, NoReset
  <2> QED BY <2>1, <2>2
<1> QED BY <1>1, SignUpStep, ForgotStep, ResetStep DEF AccountsNext

\* A link issued before a reset was answered opens nothing any more, for any
\* requests, links and crashes (/auth/reset-password).
THEOREM OldLinksOpenNothing == AccountsSpec => [](AccountsTypeOK /\ NoOldLink)
<1>1. AccountsInv => AccountsTypeOK /\ NoOldLink
  BY DEF AccountsInv, AccountsTypeOK, OldLinksSpent, NoOldLink, Open, Links
<1> QED BY <1>1, AccountsInitial, AccountsStep, PTL DEF AccountsSpec
-----------------------------------------------------------------------------
(* Reinvest *)

\* A share is no more than what it is a share of.
LEMMA ShareIsPart ==
  ASSUME NEW a \in Nat, NEW p \in 0..100
  PROVE  Share(a, p) \in Int /\ Share(a, p) <= a
<1>1. PICK x \in Int : x = a * p /\ x <= a * 100
  OBVIOUS
<1>2. PICK q \in Int : q = x \div 100 /\ 100 * q <= x
  OBVIOUS
<1>3. q <= a
  BY <1>1, <1>2
<1> QED BY <1>1, <1>2, <1>3 DEF Share

LEMMA ShareType ==
  ASSUME NEW a \in Int, NEW p \in Nat
  PROVE  Share(a, p) \in Int
<1>1. PICK x \in Int : x = a * p
  OBVIOUS
<1>2. x \div 100 \in Int
  OBVIOUS
<1> QED BY <1>1, <1>2 DEF Share

\* The compound at work has read the sums as they are: nobody else writes what is
\* reinvested, and who writes the investment leaves a mark.  Its amount has a place
\* in the profit beside what is booked, from the decision to the booking.
SumsAreRead ==
  compound.pc \in {"decide", "brake", "write"} =>
    /\ compound.reinvested = bot.reinvested
    /\ ~handed => compound.invest = bot.invest
AmountIsEarned ==
  /\ bot.pct \in Pcts /\ bot.profit <= earned
  /\ compound.pc # "idle" => compound.pct \in Pcts /\ compound.profit <= earned
  /\ compound.pc \in {"brake", "write", "book"} => ledger + compound.amount <= earned

ReinvestInv ==
  ReinvestTypeOK /\ SumsAreRead /\ AmountIsEarned /\ InvestmentIsBooked /\ OnlyProfitIsBooked

LEMMA ReinvestInitial == ReinvestInit => ReinvestInv
<1> SUFFICES ASSUME ReinvestInit PROVE ReinvestInv
  OBVIOUS
<1>1. PICK p \in Pcts : bot = [running |-> TRUE, pct |-> p, invest |-> Start, reinvested |-> 0,
                               profit |-> 0, compounded |-> FALSE]
  BY DEF ReinvestInit
<1>2. p \in Nat /\ Start \in Int
  BY ReinvestAssumption
<1>3. bot \in BotRow
  BY <1>1, <1>2 DEF BotRow
<1>4. ReinvestTypeOK
  <2>1. /\ compound = NoCompound /\ byHand = NoHand /\ ledger = 0 /\ lost = 0 /\ earned = 0
        /\ handed = FALSE /\ handUses = 0 /\ downs = 0
    BY DEF ReinvestInit
  <2>2. NoCompound \in [pc : {"idle", "decide", "brake", "write", "book"},
                        pct : Nat, invest : Int, reinvested : Int, profit : Int, amount : Int]
        /\ NoHand \in [pc : {"idle", "balance"}, pct : Nat, invest : Int, profit : Int]
    BY DEF NoCompound, NoHand
  <2>4. compound \in [pc : {"idle", "decide", "brake", "write", "book"},
                      pct : Nat, invest : Int, reinvested : Int, profit : Int, amount : Int]
    BY <2>1, <2>2, Zenon
  <2>5. byHand \in [pc : {"idle", "balance"}, pct : Nat, invest : Int, profit : Int]
    BY <2>1, <2>2, Zenon
  <2>7. handed \in BOOLEAN
    BY DEF ReinvestInit
  <2>6. /\ ledger \in Int /\ lost \in Int
        /\ earned \in 0..MaxEarned /\ handUses \in 0..MaxManual /\ downs \in 0..MaxCrashes
    BY ReinvestAssumption DEF ReinvestInit
  <2> QED BY <1>3, <2>4, <2>5, <2>6, <2>7, Zenon DEF ReinvestTypeOK
<1> QED BY <1>1, <1>2, <1>4 DEF ReinvestInit, ReinvestInv, SumsAreRead, AmountIsEarned,
          InvestmentIsBooked, OnlyProfitIsBooked, InFlight, NoCompound

LEMMA ReinvestStep == ReinvestInv /\ [ReinvestNext]_reinvestVars => ReinvestInv'
<1> SUFFICES ASSUME ReinvestInv, [ReinvestNext]_reinvestVars PROVE ReinvestInv'
  OBVIOUS
<1>0. /\ ReinvestTypeOK /\ bot \in BotRow /\ ledger \in Int /\ lost \in Int /\ handed \in BOOLEAN
      /\ earned \in Nat /\ earned <= MaxEarned
      /\ compound \in [pc : {"idle", "decide", "brake", "write", "book"},
                       pct : Nat, invest : Int, reinvested : Int, profit : Int, amount : Int]
      /\ byHand \in [pc : {"idle", "balance"}, pct : Nat, invest : Int, profit : Int]
      /\ handUses \in Nat /\ handUses <= MaxManual /\ downs \in Nat /\ downs <= MaxCrashes
  BY ReinvestAssumption DEF ReinvestInv, ReinvestTypeOK
<1>a. SumsAreRead /\ AmountIsEarned /\ InvestmentIsBooked /\ OnlyProfitIsBooked
  BY DEF ReinvestInv
<1>b. Pcts \subseteq 0..100 /\ Threshold \in Nat \ {0} /\ Parcel \in Nat /\ MaxEarned \in Nat
      /\ Start \in Nat /\ MaxManual \in Nat /\ MaxCrashes \in Nat
  BY ReinvestAssumption
<1>c. /\ bot.running \in BOOLEAN /\ bot.pct \in Nat /\ bot.invest \in Int /\ bot.reinvested \in Int
      /\ bot.profit \in Int /\ bot.compounded \in BOOLEAN
      /\ compound.pct \in Nat /\ compound.invest \in Int /\ compound.reinvested \in Int
      /\ compound.profit \in Int /\ compound.amount \in Int
  BY <1>0 DEF BotRow
<1>d. NoCompound \in [pc : {"idle", "decide", "brake", "write", "book"},
                      pct : Nat, invest : Int, reinvested : Int, profit : Int, amount : Int]
      /\ NoCompound.pc = "idle" /\ NoHand \in [pc : {"idle", "balance"}, pct : Nat, invest : Int, profit : Int]
  BY DEF NoCompound, NoHand
<1>1. CASE CompoundReads
  <2>1. /\ compound' = [pc |-> "decide", pct |-> bot.pct, invest |-> bot.invest,
                        reinvested |-> bot.reinvested, profit |-> bot.profit, amount |-> 0]
        /\ compound.pc = "idle" /\ bot' = bot /\ ledger' = ledger /\ earned' = earned
        /\ byHand' = byHand /\ handUses' = handUses /\ downs' = downs /\ lost' = lost
        /\ handed' = handed
    BY <1>1 DEF CompoundReads
  <2>2. ReinvestTypeOK'
    BY <1>0, <1>c, <2>1 DEF ReinvestTypeOK
  <2> QED BY <1>a, <2>1, <2>2 DEF ReinvestInv, SumsAreRead, AmountIsEarned, InvestmentIsBooked,
            OnlyProfitIsBooked, InFlight
<1>2. CASE CompoundDecides
  <2>1. /\ compound.pc = "decide" /\ bot' = bot /\ ledger' = ledger /\ earned' = earned
        /\ byHand' = byHand /\ handUses' = handUses /\ downs' = downs /\ lost' = lost
        /\ handed' = handed
    BY <1>2 DEF CompoundDecides
  <2>2. CASE Available >= Threshold
    <3>1. PICK s \in Int : s = Share(Available, compound.pct) /\ s <= Available
      <4>1. Available \in Nat /\ compound.pct \in 0..100
        BY <1>0, <1>a, <1>b, <1>c, <2>1, <2>2 DEF Available, AmountIsEarned
      <4> QED BY <4>1, ShareIsPart
    <3>2. compound' = [compound EXCEPT !.pc = "brake", !.amount = s]
      BY <1>2, <2>2, <3>1 DEF CompoundDecides
    <3>3. /\ compound'.pc = "brake" /\ compound'.amount = s /\ compound'.pct = compound.pct
          /\ compound'.invest = compound.invest /\ compound'.reinvested = compound.reinvested
          /\ compound'.profit = compound.profit
          /\ compound' \in [pc : {"idle", "decide", "brake", "write", "book"},
                       pct : Nat, invest : Int, reinvested : Int, profit : Int, amount : Int]
      BY <1>0, <3>2
    <3>4. ledger + s <= earned
      <4>1. compound.profit <= earned
        BY <1>a, <2>1 DEF AmountIsEarned
      <4> QED BY <1>0, <1>c, <3>1, <4>1 DEF Available
    <3>5. ReinvestTypeOK'
      BY <1>0, <2>1, <3>3 DEF ReinvestTypeOK
    <3> QED BY <1>a, <2>1, <3>3, <3>4, <3>5 DEF ReinvestInv, SumsAreRead, AmountIsEarned,
              InvestmentIsBooked, OnlyProfitIsBooked, InFlight
  <2>3. CASE ~(Available >= Threshold)
    <3>1. compound' = NoCompound
      BY <1>2, <2>3 DEF CompoundDecides
    <3>2. ReinvestTypeOK'
      BY <1>0, <1>d, <2>1, <3>1 DEF ReinvestTypeOK
    <3> QED BY <1>a, <1>d, <2>1, <3>1, <3>2 DEF ReinvestInv, SumsAreRead, AmountIsEarned,
              InvestmentIsBooked, OnlyProfitIsBooked, InFlight
  <2> QED BY <2>2, <2>3
<1>3. CASE CompoundBrakes
  <2>1. /\ compound.pc = "brake" /\ bot' = bot /\ ledger' = ledger /\ earned' = earned
        /\ byHand' = byHand /\ handUses' = handUses /\ downs' = downs /\ lost' = lost
        /\ handed' = handed
        /\ compound' = NoCompound \/ compound' = [compound EXCEPT !.pc = "write"]
    BY <1>3 DEF CompoundBrakes
  <2>2. CASE compound' = NoCompound
    <3>1. ReinvestTypeOK'
      BY <1>0, <1>d, <2>1, <2>2 DEF ReinvestTypeOK
    <3> QED BY <1>a, <1>d, <2>1, <2>2, <3>1 DEF ReinvestInv, SumsAreRead, AmountIsEarned,
              InvestmentIsBooked, OnlyProfitIsBooked, InFlight
  <2>3. CASE compound' = [compound EXCEPT !.pc = "write"]
    <3>1. /\ compound'.pc = "write" /\ compound'.amount = compound.amount /\ compound'.pct = compound.pct
          /\ compound'.invest = compound.invest /\ compound'.reinvested = compound.reinvested
          /\ compound'.profit = compound.profit
          /\ compound' \in [pc : {"idle", "decide", "brake", "write", "book"},
                       pct : Nat, invest : Int, reinvested : Int, profit : Int, amount : Int]
      BY <1>0, <2>3
    <3>2. ReinvestTypeOK'
      BY <1>0, <2>1, <3>1 DEF ReinvestTypeOK
    <3> QED BY <1>a, <2>1, <3>1, <3>2 DEF ReinvestInv, SumsAreRead, AmountIsEarned,
              InvestmentIsBooked, OnlyProfitIsBooked, InFlight
  <2> QED BY <2>1, <2>2, <2>3
<1>4. CASE CompoundWrites
  <2>1. PICK v \in Int, y \in Int : v = compound.invest + compound.amount
                                    /\ y = compound.reinvested + compound.amount
    BY <1>c
  <2>2. /\ compound.pc = "write" /\ ledger' = ledger /\ earned' = earned
        /\ byHand' = byHand /\ handUses' = handUses /\ downs' = downs /\ lost' = lost
        /\ handed' = handed
        /\ bot' = [bot EXCEPT !.invest = v, !.reinvested = y, !.compounded = TRUE]
        /\ compound' = [compound EXCEPT !.pc = "book"]
    BY <1>4, <2>1 DEF CompoundWrites
  <2>3. /\ compound'.pc = "book" /\ compound'.amount = compound.amount /\ compound'.pct = compound.pct
        /\ compound'.profit = compound.profit
        /\ compound' \in [pc : {"idle", "decide", "brake", "write", "book"},
                     pct : Nat, invest : Int, reinvested : Int, profit : Int, amount : Int]
    BY <1>0, <2>2
  <2>4. /\ bot'.invest = v /\ bot'.reinvested = y /\ bot'.pct = bot.pct /\ bot'.profit = bot.profit
        /\ bot' \in BotRow
    BY <1>0, <2>1, <2>2 DEF BotRow
  <2>5. ReinvestTypeOK'
    BY <1>0, <2>2, <2>3, <2>4 DEF ReinvestTypeOK
  <2>6. InvestmentIsBooked'
    <3>1. /\ bot.reinvested = ledger + lost + 0 /\ compound.reinvested = bot.reinvested
          /\ ~handed => compound.invest = bot.invest /\ bot.invest = Start + bot.reinvested
      BY <1>a, <2>2 DEF InvestmentIsBooked, InFlight, SumsAreRead
    <3> QED BY <1>0, <1>b, <1>c, <2>1, <2>2, <2>3, <2>4, <3>1 DEF InvestmentIsBooked, InFlight
  <2> QED BY <1>a, <2>2, <2>3, <2>4, <2>5, <2>6 DEF ReinvestInv, SumsAreRead, AmountIsEarned,
            OnlyProfitIsBooked
<1>5. CASE CompoundBooks
  <2>1. /\ compound.pc = "book" /\ ledger' = ledger + compound.amount /\ compound' = NoCompound
        /\ bot' = bot /\ earned' = earned /\ byHand' = byHand /\ handUses' = handUses
        /\ downs' = downs /\ lost' = lost /\ handed' = handed
    BY <1>5 DEF CompoundBooks
  <2>2. ReinvestTypeOK'
    BY <1>0, <1>c, <1>d, <2>1 DEF ReinvestTypeOK
  <2>3. InvestmentIsBooked'
    <3>1. /\ bot.reinvested = ledger + lost + compound.amount
          /\ ~handed => bot.invest = Start + bot.reinvested
      BY <1>a, <2>1 DEF InvestmentIsBooked, InFlight
    <3> QED BY <1>0, <1>c, <1>d, <2>1, <3>1 DEF InvestmentIsBooked, InFlight
  <2> QED BY <1>a, <1>d, <2>1, <2>2, <2>3 DEF ReinvestInv, SumsAreRead, AmountIsEarned, OnlyProfitIsBooked
<1>6. CASE Earns
  <2>1. /\ earned' = earned + Parcel /\ earned + Parcel <= MaxEarned
        /\ bot' = bot /\ ledger' = ledger /\ compound' = compound /\ byHand' = byHand
        /\ handUses' = handUses /\ downs' = downs /\ lost' = lost /\ handed' = handed
    BY <1>6 DEF Earns
  <2>2. earned' \in 0..MaxEarned /\ earned <= earned'
    BY <1>0, <1>b, <2>1
  <2>3. ReinvestTypeOK'
    BY <1>0, <2>1, <2>2 DEF ReinvestTypeOK
  <2>4. AmountIsEarned' /\ OnlyProfitIsBooked'
    BY <1>0, <1>a, <1>c, <2>1, <2>2 DEF AmountIsEarned, OnlyProfitIsBooked
  <2> QED BY <1>a, <2>1, <2>3, <2>4 DEF ReinvestInv, SumsAreRead, InvestmentIsBooked, InFlight
<1>7. CASE Updates
  <2>1. /\ bot' = [bot EXCEPT !.profit = earned]
        /\ earned' = earned /\ ledger' = ledger /\ compound' = compound /\ byHand' = byHand
        /\ handUses' = handUses /\ downs' = downs /\ lost' = lost /\ handed' = handed
    BY <1>7 DEF Updates
  <2>2. /\ bot'.invest = bot.invest /\ bot'.reinvested = bot.reinvested /\ bot'.pct = bot.pct
        /\ bot'.profit = earned /\ bot' \in BotRow
    BY <1>0, <2>1 DEF BotRow
  <2>3. ReinvestTypeOK'
    BY <1>0, <2>1, <2>2 DEF ReinvestTypeOK
  <2> QED BY <1>0, <1>a, <2>1, <2>2, <2>3 DEF ReinvestInv, SumsAreRead, AmountIsEarned, InvestmentIsBooked,
            OnlyProfitIsBooked, InFlight
<1>8. ASSUME NEW p \in Pcts, SetsPct(p) PROVE ReinvestInv'
  <2>0. p \in Nat
    BY <1>b
  <2>1. /\ bot' = [bot EXCEPT !.pct = p]
        /\ earned' = earned /\ ledger' = ledger /\ compound' = compound /\ byHand' = byHand
        /\ handUses' = handUses /\ downs' = downs /\ lost' = lost /\ handed' = handed
    BY <1>8 DEF SetsPct
  <2>2. /\ bot'.invest = bot.invest /\ bot'.reinvested = bot.reinvested /\ bot'.pct = p
        /\ bot'.profit = bot.profit /\ bot' \in BotRow
    BY <1>0, <2>0, <2>1 DEF BotRow
  <2>3. ReinvestTypeOK'
    BY <1>0, <2>1, <2>2 DEF ReinvestTypeOK
  <2> QED BY <1>a, <2>1, <2>2, <2>3 DEF ReinvestInv, SumsAreRead, AmountIsEarned, InvestmentIsBooked,
            OnlyProfitIsBooked, InFlight
<1>9. CASE HandReads
  <2>1. /\ byHand' = [pc |-> "balance", pct |-> bot.pct, invest |-> bot.invest, profit |-> bot.profit]
        /\ handUses' = handUses + 1 /\ handUses < MaxManual
        /\ bot' = bot /\ earned' = earned /\ ledger' = ledger /\ compound' = compound
        /\ downs' = downs /\ lost' = lost /\ handed' = handed
    BY <1>9 DEF HandReads
  <2>2. handUses' \in 0..MaxManual
    BY <1>0, <1>b, <2>1
  <2>3. ReinvestTypeOK'
    BY <1>0, <1>c, <2>1, <2>2 DEF ReinvestTypeOK
  <2> QED BY <1>a, <2>1, <2>3 DEF ReinvestInv, SumsAreRead, AmountIsEarned, InvestmentIsBooked,
            OnlyProfitIsBooked, InFlight
<1>10. CASE HandWrites
  <2>1. /\ byHand' = NoHand /\ earned' = earned /\ ledger' = ledger /\ compound' = compound
        /\ handUses' = handUses /\ downs' = downs /\ lost' = lost
    BY <1>10 DEF HandWrites
  <2>2. PICK profit \in {Start + earned - byHand.invest, byHand.profit} :
          IF profit < Threshold
            THEN bot' = bot /\ handed' = handed
            ELSE /\ bot' = [bot EXCEPT !.invest = byHand.invest + Share(profit, byHand.pct),
                                       !.compounded = TRUE]
                 /\ handed' = TRUE
    BY <1>10 DEF HandWrites
  <2>3. CASE bot' = bot /\ handed' = handed
    <3>1. ReinvestTypeOK'
      BY <1>0, <1>d, <2>1, <2>3 DEF ReinvestTypeOK
    <3> QED BY <1>a, <2>1, <2>3, <3>1 DEF ReinvestInv, SumsAreRead, AmountIsEarned, InvestmentIsBooked,
              OnlyProfitIsBooked, InFlight
  <2>4. CASE ~(profit < Threshold)
    <3>1. profit \in Int /\ byHand.invest \in Int /\ byHand.pct \in Nat
      <4>1. byHand.invest \in Int /\ byHand.profit \in Int /\ byHand.pct \in Nat
        BY <1>0
      <4> QED BY <1>0, <1>b, <2>2, <4>1
    <3>2. PICK v \in Int : v = byHand.invest + Share(profit, byHand.pct)
      <4>1. Share(profit, byHand.pct) \in Int
        BY <3>1, ShareType
      <4> QED BY <3>1, <4>1
    <3>3. bot' = [bot EXCEPT !.invest = v, !.compounded = TRUE] /\ handed' = TRUE
      BY <2>2, <2>4, <3>2
    <3>4. /\ bot'.invest = v /\ bot'.reinvested = bot.reinvested /\ bot'.pct = bot.pct
          /\ bot'.profit = bot.profit /\ bot' \in BotRow
      BY <1>0, <3>3 DEF BotRow
    <3>5. ReinvestTypeOK'
      BY <1>0, <1>d, <2>1, <3>3, <3>4 DEF ReinvestTypeOK
    <3> QED BY <1>a, <2>1, <3>3, <3>4, <3>5 DEF ReinvestInv, SumsAreRead, AmountIsEarned, InvestmentIsBooked,
              OnlyProfitIsBooked, InFlight
  <2> QED BY <2>2, <2>3, <2>4
<1>11. CASE Unlocks \/ Closes
  <2>1. /\ earned' = earned /\ ledger' = ledger /\ compound' = compound /\ byHand' = byHand
        /\ handUses' = handUses /\ downs' = downs /\ lost' = lost /\ handed' = handed
        /\ bot' = [bot EXCEPT !.compounded = FALSE] \/ bot' = [bot EXCEPT !.running = FALSE]
    BY <1>11 DEF Unlocks, Closes
  <2>2. /\ bot'.invest = bot.invest /\ bot'.reinvested = bot.reinvested /\ bot'.pct = bot.pct
        /\ bot'.profit = bot.profit /\ bot' \in BotRow
    BY <1>0, <2>1 DEF BotRow
  <2>3. ReinvestTypeOK'
    BY <1>0, <2>1, <2>2 DEF ReinvestTypeOK
  <2> QED BY <1>a, <2>1, <2>2, <2>3 DEF ReinvestInv, SumsAreRead, AmountIsEarned, InvestmentIsBooked,
            OnlyProfitIsBooked, InFlight
<1>12. CASE JobsDie
  <2>1. /\ downs < MaxCrashes /\ downs' = downs + 1 /\ lost' = lost + InFlight
        /\ compound' = NoCompound /\ byHand' = NoHand
        /\ bot' = bot /\ ledger' = ledger /\ earned' = earned /\ handUses' = handUses /\ handed' = handed
    BY <1>12 DEF JobsDie
  <2>2. InFlight \in Int /\ downs' \in 0..MaxCrashes
    BY <1>0, <1>b, <1>c, <2>1 DEF InFlight
  <2>3. ReinvestTypeOK'
    BY <1>0, <1>d, <2>1, <2>2 DEF ReinvestTypeOK
  <2>4. InFlight' = 0
    BY <1>d, <2>1 DEF InFlight
  <2>5. InvestmentIsBooked'
    BY <1>0, <1>a, <2>1, <2>2, <2>4 DEF InvestmentIsBooked
  <2> QED BY <1>a, <1>d, <2>1, <2>3, <2>5 DEF ReinvestInv, SumsAreRead, AmountIsEarned, OnlyProfitIsBooked
<1>13. CASE UNCHANGED reinvestVars
  BY <1>13 DEF reinvestVars, ReinvestInv, ReinvestTypeOK, SumsAreRead, AmountIsEarned, InvestmentIsBooked,
            OnlyProfitIsBooked, InFlight
<1> QED BY <1>1, <1>2, <1>3, <1>4, <1>5, <1>6, <1>7, <1>8, <1>9, <1>10, <1>11, <1>12, <1>13
        DEF ReinvestNext, Compounding

\* What is compounded is in the row, in the ledger, on its way or lost by a crash,
\* and what the ledger has booked was earned, for any investment, threshold,
\* percentages and profit (checkCompoundRebalance, decideCompound).
THEOREM CompoundsAreBooked == ReinvestSpec => [](ReinvestTypeOK /\ InvestmentIsBooked /\ OnlyProfitIsBooked)
<1>1. ReinvestInv => ReinvestTypeOK /\ InvestmentIsBooked /\ OnlyProfitIsBooked
  BY DEF ReinvestInv
<1> QED BY <1>1, ReinvestInitial, ReinvestStep, PTL DEF ReinvestSpec

-----------------------------------------------------------------------------
(* Funding *)

\* While the position is the one first read: what the net would be if a reading, or
\* the total of now, were written next is no more than was received.
NetIsReceived ==
  epochs = 0 =>
    /\ Net <= received
    /\ reading # NoReading => (Net + total) - reading.total <= received
    /\ snapshot # NoSnapshot =>
         /\ (Net + total) - snapshot.latest <= received
         /\ reading # NoReading => (Net + reading.total) - snapshot.latest <= received

FundingInv == FundingTypeOK /\ NetIsReceived

LEMMA FundingInitial == FundingInit => FundingInv
<1> SUFFICES ASSUME FundingInit PROVE FundingInv
  OBVIOUS
<1>1. FundingTypeOK
  BY FundingAssumption DEF FundingInit, FundingTypeOK, NoSnapshot, NoReading, Totals
<1>2. NetIsReceived
  BY DEF FundingInit, NetIsReceived, NoSnapshot, NoReading, Net
<1> QED BY <1>1, <1>2 DEF FundingInv

\* The row after a reading t: the same net if the total is taken for that of a new
\* position, and otherwise moved by what the total has moved.
LEMMA UpsertedRow ==
  ASSUME NEW row \in [kind : {"none", "row"}, baseline : Totals, latest : Totals, carried : Int],
         NEW t \in Totals
  PROVE  \E new \in [kind : {"none", "row"}, baseline : Totals, latest : Totals, carried : Int] :
           /\ new = Upserted(row, t) /\ new.latest = t
           /\ row = NoSnapshot => new.carried + (new.latest - new.baseline) = 0
           /\ row # NoSnapshot =>
                \/ new.carried + (new.latest - new.baseline) = row.carried + (row.latest - row.baseline)
                \/ new.carried + (new.latest - new.baseline) =
                     ((row.carried + (row.latest - row.baseline)) + t) - row.latest
<1>0. /\ t \in Int /\ row.baseline \in Int /\ row.latest \in Int /\ row.carried \in Int
      /\ row = [kind |-> row.kind, baseline |-> row.baseline, latest |-> row.latest,
                carried |-> row.carried]
      /\ row.kind \in {"none", "row"} /\ row.baseline \in Totals /\ row.latest \in Totals
  <2>1. Totals \subseteq Int
    BY FundingAssumption DEF Totals
  <2> QED BY <2>1
<1>1. CASE row = NoSnapshot
  <2>1. PICK new : new = [kind |-> "row", baseline |-> t, latest |-> t, carried |-> 0]
    OBVIOUS
  <2>2. new = Upserted(row, t)
    BY <1>1, <2>1 DEF Upserted
  <2> QED BY <1>0, <1>1, <2>1, <2>2
<1>2. CASE row # NoSnapshot /\ t < row.baseline
  <2>1. PICK new : new = [kind |-> row.kind, baseline |-> t, latest |-> t,
                          carried |-> row.carried + (row.latest - row.baseline)]
    OBVIOUS
  <2>2. new = Upserted(row, t)
    BY <1>0, <1>2, <2>1 DEF Upserted
  <2>3. /\ new.latest = t /\ new.baseline = t /\ new.kind = row.kind
        /\ new.carried = row.carried + (row.latest - row.baseline) /\ new.carried \in Int
    BY <1>0, <2>1
  <2>4. new \in [kind : {"none", "row"}, baseline : Totals, latest : Totals, carried : Int]
    BY <1>0, <2>1, <2>3
  <2>5. new.carried + (new.latest - new.baseline) = row.carried + (row.latest - row.baseline)
    BY <1>0, <2>3
  <2> QED BY <1>2, <2>2, <2>3, <2>4, <2>5
<1>3. CASE row # NoSnapshot /\ ~(t < row.baseline)
  <2>1. PICK new : new = [kind |-> row.kind, baseline |-> row.baseline, latest |-> t,
                          carried |-> row.carried]
    OBVIOUS
  <2>2. new = Upserted(row, t)
    BY <1>0, <1>3, <2>1 DEF Upserted
  <2>3. /\ new.latest = t /\ new.baseline = row.baseline /\ new.kind = row.kind
        /\ new.carried = row.carried
    BY <2>1
  <2>4. new \in [kind : {"none", "row"}, baseline : Totals, latest : Totals, carried : Int]
    BY <1>0, <2>1, <2>3
  <2>5. new.carried + (new.latest - new.baseline) =
          ((row.carried + (row.latest - row.baseline)) + t) - row.latest
    BY <1>0, <2>3
  <2> QED BY <1>3, <2>2, <2>3, <2>4, <2>5
<1> QED BY <1>1, <1>2, <1>3

LEMMA FundingStep == FundingInv /\ [FundingNext]_fundingVars => FundingInv'
<1> SUFFICES ASSUME FundingInv, [FundingNext]_fundingVars PROVE FundingInv'
  OBVIOUS
<1>0. /\ FundingTypeOK /\ NetIsReceived /\ total \in Int /\ epochs \in Nat /\ received \in Nat
      /\ reading.total \in Int /\ snapshot.latest \in Int /\ Net \in Int /\ payments \in Nat
      /\ Totals \subseteq Int
  <2>1. Totals \subseteq Int
    BY FundingAssumption DEF Totals
  <2>2. FundingTypeOK /\ NetIsReceived
    BY DEF FundingInv
  <2>3. /\ snapshot.baseline \in Int /\ snapshot.latest \in Int /\ snapshot.carried \in Int
        /\ reading.total \in Int /\ total \in Int
    BY <2>1, <2>2 DEF FundingTypeOK
  <2>4. epochs \in Nat /\ received \in Nat /\ payments \in Nat
    BY <2>2, FundingAssumption DEF FundingTypeOK
  <2> QED BY <2>1, <2>2, <2>3, <2>4 DEF Net
<1>1. ASSUME NEW n \in {-1, 1}, SettlesFunding(n) PROVE FundingInv'
  <2>0. n \in Int
    BY <1>1
  <2>1. /\ total' = total + n /\ total + n \in Totals /\ payments' = payments + 1
        /\ payments < MaxPayments
        /\ received' = IF n > 0 /\ (snapshot # NoSnapshot \/ reading # NoReading)
                         THEN received + n ELSE received
        /\ position' = position /\ snapshot' = snapshot /\ reading' = reading
        /\ epochs' = epochs /\ first' = first
    BY <1>1 DEF SettlesFunding
  <2>2. received' \in Nat /\ received <= received'
    BY <1>0, <2>0, <2>1
  <2>3. payments' \in 0..MaxPayments
    BY <1>0, <2>1, FundingAssumption
  <2>4. FundingTypeOK'
    BY <1>0, <2>1, <2>2, <2>3 DEF FundingTypeOK
  <2>5. (snapshot # NoSnapshot \/ reading # NoReading) => total' - total <= received' - received
    BY <1>0, <2>0, <2>1
  <2>6. Net' = Net
    BY <2>1 DEF Net
  <2>7. PICK s \in Int, r \in Int, N \in Int, a \in Int, b \in Int, c \in Nat, d \in Nat :
          /\ s = snapshot.latest /\ r = reading.total /\ N = Net /\ a = total /\ b = total'
          /\ c = received /\ d = received'
    BY <1>0, <2>0, <2>1, <2>2
  <2>8. NetIsReceived'
    BY <1>0, <2>1, <2>2, <2>5, <2>6, <2>7 DEF NetIsReceived
  <2> QED BY <2>4, <2>8 DEF FundingInv
<1>2. CASE ClosesPosition
  BY <1>0, <1>2 DEF ClosesPosition, FundingInv, FundingTypeOK, NetIsReceived, Net
<1>3. CASE Reopens
  <2>1. FundingTypeOK'
    BY <1>0, <1>3, FundingAssumption DEF Reopens, FundingTypeOK, Totals
  <2>2. epochs' # 0
    BY <1>0, <1>3 DEF Reopens
  <2> QED BY <2>1, <2>2 DEF FundingInv, NetIsReceived
<1>4. CASE ReadsTotal
  <2>1. /\ reading = NoReading /\ reading' = [kind |-> "read", total |-> total]
        /\ first' = IF snapshot = NoSnapshot THEN total ELSE first
        /\ total' = total /\ position' = position /\ snapshot' = snapshot
        /\ payments' = payments /\ epochs' = epochs /\ received' = received
    BY <1>4 DEF ReadsTotal
  <2>2. FundingTypeOK'
    BY <1>0, <2>1 DEF FundingTypeOK
  <2>3. Net' = Net /\ reading'.total = total
    BY <2>1 DEF Net
  <2>4. NetIsReceived'
    BY <1>0, <2>1, <2>3 DEF NetIsReceived
  <2> QED BY <2>2, <2>4 DEF FundingInv
<1>5. CASE Upserts
  <2>1. /\ reading # NoReading /\ snapshot' = Upserted(snapshot, reading.total)
        /\ reading' = NoReading /\ total' = total /\ position' = position
        /\ payments' = payments /\ epochs' = epochs /\ received' = received /\ first' = first
    BY <1>5 DEF Upserts
  <2>2. PICK new \in [kind : {"none", "row"}, baseline : Totals, latest : Totals, carried : Int] :
           /\ new = snapshot' /\ new.latest = reading.total
           /\ snapshot = NoSnapshot => new.carried + (new.latest - new.baseline) = 0
           /\ snapshot # NoSnapshot =>
                \/ new.carried + (new.latest - new.baseline) = Net
                \/ new.carried + (new.latest - new.baseline) = (Net + reading.total) - snapshot.latest
    <3>1. PICK row \in [kind : {"none", "row"}, baseline : Totals, latest : Totals, carried : Int],
               t \in Totals : row = snapshot /\ t = reading.total
      BY <1>0 DEF FundingTypeOK
    <3>2. \E new \in [kind : {"none", "row"}, baseline : Totals, latest : Totals, carried : Int] :
           /\ new = Upserted(row, t) /\ new.latest = t
           /\ row = NoSnapshot => new.carried + (new.latest - new.baseline) = 0
           /\ row # NoSnapshot =>
                \/ new.carried + (new.latest - new.baseline) = row.carried + (row.latest - row.baseline)
                \/ new.carried + (new.latest - new.baseline) =
                     ((row.carried + (row.latest - row.baseline)) + t) - row.latest
      BY UpsertedRow
    <3>3. snapshot' = Upserted(row, t)
      BY <2>1, <3>1
    <3>4. Net = row.carried + (row.latest - row.baseline)
      BY <3>1 DEF Net
    <3> QED BY <3>1, <3>2, <3>3, <3>4
  <2>3. NoReading \in [kind : {"none", "read"}, total : Totals]
    BY FundingAssumption DEF NoReading, Totals
  <2>4. FundingTypeOK'
    BY <1>0, <2>1, <2>2, <2>3 DEF FundingTypeOK
  <2>5. Net' = new.carried + (new.latest - new.baseline) /\ snapshot'.latest = reading.total
    BY <2>2 DEF Net
  <2>6. snapshot = NoSnapshot => Net = 0
    BY DEF Net, NoSnapshot
  <2>7. NetIsReceived'
    <3> SUFFICES ASSUME epochs = 0
                 PROVE  Net' <= received /\ (Net' + total) - reading.total <= received
      BY <1>0, <2>1, <2>5 DEF NetIsReceived
    <3>1. Net <= received /\ (Net + total) - reading.total <= received
      BY <1>0, <2>1 DEF NetIsReceived
    <3>2. CASE snapshot = NoSnapshot
      BY <1>0, <2>2, <2>5, <2>6, <3>1, <3>2
    <3>3. CASE snapshot # NoSnapshot
      <4>1. /\ (Net + total) - snapshot.latest <= received
            /\ (Net + reading.total) - snapshot.latest <= received
        BY <1>0, <2>1, <3>3 DEF NetIsReceived
      <4> QED BY <1>0, <2>2, <2>5, <3>1, <3>3, <4>1
    <3> QED BY <3>2, <3>3
  <2> QED BY <2>4, <2>7 DEF FundingInv
<1>6. CASE LosesReading
  <2>1. /\ reading' = NoReading
        /\ received' = IF snapshot = NoSnapshot THEN 0 ELSE received
        /\ total' = total /\ position' = position /\ snapshot' = snapshot
        /\ payments' = payments /\ epochs' = epochs /\ first' = first
    BY <1>6 DEF LosesReading
  <2>2. NoReading \in [kind : {"none", "read"}, total : Totals]
    BY FundingAssumption DEF NoReading, Totals
  <2>3. FundingTypeOK'
    BY <1>0, <2>1, <2>2 DEF FundingTypeOK
  <2>4. Net' = Net /\ (snapshot = NoSnapshot => Net = 0)
    BY <2>1 DEF Net, NoSnapshot
  <2>5. NetIsReceived'
    BY <1>0, <2>1, <2>4 DEF NetIsReceived
  <2> QED BY <2>3, <2>5 DEF FundingInv
<1>7. CASE UNCHANGED fundingVars
  BY <1>0, <1>7 DEF fundingVars, FundingInv, FundingTypeOK, NetIsReceived, Net
<1> QED BY <1>1, <1>2, <1>3, <1>4, <1>5, <1>6, <1>7 DEF FundingNext

\* While the position is the one first read, the net of a bot never shows more than
\* was received, for any totals and payments and whatever readings are lost or late
\* (upsertFundingSnapshot, getNetFundingForBot).
THEOREM FundingIsReceived == FundingSpec => [](FundingTypeOK /\ NoFundingInvented)
<1>1. FundingInv => FundingTypeOK /\ NoFundingInvented
  BY DEF FundingInv, NetIsReceived, NoFundingInvented
<1> QED BY <1>1, FundingInitial, FundingStep, PTL DEF FundingSpec

-----------------------------------------------------------------------------
(* Profit *)

\* The walk over the fills m, step by step: what is pending and paired after the
\* fill at t.
BestIn(m, s, buys, w) ==
  {b \in buys : /\ 2 * (m[s].price - m[b].price) > w /\ m[s].price - m[b].price < 3 * w
                /\ \A o \in buys :
                     2 * (m[s].price - m[o].price) > w /\ m[s].price - m[o].price < 3 * w =>
                       \/ m[s].price - m[b].price < m[s].price - m[o].price
                       \/ m[s].price - m[b].price = m[s].price - m[o].price /\ b <= o}
Paired(m, arch, w, t, before) ==
  IF t \notin arch THEN before
  ELSE IF m[t].buy THEN [before EXCEPT !.pending = before.pending \cup {t}]
  ELSE LET best == BestIn(m, t, before.pending, w) IN
       [pending |-> before.pending \ best, paired |-> before.paired \cup (best \X {t})]
Nothing == [pending |-> {}, paired |-> {}]
Walks(m, arch, w, walk) ==
  walk = [t \in 0..MaxFills |-> IF t = 0 THEN Nothing
                                ELSE Paired(m, arch, w, t, walk[t - 1])]
WalkIn(m, arch, w) == (CHOOSE walk : Walks(m, arch, w, walk))[MaxFills].paired

LEMMA WalkIsIn == \A arch, w : Walk(arch, w) = WalkIn(made, arch, w)
BY DEF Walk, WalkIn, Walks, Paired, Nothing, Best, BestIn, InWindow, Spread

Pairings(arch) == [pending : SUBSET arch, paired : SUBSET (arch \X arch)]

LEMMA PairedType ==
  ASSUME NEW m, NEW arch, NEW w, NEW t, NEW b \in Pairings(arch)
  PROVE  /\ Paired(m, arch, w, t, b) \in Pairings(arch)
         /\ b.paired \subseteq Paired(m, arch, w, t, b).paired
<1>1. b = [pending |-> b.pending, paired |-> b.paired] /\ b.pending \subseteq arch
      /\ b.paired \subseteq arch \X arch
  BY DEF Pairings
<1>2. CASE t \notin arch
  BY <1>1, <1>2 DEF Paired
<1>3. CASE t \in arch /\ m[t].buy
  BY <1>1, <1>3 DEF Paired, Pairings
<1>4. CASE t \in arch /\ ~m[t].buy
  <2>1. PICK best : best = BestIn(m, t, b.pending, w) /\ best \subseteq b.pending
    BY DEF BestIn
  <2>2. Paired(m, arch, w, t, b) = [pending |-> b.pending \ best, paired |-> b.paired \cup (best \X {t})]
    BY <1>4, <2>1 DEF Paired
  <2>3. best \X {t} \subseteq arch \X arch
    BY <1>1, <1>4, <2>1
  <2> QED BY <1>1, <2>1, <2>2, <2>3 DEF Pairings
<1> QED BY <1>2, <1>3, <1>4

\* There is such a walk.
LEMMA WalkExists ==
  ASSUME NEW m, NEW arch, NEW w
  PROVE  \E k \in [0..MaxFills -> Pairings(arch)] :
           /\ k[0] = Nothing
           /\ \A t \in 1..MaxFills : k[t] = Paired(m, arch, w, t, k[t - 1])
           /\ WalkIn(m, arch, w) = k[MaxFills].paired
<1>0. MaxFills \in Nat
  BY ProfitAssumption
<1> DEFINE F == [t \in Nat |-> [b \in Pairings(arch) |-> Paired(m, arch, w, t, b)]]
<1>1. F \in [Nat -> [Pairings(arch) -> Pairings(arch)]]
  BY PairedType
<1>2. Nothing \in Pairings(arch)
  BY DEF Nothing, Pairings
<1>3. \A t \in Nat, b \in Pairings(arch) : F[t][b] = Paired(m, arch, w, t, b)
  OBVIOUS
<1> HIDE DEF F
<1>4. PICK k \in [0..MaxFills -> Pairings(arch)] :
        k[0] = Nothing /\ \A i \in 1..MaxFills : k[i] = F[i][k[i - 1]]
  BY <1>0, <1>1, <1>2, Recursion
<1>5. \A i \in 1..MaxFills : i \in Nat /\ i - 1 \in 0..MaxFills
  BY <1>0
<1>6. \A i \in 1..MaxFills : k[i] = Paired(m, arch, w, i, k[i - 1])
  BY <1>3, <1>4, <1>5
<1>7. Walks(m, arch, w, k)
  <2>1. \A t \in 0..MaxFills : k[t] = IF t = 0 THEN Nothing ELSE Paired(m, arch, w, t, k[t - 1])
    BY <1>0, <1>4, <1>6
  <2>2. k = [t \in 0..MaxFills |-> k[t]]
    BY <1>4
  <2> QED BY <2>1, <2>2 DEF Walks
<1>8. PICK l : l = CHOOSE walk : Walks(m, arch, w, walk)
  OBVIOUS
<1>9. Walks(m, arch, w, l)
  BY <1>7, <1>8
<1>10. /\ DOMAIN l = 0..MaxFills /\ l = [t \in 0..MaxFills |-> l[t]] /\ l[0] = Nothing
       /\ \A t \in 1..MaxFills : l[t] = Paired(m, arch, w, t, l[t - 1])
  <2>1. \A t \in 0..MaxFills : l[t] = IF t = 0 THEN Nothing ELSE Paired(m, arch, w, t, l[t - 1])
    BY <1>9 DEF Walks
  <2>2. 0 \in 0..MaxFills /\ \A t \in 1..MaxFills : t \in 0..MaxFills /\ t # 0
    BY <1>0
  <2>3. DOMAIN l = 0..MaxFills /\ l = [t \in 0..MaxFills |-> l[t]]
    BY <1>9 DEF Walks
  <2> QED BY <2>1, <2>2, <2>3
<1> DEFINE T == {i \in Nat : i <= MaxFills => l[i] \in Pairings(arch)}
<1>11. 0 \in T
  BY <1>2, <1>10
<1>12. \A i \in Nat : i \in T => i + 1 \in T
  <2> SUFFICES ASSUME NEW i \in Nat, i \in T, i + 1 <= MaxFills PROVE l[i + 1] \in Pairings(arch)
    OBVIOUS
  <2>1. i + 1 \in 1..MaxFills /\ (i + 1) - 1 = i /\ l[i] \in Pairings(arch)
    BY <1>0
  <2>2. l[i + 1] = Paired(m, arch, w, i + 1, l[i])
    BY <1>10, <2>1
  <2> QED BY <2>1, <2>2, PairedType
<1>13. Nat \subseteq T
  <2> HIDE DEF T
  <2> QED BY <1>11, <1>12, SetInduction
<1>14. l \in [0..MaxFills -> Pairings(arch)]
  <2>1. \A t \in 0..MaxFills : l[t] \in Pairings(arch)
    BY <1>0, <1>13
  <2> QED BY <1>10, <2>1
<1>15. WalkIn(m, arch, w) = l[MaxFills].paired
  BY <1>8 DEF WalkIn
<1> QED BY <1>10, <1>14, <1>15

\* A walk pairs what is archived.
LEMMA WalkPairs ==
  ASSUME NEW m, NEW arch, NEW w
  PROVE  WalkIn(m, arch, w) \subseteq arch \X arch
<1>0. MaxFills \in 0..MaxFills
  BY ProfitAssumption
<1>1. PICK k \in [0..MaxFills -> Pairings(arch)] : WalkIn(m, arch, w) = k[MaxFills].paired
  BY WalkExists
<1>2. k[MaxFills] \in Pairings(arch)
  BY <1>0, <1>1
<1> QED BY <1>1, <1>2 DEF Pairings

\* Fills that are not in the archive do not matter.
LEMMA WalkKeeps ==
  ASSUME NEW m, NEW l, NEW arch, NEW w, \A t \in arch : m[t] = l[t]
  PROVE  WalkIn(m, arch, w) = WalkIn(l, arch, w)
<1>0. MaxFills \in Nat
  BY ProfitAssumption
<1>1. PICK k \in [0..MaxFills -> Pairings(arch)] :
        /\ k[0] = Nothing
        /\ \A t \in 1..MaxFills : k[t] = Paired(m, arch, w, t, k[t - 1])
        /\ WalkIn(m, arch, w) = k[MaxFills].paired
  BY WalkExists
<1>2. PICK j \in [0..MaxFills -> Pairings(arch)] :
        /\ j[0] = Nothing
        /\ \A t \in 1..MaxFills : j[t] = Paired(l, arch, w, t, j[t - 1])
        /\ WalkIn(l, arch, w) = j[MaxFills].paired
  BY WalkExists
<1>3. \A t, b : b \in Pairings(arch) => Paired(m, arch, w, t, b) = Paired(l, arch, w, t, b)
  <2> SUFFICES ASSUME NEW t, NEW b \in Pairings(arch)
               PROVE  Paired(m, arch, w, t, b) = Paired(l, arch, w, t, b)
    OBVIOUS
  <2>1. CASE t \notin arch
    BY <2>1 DEF Paired
  <2>2. CASE t \in arch
    <3>1. b.pending \subseteq arch
      BY DEF Pairings
    <3>2. BestIn(m, t, b.pending, w) = BestIn(l, t, b.pending, w)
      BY <2>2, <3>1 DEF BestIn
    <3>3. m[t].buy = l[t].buy
      BY <2>2
    <3> QED BY <3>2, <3>3 DEF Paired
  <2> QED BY <2>1, <2>2
<1> DEFINE T == {i \in Nat : i <= MaxFills => k[i] = j[i]}
<1>4. 0 \in T
  BY <1>1, <1>2
<1>5. \A i \in Nat : i \in T => i + 1 \in T
  <2> SUFFICES ASSUME NEW i \in Nat, i \in T, i + 1 <= MaxFills PROVE k[i + 1] = j[i + 1]
    OBVIOUS
  <2>1. i + 1 \in 1..MaxFills /\ (i + 1) - 1 = i /\ i \in 0..MaxFills /\ k[i] = j[i]
    BY <1>0
  <2>2. k[i] \in Pairings(arch)
    BY <1>1, <2>1
  <2>3. k[i + 1] = Paired(m, arch, w, i + 1, k[i]) /\ j[i + 1] = Paired(l, arch, w, i + 1, j[i])
    BY <1>1, <1>2, <2>1
  <2> QED BY <1>3, <2>1, <2>2, <2>3
<1>6. Nat \subseteq T
  <2> HIDE DEF T
  <2> QED BY <1>4, <1>5, SetInduction
<1>7. k[MaxFills] = j[MaxFills]
  BY <1>0, <1>6
<1> QED BY <1>1, <1>2, <1>7

\* Fills younger than all that are archived take no pair away.
LEMMA WalkGrows ==
  ASSUME NEW m, NEW arch, NEW more, more \subseteq 1..MaxFills, arch \subseteq more, NEW w,
         \A t \in arch, u \in more \ arch : t < u
  PROVE  WalkIn(m, arch, w) \subseteq WalkIn(m, more, w)
<1>0. MaxFills \in Nat
  BY ProfitAssumption
<1>3. \A u \in more : u \in Nat
  BY <1>0
<1> DEFINE Before(i) == \A u \in more \ arch : i < u
<1>1. PICK k \in [0..MaxFills -> Pairings(arch)] :
        /\ k[0] = Nothing
        /\ \A t \in 1..MaxFills : k[t] = Paired(m, arch, w, t, k[t - 1])
        /\ WalkIn(m, arch, w) = k[MaxFills].paired
  BY WalkExists
<1>2. PICK j \in [0..MaxFills -> Pairings(more)] :
        /\ j[0] = Nothing
        /\ \A t \in 1..MaxFills : j[t] = Paired(m, more, w, t, j[t - 1])
        /\ WalkIn(m, more, w) = j[MaxFills].paired
  BY WalkExists
<1> DEFINE T == {i \in Nat : i <= MaxFills => /\ Before(i) => k[i] = j[i]
                                              /\ k[i].paired \subseteq j[i].paired}
<1>4. 0 \in T
  BY <1>1, <1>2
<1>5. \A i \in Nat : i \in T => i + 1 \in T
  <2> SUFFICES ASSUME NEW i \in Nat, i \in T, i + 1 <= MaxFills
               PROVE  /\ Before(i + 1) => k[i + 1] = j[i + 1]
                      /\ k[i + 1].paired \subseteq j[i + 1].paired
    OBVIOUS
  <2>1. /\ i + 1 \in 1..MaxFills /\ (i + 1) - 1 = i /\ i \in 0..MaxFills
        /\ Before(i) => k[i] = j[i]
        /\ k[i].paired \subseteq j[i].paired
    BY <1>0
  <2>2. PICK t \in 1..MaxFills : t = i + 1 /\ i = t - 1
    BY <2>1
  <2>3. k[t] = Paired(m, arch, w, t, k[i]) /\ j[t] = Paired(m, more, w, t, j[i])
    BY <1>1, <1>2, <2>2
  <2>4. CASE Before(t)
    <3>0. Before(i)
      BY <1>3, <2>1, <2>2, <2>4
    <3>1. k[i] = j[i]
      BY <2>1, <3>0
    <3>2. t \in arch <=> t \in more
      BY <1>3, <2>4
    <3>3. Paired(m, arch, w, t, k[i]) = Paired(m, more, w, t, k[i])
      BY <3>2 DEF Paired
    <3>4. k[t] = j[t]
      BY <2>3, <3>1, <3>3
    <3> QED BY <2>2, <3>4
  <2>5. CASE ~Before(t)
    <3>1. t \notin arch
      BY <1>3, <2>5
    <3>2. k[t] = k[i]
      BY <2>3, <3>1 DEF Paired
    <3>3. j[i] \in Pairings(more)
      BY <1>2, <2>1
    <3>4. j[i].paired \subseteq j[t].paired
      BY <2>3, <3>3, PairedType
    <3> QED BY <2>1, <2>2, <2>5, <3>2, <3>4
  <2> QED BY <2>4, <2>5
<1>6. Nat \subseteq T
  <2> HIDE DEF T
  <2> QED BY <1>4, <1>5, SetInduction
<1>7. k[MaxFills].paired \subseteq j[MaxFills].paired
  BY <1>0, <1>6
<1> QED BY <1>1, <1>2, <1>3, <1>7

\* What was archived after the last walk is younger than what it walked over, and what
\* is booked is what that walk finds.
WalkedBefore ==
  ~late /\ moves = 0 => /\ \A t \in lastWalk, u \in inserted \ lastWalk : t < u
                        /\ booked \subseteq Walk(lastWalk, spacing)

ProfitInv == ProfitTypeOK /\ WalkedBefore

LEMMA ProfitTypeStep == ProfitTypeOK /\ [ProfitNext]_profitVars => ProfitTypeOK'
<1> SUFFICES ASSUME ProfitTypeOK, [ProfitNext]_profitVars PROVE ProfitTypeOK'
  OBVIOUS
<1>0. /\ made \in Seq([buy : BOOLEAN, price : Prices]) /\ Len(made) \in Nat
      /\ DOMAIN made = 1..Len(made) /\ Len(made) <= MaxFills
  BY DEF ProfitTypeOK
<1>1. ASSUME NEW buy \in BOOLEAN, NEW p \in Prices, Fills(buy, p) PROVE ProfitTypeOK'
  <2>1. PICK e \in [buy : BOOLEAN, price : Prices] : e = [buy |-> buy, price |-> p]
    OBVIOUS
  <2>2. /\ made' = Append(made, e) /\ Len(made) < MaxFills
        /\ inserted' = inserted /\ page' = page /\ booked' = booked
        /\ spacing' = spacing /\ moves' = moves /\ late' = late /\ lastWalk' = lastWalk
    BY <1>1, <2>1 DEF Fills
  <2>3. /\ made' \in Seq([buy : BOOLEAN, price : Prices]) /\ Len(made') <= MaxFills
        /\ DOMAIN made \subseteq DOMAIN made'
    BY <1>0, <2>2, ProfitAssumption
  <2> QED BY <2>2, <2>3 DEF ProfitTypeOK
<1>2. CASE PollsFills
  BY <1>2 DEF PollsFills, ProfitTypeOK
<1>3. CASE ArchivesFill
  BY <1>3 DEF ArchivesFill, ProfitTypeOK
<1>4. CASE Recomputes
  <2>1. Walk(inserted, spacing) \subseteq inserted \X inserted
    BY WalkIsIn, WalkPairs
  <2> QED BY <1>4, <2>1 DEF Recomputes, ProfitTypeOK
<1>5. ASSUME NEW w \in Spacings, MovesRange(w) PROVE ProfitTypeOK'
  BY <1>5, ProfitAssumption DEF MovesRange, ProfitTypeOK
<1>6. CASE UNCHANGED profitVars
  BY <1>6 DEF profitVars, ProfitTypeOK
<1> QED BY <1>1, <1>2, <1>3, <1>4, <1>5, <1>6 DEF ProfitNext

LEMMA PairsStay == ProfitInv /\ [ProfitNext]_profitVars => WalkedBefore'
<1> SUFFICES ASSUME ProfitInv, [ProfitNext]_profitVars, ~late', moves' = 0
             PROVE  /\ \A t \in lastWalk', u \in inserted' \ lastWalk' : t < u
                    /\ booked' \subseteq Walk(lastWalk, spacing)'
  BY DEF WalkedBefore
<1>0. /\ DOMAIN made = 1..Len(made) /\ Len(made) \in Nat /\ Len(made) <= MaxFills
      /\ inserted \subseteq 1..Len(made) /\ page \subseteq 1..Len(made)
      /\ moves \in Nat /\ lastWalk \subseteq inserted
  BY ProfitAssumption DEF ProfitInv, ProfitTypeOK
<1>1. /\ Walk(inserted, spacing) = WalkIn(made, inserted, spacing)
      /\ Walk(lastWalk, spacing) = WalkIn(made, lastWalk, spacing)
      /\ Walk(lastWalk, spacing)' = WalkIn(made', lastWalk', spacing')
  <2>1. Walk(lastWalk, spacing)' = WalkIn(made', lastWalk', spacing')
    BY DEF Walk, WalkIn, Walks, Paired, Nothing, Best, BestIn, InWindow, Spread
  <2> QED BY <2>1, WalkIsIn
<1>2. ~late /\ moves = 0 => /\ \A t \in lastWalk, u \in inserted \ lastWalk : t < u
                            /\ booked \subseteq WalkIn(made, lastWalk, spacing)
  BY <1>1 DEF ProfitInv, WalkedBefore
<1>3. ASSUME NEW buy \in BOOLEAN, NEW p \in Prices, Fills(buy, p)
      PROVE  /\ \A t \in lastWalk', u \in inserted' \ lastWalk' : t < u
             /\ booked' \subseteq Walk(lastWalk, spacing)'
  <2>1. \A t \in lastWalk : made[t] = made'[t]
    <3>1. PICK e : made' = Append(made, e)
      BY <1>3 DEF Fills
    <3> QED BY <1>0, <3>1 DEF ProfitInv, ProfitTypeOK
  <2>2. WalkIn(made, lastWalk, spacing) = WalkIn(made', lastWalk, spacing)
    BY <2>1, WalkKeeps
  <2> QED BY <1>1, <1>2, <1>3, <2>2 DEF Fills
<1>4. CASE PollsFills \/ UNCHANGED profitVars
  <2>1. /\ made' = made /\ inserted' = inserted /\ booked' = booked /\ spacing' = spacing
        /\ moves' = moves /\ late' = late /\ lastWalk' = lastWalk
    BY <1>4 DEF PollsFills, profitVars
  <2> QED BY <1>1, <1>2, <2>1
<1>5. CASE ArchivesFill
  <2>1. PICK t \in page : inserted' = inserted \cup {t} /\ ~(\E u \in lastWalk : u > t) /\ ~late
    BY <1>5 DEF ArchivesFill
  <2>2. /\ made' = made /\ booked' = booked /\ spacing' = spacing /\ moves = 0
        /\ lastWalk' = lastWalk
    BY <1>5 DEF ArchivesFill
  <2>3. \A u \in lastWalk : u < t \/ u = t
    BY <1>0, <2>1
  <2>4. \A u \in lastWalk', v \in inserted' \ lastWalk' : u < v
    BY <1>2, <2>1, <2>2, <2>3
  <2> QED BY <1>1, <1>2, <2>1, <2>2, <2>4
<1>6. CASE Recomputes
  <2>1. /\ booked' = booked \cup WalkIn(made, inserted, spacing) /\ lastWalk' = inserted
        /\ made' = made /\ inserted' = inserted /\ spacing' = spacing /\ moves = 0 /\ ~late
    BY <1>1, <1>6 DEF Recomputes
  <2>2. inserted \subseteq 1..MaxFills
    BY <1>0, ProfitAssumption
  <2>3. WalkIn(made, lastWalk, spacing) \subseteq WalkIn(made, inserted, spacing)
    BY <1>0, <1>2, <2>1, <2>2, WalkGrows
  <2> QED BY <1>1, <1>2, <2>1, <2>3
<1>7. ASSUME NEW w \in Spacings, MovesRange(w) PROVE FALSE
  BY <1>0, <1>7 DEF MovesRange
<1> QED BY <1>3, <1>4, <1>5, <1>6, <1>7 DEF ProfitNext

\* What is stored is what a walk over the archive finds, when what was archived after
\* the last walk is younger than what that walk went over.
LEMMA StoredAreFound == ProfitInv => NoPairIsRevised
<1> SUFFICES ASSUME ProfitInv, ~late, moves = 0 PROVE booked \subseteq Walk(inserted, spacing)
  BY DEF NoPairIsRevised
<1>1. /\ Walk(inserted, spacing) = WalkIn(made, inserted, spacing)
      /\ Walk(lastWalk, spacing) = WalkIn(made, lastWalk, spacing)
  BY WalkIsIn
<1>2. inserted \subseteq 1..MaxFills /\ lastWalk \subseteq inserted
  BY ProfitAssumption DEF ProfitInv, ProfitTypeOK
<1>3. /\ \A t \in lastWalk, u \in inserted \ lastWalk : t < u
      /\ booked \subseteq Walk(lastWalk, spacing)
  BY DEF ProfitInv, WalkedBefore
<1>4. WalkIn(made, lastWalk, spacing) \subseteq WalkIn(made, inserted, spacing)
  BY <1>2, <1>3, WalkGrows
<1> QED BY <1>1, <1>3, <1>4, Zenon

\* While no fill is archived behind a younger one that was walked over and the range
\* stays, no stored pair is ever revised, for any prices, any spacing and any number of
\* fills: the walk over a longer archive finds the pairs of the shorter one
\* (calculateRealGridProfit).
THEOREM PairsAreFinal == ProfitSpec => [](ProfitTypeOK /\ NoPairIsRevised)
<1>1. ProfitInit => ProfitInv
  <2> SUFFICES ASSUME ProfitInit PROVE ProfitInv
    OBVIOUS
  <2>1. ProfitTypeOK
    <3>1. /\ made \in Seq([buy : BOOLEAN, price : Prices]) /\ Len(made) = 0
          /\ spacing \in Spacings
      BY DEF ProfitInit
    <3>2. 0 <= MaxFills /\ 0 \in 0..MaxMoves
      BY ProfitAssumption
    <3>3. /\ inserted \subseteq DOMAIN made /\ page \subseteq DOMAIN made
          /\ booked \subseteq inserted \X inserted /\ lastWalk \subseteq inserted
      BY DEF ProfitInit
    <3> QED BY <3>1, <3>2, <3>3 DEF ProfitInit, ProfitTypeOK
  <2> QED BY <2>1 DEF ProfitInit, ProfitInv, WalkedBefore
<1>2. ProfitInv /\ [ProfitNext]_profitVars => ProfitInv'
  BY ProfitTypeStep, PairsStay DEF ProfitInv
<1>3. ProfitInv => ProfitTypeOK /\ NoPairIsRevised
  BY StoredAreFound DEF ProfitInv
<1> QED BY <1>1, <1>2, <1>3, PTL DEF ProfitSpec

-----------------------------------------------------------------------------
(* Snapshots *)

\* The rows follow the days: unless one was written late, a later one has no less.
RowsGrow ==
  ~behind => \A d, e \in Days : d < e /\ HasShot(d) /\ HasShot(e) => shots[d] <= shots[e]

ShotInv ==
  /\ ShotTypeOK /\ RowsGrow
  /\ shots \in [Days -> Int]
  /\ jobs \in [Timers -> [at : {"idle", "entered", "looked"}, date : 0..LastDay]]
  /\ \A j \in Timers : jobs[j].at = "looked" => jobs[j].date \in Days
  /\ up = "down" => reboots < MaxReboots

LEMMA ShotInitial == ShotInit => ShotInv
<1> SUFFICES ASSUME ShotInit PROVE ShotInv
  OBVIOUS
<1>0. LastDay \in Nat \ {0} /\ MaxPairings \in Nat /\ MaxReboots \in Nat \ {0}
  BY SnapshotsAssumption
<1>1. /\ shots \in [Days -> Int] /\ \A d \in Days : shots[d] = -1
  BY DEF ShotInit, NoShot
<1>2. jobs \in [Timers -> [at : {"idle", "entered", "looked"}, date : 0..LastDay]]
      /\ \A j \in Timers : jobs[j].at = "idle" /\ jobs[j].date = 0
  BY <1>0 DEF ShotInit, NoJob
<1>3. ShotTypeOK
  <2>1. /\ day = 1 /\ up = "booted" /\ reboots = 1 /\ traded = TRUE /\ paired = 0 /\ behind = FALSE
    BY DEF ShotInit
  <2>2. day \in Days /\ reboots \in 0..MaxReboots /\ paired \in 0..MaxPairings
    BY <1>0, <2>1 DEF Days
  <2>3. \A d \in Days : shots[d] \in -1..paired
    BY <1>1, <2>1
  <2>4. \A j \in Timers : jobs[j].at \in {"idle", "entered", "looked"} /\ jobs[j].date \in 0..day
    BY <1>2, <2>1
  <2>5. traded \in BOOLEAN /\ behind \in BOOLEAN /\ up \in {"down", "booted", "up"}
    BY <2>1
  <2> QED BY <2>2, <2>3, <2>4, <2>5 DEF ShotTypeOK
<1>4. RowsGrow
  BY <1>1 DEF RowsGrow, HasShot, NoShot
<1> QED BY <1>0, <1>1, <1>2, <1>3, <1>4 DEF ShotInit, ShotInv

\* A timer's job begins, or not.
LEMMA JobsBegin ==
  ASSUME ShotInv, NEW j \in Timers, NEW e,
         e \in [at : {"idle", "entered", "looked"}, date : 0..LastDay],
         e.at \in {"idle", "entered"}, e.date = jobs[j].date, jobs' = [jobs EXCEPT ![j] = e],
         day' \in Days, day <= day', up' \in {"booted", "up"},
         reboots' = reboots, traded' = traded, paired' = paired, shots' = shots, behind' = behind
  PROVE  ShotInv'
<1> DEFINE Job == [at : {"idle", "entered", "looked"}, date : 0..LastDay]
<1>0. LastDay \in Nat /\ day \in Nat /\ day' \in Nat /\ Days = 1..LastDay
  BY SnapshotsAssumption DEF ShotInv, ShotTypeOK, Days
<1>1. /\ ShotTypeOK /\ RowsGrow /\ shots \in [Days -> Int] /\ jobs \in [Timers -> Job]
      /\ \A i \in Timers : jobs[i].at = "looked" => jobs[i].date \in Days
  BY DEF ShotInv
<1>2. e \in Job
  OBVIOUS
<1> HIDE DEF Job
<1>3. jobs' \in [Timers -> Job] /\ \A i \in Timers : jobs'[i] = IF i = j THEN e ELSE jobs[i]
  BY <1>1, <1>2
<1>4. \A x \in 0..day : x \in 0..day'
  BY <1>0
<1>5. \A i \in Timers : jobs[i].at \in {"idle", "entered", "looked"} /\ jobs[i].date \in 0..day
  BY <1>1 DEF ShotTypeOK
<1>6. \A i \in Timers : /\ jobs'[i].at \in {"idle", "entered", "looked"}
                        /\ jobs'[i].date \in 0..day'
                        /\ jobs'[i].at = "looked" => jobs'[i].date \in Days
  BY <1>1, <1>3, <1>4, <1>5
<1>7. ShotTypeOK'
  BY <1>1, <1>6 DEF ShotTypeOK, Days
<1>8. RowsGrow'
  BY <1>1 DEF RowsGrow, HasShot, Days
<1>9. up' # "down"
  OBVIOUS
<1> QED BY <1>1, <1>3, <1>6, <1>7, <1>8, <1>9 DEF ShotInv, Days, Job

LEMMA ShotStep == ShotInv /\ [ShotNext]_shotVars => ShotInv'
<1> SUFFICES ASSUME ShotInv, [ShotNext]_shotVars PROVE ShotInv'
  OBVIOUS
<1> DEFINE Job == [at : {"idle", "entered", "looked"}, date : 0..LastDay]
<1>0. /\ LastDay \in Nat \ {0} /\ MaxPairings \in Nat /\ MaxReboots \in Nat \ {0}
      /\ day \in Days /\ day \in Nat /\ Days = 1..LastDay /\ reboots \in Nat /\ paired \in Nat
      /\ paired <= MaxPairings
  BY SnapshotsAssumption DEF ShotInv, ShotTypeOK, Days
<1>1. /\ ShotTypeOK /\ RowsGrow /\ shots \in [Days -> Int] /\ jobs \in [Timers -> Job]
      /\ \A j \in Timers : jobs[j].at = "looked" => jobs[j].date \in Days
      /\ up = "down" => reboots < MaxReboots
  BY DEF ShotInv
<1>2. NoJob \in Job /\ NoJob.at = "idle" /\ NoJob.date = 0
  BY <1>0 DEF NoJob
<1> HIDE DEF Job
<1>3. CASE PairsUp
  <2>1. paired' = paired + 1 /\ paired < MaxPairings /\ day' = day /\ up' = up /\ reboots' = reboots
        /\ traded' = traded /\ shots' = shots /\ jobs' = jobs /\ behind' = behind
    BY <1>3 DEF PairsUp
  <2>2. ShotTypeOK'
    BY <1>0, <1>1, <2>1 DEF ShotTypeOK, Days
  <2> QED BY <1>1, <2>1, <2>2 DEF ShotInv, RowsGrow, HasShot, Days, Job
<1>4. CASE Toggles
  BY <1>1, <1>4 DEF Toggles, ShotInv, ShotTypeOK, RowsGrow, HasShot, Days, Job
<1>5. CASE Crashes
  <2>1. /\ up' = "down" /\ jobs' = [j \in Timers |-> NoJob] /\ reboots < MaxReboots
        /\ day' = day /\ reboots' = reboots /\ traded' = traded /\ paired' = paired
        /\ shots' = shots /\ behind' = behind
    BY <1>5 DEF Crashes
  <2>2. jobs' \in [Timers -> Job] /\ \A j \in Timers : jobs'[j].at = "idle" /\ jobs'[j].date = 0
    BY <1>2, <2>1
  <2>3. ShotTypeOK'
    BY <1>0, <1>1, <2>1, <2>2 DEF ShotTypeOK, Days
  <2> QED BY <1>1, <2>1, <2>2, <2>3 DEF ShotInv, RowsGrow, HasShot, Days, Job
<1>6. CASE Reboots
  <2>1. /\ up = "down" /\ up' = "booted" /\ reboots' = reboots + 1
        /\ day' = day /\ traded' = traded /\ paired' = paired
        /\ shots' = shots /\ behind' = behind /\ jobs' = jobs
    BY <1>6 DEF Reboots
  <2>2. reboots' \in 0..MaxReboots
    BY <1>0, <1>1, <2>1
  <2>3. ShotTypeOK'
    BY <1>1, <2>1, <2>2 DEF ShotTypeOK, Days
  <2> QED BY <1>1, <2>1, <2>3 DEF ShotInv, RowsGrow, HasShot, Days, Job
<1>7. ASSUME NEW j \in Timers, NEW a \in {"idle", "entered"},
             jobs' = [jobs EXCEPT ![j].at = a]
      PROVE  \E e \in Job : /\ e.at \in {"idle", "entered"} /\ e.date = jobs[j].date
                            /\ jobs' = [jobs EXCEPT ![j] = e]
  <2>1. PICK x \in Job : x = jobs[j]
    BY <1>1
  <2>2. PICK e : e = [x EXCEPT !.at = a]
    OBVIOUS
  <2>3. e \in Job /\ e.at = a /\ e.date = x.date
    BY <2>2 DEF Job
  <2>4. e = [jobs[j] EXCEPT !.at = a]
    BY <2>1, <2>2
  <2>5. jobs' = [jobs EXCEPT ![j] = e]
    BY <1>7, <2>4
  <2> QED BY <2>1, <2>3, <2>5
<1>8. CASE BootJob
  <2>1. PICK a \in {"idle", "entered"} : jobs' = [jobs EXCEPT !["boot"].at = a]
    BY <1>8 DEF BootJob, JobBegins
  <2>2. PICK j \in Timers : j = "boot"
    BY DEF Timers
  <2>3. /\ day' = day /\ up' = "up" /\ reboots' = reboots /\ traded' = traded /\ paired' = paired
        /\ shots' = shots /\ behind' = behind
    BY <1>8 DEF BootJob
  <2>4. PICK e \in Job : /\ e.at \in {"idle", "entered"} /\ e.date = jobs[j].date
                         /\ jobs' = [jobs EXCEPT ![j] = e]
    BY <1>7, <2>1, <2>2
  <2>5. day' \in Days /\ day <= day' /\ up' \in {"booted", "up"}
    BY <1>0, <2>3
  <2> QED BY <2>3, <2>4, <2>5, JobsBegin DEF Job
<1>9. CASE Midnight
  <2>1. /\ day < LastDay /\ day' = day + 1 /\ up' = up /\ reboots' = reboots /\ traded' = traded
        /\ paired' = paired /\ shots' = shots /\ behind' = behind
    BY <1>9 DEF Midnight
  <2>2. CASE up = "down"
    <3>1. jobs' = jobs
      BY <1>9, <2>2 DEF Midnight
    <3>2. day' \in Days /\ \A x \in 0..day : x \in 0..day'
      BY <1>0, <2>1
    <3>3. ShotTypeOK'
      BY <1>1, <2>1, <3>1, <3>2 DEF ShotTypeOK, Days
    <3> QED BY <1>1, <2>1, <3>1, <3>3 DEF ShotInv, RowsGrow, HasShot, Days, Job
  <2>3. CASE up # "down"
    <3>1. PICK a \in {"idle", "entered"} : jobs' = [jobs EXCEPT !["midnight"].at = a]
      BY <1>9, <2>3 DEF Midnight
    <3>2. PICK j \in Timers : j = "midnight"
      BY DEF Timers
    <3>3. PICK e \in Job : /\ e.at \in {"idle", "entered"} /\ e.date = jobs[j].date
                           /\ jobs' = [jobs EXCEPT ![j] = e]
      BY <1>7, <3>1, <3>2
    <3>4. day' \in Days /\ day <= day'
      BY <1>0, <2>1
    <3>5. up' \in {"booted", "up"}
      BY <1>1, <2>1, <2>3 DEF ShotTypeOK
    <3> QED BY <2>1, <3>3, <3>4, <3>5, JobsBegin DEF Job
  <2> QED BY <2>2, <2>3
<1>10. ASSUME NEW j \in Timers, Looks(j) PROVE ShotInv'
  <2>1. /\ day' = day /\ up' = up /\ reboots' = reboots /\ traded' = traded
        /\ paired' = paired /\ shots' = shots /\ behind' = behind
    BY <1>10 DEF Looks
  <2>a. PICK x \in Job : x = jobs[j]
    BY <1>1
  <2>b. PICK e : e = IF HasShot(day) THEN NoJob ELSE [x EXCEPT !.at = "looked", !.date = day]
    OBVIOUS
  <2>c. jobs' = [jobs EXCEPT ![j] = e]
    <3>1. CASE HasShot(day)
      BY <1>10, <2>b, <3>1 DEF Looks
    <3>2. CASE ~HasShot(day)
      <4>1. jobs' = [jobs EXCEPT ![j] = [jobs[j] EXCEPT !.at = "looked", !.date = day]]
        BY <1>10, <3>2 DEF Looks
      <4> QED BY <2>a, <2>b, <3>2, <4>1
    <3> QED BY <3>1, <3>2
  <2>d. e \in Job /\ (e = NoJob \/ (e.at = "looked" /\ e.date = day))
    <3>1. CASE HasShot(day)
      BY <1>2, <2>b, <3>1
    <3>2. CASE ~HasShot(day)
      <4>1. e = [x EXCEPT !.at = "looked", !.date = day] /\ day \in 0..LastDay
        BY <1>0, <2>b, <3>2
      <4> QED BY <4>1 DEF Job
    <3> QED BY <3>1, <3>2
  <2>2. jobs' = [jobs EXCEPT ![j] = e] /\ e \in Job /\ (e = NoJob \/ (e.at = "looked" /\ e.date = day))
    BY <2>c, <2>d
  <2>3. jobs' \in [Timers -> Job] /\ \A i \in Timers : jobs'[i] = IF i = j THEN e ELSE jobs[i]
    BY <1>1, <2>2
  <2>4. \A i \in Timers : /\ jobs'[i].at \in {"idle", "entered", "looked"}
                          /\ jobs'[i].date \in 0..day
                          /\ jobs'[i].at = "looked" => jobs'[i].date \in Days
    BY <1>0, <1>1, <1>2, <2>2, <2>3 DEF ShotTypeOK
  <2>5. ShotTypeOK'
    BY <1>1, <2>1, <2>4 DEF ShotTypeOK, Days
  <2> QED BY <1>1, <2>1, <2>3, <2>4, <2>5 DEF ShotInv, RowsGrow, HasShot, Days, Job
<1>11. ASSUME NEW j \in Timers, WritesRow(j) PROVE ShotInv'
  <2>1. PICK d \in Days : d = jobs[j].date
    BY <1>1, <1>11 DEF WritesRow
  <2>2. /\ shots' = [shots EXCEPT ![d] = paired]
        /\ behind' = (behind \/ \E e \in Days : e > d /\ HasShot(e))
        /\ jobs' = [jobs EXCEPT ![j] = NoJob]
        /\ day' = day /\ up' = up /\ reboots' = reboots /\ traded' = traded /\ paired' = paired
    BY <1>11, <2>1 DEF WritesRow
  <2>3. jobs' \in [Timers -> Job] /\ \A i \in Timers : jobs'[i] = IF i = j THEN NoJob ELSE jobs[i]
    BY <1>1, <1>2, <2>2
  <2>4. shots' \in [Days -> Int] /\ \A e \in Days : shots'[e] = IF e = d THEN paired ELSE shots[e]
    BY <1>0, <1>1, <2>2
  <2>5. \A i \in Timers : /\ jobs'[i].at \in {"idle", "entered", "looked"}
                          /\ jobs'[i].date \in 0..day
                          /\ jobs'[i].at = "looked" => jobs'[i].date \in Days
    BY <1>0, <1>1, <1>2, <2>3 DEF ShotTypeOK
  <2>6. \A e \in Days : shots'[e] \in -1..paired
    <3>1. \A e \in Days : shots[e] \in -1..paired
      BY <1>1 DEF ShotTypeOK
    <3>2. paired \in -1..paired
      BY <1>0
    <3> QED BY <2>4, <3>1, <3>2
  <2>7. behind' \in BOOLEAN
    BY <2>2
  <2>8. ShotTypeOK'
    BY <1>1, <2>2, <2>5, <2>6, <2>7 DEF ShotTypeOK, Days
  <2>9. RowsGrow'
    <3> SUFFICES ASSUME ~behind', NEW b \in Days, NEW e \in Days, b < e,
                        shots'[b] # NoShot, shots'[e] # NoShot
                 PROVE  shots'[b] <= shots'[e]
      BY DEF RowsGrow, HasShot, Days
    <3>1. ~behind /\ ~(\E x \in Days : x > d /\ HasShot(x))
      BY <2>2
    <3>2. CASE b = d
      <4>1. shots[e] # NoShot /\ e > d
        BY <1>0, <2>4, <3>2
      <4> QED BY <3>1, <4>1 DEF HasShot
    <3>3. CASE e = d
      <4>1. shots[b] \in -1..paired /\ shots'[b] = shots[b] /\ shots'[e] = paired
        BY <1>0, <1>1, <2>4, <3>3 DEF ShotTypeOK
      <4> QED BY <1>0, <4>1
    <3>4. CASE b # d /\ e # d
      BY <1>1, <2>4, <3>1, <3>4 DEF RowsGrow, HasShot
    <3> QED BY <3>2, <3>3, <3>4
  <2> QED BY <1>1, <2>2, <2>3, <2>4, <2>5, <2>8, <2>9 DEF ShotInv, Days, Job
<1>12. CASE UNCHANGED shotVars
  BY <1>1, <1>12 DEF shotVars, ShotInv, ShotTypeOK, RowsGrow, HasShot, Days, Job
<1> QED BY <1>3, <1>4, <1>5, <1>6, <1>8, <1>9, <1>10, <1>11, <1>12 DEF ShotNext

\* The rows, day by day, as History collects them.
Rows(k, n) ==
  k = [d \in 0..n |-> IF d = 0 THEN << >>
                      ELSE IF HasShot(d) THEN Append(k[d - 1], shots[d])
                      ELSE k[d - 1]]

LEMMA RowsExist ==
  ASSUME ShotInv
  PROVE  \E k : Rows(k, LastDay)
<1>0. LastDay \in Nat /\ Days = 1..LastDay
  BY SnapshotsAssumption DEF Days
<1>1. \A d \in Days : HasShot(d) => shots[d] \in Nat
  BY <1>0 DEF ShotInv, ShotTypeOK, HasShot, NoShot
<1> DEFINE F == [i \in Nat |-> [q \in Seq(Nat) |->
                   IF i \in Days /\ HasShot(i) THEN Append(q, shots[i]) ELSE q]]
<1>2. F \in [Nat -> [Seq(Nat) -> Seq(Nat)]]
  <2>1. ASSUME NEW i \in Nat, NEW q \in Seq(Nat)
        PROVE  (IF i \in Days /\ HasShot(i) THEN Append(q, shots[i]) ELSE q) \in Seq(Nat)
    BY <1>1, <2>1
  <2> QED BY <2>1
<1>3. \A i \in Days, q \in Seq(Nat) : F[i][q] = IF HasShot(i) THEN Append(q, shots[i]) ELSE q
  BY <1>0
<1> HIDE DEF F
<1>4. PICK Z : Z = Seq(Nat)
  OBVIOUS
<1>a. PICK a : a = << >>
  OBVIOUS
<1>d. a \in Z
  <2>1. a \in Seq(Nat)
    BY <1>a
  <2> QED BY <1>4, <2>1
<1>b. F \in [Nat -> [Z -> Z]]
  BY <1>2, <1>4
<1>c. PICK k \in [0..LastDay -> Z] : k[0] = a /\ \A i \in 1..LastDay : k[i] = F[i][k[i - 1]]
  <2>1. \A n \in Nat : \E k \in [0..n -> Z] : k[0] = a /\ \A i \in 1..n : k[i] = F[i][k[i - 1]]
    BY <1>b, <1>d, Recursion, SMTT(60)
  <2> QED BY <1>0, <2>1
<1>5. k \in [0..LastDay -> Seq(Nat)] /\ k[0] = << >> /\ \A i \in 1..LastDay : k[i] = F[i][k[i - 1]]
  BY <1>4, <1>a, <1>c
<1>6. ASSUME NEW d \in 0..LastDay
      PROVE  k[d] = IF d = 0 THEN << >>
                    ELSE IF HasShot(d) THEN Append(k[d - 1], shots[d])
                    ELSE k[d - 1]
  <2>1. CASE d = 0
    BY <1>5, <2>1
  <2>2. CASE d # 0
    <3>1. d \in Days /\ d \in 1..LastDay /\ d - 1 \in 0..LastDay
      BY <1>0, <2>2
    <3>2. k[d - 1] \in Seq(Nat)
      BY <1>5, <3>1
    <3>3. k[d] = F[d][k[d - 1]]
      BY <1>5, <3>1
    <3> QED BY <1>3, <2>2, <3>1, <3>2, <3>3
  <2> QED BY <2>1, <2>2
<1>7. k = [d \in 0..LastDay |-> k[d]]
  OBVIOUS
<1>8. k = [d \in 0..LastDay |-> IF d = 0 THEN << >>
                                ELSE IF HasShot(d) THEN Append(k[d - 1], shots[d])
                                ELSE k[d - 1]]
  BY <1>6, <1>7
<1> QED BY <1>8 DEF Rows

\* The history is one of numbers, and unless a row was written late it grows.
LEMMA HistoryGrows ==
  ASSUME ShotInv
  PROVE  /\ History \in Seq(Nat)
         /\ ~behind => \A i, j \in DOMAIN History : i < j => History[i] <= History[j]
<1>0. LastDay \in Nat \ {0} /\ Days = 1..LastDay
  BY SnapshotsAssumption DEF Days
<1>1. \A d \in Days : HasShot(d) => shots[d] \in Nat
  BY <1>0 DEF ShotInv, ShotTypeOK, HasShot, NoShot
<1>2. PICK k : k = CHOOSE f : Rows(f, LastDay)
  OBVIOUS
<1>3. Rows(k, LastDay)
  BY <1>2, RowsExist
<1>4. History = k[LastDay]
  BY <1>2 DEF History, Rows
<1>5. k[0] = << >> /\ \A d \in Days : k[d] = IF HasShot(d) THEN Append(k[d - 1], shots[d]) ELSE k[d - 1]
  <2>1. \A d \in 0..LastDay : k[d] = IF d = 0 THEN << >>
                                     ELSE IF HasShot(d) THEN Append(k[d - 1], shots[d])
                                     ELSE k[d - 1]
    BY <1>3 DEF Rows
  <2>2. 0 \in 0..LastDay /\ \A d \in Days : d \in 0..LastDay /\ d # 0
    BY <1>0
  <2> QED BY <2>1, <2>2
<1> DEFINE OfDays(s, d) == \A i \in DOMAIN s : \E e \in Days : e <= d /\ HasShot(e) /\ s[i] = shots[e]
           Grows(s) == ~behind => \A i, j \in DOMAIN s : i < j => s[i] <= s[j]
           S == {d \in Nat : d <= LastDay => k[d] \in Seq(Nat) /\ OfDays(k[d], d) /\ Grows(k[d])}
<1>6. 0 \in S
  <2>1. PICK s : s = << >>
    OBVIOUS
  <2>2. s \in Seq(Nat) /\ DOMAIN s = {}
    BY <2>1
  <2>3. OfDays(s, 0) /\ Grows(s)
    BY <2>2
  <2> QED BY <1>5, <2>1, <2>2, <2>3
<1>7. ASSUME NEW n \in Nat, n \in S PROVE n + 1 \in S
  <2> SUFFICES ASSUME n + 1 <= LastDay PROVE k[n + 1] \in Seq(Nat) /\ OfDays(k[n + 1], n + 1) /\ Grows(k[n + 1])
    OBVIOUS
  <2>1. n <= LastDay /\ n + 1 \in Days /\ (n + 1) - 1 = n
    BY <1>0
  <2>2. PICK s : s = k[n]
    OBVIOUS
  <2>3. s \in Seq(Nat) /\ OfDays(s, n) /\ Grows(s)
    BY <1>7, <2>1, <2>2
  <2>4. CASE ~HasShot(n + 1)
    <3>1. k[n + 1] = s
      BY <1>5, <2>1, <2>2, <2>4
    <3>2. OfDays(s, n + 1)
      BY <1>0, <2>3
    <3> QED BY <2>3, <3>1, <3>2
  <2>5. CASE HasShot(n + 1)
    <3>1. PICK x \in Nat : x = shots[n + 1]
      BY <1>1, <2>1, <2>5
    <3>2. PICK t : t = Append(s, x)
      OBVIOUS
    <3>3. k[n + 1] = t
      BY <1>5, <2>1, <2>2, <2>5, <3>1, <3>2
    <3>4. /\ t \in Seq(Nat) /\ DOMAIN t = 1..Len(s) + 1 /\ DOMAIN s = 1..Len(s) /\ Len(s) \in Nat
          /\ t[Len(s) + 1] = x /\ \A i \in DOMAIN s : t[i] = s[i]
      BY <2>3, <3>2
    <3>5. OfDays(t, n + 1)
      <4> SUFFICES ASSUME NEW i \in DOMAIN t
                   PROVE  \E e \in Days : e <= n + 1 /\ HasShot(e) /\ t[i] = shots[e]
        OBVIOUS
      <4>1. CASE i \in DOMAIN s
        <5>1. PICK e \in Days : e <= n /\ HasShot(e) /\ s[i] = shots[e]
          BY <2>3, <4>1
        <5>2. e <= n + 1 /\ t[i] = shots[e]
          BY <1>0, <3>4, <4>1, <5>1
        <5> QED BY <5>1, <5>2
      <4>2. CASE i \notin DOMAIN s
        <5>1. i = Len(s) + 1
          BY <3>4, <4>2
        <5> QED BY <2>1, <2>5, <3>1, <3>4, <5>1
      <4> QED BY <4>1, <4>2
    <3>6. Grows(t)
      <4> SUFFICES ASSUME ~behind, NEW i \in DOMAIN t, NEW j \in DOMAIN t, i < j PROVE t[i] <= t[j]
        OBVIOUS
      <4>1. CASE j \in DOMAIN s
        <5>1. i \in DOMAIN s
          BY <3>4, <4>1
        <5> QED BY <2>3, <3>4, <4>1, <5>1
      <4>2. CASE j \notin DOMAIN s
        <5>1. j = Len(s) + 1 /\ i \in DOMAIN s
          BY <3>4, <4>2
        <5>2. PICK e \in Days : e <= n /\ HasShot(e) /\ s[i] = shots[e]
          BY <2>3, <5>1
        <5>3. e < n + 1
          BY <1>0, <5>2
        <5>4. shots[e] <= shots[n + 1]
          BY <2>1, <2>5, <5>2, <5>3 DEF ShotInv, RowsGrow
        <5> QED BY <3>1, <3>4, <5>1, <5>2, <5>4
      <4> QED BY <4>1, <4>2
    <3> QED BY <3>3, <3>4, <3>5, <3>6
  <2> QED BY <2>4, <2>5
<1>8. LastDay \in S
  <2> HIDE DEF S
  <2> QED BY <1>0, <1>6, <1>7, SetInduction
<1> QED BY <1>0, <1>4, <1>8

\* The sum of some points is what adding them one by one comes to.
SumsUp(f, p) == f = [k \in 0..Len(p) |-> IF k = 0 THEN 0 ELSE f[k - 1] + p[k]]

LEMMA TotalIs ==
  ASSUME NEW m \in Nat, NEW p, Len(p) = m,
         NEW g \in [0..m -> Int], g[0] = 0, \A k \in 1..m : g[k] = g[k - 1] + p[k]
  PROVE  Total(p) = g[m]
<1>1. SumsUp(g, p)
  <2>1. g = [k \in 0..m |-> g[k]]
    OBVIOUS
  <2>2. \A k \in 0..m : g[k] = IF k = 0 THEN 0 ELSE g[k - 1] + p[k]
    OBVIOUS
  <2>3. g = [k \in 0..m |-> IF k = 0 THEN 0 ELSE g[k - 1] + p[k]]
    BY <2>1, <2>2
  <2> QED BY <2>3 DEF SumsUp
<1>2. PICK f : f = CHOOSE h : SumsUp(h, p)
  OBVIOUS
<1>3. SumsUp(f, p)
  BY <1>1, <1>2
<1>4. Total(p) = f[m]
  BY <1>2 DEF Total, SumsUp
<1>5. \A k \in 0..m : f[k] = IF k = 0 THEN 0 ELSE f[k - 1] + p[k]
  BY <1>3 DEF SumsUp
<1> DEFINE S == {k \in Nat : k <= m => f[k] = g[k]}
<1>6. 0 \in S
  BY <1>5
<1>7. ASSUME NEW n \in Nat, n \in S PROVE n + 1 \in S
  <2> SUFFICES ASSUME n + 1 <= m PROVE f[n + 1] = g[n + 1]
    OBVIOUS
  <2>1. n + 1 \in 1..m /\ n + 1 \in 0..m /\ n + 1 # 0 /\ (n + 1) - 1 = n /\ f[n] = g[n]
    BY <1>7
  <2> QED BY <1>5, <2>1
<1>8. m \in S
  <2> HIDE DEF S
  <2> QED BY <1>6, <1>7, SetInduction
<1> QED BY <1>4, <1>8

\* The gains from value to value of what grows add up to what it grew by.
LEMMA GainsAddUp ==
  ASSUME NEW all \in Seq(Nat), Len(all) >= 1,
         \A i, j \in DOMAIN all : i < j => all[i] <= all[j]
  PROVE  Total([k \in 1..Len(all) - 1 |-> Gain(all[k + 1], all[k])]) = all[Len(all)] - all[1]
<1>1. PICK m \in Nat : m = Len(all) - 1
  OBVIOUS
<1>2. PICK p : p = [k \in 1..m |-> Gain(all[k + 1], all[k])]
  OBVIOUS
<1>3. Len(p) = m
  BY <1>2
<1>4. \A k \in 1..m : p[k] = all[k + 1] - all[k]
  <2> SUFFICES ASSUME NEW k \in 1..m PROVE p[k] = all[k + 1] - all[k]
    OBVIOUS
  <2>1. k \in DOMAIN all /\ k + 1 \in DOMAIN all /\ k < k + 1
    BY <1>1
  <2>2. all[k] \in Nat /\ all[k + 1] \in Nat /\ all[k] <= all[k + 1]
    BY <2>1
  <2> QED BY <1>2, <2>2 DEF Gain
<1>5. PICK g : g = [k \in 0..m |-> all[k + 1] - all[1]]
  OBVIOUS
<1>6. \A k \in 0..m : k + 1 \in DOMAIN all /\ all[k + 1] \in Nat /\ all[1] \in Nat
  BY <1>1
<1>7. g \in [0..m -> Int] /\ g[0] = 0
  BY <1>5, <1>6
<1>8. \A k \in 1..m : g[k] = g[k - 1] + p[k]
  <2> SUFFICES ASSUME NEW k \in 1..m PROVE g[k] = g[k - 1] + p[k]
    OBVIOUS
  <2>1. k \in 0..m /\ k - 1 \in 0..m /\ (k - 1) + 1 = k
    OBVIOUS
  <2>2. g[k] = all[k + 1] - all[1] /\ g[k - 1] = all[k] - all[1]
    BY <1>5, <2>1
  <2>3. all[1] \in Nat /\ all[k] \in Nat /\ all[k + 1] \in Nat
    BY <1>6, <2>1
  <2> QED BY <1>4, <2>2, <2>3
<1>9. Total(p) = g[m]
  BY <1>3, <1>7, <1>8, TotalIs
<1> QED BY <1>1, <1>2, <1>5, <1>9

LEMMA RowsAddUp == ShotInv => DaysAddUp
<1> SUFFICES ASSUME ShotInv PROVE DaysAddUp
  OBVIOUS
<1>0. LastDay \in Nat
  BY SnapshotsAssumption
<1>1. PICK hist : hist = History
  OBVIOUS
<1> SUFFICES ASSUME hist # << >>, ~behind, NEW n \in 1..LastDay
             PROVE  Total(Points(n)) = hist[Len(hist)] - (IF Len(hist) > n THEN hist[Len(hist) - n] ELSE 0)
  BY <1>1 DEF DaysAddUp
<1>2. /\ hist \in Seq(Nat) /\ Len(hist) \in Nat /\ Len(hist) >= 1 /\ DOMAIN hist = 1..Len(hist)
      /\ \A i, j \in DOMAIN hist : i < j => hist[i] <= hist[j]
  <2>1. hist \in Seq(Nat) /\ \A i, j \in DOMAIN hist : i < j => hist[i] <= hist[j]
    BY <1>1, HistoryGrows
  <2> QED BY <2>1
<1>3. n \in Nat /\ n >= 1
  BY <1>0
<1>4. CASE Len(hist) > n
  <2>1. PICK all : all = SubSeq(hist, Len(hist) - n, Len(hist))
    OBVIOUS
  <2>2. Latest(n) = all
    BY <1>1, <1>4, <2>1 DEF Latest
  <2>3. Points(n) = [k \in 1..Len(all) - 1 |-> Gain(all[k + 1], all[k])]
    BY <1>1, <1>4, <2>2 DEF Points
  <2>4. /\ all \in Seq(Nat) /\ Len(all) = n + 1 /\ DOMAIN all = 1..n + 1
        /\ \A i \in 1..n + 1 : all[i] = hist[(Len(hist) - n) + i - 1] /\ (Len(hist) - n) + i - 1 \in DOMAIN hist
    BY <1>2, <1>3, <1>4, <2>1
  <2>5. \A i, j \in DOMAIN all : i < j => all[i] <= all[j]
    <3> SUFFICES ASSUME NEW i \in DOMAIN all, NEW j \in DOMAIN all, i < j PROVE all[i] <= all[j]
      OBVIOUS
    <3>1. i \in 1..n + 1 /\ j \in 1..n + 1
      BY <2>4
    <3>2. PICK x \in DOMAIN hist : x = (Len(hist) - n) + i - 1 /\ all[i] = hist[x]
      BY <2>4, <3>1
    <3>3. PICK y \in DOMAIN hist : y = (Len(hist) - n) + j - 1 /\ all[j] = hist[y]
      BY <2>4, <3>1
    <3>4. x < y
      BY <1>2, <1>3, <3>1, <3>2, <3>3
    <3> QED BY <1>2, <3>2, <3>3, <3>4
  <2>6. all[1] = hist[Len(hist) - n] /\ all[n + 1] = hist[Len(hist)]
    BY <1>2, <1>3, <2>4
  <2>7. Total(Points(n)) = all[Len(all)] - all[1]
    <3>1. Len(all) >= 1
      BY <1>3, <2>4
    <3> QED BY <2>3, <2>4, <2>5, <3>1, GainsAddUp
  <2> QED BY <1>4, <2>4, <2>6, <2>7
<1>5. CASE ~(Len(hist) > n)
  <2>1. PICK all : all = <<0>> \o hist
    OBVIOUS
  <2>2. Points(n) = [k \in 1..Len(all) - 1 |-> Gain(all[k + 1], all[k])]
    BY <1>1, <1>5, <2>1 DEF Points
  <2>3. /\ all \in Seq(Nat) /\ Len(all) = Len(hist) + 1 /\ DOMAIN all = 1..Len(hist) + 1
        /\ all[1] = 0 /\ \A i \in DOMAIN hist : all[i + 1] = hist[i]
    BY <1>2, <2>1
  <2>4. \A i, j \in DOMAIN all : i < j => all[i] <= all[j]
    <3> SUFFICES ASSUME NEW i \in DOMAIN all, NEW j \in DOMAIN all, i < j PROVE all[i] <= all[j]
      OBVIOUS
    <3>1. i \in 1..Len(hist) + 1 /\ j \in 1..Len(hist) + 1 /\ j - 1 \in DOMAIN hist /\ (j - 1) + 1 = j
      BY <1>2, <2>3
    <3>2. all[j] = hist[j - 1] /\ hist[j - 1] \in Nat
      BY <1>2, <2>3, <3>1
    <3>3. CASE i = 1
      BY <2>3, <3>2, <3>3
    <3>4. CASE i # 1
      <4>1. i - 1 \in DOMAIN hist /\ (i - 1) + 1 = i /\ i - 1 < j - 1
        BY <1>2, <3>1, <3>4
      <4>2. all[i] = hist[i - 1]
        BY <2>3, <4>1
      <4> QED BY <1>2, <3>1, <3>2, <4>1, <4>2
    <3> QED BY <3>3, <3>4
  <2>5. all[Len(all)] = hist[Len(hist)] /\ Len(all) >= 1
    BY <1>2, <2>3
  <2>6. Total(Points(n)) = all[Len(all)] - all[1]
    BY <2>2, <2>3, <2>4, <2>5, GainsAddUp
  <2> QED BY <1>5, <2>3, <2>5, <2>6
<1> QED BY <1>4, <1>5

\* The points of every window of the chart add up to what was paired between the
\* row before it and the last one, whatever days have no row, unless a late job
\* wrote an older day after a newer one.
THEOREM DaysAlwaysAddUp == ShotSpec => [](ShotTypeOK /\ DaysAddUp)
<1>1. ShotSpec => []ShotInv
  BY ShotInitial, ShotStep, PTL DEF ShotSpec
<1>2. ShotInv => ShotTypeOK /\ DaysAddUp
  BY RowsAddUp DEF ShotInv
<1> QED BY <1>1, <1>2, PTL

-----------------------------------------------------------------------------
(* Ledger *)

FillKeys == {"time", "id"}
FillPlaces == 1..MaxTrades
AllIds == FillPlaces \X FillKeys
AnyBot == AllBots \cup {Unattributed}
FillRow == [fill : FillPlaces, key : FillKeys, bot : AnyBot]
Trip == [buy : AllIds, sell : AllIds, bot : AnyBot]
FillRecord == [pair : AllBots, buy : BOOLEAN, level : BOOLEAN]
Seen == {r.fill : r \in archived}

\* The rows, the trips and the fills are what they are.
TablesOK ==
  /\ roster \subseteq AllBots
  /\ executed \in Seq(FillRecord) /\ Len(executed) <= MaxTrades
  /\ archived \subseteq FillRow /\ \A r \in archived : r.fill \in DOMAIN executed
  /\ matched \subseteq Trip /\ \A t \in matched : {t.buy, t.sell} \subseteq {FillId(r) : r \in archived}
  /\ legacy \in BOOLEAN /\ strays \subseteq DOMAIN executed

\* Until the legacy page is asked for, every row and every trip is of a bot, and a
\* trip is of two fills of its own bot.
BotsOwn ==
  ~legacy =>
    /\ \A r \in archived : r.key = "time" /\ r.bot \in AllBots
    /\ \A t \in matched : t.bot \in AllBots /\ {t.buy, t.sell} \subseteq FillsOf(t.bot)

\* A backfill has archived what it knew of and has left behind.
FillingOK ==
  /\ filling \in [at : {"idle", "ask", "insert", "empty", "stalled", "capped"}, bot : AnyBot,
                  deaf : BOOLEAN, end : Int, oldest : 0..MaxTrades, batches : 0..MaxBatches,
                  batch : SUBSET FillPlaces, known : SUBSET FillPlaces]
  /\ filling.batch \subseteq DOMAIN executed /\ filling.known \subseteq DOMAIN executed
  /\ filling.at \in {"ask", "insert"} => filling.bot \in AllBots
  /\ filling.at = "ask" =>
       filling.batches < MaxBatches /\ \A f \in filling.known : f > filling.end => f \in Seen
  /\ filling.at = "insert" =>
       \A f \in filling.known : f >= filling.oldest => f \in filling.batch \/ f \in Seen

\* A summary has read trips of the fills it is about to read.
SummaryOK ==
  /\ summary.at \in {"none", "matched", "answered"}
  /\ ~legacy /\ summary.at = "matched" =>
       \A t \in summary.matched : {t.buy, t.sell} \subseteq FillsOf(summary.bot)

LedgerInv ==
  /\ TablesOK /\ BotsOwn /\ FillsCountOnce /\ FillsAreOwn
  /\ FillingOK /\ BackfillReachesBack /\ SummaryOK /\ SummaryIsWhole

LEMMA LedgerInitial == LedgerInit => LedgerInv
<1> SUFFICES ASSUME LedgerInit PROVE LedgerInv
  OBVIOUS
<1>0. FirstBot \in AllBots /\ MaxTrades \in Nat /\ MaxBatches \in Nat \ {0}
  BY LedgerAssumption
<1>1. /\ roster = {FirstBot} /\ executed = << >> /\ archived = {} /\ matched = {}
      /\ filling = NoFilling /\ summary = NoSummary /\ legacy = FALSE /\ strays = {}
  BY DEF LedgerInit
<1>2. TablesOK
  <2>1. executed \in Seq(FillRecord) /\ Len(executed) <= MaxTrades
    BY <1>0, <1>1
  <2>2. roster \subseteq AllBots /\ legacy \in BOOLEAN
    BY <1>0, <1>1
  <2> QED BY <1>1, <2>1, <2>2 DEF TablesOK
<1>3. BotsOwn /\ FillsCountOnce /\ FillsAreOwn
  BY <1>1 DEF BotsOwn, FillsCountOnce, FillsAreOwn
<1>4. FillingOK
  <2>1. NoFilling \in [at : {"idle", "ask", "insert", "empty", "stalled", "capped"}, bot : AnyBot,
                       deaf : BOOLEAN, end : Int, oldest : 0..MaxTrades, batches : 0..MaxBatches,
                       batch : SUBSET FillPlaces, known : SUBSET FillPlaces]
    BY <1>0 DEF NoFilling, AnyBot
  <2>2. NoFilling.batch = {} /\ NoFilling.known = {} /\ NoFilling.at = "idle"
    BY DEF NoFilling
  <2> QED BY <1>1, <2>1, <2>2 DEF FillingOK
<1>5. BackfillReachesBack
  BY <1>1 DEF BackfillReachesBack, NoFilling
<1>6. SummaryOK /\ SummaryIsWhole
  BY <1>1 DEF SummaryOK, SummaryIsWhole, NoSummary
<1> QED BY <1>2, <1>3, <1>4, <1>5, <1>6 DEF LedgerInv

\* What is inserted comes to what is there, under ids that are not there.
LEMMA InsertedIs ==
  ASSUME archived \subseteq FillRow, NEW fs \in SUBSET FillPlaces, NEW key \in FillKeys, NEW b \in AnyBot
  PROVE  /\ Inserted(fs, key, b) \subseteq FillRow
         /\ archived \subseteq Inserted(fs, key, b)
         /\ \A f \in fs : \E r \in Inserted(fs, key, b) : r.fill = f /\ r.key = key
         /\ \A r \in Inserted(fs, key, b) : r \notin archived =>
              /\ r.fill \in fs /\ r.key = key /\ r.bot = b
              /\ \A q \in archived : ~(q.fill = r.fill /\ q.key = key)
<1> DEFINE Anew == {[fill |-> f, key |-> key, bot |-> b] :
                     f \in {g \in fs : \A r \in archived : FillId(r) # <<g, key>>}}
<1>1. Inserted(fs, key, b) = archived \cup Anew
  BY DEF Inserted
<1>2. \A r \in Anew : /\ r \in FillRow /\ r.fill \in fs /\ r.key = key /\ r.bot = b
                     /\ \A q \in archived : ~(q.fill = r.fill /\ q.key = key)
  BY DEF FillRow, FillId
<1>3. ASSUME NEW f \in fs PROVE \E r \in archived \cup Anew : r.fill = f /\ r.key = key
  <2>1. CASE \E r \in archived : FillId(r) = <<f, key>>
    BY <2>1 DEF FillId
  <2>2. CASE ~\E r \in archived : FillId(r) = <<f, key>>
    <3>1. PICK r : r = [fill |-> f, key |-> key, bot |-> b]
      OBVIOUS
    <3>2. r \in Anew
      BY <2>2, <3>1
    <3>3. r.fill = f /\ r.key = key
      BY <3>1
    <3> HIDE DEF Anew
    <3> QED BY <3>2, <3>3
  <2> QED BY <2>1, <2>2
<1> HIDE DEF Anew
<1> QED BY <1>1, <1>2, <1>3

\* Rows that the engine or a backfill inserts for a bot.
LEMMA RowsComeIn ==
  ASSUME LedgerInv, NEW b \in AllBots, NEW fs, fs \subseteq DOMAIN executed,
         archived' = Inserted(fs, "time", b),
         roster' = roster, executed' = executed, matched' = matched, legacy' = legacy,
         strays \subseteq strays', strays' \subseteq DOMAIN executed,
         \A f \in fs : executed[f].pair = b \/ f \in strays'
  PROVE  /\ TablesOK' /\ BotsOwn' /\ FillsCountOnce' /\ FillsAreOwn'
         /\ Seen \subseteq Seen' /\ fs \subseteq Seen'
         /\ \A x : FillsOf(x) \subseteq FillsOf(x)'
<1>0. MaxTrades \in Nat
  BY LedgerAssumption
<1>1. TablesOK /\ BotsOwn /\ FillsCountOnce /\ FillsAreOwn
  BY DEF LedgerInv
<1>2. fs \in SUBSET FillPlaces
  BY <1>0, <1>1 DEF TablesOK, FillPlaces
<1>3. /\ archived' \subseteq FillRow /\ archived \subseteq archived'
      /\ \A f \in fs : \E r \in archived' : r.fill = f /\ r.key = "time"
      /\ \A r \in archived' : r \notin archived =>
              /\ r.fill \in fs /\ r.key = "time" /\ r.bot = b
              /\ \A q \in archived : ~(q.fill = r.fill /\ q.key = "time")
  <2>1. "time" \in FillKeys /\ b \in AnyBot /\ archived \subseteq FillRow
    BY <1>1 DEF FillKeys, AnyBot, TablesOK
  <2> QED BY <1>2, <2>1, InsertedIs
<1>4. {FillId(r) : r \in archived} \subseteq {FillId(r) : r \in archived'}
  BY <1>3
<1>5. TablesOK'
  <2>1. \A r \in archived' : r.fill \in DOMAIN executed
    BY <1>1, <1>3 DEF TablesOK
  <2>2. \A t \in matched : {t.buy, t.sell} \subseteq {FillId(r) : r \in archived'}
    BY <1>1, <1>4 DEF TablesOK
  <2>3. {FillId(r) : r \in archived}' = {FillId(r) : r \in archived'}
    BY DEF FillId
  <2> QED BY <1>1, <1>3, <2>1, <2>2, <2>3 DEF TablesOK
<1>6. Seen \subseteq Seen' /\ fs \subseteq Seen'
  BY <1>3 DEF Seen
<1>7. \A x : FillsOf(x) \subseteq FillsOf(x)'
  BY <1>3 DEF FillsOf, FillId
<1>8. BotsOwn'
  <2> SUFFICES ASSUME ~legacy
               PROVE  /\ \A r \in archived' : r.key = "time" /\ r.bot \in AllBots
                      /\ \A t \in matched : t.bot \in AllBots /\ {t.buy, t.sell} \subseteq FillsOf(t.bot)'
    BY DEF BotsOwn
  <2>1. \A r \in archived' : r.key = "time" /\ r.bot \in AllBots
    BY <1>1, <1>3 DEF BotsOwn
  <2>2. \A t \in matched : t.bot \in AllBots /\ {t.buy, t.sell} \subseteq FillsOf(t.bot)
    BY <1>1 DEF BotsOwn
  <2> QED BY <1>7, <2>1, <2>2
<1>9. FillsCountOnce'
  <2> SUFFICES ASSUME ~legacy, NEW r \in archived', NEW q \in archived', r.fill = q.fill PROVE r = q
    BY DEF FillsCountOnce
  <2>1. \A x \in archived : x.key = "time"
    BY <1>1 DEF BotsOwn
  <2>2. CASE r \in archived /\ q \in archived
    BY <1>1, <2>2 DEF FillsCountOnce
  <2>3. CASE r \in archived /\ q \notin archived
    BY <1>3, <2>1, <2>3
  <2>4. CASE r \notin archived /\ q \in archived
    BY <1>3, <2>1, <2>4
  <2>5. CASE r \notin archived /\ q \notin archived
    BY <1>3, <2>5 DEF FillRow
  <2> QED BY <2>2, <2>3, <2>4, <2>5
<1>10. FillsAreOwn'
  <2> SUFFICES ASSUME ~legacy, NEW r \in archived' PROVE executed[r.fill].pair = r.bot \/ r.fill \in strays'
    BY DEF FillsAreOwn
  <2>1. CASE r \in archived
    BY <1>1, <2>1 DEF FillsAreOwn
  <2>2. CASE r \notin archived
    BY <1>3, <2>2
  <2> QED BY <2>1, <2>2
<1> QED BY <1>5, <1>6, <1>7, <1>8, <1>9, <1>10

\* The answer of GRVT: of the fills up to a time the newest, and some if there are any.
LEMMA AnswerIs ==
  ASSUME executed \in Seq(FillRecord), NEW end \in Int
  PROVE  /\ Answer(end) \subseteq DOMAIN executed
         /\ \A f \in Answer(end) : f <= end
         /\ \A f \in Answer(end), g \in DOMAIN executed : f <= g /\ g <= end => g \in Answer(end)
         /\ Answer(end) = {} => \A f \in DOMAIN executed : f > end
<1>0. GrvtCap \in Nat \ {0} /\ DOMAIN executed = 1..Len(executed) /\ Len(executed) \in Nat
  BY LedgerAssumption
<1> DEFINE upTo == {f \in DOMAIN executed : f <= end}
           Above(f) == {g \in upTo : g > f}
<1>1. Answer(end) = {f \in upTo : Cardinality(Above(f)) < GrvtCap}
  BY DEF Answer
<1>2. \A f : Above(f) \subseteq 1..Len(executed)
  BY <1>0
<1>3. \A f : IsFiniteSet(Above(f)) /\ Cardinality(Above(f)) \in Nat
  <2>1. IsFiniteSet(1..Len(executed))
    BY <1>0, FS_Interval
  <2> TAKE f
  <2>2. IsFiniteSet(Above(f))
    BY <1>2, <2>1, FS_Subset
  <2> QED BY <2>2, FS_CardinalityType
<1>4. \A f \in Answer(end), g \in DOMAIN executed : f <= g /\ g <= end => g \in Answer(end)
  <2> SUFFICES ASSUME NEW f \in Answer(end), NEW g \in DOMAIN executed, f <= g, g <= end
               PROVE  g \in upTo /\ Cardinality(Above(g)) < GrvtCap
    BY <1>1
  <2>1. Above(g) \subseteq Above(f)
    BY <1>0, <1>1
  <2>2. Cardinality(Above(g)) <= Cardinality(Above(f))
    <3> HIDE DEF Above
    <3> QED BY <1>3, <2>1, FS_Subset
  <2>3. Cardinality(Above(f)) < GrvtCap
    BY <1>1
  <2> HIDE DEF Above
  <2> QED BY <1>0, <1>3, <2>2, <2>3
<1>5. ASSUME upTo # {} PROVE Answer(end) # {}
  <2>1. upTo \subseteq 0..Len(executed)
    BY <1>0
  <2>2. PICK f \in upTo : \A g \in upTo : g <= f
    <3> HIDE DEF upTo
    <3> QED BY <1>0, <1>5, <2>1, MaxOf
  <2>3. Above(f) = {}
    BY <1>0, <2>2
  <2>4. Cardinality(Above(f)) = 0
    <3> HIDE DEF Above
    <3> QED BY <2>3, FS_EmptySet
  <2> QED BY <1>0, <1>1, <2>2, <2>4
<1>6. Answer(end) = {} => \A f \in DOMAIN executed : f > end
  BY <1>0, <1>5
<1> HIDE DEF Above
<1> QED BY <1>1, <1>4, <1>6

\* The walk of calculateRealGridProfit over the rows with some ids.
WalksOver(k, ids) ==
  k = [p \in 0..2 * MaxTrades |->
         IF p = 0 THEN [wait |-> << >>, found |-> {}]
         ELSE IF IdAt(p) \in ids THEN Joined(k[p - 1], IdAt(p))
         ELSE k[p - 1]]

LEMMA JoinedIs ==
  ASSUME NEW ids, NEW id \in ids, NEW w \in [wait : Seq(ids), found : SUBSET (ids \X ids)]
  PROVE  Joined(w, id) \in [wait : Seq(ids), found : SUBSET (ids \X ids)]
<1>0. w.wait \in Seq(ids) /\ w.found \subseteq ids \X ids
  OBVIOUS
<1>1. CASE executed[id[1]].buy
  <2>1. PICK q : q = Append(w.wait, id)
    OBVIOUS
  <2>2. q \in Seq(ids)
    BY <1>0, <2>1
  <2>3. Joined(w, id) = [w EXCEPT !.wait = q]
    BY <1>1, <2>1 DEF Joined
  <2>4. [w EXCEPT !.wait = q] = [wait |-> q, found |-> w.found]
    OBVIOUS
  <2> QED BY <1>0, <2>2, <2>3, <2>4
<1>2. CASE ~executed[id[1]].buy /\ w.wait = << >>
  BY <1>2 DEF Joined
<1>3. CASE ~executed[id[1]].buy /\ w.wait # << >>
  <2>1. PICK q : q = Tail(w.wait)
    OBVIOUS
  <2>2. PICK h : h = Head(w.wait)
    OBVIOUS
  <2>3. q \in Seq(ids) /\ h \in ids
    BY <1>0, <1>3, <2>1, <2>2
  <2>4. Joined(w, id) = [wait |-> q, found |-> w.found \cup {<<h, id>>}]
    BY <1>3, <2>1, <2>2 DEF Joined
  <2>5. w.found \cup {<<h, id>>} \subseteq ids \X ids
    BY <1>0, <2>3
  <2> QED BY <2>3, <2>4, <2>5
<1> QED BY <1>1, <1>2, <1>3

LEMMA LedgerWalkExists ==
  ASSUME NEW ids
  PROVE  \E k : WalksOver(k, ids)
<1>0. MaxTrades \in Nat /\ 2 * MaxTrades \in Nat
  BY LedgerAssumption
<1> DEFINE W == [wait : Seq(ids), found : SUBSET (ids \X ids)]
           F == [p \in Nat |-> [w \in W |-> IF IdAt(p) \in ids THEN Joined(w, IdAt(p)) ELSE w]]
<1>1. F \in [Nat -> [W -> W]]
  <2>1. ASSUME NEW p \in Nat, NEW w \in W
        PROVE  (IF IdAt(p) \in ids THEN Joined(w, IdAt(p)) ELSE w) \in W
    BY JoinedIs
  <2> HIDE DEF W
  <2> QED BY <2>1
<1>2. \A p \in Nat, w \in W : F[p][w] = IF IdAt(p) \in ids THEN Joined(w, IdAt(p)) ELSE w
  <2> HIDE DEF W
  <2> QED OBVIOUS
<1> HIDE DEF F
<1>3. PICK a : a = [wait |-> << >>, found |-> {}]
  OBVIOUS
<1>4. a \in W
  <2>1. PICK q : q = << >>
    OBVIOUS
  <2>2. q \in Seq(ids)
    BY <2>1
  <2> QED BY <1>3, <2>1, <2>2
<1> HIDE DEF W
<1>5. \A n \in Nat : \E k \in [0..n -> W] : k[0] = a /\ \A i \in 1..n : k[i] = F[i][k[i - 1]]
  BY <1>1, <1>4, Recursion, SMTT(60)
<1>6. PICK k \in [0..2 * MaxTrades -> W] :
        k[0] = a /\ \A i \in 1..2 * MaxTrades : k[i] = F[i][k[i - 1]]
  BY <1>0, <1>5
<1>7. ASSUME NEW p \in 0..2 * MaxTrades
      PROVE  k[p] = IF p = 0 THEN a
                    ELSE IF IdAt(p) \in ids THEN Joined(k[p - 1], IdAt(p))
                    ELSE k[p - 1]
  <2>1. CASE p = 0
    BY <1>6, <2>1
  <2>2. CASE p # 0
    <3>1. p \in Nat /\ p \in 1..2 * MaxTrades /\ p - 1 \in 0..2 * MaxTrades
      BY <1>0, <2>2
    <3>2. k[p - 1] \in W
      BY <1>6, <3>1
    <3>3. k[p] = F[p][k[p - 1]]
      BY <1>6, <3>1
    <3> QED BY <1>2, <2>2, <3>1, <3>2, <3>3
  <2> QED BY <2>1, <2>2
<1>8. k = [p \in 0..2 * MaxTrades |-> k[p]]
  BY <1>6
<1>9. k = [p \in 0..2 * MaxTrades |-> IF p = 0 THEN a
                    ELSE IF IdAt(p) \in ids THEN Joined(k[p - 1], IdAt(p))
                    ELSE k[p - 1]]
  BY <1>7, <1>8
<1>10. WalksOver(k, ids)
  BY <1>3, <1>9 DEF WalksOver
<1> QED BY <1>10

\* A pair that is found is of rows that were walked.
LEMMA PairsAreWalked ==
  ASSUME NEW rs
  PROVE  PairUp(rs) \subseteq {FillId(r) : r \in rs} \X {FillId(r) : r \in rs}
<1>0. MaxTrades \in Nat /\ 2 * MaxTrades \in Nat
  BY LedgerAssumption
<1>1. PICK ids : ids = {FillId(r) : r \in rs}
  OBVIOUS
<1>2. PICK k : k = CHOOSE f : WalksOver(f, ids)
  OBVIOUS
<1>3. WalksOver(k, ids)
  BY <1>2, LedgerWalkExists
<1>4. PairUp(rs) = k[2 * MaxTrades].found
  BY <1>1, <1>2 DEF PairUp, WalksOver
<1> DEFINE W == [wait : Seq(ids), found : SUBSET (ids \X ids)]
           S == {p \in Nat : p <= 2 * MaxTrades => k[p] \in W}
<1>5. \A p \in 0..2 * MaxTrades :
        k[p] = IF p = 0 THEN [wait |-> << >>, found |-> {}]
               ELSE IF IdAt(p) \in ids THEN Joined(k[p - 1], IdAt(p))
               ELSE k[p - 1]
  BY <1>3 DEF WalksOver
<1>6. 0 \in S
  <2>1. PICK q : q = << >>
    OBVIOUS
  <2>2. q \in Seq(ids)
    BY <2>1
  <2>3. k[0] = [wait |-> q, found |-> {}]
    BY <1>0, <1>5, <2>1
  <2> QED BY <2>2, <2>3
<1>7. ASSUME NEW n \in Nat, n \in S PROVE n + 1 \in S
  <2> SUFFICES ASSUME n + 1 <= 2 * MaxTrades PROVE k[n + 1] \in W
    OBVIOUS
  <2>1. n + 1 \in 0..2 * MaxTrades /\ n + 1 # 0 /\ (n + 1) - 1 = n /\ n <= 2 * MaxTrades
    BY <1>0
  <2>2. PICK w \in W : w = k[n]
    BY <1>7, <2>1
  <2>3. CASE IdAt(n + 1) \in ids
    <3>1. k[n + 1] = Joined(w, IdAt(n + 1))
      BY <1>5, <2>1, <2>2, <2>3
    <3>2. Joined(w, IdAt(n + 1)) \in W
      BY <2>2, <2>3, JoinedIs
    <3> HIDE DEF W
    <3> QED BY <3>1, <3>2
  <2>4. CASE IdAt(n + 1) \notin ids
    <3>1. k[n + 1] = w
      BY <1>5, <2>1, <2>2, <2>4
    <3> HIDE DEF W
    <3> QED BY <2>2, <3>1
  <2> QED BY <2>3, <2>4
<1>8. 2 * MaxTrades \in S
  <2> HIDE DEF S
  <2> QED BY <1>0, <1>6, <1>7, SetInduction
<1>9. k[2 * MaxTrades].found \subseteq ids \X ids
  BY <1>0, <1>8
<1> QED BY <1>1, <1>4, <1>9

\* What is stored comes to what is there.
LEMMA StoredIs ==
  ASSUME matched \subseteq Trip, NEW ps \in SUBSET (AllIds \X AllIds), NEW b \in AnyBot
  PROVE  /\ Stored(ps, b) \subseteq Trip /\ matched \subseteq Stored(ps, b)
         /\ \A t \in Stored(ps, b) : t \notin matched => t.bot = b /\ <<t.buy, t.sell>> \in ps
<1> DEFINE Anew == {[buy |-> p[1], sell |-> p[2], bot |-> b] :
                       p \in {q \in ps : \A t \in matched : <<t.buy, t.sell>> # q}}
<1>1. Stored(ps, b) = matched \cup Anew
  BY DEF Stored
<1>2. \A t \in Anew : t \in Trip /\ t.bot = b /\ <<t.buy, t.sell>> \in ps
  BY DEF Trip
<1> HIDE DEF Anew
<1> QED BY <1>1, <1>2

LEMMA NoFillingIsOK ==
  ASSUME filling' = NoFilling
  PROVE  FillingOK' /\ BackfillReachesBack'
<1>0. MaxTrades \in Nat /\ MaxBatches \in Nat
  BY LedgerAssumption
<1>1. NoFilling \in [at : {"idle", "ask", "insert", "empty", "stalled", "capped"}, bot : AnyBot,
                     deaf : BOOLEAN, end : Int, oldest : 0..MaxTrades, batches : 0..MaxBatches,
                     batch : SUBSET FillPlaces, known : SUBSET FillPlaces]
  BY <1>0 DEF NoFilling, AnyBot
<1>2. NoFilling.batch = {} /\ NoFilling.known = {} /\ NoFilling.at = "idle"
  BY DEF NoFilling
<1> QED BY <1>1, <1>2 DEF FillingOK, BackfillReachesBack, FillPlaces, AnyBot

LEMMA FillingStays ==
  ASSUME FillingOK, BackfillReachesBack, filling' = filling,
         DOMAIN executed \subseteq DOMAIN executed', Seen \subseteq Seen'
  PROVE  FillingOK' /\ BackfillReachesBack'
<1>1. FillingOK'
  BY DEF FillingOK, FillPlaces, AnyBot
<1>2. Seen = {r.fill : r \in archived} /\ Seen' = {r.fill : r \in archived'}
  BY DEF Seen
<1>3. BackfillReachesBack'
  BY <1>2 DEF BackfillReachesBack
<1> QED BY <1>1, <1>3

LEMMA SummaryStays ==
  ASSUME SummaryOK, SummaryIsWhole, summary' = summary, legacy' = legacy,
         \A x : FillsOf(x) \subseteq FillsOf(x)'
  PROVE  SummaryOK' /\ SummaryIsWhole'
<1>1. PICK s : s = summary
  OBVIOUS
<1>2. FillsOf(s.bot) \subseteq FillsOf(s.bot)'
  OBVIOUS
<1>3. FillsOf(summary.bot)' = FillsOf(s.bot)'
  BY <1>1 DEF FillsOf
<1> QED BY <1>1, <1>2, <1>3 DEF SummaryOK, SummaryIsWhole

LEMMA TradeStep ==
  ASSUME LedgerInv, NEW b \in AllBots, NEW buy \in BOOLEAN, NEW level \in BOOLEAN, Trade(b, buy, level)
  PROVE  LedgerInv'
<1>1. /\ TablesOK /\ BotsOwn /\ FillsCountOnce /\ FillsAreOwn
      /\ FillingOK /\ BackfillReachesBack /\ SummaryOK /\ SummaryIsWhole
  BY DEF LedgerInv
<1>0. MaxTrades \in Nat
  BY LedgerAssumption
<1>2. PICK x : x = [pair |-> b, buy |-> buy, level |-> level]
  OBVIOUS
<1>3. x \in FillRecord
  BY <1>2 DEF FillRecord
<1>4. /\ executed' = Append(executed, x) /\ Len(executed) < MaxTrades
      /\ roster' = roster /\ archived' = archived /\ matched' = matched /\ filling' = filling
      /\ summary' = summary /\ legacy' = legacy /\ strays' = strays
  BY <1>2 DEF Trade
<1>5. executed \in Seq(FillRecord)
  BY <1>1 DEF TablesOK
<1>6. /\ executed' \in Seq(FillRecord) /\ Len(executed') <= MaxTrades
      /\ DOMAIN executed \subseteq DOMAIN executed'
      /\ \A f \in DOMAIN executed : executed'[f] = executed[f]
  BY <1>0, <1>3, <1>4, <1>5
<1>7. {FillId(r) : r \in archived}' = {FillId(r) : r \in archived}
  BY <1>4 DEF FillId
<1>8. TablesOK'
  BY <1>1, <1>4, <1>6, <1>7 DEF TablesOK
<1>9. \A y : FillsOf(y)' = FillsOf(y)
  BY <1>4 DEF FillsOf, FillId
<1>10. BotsOwn' /\ FillsCountOnce'
  BY <1>1, <1>4, <1>9 DEF BotsOwn, FillsCountOnce
<1>11. FillsAreOwn'
  <2>1. \A r \in archived : r.fill \in DOMAIN executed
    BY <1>1 DEF TablesOK
  <2> QED BY <1>1, <1>4, <1>6, <2>1 DEF FillsAreOwn
<1>12. Seen' = Seen
  BY <1>4 DEF Seen
<1>13. FillingOK' /\ BackfillReachesBack'
  BY <1>1, <1>4, <1>6, <1>12, FillingStays
<1>14. SummaryOK' /\ SummaryIsWhole'
  BY <1>1, <1>4, <1>9, SummaryStays
<1> QED BY <1>8, <1>10, <1>11, <1>13, <1>14 DEF LedgerInv

\* Whoever does not touch the tables.
LEMMA TablesStay ==
  ASSUME LedgerInv, roster' \subseteq AllBots, executed' = executed, archived' = archived,
         matched' = matched, legacy' = legacy, strays' = strays
  PROVE  /\ TablesOK' /\ BotsOwn' /\ FillsCountOnce' /\ FillsAreOwn'
         /\ Seen' = Seen /\ \A x : FillsOf(x)' = FillsOf(x)
<1>1. /\ TablesOK /\ BotsOwn /\ FillsCountOnce /\ FillsAreOwn
  BY DEF LedgerInv
<1>2. {FillId(r) : r \in archived}' = {FillId(r) : r \in archived}
  BY DEF FillId
<1>3. TablesOK'
  BY <1>1, <1>2 DEF TablesOK
<1>4. \A x : FillsOf(x)' = FillsOf(x)
  BY DEF FillsOf, FillId
<1>5. BotsOwn' /\ FillsCountOnce' /\ FillsAreOwn'
  BY <1>1, <1>4 DEF BotsOwn, FillsCountOnce, FillsAreOwn
<1>6. Seen' = Seen
  BY DEF Seen
<1> QED BY <1>3, <1>4, <1>5, <1>6

LEMMA CreatesStep ==
  ASSUME LedgerInv, NEW b \in AllBots, Creates(b)
  PROVE  LedgerInv'
<1>1. /\ roster' = roster \cup {b} /\ executed' = executed /\ archived' = archived
      /\ matched' = matched /\ filling' = filling /\ summary' = summary /\ legacy' = legacy
      /\ strays' = strays
  BY DEF Creates
<1>2. roster' \subseteq AllBots
  BY <1>1 DEF LedgerInv, TablesOK
<1>3. /\ TablesOK' /\ BotsOwn' /\ FillsCountOnce' /\ FillsAreOwn'
      /\ Seen' = Seen /\ \A x : FillsOf(x)' = FillsOf(x)
  BY <1>1, <1>2, TablesStay
<1>4. FillingOK' /\ BackfillReachesBack'
  BY <1>1, <1>3, FillingStays DEF LedgerInv
<1>5. SummaryOK' /\ SummaryIsWhole'
  BY <1>1, <1>3, SummaryStays DEF LedgerInv
<1> QED BY <1>3, <1>4, <1>5 DEF LedgerInv

LEMMA PollStep ==
  ASSUME LedgerInv, NEW b \in AllBots, Poll(b)
  PROVE  LedgerInv'
<1>1. PICK fs : fs = {f \in Answer(MaxTrades) : executed[f].pair = b}
  OBVIOUS
<1>2. /\ archived' = Inserted(fs, "time", b) /\ roster' = roster /\ executed' = executed
      /\ matched' = matched /\ filling' = filling /\ summary' = summary /\ legacy' = legacy
      /\ strays' = strays
  BY <1>1 DEF Poll
<1>3. executed \in Seq(FillRecord) /\ strays \subseteq DOMAIN executed
  BY DEF LedgerInv, TablesOK
<1>4. MaxTrades \in Int
  BY LedgerAssumption
<1>5. fs \subseteq DOMAIN executed /\ \A f \in fs : executed[f].pair = b
  BY <1>1, <1>3, <1>4, AnswerIs
<1>6. /\ TablesOK' /\ BotsOwn' /\ FillsCountOnce' /\ FillsAreOwn'
      /\ Seen \subseteq Seen' /\ \A x : FillsOf(x) \subseteq FillsOf(x)'
  BY <1>2, <1>3, <1>5, RowsComeIn
<1>7. FillingOK' /\ BackfillReachesBack'
  BY <1>2, <1>6, FillingStays DEF LedgerInv
<1>8. SummaryOK' /\ SummaryIsWhole'
  BY <1>2, <1>6, SummaryStays DEF LedgerInv
<1> QED BY <1>6, <1>7, <1>8 DEF LedgerInv

LEMMA MatchesStep ==
  ASSUME LedgerInv, NEW b \in AllBots, Matches(b)
  PROVE  LedgerInv'
<1>1. /\ matched' = Stored(Walked(b), b) /\ roster' = roster /\ executed' = executed
      /\ archived' = archived /\ filling' = filling /\ summary' = summary /\ legacy' = legacy
      /\ strays' = strays
  BY DEF Matches
<1>2. TablesOK /\ BotsOwn /\ FillsCountOnce /\ FillsAreOwn
  BY DEF LedgerInv
<1>3. Walked(b) \subseteq FillsOf(b) \X FillsOf(b)
  BY PairsAreWalked DEF Walked, FillsOf
<1>4. /\ FillsOf(b) \subseteq {FillId(r) : r \in archived}
      /\ {FillId(r) : r \in archived} \subseteq AllIds
  BY <1>2 DEF FillsOf, TablesOK, FillRow, FillId, AllIds
<1>5. Walked(b) \in SUBSET (AllIds \X AllIds)
  BY <1>3, <1>4
<1>6. /\ matched' \subseteq Trip /\ matched \subseteq matched'
      /\ \A t \in matched' : t \notin matched => t.bot = b /\ <<t.buy, t.sell>> \in Walked(b)
  <2>1. matched \subseteq Trip /\ b \in AnyBot
    BY <1>2 DEF TablesOK, AnyBot
  <2> QED BY <1>1, <1>5, <2>1, StoredIs
<1>7. \A t \in matched' : t \notin matched => t.bot = b /\ {t.buy, t.sell} \subseteq FillsOf(b)
  BY <1>3, <1>6
<1>8. \A x : FillsOf(x)' = FillsOf(x)
  BY <1>1 DEF FillsOf, FillId
<1>9. {FillId(r) : r \in archived}' = {FillId(r) : r \in archived}
  BY <1>1 DEF FillId
<1>10. TablesOK'
  <2>1. \A t \in matched' : {t.buy, t.sell} \subseteq {FillId(r) : r \in archived}
    <3>1. \A t \in matched : {t.buy, t.sell} \subseteq {FillId(r) : r \in archived}
      BY <1>2 DEF TablesOK
    <3> QED BY <1>4, <1>7, <3>1
  <2> QED BY <1>1, <1>2, <1>6, <1>9, <2>1 DEF TablesOK
<1>11. BotsOwn'
  <2> SUFFICES ASSUME ~legacy, NEW t \in matched'
               PROVE  t.bot \in AllBots /\ {t.buy, t.sell} \subseteq FillsOf(t.bot)
    BY <1>1, <1>2, <1>8 DEF BotsOwn
  <2>1. CASE t \in matched
    BY <1>2, <2>1 DEF BotsOwn
  <2>2. CASE t \notin matched
    BY <1>7, <2>2
  <2> QED BY <2>1, <2>2
<1>12. FillsCountOnce' /\ FillsAreOwn'
  BY <1>1, <1>2 DEF FillsCountOnce, FillsAreOwn
<1>13. Seen' = Seen
  BY <1>1 DEF Seen
<1>14. FillingOK' /\ BackfillReachesBack'
  BY <1>1, <1>13, FillingStays DEF LedgerInv
<1>15. SummaryOK' /\ SummaryIsWhole'
  BY <1>1, <1>8, SummaryStays DEF LedgerInv
<1> QED BY <1>10, <1>11, <1>12, <1>14, <1>15 DEF LedgerInv

LEMMA SummaryStep ==
  ASSUME LedgerInv, SummaryEnds \/ \E b \in AllBots : SummaryStarts(b)
  PROVE  LedgerInv'
<1>1. /\ roster' = roster /\ executed' = executed /\ archived' = archived
      /\ matched' = matched /\ filling' = filling /\ legacy' = legacy /\ strays' = strays
  BY DEF SummaryEnds, SummaryStarts
<1>2. /\ TablesOK' /\ BotsOwn' /\ FillsCountOnce' /\ FillsAreOwn'
      /\ Seen' = Seen /\ \A x : FillsOf(x)' = FillsOf(x)
  BY <1>1, TablesStay DEF LedgerInv, TablesOK
<1>3. FillingOK' /\ BackfillReachesBack'
  BY <1>1, <1>2, FillingStays DEF LedgerInv
<1>4. SummaryOK' /\ SummaryIsWhole'
  <2>1. ASSUME NEW b \in AllBots, SummaryStarts(b) PROVE SummaryOK' /\ SummaryIsWhole'
    <3>1. PICK s : s = summary'
      OBVIOUS
    <3>2. s.at = "matched" /\ s.bot = b /\ s.matched = MatchedOf(b) /\ s.lacks = {}
      BY <2>1, <3>1 DEF SummaryStarts, NoSummary
    <3>3. ~legacy => \A t \in MatchedOf(b) : {t.buy, t.sell} \subseteq FillsOf(b)
      BY DEF LedgerInv, BotsOwn, MatchedOf
    <3>4. FillsOf(summary.bot)' = FillsOf(b)'
      BY <3>1, <3>2 DEF FillsOf
    <3> QED BY <1>1, <1>2, <3>1, <3>2, <3>3, <3>4 DEF SummaryOK, SummaryIsWhole
  <2>2. ASSUME SummaryEnds PROVE SummaryOK' /\ SummaryIsWhole'
    <3>1. PICK s : s = summary'
      OBVIOUS
    <3>2. /\ summary.at = "matched" /\ s.at = "answered"
          /\ s.lacks = (UNION {{t.buy, t.sell} : t \in summary.matched}) \ FillsOf(summary.bot)
      BY <2>2, <3>1 DEF SummaryEnds, NoSummary
    <3>3. ASSUME ~legacy PROVE s.lacks = {}
      <4>1. \A t \in summary.matched : {t.buy, t.sell} \subseteq FillsOf(summary.bot)
        BY <3>2, <3>3 DEF LedgerInv, SummaryOK
      <4>2. UNION {{t.buy, t.sell} : t \in summary.matched} \subseteq FillsOf(summary.bot)
        BY <4>1
      <4>3. PICK u : u = UNION {{t.buy, t.sell} : t \in summary.matched}
        OBVIOUS
      <4>4. s.lacks = u \ FillsOf(summary.bot) /\ u \subseteq FillsOf(summary.bot)
        BY <3>2, <4>2, <4>3
      <4> QED BY <4>4
    <3> QED BY <1>1, <3>1, <3>2, <3>3 DEF SummaryOK, SummaryIsWhole
  <2> QED BY <2>1, <2>2
<1> QED BY <1>2, <1>3, <1>4 DEF LedgerInv

\* The steps of a backfill that touch no table.
LEMMA BackfillStep ==
  ASSUME LedgerInv,
         BackfillFails \/ BackfillAsks \/ \E b \in AllBots : BackfillStarts(b)
  PROVE  LedgerInv'
<1>0. MaxTrades \in Nat /\ MaxBatches \in Nat \ {0}
  BY LedgerAssumption
<1>1. /\ roster' = roster /\ executed' = executed /\ archived' = archived
      /\ matched' = matched /\ summary' = summary /\ legacy' = legacy /\ strays' = strays
  BY DEF BackfillFails, BackfillAsks, BackfillStarts
<1>2. /\ TablesOK' /\ BotsOwn' /\ FillsCountOnce' /\ FillsAreOwn'
      /\ Seen' = Seen /\ \A x : FillsOf(x)' = FillsOf(x)
  BY <1>1, TablesStay DEF LedgerInv, TablesOK
<1>3. SummaryOK' /\ SummaryIsWhole'
  BY <1>1, <1>2, SummaryStays DEF LedgerInv
<1> DEFINE Filling == [at : {"idle", "ask", "insert", "empty", "stalled", "capped"}, bot : AnyBot,
                       deaf : BOOLEAN, end : Int, oldest : 0..MaxTrades, batches : 0..MaxBatches,
                       batch : SUBSET FillPlaces, known : SUBSET FillPlaces]
<1>4. /\ FillingOK /\ executed \in Seq(FillRecord) /\ Len(executed) <= MaxTrades
      /\ filling \in Filling
  BY DEF LedgerInv, TablesOK, FillingOK
<1>5. NoFilling \in Filling /\ NoFilling.batch = {} /\ NoFilling.known = {}
      /\ NoFilling.batches = 0 /\ NoFilling.end = MaxTrades
  BY <1>0 DEF NoFilling, AnyBot
<1>6. DOMAIN executed = 1..Len(executed) /\ Len(executed) \in Nat /\ DOMAIN executed \subseteq FillPlaces
  BY <1>0, <1>4 DEF FillPlaces
<1>7. Seen = {r.fill : r \in archived} /\ Seen' = {r.fill : r \in archived'}
  BY DEF Seen
\* A record that keeps the promise of FillingOK is one.
<1>8. ASSUME NEW g \in Filling, filling' = g,
             g.batch \subseteq DOMAIN executed, g.known \subseteq DOMAIN executed,
             g.at \in {"ask", "insert"} => g.bot \in AllBots,
             g.at = "ask" => g.batches < MaxBatches /\ \A f \in g.known : f > g.end => f \in Seen,
             g.at = "insert" => \A f \in g.known : f >= g.oldest => f \in g.batch \/ f \in Seen,
             g.at = "empty" => g.known \subseteq Seen
      PROVE  LedgerInv'
  <2>1. FillingOK'
    BY <1>1, <1>2, <1>8 DEF FillingOK, FillPlaces, AnyBot
  <2>2. BackfillReachesBack'
    BY <1>2, <1>7, <1>8 DEF BackfillReachesBack
  <2> QED BY <1>2, <1>3, <2>1, <2>2 DEF LedgerInv
<1> HIDE DEF Filling
<1>9. CASE BackfillFails
  <2>1. filling' = NoFilling
    BY <1>9 DEF BackfillFails
  <2> QED BY <1>2, <1>3, <2>1, NoFillingIsOK DEF LedgerInv
<1>10. ASSUME NEW b \in AllBots, BackfillStarts(b) PROVE LedgerInv'
  <2>1. PICK deaf \in BOOLEAN :
          filling' = [NoFilling EXCEPT !.at = "ask", !.bot = b, !.deaf = deaf,
                                       !.known = DOMAIN executed]
    BY <1>10 DEF BackfillStarts
  <2>2. PICK g : g = [NoFilling EXCEPT !.at = "ask", !.bot = b, !.deaf = deaf,
                                       !.known = DOMAIN executed]
    OBVIOUS
  <2>3. g \in Filling /\ g.at = "ask" /\ g.bot = b /\ g.known = DOMAIN executed
        /\ g.batch = {} /\ g.batches = 0 /\ g.end = MaxTrades
    BY <1>5, <1>6, <2>2 DEF Filling, AnyBot
  <2>4. \A f \in DOMAIN executed : ~(f > MaxTrades)
    BY <1>0, <1>4, <1>6
  <2>5. filling' = g
    BY <2>1, <2>2
  <2> QED BY <1>0, <1>8, <2>3, <2>4, <2>5
<1>11. CASE BackfillAsks
  <2> DEFINE upTo == IF filling.deaf THEN MaxTrades ELSE filling.end
  <2>1. PICK batch : batch = Answer(upTo)
    OBVIOUS
  <2>2. PICK oldest : oldest = IF batch = {} THEN 0 ELSE CHOOSE f \in batch : \A g \in batch : f <= g
    OBVIOUS
  <2>3. /\ filling.at = "ask"
        /\ \/ batch = {} /\ filling' = [NoFilling EXCEPT !.at = "empty", !.known = filling.known]
           \/ batch # {} /\ oldest = filling.oldest /\ filling' = [NoFilling EXCEPT !.at = "stalled"]
           \/ batch # {} /\ oldest # filling.oldest
              /\ filling' = [filling EXCEPT !.at = "insert", !.batches = @ + 1,
                                            !.batch = batch, !.oldest = oldest]
    BY <1>11, <2>1, <2>2 DEF BackfillAsks
  <2>4. upTo \in Int /\ filling.known \subseteq DOMAIN executed
    BY <1>0, <1>4 DEF Filling, FillingOK
  <2>5. /\ batch \subseteq DOMAIN executed
        /\ \A f \in batch : f <= upTo
        /\ \A f \in batch, g \in DOMAIN executed : f <= g /\ g <= upTo => g \in batch
        /\ batch = {} => \A f \in DOMAIN executed : f > upTo
    <3> HIDE DEF upTo
    <3> QED BY <1>4, <2>1, <2>4, AnswerIs
  \* What was known and lies above the end of the answer is archived already.
  <2>6. \A f \in filling.known : f > upTo => f \in Seen
    BY <1>0, <1>4, <1>6, <2>3, <2>4 DEF FillingOK
  <2>7. CASE batch = {} /\ filling' = [NoFilling EXCEPT !.at = "empty", !.known = filling.known]
    <3>1. PICK g : g = [NoFilling EXCEPT !.at = "empty", !.known = filling.known]
      OBVIOUS
    <3>2. filling.known \subseteq FillPlaces
      BY <1>6, <2>4
    <3>3. g \in Filling /\ g.at = "empty" /\ g.known = filling.known /\ g.batch = {}
      BY <1>5, <3>1, <3>2 DEF Filling
    <3>4. filling.known \subseteq Seen
      BY <2>4, <2>5, <2>6, <2>7
    <3>5. filling' = g
      BY <2>7, <3>1
    <3> QED BY <1>8, <2>4, <3>3, <3>4, <3>5
  <2>8. CASE filling' = [NoFilling EXCEPT !.at = "stalled"]
    <3>1. PICK g : g = [NoFilling EXCEPT !.at = "stalled"]
      OBVIOUS
    <3>2. g \in Filling /\ g.at = "stalled" /\ g.known = {} /\ g.batch = {}
      BY <1>5, <3>1 DEF Filling
    <3>3. filling' = g
      BY <2>8, <3>1
    <3> QED BY <1>8, <3>2, <3>3
  <2>9. CASE batch # {} /\ filling' = [filling EXCEPT !.at = "insert", !.batches = @ + 1,
                                                      !.batch = batch, !.oldest = oldest]
    <3>1. PICK n : n = filling.batches + 1
      OBVIOUS
    <3>2. PICK g : g = [filling EXCEPT !.at = "insert", !.batches = n, !.batch = batch, !.oldest = oldest]
      OBVIOUS
    <3>3. filling' = g
      BY <2>9, <3>1, <3>2
    <3>4. n \in 0..MaxBatches
      BY <1>0, <1>4, <2>3, <3>1 DEF Filling, FillingOK
    <3>5. batch \subseteq FillPlaces
      BY <1>6, <2>5
    <3>6. oldest \in batch /\ \A f \in batch : oldest <= f
      <4>1. PICK f \in batch : \A e \in batch : ~(e < f)
        <5>1. batch \subseteq Nat
          BY <1>6, <2>5
        <5> QED BY <2>9, <5>1, NatMin
      <4>2. \A e \in batch : f <= e
        BY <1>6, <2>5, <4>1
      <4> QED BY <2>2, <2>9, <4>1, <4>2
    <3>7. oldest \in 0..MaxTrades /\ oldest \in DOMAIN executed
      BY <1>0, <1>4, <1>6, <2>5, <3>6
    <3>8. g \in Filling /\ g.at = "insert" /\ g.bot = filling.bot /\ g.known = filling.known
          /\ g.batch = batch /\ g.oldest = oldest
      <4>1. PICK x \in Filling : x = filling
        BY <1>4
      <4>2. g = [x EXCEPT !.at = "insert", !.batches = n, !.batch = batch, !.oldest = oldest]
        BY <3>2, <4>1
      <4>3. g \in Filling /\ g.at = "insert" /\ g.bot = x.bot /\ g.known = x.known
            /\ g.batch = batch /\ g.oldest = oldest
        BY <3>4, <3>5, <3>7, <4>2 DEF Filling
      <4> QED BY <4>1, <4>3
    <3>9. filling.bot \in AllBots
      BY <1>4, <2>3 DEF FillingOK
    <3>10. \A f \in filling.known : f >= oldest => f \in batch \/ f \in Seen
      <4> SUFFICES ASSUME NEW f \in filling.known, f >= oldest, f \notin Seen PROVE f \in batch
        OBVIOUS
      <4>1. f \in DOMAIN executed /\ f \in Int /\ oldest \in Int
        BY <1>6, <2>4, <3>7
      <4>2. f <= upTo
        <5> HIDE DEF upTo
        <5> QED BY <2>4, <2>6, <4>1
      <4> HIDE DEF upTo
      <4> QED BY <2>5, <3>6, <4>1, <4>2
    <3> QED BY <1>8, <2>4, <2>5, <3>3, <3>8, <3>9, <3>10
  <2> QED BY <2>3, <2>7, <2>8, <2>9
<1> QED BY <1>9, <1>10, <1>11

LEMMA InsertsStep ==
  ASSUME LedgerInv, BackfillInserts
  PROVE  LedgerInv'
<1>0. MaxTrades \in Nat /\ MaxBatches \in Nat \ {0}
  BY LedgerAssumption
<1> DEFINE Filling == [at : {"idle", "ask", "insert", "empty", "stalled", "capped"}, bot : AnyBot,
                       deaf : BOOLEAN, end : Int, oldest : 0..MaxTrades, batches : 0..MaxBatches,
                       batch : SUBSET FillPlaces, known : SUBSET FillPlaces]
<1>1. PICK x \in Filling : x = filling
  BY DEF LedgerInv, FillingOK
<1>2. /\ x.at = "insert" /\ x.bot \in AllBots
      /\ x.batch \subseteq DOMAIN executed /\ x.known \subseteq DOMAIN executed
      /\ \A f \in x.known : f >= x.oldest => f \in x.batch \/ f \in Seen
  BY <1>1 DEF LedgerInv, FillingOK, BackfillInserts
<1>3. /\ archived' = Inserted(x.batch, "time", x.bot)
      /\ strays' = strays \cup {f \in x.batch : executed[f].pair # x.bot}
      /\ roster' = roster /\ executed' = executed /\ matched' = matched /\ summary' = summary
      /\ legacy' = legacy
  BY <1>1 DEF BackfillInserts
<1>4. /\ strays \subseteq strays' /\ strays' \subseteq DOMAIN executed
      /\ \A f \in x.batch : executed[f].pair = x.bot \/ f \in strays'
  BY <1>2, <1>3 DEF LedgerInv, TablesOK
<1>5. /\ TablesOK' /\ BotsOwn' /\ FillsCountOnce' /\ FillsAreOwn'
      /\ Seen \subseteq Seen' /\ x.batch \subseteq Seen'
      /\ \A y : FillsOf(y) \subseteq FillsOf(y)'
  BY <1>2, <1>3, <1>4, RowsComeIn
<1>6. SummaryOK' /\ SummaryIsWhole'
  BY <1>3, <1>5, SummaryStays DEF LedgerInv
<1>7. FillingOK' /\ BackfillReachesBack'
  <2>1. CASE filling' = [NoFilling EXCEPT !.at = "capped"]
    <3>1. PICK g : g = [NoFilling EXCEPT !.at = "capped"]
      OBVIOUS
    <3>a. NoFilling \in Filling /\ NoFilling.batch = {} /\ NoFilling.known = {}
      BY <1>0 DEF NoFilling, AnyBot
    <3>2. g \in Filling /\ g.at = "capped" /\ g.known = {} /\ g.batch = {}
      BY <3>1, <3>a
    <3>3. filling' = g
      BY <2>1, <3>1
    <3> QED BY <3>2, <3>3 DEF FillingOK, BackfillReachesBack, FillPlaces, AnyBot
  <2>2. CASE /\ x.batches < MaxBatches
             /\ filling' = [filling EXCEPT !.at = "ask", !.end = filling.oldest - 1, !.batch = {}]
    <3>1. PICK e \in Int : e = x.oldest - 1
      BY <1>0
    <3>2. PICK g : g = [x EXCEPT !.at = "ask", !.end = e, !.batch = {}]
      OBVIOUS
    <3>3. filling' = g
      BY <1>1, <2>2, <3>1, <3>2
    <3>4. g \in Filling /\ g.at = "ask" /\ g.bot = x.bot /\ g.known = x.known /\ g.batch = {}
          /\ g.end = e /\ g.batches = x.batches
      BY <3>1, <3>2
    <3>5. \A f \in x.known : f > e => f \in Seen'
      <4> SUFFICES ASSUME NEW f \in x.known, f > e PROVE f \in Seen'
        OBVIOUS
      <4>1. f \in Int /\ x.oldest \in Int
        BY <1>0 DEF FillPlaces
      <4>2. f >= x.oldest
        BY <3>1, <4>1
      <4> QED BY <1>2, <1>5, <4>2
    <3>6. FillingOK'
      BY <1>2, <1>3, <2>2, <3>3, <3>4, <3>5 DEF FillingOK, FillPlaces, AnyBot
    <3>7. BackfillReachesBack'
      BY <3>3, <3>4 DEF BackfillReachesBack
    <3> QED BY <3>6, <3>7
  <2>3. \/ filling' = [NoFilling EXCEPT !.at = "capped"]
        \/ /\ x.batches < MaxBatches
           /\ filling' = [filling EXCEPT !.at = "ask", !.end = filling.oldest - 1, !.batch = {}]
    BY <1>1 DEF BackfillInserts
  <2> QED BY <2>1, <2>2, <2>3
<1> QED BY <1>5, <1>6, <1>7 DEF LedgerInv

LEMMA LegacyStep ==
  ASSUME LedgerInv, LegacyPage
  PROVE  LedgerInv'
<1>0. MaxTrades \in Nat
  BY LedgerAssumption
<1>1. /\ filling = NoFilling /\ summary = NoSummary /\ legacy' = TRUE
      /\ archived' = Inserted(Answer(MaxTrades), "id", Unattributed)
      /\ roster' = roster /\ executed' = executed /\ filling' = filling /\ summary' = summary
      /\ strays' = strays
  BY DEF LegacyPage, Unasked
<1>2. TablesOK
  BY DEF LedgerInv
<1>3. Answer(MaxTrades) \subseteq DOMAIN executed
  BY <1>0, <1>2, AnswerIs DEF TablesOK
<1>4. DOMAIN executed \subseteq FillPlaces
  BY <1>0, <1>2 DEF TablesOK, FillPlaces
<1>5. /\ archived' \subseteq FillRow /\ archived \subseteq archived'
      /\ \A r \in archived' : r \notin archived => r.fill \in Answer(MaxTrades)
  <2>1. "id" \in FillKeys /\ Unattributed \in AnyBot /\ archived \subseteq FillRow
        /\ Answer(MaxTrades) \in SUBSET FillPlaces
    BY <1>2, <1>3, <1>4 DEF FillKeys, AnyBot, TablesOK
  <2> QED BY <1>1, <2>1, InsertedIs
<1>6. \A r \in archived' : r.fill \in DOMAIN executed
  BY <1>2, <1>3, <1>5 DEF TablesOK
<1> DEFINE ids == {FillId(r) : r \in archived'}
<1>7. PICK ps \in SUBSET (ids \X ids) : matched' = Stored(ps, Unattributed)
  <2> DEFINE joined == {t.buy : t \in matched} \cup {t.sell : t \in matched}
             loose(buy) == {r \in archived' : /\ executed[r.fill].buy = buy
                                              /\ executed[r.fill].level
                                              /\ FillId(r) \notin joined}
             rank(r) == Cardinality({q \in loose(executed[r.fill].buy) : Earlier(q, r)})
             couples == {p \in loose(TRUE) \X loose(FALSE) : rank(p[1]) = rank(p[2])}
             ps == {<<FillId(p[1]), FillId(p[2])>> : p \in couples}
  <2>1. matched' = Stored(ps, Unattributed)
    BY DEF LegacyPage
  <2>2. \A p \in couples : p[1] \in archived' /\ p[2] \in archived'
    <3> HIDE DEF rank
    <3> QED OBVIOUS
  <2> HIDE DEF couples
  <2>3. ps \subseteq ids \X ids
    BY <2>2
  <2> HIDE DEF ps, ids
  <2> QED BY <2>1, <2>3
<1>8. ids \subseteq AllIds
  BY <1>5 DEF FillRow, FillId, AllIds
<1>9. ps \in SUBSET (AllIds \X AllIds)
  <2> HIDE DEF ids
  <2> QED BY <1>7, <1>8
<1>10. /\ matched' \subseteq Trip
       /\ \A t \in matched' : t \notin matched => <<t.buy, t.sell>> \in ps
  <2>1. matched \subseteq Trip /\ Unattributed \in AnyBot
    BY <1>2 DEF TablesOK, AnyBot
  <2> QED BY <1>7, <1>9, <2>1, StoredIs
<1>11. {FillId(r) : r \in archived} \subseteq ids
  BY <1>5
<1>12. \A t \in matched' : {t.buy, t.sell} \subseteq ids
  <2>1. \A t \in matched : {t.buy, t.sell} \subseteq {FillId(r) : r \in archived}
    BY <1>2 DEF TablesOK
  <2> HIDE DEF ids
  <2> QED BY <1>7, <1>10, <1>11, <2>1
<1>13. TablesOK'
  <2>1. ({FillId(r) : r \in archived})' = ids
    BY DEF FillId
  <2>2. \A t \in matched' : {t.buy, t.sell} \subseteq ({FillId(r) : r \in archived})'
    BY <1>12, <2>1
  <2> HIDE DEF ids
  <2> QED BY <1>1, <1>2, <1>5, <1>6, <1>10, <2>2 DEF TablesOK
<1>14. BotsOwn' /\ FillsCountOnce' /\ FillsAreOwn' /\ SummaryIsWhole'
  BY <1>1 DEF BotsOwn, FillsCountOnce, FillsAreOwn, SummaryIsWhole
<1>15. SummaryOK'
  BY <1>1 DEF SummaryOK, NoSummary
<1>16. FillingOK' /\ BackfillReachesBack'
  BY <1>1, NoFillingIsOK
<1> QED BY <1>13, <1>14, <1>15, <1>16 DEF LedgerInv

LEMMA RestartsStep ==
  ASSUME LedgerInv, Restarts
  PROVE  LedgerInv'
<1>1. PICK only : only = IF Cardinality(roster) = 1 THEN CHOOSE b \in roster : TRUE ELSE Unattributed
  OBVIOUS
<1>2. /\ archived' = {[r EXCEPT !.bot = IF @ = Unattributed THEN only ELSE @] : r \in archived}
      /\ filling' = NoFilling /\ summary' = NoSummary /\ roster' = roster /\ executed' = executed
      /\ legacy' = legacy /\ strays' = strays
  BY <1>1 DEF Restarts
<1>3. /\ TablesOK /\ BotsOwn /\ FillsCountOnce /\ FillsAreOwn
      /\ archived \subseteq FillRow /\ matched \subseteq Trip /\ roster \subseteq AllBots
  BY DEF LedgerInv, TablesOK
<1>4. only \in AnyBot
  <2>1. CASE Cardinality(roster) = 1
    <3>1. roster # {}
      BY <2>1, FS_EmptySet
    <3> QED BY <1>1, <1>3, <2>1, <3>1 DEF AnyBot
  <2>2. CASE Cardinality(roster) # 1
    BY <1>1, <2>2 DEF AnyBot
  <2> QED BY <2>1, <2>2
<1> DEFINE ThenOf(x) == IF x.bot = Unattributed THEN only ELSE x.bot
           row(r) == [fill |-> r.fill, key |-> r.key, bot |-> ThenOf(r)]
\* Of a row only the bot changes.
<1>5. archived' = {row(r) : r \in archived}
  <2>1. \A r \in FillRow : [r EXCEPT !.bot = IF @ = Unattributed THEN only ELSE @] = row(r)
    BY DEF FillRow
  <2> HIDE DEF row
  <2> QED BY <1>2, <1>3, <2>1
<1>6. \A r \in archived : row(r) \in FillRow /\ row(r).fill = r.fill /\ row(r).key = r.key
                          /\ row(r).bot = ThenOf(r)
  <2> SUFFICES ASSUME NEW r \in FillRow
               PROVE  row(r) \in FillRow /\ row(r).fill = r.fill /\ row(r).key = r.key
                      /\ row(r).bot = ThenOf(r)
    BY <1>3
  <2>1. ThenOf(r) \in AnyBot
    BY <1>4 DEF FillRow
  <2> HIDE DEF ThenOf
  <2> QED BY <2>1 DEF FillRow
<1> HIDE DEF row
<1>7. archived' \subseteq FillRow /\ \A r \in archived' : r.fill \in DOMAIN executed
  BY <1>3, <1>5, <1>6 DEF TablesOK
<1>8. {FillId(r) : r \in archived'} = {FillId(r) : r \in archived}
  <2>1. \A r \in archived : FillId(row(r)) = FillId(r)
    BY <1>6 DEF FillId
  <2> QED BY <1>5, <2>1
<1>9. PICK botFor : botFor = [id \in {FillId(r) : r \in archived} |-> (CHOOSE r \in archived' : FillId(r) = id).bot]
  OBVIOUS
<1>10. botFor \in [{FillId(r) : r \in archived} -> AnyBot]
  <2>1. ASSUME NEW id \in {FillId(r) : r \in archived}
        PROVE  (CHOOSE r \in archived' : FillId(r) = id).bot \in AnyBot
    <3>1. \E r \in archived' : FillId(r) = id
      BY <1>8
    <3>2. PICK r : r = CHOOSE q \in archived' : FillId(q) = id
      OBVIOUS
    <3>3. r \in archived'
      BY <3>1, <3>2
    <3> QED BY <1>7, <3>2, <3>3 DEF FillRow
  <2> QED BY <1>9, <2>1
<1> DEFINE Bot(t) == IF t.bot = Unattributed THEN botFor[t.buy] ELSE t.bot
           trip(t) == [buy |-> t.buy, sell |-> t.sell, bot |-> Bot(t)]
<1>11. matched' = {trip(t) : t \in matched}
  <2> DEFINE botOf(id) == (CHOOSE r \in archived' : FillId(r) = id).bot
             changed(t) == [t EXCEPT !.bot = IF @ = Unattributed THEN botOf(t.buy) ELSE @]
  <2>1. matched' = {changed(t) : t \in matched}
    BY DEF Restarts
  <2>2. ASSUME NEW t \in matched PROVE changed(t) = trip(t)
    <3>1. t \in Trip /\ t.buy \in {FillId(r) : r \in archived}
      BY <1>3 DEF TablesOK
    <3>2. botFor[t.buy] = botOf(t.buy)
      BY <1>9, <3>1
    <3> HIDE DEF botOf
    <3> QED BY <3>1, <3>2 DEF Trip
  <2> HIDE DEF trip, changed
  <2> QED BY <2>1, <2>2
<1>12. \A t \in matched : trip(t) \in Trip /\ trip(t).buy = t.buy /\ trip(t).sell = t.sell
                          /\ trip(t).bot = Bot(t)
  <2> SUFFICES ASSUME NEW t \in matched
               PROVE  trip(t) \in Trip /\ trip(t).buy = t.buy /\ trip(t).sell = t.sell
                      /\ trip(t).bot = Bot(t)
    OBVIOUS
  <2>1. t \in Trip /\ t.buy \in {FillId(r) : r \in archived}
    BY <1>3 DEF TablesOK
  <2>2. Bot(t) \in AnyBot
    BY <1>10, <2>1 DEF Trip
  <2> HIDE DEF Bot
  <2> QED BY <2>1, <2>2 DEF Trip
<1> HIDE DEF trip
<1>13. matched' \subseteq Trip
  BY <1>11, <1>12
<1>14. \A t \in matched' : {t.buy, t.sell} \subseteq {FillId(r) : r \in archived}
  BY <1>3, <1>11, <1>12 DEF TablesOK
<1>15. TablesOK'
  <2>1. ({FillId(r) : r \in archived})' = {FillId(r) : r \in archived'}
    BY DEF FillId
  <2>2. \A t \in matched' : {t.buy, t.sell} \subseteq ({FillId(r) : r \in archived})'
    BY <1>8, <1>14, <2>1
  <2> QED BY <1>2, <1>3, <1>7, <1>13, <2>2 DEF TablesOK
\* Without the legacy page every row and every trip has its bot, and none changes.
<1>16. ASSUME ~legacy PROVE archived' = archived /\ matched' = matched
  <2>0. Unattributed \notin AllBots
    BY LedgerAssumption
  <2>1. \A r \in archived : row(r) = r
    <3> SUFFICES ASSUME NEW r \in archived PROVE row(r) = r
      OBVIOUS
    <3>1. ThenOf(r) = r.bot /\ r \in FillRow
      BY <1>3, <1>16, <2>0 DEF BotsOwn
    <3> HIDE DEF ThenOf
    <3> QED BY <3>1 DEF row, FillRow
  <2>2. \A t \in matched : trip(t) = t
    <3> SUFFICES ASSUME NEW t \in matched PROVE trip(t) = t
      OBVIOUS
    <3>1. Bot(t) = t.bot /\ t \in Trip
      BY <1>3, <1>16, <2>0 DEF BotsOwn
    <3> HIDE DEF Bot
    <3> QED BY <3>1 DEF trip, Trip
  <2>3. archived' = archived
    BY <1>5, <2>1
  <2>4. matched' = matched
    BY <1>11, <2>2
  <2> QED BY <2>3, <2>4
<1>17. BotsOwn' /\ FillsCountOnce' /\ FillsAreOwn'
  <2>1. CASE legacy
    BY <1>2, <2>1 DEF BotsOwn, FillsCountOnce, FillsAreOwn
  <2>2. CASE ~legacy
    <3>1. archived' = archived /\ matched' = matched
      BY <1>16, <2>2
    <3> QED BY <1>2, <1>3, <3>1, TablesStay
  <2> QED BY <2>1, <2>2
<1>18. FillingOK' /\ BackfillReachesBack'
  BY <1>2, NoFillingIsOK
<1>19. SummaryOK' /\ SummaryIsWhole'
  BY <1>2 DEF SummaryOK, SummaryIsWhole, NoSummary
<1> QED BY <1>15, <1>17, <1>18, <1>19 DEF LedgerInv

LEMMA LedgerStep == LedgerInv /\ [LedgerNext]_ledgerVars => LedgerInv'
<1> SUFFICES ASSUME LedgerInv, [LedgerNext]_ledgerVars PROVE LedgerInv'
  OBVIOUS
<1>1. ASSUME NEW b \in AllBots, NEW buy \in BOOLEAN, LevelFills(b, buy) \/ ManualTrade(b, buy)
      PROVE  LedgerInv'
  BY <1>1, TradeStep DEF LevelFills, ManualTrade
<1>2. ASSUME NEW b \in AllBots, Creates(b) \/ Poll(b) \/ Matches(b) PROVE LedgerInv'
  BY <1>2, CreatesStep, PollStep, MatchesStep
<1>3. ASSUME NEW b \in AllBots, SummaryStarts(b) \/ BackfillStarts(b) PROVE LedgerInv'
  BY <1>3, SummaryStep, BackfillStep
<1>4. ASSUME Restarts \/ LegacyPage \/ SummaryEnds \/ BackfillAsks \/ BackfillInserts \/ BackfillFails
      PROVE  LedgerInv'
  BY <1>4, RestartsStep, LegacyStep, SummaryStep, BackfillStep, InsertsStep
<1>5. CASE UNCHANGED ledgerVars
  <2>1. /\ roster' = roster /\ executed' = executed /\ archived' = archived
        /\ matched' = matched /\ filling' = filling /\ summary' = summary /\ legacy' = legacy
        /\ strays' = strays
    BY <1>5 DEF ledgerVars
  <2>2. /\ TablesOK' /\ BotsOwn' /\ FillsCountOnce' /\ FillsAreOwn'
        /\ Seen' = Seen /\ \A x : FillsOf(x)' = FillsOf(x)
    BY <2>1, TablesStay DEF LedgerInv, TablesOK
  <2>3. FillingOK' /\ BackfillReachesBack'
    BY <2>1, <2>2, FillingStays DEF LedgerInv
  <2>4. SummaryOK' /\ SummaryIsWhole'
    BY <2>1, <2>2, SummaryStays DEF LedgerInv
  <2> QED BY <2>2, <2>3, <2>4 DEF LedgerInv
<1> QED BY <1>1, <1>2, <1>3, <1>4, <1>5 DEF LedgerNext

LEMMA LedgerTypes == LedgerInv => LedgerTypeOK
<1> SUFFICES ASSUME LedgerInv PROVE LedgerTypeOK
  OBVIOUS
<1>1. /\ roster \subseteq AllBots /\ executed \in Seq([pair : AllBots, buy : BOOLEAN, level : BOOLEAN])
      /\ Len(executed) <= MaxTrades /\ legacy \in BOOLEAN /\ strays \subseteq DOMAIN executed
      /\ \A t \in matched : {t.buy, t.sell} \subseteq {FillId(r) : r \in archived}
  BY DEF LedgerInv, TablesOK, FillRecord
<1>2. \A r \in archived : r.fill \in DOMAIN executed /\ r.key \in {"time", "id"}
                          /\ r.bot \in AllBots \cup {Unattributed}
  BY DEF LedgerInv, TablesOK, FillRow, FillKeys, AnyBot
<1>3. /\ filling.at \in {"idle", "ask", "insert", "empty", "stalled", "capped"}
      /\ filling.batches \in 0..MaxBatches /\ filling.batch \subseteq DOMAIN executed
  BY DEF LedgerInv, FillingOK
<1>4. summary.at \in {"none", "matched", "answered"}
  BY DEF LedgerInv, SummaryOK
<1> QED BY <1>1, <1>2, <1>3, <1>4 DEF LedgerTypeOK

\* Until the legacy page is asked for, each fill counts once, for the bot whose it
\* is unless a backfill took it for another, a summary has both fills of each of its
\* trips; and a backfill that ran dry has archived all there was.
THEOREM LedgerIsTrue ==
  LedgerSpec => [](/\ LedgerTypeOK /\ FillsCountOnce /\ FillsAreOwn
                   /\ BackfillReachesBack /\ SummaryIsWhole)
<1>1. LedgerSpec => []LedgerInv
  BY LedgerInitial, LedgerStep, PTL DEF LedgerSpec
<1>2. LedgerInv => /\ LedgerTypeOK /\ FillsCountOnce /\ FillsAreOwn
                   /\ BackfillReachesBack /\ SummaryIsWhole
  BY LedgerTypes DEF LedgerInv
<1> QED BY <1>1, <1>2, PTL

-----------------------------------------------------------------------------
(* The composition *)

\* A behaviour of the services is one of each of them: it follows one and leaves
\* the others as they are.
LEMMA FollowsAccounts == ServicesSpec => AccountsSpec
<1>1. ServicesInit => AccountsInit
  BY DEF ServicesInit
<1>2. [ServicesNext]_servicesVars => [AccountsNext]_accountVars
  BY DEF ServicesNext, servicesVars, Still, On
<1> QED BY <1>1, <1>2, PTL DEF ServicesSpec, AccountsSpec

LEMMA FollowsSession == ServicesSpec => SessionSpec
<1>1. ServicesInit => SessionInit
  BY DEF ServicesInit
<1>2. [ServicesNext]_servicesVars => [SessionNext]_sessionVars
  BY DEF ServicesNext, servicesVars, Still, On
<1> QED BY <1>1, <1>2, PTL DEF ServicesSpec, SessionSpec

LEMMA FollowsNotifier == ServicesSpec => NotifierSpec
<1>1. ServicesInit => NotifierInit
  BY DEF ServicesInit
<1>2. [ServicesNext]_servicesVars => [NotifierNext]_notifierVars
  BY DEF ServicesNext, servicesVars, Still, On
<1> QED BY <1>1, <1>2, PTL DEF ServicesSpec, NotifierSpec

LEMMA FollowsDispatch == ServicesSpec => DispatchSpec
<1>1. ServicesInit => DispatchInit
  BY DEF ServicesInit
<1>2. [ServicesNext]_servicesVars => [DispatchNext]_dispatchVars
  BY DEF ServicesNext, servicesVars, Still, On
<1> QED BY <1>1, <1>2, PTL DEF ServicesSpec, DispatchSpec

LEMMA FollowsTransport == ServicesSpec => TransportSpec
<1>1. ServicesInit => TransportInit
  BY DEF ServicesInit
<1>2. [ServicesNext]_servicesVars => [TransportNext]_transportVars
  BY DEF ServicesNext, servicesVars, Still, On
<1> QED BY <1>1, <1>2, PTL DEF ServicesSpec, TransportSpec

LEMMA FollowsCache == ServicesSpec => CacheSpec
<1>1. ServicesInit => CacheInit
  BY DEF ServicesInit
<1>2. [ServicesNext]_servicesVars => [CacheNext]_cacheVars
  BY DEF ServicesNext, servicesVars, Still, On
<1> QED BY <1>1, <1>2, PTL DEF ServicesSpec, CacheSpec

LEMMA FollowsBucket == ServicesSpec => BucketSpec
<1>1. ServicesInit => BucketInit
  BY DEF ServicesInit
<1>2. [ServicesNext]_servicesVars => [BucketNext]_bucketVars
  BY DEF ServicesNext, servicesVars, Still, On
<1> QED BY <1>1, <1>2, PTL DEF ServicesSpec, BucketSpec

LEMMA FollowsReinvest == ServicesSpec => ReinvestSpec
<1>1. ServicesInit => ReinvestInit
  BY DEF ServicesInit
<1>2. [ServicesNext]_servicesVars => [ReinvestNext]_reinvestVars
  BY DEF ServicesNext, servicesVars, Still, On
<1> QED BY <1>1, <1>2, PTL DEF ServicesSpec, ReinvestSpec

LEMMA FollowsFunding == ServicesSpec => FundingSpec
<1>1. ServicesInit => FundingInit
  BY DEF ServicesInit
<1>2. [ServicesNext]_servicesVars => [FundingNext]_fundingVars
  BY DEF ServicesNext, servicesVars, Still, On
<1> QED BY <1>1, <1>2, PTL DEF ServicesSpec, FundingSpec

LEMMA FollowsProfit == ServicesSpec => ProfitSpec
<1>1. ServicesInit => ProfitInit
  BY DEF ServicesInit
<1>2. [ServicesNext]_servicesVars => [ProfitNext]_profitVars
  BY DEF ServicesNext, servicesVars, Still, On
<1> QED BY <1>1, <1>2, PTL DEF ServicesSpec, ProfitSpec

LEMMA FollowsDays == ServicesSpec => ShotSpec
<1>1. ServicesInit => ShotInit
  BY DEF ServicesInit
<1>2. [ServicesNext]_servicesVars => [ShotNext]_shotVars
  BY DEF ServicesNext, servicesVars, Still, On
<1> QED BY <1>1, <1>2, PTL DEF ServicesSpec, ShotSpec

LEMMA FollowsLedger == ServicesSpec => LedgerSpec
<1>1. ServicesInit => LedgerInit
  BY DEF ServicesInit
<1>2. [ServicesNext]_servicesVars => [LedgerNext]_ledgerVars
  BY DEF ServicesNext, servicesVars, Still, On
<1> QED BY <1>1, <1>2, PTL DEF ServicesSpec, LedgerSpec

LEMMA FollowsCredentials == ServicesSpec => CredSpec
<1>1. ServicesInit => CredInit
  BY DEF ServicesInit
<1>2. [ServicesNext]_servicesVars => [CredNext]_credVars
  BY DEF ServicesNext, servicesVars, Still, On
<1> QED BY <1>1, <1>2, PTL DEF ServicesSpec, CredSpec

LEMMA FollowsSlot == ServicesSpec => SlotSpec
<1>1. ServicesInit => SlotInit
  BY DEF ServicesInit
<1>2. [ServicesNext]_servicesVars => [SlotNext]_slotVars
  BY DEF ServicesNext, servicesVars, Still, On
<1> QED BY <1>1, <1>2, PTL DEF ServicesSpec, SlotSpec

LEMMA FollowsClock == ServicesSpec => ClockSpec
<1>1. ServicesInit => ClockInit
  BY DEF ServicesInit
<1>2. [ServicesNext]_servicesVars => [ClockNext]_clockVars
  BY DEF ServicesNext, servicesVars, Still, On
<1> QED BY <1>1, <1>2, PTL DEF ServicesSpec, ClockSpec

LEMMA FollowsStore == ServicesSpec => StoreSpec
<1>1. ServicesInit => StoreInit
  BY DEF ServicesInit
<1>2. [ServicesNext]_servicesVars => [StoreNext]_storeVars
  BY DEF ServicesNext, servicesVars, Still, On
<1> QED BY <1>1, <1>2, PTL DEF ServicesSpec, StoreSpec

LEMMA FollowsSubs == ServicesSpec => SubSpec
<1>1. ServicesInit => SubInit
  BY DEF ServicesInit
<1>2. [ServicesNext]_servicesVars => [SubNext]_subVars
  BY DEF ServicesNext, servicesVars, Still, On
<1> QED BY <1>1, <1>2, PTL DEF ServicesSpec, SubSpec

LEMMA FollowsPlan == ServicesSpec => PlanSpec
<1>1. ServicesInit => PlanInit
  BY DEF ServicesInit
<1>2. [ServicesNext]_servicesVars => [PlanNext]_planVars
  BY DEF ServicesNext, servicesVars, Still, On
<1> QED BY <1>1, <1>2, PTL DEF ServicesSpec, PlanSpec

LEMMA FollowsBacktest == ServicesSpec => BacktestSpec
<1>1. ServicesInit => BacktestInit
  BY DEF ServicesInit
<1>2. [ServicesNext]_servicesVars => [BacktestNext]_backtestVars
  BY DEF ServicesNext, servicesVars, Still, On
<1> QED BY <1>1, <1>2, PTL DEF ServicesSpec, BacktestSpec

LEMMA FollowsAdvice == ServicesSpec => AdviceSpec
<1>1. ServicesInit => AdviceInit
  BY DEF ServicesInit
<1>2. [ServicesNext]_servicesVars => [AdviceNext]_adviceVars
  BY DEF ServicesNext, servicesVars, Still, On
<1> QED BY <1>1, <1>2, PTL DEF ServicesSpec, AdviceSpec

\* Who is signed in is who has shown it: no old link opens anything, every tab shows
\* the person of its token, and refused tokens are forgotten.
THEOREM SignInsStaySound == ServicesSpec => []SignInsAreSound
<1>1. NoOldLink /\ PageIsOwn /\ RefusedIsForgotten => SignInsAreSound
  BY DEF SignInsAreSound
<1> QED BY <1>1, FollowsAccounts, FollowsSession, OldLinksOpenNothing, SessionsAreSound, PTL

\* What the daemon and the dispatcher tell, for any number of users, round trips,
\* incidents and faults: what is counted as told was told, but for the rows of an
\* owner without a cursor that a page starts behind, nothing is told twice without a
\* fault, and the dispatcher passes nothing over after its seed.
THEOREM NewsIsAlwaysTold == ServicesSpec => []NewsIsTold
<1>1. SavedMeansTold /\ ToldOnce /\ FillsAreSaid /\ AlertsFindOwner => NewsIsTold
  BY DEF NewsIsTold
<1> QED BY <1>1, FollowsNotifier, FollowsDispatch, WhatIsSavedWasTold, NoNewsIsPassedOver, PTL

\* What goes to GRVT and comes from the caches: no mutation is carried out twice, a
\* fetch is shared, the quota holds, no answer is too old.
THEOREM TrafficStaysClean == ServicesSpec => []TrafficIsClean
<1>1. TakenOnce /\ FetchIsShared /\ BurstIsBounded /\ AnswersAreRecent => TrafficIsClean
  BY DEF TrafficIsClean
<1> QED BY <1>1, FollowsTransport, FollowsBucket, FollowsCache, RequestsAreTakenOnce, QuotaHolds,
           CacheIsRecent, PTL

\* What the pages show for money adds up, for any number of bots, fills, days and
\* round trips, and whatever GRVT answers a backfill with.
THEOREM BooksStayTrue == ServicesSpec => []BooksAreTrue
<1>1. /\ DaysAddUp /\ FillsCountOnce /\ FillsAreOwn /\ BackfillReachesBack /\ SummaryIsWhole
      => BooksAreTrue
  BY DEF BooksAreTrue
<1> QED BY <1>1, FollowsDays, FollowsLedger, DaysAlwaysAddUp, LedgerIsTrue, PTL

\* The money a bot counts as its own has an entry that says where it came from:
\* compounds, funding and round trips, each booked once.
THEOREM MoneyStaysBooked == ServicesSpec => []MoneyIsBooked
<1>1. /\ InvestmentIsBooked /\ OnlyProfitIsBooked /\ NoFundingInvented /\ NoPairIsRevised
      => MoneyIsBooked
  BY DEF MoneyIsBooked
<1> QED BY <1>1, FollowsReinvest, FollowsFunding, FollowsProfit, CompoundsAreBooked,
           FundingIsReceived, PairsAreFinal, PTL

\* What a service promises alone holds among the others: a lookup gets the current
\* credentials, a slot has one active bot, a stopped engine runs no job, each row
\* has an owner and a user one default, and no start of the server changes what an
\* original row said.
THEOREM ServicesStayTrue ==
  ServicesSpec => /\ [](CacheIsCurrent /\ OneActivePerSlot /\ QuietWhenStopped
                        /\ EveryRowOwned /\ OneDefault)
                  /\ OriginalIsKept
<1>1. ServicesSpec => [](CacheIsCurrent /\ OneActivePerSlot /\ QuietWhenStopped
                         /\ EveryRowOwned /\ OneDefault)
  BY FollowsCredentials, FollowsSlot, FollowsClock, FollowsStore, FollowsSubs, CacheStaysCurrent,
     SlotHasOneActive, StopLeavesNoJob, RowsHaveOwners, SubsHaveOneDefault, PTL
<1>2. ServicesSpec => OriginalIsKept
  BY FollowsStore, OriginalStays
<1> QED BY <1>1, <1>2

\* The grid that is made is the one that was asked for, with a quantity that differs
\* from the previewed one only by the prices the two are raised at, the grid that is
\* recommended stood its past, and a simulation books each charge once, for all forms, histories
\* and candle paths.
THEOREM PlansStaySound == ServicesSpec => []PlanIsSound
<1>1. /\ LevelsAreSound /\ WindowIsWhole /\ QtyIsSound /\ DerivedClearsFees /\ AverageIsBetween
      /\ GreenIsEarned /\ BestIsFirst /\ CandidatesAreSound /\ BooksBalance
      => PlanIsSound
  BY DEF PlanIsSound
<1> QED BY <1>1, FollowsPlan, FollowsAdvice, FollowsBacktest, GridsAreSound, AdviceIsSound,
           SimulationBalances, PTL

\* The state of every service is well typed, for all values of the constants.
THEOREM ServicesStayTyped == ServicesSpec => []ServicesTypeOK
<1>1. ServicesSpec => [](SlotTypeOK /\ ClockTypeOK /\ SubTypeOK)
  <2>1. SlotInv => SlotTypeOK
    BY DEF SlotInv
  <2>2. ClockInv => ClockTypeOK
    BY DEF ClockInv
  <2>3. SubTypeInv => SubTypeOK
    BY DEF SubTypeInv
  <2>4. SlotSpec => []SlotTypeOK
    BY <2>1, SlotInitial, SlotStep, PTL DEF SlotSpec
  <2>5. ClockSpec => []ClockTypeOK
    BY <2>2, ClockInitial, ClockStep, PTL DEF ClockSpec
  <2>6. SubSpec => []SubTypeOK
    BY <2>3, SubInitial, SubTypeStep, PTL DEF SubSpec
  <2> QED BY <2>4, <2>5, <2>6, FollowsSlot, FollowsClock, FollowsSubs, PTL
<1>2. ServicesSpec => [](NotifierTypeOK /\ DispatchTypeOK /\ TransportTypeOK /\ CacheTypeOK
                         /\ BucketTypeOK /\ CredTypeOK /\ StoreTypeOK)
  BY FollowsNotifier, FollowsDispatch, FollowsTransport, FollowsCache, FollowsBucket,
     FollowsCredentials, FollowsStore, WhatIsSavedWasTold, NoNewsIsPassedOver,
     RequestsAreTakenOnce, CacheIsRecent, QuotaHolds, CacheStaysCurrent, StoreIsTyped, PTL
<1>3. ServicesSpec => [](AccountsTypeOK /\ SessionTypeOK /\ ShotTypeOK /\ LedgerTypeOK)
  BY FollowsAccounts, FollowsSession, FollowsDays, FollowsLedger, OldLinksOpenNothing,
     SessionsAreSound, DaysAlwaysAddUp, LedgerIsTrue, PTL
<1>4. ServicesSpec => [](ReinvestTypeOK /\ FundingTypeOK /\ ProfitTypeOK)
  BY FollowsReinvest, FollowsFunding, FollowsProfit, CompoundsAreBooked, FundingIsReceived,
     PairsAreFinal, PTL
<1>5. ServicesSpec => [](PlanTypeOK /\ BacktestTypeOK /\ AdviceTypeOK)
  BY FollowsPlan, FollowsBacktest, FollowsAdvice, GridsAreSound, SimulationBalances,
     AdviceIsSound, PTL
<1>6. /\ SlotTypeOK /\ ClockTypeOK /\ SubTypeOK
      /\ NotifierTypeOK /\ DispatchTypeOK /\ TransportTypeOK /\ CacheTypeOK
      /\ BucketTypeOK /\ CredTypeOK /\ StoreTypeOK
      /\ AccountsTypeOK /\ SessionTypeOK /\ ShotTypeOK /\ LedgerTypeOK
      /\ ReinvestTypeOK /\ FundingTypeOK /\ ProfitTypeOK
      /\ PlanTypeOK /\ BacktestTypeOK /\ AdviceTypeOK
      => ServicesTypeOK
  BY DEF ServicesTypeOK
<1> QED BY <1>1, <1>2, <1>3, <1>4, <1>5, <1>6, PTL

=============================================================================
