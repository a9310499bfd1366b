--------------------------- MODULE OperationsProofs ---------------------------
(***************************************************************************)
(* Proofs about the components the API serves besides the outbox and the   *)
(* webhook, for any number of requests, clients and connections.  The      *)
(* components share no variables; each theorem is about one of them.       *)
(***************************************************************************)
EXTENDS TenantSetting, RiskPolicy, InstallState, UserContext, RateLimit, TLAPS,
        FiniteSetTheorems, SequenceTheorems, WellFoundedInduction

-------------------------------------------------------------------------------
(* TenantSetting *)

\* Two open transactions have a connection each
ConnectionsAreExclusive ==
    \A s, t \in Sessions : InTransaction(s) /\ s # t => uses_conn[s] # uses_conn[t]

\* A connection in the pool carries no workspace
PooledIsClean == \A c \in Connections : Free(c) => setting[c] = NoSpace

SettingInv ==
    /\ SettingTypeOK /\ PolicySeesTheRequest
    /\ ConnectionsAreExclusive /\ PooledIsClean

\* A transaction that begins finds a clean connection and applies its
\* session's workspace, or leaves it clean if the session has none.
LEMMA BeginSetting ==
    ASSUME SettingInv, NEW s \in Sessions, BeginTransaction(s)
    PROVE  SettingInv'
  <1>1. PICK c \in Connections :
          /\ Free(c)
          /\ uses_conn' = [uses_conn EXCEPT ![s] = c]
          /\ setting' = IF info[s] = NoSpace THEN setting
                        ELSE [setting EXCEPT ![c] = info[s]]
    BY DEF BeginTransaction
  <1>2. info' = info /\ ~InTransaction(s)
    BY DEF BeginTransaction
  <1>3. c # NoConnection /\ setting[c] = NoSpace
    BY <1>1, SettingAssumption DEF SettingInv, PooledIsClean
  <1>4. SettingTypeOK'
    BY <1>1, <1>2 DEF SettingInv, SettingTypeOK
  <1>5. setting'[c] = info[s]
    BY <1>1, <1>3 DEF SettingInv, SettingTypeOK
  <1>6. \A d \in Connections : d # c => setting'[d] = setting[d]
    BY <1>1 DEF SettingInv, SettingTypeOK
  <1>7. /\ uses_conn'[s] = c
        /\ \A t \in Sessions : t # s => uses_conn'[t] = uses_conn[t]
    BY <1>1 DEF SettingInv, SettingTypeOK
  <1>8. PolicySeesTheRequest'
    <2> SUFFICES ASSUME NEW t \in Sessions, uses_conn'[t] # NoConnection
                 PROVE  setting'[uses_conn'[t]] = info[t]
      BY <1>2 DEF PolicySeesTheRequest, InTransaction
    <2>1. CASE t = s
      BY <2>1, <1>5, <1>7
    <2>2. CASE t # s
      <3>1. uses_conn[t] \in Connections \ {c} /\ uses_conn'[t] = uses_conn[t]
        BY <2>2, <1>1, <1>7 DEF SettingInv, SettingTypeOK, Free
      <3>2. setting[uses_conn[t]] = info[t]
        BY <3>1 DEF SettingInv, PolicySeesTheRequest, InTransaction
      <3> QED
        BY <3>1, <3>2, <1>6
    <2> QED
      BY <2>1, <2>2
  <1>9. ConnectionsAreExclusive'
    BY <1>1, <1>3, <1>7 DEF SettingInv, ConnectionsAreExclusive, InTransaction, Free
  <1>10. PooledIsClean'
    BY <1>1, <1>6, <1>7, <1>2, SettingAssumption
    DEF SettingInv, PooledIsClean, Free, InTransaction
  <1> QED
    BY <1>4, <1>8, <1>9, <1>10 DEF SettingInv

\* set_tenant_context changes the setting of its own connection only.
LEMMA SetSetting ==
    ASSUME SettingInv, NEW s \in Sessions, SetTenantContext(s)
    PROVE  SettingInv'
  <1>1. PICK w \in Spaces :
          /\ info' = [info EXCEPT ![s] = w]
          /\ setting' = IF InTransaction(s)
                          THEN [setting EXCEPT ![uses_conn[s]] = w]
                          ELSE setting
    BY DEF SetTenantContext
  <1>2. uses_conn' = uses_conn
    BY DEF SetTenantContext
  <1>3. InTransaction(s) => uses_conn[s] \in Connections
    BY DEF SettingInv, SettingTypeOK, InTransaction
  <1>4. SettingTypeOK'
    BY <1>1, <1>2, <1>3 DEF SettingInv, SettingTypeOK
  <1>5. PolicySeesTheRequest'
    BY <1>1, <1>2, <1>3
    DEF SettingInv, SettingTypeOK, PolicySeesTheRequest, InTransaction,
        ConnectionsAreExclusive
  <1>6. ConnectionsAreExclusive'
    BY <1>2 DEF SettingInv, ConnectionsAreExclusive, InTransaction
  <1>7. PooledIsClean'
    BY <1>1, <1>2, <1>3 DEF SettingInv, SettingTypeOK, PooledIsClean, Free
  <1> QED
    BY <1>4, <1>5, <1>6, <1>7 DEF SettingInv

\* A connection goes back to the pool without the setting.
LEMMA EndSetting ==
    ASSUME SettingInv, NEW s \in Sessions, EndTransaction(s)
    PROVE  SettingInv'
  <1>1. /\ InTransaction(s) /\ info' = info
        /\ setting' = [setting EXCEPT ![uses_conn[s]] = NoSpace]
        /\ uses_conn' = [uses_conn EXCEPT ![s] = NoConnection]
    BY DEF EndTransaction, AtEnd
  <1>2. uses_conn[s] \in Connections
    BY <1>1 DEF SettingInv, SettingTypeOK, InTransaction
  <1>3. SettingTypeOK'
    BY <1>1, <1>2 DEF SettingInv, SettingTypeOK
  <1>4. PolicySeesTheRequest'
    BY <1>1, <1>2
    DEF SettingInv, SettingTypeOK, PolicySeesTheRequest, InTransaction,
        ConnectionsAreExclusive
  <1>5. ConnectionsAreExclusive'
    BY <1>1 DEF SettingInv, SettingTypeOK, ConnectionsAreExclusive, InTransaction
  <1>6. PooledIsClean'
    BY <1>1, <1>2 DEF SettingInv, SettingTypeOK, PooledIsClean, Free
  <1> QED
    BY <1>3, <1>4, <1>5, <1>6 DEF SettingInv

\* Every step of the sessions keeps the invariant.
LEMMA SettingStep == SettingInv /\ [SettingNext]_settingVars => SettingInv'
  <1> SUFFICES ASSUME SettingInv, [SettingNext]_settingVars PROVE SettingInv'
    OBVIOUS
  <1>1. ASSUME NEW s \in Sessions, CloseSession(s) PROVE SettingInv'
    BY <1>1
    DEF CloseSession, SettingInv, SettingTypeOK, PolicySeesTheRequest,
        InTransaction, ConnectionsAreExclusive, PooledIsClean, Free
  <1>2. CASE UNCHANGED settingVars
    BY <1>2
    DEF settingVars, SettingInv, SettingTypeOK, PolicySeesTheRequest,
        InTransaction, ConnectionsAreExclusive, PooledIsClean, Free
  <1> QED
    BY <1>1, <1>2, BeginSetting, SetSetting, EndSetting DEF SettingNext

\* Before the first transaction no connection has a workspace.
LEMMA SettingBegins == SettingInit => SettingInv
  BY SettingAssumption
  DEF SettingInit, SettingInv, SettingTypeOK, PolicySeesTheRequest,
      InTransaction, ConnectionsAreExclusive, PooledIsClean

\* rls.py: the workspace the policies of PostgreSQL see is the one of the
\* request whose transaction it is, for any number of requests and any pool.
THEOREM PolicyAlwaysSeesTheRequest ==
    SettingSpec => [](SettingTypeOK /\ PolicySeesTheRequest)
  <1>1. SettingInv => SettingTypeOK /\ PolicySeesTheRequest
    BY DEF SettingInv
  <1> QED
    BY SettingBegins, <1>1, SettingStep, PTL DEF SettingSpec
-------------------------------------------------------------------------------
(* RiskPolicy *)

\* The version of the row counts the updates; none precedes the row
VersionCounts ==
    /\ accepted = <<>> => policyVersion \in {0, 1}
    /\ accepted # <<>> => policyVersion = Len(accepted) + 1

\* A flushed INSERT stands for a row that nobody else sees yet
InsertIsAlone ==
    inserting \in PolicyClients =>
        policyVersion = 0 /\ policyReq[inserting] = [step |-> "put", copy |-> 1]

\* A request past the version check was composed on the version it read, which
\* is committed unless it is its own
PutsFollow ==
    \A c \in PolicyClients :
        /\ policyReq[c].step \in {"put", "putInsert"} => shown[c] < MaxPolicyVersion
        /\ policyReq[c].step = "put" =>
             /\ shown[c] = policyReq[c].copy
             /\ inserting = c \/ policyVersion >= 1

PolicyInv ==
    /\ PolicyTypeOK /\ UpdatesFollowWhatWasShown
    /\ VersionCounts /\ InsertIsAlone /\ PutsFollow

\* A well-typed request from its parts.
LEMMA GoesTyped ==
    ASSUME PolicyInv, NEW c \in PolicyClients,
           NEW step \in {"idle", "getInsert", "putInsert", "put"},
           NEW copy \in 0..MaxPolicyVersion, Goes(c, step, copy)
    PROVE  /\ policyReq' \in [PolicyClients -> PolicyRequest]
           /\ policyReq'[c] = [step |-> step, copy |-> copy]
           /\ \A d \in PolicyClients : d # c => policyReq'[d] = policyReq[d]
  BY DEF PolicyInv, PolicyTypeOK, Goes, PolicyRequest

\* Reading the policy shows its version; creating it changes no update.
LEMMA GetsKeep ==
    ASSUME PolicyInv, NEW c \in PolicyClients, GetPolicy(c) \/ GetInsert(c)
    PROVE  PolicyInv'
  <1>1. CASE GetPolicy(c) /\ policyVersion > 0
    <2>1. /\ shown' = [shown EXCEPT ![c] = policyVersion]
          /\ UNCHANGED <<policyReq, policyVersion, inserting, accepted>>
      BY <1>1 DEF GetPolicy, PolicyInv, PolicyTypeOK
    <2>2. policyReq[c].step = "idle"
      BY <1>1 DEF GetPolicy, NoRequest
    <2>3. PolicyTypeOK'
      BY <2>1, <1>1, PolicyAssumption DEF PolicyInv, PolicyTypeOK
    <2>4. PutsFollow'
      BY <2>1, <2>2 DEF PolicyInv, PolicyTypeOK, PutsFollow
    <2> QED
      BY <2>1, <2>3, <2>4
      DEF PolicyInv, VersionCounts, InsertIsAlone, UpdatesFollowWhatWasShown
  <1>2. CASE GetPolicy(c) /\ ~(policyVersion > 0)
    <2>1. /\ Goes(c, "getInsert", 0) /\ policyVersion = 0
          /\ UNCHANGED <<shown, policyVersion, inserting, accepted>>
      BY <1>2 DEF GetPolicy, PolicyInv, PolicyTypeOK
    <2>2. policyReq[c].step = "idle"
      BY <1>2 DEF GetPolicy, NoRequest
    <2>3. /\ policyReq' \in [PolicyClients -> PolicyRequest]
          /\ policyReq'[c] = [step |-> "getInsert", copy |-> 0]
          /\ \A d \in PolicyClients : d # c => policyReq'[d] = policyReq[d]
      BY <2>1, GoesTyped, PolicyAssumption
    <2>4. PutsFollow'
      BY <2>1, <2>3 DEF PolicyInv, PutsFollow
    <2>5. inserting # c
      BY <2>2 DEF PolicyInv, InsertIsAlone
    <2>6. InsertIsAlone'
      BY <2>1, <2>3, <2>5 DEF PolicyInv, InsertIsAlone
    <2> QED
      BY <2>1, <2>3, <2>4, <2>6
      DEF PolicyInv, PolicyTypeOK, VersionCounts, UpdatesFollowWhatWasShown
  <1>3. CASE GetInsert(c)
    <2>1. /\ policyReq[c].step = "getInsert" /\ inserting = NoClient
          /\ policyVersion' = IF policyVersion = 0 THEN 1 ELSE policyVersion
          /\ shown' = [shown EXCEPT ![c] = policyVersion']
          /\ Goes(c, "idle", 0) /\ UNCHANGED <<inserting, accepted>>
      BY <1>3 DEF GetInsert, Done
    <2>2. /\ policyReq' \in [PolicyClients -> PolicyRequest]
          /\ policyReq'[c] = [step |-> "idle", copy |-> 0]
          /\ \A d \in PolicyClients : d # c => policyReq'[d] = policyReq[d]
      BY <2>1, GoesTyped, PolicyAssumption
    <2>3. 1 \in 0..MaxPolicyVersion
      BY PolicyAssumption DEF PolicyInv, PolicyTypeOK
    <2>4. policyVersion' \in 1..MaxPolicyVersion /\ policyVersion' >= policyVersion
      BY <2>1, <2>3, PolicyAssumption DEF PolicyInv, PolicyTypeOK
    <2>5. PolicyTypeOK'
      <3>1. shown' \in [PolicyClients -> 1..MaxPolicyVersion]
        BY <2>1, <2>4 DEF PolicyInv, PolicyTypeOK
      <3>2. policyVersion' \in 0..MaxPolicyVersion
        BY <2>4, PolicyAssumption
      <3> QED
        BY <2>1, <2>2, <3>1, <3>2 DEF PolicyInv, PolicyTypeOK
    <2>6. PutsFollow' /\ InsertIsAlone'
      BY <2>1, <2>2, <2>4, PolicyAssumption
      DEF PolicyInv, PolicyTypeOK, PutsFollow, InsertIsAlone
    <2>7. VersionCounts' /\ UpdatesFollowWhatWasShown'
      BY <2>1 DEF PolicyInv, PolicyTypeOK, VersionCounts, UpdatesFollowWhatWasShown
    <2> QED
      BY <2>5, <2>6, <2>7 DEF PolicyInv
  <1> QED
    BY <1>1, <1>2, <1>3

\* An update passes the version check only with the version it was shown.
LEMMA PutsKeep ==
    ASSUME PolicyInv, NEW c \in PolicyClients, PutPolicy(c) \/ PutInsert(c)
    PROVE  PolicyInv'
  <1>1. PICK step \in {"idle", "putInsert", "put"}, copy \in 0..MaxPolicyVersion :
          /\ Goes(c, step, copy)
          /\ UNCHANGED <<policyVersion, shown, accepted>>
          /\ step \in {"putInsert", "put"} => shown[c] < MaxPolicyVersion
          /\ step = "put" => copy = shown[c]
          /\ \/ inserting' = inserting /\ (step = "put" => policyVersion >= 1)
             \/ /\ inserting' = c /\ inserting = NoClient /\ policyVersion = 0
                /\ step = "put" /\ copy = 1
    <2>1. CASE PutPolicy(c) /\ policyVersion = 0
      <3>1. Goes(c, "putInsert", 0)
        BY <2>1 DEF PutPolicy
      <3> QED
        BY <2>1, <3>1, PolicyAssumption DEF PutPolicy
    <2>2. CASE PutPolicy(c) /\ policyVersion # 0
      <3>1. Goes(c, "put", policyVersion) /\ policyVersion = shown[c] /\ policyVersion >= 1
        BY <2>2 DEF PutPolicy, Follows, PolicyInv, PolicyTypeOK
      <3> QED
        BY <2>2, <3>1 DEF PutPolicy, PolicyInv, PolicyTypeOK
    <2>3. CASE PutInsert(c) /\ inserting' = c
      <3>1. /\ Goes(c, "put", 1) /\ shown[c] = 1 /\ inserting = NoClient
            /\ policyVersion = 0 /\ shown[c] < MaxPolicyVersion
        BY <2>3, PolicyAssumption DEF PutInsert, Follows, PolicyInv, PutsFollow
      <3>2. 1 \in 0..MaxPolicyVersion
        BY <3>1, PolicyAssumption
      <3> QED
        BY <2>3, <3>1, <3>2 DEF PutInsert
    <2>4. CASE PutInsert(c) /\ inserting' # c
      <3>1. Goes(c, "idle", 0) /\ inserting' = inserting
        BY <2>4 DEF PutInsert, Done
      <3> QED
        BY <2>4, <3>1, PolicyAssumption DEF PutInsert
    <2> QED
      BY <2>1, <2>2, <2>3, <2>4
  <1>2. /\ policyReq' \in [PolicyClients -> PolicyRequest]
        /\ policyReq'[c] = [step |-> step, copy |-> copy]
        /\ \A d \in PolicyClients : d # c => policyReq'[d] = policyReq[d]
    BY <1>1, GoesTyped
  <1>3. policyReq[c].step # "put"
    BY DEF PutPolicy, PutInsert, NoRequest
  <1>4. inserting # c
    BY <1>3 DEF PolicyInv, InsertIsAlone
  <1>5. PolicyTypeOK'
    BY <1>1, <1>2 DEF PolicyInv, PolicyTypeOK
  <1>6. InsertIsAlone'
    BY <1>1, <1>2, <1>4 DEF PolicyInv, InsertIsAlone
  <1>7. PutsFollow'
    BY <1>1, <1>2, <1>4, PolicyAssumption DEF PolicyInv, PolicyTypeOK, PutsFollow
  <1>8. VersionCounts' /\ UpdatesFollowWhatWasShown'
    BY <1>1 DEF PolicyInv, VersionCounts, UpdatesFollowWhatWasShown
  <1> QED
    BY <1>5, <1>6, <1>7, <1>8 DEF PolicyInv

\* The request ends and gives up its flushed INSERT; the version is as before
\* or, after an INSERT or an UPDATE, at least 1.
LEMMA EndsKeep ==
    ASSUME PolicyInv, NEW c \in PolicyClients, Done(c), Release(c),
           policyVersion' = policyVersion \/ policyVersion' >= 1,
           inserting \in {c, NoClient} \/ policyVersion' = policyVersion,
           \A d \in PolicyClients : d # c => shown'[d] = shown[d]
    PROVE  InsertIsAlone' /\ PutsFollow' /\ policyReq' \in [PolicyClients -> PolicyRequest]
  <1>1. /\ policyReq' \in [PolicyClients -> PolicyRequest]
        /\ policyReq'[c] = [step |-> "idle", copy |-> 0]
        /\ \A d \in PolicyClients : d # c => policyReq'[d] = policyReq[d]
    BY GoesTyped, PolicyAssumption DEF Done
  <1>2. inserting' = IF inserting = c THEN NoClient ELSE inserting
    BY DEF Release
  <1>3. InsertIsAlone'
    BY <1>1, <1>2, PolicyAssumption DEF PolicyInv, InsertIsAlone
  <1>4. PutsFollow'
    <2> SUFFICES ASSUME NEW d \in PolicyClients, d # c
                 PROVE  /\ policyReq[d].step \in {"put", "putInsert"} =>
                              shown[d] < MaxPolicyVersion
                        /\ policyReq[d].step = "put" =>
                              /\ shown[d] = policyReq[d].copy
                              /\ inserting' = d \/ policyVersion' >= 1
      BY <1>1 DEF PutsFollow
    <2> QED
      BY <1>2 DEF PolicyInv, PutsFollow
  <1> QED
    BY <1>1, <1>3, <1>4

\* The UPDATE finds the version it was composed on, or nothing is written.
LEMMA CommitKeeps ==
    ASSUME PolicyInv, NEW c \in PolicyClients, PutCommit(c)
    PROVE  PolicyInv'
  <1>1. Done(c) /\ Release(c) /\ inserting \in {c, NoClient} /\ policyReq[c].step = "put"
    BY DEF PutCommit
  <1>2. inserting' \in PolicyClients \cup {NoClient}
    BY <1>1 DEF Release, PolicyInv, PolicyTypeOK
  <1>3. shown[c] = policyReq[c].copy /\ shown[c] < MaxPolicyVersion /\ shown[c] \in 1..MaxPolicyVersion
    BY <1>1 DEF PolicyInv, PutsFollow, PolicyTypeOK
  <1>4. CASE Unchanged(c)
    <2>1. /\ policyVersion' = shown[c] + 1
          /\ accepted' = Append(accepted, [by |-> c, base |-> shown[c]])
          /\ shown' = [shown EXCEPT ![c] = shown[c] + 1]
      BY <1>4 DEF PutCommit
    <2>2. shown[c] = Len(accepted) + 1
      <3>1. CASE inserting = c
        <4>1. shown[c] = 1 /\ policyVersion = 0
          BY <3>1, <1>3 DEF PolicyInv, InsertIsAlone
        <4>2. accepted = <<>>
          BY <4>1 DEF PolicyInv, PolicyTypeOK, VersionCounts
        <4> QED
          BY <4>1, <4>2
      <3>2. CASE inserting # c
        <4>1. policyVersion = shown[c]
          BY <3>2, <1>3, <1>4 DEF Unchanged
        <4> QED
          BY <4>1, <1>3 DEF PolicyInv, PolicyTypeOK, VersionCounts
      <3> QED
        BY <3>1, <3>2
    <2>3. shown[c] + 1 \in 1..MaxPolicyVersion
      BY <1>3, PolicyAssumption
    <2>4. [by |-> c, base |-> shown[c]] \in Update
      BY <1>3 DEF Update
    <2>5. accepted \in Seq(Update)
      BY DEF PolicyInv, PolicyTypeOK
    <2>6. /\ accepted' \in Seq(Update) /\ Len(accepted') = Len(accepted) + 1
          /\ accepted' # <<>>
          /\ \A i \in 1..Len(accepted) : accepted'[i] = accepted[i]
          /\ accepted'[Len(accepted) + 1].base = shown[c]
      BY <2>1, <2>4, <2>5
    <2>7. InsertIsAlone' /\ PutsFollow' /\ policyReq' \in [PolicyClients -> PolicyRequest]
      <3>1. policyVersion' >= 1
        BY <2>1, <2>3
      <3>2. \A d \in PolicyClients : d # c => shown'[d] = shown[d]
        BY <2>1 DEF PolicyInv, PolicyTypeOK
      <3> QED
        BY <3>1, <3>2, <1>1, EndsKeep
    <2>8. PolicyTypeOK'
      <3>1. shown' \in [PolicyClients -> 1..MaxPolicyVersion]
        BY <2>1, <2>3 DEF PolicyInv, PolicyTypeOK
      <3>2. policyVersion' \in 0..MaxPolicyVersion
        BY <2>1, <2>3, PolicyAssumption
      <3> QED
        BY <2>6, <2>7, <1>2, <3>1, <3>2 DEF PolicyTypeOK
    <2>9. VersionCounts'
      BY <2>1, <2>2, <2>6 DEF VersionCounts
    <2>10. UpdatesFollowWhatWasShown'
      <3>1. \A i \in 1..Len(accepted') : accepted'[i].base = i
        <4> SUFFICES ASSUME NEW i \in 1..Len(accepted') PROVE accepted'[i].base = i
          OBVIOUS
        <4>1. Len(accepted) \in Nat
          BY <2>5
        <4>2. i \in 1..Len(accepted) \/ i = Len(accepted) + 1
          BY <2>6, <4>1
        <4> QED
          BY <4>2, <2>2, <2>6 DEF PolicyInv, UpdatesFollowWhatWasShown
      <3> QED
        BY <3>1, <2>9 DEF VersionCounts, UpdatesFollowWhatWasShown
    <2> QED
      BY <2>7, <2>8, <2>9, <2>10 DEF PolicyInv
  <1>5. CASE ~Unchanged(c)
    <2>1. UNCHANGED <<policyVersion, accepted, shown>>
      BY <1>5 DEF PutCommit
    <2>2. InsertIsAlone' /\ PutsFollow' /\ policyReq' \in [PolicyClients -> PolicyRequest]
      BY <2>1, <1>1, EndsKeep
    <2> QED
      BY <2>1, <2>2, <1>2
      DEF PolicyInv, PolicyTypeOK, VersionCounts, UpdatesFollowWhatWasShown
  <1> QED
    BY <1>4, <1>5

\* Every step of the clients keeps the invariant.
LEMMA PolicyStep == PolicyInv /\ [PolicyNext]_policyVars => PolicyInv'
  <1> SUFFICES ASSUME PolicyInv, [PolicyNext]_policyVars PROVE PolicyInv'
    OBVIOUS
  <1>1. ASSUME NEW c \in PolicyClients, PolicyStops(c) PROVE PolicyInv'
    <2>1. Done(c) /\ Release(c) /\ UNCHANGED <<policyVersion, shown, accepted>>
      BY <1>1 DEF PolicyStops
    <2>2. InsertIsAlone' /\ PutsFollow' /\ policyReq' \in [PolicyClients -> PolicyRequest]
      BY <2>1, EndsKeep
    <2>3. inserting' \in PolicyClients \cup {NoClient}
      BY <2>1 DEF Release, PolicyInv, PolicyTypeOK
    <2> QED
      BY <2>1, <2>2, <2>3
      DEF PolicyInv, PolicyTypeOK, VersionCounts, UpdatesFollowWhatWasShown
  <1>2. CASE UNCHANGED policyVars
    BY <1>2
    DEF policyVars, PolicyInv, PolicyTypeOK, VersionCounts, InsertIsAlone,
        PutsFollow, UpdatesFollowWhatWasShown
  <1> QED
    BY <1>1, <1>2, GetsKeep, PutsKeep, CommitKeeps DEF PolicyNext

\* At first there is no policy and no request.
LEMMA PolicyBegins == PolicyInit => PolicyInv
  <1> SUFFICES ASSUME PolicyInit PROVE PolicyInv
    OBVIOUS
  <1>1. PolicyTypeOK
    BY PolicyAssumption DEF PolicyInit, PolicyTypeOK, PolicyRequest, NoRequest
  <1> QED
    BY <1>1, PolicyAssumption
    DEF PolicyInit, PolicyInv, UpdatesFollowWhatWasShown, VersionCounts,
        InsertIsAlone, PutsFollow, NoRequest

\* update_risk_policy: the i-th accepted update was composed on version i and
\* the version counts them, for any number of clients and versions.
THEOREM NoUpdateIsOverwrittenUnseen ==
    PolicySpec => [](PolicyTypeOK /\ UpdatesFollowWhatWasShown)
  <1>1. PolicyInv => PolicyTypeOK /\ UpdatesFollowWhatWasShown
    BY DEF PolicyInv
  <1> QED
    BY PolicyBegins, <1>1, PolicyStep, PTL DEF PolicySpec
-------------------------------------------------------------------------------
(* InstallState *)

InstallCallback ==
    {Waiting} \cup [step : {"asked", "insert", "update"}, state : States,
                    installation : Installations]

\* What a callback that is not waiting holds
Holds(c, s) == callback[c].step # "idle" /\ callback[c].state = s

\* A state that was used is spent; a spent state that is still held, and one
\* that two callbacks hold, is shared
UsesAreCovered ==
    /\ \A s \in States : uses[s] > 0 => s \in spent
    /\ \A s \in States, c \in Callbacks : s \in spent /\ Holds(c, s) => s \in shared
    /\ \A s \in States, c, d \in Callbacks :
         c # d /\ Holds(c, s) /\ Holds(d, s) => s \in shared

InstallInv ==
    /\ issued \in [States -> Tenants \cup {NotLinked}]
    /\ {spent, expired, shared} \subseteq SUBSET States
    /\ linked \in [Tenants -> Installations \cup {NotLinked}]
    /\ callback \in [Callbacks -> InstallCallback]
    /\ uses \in [States -> Nat]
    /\ InstallationHasOneWorkspace /\ StateIsUsedOnceUnlessShared
    /\ UsesAreCovered

\* A callback takes a state nobody has used, and marks it if another holds it.
LEMMA ReadStateKeeps ==
    ASSUME InstallInv, NEW c \in Callbacks, ReadState(c)
    PROVE  InstallInv'
  <1>1. PICK s \in States, i \in Installations :
          /\ issued[s] # NotLinked /\ s \notin spent \cup expired
          /\ callback' = [callback EXCEPT ![c] =
                            [step |-> "asked", state |-> s, installation |-> i]]
          /\ shared' = shared \cup
               {t \in {s} : \E d \in Callbacks : callback[d].state = t}
    BY DEF ReadState
  <1>2. UNCHANGED <<issued, spent, expired, linked, uses>>
    BY DEF ReadState
  <1>3. callback' \in [Callbacks -> InstallCallback]
    BY <1>1 DEF InstallInv, InstallCallback
  <1>4. shared \subseteq shared' /\ shared' \subseteq States
    BY <1>1 DEF InstallInv
  <1>5. \A d \in Callbacks : d # c /\ callback[d].state = s => s \in shared'
    BY <1>1
  <1>6. /\ callback'[c].state = s
        /\ \A d \in Callbacks : d # c => callback'[d] = callback[d]
    BY <1>1 DEF InstallInv
  <1>7. UsesAreCovered'
    <2>1. \A t \in States : uses'[t] > 0 => t \in spent'
      BY <1>2 DEF InstallInv, UsesAreCovered
    <2>2. ASSUME NEW t \in States, NEW d \in Callbacks, t \in spent', Holds(d, t)'
          PROVE  t \in shared'
      <3>1. d # c
        BY <2>2, <1>1, <1>2, <1>6 DEF Holds
      <3> QED
        BY <3>1, <2>2, <1>2, <1>4, <1>6 DEF InstallInv, UsesAreCovered, Holds
    <2>3. ASSUME NEW t \in States, NEW d \in Callbacks, NEW e \in Callbacks,
                 d # e, Holds(d, t)', Holds(e, t)'
          PROVE  t \in shared'
      <3>1. CASE d = c
        BY <3>1, <2>3, <1>5, <1>6 DEF Holds
      <3>2. CASE e = c
        BY <3>2, <2>3, <1>5, <1>6 DEF Holds
      <3>3. CASE d # c /\ e # c
        BY <3>3, <2>3, <1>4, <1>6 DEF InstallInv, UsesAreCovered, Holds
      <3> QED
        BY <3>1, <3>2, <3>3
    <2> QED
      BY <2>1, <2>2, <2>3 DEF UsesAreCovered
  <1>8. InstallationHasOneWorkspace' /\ StateIsUsedOnceUnlessShared'
    BY <1>2, <1>4
    DEF InstallInv, InstallationHasOneWorkspace, StateIsUsedOnceUnlessShared
  <1> QED
    BY <1>2, <1>3, <1>4, <1>7, <1>8 DEF InstallInv

\* A callback that goes on holds what it held, one that ends holds nothing.
LEMMA MovesKeep ==
    ASSUME InstallInv, NEW c \in Callbacks, NEW b \in InstallCallback,
           callback' = [callback EXCEPT ![c] = b],
           b = Waiting \/ (callback[c].step # "idle" /\ b.state = callback[c].state),
           UNCHANGED <<issued, spent, expired, linked, uses, shared>>
    PROVE  InstallInv'
  <1>1. callback' \in [Callbacks -> InstallCallback]
    BY DEF InstallInv
  <1>2. ASSUME NEW d \in Callbacks, NEW s \in States, Holds(d, s)'
        PROVE  Holds(d, s)
    <2>1. CASE d = c
      <3>1. callback'[c] = b
        BY DEF InstallInv
      <3>2. b # Waiting
        BY <3>1, <2>1, <1>2 DEF Holds, Waiting
      <3> QED
        BY <3>1, <3>2, <2>1, <1>2 DEF Holds
    <2>2. CASE d # c
      BY <2>2, <1>2 DEF InstallInv, Holds
    <2> QED
      BY <2>1, <2>2
  <1>3. UsesAreCovered'
    BY <1>2 DEF InstallInv, UsesAreCovered
  <1> QED
    BY <1>1, <1>3
    DEF InstallInv, InstallationHasOneWorkspace, StateIsUsedOnceUnlessShared

\* GitHub's answer moves the callback on or ends it.
LEMMA ReadConnectionKeeps ==
    ASSUME InstallInv, NEW c \in Callbacks, ReadConnection(c)
    PROVE  InstallInv'
  <1> DEFINE b == callback[c]
  <1>1. b \in [step : {"asked", "insert", "update"}, state : States,
               installation : Installations]
    BY DEF ReadConnection, InstallInv, InstallCallback, Waiting
  <1>2. PICK n \in {Waiting, [b EXCEPT !.step = "insert"], [b EXCEPT !.step = "update"]} :
          callback' = [callback EXCEPT ![c] = n]
    BY DEF ReadConnection
  <1>3. n \in InstallCallback /\ (n = Waiting \/ n.state = b.state) /\ b.step # "idle"
    BY <1>1, <1>2 DEF InstallCallback
  <1>4. UNCHANGED <<issued, spent, expired, linked, uses, shared>>
    BY DEF ReadConnection
  <1> QED
    BY <1>2, <1>3, <1>4, MovesKeep

\* A commit links an installation that no other workspace holds, and uses a
\* state that is unused or shared.
LEMMA CommitInstallKeeps ==
    ASSUME InstallInv, NEW c \in Callbacks, CommitInstall(c)
    PROVE  InstallInv'
  <1> DEFINE b == callback[c]
             w == issued[b.state]
  <1>1. b \in [step : {"insert", "update"}, state : States, installation : Installations]
    BY DEF CommitInstall, InstallInv, InstallCallback, Waiting
  <1>2. callback' = [callback EXCEPT ![c] = Waiting] /\ UNCHANGED <<issued, expired, shared>>
    BY DEF CommitInstall
  <1>3. CASE BreaksKey(b.step, b.installation, w)
    <2>1. UNCHANGED <<linked, spent, uses>>
      BY <1>3 DEF CommitInstall
    <2>2. Waiting \in InstallCallback
      BY DEF InstallCallback
    <2> QED
      BY <1>2, <2>1, <2>2, MovesKeep
  <1>4. CASE ~BreaksKey(b.step, b.installation, w)
    <2>1. /\ linked' = [linked EXCEPT ![w] = b.installation]
          /\ spent' = spent \cup {b.state}
          /\ uses' = [uses EXCEPT ![b.state] = uses[b.state] + 1]
      BY <1>4 DEF CommitInstall, Consumed
    <2>2. uses[b.state] \in Nat /\ b.state \in States
      BY <1>1 DEF InstallInv
    <2>3. /\ uses' \in [States -> Nat] /\ uses'[b.state] = uses[b.state] + 1
          /\ \A s \in States : s # b.state => uses'[s] = uses[s]
      BY <2>1, <2>2 DEF InstallInv
    <2>4. /\ linked' \in [Tenants -> Installations \cup {NotLinked}]
          /\ callback' \in [Callbacks -> InstallCallback]
          /\ spent' \subseteq States
      BY <2>1, <2>2, <1>1, <1>2 DEF InstallInv, InstallCallback
    <2>5. InstallationHasOneWorkspace'
      BY <2>1, <1>4
      DEF InstallInv, InstallationHasOneWorkspace, BreaksKey, Elsewhere
    <2>6. Holds(c, b.state)
      BY <1>1 DEF Holds
    <2>7. StateIsUsedOnceUnlessShared'
      <3>1. uses[b.state] > 0 => b.state \in shared
        BY <2>2, <2>6 DEF InstallInv, UsesAreCovered
      <3>2. uses'[b.state] > 1 => b.state \in shared'
        BY <3>1, <2>2, <2>3, <1>2
      <3> QED
        BY <3>2, <2>3, <1>2 DEF InstallInv, StateIsUsedOnceUnlessShared
    <2>8. \A d \in Callbacks, s \in States : Holds(d, s)' => d # c /\ Holds(d, s)
      BY <1>2 DEF InstallInv, Holds, Waiting
    <2>9. UsesAreCovered'
      <3>1. \A s \in States : uses'[s] > 0 => s \in spent'
        BY <2>1, <2>3 DEF InstallInv, UsesAreCovered
      <3>2. ASSUME NEW s \in States, NEW d \in Callbacks, s \in spent', Holds(d, s)'
            PROVE  s \in shared'
        <4>1. d # c /\ Holds(d, s) /\ shared' = shared
          BY <3>2, <2>8, <1>2
        <4>2. CASE s = b.state
          BY <4>1, <4>2, <2>6 DEF InstallInv, UsesAreCovered
        <4>3. CASE s # b.state
          BY <4>1, <4>3, <3>2, <2>1 DEF InstallInv, UsesAreCovered
        <4> QED
          BY <4>2, <4>3
      <3>3. \A s \in States, d, e \in Callbacks :
              d # e /\ Holds(d, s)' /\ Holds(e, s)' => s \in shared'
        BY <2>8, <1>2 DEF InstallInv, UsesAreCovered
      <3> QED
        BY <3>1, <3>2, <3>3 DEF UsesAreCovered
    <2> QED
      BY <1>2, <2>3, <2>4, <2>5, <2>7, <2>9 DEF InstallInv
  <1> QED
    BY <1>3, <1>4

\* Every step of GitHub, the browsers and the clock keeps the invariant.
LEMMA InstallStep == InstallInv /\ [InstallNext]_installVars => InstallInv'
  <1> SUFFICES ASSUME InstallInv, [InstallNext]_installVars PROVE InstallInv'
    OBVIOUS
  <1>1. ASSUME NEW w \in Tenants, BeginInstall(w) PROVE InstallInv'
    <2>1. UNCHANGED <<spent, expired, linked, callback, uses, shared>>
      BY <1>1 DEF BeginInstall
    <2>2. issued' \in [States -> Tenants \cup {NotLinked}]
      BY <1>1 DEF BeginInstall, InstallInv
    <2> QED
      BY <2>1, <2>2
      DEF InstallInv, InstallationHasOneWorkspace, StateIsUsedOnceUnlessShared,
          UsesAreCovered, Holds
  <1>2. ASSUME NEW s \in States, Expire(s) PROVE InstallInv'
    BY <1>2
    DEF Expire, InstallInv, InstallationHasOneWorkspace,
        StateIsUsedOnceUnlessShared, UsesAreCovered, Holds
  <1>3. ASSUME NEW c \in Callbacks, DropCallback(c) PROVE InstallInv'
    <2>1. Waiting \in InstallCallback
      BY DEF InstallCallback
    <2> QED
      BY <1>3, <2>1, MovesKeep DEF DropCallback
  <1>4. CASE UNCHANGED installVars
    BY <1>4
    DEF installVars, InstallInv, InstallationHasOneWorkspace,
        StateIsUsedOnceUnlessShared, UsesAreCovered, Holds
  <1> QED
    BY <1>1, <1>2, <1>3, <1>4, ReadStateKeeps, ReadConnectionKeeps,
       CommitInstallKeeps
    DEF InstallNext

\* Before the first callback nothing is linked, used or held.
LEMMA InstallBegins == InstallInit => InstallInv
  BY
  DEF InstallInit, InstallInv, InstallCallback, Waiting, UsesAreCovered, Holds,
      InstallationHasOneWorkspace, StateIsUsedOnceUnlessShared

\* complete_github_installation: whichever callbacks race, an installation is
\* linked to one workspace, and a state that was used twice was held by two
\* callbacks at the same time, for any number of workspaces and callbacks.
THEOREM InstallationsStaySound == InstallSpec => []InstallationsAreSound
  <1>1. InstallInv => InstallationsAreSound
    BY DEF InstallInv, InstallationsAreSound
  <1> QED
    BY <1>1, InstallBegins, InstallStep, PTL DEF InstallSpec

-------------------------------------------------------------------------------
(* UserContext *)

\* A request under way: the row it read, the row it will write, and what it
\* brings with its commit
OpenTab ==
    [open : {TRUE}, was : ContextRow, row : ContextRow,
     workspace : Workspaces \cup {Nothing}, repository : Column]

\* The row a request will write names a workspace the user belongs to or joins
\* with it, and a row that was there when it was read is still there
TabFits(t) ==
    /\ tab[t].row # NoContext =>
         tab[t].row.workspace \in joined \cup ({tab[t].workspace} \ {Nothing})
    /\ tab[t].was # NoContext => tab[t].row # NoContext /\ context # NoContext

ContextInv ==
    /\ context \in ContextRow
    /\ joined \in SUBSET Workspaces /\ repos \in SUBSET Repos
    /\ tab \in [Tabs -> {Closed} \cup OpenTab]
    /\ ContextIsAMembership
    /\ \A t \in Tabs : tab[t].open => TabFits(t)

\* A request that loads the row and fits it keeps the invariant.
LEMMA LoadsKeep ==
    ASSUME ContextInv, NEW t \in Tabs, NEW row \in ContextRow,
           NEW w \in Workspaces \cup {Nothing}, NEW r \in Column,
           Loads(t, row, w, r),
           row # NoContext => row.workspace \in joined \cup ({w} \ {Nothing}),
           context # NoContext => row # NoContext
    PROVE  ContextInv'
  <1>1. /\ tab' = [tab EXCEPT ![t] = [open |-> TRUE, was |-> context, row |-> row,
                                     workspace |-> w, repository |-> r]]
        /\ UNCHANGED <<context, joined, repos>>
    BY DEF Loads
  <1>2. [open |-> TRUE, was |-> context, row |-> row, workspace |-> w,
         repository |-> r] \in OpenTab
    BY DEF ContextInv, OpenTab
  <1>3. tab' \in [Tabs -> {Closed} \cup OpenTab]
    BY <1>1, <1>2 DEF ContextInv
  <1>4. ASSUME NEW u \in Tabs, tab'[u].open PROVE TabFits(u)'
    <2>1. CASE u = t
      BY <2>1, <1>1 DEF ContextInv, TabFits
    <2>2. CASE u # t
      <3>1. tab'[u] = tab[u]
        BY <2>2, <1>1 DEF ContextInv
      <3> QED
        BY <3>1, <1>1, <1>4 DEF ContextInv, TabFits
    <2> QED
      BY <2>1, <2>2
  <1> QED
    BY <1>1, <1>3, <1>4 DEF ContextInv, ContextIsAMembership

\* A row of the three columns.
LEMMA RowTyped ==
    ASSUME NEW w \in Workspaces, NEW r \in Column, NEW s \in Column
    PROVE  /\ Row(w, r, s) \in ContextRow /\ Row(w, r, s).workspace = w
           /\ Row(w, r, s) # NoContext
  <1>1. Row(w, r, s) \in ContextRow /\ Row(w, r, s).workspace = w
    BY DEF Row, ContextRow
  <1>2. NoContext.workspace = Nothing /\ w # Nothing
    BY ContextAssumption DEF NoContext
  <1> QED
    BY <1>1, <1>2

\* Requests that select a workspace the user belongs to.
LEMMA SelectsKeep ==
    ASSUME ContextInv, NEW t \in Tabs,
           EnsureContext(t) \/ SelectContext(t) \/ ActivateScenario(t)
    PROVE  ContextInv'
  <1>1. \E w \in joined, r \in Column, s \in Column : Writes(t, Row(w, r, s))
    <2> DEFINE Selects == \E w \in joined, r \in Column, s \in Column :
                            Writes(t, Row(w, r, s))
    <2>1. \A w : In(w) \subseteq Column /\ Nothing \in Column
      BY DEF In, Column, ContextInv
    <2>2. ASSUME EnsureContext(t) PROVE Selects
      BY <2>1, <2>2 DEF EnsureContext
    <2>3. ASSUME SelectContext(t) PROVE Selects
      BY <2>1, <2>3 DEF SelectContext
    <2>4. ASSUME ActivateScenario(t) PROVE Selects
      BY <2>1, <2>4 DEF ActivateScenario, ContextInv, ContextIsAMembership
    <2> QED
      BY <2>2, <2>3, <2>4
  <1>2. PICK w \in joined, r \in Column, s \in Column : Writes(t, Row(w, r, s))
    BY <1>1
  <1>3. w \in Workspaces
    BY <1>2 DEF ContextInv
  <1>4. Nothing \in Workspaces \cup {Nothing} /\ Nothing \in Column
    BY DEF Column
  <1> QED
    BY <1>2, <1>3, <1>4, RowTyped, LoadsKeep DEF Writes

\* Requests that bring a workspace or a repository with them.
LEMMA CreatesKeep ==
    ASSUME ContextInv, NEW t \in Tabs, JoinWorkspace(t) \/ CreateRepository(t)
    PROVE  ContextInv'
  <1>0. Nothing \in Column
    BY DEF Column
  <1>1. CASE JoinWorkspace(t)
    <2> DEFINE row(w) == IF context = NoContext THEN Row(w, Nothing, Nothing)
                         ELSE context
    <2>1. PICK w \in Workspaces \ joined : Loads(t, row(w), w, Nothing)
      BY <1>1 DEF JoinWorkspace
    <2>2. /\ Row(w, Nothing, Nothing) \in ContextRow
          /\ Row(w, Nothing, Nothing).workspace = w
          /\ Row(w, Nothing, Nothing) # NoContext
      BY <1>0, RowTyped
    <2>3. /\ row(w) \in ContextRow /\ row(w) # NoContext
          /\ row(w).workspace \in joined \cup ({w} \ {Nothing})
      BY <2>2, ContextAssumption DEF ContextInv, ContextIsAMembership
    <2> HIDE DEF row
    <2> QED
      BY <2>1, <2>3, <1>0, LoadsKeep
  <1>2. CASE CreateRepository(t)
    <2> DEFINE row(r) == IF context.workspace = WorkspaceOf[r]
                            /\ context.repository = Nothing
                         THEN [context EXCEPT !.repository = r] ELSE context
    <2>1. PICK r \in Repos \ repos : Loads(t, row(r), Nothing, r)
      BY <1>2 DEF CreateRepository
    <2>2. [context EXCEPT !.repository = r] \in ContextRow
      BY DEF ContextInv, ContextRow, Column
    <2>3. [context EXCEPT !.repository = r].workspace = context.workspace
      BY DEF ContextInv, ContextRow
    <2>4. row(r) \in ContextRow /\ row(r).workspace = context.workspace
      BY <2>2, <2>3 DEF ContextInv
    <2>5. context = NoContext => row(r) = NoContext
      BY ContextAssumption DEF NoContext
    <2>6. context # NoContext => context.workspace \in joined
      BY DEF ContextInv, ContextIsAMembership
    <2>7. context # NoContext => row(r) # NoContext
      BY <2>4, <2>6, ContextAssumption DEF ContextInv, NoContext
    <2>8. row(r) # NoContext => row(r).workspace \in joined \cup ({Nothing} \ {Nothing})
      BY <2>4, <2>5, <2>6
    <2>9. r \in Column /\ Nothing \in Workspaces \cup {Nothing}
      BY DEF Column
    <2> HIDE DEF row
    <2> QED
      BY <2>1, <2>4, <2>7, <2>8, <2>9, LoadsKeep
  <1> QED
    BY <1>1, <1>2

\* The columns that differ from the copy are those of the new row, the others
\* are as they are stored.
LEMMA MergedColumns ==
    ASSUME NEW row \in ContextRow, NEW was \in ContextRow, NEW stored \in ContextRow
    PROVE  /\ Merged(row, was, stored) \in ContextRow
           /\ Merged(row, was, stored).workspace =
                IF row.workspace = was.workspace THEN stored.workspace
                ELSE row.workspace
           /\ row = was => Merged(row, was, stored) = stored
  <1>1. /\ DOMAIN row = {"workspace", "repository", "scenario"}
        /\ DOMAIN stored = {"workspace", "repository", "scenario"}
    BY DEF ContextRow
  <1> QED
    BY <1>1 DEF Merged, ContextRow

\* The commit writes a workspace the user belongs to.
LEMMA CommitContextKeeps ==
    ASSUME ContextInv, NEW t \in Tabs, CommitContext(t)
    PROVE  ContextInv'
  <1> DEFINE q == tab[t]
  <1>1. q \in OpenTab /\ TabFits(t)
    BY DEF CommitContext, ContextInv, Closed
  <1>2. tab' = [tab EXCEPT ![t] = Closed]
    BY DEF CommitContext
  <1>3. /\ tab' \in [Tabs -> {Closed} \cup OpenTab] /\ tab'[t] = Closed
        /\ \A u \in Tabs : u # t => tab'[u] = tab[u]
    BY <1>2 DEF ContextInv
  <1>4. /\ context' \in ContextRow /\ joined \subseteq joined'
        /\ joined' \subseteq Workspaces /\ repos' \subseteq Repos
        /\ ContextIsAMembership' /\ (context # NoContext => context' # NoContext)
    <2>1. CASE q.was = NoContext /\ q.row # NoContext /\ context # NoContext
      BY <2>1 DEF CommitContext, ContextInv, ContextIsAMembership
    <2>2. CASE ~(q.was = NoContext /\ q.row # NoContext /\ context # NoContext)
      <3>1. /\ context' = Merged(q.row, q.was, context)
            /\ joined' = joined \cup ({q.workspace} \ {Nothing})
            /\ repos' = repos \cup ({q.repository} \ {Nothing})
        BY <2>2 DEF CommitContext
      <3>2. /\ q.row \in ContextRow /\ q.was \in ContextRow /\ context \in ContextRow
            /\ q.workspace \in Workspaces \cup {Nothing} /\ q.repository \in Column
        BY <1>1 DEF OpenTab, ContextInv
      <3>3. /\ context' \in ContextRow
            /\ context'.workspace = IF q.row.workspace = q.was.workspace
                                    THEN context.workspace ELSE q.row.workspace
            /\ q.row = q.was => context' = context
        BY <3>1, <3>2, MergedColumns
      <3>4. /\ joined \subseteq joined' /\ joined' \subseteq Workspaces
            /\ repos' \subseteq Repos
        BY <3>1, <3>2 DEF ContextInv, Column
      <3>5. q.row # NoContext => q.row.workspace \in joined'
        BY <1>1, <3>1 DEF TabFits
      <3>6. context # NoContext => context.workspace \in joined'
        BY <3>4 DEF ContextInv, ContextIsAMembership
      <3>7. NoContext.workspace = Nothing /\ Nothing \notin joined'
        BY <3>4, ContextAssumption DEF NoContext
      <3>8. CASE q.was = NoContext /\ q.row = NoContext
        BY <3>8, <3>3, <3>4, <3>6 DEF ContextIsAMembership
      <3>9. CASE q.was = NoContext /\ q.row # NoContext
        BY <3>9, <2>2, <3>3, <3>4, <3>5, <3>7 DEF ContextIsAMembership
      <3>10. CASE q.was # NoContext
        <4>1. q.row # NoContext /\ context # NoContext
          BY <3>10, <1>1 DEF TabFits
        <4>2. context'.workspace \in joined'
          BY <4>1, <3>3, <3>5, <3>6
        <4> QED
          BY <4>2, <3>3, <3>4, <3>7 DEF ContextIsAMembership
      <3> QED
        BY <3>8, <3>9, <3>10
    <2> QED
      BY <2>1, <2>2
  <1>5. ASSUME NEW u \in Tabs, tab'[u].open PROVE TabFits(u)'
    <2>1. u # t /\ tab'[u] = tab[u]
      BY <1>3, <1>5 DEF Closed
    <2> QED
      BY <2>1, <1>4, <1>5 DEF ContextInv, TabFits
  <1> QED
    BY <1>3, <1>4, <1>5 DEF ContextInv

\* Every request of the user keeps the invariant.
LEMMA ContextStep == ContextInv /\ [ContextNext]_contextVars => ContextInv'
  <1> SUFFICES ASSUME ContextInv, [ContextNext]_contextVars PROVE ContextInv'
    OBVIOUS
  <1>1. ASSUME NEW t \in Tabs, DropTab(t) PROVE ContextInv'
    <2>1. tab' = [tab EXCEPT ![t] = Closed] /\ UNCHANGED <<context, joined, repos>>
      BY <1>1 DEF DropTab
    <2>2. tab' \in [Tabs -> {Closed} \cup OpenTab]
      BY <2>1 DEF ContextInv
    <2>3. ASSUME NEW u \in Tabs, tab'[u].open PROVE TabFits(u)'
      <3>1. u # t /\ tab'[u] = tab[u]
        BY <2>1, <2>3 DEF Closed, ContextInv
      <3> QED
        BY <3>1, <2>1, <2>3 DEF ContextInv, TabFits
    <2> QED
      BY <2>1, <2>2, <2>3 DEF ContextInv, ContextIsAMembership
  <1>2. CASE UNCHANGED contextVars
    BY <1>2 DEF contextVars, ContextInv, ContextIsAMembership, TabFits
  <1> QED
    BY <1>1, <1>2, SelectsKeep, CreatesKeep, CommitContextKeeps DEF ContextNext

\* The columns of a row belong together
Fits(row) ==
    /\ row.repository # Nothing => WorkspaceOf[row.repository] = row.workspace
    /\ row.scenario \in {row.repository, Nothing}

\* As long as no two requests overlapped, the one that is open has the row as
\* it is stored, and writes one that fits
OneAtATime ==
    /\ Fits(context)
    /\ \A t \in Tabs : tab[t].open =>
         /\ tab[t].was = context /\ Fits(tab[t].row)
         /\ \A u \in Tabs : tab[u].open => u = t

AloneInv == crossed \in BOOLEAN /\ (~crossed => OneAtATime)

\* A request that loads the row alone, or beside another one.
LEMMA LoadsAlone ==
    ASSUME ContextInv, AloneInv, NEW t \in Tabs, NEW row, NEW w, NEW r,
           Loads(t, row, w, r), Fits(context) => Fits(row)
    PROVE  AloneInv'
  <1>1. /\ tab' = [tab EXCEPT ![t] = [open |-> TRUE, was |-> context, row |-> row,
                                     workspace |-> w, repository |-> r]]
        /\ crossed' = (crossed \/ \E o \in Tabs : tab[o].open)
        /\ UNCHANGED context
    BY DEF Loads
  <1>2. /\ tab'[t].was = context /\ tab'[t].row = row
        /\ \A u \in Tabs : u # t => tab'[u] = tab[u]
    BY <1>1 DEF ContextInv
  <1>3. crossed' \in BOOLEAN
    BY <1>1 DEF AloneInv
  <1>4. ASSUME ~crossed' PROVE OneAtATime'
    <2>1. OneAtATime /\ \A o \in Tabs : ~tab[o].open
      BY <1>1, <1>4 DEF AloneInv
    <2> QED
      BY <1>1, <1>2, <2>1 DEF OneAtATime, Fits
  <1> QED
    BY <1>3, <1>4 DEF AloneInv

\* A row that a request selects belongs together.
LEMMA SelectionsFit ==
    ASSUME ContextInv, NEW w \in joined, NEW r \in In(w) \cup {Nothing},
           NEW s \in {r, Nothing}
    PROVE  Fits(Row(w, r, s))
  BY ContextAssumption DEF Fits, Row, In, ContextInv

\* Every request keeps the row together unless another one overlaps.
LEMMA AloneStep ==
    ContextInv /\ AloneInv /\ [ContextNext]_contextVars => AloneInv'
  <1> SUFFICES ASSUME ContextInv, AloneInv, [ContextNext]_contextVars
               PROVE  AloneInv'
    OBVIOUS
  <1>1. ASSUME NEW t \in Tabs,
               EnsureContext(t) \/ SelectContext(t) \/ ActivateScenario(t)
        PROVE  AloneInv'
    <2> DEFINE Selects == \E w \in joined : \E r \in In(w) \cup {Nothing} :
                            \E s \in {r, Nothing} : Writes(t, Row(w, r, s))
    <2>1. ASSUME EnsureContext(t) PROVE Selects
      BY <2>1 DEF EnsureContext
    <2>2. ASSUME SelectContext(t) PROVE Selects
      BY <2>2 DEF SelectContext
    <2>3. ASSUME ActivateScenario(t) PROVE Selects
      BY <2>3 DEF ActivateScenario, ContextInv, ContextIsAMembership
    <2>4. PICK w \in joined : \E r \in In(w) \cup {Nothing} :
                 \E s \in {r, Nothing} : Writes(t, Row(w, r, s))
      BY <1>1, <2>1, <2>2, <2>3
    <2>5. PICK r \in In(w) \cup {Nothing} : \E s \in {r, Nothing} :
                 Writes(t, Row(w, r, s))
      BY <2>4
    <2>6. PICK s \in {r, Nothing} : Writes(t, Row(w, r, s))
      BY <2>5
    <2> QED
      BY <2>6, SelectionsFit, LoadsAlone DEF Writes
  <1>2. ASSUME NEW t \in Tabs, JoinWorkspace(t) PROVE AloneInv'
    <2> DEFINE row(w) == IF context = NoContext THEN Row(w, Nothing, Nothing)
                         ELSE context
    <2>1. PICK w \in Workspaces \ joined : Loads(t, row(w), w, Nothing)
      BY <1>2 DEF JoinWorkspace
    <2>2. Fits(context) => Fits(row(w))
      BY DEF Fits, Row
    <2> HIDE DEF row
    <2> QED
      BY <2>1, <2>2, LoadsAlone
  <1>3. ASSUME NEW t \in Tabs, CreateRepository(t) PROVE AloneInv'
    <2> DEFINE row(r) == IF context.workspace = WorkspaceOf[r]
                            /\ context.repository = Nothing
                         THEN [context EXCEPT !.repository = r] ELSE context
    <2>1. PICK r \in Repos \ repos : Loads(t, row(r), Nothing, r)
      BY <1>3 DEF CreateRepository
    <2>2. LET new == [context EXCEPT !.repository = r]
          IN  /\ new.repository = r /\ new.workspace = context.workspace
              /\ new.scenario = context.scenario
      BY DEF ContextInv, ContextRow
    <2>3. Fits(context) => Fits(row(r))
      BY <2>2 DEF Fits
    <2> HIDE DEF row
    <2> QED
      BY <2>1, <2>3, LoadsAlone
  <1>4. ASSUME NEW t \in Tabs, CommitContext(t) PROVE AloneInv'
    <2>1. tab[t].open /\ tab' = [tab EXCEPT ![t] = Closed] /\ crossed' = crossed
      BY <1>4 DEF CommitContext
    <2>2. ASSUME ~crossed PROVE OneAtATime'
      <3>1. /\ tab[t].was = context /\ Fits(tab[t].row) /\ Fits(context)
            /\ \A u \in Tabs : tab[u].open => u = t
        BY <2>1, <2>2 DEF AloneInv, OneAtATime
      <3>2. tab[t].row \in ContextRow /\ context \in ContextRow
        <4>1. tab[t] \in OpenTab
          BY <2>1 DEF ContextInv, Closed
        <4> QED
          BY <4>1 DEF ContextInv, OpenTab
      <3>3. Merged(tab[t].row, context, context) = tab[t].row
        BY <3>2 DEF Merged, ContextRow
      <3>4. context' \in {context, tab[t].row}
        BY <1>4, <3>1, <3>3 DEF CommitContext
      <3>5. \A u \in Tabs : ~tab'[u].open
        BY <2>1, <3>1 DEF ContextInv, Closed
      <3>6. Fits(context')
        BY <3>1, <3>4
      <3> QED
        BY <3>5, <3>6 DEF OneAtATime, Fits
    <2> QED
      BY <2>1, <2>2 DEF AloneInv
  <1>5. ASSUME NEW t \in Tabs, DropTab(t) PROVE AloneInv'
    <2>1. /\ tab' = [tab EXCEPT ![t] = Closed]
          /\ context' = context /\ crossed' = crossed
      BY <1>5 DEF DropTab
    <2>2. \A u \in Tabs : tab'[u].open => u # t /\ tab'[u] = tab[u]
      BY <2>1 DEF ContextInv, Closed
    <2> QED
      BY <2>1, <2>2 DEF AloneInv, OneAtATime, Fits
  <1>6. CASE UNCHANGED contextVars
    BY <1>6 DEF contextVars, AloneInv, OneAtATime, Fits
  <1> QED
    BY <1>1, <1>2, <1>3, <1>4, <1>5, <1>6 DEF ContextNext

\* And no request is under way.
LEMMA AloneBegins == ContextInit => AloneInv
  <1> SUFFICES ASSUME ContextInit PROVE AloneInv
    OBVIOUS
  <1>1. /\ context.repository = Nothing /\ context.scenario = Nothing
        /\ crossed = FALSE
    BY DEF ContextInit, NoContext
  <1>2. \A t \in Tabs : ~tab[t].open
    BY DEF ContextInit, Closed
  <1> QED
    BY <1>1, <1>2 DEF AloneInv, OneAtATime, Fits

\* At first there is no row.
LEMMA ContextBegins == ContextInit => ContextInv
  BY
  DEF ContextInit, ContextInv, ContextRow, NoContext, Column, Closed,
      ContextIsAMembership

\* tenant.py: the workspace of a user's context is one the user belongs to, and
\* unless two requests overlapped its repository and scenario are of this
\* workspace, for any number of tabs, workspaces and repositories.
THEOREM ContextStaysCoherent == ContextSpec => []ContextIsCoherent
  <1>1. ContextInv /\ AloneInv => ContextIsCoherent
    BY
    DEF ContextInv, AloneInv, OneAtATime, Fits, ContextIsCoherent,
        ContextFitsUnlessCrossed
  <1> QED
    BY ContextBegins, AloneBegins, <1>1, ContextStep, AloneStep, PTL DEF ContextSpec

-------------------------------------------------------------------------------
(* RateLimit *)

\* A deque b of a client that was granted the requests at the times g: the
\* deque is the end of g, and what it does not hold any more is out of the window
DequeFits(g, b) ==
    /\ g \in Seq(Nat) /\ b \in Seq(Nat)
    /\ \A i \in 1..Len(g) : g[i] <= time
    /\ \A i, j \in 1..Len(g) : i <= j => g[i] <= g[j]
    /\ Len(b) <= Len(g) /\ Len(b) <= Limit
    /\ \A i \in 1..Len(b) : b[i] = g[Len(g) - Len(b) + i]
    /\ \A i \in 1..(Len(g) - Len(b)) : ~InWindow(g[i])

RateInv ==
    /\ time \in Nat /\ DOMAIN buckets = Keys /\ DOMAIN granted = Keys
    /\ buckets = [k \in Keys |-> buckets[k]] /\ granted = [k \in Keys |-> granted[k]]
    /\ \A k \in Keys : DequeFits(granted[k], buckets[k])

\* popleft stops at the first entry in the window, or at the end.
LEMMA DroppedIsPrefix ==
    ASSUME NEW b \in Seq(Nat), time \in Nat
    PROVE  /\ Dropped(b) \in 0..Len(b)
           /\ Dropped(b) < Len(b) => InWindow(b[Dropped(b) + 1])
           /\ \A i \in 1..Dropped(b) : ~InWindow(b[i])
  <1> DEFINE stops == {n \in 0..Len(b) : n < Len(b) => InWindow(b[n + 1])}
  <1>1. Len(b) \in Nat /\ stops \subseteq Nat /\ Len(b) \in stops
    OBVIOUS
  <1> HIDE DEF stops
  <1>2. PICK m \in stops : \A n \in stops : ~(<<n, m>> \in OpToRel(<, Nat))
    BY <1>1, NatLessThanWellFounded, WFMin
  <1>3. ASSUME NEW n \in stops PROVE m <= n
    <2>1. m \in Nat /\ n \in Nat
      BY <1>1
    <2>2. ~(n < m)
      BY <1>2, <2>1 DEF OpToRel
    <2> QED
      BY <2>1, <2>2
  <1>4. Dropped(b) \in stops /\ \A n \in stops : Dropped(b) <= n
    BY <1>3 DEF Dropped, Min, stops
  <1>5. Dropped(b) \in 0..Len(b) /\ (Dropped(b) < Len(b) => InWindow(b[Dropped(b) + 1]))
    BY <1>4 DEF stops
  <1>6. ASSUME NEW i \in 1..Dropped(b) PROVE ~InWindow(b[i])
    <2>1. i - 1 \in 0..Len(b) /\ i - 1 < Len(b) /\ ~(Dropped(b) <= i - 1)
      BY <1>1, <1>5
    <2>2. i - 1 \notin stops /\ (i - 1) + 1 = i
      BY <1>4, <2>1
    <2> QED
      BY <2>1, <2>2 DEF stops
  <1> QED
    BY <1>5, <1>6

\* What is left of a deque that fits.
LEMMA RecentIs ==
    ASSUME NEW g, NEW b, DequeFits(g, b), time \in Nat
    PROVE  /\ Recent(b) \in Seq(Nat)
           /\ Len(Recent(b)) = Len(b) - Dropped(b)
           /\ Dropped(b) \in 0..Len(b)
           /\ \A i \in 1..Len(Recent(b)) : Recent(b)[i] = b[Dropped(b) + i]
  <1>1. b \in Seq(Nat) /\ Len(b) \in Nat
    BY DEF DequeFits
  <1>2. Dropped(b) \in 0..Len(b)
    BY <1>1, DroppedIsPrefix
  <1> DEFINE d == Dropped(b)
  <1>3. d \in Nat /\ d <= Len(b)
    BY <1>1, <1>2
  <1> HIDE DEF d
  <1>4. d + 1 \in Int /\ Len(b) \in Int /\ \A i \in (d + 1)..Len(b) : b[i] \in Nat
    BY <1>1, <1>3, ElementOfSeq
  <1>5. /\ SubSeq(b, d + 1, Len(b)) \in Seq(Nat)
        /\ Len(SubSeq(b, d + 1, Len(b)))
             = IF d + 1 <= Len(b) THEN Len(b) - (d + 1) + 1 ELSE 0
        /\ \A i \in 1..Len(b) - (d + 1) + 1 :
             SubSeq(b, d + 1, Len(b))[i] = b[d + 1 + i - 1]
    BY <1>4, SubSeqProperties
  <1>6. Recent(b) = SubSeq(b, d + 1, Len(b))
    BY DEF Recent, d
  <1>7. Len(Recent(b)) = Len(b) - d
    BY <1>1, <1>3, <1>5, <1>6
  <1>8. \A i \in 1..Len(b) - d : Recent(b)[i] = b[d + i]
    <2> SUFFICES ASSUME NEW i \in 1..Len(b) - d PROVE Recent(b)[i] = b[d + i]
      OBVIOUS
    <2>1. i \in 1..Len(b) - (d + 1) + 1 /\ d + 1 + i - 1 = d + i
      BY <1>1, <1>3
    <2> QED
      BY <1>5, <1>6, <2>1
  <1> QED
    BY <1>2, <1>5, <1>6, <1>7, <1>8 DEF d

\* The deque that is left fits as well.
LEMMA RecentFits ==
    ASSUME NEW g, NEW b, DequeFits(g, b), time \in Nat
    PROVE  DequeFits(g, Recent(b))
  <1> DEFINE r == Recent(b)
             d == Dropped(b)
  <1>1. /\ r \in Seq(Nat) /\ Len(r) = Len(b) - d /\ d \in 0..Len(b)
        /\ \A i \in 1..Len(r) : r[i] = b[d + i]
    BY RecentIs
  <1>2. \A i \in 1..d : ~InWindow(b[i])
    BY DroppedIsPrefix DEF DequeFits
  <1> HIDE DEF r, d
  <1>3. /\ Len(g) \in Nat /\ Len(b) \in Nat /\ d \in Nat /\ d <= Len(b)
        /\ Len(b) <= Len(g) /\ Len(b) <= Limit /\ Limit \in Nat
        /\ \A i \in 1..Len(b) : b[i] = g[Len(g) - Len(b) + i]
        /\ \A i \in 1..(Len(g) - Len(b)) : ~InWindow(g[i])
    BY <1>1, RateAssumption DEF DequeFits
  <1>4. Len(r) \in Nat /\ Len(r) <= Len(g) /\ Len(r) <= Limit
    BY <1>1, <1>3
  <1>5. ASSUME NEW i \in 1..Len(r) PROVE r[i] = g[Len(g) - Len(r) + i]
    <2>1. d + i \in 1..Len(b) /\ Len(g) - Len(b) + (d + i) = Len(g) - Len(r) + i
      BY <1>1, <1>3
    <2> QED
      BY <1>1, <1>3, <2>1
  <1>6. ASSUME NEW i \in 1..(Len(g) - Len(r)) PROVE ~InWindow(g[i])
    <2>1. CASE i <= Len(g) - Len(b)
      BY <1>3, <2>1
    <2>2. CASE ~(i <= Len(g) - Len(b))
      <3> DEFINE j == i - (Len(g) - Len(b))
      <3>1. j \in 1..d /\ j \in 1..Len(b) /\ Len(g) - Len(b) + j = i
        BY <1>1, <1>3, <2>2
      <3> QED
        BY <1>2, <1>3, <3>1
    <2> QED
      BY <2>1, <2>2
  <1> QED
    BY <1>1, <1>4, <1>5, <1>6 DEF DequeFits, r

\* A granted request is recorded at the end of a deque that has room.
LEMMA AppendFits ==
    ASSUME NEW g, NEW b, DequeFits(g, b), time \in Nat, Len(b) < Limit
    PROVE  DequeFits(Append(g, time), Append(b, time))
  <1> DEFINE h == Append(g, time)
             c == Append(b, time)
  <1>1. /\ g \in Seq(Nat) /\ b \in Seq(Nat) /\ Len(g) \in Nat /\ Len(b) \in Nat
        /\ Limit \in Nat /\ Len(b) <= Len(g)
    BY RateAssumption DEF DequeFits
  <1>2. /\ h \in Seq(Nat) /\ Len(h) = Len(g) + 1 /\ h[Len(g) + 1] = time
        /\ \A i \in 1..Len(g) : h[i] = g[i]
    BY <1>1, AppendProperties
  <1>3. /\ c \in Seq(Nat) /\ Len(c) = Len(b) + 1 /\ c[Len(b) + 1] = time
        /\ \A i \in 1..Len(b) : c[i] = b[i]
    BY <1>1, AppendProperties
  <1> HIDE DEF h, c
  <1>4. \A i \in 1..Len(h) : i \in 1..Len(g) \/ i = Len(g) + 1
    BY <1>1, <1>2
  <1>5. \A i \in 1..Len(g) : g[i] \in Nat /\ g[i] <= time
    BY <1>1, ElementOfSeq DEF DequeFits
  <1>6. \A i \in 1..Len(h) : h[i] <= time
    BY <1>2, <1>4, <1>5
  <1>7. ASSUME NEW i \in 1..Len(h), NEW j \in 1..Len(h), i <= j PROVE h[i] <= h[j]
    <2>1. CASE j = Len(g) + 1
      BY <1>2, <1>6, <2>1
    <2>2. CASE j \in 1..Len(g)
      <3>1. i \in 1..Len(g)
        BY <1>1, <1>7, <2>2
      <3> QED
        BY <1>2, <1>7, <2>2, <3>1 DEF DequeFits
    <2> QED
      BY <1>4, <2>1, <2>2
  <1>8. Len(c) <= Len(h) /\ Len(c) <= Limit /\ Len(h) - Len(c) = Len(g) - Len(b)
    BY <1>1, <1>2, <1>3
  <1>9. ASSUME NEW i \in 1..Len(c) PROVE c[i] = h[Len(h) - Len(c) + i]
    <2>1. CASE i = Len(b) + 1
      <3>1. Len(h) - Len(c) + i = Len(g) + 1
        BY <1>1, <1>2, <1>3, <2>1
      <3> QED
        BY <1>2, <1>3, <2>1, <3>1
    <2>2. CASE i \in 1..Len(b)
      <3>1. Len(h) - Len(c) + i = Len(g) - Len(b) + i /\ Len(g) - Len(b) + i \in 1..Len(g)
        BY <1>1, <1>2, <1>3, <2>2
      <3>2. b[i] = g[Len(g) - Len(b) + i]
        BY <2>2 DEF DequeFits
      <3> QED
        BY <1>2, <1>3, <2>2, <3>1, <3>2
    <2> QED
      BY <1>1, <1>3, <2>1, <2>2
  <1>10. ASSUME NEW i \in 1..(Len(h) - Len(c)) PROVE ~InWindow(h[i])
    <2>1. i \in 1..(Len(g) - Len(b)) /\ i \in 1..Len(g)
      BY <1>1, <1>8
    <2> QED
      BY <1>2, <2>1 DEF DequeFits
  <1> QED
    BY <1>2, <1>3, <1>6, <1>7, <1>8, <1>9, <1>10 DEF DequeFits, h, c

\* A deque the sweep removes held nothing in the window.
LEMMA SweptFits ==
    ASSUME NEW g, NEW b, DequeFits(g, b), time \in Nat,
           ~(b # <<>> /\ InWindow(b[Len(b)]))
    PROVE  DequeFits(g, <<>>)
  <1>1. /\ g \in Seq(Nat) /\ b \in Seq(Nat) /\ Len(g) \in Nat /\ Len(b) \in Nat
        /\ Limit \in Nat /\ Len(b) <= Len(g)
    BY RateAssumption DEF DequeFits
  <1>2. <<>> \in Seq(Nat) /\ Len(<<>>) = 0
    OBVIOUS
  <1>3. ASSUME NEW i \in 1..Len(g) PROVE ~InWindow(g[i])
    <2>1. CASE b = <<>>
      BY <1>1, <1>2, <2>1 DEF DequeFits
    <2>2. CASE b # <<>>
      <3>1. Len(b) \in 1..Len(b) /\ Len(g) - Len(b) + Len(b) = Len(g)
              /\ Len(g) \in 1..Len(g)
        BY <1>1, <2>2
      <3>2. b[Len(b)] = g[Len(g)] /\ ~InWindow(b[Len(b)])
        BY <2>2, <3>1 DEF DequeFits
      <3>3. g[i] <= g[Len(g)]
        BY <1>1, <3>1 DEF DequeFits
      <3>4. g[i] \in Nat /\ g[Len(g)] \in Nat /\ Window \in Nat
        BY <1>1, <3>1, ElementOfSeq, RateAssumption
      <3> QED
        BY <3>2, <3>3, <3>4 DEF InWindow
    <2> QED
      BY <2>1, <2>2
  <1>4. \A i \in 1..(Len(g) - 0) : ~InWindow(g[i])
    BY <1>1, <1>3
  <1> QED
    BY <1>1, <1>2, <1>4 DEF DequeFits

\* What is left of a deque is what was granted in the window.
LEMMA RecentCounts ==
    ASSUME NEW g, NEW b, DequeFits(g, b), time \in Nat
    PROVE  /\ Cardinality({i \in DOMAIN g : InWindow(g[i])}) = Len(Recent(b))
           /\ Len(Recent(b)) <= Limit
  <1> DEFINE r == Recent(b)
             first == Len(g) - Len(r) + 1
  <1>1. /\ r \in Seq(Nat) /\ Len(r) = Len(b) - Dropped(b) /\ Dropped(b) \in 0..Len(b)
        /\ \A i \in 1..Len(r) : r[i] = b[Dropped(b) + i]
    BY RecentIs
  <1>2. DequeFits(g, r)
    BY RecentFits
  <1>3. /\ g \in Seq(Nat) /\ Len(g) \in Nat /\ Len(r) \in Nat /\ Len(r) <= Len(g)
        /\ Len(r) <= Limit /\ b \in Seq(Nat) /\ Len(b) \in Nat
    BY <1>1, <1>2 DEF DequeFits
  <1>4. \A i \in 1..Len(g) : i < first => ~InWindow(g[i])
    BY <1>2, <1>3 DEF DequeFits
  <1>5. ASSUME NEW i \in 1..Len(g), first <= i PROVE InWindow(g[i])
    <2>1. Len(r) # 0 /\ 1 \in 1..Len(r) /\ first \in 1..Len(g)
      BY <1>3, <1>5
    <2>2. Dropped(b) < Len(b) /\ Dropped(b) \in Nat
      BY <1>1, <1>3, <2>1
    <2>3. InWindow(b[Dropped(b) + 1])
      BY <1>3, <2>2, DroppedIsPrefix
    <2>4. r[1] = b[Dropped(b) + 1] /\ r[1] = g[Len(g) - Len(r) + 1]
      BY <1>1, <1>2, <2>1 DEF DequeFits
    <2>5. g[first] <= g[i]
      BY <1>2, <1>5, <2>1 DEF DequeFits
    <2>6. g[first] \in Nat /\ g[i] \in Nat /\ Window \in Nat
      BY <1>3, <2>1, ElementOfSeq, RateAssumption
    <2> QED
      BY <2>3, <2>4, <2>5, <2>6 DEF InWindow
  <1> HIDE DEF r
  <1>6. {i \in DOMAIN g : InWindow(g[i])} = first..Len(g)
    <2>1. DOMAIN g = 1..Len(g) /\ first \in Nat /\ first >= 1
      BY <1>3
    <2> HIDE DEF first
    <2>2. \A i \in first..Len(g) : i \in 1..Len(g) /\ first <= i
      BY <1>3, <2>1
    <2>3. \A i \in 1..Len(g) : InWindow(g[i]) => i \in first..Len(g)
      BY <1>3, <1>4, <2>1
    <2> QED
      BY <1>5, <2>1, <2>2, <2>3
  <1>7. Cardinality(first..Len(g)) = Len(r)
    <2>1. first \in Int /\ Len(g) \in Int
      BY <1>3
    <2>2. Cardinality(first..Len(g)) = IF first > Len(g) THEN 0 ELSE Len(g) - first + 1
      BY <2>1, FS_Interval
    <2> QED
      BY <1>3, <2>2
  <1> QED
    BY <1>3, <1>6, <1>7 DEF r

\* A step that leaves every deque fitting keeps the invariant.
LEMMA TablesFit ==
    ASSUME RateInv, NEW G, NEW B, time' = time,
           buckets' = [k \in Keys |-> B[k]], granted' = [k \in Keys |-> G[k]],
           \A k \in Keys : DequeFits(G[k], B[k])
    PROVE  RateInv'
  <1>1. /\ DOMAIN buckets' = Keys /\ DOMAIN granted' = Keys
        /\ \A k \in Keys : buckets'[k] = B[k] /\ granted'[k] = G[k]
    OBVIOUS
  <1>2. \A k \in Keys : DequeFits(granted[k], buckets[k])'
    BY <1>1 DEF DequeFits, InWindow
  <1>3. /\ buckets' = [k \in Keys |-> buckets'[k]]
        /\ granted' = [k \in Keys |-> granted'[k]]
    BY <1>1
  <1> QED
    BY <1>1, <1>2, <1>3 DEF RateInv

\* Every step keeps the invariant.
LEMMA RateStep == RateInv /\ [RateNext]_rateVars => RateInv'
  <1> SUFFICES ASSUME RateInv, [RateNext]_rateVars PROVE RateInv'
    OBVIOUS
  <1>1. /\ time \in Nat /\ DOMAIN buckets = Keys /\ DOMAIN granted = Keys
        /\ buckets = [k \in Keys |-> buckets[k]] /\ granted = [k \in Keys |-> granted[k]]
        /\ \A k \in Keys : DequeFits(granted[k], buckets[k])
    BY DEF RateInv
  <1>2. CASE Tick
    <2>1. time' = time + 1 /\ buckets' = buckets /\ granted' = granted /\ time' \in Nat
      BY <1>1, <1>2 DEF Tick
    <2>2. ASSUME NEW k \in Keys PROVE DequeFits(granted[k], buckets[k])'
      <3> DEFINE g == granted[k]
                 b == buckets[k]
      <3>1. DequeFits(g, b) /\ granted'[k] = g /\ buckets'[k] = b
        BY <1>1, <2>1
      <3>2. \A i \in 1..Len(g) : g[i] \in Nat
        BY <3>1, ElementOfSeq DEF DequeFits
      <3>3. \A i \in 1..Len(g) : g[i] <= time'
        BY <1>1, <2>1, <3>1, <3>2 DEF DequeFits
      <3>4. Len(g) \in Nat /\ Len(b) \in Nat /\ Window \in Nat
        BY <3>1, RateAssumption DEF DequeFits
      <3>5. \A i \in 1..(Len(g) - Len(b)) : i \in 1..Len(g) /\ ~(g[i] + Window > time')
        <4> SUFFICES ASSUME NEW i \in 1..(Len(g) - Len(b))
                     PROVE  i \in 1..Len(g) /\ ~(g[i] + Window > time')
          OBVIOUS
        <4>1. i \in 1..Len(g)
          BY <3>4
        <4>2. ~(g[i] + Window > time) /\ g[i] \in Nat
          BY <3>1, <3>2, <4>1 DEF DequeFits, InWindow
        <4> QED
          BY <1>1, <2>1, <3>4, <4>1, <4>2
      <3> QED
        BY <3>1, <3>3, <3>5 DEF DequeFits, InWindow
    <2> QED
      BY <1>1, <2>1, <2>2 DEF RateInv
  <1>3. ASSUME NEW k \in Keys, Request(k), Full(k) PROVE RateInv'
    <2> DEFINE B == [buckets EXCEPT ![k] = Recent(buckets[k])]
    <2>1. /\ time' = time /\ granted' = granted /\ buckets' = B
      BY <1>3 DEF Request
    <2>2. \A q \in Keys : DequeFits(granted[q], B[q])
      <3>1. DequeFits(granted[k], Recent(buckets[k]))
        BY <1>1, RecentFits
      <3> QED
        BY <1>1, <3>1
    <2>3. B = [q \in Keys |-> B[q]]
      BY <1>1
    <2> HIDE DEF B
    <2> QED
      BY <1>1, <2>1, <2>2, <2>3, TablesFit
  <1>4. ASSUME NEW k \in Keys, Request(k), ~Full(k) PROVE RateInv'
    <2> DEFINE B == [buckets EXCEPT ![k] = Append(Recent(buckets[k]), time)]
               G == [granted EXCEPT ![k] = Append(granted[k], time)]
    <2>1. time' = time /\ granted' = G /\ buckets' = Sweep(B)
      BY <1>4 DEF Request
    <2>2. \A q \in Keys : DequeFits(G[q], B[q])
      <3>1. DequeFits(granted[k], Recent(buckets[k]))
        BY <1>1, RecentFits
      <3>2. Len(Recent(buckets[k])) < Limit
        <4>1. Recent(buckets[k]) \in Seq(Nat)
          BY <3>1 DEF DequeFits
        <4>2. Len(Recent(buckets[k])) \in Nat /\ Limit \in Nat
          BY <4>1, RateAssumption
        <4> QED
          BY <1>4, <4>2 DEF Full
      <3>3. DequeFits(Append(granted[k], time), Append(Recent(buckets[k]), time))
        BY <1>1, <3>1, <3>2, AppendFits
      <3> QED
        BY <1>1, <3>3
    <2>3. B = [q \in Keys |-> B[q]] /\ G = [q \in Keys |-> G[q]]
      BY <1>1
    <2> HIDE DEF B, G
    <2>4. CASE Sweep(B) = B
      BY <2>1, <2>2, <2>3, <2>4, TablesFit
    <2>5. CASE Sweep(B) = Swept(B)
      <3>1. Swept(B) = [q \in Keys |-> Swept(B)[q]]
        BY DEF Swept
      <3>2. \A q \in Keys : DequeFits(G[q], Swept(B)[q])
        <4> SUFFICES ASSUME NEW q \in Keys PROVE DequeFits(G[q], Swept(B)[q])
          OBVIOUS
        <4>1. CASE B[q] # <<>> /\ InWindow(B[q][Len(B[q])])
          BY <2>2, <4>1 DEF Swept
        <4>2. CASE ~(B[q] # <<>> /\ InWindow(B[q][Len(B[q])]))
          <5>1. DequeFits(G[q], <<>>)
            BY <1>1, <2>2, <4>2, SweptFits
          <5> QED
            BY <4>2, <5>1 DEF Swept
        <4> QED
          BY <4>1, <4>2
      <3> DEFINE C == Swept(B)
      <3>3. C = [q \in Keys |-> C[q]] /\ \A q \in Keys : DequeFits(G[q], C[q])
        BY <3>1, <3>2
      <3>4. buckets' = C
        BY <2>1, <2>5
      <3> HIDE DEF C
      <3> QED
        BY <2>1, <2>3, <3>3, <3>4, TablesFit
    <2> QED
      BY <2>4, <2>5 DEF Sweep
  <1>5. CASE UNCHANGED rateVars
    BY <1>1, <1>5, TablesFit DEF rateVars
  <1> QED
    BY <1>2, <1>3, <1>4, <1>5 DEF RateNext

\* Before the first request the deques are empty.
LEMMA RateBegins == RateInit => RateInv
  <1> SUFFICES ASSUME RateInit PROVE RateInv
    OBVIOUS
  <1>1. DequeFits(<<>>, <<>>)
    <2>1. <<>> \in Seq(Nat) /\ Len(<<>>) = 0 /\ Limit \in Nat
      BY RateAssumption
    <2> QED
      BY <2>1 DEF DequeFits
  <1> QED
    BY <1>1 DEF RateInit, RateInv

\* Whatever the limit, the window and the number of clients and paths: no
\* window of the rate limiter of request_guard.py holds more granted requests
\* than the limit, and a request is refused only if it holds that many.
THEOREM WindowAlwaysHolds == RateSpec => []WindowHolds
  <1>1. RateInv => WindowHolds
    <2> SUFFICES ASSUME RateInv, NEW k \in Keys
                 PROVE  LET inWindow == {i \in DOMAIN granted[k] : InWindow(granted[k][i])}
                        IN  /\ Cardinality(inWindow) <= Limit
                            /\ Full(k) => Cardinality(inWindow) = Limit
      BY DEF WindowHolds
    <2>1. time \in Nat /\ DequeFits(granted[k], buckets[k])
      BY DEF RateInv
    <2>2. /\ Cardinality({i \in DOMAIN granted[k] : InWindow(granted[k][i])})
               = Len(Recent(buckets[k]))
          /\ Len(Recent(buckets[k])) <= Limit
      BY <2>1, RecentCounts
    <2>3. Len(Recent(buckets[k])) \in Nat /\ Limit \in Nat
      <3>1. Recent(buckets[k]) \in Seq(Nat)
        BY <2>1, RecentIs
      <3> QED
        BY <3>1, RateAssumption
    <2> QED
      BY <2>2, <2>3 DEF Full
  <1> QED
    BY RateBegins, <1>1, RateStep, PTL DEF RateSpec
===============================================================================
