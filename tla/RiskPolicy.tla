------------------------------ MODULE RiskPolicy ------------------------------
(***************************************************************************)
(* The risk policy of one workspace: get_risk_policy and                   *)
(* update_risk_policy of backend/app/operations_services.py.  A policy has *)
(* no row until somebody reads or writes it; a version number decides      *)
(* which of several writers wins.                                          *)
(*                                                                         *)
(* A client composes its update on a version it was shown, or on the       *)
(* documented defaults, which are version 1, and sends the next number.    *)
(* The INSERT that update_risk_policy flushes is not committed until the   *)
(* request ends: another INSERT of the same key waits for it.              *)
(*                                                                         *)
(* Left out: the thresholds, told apart by who wrote them, and audit rows. *)
(***************************************************************************)
EXTENDS Naturals, Sequences

CONSTANTS
    PolicyClients,
    NoClient,
    MaxPolicyVersion \* bound: versions the policy reaches

ASSUME PolicyAssumption ==
    /\ NoClient \notin PolicyClients
    /\ MaxPolicyVersion \in Nat \ {0}

VARIABLES
    policyVersion,  \* the version of the committed row, 0 without one
    inserting,      \* the request whose INSERT is flushed, not committed
    shown,          \* per client: the version its next update is based on
    policyReq,      \* per client: its request
    accepted        \* the updates that were committed, in order

policyVars == <<policyVersion, inserting, shown, policyReq, accepted>>

NoRequest == [step |-> "idle", copy |-> 0]

PolicyRequest ==
    [step : {"idle", "getInsert", "putInsert", "put"},
     copy : 0..MaxPolicyVersion]   \* record.version, as session.get read it

Update == [by : PolicyClients, base : 1..MaxPolicyVersion]

PolicyInit ==
    /\ policyVersion = 0
    /\ inserting = NoClient
    /\ shown = [c \in PolicyClients |-> 1]
    /\ policyReq = [c \in PolicyClients |-> NoRequest]
    /\ accepted = <<>>

Goes(c, step, copy) ==
    policyReq' = [policyReq EXCEPT ![c] = [step |-> step, copy |-> copy]]

Done(c) == Goes(c, "idle", 0)

Release(c) == inserting' = IF inserting = c THEN NoClient ELSE inserting

\* get_risk_policy: the row, or none
GetPolicy(c) ==
    /\ policyReq[c] = NoRequest
    /\ \/ /\ policyVersion > 0
          /\ shown' = [shown EXCEPT ![c] = policyVersion]
          /\ UNCHANGED policyReq
       \/ /\ policyVersion = 0
          /\ Goes(c, "getInsert", 0)
          /\ UNCHANGED shown
    /\ UNCHANGED <<policyVersion, inserting, accepted>>

\* The INSERT of the defaults commits, or meets a row committed since: the
\* request rolls back and reads again
GetInsert(c) ==
    /\ policyReq[c].step = "getInsert"
    /\ inserting = NoClient
    /\ policyVersion' = IF policyVersion = 0 THEN 1 ELSE policyVersion
    /\ shown' = [shown EXCEPT ![c] = policyVersion']
    /\ Done(c)
    /\ UNCHANGED <<inserting, accepted>>

\* payload.version must follow the version read
Follows(c, copy) == shown[c] = copy

\* update_risk_policy up to the version check
PutPolicy(c) ==
    /\ policyReq[c] = NoRequest
    /\ shown[c] < MaxPolicyVersion
    /\ \/ policyVersion = 0 /\ Goes(c, "putInsert", 0)
       \/ /\ policyVersion > 0
          /\ Follows(c, policyVersion)
          /\ Goes(c, "put", policyVersion)
    /\ UNCHANGED <<policyVersion, inserting, shown, accepted>>

\* The flush of the defaults: the key is free, or the IntegrityError is not
\* caught and the request fails.  Then the version check, which rolls back.
PutInsert(c) ==
    /\ policyReq[c].step = "putInsert"
    /\ inserting = NoClient
    /\ \/ /\ policyVersion = 0 /\ Follows(c, 1)
          /\ inserting' = c
          /\ Goes(c, "put", 1)
       \/ /\ policyVersion > 0 \/ ~Follows(c, 1)
          /\ Done(c)
          /\ UNCHANGED inserting
    /\ UNCHANGED <<policyVersion, shown, accepted>>

\* The UPDATE without its condition on the version
UnchangedAlways(c) == TRUE

\* UPDATE ... WHERE version = previous_version finds its row
Unchanged(c) == inserting = c \/ policyVersion = policyReq[c].copy

\* The UPDATE and the commit; no row found is a conflict
PutCommit(c) ==
    /\ policyReq[c].step = "put"
    /\ inserting \in {c, NoClient}
    /\ \/ /\ Unchanged(c)
          /\ policyVersion' = shown[c] + 1
          /\ accepted' = Append(accepted, [by |-> c, base |-> shown[c]])
          /\ shown' = [shown EXCEPT ![c] = shown[c] + 1]
       \/ /\ ~Unchanged(c)
          /\ UNCHANGED <<policyVersion, accepted, shown>>
    /\ Done(c) /\ Release(c)

\* The process stops, or the connection is lost before the commit
PolicyStops(c) ==
    /\ policyReq[c] # NoRequest
    /\ Done(c) /\ Release(c)
    /\ UNCHANGED <<policyVersion, shown, accepted>>

PolicyNext ==
    \E c \in PolicyClients :
        \/ GetPolicy(c) \/ GetInsert(c)
        \/ PutPolicy(c) \/ PutInsert(c) \/ PutCommit(c)
        \/ PolicyStops(c)

PolicySpec == PolicyInit /\ [][PolicyNext]_policyVars

-------------------------------------------------------------------------------
PolicyTypeOK ==
    /\ policyVersion \in 0..MaxPolicyVersion
    /\ inserting \in PolicyClients \cup {NoClient}
    /\ shown \in [PolicyClients -> 1..MaxPolicyVersion]
    /\ policyReq \in [PolicyClients -> PolicyRequest]
    /\ accepted \in Seq(Update)

\* update_risk_policy overwrites nothing its author was not shown: the i-th
\* accepted update was composed on version i, and the version counts them
\* all, whoever created the row and however the requests interleave
UpdatesFollowWhatWasShown ==
    /\ \A i \in 1..Len(accepted) : accepted[i].base = i
    /\ accepted # <<>> => policyVersion = Len(accepted) + 1
===============================================================================
