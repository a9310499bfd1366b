----------------------------- MODULE InstallState -----------------------------
(***************************************************************************)
(* The authorization state that ties a GitHub App installation to a        *)
(* workspace: begin_github_installation and complete_github_installation   *)
(* of backend/app/provider_services.py.  GitHub (external) redirects the   *)
(* browser back with the state and an installation, and a browser may do   *)
(* so again.                                                               *)
(*                                                                         *)
(* The callback reads the state, asks GitHub, looks at the connections,    *)
(* and commits the connection together with consumed_at.  Nothing is       *)
(* locked in between.  The state of the connection itself, and what        *)
(* webhooks do to it, is in Webhook.                                       *)
(***************************************************************************)
EXTENDS Naturals, FiniteSets

CONSTANTS
    Callbacks,      \* callbacks under way at the same time
    States,         \* authorization states
    Tenants,        \* workspaces
    Installations,
    NotLinked,
    MaxUses         \* bound: callbacks that commit, per state

ASSUME InstallAssumption ==
    NotLinked \notin Installations \cup Tenants /\ MaxUses \in Nat

VARIABLES
    issued,     \* per state: the workspace it was issued for
    spent,      \* states with consumed_at set
    expired,    \* states whose expires_at has passed
    linked,     \* per workspace: installation_id of its connection
    callback,   \* per callback: where it is and what it read
    uses,       \* per state: callbacks that committed
    shared      \* states two callbacks held at the same time

installVars == <<issued, spent, expired, linked, callback, uses, shared>>

Waiting == [step |-> "idle", state |-> NotLinked]

InstallInit ==
    /\ issued = [s \in States |-> NotLinked]
    /\ spent = {} /\ expired = {} /\ shared = {}
    /\ linked = [w \in Tenants |-> NotLinked]
    /\ callback = [c \in Callbacks |-> Waiting]
    /\ uses = [s \in States |-> 0]

\* begin_github_installation
BeginInstall(w) ==
    /\ \E s \in States :
         issued[s] = NotLinked /\ issued' = [issued EXCEPT ![s] = w]
    /\ UNCHANGED <<spent, expired, linked, callback, uses, shared>>

\* Ten minutes go by
Expire(s) ==
    /\ issued[s] # NotLinked /\ s \notin expired
    /\ expired' = expired \cup {s}
    /\ UNCHANGED <<issued, spent, linked, callback, uses, shared>>

\* The state is read before GitHub is asked
ReadState(c) ==
    /\ callback[c] = Waiting
    /\ \E s \in States, i \in Installations :
         /\ issued[s] # NotLinked /\ s \notin spent \cup expired
         /\ uses[s] < MaxUses
         /\ callback' = [callback EXCEPT ![c] =
                           [step |-> "asked", state |-> s, installation |-> i]]
         /\ shared' = shared \cup
              {t \in {s} : \E d \in Callbacks : callback[d].state = t}
    /\ UNCHANGED <<issued, spent, expired, linked, uses>>

Elsewhere(i, w) == \E v \in Tenants \ {w} : linked[v] = i

\* GitHub has answered: an installation of another workspace is refused, and
\* the workspace's connection is read
ReadConnection(c) ==
    LET b == callback[c] IN
    /\ b.step = "asked"
    /\ callback' = [callback EXCEPT ![c] =
         IF Elsewhere(b.installation, issued[b.state]) THEN Waiting
         ELSE [b EXCEPT !.step =
                 IF linked[issued[b.state]] = NotLinked THEN "insert"
                 ELSE "update"]]
    /\ UNCHANGED <<issued, spent, expired, linked, uses, shared>>

\* installation_id is not unique
BreaksKeyOfWorkspace(step, i, w) == step = "insert" /\ linked[w] # NotLinked

\* uq_workspace_provider_connection and the unique installation_id
BreaksKey(step, i, w) ==
    Elsewhere(i, w) \/ (step = "insert" /\ linked[w] # NotLinked)

\* The states that cannot be used again
Consumed(s) == spent \cup {s}

CommitInstall(c) ==
    LET b == callback[c]
        w == issued[b.state]
    IN
    /\ b.step \in {"insert", "update"}
    /\ IF BreaksKey(b.step, b.installation, w)
         THEN UNCHANGED <<linked, spent, uses>>
         ELSE /\ linked' = [linked EXCEPT ![w] = b.installation]
              /\ spent' = Consumed(b.state)
              /\ uses' = [uses EXCEPT ![b.state] = @ + 1]
    /\ callback' = [callback EXCEPT ![c] = Waiting]
    /\ UNCHANGED <<issued, expired, shared>>

\* GitHub refuses, or the process stops
DropCallback(c) ==
    /\ callback[c] # Waiting
    /\ callback' = [callback EXCEPT ![c] = Waiting]
    /\ UNCHANGED <<issued, spent, expired, linked, uses, shared>>

InstallNext ==
    \/ \E w \in Tenants : BeginInstall(w)
    \/ \E s \in States : Expire(s)
    \/ \E c \in Callbacks :
        \/ ReadState(c) \/ ReadConnection(c)
        \/ CommitInstall(c) \/ DropCallback(c)

InstallSpec == InstallInit /\ [][InstallNext]_installVars

-------------------------------------------------------------------------------
InstallTypeOK ==
    /\ issued \in [States -> Tenants \cup {NotLinked}]
    /\ {spent, expired, shared} \subseteq SUBSET States
    /\ linked \in [Tenants -> Installations \cup {NotLinked}]
    /\ uses \in [States -> Nat]

\* complete_github_installation: a webhook finds its workspace by the
\* installation, so no two workspaces may hold one, whichever callbacks race
InstallationHasOneWorkspace ==
    \A v, w \in Tenants :
        (v # w /\ linked[v] # NotLinked) => linked[v] # linked[w]

\* A state works once, unless two callbacks held it at the same time: both
\* read it before either had set consumed_at
StateIsUsedOnceUnlessShared ==
    \A s \in States : uses[s] > 1 => s \in shared

\* Whichever callbacks race, an installation belongs to one workspace and a
\* state is good for one installation, unless two callbacks held it together
InstallationsAreSound ==
    InstallationHasOneWorkspace /\ StateIsUsedOnceUnlessShared
===============================================================================
