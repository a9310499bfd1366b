-------------------------------- MODULE Catalog --------------------------------
(***************************************************************************)
(* The service catalog of one workspace: create_service and update_service *)
(* of backend/app/operations_services.py and the cycle check they share,   *)
(* _validate_service_dependencies.                                         *)
(*                                                                         *)
(* The check selects every service of the workspace FOR UPDATE.  Under     *)
(* READ COMMITTED the statement returns the rows that existed when it      *)
(* began (its snapshot), each at its latest version once its lock is       *)
(* granted; a service committed while the statement waits is not among     *)
(* them.  The locks are held until the transaction ends.  Services are     *)
(* never deleted.                                                          *)
(*                                                                         *)
(* Left out: the columns other than dependencies, and audit rows.  A slug  *)
(* or a repository the request may not use, a role that is too low and a   *)
(* process that stops all end a request without a write: Abandon.          *)
(***************************************************************************)
EXTENDS Naturals, FiniteSets

CONSTANTS
    Services,       \* service identifiers
    Seeded,         \* the services the workspace starts with
    CatalogClients, \* concurrent requests
    NoService

ASSUME CatalogAssumption ==
    /\ Seeded \subseteq Services
    /\ NoService \notin Services

VARIABLES
    services,  \* the rows of the workspace
    deps,      \* per service: its dependencies column
    known,     \* per service: the services the request that wrote deps saw
    edit       \* per client: its request

catalogVars == <<services, deps, known, edit>>

NoEdit == [step |-> "idle", service |-> NoService, new |-> {}, was |-> {},
           rows |-> {}]

Edit ==
    [step : {"idle", "create", "update", "waitCreate", "waitUpdate",
             "insert", "write"},
     service : Services \cup {NoService},
     new : SUBSET Services,     \* payload.dependencies
     was : SUBSET Services,     \* dependencies of the copy session.get loaded
     rows : SUBSET Services]    \* the snapshot of SELECT ... FOR UPDATE

CatalogInit ==
    /\ services = Seeded
    /\ deps = [s \in Services |-> {}]
    /\ known = [s \in Services |-> Seeded]
    /\ edit = [c \in CatalogClients |-> NoEdit]

Ends(c) == edit' = [edit EXCEPT ![c] = NoEdit]

Fresh(s) == s \notin services /\ \A c \in CatalogClients : edit[c].service # s

\* create_service draws a new identifier; update_service loads its row.  A
\* service that names itself is refused before anything is read.
CreateService(c) ==
    /\ edit[c].step = "idle"
    /\ \E s \in Services, new \in SUBSET Services :
         /\ Fresh(s) /\ s \notin new
         /\ edit' = [edit EXCEPT ![c] = [NoEdit EXCEPT
                       !.step = "create", !.service = s, !.new = new]]
    /\ UNCHANGED <<services, deps, known>>

UpdateService(c) ==
    /\ edit[c].step = "idle"
    /\ \E s \in services, new \in SUBSET Services :
         /\ s \notin new
         /\ edit' = [edit EXCEPT ![c] = [NoEdit EXCEPT
                       !.step = "update", !.service = s, !.new = new,
                       !.was = deps[s]]]
    /\ UNCHANGED <<services, deps, known>>

\* The SELECT of all services begins: what it will return is settled
Snapshot(c) ==
    /\ edit[c].step \in {"create", "update"}
    /\ edit' = [edit EXCEPT
         ![c].step = IF @ = "create" THEN "waitCreate" ELSE "waitUpdate",
         ![c].rows = services]
    /\ UNCHANGED <<services, deps, known>>

Checked(c) == edit[c].step \in {"insert", "write"}

\* SELECT without FOR UPDATE, which is also what SQLite makes of it
CanLockAlways(c) == TRUE

\* No other transaction holds a row this request has to lock
CanLock(c) ==
    \A d \in CatalogClients \ {c} :
        Checked(d) => edit[d].rows \cap edit[c].rows = {}

\* graph: the rows as locked, with the service's new edges; a dependency that
\* is not among the rows has no edges
Graph(c) ==
    [s \in edit[c].rows \cup {edit[c].service} |->
        IF s = edit[c].service THEN edit[c].new ELSE deps[s]]

\* visit(node) meets a node it has not left: some set of nodes is never left
Cyclic(graph) ==
    \E S \in SUBSET DOMAIN graph :
        S # {} /\ \A s \in S : graph[s] \cap S # {}

\* Dependencies that name no service of the workspace pass
ValidIfAcyclic(c) == ~Cyclic(Graph(c))

Valid(c) == edit[c].new \subseteq edit[c].rows /\ ~Cyclic(Graph(c))

\* The locks are granted and _validate_service_dependencies returns, or raises
Validate(c) ==
    /\ edit[c].step \in {"waitCreate", "waitUpdate"}
    /\ CanLock(c)
    /\ \/ /\ Valid(c)
          /\ edit' = [edit EXCEPT ![c].step =
                        IF @ = "waitCreate" THEN "insert" ELSE "write"]
       \/ ~Valid(c) /\ Ends(c)
    /\ UNCHANGED <<services, deps, known>>

\* The transaction commits.  The ORM writes the column only if the value set
\* differs from the one session.get had loaded.
CommitService(c) ==
    /\ Checked(c)
    /\ LET e == edit[c] IN
       /\ services' = services \cup {e.service}
       /\ IF e.step = "insert" \/ e.new # e.was
            THEN /\ deps' = [deps EXCEPT ![e.service] = e.new]
                 /\ known' = [known EXCEPT
                                ![e.service] = e.rows \cup {e.service}]
            ELSE UNCHANGED <<deps, known>>
    /\ Ends(c)

\* The request ends without a commit
Abandon(c) ==
    /\ edit[c].step # "idle"
    /\ Ends(c)
    /\ UNCHANGED <<services, deps, known>>

CatalogNext ==
    \E c \in CatalogClients :
        \/ CreateService(c)
        \/ UpdateService(c)
        \/ Snapshot(c)
        \/ Validate(c)
        \/ CommitService(c)
        \/ Abandon(c)

CatalogSpec == CatalogInit /\ [][CatalogNext]_catalogVars

-------------------------------------------------------------------------------
\* Types; every dependency names a service of the workspace
CatalogTypeOK ==
    /\ services \in SUBSET Services
    /\ deps \in [Services -> SUBSET services]
    /\ known \in [Services -> SUBSET services]
    /\ edit \in [CatalogClients -> Edit]

\* _validate_service_dependencies keeps the catalog free of cycles however
\* requests interleave, as long as no request missed a service of the cycle:
\* in every set of services whose edges were all written by requests that saw
\* the whole set, some service depends on none of the others.  The proviso is
\* needed: a service created while a request waits for its locks is not in
\* the graph that request checks.
AcyclicWhereSeen ==
    \A S \in SUBSET services :
        (S # {} /\ \A s \in S : S \subseteq known[s])
            => \E s \in S : deps[s] \cap S = {}
===============================================================================
