----------------------------- MODULE UserContext -----------------------------
(***************************************************************************)
(* The context of one user, the workspace, repository and scenario the     *)
(* console shows: backend/app/tenant.py, and create_workspace,             *)
(* create_repository and accept_invitation of workspace_services.py.       *)
(*                                                                         *)
(* Authentication loads the row at the start of a request, so the copy a   *)
(* handler changes may be old when it commits.  The ORM writes only the    *)
(* columns that differ from the copy.  The three columns have foreign keys *)
(* of their own; nothing in the database says that they fit together.      *)
(*                                                                         *)
(* Left out: roles, audit rows, and the legacy workspace that a            *)
(* development server gives a user with no membership.  A repository has   *)
(* one scenario, told by the repository's name.                            *)
(***************************************************************************)
EXTENDS Naturals, FiniteSets

CONSTANTS
    Tabs,        \* the user's requests, one at a time per tab
    Workspaces,
    Repos,       \* repositories, with their scenarios
    WorkspaceOf, \* the workspace of each
    Nothing      \* NULL

ASSUME ContextAssumption ==
    /\ WorkspaceOf \in [Repos -> Workspaces]
    /\ Nothing \notin Repos \cup Workspaces

VARIABLES
    context,   \* the UserContext row
    joined,    \* workspaces the user is a member of
    repos,     \* repositories that exist
    tab,       \* per tab: its request, and the row it loaded
    crossed    \* two requests that write the row once overlapped

contextVars == <<context, joined, repos, tab, crossed>>

Column == Repos \cup {Nothing}

ContextRow ==
    [workspace : Workspaces \cup {Nothing}, repository : Column,
     scenario : Column]

NoContext ==
    [workspace |-> Nothing, repository |-> Nothing, scenario |-> Nothing]

Closed == [open |-> FALSE]

ContextInit ==
    /\ context = NoContext
    /\ joined = {}
    /\ repos \in SUBSET Repos
    /\ tab = [t \in Tabs |-> Closed]
    /\ crossed = FALSE

In(w) == {r \in repos : WorkspaceOf[r] = w}

\* The request loads the row and decides what the row shall be
Loads(t, row, workspace, repository) ==
    /\ ~tab[t].open
    /\ tab' = [tab EXCEPT ![t] =
                 [open |-> TRUE, was |-> context, row |-> row,
                  workspace |-> workspace, repository |-> repository]]
    /\ crossed' = (crossed \/ \E o \in Tabs : tab[o].open)
    /\ UNCHANGED <<context, joined, repos>>

Row(w, r, s) == [workspace |-> w, repository |-> r, scenario |-> s]

Writes(t, row) == Loads(t, row, Nothing, Nothing)

\* ensure_context: the first request of a member without a row
EnsureContext(t) ==
    /\ context = NoContext
    /\ \E w \in joined :
         \/ In(w) = {} /\ Writes(t, Row(w, Nothing, Nothing))
         \/ \E r \in In(w) : Writes(t, Row(w, r, r))

\* A repository that is not named keeps its old value
SelectKeepsRepository(t) ==
    \E w \in joined :
        \E r \in In(w) \cup {context.repository} :
            \E s \in {r, Nothing} :
                Writes(t, Row(w, r, s))

\* select_user_context: a repository and a scenario of the workspace, if any
\* are named; a scenario brings its repository with it
SelectContext(t) ==
    \E w \in joined :
        \E r \in In(w) \cup {Nothing} :
            \E s \in {r, Nothing} :
                Writes(t, Row(w, r, s))

\* scenario_activate: the scenario is looked up in the workspace loaded
ActivateScenario(t) ==
    /\ context # NoContext
    /\ \E r \in In(context.workspace) :
         Writes(t, Row(context.workspace, r, r))

\* create_workspace and accept_invitation join a workspace and select it for a
\* user without a row
JoinWorkspace(t) ==
    \E w \in Workspaces \ joined :
        Loads(t, IF context = NoContext THEN Row(w, Nothing, Nothing)
                 ELSE context, w, Nothing)

\* create_repository selects the new repository if none is selected
CreateRepository(t) ==
    \E r \in Repos \ repos :
        /\ WorkspaceOf[r] \in joined
        /\ Loads(t, IF context.workspace = WorkspaceOf[r]
                       /\ context.repository = Nothing
                    THEN [context EXCEPT !.repository = r] ELSE context,
                 Nothing, r)

\* The columns that differ from the copy are written
Merged(row, was, stored) ==
    [c \in DOMAIN row |-> IF row[c] = was[c] THEN stored[c] ELSE row[c]]

\* The commit.  A second INSERT of the row breaks its key and fails the whole
\* request.
CommitContext(t) ==
    LET q == tab[t] IN
    /\ q.open
    /\ IF q.was = NoContext /\ q.row # NoContext /\ context # NoContext
         THEN UNCHANGED <<context, joined, repos>>
         ELSE /\ context' = Merged(q.row, q.was, context)
              /\ joined' = joined \cup ({q.workspace} \ {Nothing})
              /\ repos' = repos \cup ({q.repository} \ {Nothing})
    /\ tab' = [tab EXCEPT ![t] = Closed]
    /\ UNCHANGED crossed

\* The request ends before its commit
DropTab(t) ==
    /\ tab[t].open
    /\ tab' = [tab EXCEPT ![t] = Closed]
    /\ UNCHANGED <<context, joined, repos, crossed>>

ContextNext ==
    \E t \in Tabs :
        \/ EnsureContext(t) \/ SelectContext(t) \/ ActivateScenario(t)
        \/ JoinWorkspace(t) \/ CreateRepository(t)
        \/ CommitContext(t) \/ DropTab(t)

ContextSpec == ContextInit /\ [][ContextNext]_contextVars

-------------------------------------------------------------------------------
ContextTypeOK ==
    /\ context \in ContextRow
    /\ joined \in SUBSET Workspaces /\ repos \in SUBSET Repos
    /\ \A t \in Tabs : tab[t].open => tab[t].row \in ContextRow
    /\ crossed \in BOOLEAN

\* However the user's requests interleave, the workspace of the context is one
\* the user belongs to: resolve_tenant_scope binds row level security to it
ContextIsAMembership == context # NoContext => context.workspace \in joined

\* tenant.py: the repository and the scenario belong to the workspace, unless
\* two requests that write the row once overlapped: each writes the columns it
\* changed, and a row of both their halves is left
ContextFitsUnlessCrossed ==
    ~crossed =>
        /\ context.repository # Nothing =>
             WorkspaceOf[context.repository] = context.workspace
        /\ context.scenario \in {context.repository, Nothing}

\* The stored context names a workspace of the user and, unless two writes
\* crossed, things that belong to this workspace
ContextIsCoherent == ContextIsAMembership /\ ContextFitsUnlessCrossed
===============================================================================
