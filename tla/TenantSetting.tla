---------------------------- MODULE TenantSetting ----------------------------
(***************************************************************************)
(* The workspace that row level security sees: backend/app/rls.py.  A      *)
(* session keeps its workspace in session.info; the PostgreSQL policies    *)
(* (external) read a setting of the connection, which sessions share       *)
(* through the pool.  set_config(..., true) makes the setting last until   *)
(* the transaction ends; the after_begin hook applies it again when the    *)
(* session begins another transaction, on whichever connection that is.    *)
(***************************************************************************)
EXTENDS Naturals

CONSTANTS
    Sessions,     \* one per request
    Connections,  \* the pool
    Spaces,       \* workspaces
    NoSpace,      \* no workspace set
    NoConnection

ASSUME SettingAssumption ==
    NoSpace \notin Spaces /\ NoConnection \notin Connections

VARIABLES
    info,      \* per session: session.info[TENANT_SESSION_INFO_KEY]
    uses_conn, \* per session: the connection of its transaction
    setting    \* per connection: deployguard.workspace_id

settingVars == <<info, uses_conn, setting>>

SettingInit ==
    /\ info = [s \in Sessions |-> NoSpace]
    /\ uses_conn = [s \in Sessions |-> NoConnection]
    /\ setting = [c \in Connections |-> NoSpace]

InTransaction(s) == uses_conn[s] # NoConnection

Free(c) == \A s \in Sessions : uses_conn[s] # c

\* The first statement of a transaction; _restore_tenant_context runs
BeginTransaction(s) ==
    /\ ~InTransaction(s)
    /\ \E c \in Connections :
         /\ Free(c)
         /\ uses_conn' = [uses_conn EXCEPT ![s] = c]
         /\ setting' = IF info[s] = NoSpace THEN setting
                       ELSE [setting EXCEPT ![c] = info[s]]
    /\ UNCHANGED info

\* set_tenant_context: now if a transaction is open, at the next begin if not
SetTenantContext(s) ==
    /\ \E w \in Spaces :
         /\ info' = [info EXCEPT ![s] = w]
         /\ setting' = IF InTransaction(s)
                         THEN [setting EXCEPT ![uses_conn[s]] = w]
                         ELSE setting
    /\ UNCHANGED uses_conn

\* set_config(..., false): the setting lasts as long as the connection
AtEndKept(value) == value

\* What set_config(..., is_local = true) leaves behind
AtEnd(value) == NoSpace

\* Commit or rollback: the connection goes back to the pool
EndTransaction(s) ==
    /\ InTransaction(s)
    /\ setting' = [setting EXCEPT ![uses_conn[s]] = AtEnd(@)]
    /\ uses_conn' = [uses_conn EXCEPT ![s] = NoConnection]
    /\ UNCHANGED info

\* The request is over and its session is closed; the next request has its own
CloseSession(s) ==
    /\ ~InTransaction(s)
    /\ info' = [info EXCEPT ![s] = NoSpace]
    /\ UNCHANGED <<uses_conn, setting>>

SettingNext ==
    \E s \in Sessions :
        \/ BeginTransaction(s) \/ SetTenantContext(s)
        \/ EndTransaction(s) \/ CloseSession(s)

SettingSpec == SettingInit /\ [][SettingNext]_settingVars

-------------------------------------------------------------------------------
SettingTypeOK ==
    /\ info \in [Sessions -> Spaces \cup {NoSpace}]
    /\ uses_conn \in [Sessions -> Connections \cup {NoConnection}]
    /\ setting \in [Connections -> Spaces \cup {NoSpace}]

\* Row level security applies the workspace of the request whose transaction
\* it is, after every commit and on every connection, and none to a request
\* that has set none, whatever an earlier request left on the connection
PolicySeesTheRequest ==
    \A s \in Sessions : InTransaction(s) => setting[uses_conn[s]] = info[s]
===============================================================================
