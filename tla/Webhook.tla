-------------------------------- MODULE Webhook --------------------------------
(***************************************************************************)
(* GitHub's signed webhooks: process_github_webhook of                     *)
(* backend/app/services.py with what it calls, upsert_github_deployment of *)
(* deployment_services.py, and the endpoints that link, synchronise and    *)
(* disconnect the installation (provider_services.py).  One workspace, its *)
(* connection, one repository and one deployment of it.                    *)
(*                                                                         *)
(* GitHub sends a delivery once, and again when somebody asks it to.  The  *)
(* endpoint blocks its event loop, so one API process handles one delivery *)
(* at a time; between two commits of a handler other processes and the     *)
(* user's requests run.  Rows a session has loaded are not reloaded after  *)
(* its commits (expire_on_commit=False), and an update writes the columns  *)
(* that differ from the loaded copy.                                       *)
(*                                                                         *)
(* Left out: rejected signatures and unlinked installations, which change  *)
(* nothing in production, a delivery id reused by another installation,    *)
(* audit rows, and what the analysis computes.                             *)
(***************************************************************************)
EXTENDS Naturals, FiniteSets

CONSTANTS
    Processes,   \* processes of the API server
    Deliveries,  \* delivery ids GitHub sends
    Event,       \* per delivery: kind, change, raw state and time of its event
    Changes,     \* changes the pull requests are analysed as
    Matching,    \* the changes whose commit is the one deployed
    None,        \* no delivery, no change
    MaxReceived, \* bound: webhooks received
    MaxCalls,    \* bound: requests of the user
    MaxTime      \* bound: the provider's and the server's timestamps

Kinds == {"pull_request", "workflow_run", "deployment", "installation", "other"}

ASSUME WebhookAssumption ==
    /\ None \notin Deliveries \cup Changes
    /\ Matching \subseteq Changes
    /\ MaxReceived \in Nat /\ MaxCalls \in Nat /\ MaxTime \in Nat
    /\ \A d \in Deliveries :
          /\ Event[d].kind \in Kinds
          /\ Event[d].at \in 1..MaxTime
          /\ Event[d].kind = "pull_request" => Event[d].change \in Changes

VARIABLES
    conn,       \* connection_state of the connection, "absent" if there is none
    selected,   \* the repository is selected
    callback,   \* the installation callback: the state it loaded and will store
    received, calls,  \* webhooks and requests of the user so far
    delivery,   \* status of the webhook_deliveries row of a delivery
    events,     \* deliveries with a row in the operational event ledger
    created,    \* per change: created_at of its record, 0 if there is none
    deployed,   \* per change: deployment_status of its record
    active,     \* active_change_id of the repository's scenario
    jobs,       \* changes with a Check publication job in the outbox
    row,        \* the deployment's record
    h,          \* per process: its place in the handler and what it loaded
    stopped,    \* deliveries whose handler stopped half-way (history)
    unwatched   \* pull requests handled while not connected (history)

link == <<conn, selected, callback, calls>>
changeVars == <<created, deployed, active, jobs>>
history == <<stopped, unwatched>>
vars == <<link, received, delivery, events, changeVars, row, h, history>>

Status == {"queued", "in_progress", "succeeded", "failed", "cancelled",
           "inactive", "unknown"}
Finished == {"succeeded", "failed", "cancelled", "inactive"}

\* The status a deployment gets from the state GitHub reports.
Normalized(raw) ==
    CASE raw \in {"created", "queued", "pending"} -> "queued"
      [] raw \in {"in_progress", "cancelled", "inactive"} -> raw
      [] raw = "success" -> "succeeded"
      [] raw \in {"failure", "error"} -> "failed"
      [] OTHER -> "unknown"

\* The deployment_status of the change a deployment is linked to.
Legacy(s) ==
    CASE s = "queued" -> "pending"
      [] s = "succeeded" -> "deployed"
      [] OTHER -> s

LegacyStatus == {"not_deployed", "pending", "in_progress", "deployed", "failed",
                 "cancelled", "inactive", "unknown"}
ConnState == {"absent", "pending_verification", "connected", "revoked"}
DeliveryStatus == {"absent", "processing", "processed", "failed", "verified",
                   "verified_unmapped", "ignored"}

Row == [version : Nat, status : Status, at : 0..MaxTime, finished : 0..MaxTime,
        change : Changes \cup {None}, last : Deliveries \cup {None}]
NoRow == [version |-> 0, status |-> "unknown", at |-> 0, finished |-> 0,
          change |-> None, last |-> None]

Pc == {"idle", "record", "mark", "analyze", "insert", "activate", "event",
       "enqueue", "store", "upsert", "write", "finish", "fail"}

\* A handler: the delivery it handles and its copies of the delivery's status,
\* the connection's state, the repository, the scenario's active change, the
\* deployment, the change matched to it and that change's deployment_status.
Handler == [pc : Pc, d : Deliveries \cup {None}, seen : DeliveryStatus,
            conn : ConnState, selected : BOOLEAN,
            active : Changes \cup {None}, row : Row,
            match : Changes \cup {None}, was : LegacyStatus]
Idle == [pc |-> "idle", d |-> None, seen |-> "absent", conn |-> "absent",
         selected |-> FALSE, active |-> None, row |-> NoRow,
         match |-> None, was |-> "not_deployed"]

NoCallback == [was |-> "absent", new |-> "absent"]

Init ==
    /\ conn = "absent" /\ selected = FALSE
    /\ callback = NoCallback
    /\ received = 0 /\ calls = 0
    /\ delivery = [d \in Deliveries |-> "absent"]
    /\ events = {}
    /\ created = [c \in Changes |-> 0]
    /\ deployed = [c \in Changes |-> "not_deployed"]
    /\ active = None
    /\ jobs = {}
    /\ row = NoRow
    /\ h = [p \in Processes |-> Idle]
    /\ stopped = {}
    /\ unwatched = {}

-----------------------------------------------------------------------------
(* The installation callback, the repository sync and the disconnection. *)

Installations == {d \in Deliveries : Event[d].kind = "installation"}
Verified ==
    {d \in Installations : delivery[d] \in {"verified", "verified_unmapped"}}

Called == calls < MaxCalls /\ calls' = calls + 1

\* Mutant: the callback is believed without a signed event
CallbackTrusts ==
    /\ callback = NoCallback
    /\ Called
    /\ callback' = [was |-> conn, new |-> "connected"]
    /\ UNCHANGED <<conn, selected, received, delivery, events, changeVars, row,
                   h, history>>

\* complete_github_installation loads the connection and looks for a signed
\* installation event ...
CallbackRead ==
    /\ callback = NoCallback
    /\ Called
    /\ callback' = [was |-> conn, new |-> IF Verified # {} THEN "connected"
                                         ELSE "pending_verification"]
    /\ UNCHANGED <<conn, selected, received, delivery, events, changeVars, row,
                   h, history>>

\* ... and commits the connection's state, if that differs from the loaded one.
CallbackCommit ==
    /\ callback # NoCallback
    /\ conn' = IF callback.new = callback.was THEN conn ELSE callback.new
    /\ callback' = NoCallback
    /\ UNCHANGED <<selected, calls, received, delivery, events, changeVars, row,
                   h, history>>

\* sync_github_repositories selects the repository or leaves it out, whatever
\* the connection's state.
Sync(choice) ==
    /\ conn # "absent"
    /\ Called
    /\ selected' = choice
    /\ UNCHANGED <<conn, callback, received, delivery, events, changeVars, row,
                   h, history>>

\* disconnect_github revokes the connection and deselects the repositories.
Disconnect ==
    /\ conn # "absent"
    /\ Called
    /\ conn' = "revoked"
    /\ selected' = FALSE
    /\ UNCHANGED <<callback, received, delivery, events, changeVars, row, h,
                   history>>

-----------------------------------------------------------------------------
(* A delivery arrives. *)

Kind(p) == Event[h[p].d].kind
Change(p) == Event[h[p].d].change
At(p, pc) == h[p].pc = pc
Goto(p, pc) == h' = [h EXCEPT ![p].pc = pc]
Done(p) == h' = [h EXCEPT ![p] = Idle]

\* GitHub sends a delivery to an idle process, which loads what is recorded of
\* it, the connection and the repository.  A delivery that was recorded and
\* can need nothing more is answered at once, and so is an installation that
\* no workspace is linked to.
Receive(p, d) ==
    /\ At(p, "idle")
    /\ received < MaxReceived
    /\ received' = received + 1
    /\ IF \/ Event[d].kind \in {"installation", "other"} /\ delivery[d] # "absent"
          \/ Event[d].kind # "installation" /\ conn = "absent"
          \/ Event[d].kind = "pull_request" /\ delivery[d] = "processed"
       THEN UNCHANGED h
       ELSE h' = [h EXCEPT ![p] = [Idle EXCEPT !.pc = "record", !.d = d,
                     !.seen = delivery[d], !.conn = conn, !.selected = selected]]
    /\ UNCHANGED <<link, delivery, events, changeVars, row, history>>

\* Mutant: a delivery is recorded as processed
NewStatusDone(kind, known) ==
    IF ~known THEN "ignored"
    ELSE IF kind = "other" THEN "verified" ELSE "processed"

\* The status a delivery is recorded with.
NewStatus(kind, known) ==
    CASE ~known -> "ignored"
      [] known /\ kind = "other" -> "verified"
      [] OTHER -> "processing"

\* What is done after the delivery is recorded: nothing without a repository.
After(kind, known) ==
    CASE known /\ kind = "pull_request" -> "mark"
      [] known /\ kind \in {"workflow_run", "deployment"} -> "event"
      [] OTHER -> "idle"

InstallationState(raw) ==
    IF raw \in {"deleted", "suspend"} THEN "revoked" ELSE "connected"

\* An installation event sets the connection's state and records the delivery
\* in one commit, which fails if the delivery has been recorded meanwhile.
RecordInstallation(p) ==
    LET d == h[p].d
        new == InstallationState(Event[d].state)
    IN /\ At(p, "record") /\ Kind(p) = "installation"
       /\ IF delivery[d] # "absent" THEN UNCHANGED <<conn, delivery>>
          ELSE /\ delivery' = [delivery EXCEPT ![d] =
                                  IF h[p].conn = "absent" THEN "verified_unmapped"
                                  ELSE "verified"]
               /\ conn' = IF h[p].conn \in {"absent", new} THEN conn ELSE new
       /\ Done(p)
       /\ UNCHANGED <<selected, callback, calls, received, events, changeVars,
                      row, history>>

\* Any other event is recorded unless it was when the handler began.  If
\* another process recorded it meanwhile the insert fails and so does the
\* request.
Record(p) ==
    LET d == h[p].d
        new == NewStatus(Kind(p), h[p].selected)
        next == After(Kind(p), h[p].selected)
    IN /\ At(p, "record") /\ Kind(p) # "installation"
       /\ CASE h[p].seen = "absent" /\ delivery[d] # "absent" ->
                  UNCHANGED delivery /\ Done(p)
            [] h[p].seen = "absent" /\ delivery[d] = "absent" ->
                  /\ delivery' = [delivery EXCEPT ![d] = new]
                  /\ IF next = "idle" THEN Done(p)
                     ELSE h' = [h EXCEPT ![p].pc = next, ![p].seen = new]
            [] OTHER ->
                  /\ UNCHANGED delivery
                  /\ IF next = "idle" THEN Done(p) ELSE Goto(p, next)
       /\ UNCHANGED <<link, received, events, changeVars, row, history>>

-----------------------------------------------------------------------------
(* A pull request. *)

\* The delivery is marked processing, if the loaded copy says anything else.
Mark(p) ==
    /\ At(p, "mark")
    /\ delivery' = IF h[p].seen = "processing" THEN delivery
                   ELSE [delivery EXCEPT ![h[p].d] = "processing"]
    /\ h' = [h EXCEPT ![p].pc = "analyze", ![p].seen = "processing"]
    /\ UNCHANGED <<link, received, events, changeVars, row, history>>

\* Mutant: the change is used without being inserted
AnalyzeAnew(p) ==
    /\ At(p, "analyze")
    /\ h' = [h EXCEPT ![p].pc = "activate", ![p].active = active]
    /\ UNCHANGED <<link, received, delivery, events, changeVars, row, history>>

\* analyze_change loads the scenario and the change of that content.
Analyze(p) ==
    /\ At(p, "analyze")
    /\ h' = [h EXCEPT
                ![p].pc = IF created[Change(p)] = 0 THEN "insert" ELSE "activate",
                ![p].active = active]
    /\ UNCHANGED <<link, received, delivery, events, changeVars, row, history>>

\* It inserts the change; the key is taken if another process did meanwhile.
InsertChange(p, now) ==
    LET c == Change(p)
    IN /\ At(p, "insert")
       /\ IF created[c] # 0 THEN UNCHANGED created /\ Goto(p, "fail")
          ELSE created' = [created EXCEPT ![c] = now] /\ Goto(p, "activate")
       /\ UNCHANGED <<link, received, delivery, events, deployed, active, jobs,
                      row, history>>

\* The change becomes the scenario's active one.
Activate(p) ==
    /\ At(p, "activate")
    /\ active' = IF h[p].active = Change(p) THEN active ELSE Change(p)
    /\ Goto(p, "event")
    /\ UNCHANGED <<link, received, delivery, events, created, deployed, jobs,
                   row, history>>

\* enqueue_github_check_publication: no job unless the loaded connection is
\* connected, none if the outbox has one, else one is inserted, uncommitted.
Enqueue(p) ==
    /\ At(p, "enqueue")
    /\ Goto(p, IF h[p].conn = "connected" /\ Change(p) \notin jobs THEN "store"
               ELSE "finish")
    /\ unwatched' = IF h[p].conn = "connected" THEN unwatched
                    ELSE unwatched \cup {h[p].d}
    /\ UNCHANGED <<link, received, delivery, events, changeVars, row, stopped>>

\* The job and the delivery's status are committed together; the key is taken
\* if another process committed the job meanwhile.
Store(p) ==
    LET c == Change(p)
    IN /\ At(p, "store")
       /\ IF c \in jobs THEN UNCHANGED <<jobs, delivery>> /\ Goto(p, "fail")
          ELSE /\ jobs' = jobs \cup {c}
               /\ delivery' = [delivery EXCEPT ![h[p].d] = "processed"]
               /\ Done(p)
       /\ UNCHANGED <<link, received, events, created, deployed, active, row,
                      history>>

InTry == {"analyze", "insert", "activate", "enqueue", "store"}

\* A step of the analysis raises: what is uncommitted is rolled back.
Throw(p) ==
    /\ \/ h[p].pc \in InTry
       \/ h[p].pc \in {"event", "finish"} /\ Kind(p) = "pull_request"
    /\ Goto(p, "fail")
    /\ UNCHANGED <<link, received, delivery, events, changeVars, row, history>>

\* Mutant: the failure is not recorded
FailSilently(p) ==
    /\ At(p, "fail")
    /\ Done(p)
    /\ UNCHANGED <<link, received, delivery, events, changeVars, row, history>>

\* The handler records that the delivery failed, and raises.
Fail(p) ==
    /\ At(p, "fail")
    /\ delivery' = [delivery EXCEPT ![h[p].d] = "failed"]
    /\ Done(p)
    /\ UNCHANGED <<link, received, events, changeVars, row, history>>

-----------------------------------------------------------------------------
(* The event ledger, and a deployment. *)

\* The event is in the ledger after this, whoever inserted it.
RecordEvent(p) ==
    /\ At(p, "event")
    /\ events' = events \cup {h[p].d}
    /\ Goto(p, CASE Kind(p) = "pull_request" -> "enqueue"
                 [] Kind(p) = "deployment" -> "upsert"
                 [] OTHER -> "finish")
    /\ UNCHANGED <<link, received, delivery, changeVars, row, history>>

\* The changes of the deployed commit that are not younger than the event.
Eligible(at) == {c \in Matching : created[c] \in 1..at}
Latest(at) ==
    {c \in Eligible(at) : \A e \in Eligible(at) : created[e] <= created[c]}

\* Mutant: the time of the event is not compared
OutdatedNever(copy, d) == copy.version # 0 /\ copy.last = d

\* The record already shows this delivery or a later event.
Outdated(copy, d) ==
    /\ copy.version # 0
    /\ copy.last = d \/ Event[d].at < copy.at

\* upsert_github_deployment loads the newest change of the commit and the
\* deployment, and returns if the deployment is up to date.
UpsertRead(p, c) ==
    LET d == h[p].d
    IN /\ At(p, "upsert")
       /\ IF Latest(Event[d].at) = {} THEN c = None ELSE c \in Latest(Event[d].at)
       /\ h' = [h EXCEPT
                   ![p].pc = IF Outdated(row, d) THEN "finish" ELSE "write",
                   ![p].row = row, ![p].match = c,
                   ![p].was = IF c = None THEN "not_deployed" ELSE deployed[c]]
       /\ UNCHANGED <<link, received, delivery, events, changeVars, row,
                      history>>

\* finished_at of a deployment whose last event is that of d.
FinishedAt(d) ==
    IF Normalized(Event[d].state) \in Finished THEN Event[d].at ELSE 0

\* The record with the event of delivery d applied.
Updated(copy, d, c) ==
    [version |-> copy.version + 1, status |-> Normalized(Event[d].state),
     at |-> Event[d].at, finished |-> FinishedAt(d),
     change |-> IF c = None THEN copy.change ELSE c, last |-> d]

\* An UPDATE of the columns of row that differ between the copy and new.
Column(old, new, stored) == IF new # old THEN new ELSE stored
Flushed(copy, new) ==
    [version |-> Column(copy.version, new.version, row.version),
     status |-> Column(copy.status, new.status, row.status),
     at |-> Column(copy.at, new.at, row.at),
     finished |-> Column(copy.finished, new.finished, row.finished),
     change |-> Column(copy.change, new.change, row.change),
     last |-> Column(copy.last, new.last, row.last)]

\* The matched change's deployment_status is written with the record.
Deployed(p) ==
    LET c == h[p].match
        s == Legacy(Normalized(Event[h[p].d].state))
    IN IF c = None \/ s = h[p].was THEN deployed ELSE [deployed EXCEPT ![c] = s]

\* The commit.  If another process inserted the record meanwhile the insert is
\* rolled back and the upsert starts again, from the row that is there now.
UpsertWrite(p) ==
    LET copy == h[p].row
        new == Updated(copy, h[p].d, h[p].match)
    IN /\ At(p, "write")
       /\ IF copy.version = 0 /\ row.version # 0
          THEN UNCHANGED <<row, deployed>> /\ Goto(p, "upsert")
          ELSE /\ row' = IF copy.version = 0 THEN new ELSE Flushed(copy, new)
               /\ deployed' = Deployed(p)
               /\ Goto(p, "finish")
       /\ UNCHANGED <<link, received, delivery, events, created, active, jobs,
                      history>>

\* The delivery is processed.
Finish(p) ==
    /\ At(p, "finish")
    /\ delivery' = [delivery EXCEPT ![h[p].d] = "processed"]
    /\ Done(p)
    /\ UNCHANGED <<link, received, events, changeVars, row, history>>

\* The process is killed, or a step that no except clause guards raises.
Stop(p) ==
    /\ ~At(p, "idle")
    /\ stopped' = stopped \cup {h[p].d}
    /\ Done(p)
    /\ UNCHANGED <<link, received, delivery, events, changeVars, row,
                   unwatched>>

-----------------------------------------------------------------------------
User ==
    \/ CallbackRead \/ CallbackCommit
    \/ \E choice \in BOOLEAN : Sync(choice)
    \/ Disconnect

PullRequest(p) ==
    \/ Mark(p) \/ Analyze(p) \/ (\E now \in 1..MaxTime : InsertChange(p, now))
    \/ Activate(p) \/ Enqueue(p) \/ Store(p) \/ Throw(p) \/ Fail(p)

Deployment(p) ==
    (\E c \in Matching \cup {None} : UpsertRead(p, c)) \/ UpsertWrite(p)

Handle(p) ==
    \/ \E d \in Deliveries : Receive(p, d)
    \/ RecordInstallation(p) \/ Record(p)
    \/ PullRequest(p) \/ RecordEvent(p) \/ Deployment(p) \/ Finish(p)
    \/ Stop(p)

Next == User \/ \E p \in Processes : Handle(p)

Spec == Init /\ [][Next]_vars

-----------------------------------------------------------------------------
(* Properties. *)

\* The variables keep their types.
TypeOK ==
    /\ conn \in ConnState /\ selected \in BOOLEAN
    /\ callback \in [was : ConnState, new : ConnState \ {"revoked"}]
    /\ received \in Nat /\ calls \in Nat
    /\ delivery \in [Deliveries -> DeliveryStatus]
    /\ events \subseteq Deliveries
    /\ created \in [Changes -> 0..MaxTime]
    /\ deployed \in [Changes -> LegacyStatus]
    /\ active \in Changes \cup {None}
    /\ jobs \subseteq Changes
    /\ row \in Row
    /\ h \in [Processes -> Handler]
    /\ stopped \subseteq Deliveries
    /\ unwatched \subseteq Deliveries

\* What a pull request's delivery that is processed has left behind.
PullRequestDone(d) ==
    /\ created[Event[d].change] # 0
    /\ Event[d].change \in jobs \/ d \in unwatched

\* A delivery that is processed has had its whole effect, whatever crashed, was
\* sent twice or ran at the same time: its event is in the ledger, the change of
\* a pull request is analysed and its Check publication is in the outbox (unless
\* the installation was not connected), a deployment has its record.
ProcessedIsComplete ==
    \A d \in Deliveries : delivery[d] = "processed" =>
        /\ d \in events
        /\ Event[d].kind = "pull_request" => PullRequestDone(d)
        /\ Event[d].kind = "deployment" => row.version # 0

\* The scenario, the outbox and the deployment name only changes that have been
\* analysed, though each is committed in a transaction of its own.
KnownBeforeUsed ==
    \A c \in jobs \cup {active, row.change} : c # None => created[c] # 0

\* A delivery is left processing, which connector health reports as stuck, only
\* while a handler works on it or because one was stopped half-way.
ProcessingIsOwned ==
    \A d \in Deliveries : delivery[d] = "processing" =>
        d \in stopped \/ \E p \in Processes : h[p].d = d

\* The connection is connected only if GitHub signed an installation event: the
\* browser's callback alone leaves it pending.
ConnectedIsVerified == "connected" \in {conn, callback.new} => Verified # {}

\* The deployment's status, timestamps and finished_at are those of one event,
\* that of the last delivery applied, and never a mixture of two.
RowIsOneDelivery ==
    row.version # 0 =>
        /\ row.status = Normalized(Event[row.last].state)
        /\ row.at = Event[row.last].at
        /\ row.finished = IF row.status \in Finished THEN row.at ELSE 0

\* In whatever order GitHub's deliveries arrive, once a deployment's delivery is
\* processed the record shows its event or one that is not older.
NeverOlder ==
    \A d \in Deliveries :
        Event[d].kind = "deployment" /\ delivery[d] = "processed"
            => row.at >= Event[d].at

\* The change a deployment is linked to has the deployment's status.
ChangeFollowsRow ==
    row.change # None => deployed[row.change] = Legacy(row.status)

\* The deployment record follows GitHub's deliveries, in whatever order they
\* arrive: it shows one delivery in all its columns, none that is older than a
\* delivery already processed, and its change shows the same.
RecordFollowsDeliveries == RowIsOneDelivery /\ NeverOlder /\ ChangeFollowsRow

\* A delivery sent twice has no second effect: the record has no more versions
\* than there are deliveries that were recorded.
AppliedOnce ==
    row.version <= Cardinality({d \in Deliveries :
        Event[d].kind = "deployment" /\ delivery[d] # "absent"})
================================================================================
