--------------------------- MODULE IncidentLifecycle ---------------------------
(***************************************************************************)
(* The lifecycle of one incident: update_incident_lifecycle,               *)
(* add_incident_note and mark_notification_read of                         *)
(* backend/app/operations_services.py.                                     *)
(*                                                                         *)
(* The status, the assignee, the severity and the timeline are columns of  *)
(* one row; the timeline is a JSON list that each request rewrites as a    *)
(* whole.  A request locks the row with SELECT ... FOR UPDATE, which       *)
(* returns its latest version, and holds the lock until it ends.  Its      *)
(* commit also inserts one notification for each member of the workspace.  *)
(*                                                                         *)
(* Left out: audit rows and texts.  A timeline entry is told by its author *)
(* and its kind.  Members do not leave a workspace in this code.           *)
(***************************************************************************)
EXTENDS Naturals, Sequences, SequencesExt

CONSTANTS
    Responders,  \* members who send requests, one at a time
    NoOne,       \* no assignee, no lock holder
    Severities,
    MaxEntries   \* bound: entries of the timeline

ASSUME LifecycleAssumption ==
    NoOne \notin Responders /\ MaxEntries \in Nat /\ Severities # {}

VARIABLES
    incident,   \* the row
    holder,     \* the request that holds the row lock
    patch,      \* per responder: its request and the copy it read
    inbox       \* per member: its notifications, TRUE once read

lifecycleVars == <<incident, holder, patch, inbox>>

\* INCIDENT_STATUS_ORDER
StatusOrder ==
    [open |-> 0, acknowledged |-> 1, investigating |-> 2, mitigated |-> 3,
     resolved |-> 4]

Statuses == DOMAIN StatusOrder

IncidentRow ==
    [status : Statuses, assignee : Responders \cup {NoOne},
     severity : Severities, resolvedAt : BOOLEAN,
     timeline : Seq(Responders \X {"lifecycle", "note"})]

NoPatch == [kind |-> "none"]

LifecycleInit ==
    /\ \E s \in Severities :
         incident = [status |-> "open", assignee |-> NoOne, severity |-> s,
                     resolvedAt |-> FALSE, timeline |-> <<>>]
    /\ holder = NoOne
    /\ patch = [r \in Responders |-> NoPatch]
    /\ inbox = [r \in Responders |-> <<>>]

\* SELECT without FOR UPDATE
RowFreeAlways == TRUE

\* The lock is free: FOR UPDATE
RowFree == holder = NoOne

Reads(r, kind, row) ==
    /\ RowFree
    /\ holder' = r
    /\ patch' = [patch EXCEPT ![r] = [kind |-> kind, row |-> row]]
    /\ UNCHANGED <<incident, inbox>>

\* The row an update asks for: a field it does not set keeps its value
Changed(row, status, assignee, severity) ==
    [row EXCEPT !.status = status, !.assignee = assignee,
                !.severity = severity,
                !.resolvedAt = @ \/ status = "resolved"]

\* update_incident_lifecycle: the row is read under its lock.  A resolved
\* incident, a move backwards and an update that changes nothing end the
\* request with no write.
ReadLifecycle(r) ==
    /\ patch[r] = NoPatch
    /\ Len(incident.timeline) < MaxEntries
    /\ incident.status # "resolved"
    /\ \E status \in Statuses, a \in Responders \cup {NoOne}, v \in Severities :
         LET row == Changed(incident, status, a, v) IN
         /\ StatusOrder[status] >= StatusOrder[incident.status]
         /\ row # incident
         /\ Reads(r, "lifecycle", row)

ReadNote(r) ==
    /\ patch[r] = NoPatch
    /\ Len(incident.timeline) < MaxEntries
    /\ Reads(r, "note", incident)

\* _timeline_entry
TimelineEntry(r, kind) == <<r, kind>>

\* _create_workspace_notifications: an unread one for every member
Notified == [m \in Responders |-> Append(inbox[m], FALSE)]

\* The commit writes the columns that differ from the copy: all of them for a
\* lifecycle update, the timeline for a note; and the notifications
CommitPatch(r) ==
    LET kind == patch[r].kind
        timeline == Append(patch[r].row.timeline, TimelineEntry(r, kind))
        row == [patch[r].row EXCEPT !.timeline = timeline]
    IN
    /\ patch[r] # NoPatch
    /\ incident' = IF kind = "note"
                     THEN [incident EXCEPT !.timeline = timeline]
                     ELSE row
    /\ inbox' = Notified
    /\ patch' = [patch EXCEPT ![r] = NoPatch]
    /\ holder' = IF holder = r THEN NoOne ELSE holder

\* The request ends without a commit: an assignee who is not a member, a lost
\* connection, a process that stops
DropPatch(r) ==
    /\ patch[r] # NoPatch
    /\ patch' = [patch EXCEPT ![r] = NoPatch]
    /\ holder' = IF holder = r THEN NoOne ELSE holder
    /\ UNCHANGED <<incident, inbox>>

\* mark_notification_read
MarkRead(r) ==
    /\ \E n \in 1..Len(inbox[r]) :
         /\ ~inbox[r][n]
         /\ inbox' = [inbox EXCEPT ![r][n] = TRUE]
    /\ UNCHANGED <<incident, holder, patch>>

LifecycleNext ==
    \E r \in Responders :
        \/ ReadLifecycle(r) \/ ReadNote(r)
        \/ CommitPatch(r) \/ DropPatch(r)
        \/ MarkRead(r)

LifecycleSpec == LifecycleInit /\ [][LifecycleNext]_lifecycleVars

-------------------------------------------------------------------------------
LifecycleTypeOK ==
    /\ incident \in IncidentRow
    /\ holder \in Responders \cup {NoOne}
    /\ patch \in [Responders -> {NoPatch} \cup
                    [kind : {"lifecycle", "note"}, row : IncidentRow]]
    /\ inbox \in [Responders -> Seq(BOOLEAN)]

\* update_incident_lifecycle and add_incident_note lose nothing of each other:
\* whatever two requests do at once, an entry that was committed stays where
\* it is, the status never moves back, a resolved incident keeps its status,
\* assignee and severity, every other change leaves an entry of its own, and
\* every entry notifies every member once
LifecycleOnlyAdds ==
    [][/\ IsPrefix(incident.timeline, incident'.timeline)
       /\ StatusOrder[incident'.status] >= StatusOrder[incident.status]
       /\ incident.status = "resolved" =>
            [incident' EXCEPT !.timeline = <<>>]
                = [incident EXCEPT !.timeline = <<>>]
       /\ incident' # incident =>
            Len(incident'.timeline) = Len(incident.timeline) + 1
       /\ \A m \in Responders :
            Len(inbox'[m]) = Len(incident'.timeline)]_lifecycleVars
===============================================================================
