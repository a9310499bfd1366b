----------------------------- MODULE EventLedger -----------------------------
(***************************************************************************)
(* The ledger of operational events of one workspace:                      *)
(* ingest_operational_event for members, record_trusted_operational_event  *)
(* for the GitHub adapter, and ingest_telemetry_event for collectors, in   *)
(* backend/app/operations_services.py and backend/app/services.py.         *)
(*                                                                         *)
(* An event is known by its source and its identifier.  The first one      *)
(* stored wins; a later one with the same key is answered with the stored  *)
(* row if the compared material is the same, and refused otherwise.  Here  *)
(* there is one identifier, and the source is the key.  A collector that   *)
(* sends no identifier gets a fresh one, which meets no other event.       *)
(*                                                                         *)
(* The material holds the repository, resolved from the payload and from   *)
(* the service it names when the request is handled, who sent the event,   *)
(* the payload, and when it occurred: the time the event is sent with, or  *)
(* the time of receipt if it has none that is kept.  Telemetry never has   *)
(* one; a GitHub payload lacks it, or is more than five minutes ahead; a   *)
(* member must give one.  An incident resolves a repository like a service *)
(* does and is left out, like texts and audit rows.                        *)
(***************************************************************************)
EXTENDS Naturals

CONSTANTS
    Posts,        \* requests: each is sent once
    Writers,      \* members of the workspace
    Repositories,
    NoRepository,
    Bodies        \* payloads that differ

ASSUME LedgerAssumption == NoRepository \notin Repositories

VARIABLES
    ledger,      \* per source: the material stored, or none
    post,        \* per request: what was sent and its answer
    home,        \* repository_id of the service in the catalog
    moved,       \* the service has changed its repository
    receipts     \* requests received: the time of receipt

ledgerVars == <<ledger, post, home, moved, receipts>>

Adapters == {"github", "telemetry"}
Sources == Adapters \cup {"notes"}
Senders == Adapters \cup Writers

Payload ==
    [sender : Senders, source : Sources, body : Bodies,
     dated : BOOLEAN,               \* occurred at the time it is sent with
     repository : Repositories \cup {NoRepository}, \* named by the payload
     service : BOOLEAN]                             \* names the service

NoMaterial == [origin |-> NoRepository]

LedgerInit ==
    /\ ledger = [s \in Sources |-> NoMaterial]
    /\ post = [p \in Posts |-> [step |-> "new"]]
    /\ home \in Repositories
    /\ moved = FALSE
    /\ receipts = 0

\* _source_is_provider_reserved: adapters own their namespaces
Reserved(source) == source \in Adapters

\* ingest_operational_event refuses a member's event in a reserved namespace
MayWrite(sender, source) == sender \in Adapters \/ ~Reserved(source)

\* The repositories an event names; _effective_event_repository_id refuses two
Named(event) ==
    ({event.repository} \cup (IF event.service THEN {home} ELSE {}))
        \ {NoRepository}

Effective(event) ==
    IF Named(event) = {} THEN NoRepository ELSE CHOOSE r \in Named(event) : TRUE

\* Who may send an event: an adapter names its own source, the telemetry
\* endpoint dates its events itself and a member's event has its own time
Sent(event) ==
    /\ event.sender \in Adapters => event.source = event.sender
    /\ event.sender = "telemetry" => ~event.dated
    /\ event.sender \in Writers => event.dated

\* _event_material: what two events with one key must agree on.  The request
\* identifier is taken out of the provenance.
Material(p, event) ==
    [origin |-> event.sender, repository |-> Effective(event),
     service |-> event.service, body |-> event.body,
     occurred |-> IF event.dated THEN 0 ELSE receipts + 1]

Answered(p, step, event, material) ==
    post' = [post EXCEPT ![p] = [step |-> step, event |-> event,
                                 material |-> material]]

Compared(stored, material) == IF stored = material THEN "ok" ELSE "conflict"

\* The checks, and the look at the ledger
Post(p) ==
    /\ post[p].step = "new"
    /\ \E event \in Payload :
         /\ Sent(event)
         /\ LET material == Material(p, event)
                stored == ledger[event.source]
            IN Answered(p,
                 IF ~MayWrite(event.sender, event.source)
                    \/ \E r, q \in Named(event) : r # q THEN "refused"
                 ELSE IF stored = NoMaterial THEN "insert"
                 ELSE Compared(stored, material), event, material)
    /\ receipts' = receipts + 1
    /\ UNCHANGED <<ledger, home, moved>>

\* The IntegrityError path without its comparison
RacedUnseen(stored, material) == "ok"

\* What the IntegrityError path makes of a row that got in first
Raced(stored, material) == Compared(stored, material)

\* The INSERT commits, or meets a row committed since and reads it
InsertEvent(p) ==
    LET key == post[p].event.source IN
    /\ post[p].step = "insert"
    /\ \/ /\ ledger[key] = NoMaterial
          /\ ledger' = [ledger EXCEPT ![key] = post[p].material]
          /\ post' = [post EXCEPT ![p].step = "ok"]
       \/ /\ ledger[key] # NoMaterial
          /\ post' = [post EXCEPT
               ![p].step = Raced(ledger[key], post[p].material)]
          /\ UNCHANGED ledger
    /\ UNCHANGED <<home, moved, receipts>>

\* The process stops before the commit
LosePost(p) ==
    /\ post[p].step = "insert"
    /\ post' = [post EXCEPT ![p].step = "lost"]
    /\ UNCHANGED <<ledger, home, moved, receipts>>

\* update_service gives the service another repository
MoveService ==
    /\ \E r \in Repositories \ {home} : home' = r
    /\ moved' = TRUE
    /\ UNCHANGED <<ledger, post, receipts>>

LedgerNext ==
    \/ \E p \in Posts : Post(p) \/ InsertEvent(p) \/ LosePost(p)
    \/ MoveService

LedgerSpec == LedgerInit /\ [][LedgerNext]_ledgerVars

-------------------------------------------------------------------------------
LedgerTypeOK ==
    /\ \A s \in Sources :
         ledger[s] = NoMaterial \/ ledger[s].origin \in Senders
    /\ \A p \in Posts :
         post[p].step \in {"new", "insert", "ok", "conflict", "refused", "lost"}
    /\ home \in Repositories /\ moved \in BOOLEAN

\* _record_normalized_operational_event: whoever was told "accepted" finds
\* exactly what it sent in the ledger, also when two requests raced
AcceptedIsStored ==
    \A p \in Posts :
        post[p].step = "ok" => ledger[post[p].event.source] = post[p].material

\* Reserved sources: an adapter is never refused because of what a member
\* wrote
AdaptersAreNotCrowdedOut ==
    \A p \in Posts :
        (post[p].step = "conflict" /\ post[p].event.sender \in Adapters)
            => ledger[post[p].event.source].origin = post[p].event.sender

\* A sender that repeats an event it was told is accepted is told so again,
\* whichever copy came first, unless the service it names moved to another
\* repository in between or the event occurred, for the ledger, when it was
\* received.  Every telemetry event does: that "Stable event IDs make retries
\* idempotent" (docs/API_CONTRACT.md) is not what the code does for them
RepeatIsAccepted ==
    \A p, q \in Posts :
        (post[p].step = "ok" /\ post[q].step = "conflict"
            /\ post[p].event = post[q].event)
        => moved \/ ~post[p].event.dated

\* What senders are told of their events is true of the ledger: an acceptance
\* of what was stored, a conflict neither of somebody else's making nor of a
\* mere repetition
AnswersMatchLedger ==
    AcceptedIsStored /\ AdaptersAreNotCrowdedOut /\ RepeatIsAccepted
===============================================================================
