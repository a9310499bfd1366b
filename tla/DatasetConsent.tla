---------------------------- MODULE DatasetConsent ----------------------------
(***************************************************************************)
(* What has to be true before one incident may enter a dataset:            *)
(* create_postmortem_snapshot, get_dataset_readiness and                   *)
(* record_dataset_consent of backend/app/services.py.                      *)
(*                                                                         *)
(* Nothing is locked: a request reads in one step and commits in another.  *)
(* The rendered text of a snapshot depends on the incident, which a        *)
(* resolution freezes as far as the text goes, and on the verdicts that    *)
(* were committed when it was read: it is told by their number.            *)
(* "Latest" is by created_at, which a request takes before it commits; the *)
(* clock ticks with every request that takes it.                           *)
(*                                                                         *)
(* Left out: audit rows, texts, and the attestations, which an approval    *)
(* must list in full.  A verdict is told by whether it has an author and a *)
(* structured outcome; see Feedback for what else submit_feedback does.    *)
(***************************************************************************)
EXTENDS Naturals, Sequences

CONSTANTS
    Reviewers,   \* members who send requests, one at a time
    Purposes,
    MaxRatings, MaxTicks \* bounds: verdicts, and reads of the clock

ASSUME ConsentAssumption == {MaxRatings, MaxTicks} \subseteq Nat

VARIABLES
    connected,   \* incident.data_mode is "connected"
    resolved,    \* the lifecycle reached resolved
    eligible,    \* per verdict, in the order of the commits: it has an actor
                 \* and a structured outcome
    snapshots,   \* PostmortemSnapshotRecord rows
    decisions,   \* DatasetConsentDecisionRecord rows
    review,      \* per reviewer: its request and what it read
    ticks        \* created_at of the next row

consentVars == <<connected, resolved, eligible, snapshots, decisions, review,
                 ticks>>

Snap == [content : 0..MaxRatings, at : 0..MaxTicks]

Decision ==
    [purpose : Purposes, approved : BOOLEAN, snapshot : Snap, at : 0..MaxTicks,
     knew : Nat]  \* decisions committed when this one was begun

NoReview == [step |-> "idle"]

ConsentInit ==
    /\ connected \in BOOLEAN
    /\ resolved = FALSE
    /\ eligible = <<>> /\ snapshots = {} /\ decisions = <<>>
    /\ review = [r \in Reviewers |-> NoReview]
    /\ ticks = 0

\* The lifecycle commits a resolution; see IncidentLifecycle
Resolve ==
    /\ ~resolved /\ resolved' = TRUE
    /\ UNCHANGED <<connected, eligible, snapshots, decisions, review, ticks>>

\* submit_feedback commits a verdict, before or after the resolution
RecordVerdict ==
    /\ Len(eligible) < MaxRatings
    /\ \E e \in BOOLEAN : eligible' = Append(eligible, e)
    /\ UNCHANGED <<connected, resolved, snapshots, decisions, review, ticks>>

Starts(r, request) ==
    /\ review[r] = NoReview /\ ticks < MaxTicks
    /\ review' = [review EXCEPT ![r] = request]
    /\ ticks' = ticks + 1
    /\ UNCHANGED <<connected, resolved, eligible, snapshots, decisions>>

Finishes(r) ==
    /\ review' = [review EXCEPT ![r] = NoReview]
    /\ UNCHANGED <<connected, resolved, eligible, ticks>>

\* A verdict with an actor and a structured outcome, among the first n
Eligible(n) == \E i \in 1..n : eligible[i]

HasContent(n) == \E s \in snapshots : s.content = n

\* create_postmortem_snapshot up to its INSERT; a snapshot with this content
\* is returned as it is
CreateSnapshot(r) ==
    /\ connected /\ resolved /\ Eligible(Len(eligible))
    /\ ~HasContent(Len(eligible))
    /\ Starts(r, [step |-> "snapshot",
                  new |-> [content |-> Len(eligible), at |-> ticks]])

\* uq_postmortem_incident_content lets one row with this content in; the
\* IntegrityError is not caught and the second request fails
CommitSnapshot(r) ==
    /\ review[r].step = "snapshot"
    /\ snapshots' = IF HasContent(review[r].new.content)
                      THEN snapshots ELSE snapshots \cup {review[r].new}
    /\ Finishes(r)
    /\ UNCHANGED decisions

\* ORDER BY created_at, not DESC
LaterReversed(x, y) == x.at <= y.at

Later(x, y) == x.at >= y.at

LatestSnapshot == CHOOSE s \in snapshots : \A t \in snapshots : Later(s, t)

DecisionsOn(p) == {i \in 1..Len(decisions) : decisions[i].purpose = p}

LatestDecision(p) ==
    decisions[CHOOSE i \in DecisionsOn(p) :
                \A j \in DecisionsOn(p) : Later(decisions[i], decisions[j])]

\* get_dataset_readiness: the requirements but the consent
Prepared ==
    /\ connected /\ resolved
    /\ Eligible(Len(eligible))
    /\ snapshots # {}

Consented(p) ==
    /\ DecisionsOn(p) # {} /\ snapshots # {}
    /\ LatestDecision(p).approved
    /\ LatestDecision(p).snapshot = LatestSnapshot

\* get_dataset_readiness: "ready_for_review"
Ready(p) == Prepared /\ Consented(p)

\* record_dataset_consent up to its INSERT: the decision is about whichever
\* snapshot is the latest; a revocation needs an earlier decision
DecideConsent(r) ==
    /\ connected /\ snapshots # {}
    /\ \E p \in Purposes, approved \in BOOLEAN :
         /\ IF approved THEN Prepared ELSE DecisionsOn(p) # {}
         /\ Starts(r, [step |-> "consent",
                       new |-> [purpose |-> p, approved |-> approved,
                                snapshot |-> LatestSnapshot, at |-> ticks,
                                knew |-> Len(decisions)]])

CommitConsent(r) ==
    /\ review[r].step = "consent"
    /\ decisions' = Append(decisions, review[r].new)
    /\ Finishes(r)
    /\ UNCHANGED snapshots

\* A request ends before its commit
DropReview(r) ==
    /\ review[r] # NoReview
    /\ Finishes(r)
    /\ UNCHANGED <<snapshots, decisions>>

ConsentNext ==
    \/ Resolve \/ RecordVerdict
    \/ \E r \in Reviewers :
        \/ CreateSnapshot(r) \/ CommitSnapshot(r)
        \/ DecideConsent(r) \/ CommitConsent(r)
        \/ DropReview(r)

ConsentSpec == ConsentInit /\ [][ConsentNext]_consentVars

-------------------------------------------------------------------------------
ConsentTypeOK ==
    /\ connected \in BOOLEAN /\ resolved \in BOOLEAN
    /\ eligible \in Seq(BOOLEAN)
    /\ snapshots \in SUBSET Snap
    /\ decisions \in Seq(Decision)
    /\ ticks \in 0..MaxTicks
    /\ \A r \in Reviewers :
         \/ review[r] = NoReview
         \/ review[r].step = "snapshot" /\ review[r].new \in Snap
         \/ review[r].step = "consent" /\ review[r].new \in Decision

\* What get_dataset_readiness calls ready rests on a snapshot that itself
\* holds an attributed, verified verdict; a verdict that arrives after the
\* snapshot does not stand in for it
ReadyIsDocumented ==
    \A p \in Purposes : Ready(p) => Eligible(LatestSnapshot.content)

\* record_dataset_consent: a revocation that was begun once an approval stood
\* ends it.  While the incident is ready, every revocation of this purpose was
\* begun before the approval in force was committed.
RevocationHolds ==
    \A p \in Purposes :
        Ready(p) =>
            \E i \in DecisionsOn(p) :
                /\ decisions[i].approved
                /\ decisions[i].snapshot = LatestSnapshot
                /\ \A j \in DecisionsOn(p) :
                     ~decisions[j].approved => decisions[j].knew < i

\* create_postmortem_snapshot: two requests that render the same text at once
\* leave one snapshot, so that a consent names its content and nothing else
OneSnapshotPerContent ==
    \A s, t \in snapshots : s.content = t.content => s = t

\* An incident counts as ready only on a documented snapshot, under an approval
\* that no revocation has ended, and for a content that one snapshot holds,
\* however snapshots, verdicts and decisions of two reviewers interleave
ReadinessIsJustified ==
    ReadyIsDocumented /\ RevocationHolds /\ OneSnapshotPerContent
===============================================================================
