------------------------------- MODULE Feedback -------------------------------
(***************************************************************************)
(* The verdicts members give on the hypotheses of one incident:            *)
(* submit_feedback of backend/app/services.py.  The status of every        *)
(* hypothesis is in one JSON column of the incident, which a request reads *)
(* and writes back as a whole; each verdict is also a row of its own.      *)
(* Nothing is locked between the read and the commit.                      *)
(*                                                                         *)
(* Left out: notes, verification outcomes (see DatasetConsent) and audit   *)
(* rows.                                                                   *)
(***************************************************************************)
EXTENDS Naturals, Sequences

CONSTANTS
    Judges,      \* members who send verdicts, one at a time
    Hypotheses,
    MaxVerdicts  \* bound: verdicts given

ASSUME FeedbackAssumption == MaxVerdicts \in Nat

VARIABLES
    statuses,    \* incident.hypotheses: the status each shows
    given,       \* the FeedbackRecord rows, in the order of their commits
    judging,     \* per member: its request and the list it read
    overlapped   \* two requests were once under way at the same time

feedbackVars == <<statuses, given, judging, overlapped>>

Verdicts == {"confirmed", "rejected"}

List == [Hypotheses -> Verdicts \cup {"unreviewed"}]

Idle == [busy |-> FALSE]

FeedbackInit ==
    /\ statuses = [h \in Hypotheses |-> "unreviewed"]
    /\ given = <<>>
    /\ judging = [j \in Judges |-> Idle]
    /\ overlapped = FALSE

\* The list is rebuilt from the judged hypothesis alone
JudgedAlone(list, h, verdict) ==
    [g \in Hypotheses |-> IF g = h THEN verdict ELSE "unreviewed"]

\* The list of hypotheses with the verdict in it
Judged(list, h, verdict) == [list EXCEPT ![h] = verdict]

\* submit_feedback up to its flush: the list is read and rebuilt
SubmitFeedback(j) ==
    /\ judging[j] = Idle /\ Len(given) < MaxVerdicts
    /\ \E h \in Hypotheses, v \in Verdicts :
         judging' = [judging EXCEPT ![j] =
                       [busy |-> TRUE, hypothesis |-> h, verdict |-> v,
                        was |-> statuses]]
    /\ overlapped' = (overlapped \/ \E o \in Judges : judging[o].busy)
    /\ UNCHANGED <<statuses, given>>

\* The flush and the commit.  The ORM writes the column if the list differs
\* from the one that was read.
CommitFeedback(j) ==
    LET f == judging[j]
        list == Judged(f.was, f.hypothesis, f.verdict)
    IN
    /\ f.busy /\ Len(given) < MaxVerdicts
    /\ statuses' = IF list = f.was THEN statuses ELSE list
    /\ given' = Append(given, [hypothesis |-> f.hypothesis,
                              verdict |-> f.verdict])
    /\ judging' = [judging EXCEPT ![j] = Idle]
    /\ UNCHANGED overlapped

\* The request ends before its commit
DropFeedback(j) ==
    /\ judging[j].busy
    /\ judging' = [judging EXCEPT ![j] = Idle]
    /\ UNCHANGED <<statuses, given, overlapped>>

FeedbackNext ==
    \E j \in Judges : SubmitFeedback(j) \/ CommitFeedback(j) \/ DropFeedback(j)

FeedbackSpec == FeedbackInit /\ [][FeedbackNext]_feedbackVars

-------------------------------------------------------------------------------
FeedbackTypeOK ==
    /\ statuses \in List
    /\ given \in Seq([hypothesis : Hypotheses, verdict : Verdicts])
    /\ judging \in [Judges -> {Idle} \cup
                      [busy : {TRUE}, hypothesis : Hypotheses,
                       verdict : Verdicts, was : List]]
    /\ overlapped \in BOOLEAN

\* submit_feedback: every hypothesis shows the verdict given on it last, and
\* none shows a verdict nobody gave, unless two requests once overlapped: then
\* the later commit brings back the list it had read
VerdictLostOnlyByOverlap ==
    ~overlapped =>
        \A h \in Hypotheses :
            LET on == {i \in 1..Len(given) : given[i].hypothesis = h} IN
            statuses[h] = IF on = {} THEN "unreviewed"
                          ELSE given[CHOOSE i \in on :
                                       \A k \in on : k <= i].verdict
===============================================================================
