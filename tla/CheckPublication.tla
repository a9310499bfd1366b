--------------------------- MODULE CheckPublication ---------------------------
(***************************************************************************)
(* Publication of one GitHub Check Run: _publish_github_change_check of    *)
(* backend/app/provider_services.py, called by the worker's handler and by *)
(* the responder endpoint, and the three calls of                          *)
(* backend/app/github_client.py it makes.                                  *)
(*                                                                         *)
(* One row of github_check_publications (a repository and head commit) is  *)
(* shared by the publishers.  The SELECT ... FOR UPDATE that fetches it is *)
(* released by a commit before the row is marked, so nothing keeps two     *)
(* publishers apart.  A publisher may stop at any step, an answer of       *)
(* GitHub may be lost after the request took effect, and a POST or a PATCH *)
(* may take effect after its client gave up.                               *)
(*                                                                         *)
(* Left out: the audit rows that the last commit of a publisher adds, and  *)
(* the text of the check, which is the version of the analysis it shows.   *)
(***************************************************************************)
EXTENDS Naturals, Sequences, FiniteSets, SequencesExt

CONSTANTS
    Publishers,   \* processes that may publish this check: workers, requests
    MaxLate,      \* how many requests GitHub executes after their client timed out
    MaxVersion,   \* bound: versions of the analysis that are explored
    MaxStarts     \* bound: publications that are started

ASSUME CheckAssumption ==
    /\ IsFiniteSet(Publishers)
    /\ MaxLate \in Nat
    /\ MaxVersion \in Nat
    /\ MaxStarts \in Nat

VARIABLES
    row,        \* the publication row
    connError,  \* provider_connections.error_code
    version,    \* the analysis and policy the next publisher would read
    checks,     \* at GitHub: the version each Check Run shows; its ID is its index
    late,       \* requests whose client gave up and that GitHub has not executed
    lates,      \* how many there have been so far
    pc, copy, conn, content, target,  \* per publisher: its place, its loaded
                                      \* row and error_code, what it publishes
                                      \* and the Check Run it will update
    alone,      \* per publisher, history: no other publisher was under way and no
                \* late request took effect since this publication began
    starts      \* publications started so far

vars == <<row, connError, version, checks, late, lates, pc, copy, conn, content,
          target, alone, starts>>

NoCheck == 0   \* provider_check_id IS NULL

\* How a publication fails.  An error_code is told apart by the status it gives
Failures == {"retryable_failed", "permanent_failed"}

NoError == "none"   \* error_code IS NULL

PubRow == [status   : {"absent", "pending", "publishing", "published"} \cup Failures,
           attempts : Nat,
           check    : Nat]

NoPub == [status |-> "absent", attempts |-> 0, check |-> NoCheck]

NewPub == [NoPub EXCEPT !.status = "pending"]

\* What the UPDATE of a loaded object writes: the columns that changed
Dirty(cur, old, new) == IF new # old THEN new ELSE cur

Written(cur, old, new) ==
    [status   |-> Dirty(cur.status, old.status, new.status),
     attempts |-> Dirty(cur.attempts, old.attempts, new.attempts),
     check    |-> Dirty(cur.check, old.check, new.check)]

Init ==
    /\ row = NoPub
    /\ connError = NoError
    /\ version = 1
    /\ checks = <<>>
    /\ late = <<>>
    /\ lates = 0
    /\ pc = [p \in Publishers |-> "idle"]
    /\ copy = [p \in Publishers |-> NoPub]
    /\ conn = [p \in Publishers |-> NoError]
    /\ content = [p \in Publishers |-> 0]
    /\ target = [p \in Publishers |-> NoCheck]
    /\ alone = [p \in Publishers |-> FALSE]
    /\ starts = 0

Goto(p, label) == pc' = [pc EXCEPT ![p] = label]

GitHubUnchanged == UNCHANGED <<checks, late, lates>>

\* A new analysis of the commit, or a new version of the risk policy
Reanalyze ==
    /\ version < MaxVersion
    /\ version' = version + 1
    /\ UNCHANGED <<row, connError, checks, late, lates, pc, copy, conn, content,
                   target, alone, starts>>

\* The handler or the endpoint loads the connection, the change and the policy
Begin(p) ==
    /\ pc[p] = "idle"
    /\ starts < MaxStarts
    /\ starts' = starts + 1
    /\ conn' = [conn EXCEPT ![p] = connError]
    /\ content' = [content EXCEPT ![p] = version]
    /\ alone' = [q \in Publishers |->
                   q = p /\ \A r \in Publishers \ {p} : pc[r] = "idle"]
    /\ Goto(p, "fetch")
    /\ GitHubUnchanged
    /\ UNCHANGED <<row, connError, version, copy, target>>

\* _github_check_publication: SELECT ... FOR UPDATE, then a commit
Fetch(p) ==
    /\ pc[p] = "fetch"
    /\ copy' = [copy EXCEPT ![p] = row]
    /\ Goto(p, IF row = NoPub THEN "insert" ELSE "mark")
    /\ GitHubUnchanged
    /\ UNCHANGED <<row, connError, version, conn, content, target, alone, starts>>

\* _github_check_publication: the INSERT wins, or the unique constraint on
\* repository and head rejects it and the session starts over from the row
Insert(p) ==
    /\ pc[p] = "insert"
    /\ \/ /\ row = NoPub
          /\ row' = NewPub
          /\ UNCHANGED conn
       \/ /\ row # NoPub
          /\ row' = row
          /\ conn' = [conn EXCEPT ![p] = connError]
    /\ copy' = [copy EXCEPT ![p] = row']
    /\ Goto(p, "mark")
    /\ GitHubUnchanged
    /\ UNCHANGED <<connError, version, content, target, alone, starts>>

\* Mutant: a retry does not search
MustFindNever(p) == FALSE

\* previous_attempts > 0 and no provider_check_id: an earlier POST may have
\* created the Check Run
MustFind(p) == copy[p].check = NoCheck /\ copy[p].attempts > 0

\* The commit of status "publishing" and attempt_count + 1
Marked(old) ==
    [old EXCEPT !.status = "publishing", !.attempts = old.attempts + 1]

Mark(p) ==
    /\ pc[p] = "mark"
    /\ row' = Written(row, copy[p], Marked(copy[p]))
    /\ copy' = [copy EXCEPT ![p] = Marked(copy[p])]
    /\ target' = [target EXCEPT ![p] = copy[p].check]
    /\ Goto(p, IF MustFind(p) THEN "find" ELSE "send")
    /\ GitHubUnchanged
    /\ UNCHANGED <<connError, version, conn, content, alone, starts>>

\* find_check_run answers: the first record with this external_id, or None
Find(p) ==
    /\ pc[p] = "find"
    /\ \/ /\ checks = <<>>
          /\ UNCHANGED target
       \/ \E c \in DOMAIN checks : target' = [target EXCEPT ![p] = c]
    /\ Goto(p, "send")
    /\ GitHubUnchanged
    /\ UNCHANGED <<row, connError, version, copy, conn, content, alone, starts>>

\* What the PATCH of a known Check Run or the POST of a new one does there
Executed(check, shown) ==
    checks' = IF check # NoCheck
              THEN [checks EXCEPT ![check] = shown]
              ELSE Append(checks, shown)

Delivered(p) == Executed(target[p], content[p])

\* update_check_run or create_check_run succeeds and returns the ID
Send(p) ==
    /\ pc[p] = "send"
    /\ Delivered(p)
    /\ target' = [target EXCEPT ![p] = IF @ = NoCheck THEN Len(checks) + 1 ELSE @]
    /\ Goto(p, "record")
    /\ UNCHANGED <<row, connError, version, late, lates, copy, conn, content,
                   alone, starts>>

\* The request took effect and its answer was lost or had no ID
SendUnanswered(p) ==
    /\ pc[p] = "send"
    /\ Delivered(p)
    /\ Goto(p, "failed")
    /\ UNCHANGED <<row, connError, version, late, lates, copy, conn, content,
                   target, alone, starts>>

\* A request of this publisher failed and had no effect: the token exchange,
\* the search, the POST or the PATCH
RequestFails(p) ==
    /\ pc[p] \in {"find", "send"}
    /\ Goto(p, "failed")
    /\ GitHubUnchanged
    /\ UNCHANGED <<row, connError, version, copy, conn, content, target, alone,
                   starts>>

\* The client of a POST or a PATCH timed out (15 seconds) before GitHub executed it
SendLate(p) ==
    /\ lates < MaxLate
    /\ pc[p] = "send"
    /\ late' = Append(late, [check |-> target[p], shown |-> content[p]])
    /\ lates' = lates + 1
    /\ Goto(p, "failed")
    /\ UNCHANGED <<row, connError, version, checks, copy, conn, content, target,
                   alone, starts>>

LateArrives ==
    /\ \E i \in DOMAIN late :
         /\ Executed(late[i].check, late[i].shown)
         /\ late' = RemoveAt(late, i)
    /\ alone' = [p \in Publishers |-> FALSE]
    /\ UNCHANGED <<row, connError, version, lates, pc, copy, conn, content,
                   target, starts>>

\* A publisher ends, and its session with the objects it loaded
Leave(p) ==
    /\ Goto(p, "idle")
    /\ copy' = [copy EXCEPT ![p] = NoPub]
    /\ conn' = [conn EXCEPT ![p] = NoError]
    /\ content' = [content EXCEPT ![p] = 0]
    /\ target' = [target EXCEPT ![p] = NoCheck]
    /\ alone' = [alone EXCEPT ![p] = FALSE]

\* The last commit of a publisher: what it makes of the row and error_code
Finish(p, new, error) ==
    /\ row' = Written(row, copy[p], new)
    /\ connError' = Dirty(connError, conn[p], error)
    /\ Leave(p)
    /\ GitHubUnchanged
    /\ UNCHANGED <<version, starts>>

\* The except branch.  Its rollback is outside any transaction and expires
\* nothing, so session.get answers with the copy
RecordFailure(p) ==
    /\ pc[p] = "failed"
    /\ \E error \in Failures :
         Finish(p, [copy[p] EXCEPT !.status = error], error)

Published(p) == [copy[p] EXCEPT !.status = "published", !.check = target[p]]

\* Mutant: a success leaves the connection's error_code alone
RecordSuccessKeepingError(p) ==
    /\ pc[p] = "record"
    /\ Finish(p, Published(p), conn[p])

RecordSuccess(p) ==
    /\ pc[p] = "record"
    /\ Finish(p, Published(p), NoError)

\* The process of a publisher stops
Crash(p) ==
    /\ pc[p] # "idle"
    /\ Leave(p)
    /\ GitHubUnchanged
    /\ UNCHANGED <<row, connError, version, starts>>

Next ==
    \/ Reanalyze
    \/ LateArrives
    \/ \E p \in Publishers :
         \/ Begin(p) \/ Fetch(p) \/ Insert(p) \/ Mark(p) \/ Find(p)
         \/ Send(p) \/ SendUnanswered(p) \/ RequestFails(p) \/ SendLate(p)
         \/ RecordFailure(p) \/ RecordSuccess(p) \/ Crash(p)

Spec == Init /\ [][Next]_vars

-------------------------------------------------------------------------------
\* Types of the row, of what GitHub holds and of each publisher's variables.
TypeOK ==
    /\ row \in PubRow
    /\ connError \in Failures \cup {NoError}
    /\ version \in Nat
    /\ checks \in Seq(Nat)
    /\ late \in Seq([check : Nat, shown : Nat])
    /\ lates \in 0 .. MaxLate
    /\ pc \in [Publishers -> {"idle", "fetch", "insert", "mark", "find", "send",
                              "failed", "record"}]
    /\ copy \in [Publishers -> PubRow]
    /\ conn \in [Publishers -> Failures \cup {NoError}]
    /\ content \in [Publishers -> Nat]
    /\ target \in [Publishers -> Nat]
    /\ alone \in [Publishers -> BOOLEAN]
    /\ starts \in Nat

\* Publication is idempotent as far as the search by external_id can make it:
\* however often publishers crash, lose answers and retry, there are never
\* more Check Runs for the commit than publishers that run at the same time and
\* requests that took effect after their timeout.  One publisher at a time and
\* a GitHub that does not answer late therefore never make a duplicate.
ChecksBoundedByPublishers ==
    Len(checks) <= Cardinality(Publishers) + MaxLate

\* A row that says published names a Check Run that exists at GitHub.
PublishedExists ==
    row.status = "published" => row.check \in DOMAIN checks

\* GitHub's Check Runs and the publication row account for each other: no more
\* Check Runs than publishers and late requests, and none published that GitHub
\* does not have.
ChecksAreAccountedFor == ChecksBoundedByPublishers /\ PublishedExists

\* The steps of a publisher at which GitHub may get its analysis, and at which
\* it records its outcome
Sends(p) == pc[p] = "send" /\ pc'[p] \in {"record", "failed"}
Records(p, outcome) == pc[p] = outcome /\ pc'[p] = "idle" /\ row' # row

\* Nothing keeps overlapping publications of a commit apart: one that read an
\* older analysis may be the last to send it, and one that loaded the connection
\* before another failed does not write the error_code it believes to be NULL.
\* But a publication that meets no other one, and no late request, settles
\* whatever such publications, crashes, lost answers and late requests left
\* behind: it takes no Check Run back to an older analysis; if it succeeds, the
\* row says published and names a Check Run that shows the newest analysis
\* published for the commit, and the connection has no error_code; if it fails,
\* the row and the connection tell of the same failure.
LonePublicationSettles ==
    [][\A p \in Publishers : alone[p] =>
         /\ Sends(p) => \A c \in DOMAIN checks : checks'[c] >= checks[c]
         /\ Records(p, "record") =>
              /\ row'.status = "published" /\ connError' = NoError
              /\ row'.check \in DOMAIN checks
              /\ checks[row'.check] = content[p]
              /\ \A c \in DOMAIN checks : checks[c] <= content[p]
         /\ Records(p, "failed") => row'.status = connError']_vars

\* One Check Run per commit: "retry after crash updates existing check without
\* duplicate create" in backend/tests/test_worker.py, and update_check_run's
\* "instead of creating duplicate results".
AtMostOneCheck == Len(checks) <= 1

(***************************************************************************)
(* The strengthening of the invariants and of the action property.         *)
(***************************************************************************)

\* Check Run IDs held anywhere exist, and a provider_check_id once stored is
\* never NULL again
IdsExist ==
    /\ row.check <= Len(checks)
    /\ row.status = "published" => row.check # NoCheck
    /\ \A i \in DOMAIN late : late[i].check <= Len(checks)
    /\ \A p \in Publishers :
         /\ copy[p].check <= Len(checks)
         /\ target[p] <= Len(checks)
         /\ copy[p].check # NoCheck => row.check # NoCheck
         /\ copy[p].status = "published" => copy[p].check # NoCheck
         /\ pc[p] = "record" => target[p] # NoCheck

\* Whoever has talked to GitHub has counted its attempt before
AttemptsPrecedeRequests ==
    /\ checks # <<>> \/ late # <<>> => row.attempts > 0
    /\ \A p \in Publishers :
         pc[p] \in {"find", "send"} => row.attempts > 0

\* The publishers that will create a Check Run without looking for one
Creators ==
    {p \in Publishers : \/ pc[p] = "mark" /\ copy[p].attempts = 0
                        \/ pc[p] = "send" /\ target[p] = NoCheck}

CreatorsBounded ==
    /\ Len(late) <= lates
    /\ checks # <<>>
         => Len(checks) + Len(late) + Cardinality(Creators)
              <= Cardinality(Publishers) + lates

\* Nothing shows or carries an analysis there has not been
KnownContent ==
    /\ \A c \in DOMAIN checks : checks[c] <= version
    /\ \A i \in DOMAIN late : late[i].shown <= version
    /\ \A p \in Publishers : content[p] <= version

\* What a publication that has met nobody may rely on: nobody else is at work,
\* no Check Run shows a newer analysis than it read, and its copies of the row
\* and of error_code are what the database holds
AloneKnows ==
    \A p \in Publishers : alone[p] =>
      /\ pc[p] # "idle"
      /\ \A q \in Publishers \ {p} : pc[q] = "idle"
      /\ \A c \in DOMAIN checks : checks[c] <= content[p]
      /\ conn[p] = connError
      /\ pc[p] # "fetch" => copy[p] = row
      /\ pc[p] \in {"find", "send", "failed", "record"} => row.status = "publishing"
      /\ pc[p] = "record" => /\ target[p] \in DOMAIN checks
                             /\ checks[target[p]] = content[p]

===============================================================================
