------------------------------ MODULE Invitation ------------------------------
(***************************************************************************)
(* The invitations of one e-mail address to one workspace: create, revoke  *)
(* and accept of backend/app/workspace_services.py, and the delivery by    *)
(* e-mail of backend/app/email_delivery.py, run by the worker's handler.   *)
(*                                                                         *)
(* A request reads in one step and commits in a later one; no row is       *)
(* locked in between.  The outbox hands the delivery job of an invitation  *)
(* to a handler, and may do so again, after a replay, and to a second      *)
(* worker while the first is stalled: JobQueue shows when.  Here a handler *)
(* may start on any job that was enqueued.                                 *)
(*                                                                         *)
(* Left out: audit rows and the accepting user's UserContext row, written  *)
(* by the same commits.  A membership is told by the invitation whose role *)
(* it got.                                                                 *)
(***************************************************************************)
EXTENDS Naturals, Sequences, FiniteSets

CONSTANTS
    Invitations,  \* the invitations that may be created for the address
    Workers,      \* worker processes
    Requests,     \* concurrent API requests
    Secrets,      \* values INVITATION_TOKEN_SECRET has over time
    NoInvitation, \* no membership
    Random,       \* the token create_invitation draws
    MaxStarts     \* bound: delivery handlers that are started

ASSUME InvitationAssumption ==
    /\ IsFiniteSet(Workers)
    /\ NoInvitation \notin Invitations
    /\ Random \notin Secrets
    /\ MaxStarts \in Nat

VARIABLES
    inv,      \* the invitation rows
    member,   \* the membership row: the invitation whose role it carries
    jobs,     \* invitations whose delivery job is in the outbox
    rows,     \* per invitation: the statuses of its delivery rows
    mails,    \* per invitation: the tokens in the e-mails SMTP accepted
    req,      \* per request: where it is and the invitation it read
    pc, work, secret, mine,  \* per worker: its place, its invitation, the
                             \* secret it derives with and its delivery row
    starts    \* delivery handlers started so far

requestVars == <<inv, member, jobs, req>>
workerVars == <<pc, work, secret, mine, starts>>
vars == <<requestVars, rows, mails, workerVars>>

Token == Secrets \cup {Random}

InvRow == [status : {"absent", "pending", "accepted", "revoked"},
           accepted : BOOLEAN,   \* accepted_at is set
           revoked : BOOLEAN,    \* revoked_at is set
           expired : BOOLEAN,    \* expires_at has passed
           token : Token]        \* the token token_hash is the digest of

NoRow == [status |-> "absent", accepted |-> FALSE, revoked |-> FALSE,
          expired |-> FALSE, token |-> Random]

NewRow == [NoRow EXCEPT !.status = "pending"]

Pc == {"idle", "check", "look", "insert", "smtp", "sent", "failed"}

Idle == [op |-> "idle", i |-> NoInvitation]

ReqState ==
    [op : {"idle", "create", "revoke", "accept", "join", "rejoin"},
     i : Invitations \cup {NoInvitation}]

Init ==
    /\ inv = [i \in Invitations |-> NoRow]
    /\ member = NoInvitation
    /\ jobs = {}
    /\ rows = [i \in Invitations |-> <<>>]
    /\ mails = [i \in Invitations |-> <<>>]
    /\ req = [r \in Requests |-> Idle]
    /\ pc = [w \in Workers |-> "idle"]
    /\ work = [w \in Workers |-> NoInvitation]
    /\ secret = [w \in Workers |-> Random]
    /\ mine = [w \in Workers |-> 0]
    /\ starts = 0

Pending(i) == inv[i].status = "pending" /\ ~inv[i].expired

-------------------------------------------------------------------------------
\* Requests

Reads(r, op, i) ==
    /\ req' = [req EXCEPT ![r] = [op |-> op, i |-> i]]
    /\ UNCHANGED <<inv, member, jobs, rows, mails, workerVars>>

\* create_invitation up to its INSERT: no member and no pending invitation
CreateRead(r) ==
    /\ req[r] = Idle
    /\ member = NoInvitation
    /\ ~ \E i \in Invitations : Pending(i)
    /\ Reads(r, "create", NoInvitation)

\* invitation_create commits the row together with the delivery job (SMTP), or
\* with the row of the development outbox: email_delivery_mode() is a setting
CreateCommit(r) ==
    /\ req[r].op = "create"
    /\ \E i \in Invitations :
         /\ inv[i] = NoRow
         /\ inv' = [inv EXCEPT ![i] = NewRow]
         /\ \/ jobs' = jobs \cup {i} /\ UNCHANGED rows
            \/ /\ rows' = [rows EXCEPT ![i] = Append(@, "development_outbox")]
               /\ UNCHANGED jobs
    /\ req' = [req EXCEPT ![r] = Idle]
    /\ UNCHANGED <<member, mails, workerVars>>

\* revoke_invitation: an expired invitation can be revoked as well
RevokeRead(r) ==
    /\ req[r] = Idle
    /\ \E i \in Invitations :
         inv[i].status = "pending" /\ Reads(r, "revoke", i)

Revoked(row) == [row EXCEPT !.status = "revoked", !.revoked = TRUE]

RevokeCommit(r) ==
    /\ req[r].op = "revoke"
    /\ inv' = [inv EXCEPT ![req[r].i] = Revoked(@)]
    /\ req' = [req EXCEPT ![r] = Idle]
    /\ UNCHANGED <<member, jobs, rows, mails, workerVars>>

\* The tokens a person may hold: from the development outbox or from an e-mail
Known(i) ==
    {mails[i][k] : k \in DOMAIN mails[i]}
      \cup {Random : k \in {k \in DOMAIN rows[i] : rows[i][k] = "development_outbox"}}

\* accept_invitation finds the row of the token and tests it
CanAccept(i) ==
    /\ inv[i].token \in Known(i)
    /\ Pending(i)
    /\ ~inv[i].revoked

AcceptRead(r) ==
    /\ req[r] = Idle
    /\ \E i \in Invitations : CanAccept(i) /\ Reads(r, "accept", i)

\* ... and then looks for a membership of the user
AcceptLook(r) ==
    /\ req[r].op = "accept"
    /\ Reads(r, IF member = NoInvitation THEN "join" ELSE "rejoin", req[r].i)

Accepted(row) == [row EXCEPT !.status = "accepted", !.accepted = TRUE]

\* Mutant: a new membership is left out of the commit
JoinForgotten(r) ==
    /\ req[r].op = "join"
    /\ inv' = [inv EXCEPT ![req[r].i] = Accepted(@)]
    /\ UNCHANGED <<member, jobs>>

\* The membership and the invitation in one commit; the unique constraint on
\* workspace and user undoes both
Join(r) ==
    /\ req[r].op = "join"
    /\ IF member = NoInvitation
       THEN /\ member' = req[r].i
            /\ inv' = [inv EXCEPT ![req[r].i] = Accepted(@)]
       ELSE UNCHANGED <<member, inv>>
    /\ UNCHANGED jobs

\* A member who accepts again keeps the role of the first invitation
Rejoin(r) ==
    /\ req[r].op = "rejoin"
    /\ inv' = [inv EXCEPT ![req[r].i] = Accepted(@)]
    /\ UNCHANGED <<member, jobs>>

AcceptCommit(r) ==
    /\ Join(r) \/ Rejoin(r)
    /\ req' = [req EXCEPT ![r] = Idle]
    /\ UNCHANGED <<rows, mails, workerVars>>

\* The server stops while a request is open
RequestLost(r) ==
    /\ req[r] # Idle
    /\ req' = [req EXCEPT ![r] = Idle]
    /\ UNCHANGED <<inv, member, jobs, rows, mails, workerVars>>

\* expires_at passes
Expire(i) ==
    /\ inv[i].status # "absent"
    /\ ~inv[i].expired
    /\ inv' = [inv EXCEPT ![i].expired = TRUE]
    /\ UNCHANGED <<member, jobs, req, rows, mails, workerVars>>

-------------------------------------------------------------------------------
\* The delivery handler

Goto(w, label) == pc' = [pc EXCEPT ![w] = label]

\* A worker claims the job; its settings were read when it was started
Start(w) ==
    /\ pc[w] = "idle"
    /\ starts < MaxStarts
    /\ starts' = starts + 1
    /\ \E i \in jobs, s \in Secrets :
         /\ work' = [work EXCEPT ![w] = i]
         /\ secret' = [secret EXCEPT ![w] = s]
    /\ mine' = [mine EXCEPT ![w] = 0]
    /\ Goto(w, "check")
    /\ UNCHANGED <<requestVars, rows, mails>>

\* The handler refuses an invitation that is no longer pending
Check(w) ==
    /\ pc[w] = "check"
    /\ Goto(w, IF Pending(work[w]) THEN "look" ELSE "idle")
    /\ UNCHANGED <<requestVars, rows, mails, work, secret, mine, starts>>

\* Mutant: a failed delivery is tried again
NoDeliveryButFailed(i) == \A k \in DOMAIN rows[i] : rows[i][k] = "failed"

\* deliver_invitation_smtp has no row for this invitation.  Whatever status
\* the newest one has, sent or not, the handler stops there
NoDelivery(i) == rows[i] = <<>>

Look(w) ==
    /\ pc[w] = "look"
    /\ Goto(w, IF NoDelivery(work[w]) THEN "insert" ELSE "idle")
    /\ UNCHANGED <<requestVars, rows, mails, work, secret, mine, starts>>

\* Mutant: the digest of the derived token is not stored
TokenKept(w) == inv' = inv

\* The digest of the token that is derived now replaces the stored one
TokenStored(w) == inv' = [inv EXCEPT ![work[w]].token = secret[w]]

\* The commit of the row "publishing" and of the digest, before any I/O
Insert(w) ==
    /\ pc[w] = "insert"
    /\ rows' = [rows EXCEPT ![work[w]] = Append(@, "publishing")]
    /\ mine' = [mine EXCEPT ![w] = Len(rows[work[w]]) + 1]
    /\ TokenStored(w)
    /\ Goto(w, "smtp")
    /\ UNCHANGED <<member, jobs, req, mails, work, secret, starts>>

\* The server accepts the message; the handler learns it, or an OSError or an
\* SMTPException hides it
Mail(w) ==
    /\ pc[w] = "smtp"
    /\ mails' = [mails EXCEPT ![work[w]] = Append(@, secret[w])]
    /\ \E outcome \in {"sent", "failed"} : Goto(w, outcome)
    /\ UNCHANGED <<requestVars, rows, work, secret, mine, starts>>

MailRefused(w) ==
    /\ pc[w] = "smtp"
    /\ Goto(w, "failed")
    /\ UNCHANGED <<requestVars, rows, mails, work, secret, mine, starts>>

\* The status the delivery row is given: what the SMTP dialogue ended with
Outcome(w) == pc[w]

\* The commit of the outcome; the handler's answer ends the job, also when it
\* is InvitationDeliveryUncertain, which the worker makes a PermanentJobError
RecordOutcome(w) ==
    /\ pc[w] \in {"sent", "failed"}
    /\ rows' = [rows EXCEPT ![work[w]][mine[w]] = Outcome(w)]
    /\ Goto(w, "idle")
    /\ UNCHANGED <<requestVars, mails, work, secret, mine, starts>>

\* The worker process stops
Crash(w) ==
    /\ pc[w] # "idle"
    /\ Goto(w, "idle")
    /\ UNCHANGED <<requestVars, rows, mails, work, secret, mine, starts>>

Next ==
    \/ \E r \in Requests :
         \/ CreateRead(r) \/ CreateCommit(r)
         \/ RevokeRead(r) \/ RevokeCommit(r)
         \/ AcceptRead(r) \/ AcceptLook(r) \/ AcceptCommit(r)
         \/ RequestLost(r)
    \/ \E i \in Invitations : Expire(i)
    \/ \E w \in Workers :
         \/ Start(w) \/ Check(w) \/ Look(w) \/ Insert(w)
         \/ Mail(w) \/ MailRefused(w) \/ RecordOutcome(w) \/ Crash(w)

Spec == Init /\ [][Next]_vars

-------------------------------------------------------------------------------
\* Types of the rows and of what requests and workers hold.
TypeOK ==
    /\ inv \in [Invitations -> InvRow]
    /\ member \in Invitations \cup {NoInvitation}
    /\ jobs \subseteq Invitations
    /\ rows \in [Invitations ->
                   Seq({"development_outbox", "publishing", "sent", "failed"})]
    /\ mails \in [Invitations -> Seq(Token)]
    /\ req \in [Requests -> ReqState]
    /\ pc \in [Workers -> Pc]
    /\ work \in [Workers -> Invitations \cup {NoInvitation}]
    /\ secret \in [Workers -> Token]
    /\ mine \in [Workers -> Nat]
    /\ starts \in Nat

\* However often handlers crash, lose the answer of the SMTP server and are
\* replayed, an invitation is mailed at most once per worker that delivers it
\* at the same time: the "publishing" row committed before the I/O stops every
\* later handler of deliver_invitation_smtp.
MailsBoundedByWorkers ==
    \A i \in Invitations : Len(mails[i]) <= Cardinality(Workers)

\* The link in every e-mail opens its invitation although the secret may be
\* rotated between creation, a crash and a replay.
LinksMatchDigest ==
    \A i \in Invitations :
      \A k \in DOMAIN mails[i] : mails[i][k] = inv[i].token

\* A delivery that is recorded as sent was accepted by the SMTP server.
SentWasMailed ==
    \A i \in Invitations :
      Cardinality({k \in DOMAIN rows[i] : rows[i][k] = "sent"}) <= Len(mails[i])

\* The e-mails and what the tables say of them agree through crashes, replays
\* and rotations of the secret: every link opens its invitation, and nothing is
\* recorded as sent that was not.
MailsMatchRecords == LinksMatchDigest /\ SentWasMailed

\* accepted_at of any invitation means that the person is a member, and the
\* membership's role comes from an invitation that was accepted, whatever
\* requests of the same person and of admins overlap.
AcceptedJoins ==
    /\ \A i \in Invitations : inv[i].accepted => member # NoInvitation
    /\ member # NoInvitation => inv[member].accepted

\* "revocable" in docs/DATA_MODEL.md: no invitation that has been revoked
\* lets somebody join afterwards.
RevokedNeverJoins ==
    [][\A i \in Invitations :
         inv[i].revoked /\ member = NoInvitation => member' # i]_vars

(***************************************************************************)
(* The strengthening of the invariants.                                    *)
(***************************************************************************)

\* What requests and handlers hold exists; a handler past its commit owns one
\* of the rows
HeldExists ==
    /\ \A r \in Requests :
         req[r].op \in {"revoke", "accept", "join", "rejoin"}
           => req[r].i \in Invitations
    /\ \A w \in Workers :
         /\ pc[w] # "idle" => work[w] \in Invitations /\ secret[w] \in Secrets
         /\ pc[w] \in {"smtp", "sent", "failed"} => mine[w] \in DOMAIN rows[work[w]]

\* A request that found a membership still has one when it commits
MembershipStays ==
    \A r \in Requests : req[r].op = "rejoin" => member # NoInvitation

\* The handlers that will send an e-mail for i without looking again
Senders(i) == {w \in Workers : work[w] = i /\ pc[w] \in {"insert", "smtp"}}

SendersBounded ==
    \A i \in Invitations :
      /\ rows[i] = <<>> => mails[i] = <<>>
      /\ rows[i] # <<>>
           => Len(mails[i]) + Cardinality(Senders(i)) <= Cardinality(Workers)

\* With one worker, the digest stored is that of the handler about to send
DigestIsMine ==
    \A w \in Workers :
      /\ pc[w] = "insert" => rows[work[w]] = <<>>
      /\ pc[w] = "smtp" => inv[work[w]].token = secret[w]

===============================================================================
