--------------------------- MODULE InvitationProofs ---------------------------
(***************************************************************************)
(* Proofs about Invitation for any invitations, requests, workers and      *)
(* secrets, in both delivery modes.                                        *)
(***************************************************************************)
EXTENDS Invitation, FiniteSetTheorems, TLAPS

Statuses == {"development_outbox", "publishing", "sent", "failed"}

\* The rows that commits write are well typed.
LEMMA InvRowTypes ==
    /\ NoRow \in InvRow /\ NewRow \in InvRow
    /\ \A row \in InvRow :
         /\ Revoked(row) \in InvRow /\ Accepted(row) \in InvRow
         /\ [row EXCEPT !.expired = TRUE] \in InvRow
         /\ \A t \in Token : [row EXCEPT !.token = t] \in InvRow
  <1>1. NoRow \in InvRow /\ NewRow \in InvRow
    BY DEF NoRow, NewRow, InvRow, Token
  <1>2. ASSUME NEW row \in InvRow
        PROVE  Revoked(row) \in InvRow /\ Accepted(row) \in InvRow
    BY DEF Revoked, Accepted, InvRow
  <1>3. ASSUME NEW row \in InvRow PROVE [row EXCEPT !.expired = TRUE] \in InvRow
    BY DEF InvRow
  <1>4. ASSUME NEW row \in InvRow, NEW t \in Token
        PROVE  [row EXCEPT !.token = t] \in InvRow
    BY DEF InvRow
  <1> QED
    BY <1>1, <1>2, <1>3, <1>4

\* What the commits change of a row besides its status.
LEMMA RowEffects ==
    /\ NoRow.accepted = FALSE /\ NewRow.accepted = FALSE
    /\ NewRow.token = NoRow.token
    /\ \A row \in InvRow :
         /\ Revoked(row).accepted = row.accepted /\ Revoked(row).token = row.token
         /\ Accepted(row).accepted = TRUE /\ Accepted(row).token = row.token
         /\ [row EXCEPT !.expired = TRUE].accepted = row.accepted
         /\ [row EXCEPT !.expired = TRUE].token = row.token
         /\ \A t \in Token :
              /\ [row EXCEPT !.token = t].accepted = row.accepted
              /\ [row EXCEPT !.token = t].token = t
  BY DEF NoRow, NewRow, Revoked, Accepted, InvRow

-------------------------------------------------------------------------------
(* Types, and that what is held exists *)

HeldInv == TypeOK /\ HeldExists

\* The invariant holds in an empty workspace.
LEMMA HeldInit == Init => HeldInv
  <1> SUFFICES ASSUME Init PROVE HeldInv
    OBVIOUS
  <1>1. inv \in [Invitations -> InvRow]
    BY InvRowTypes DEF Init
  <1>2. req \in [Requests -> ReqState] /\ \A r \in Requests : req[r].op = "idle"
    BY DEF Init, Idle, ReqState
  <1>3. /\ rows \in [Invitations -> Seq(Statuses)]
        /\ mails \in [Invitations -> Seq(Token)]
    BY DEF Init
  <1>4. /\ pc \in [Workers -> Pc] /\ secret \in [Workers -> Token]
        /\ work \in [Workers -> Invitations \cup {NoInvitation}]
        /\ mine \in [Workers -> Nat] /\ starts \in Nat
    BY DEF Init, Pc, Token
  <1> QED
    BY <1>1, <1>2, <1>3, <1>4 DEF Init, HeldInv, TypeOK, HeldExists, Statuses

\* A read of a request keeps the invariant.
LEMMA HeldReads ==
    ASSUME HeldInv, NEW r \in Requests,
           NEW op \in {"create", "revoke", "accept", "join", "rejoin"},
           NEW i \in Invitations \cup {NoInvitation},
           op # "create" => i \in Invitations, Reads(r, op, i)
    PROVE  HeldInv'
  <1>1. req' \in [Requests -> ReqState]
    BY DEF Reads, HeldInv, TypeOK, ReqState
  <1>2. \A q \in Requests : req'[q].op \in {"revoke", "accept", "join", "rejoin"}
                              => req'[q].i \in Invitations
    <2>1. req'[r].op = op /\ req'[r].i = i /\ \A q \in Requests \ {r} : req'[q] = req[q]
      BY DEF Reads, HeldInv, TypeOK
    <2> QED
      BY <2>1 DEF HeldInv, HeldExists
  <1> QED
    BY <1>1, <1>2 DEF Reads, workerVars, HeldInv, TypeOK, HeldExists

\* A step that ends a request keeps it if the rows it writes are typed.
LEMMA HeldIdle ==
    ASSUME HeldInv, NEW r \in Requests, req' = [req EXCEPT ![r] = Idle],
           inv' \in [Invitations -> InvRow], member' \in Invitations \cup {NoInvitation},
           jobs' \subseteq Invitations, rows' \in [Invitations -> Seq(Statuses)],
           \A i \in Invitations : DOMAIN rows[i] \subseteq DOMAIN rows'[i],
           mails' = mails, UNCHANGED workerVars
    PROVE  HeldInv'
  <1>1. req' \in [Requests -> ReqState]
    BY DEF HeldInv, TypeOK, ReqState, Idle
  <1>2. \A q \in Requests : req'[q] = req[q] \/ req'[q].op = "idle"
    BY DEF HeldInv, TypeOK, Idle
  <1> QED
    BY <1>1, <1>2 DEF workerVars, HeldInv, TypeOK, HeldExists, Statuses

\* A step of a worker that writes no row keeps it.
LEMMA HeldGoto ==
    ASSUME HeldInv, NEW w \in Workers, NEW label \in Pc, pc' = [pc EXCEPT ![w] = label],
           pc[w] # "idle",
           label \in {"smtp", "sent", "failed"} => pc[w] \in {"smtp", "sent", "failed"},
           UNCHANGED <<inv, member, jobs, req, rows, work, secret, mine, starts>>,
           mails' \in [Invitations -> Seq(Token)]
    PROVE  HeldInv'
  <1>1. TypeOK'
    BY DEF HeldInv, TypeOK
  <1>2. pc'[w] = label /\ \A v \in Workers \ {w} : pc'[v] = pc[v]
    BY DEF HeldInv, TypeOK
  <1>3. HeldExists'
    BY <1>2 DEF HeldInv, HeldExists
  <1> QED
    BY <1>1, <1>3 DEF HeldInv

\* Every step keeps it.
LEMMA HeldStep == HeldInv /\ [Next]_vars => HeldInv'
  <1> SUFFICES ASSUME HeldInv, [Next]_vars PROVE HeldInv'
    OBVIOUS
  <1>t. TypeOK /\ HeldExists
    BY DEF HeldInv
  <1>r. /\ inv \in [Invitations -> InvRow] /\ rows \in [Invitations -> Seq(Statuses)]
        /\ member \in Invitations \cup {NoInvitation} /\ jobs \subseteq Invitations
        /\ mails \in [Invitations -> Seq(Token)]
    BY <1>t DEF TypeOK, Statuses
  <1>a. ASSUME NEW i \in Invitations, NEW s \in Statuses,
               rows' = [rows EXCEPT ![i] = Append(rows[i], s)]
        PROVE  /\ rows' \in [Invitations -> Seq(Statuses)]
               /\ \A j \in Invitations : DOMAIN rows[j] \subseteq DOMAIN rows'[j]
               /\ Len(rows[i]) + 1 \in DOMAIN rows'[i]
               /\ Len(rows[i]) + 1 \in Nat
    <2>1. /\ rows[i] \in Seq(Statuses) /\ Append(rows[i], s) \in Seq(Statuses)
          /\ DOMAIN Append(rows[i], s) = 1 .. (Len(rows[i]) + 1)
          /\ DOMAIN rows[i] = 1 .. Len(rows[i]) /\ Len(rows[i]) \in Nat
      BY <1>r
    <2>2. \A j \in Invitations \ {i} : rows'[j] = rows[j]
      BY <1>r, <1>a
    <2>3. rows'[i] = Append(rows[i], s)
      BY <1>r, <1>a
    <2>4. \A j \in Invitations : DOMAIN rows[j] \subseteq DOMAIN rows'[j]
      BY <2>1, <2>2, <2>3
    <2>5. rows' \in [Invitations -> Seq(Statuses)]
      BY <1>r, <1>a, <2>1
    <2> QED
      BY <2>1, <2>3, <2>4, <2>5
  <1>1. ASSUME NEW r \in Requests, CreateRead(r) PROVE HeldInv'
    BY <1>1, HeldReads DEF CreateRead
  <1>2. ASSUME NEW r \in Requests, CreateCommit(r) PROVE HeldInv'
    <2>1. PICK i \in Invitations :
            /\ inv' = [inv EXCEPT ![i] = NewRow]
            /\ \/ jobs' = jobs \cup {i} /\ rows' = rows
               \/ /\ rows' = [rows EXCEPT ![i] = Append(rows[i], "development_outbox")]
                  /\ jobs' = jobs
      BY <1>2 DEF CreateCommit
    <2>2. inv' \in [Invitations -> InvRow] /\ jobs' \subseteq Invitations
      BY <1>r, <2>1, InvRowTypes
    <2>3. /\ rows' \in [Invitations -> Seq(Statuses)]
          /\ \A j \in Invitations : DOMAIN rows[j] \subseteq DOMAIN rows'[j]
      <3>1. CASE rows' = rows
        BY <1>r, <3>1
      <3>2. CASE rows' = [rows EXCEPT ![i] = Append(rows[i], "development_outbox")]
        BY <1>a, <3>2 DEF Statuses
      <3> QED
        BY <2>1, <3>1, <3>2
    <2> QED
      BY <1>2, <1>r, <2>2, <2>3, HeldIdle DEF CreateCommit
  <1>3. ASSUME NEW r \in Requests, RevokeRead(r) PROVE HeldInv'
    BY <1>3, HeldReads DEF RevokeRead
  <1>4. ASSUME NEW r \in Requests, RevokeCommit(r) PROVE HeldInv'
    <2>1. req[r].i \in Invitations
      BY <1>4, <1>t DEF RevokeCommit, HeldExists
    <2>2. inv' = [inv EXCEPT ![req[r].i] = Revoked(inv[req[r].i])]
      BY <1>4 DEF RevokeCommit
    <2>3. inv' \in [Invitations -> InvRow]
      BY <1>r, <2>1, <2>2, InvRowTypes
    <2> QED
      BY <1>4, <1>r, <2>3, HeldIdle DEF RevokeCommit
  <1>5. ASSUME NEW r \in Requests, AcceptRead(r) PROVE HeldInv'
    BY <1>5, HeldReads DEF AcceptRead
  <1>6. ASSUME NEW r \in Requests, AcceptLook(r) PROVE HeldInv'
    <2>1. req[r].i \in Invitations
      BY <1>6, <1>t DEF AcceptLook, HeldExists
    <2> QED
      BY <1>6, <2>1, HeldReads DEF AcceptLook
  <1>7. ASSUME NEW r \in Requests, AcceptCommit(r) PROVE HeldInv'
    <2>1. req[r].i \in Invitations
      BY <1>7, <1>t DEF AcceptCommit, Join, Rejoin, HeldExists
    <2>2. inv' = inv \/ inv' = [inv EXCEPT ![req[r].i] = Accepted(inv[req[r].i])]
      BY <1>7 DEF AcceptCommit, Join, Rejoin
    <2>3. inv' \in [Invitations -> InvRow]
      <3>1. Accepted(inv[req[r].i]) \in InvRow
        BY <1>r, <2>1, InvRowTypes
      <3> QED
        BY <1>r, <2>1, <2>2, <3>1
    <2>4. member' \in Invitations \cup {NoInvitation} /\ jobs' = jobs
      BY <1>7, <1>r, <2>1 DEF AcceptCommit, Join, Rejoin
    <2> QED
      BY <1>7, <1>r, <2>3, <2>4, HeldIdle DEF AcceptCommit
  <1>8. ASSUME NEW r \in Requests, RequestLost(r) PROVE HeldInv'
    BY <1>8, <1>r, HeldIdle DEF RequestLost
  <1>9. ASSUME NEW i \in Invitations, Expire(i) PROVE HeldInv'
    <2>1. inv' = [inv EXCEPT ![i] = [inv[i] EXCEPT !.expired = TRUE]]
      BY <1>9 DEF Expire
    <2>2. inv' \in [Invitations -> InvRow]
      BY <1>r, <2>1, InvRowTypes
    <2> QED
      BY <1>9, <1>t, <2>2 DEF Expire, workerVars, HeldInv, TypeOK, HeldExists
  <1>10. ASSUME NEW w \in Workers, Start(w) PROVE HeldInv'
    <2>1. PICK i \in jobs, s \in Secrets :
            work' = [work EXCEPT ![w] = i] /\ secret' = [secret EXCEPT ![w] = s]
      BY <1>10 DEF Start
    <2>2. i \in Invitations /\ s \in Token
      BY <1>r DEF Token
    <2>3. /\ work' \in [Workers -> Invitations \cup {NoInvitation}]
          /\ secret' \in [Workers -> Token] /\ mine' \in [Workers -> Nat]
          /\ starts' \in Nat /\ pc' \in [Workers -> Pc]
      BY <1>10, <1>t, <2>1, <2>2 DEF Start, Goto, TypeOK, Pc
    <2>4. TypeOK'
      BY <1>10, <1>t, <2>3 DEF Start, requestVars, TypeOK
    <2>5. /\ pc'[w] = "check" /\ work'[w] = i /\ secret'[w] = s
          /\ \A v \in Workers \ {w} : /\ pc'[v] = pc[v] /\ work'[v] = work[v]
                                      /\ secret'[v] = secret[v] /\ mine'[v] = mine[v]
      BY <1>10, <1>t, <2>1 DEF Start, Goto, TypeOK
    <2>6. HeldExists'
      BY <1>10, <1>t, <2>2, <2>5 DEF Start, requestVars, HeldExists
    <2> QED
      BY <2>4, <2>6 DEF HeldInv
  <1>11. ASSUME NEW w \in Workers, Check(w) PROVE HeldInv'
    <2> DEFINE label == IF Pending(work[w]) THEN "look" ELSE "idle"
    <2>1. label \in Pc /\ label \notin {"smtp", "sent", "failed"}
      BY DEF Pc
    <2> HIDE DEF label
    <2> QED
      BY <1>11, <1>r, <2>1, HeldGoto DEF Check, Goto, requestVars, label
  <1>12. ASSUME NEW w \in Workers, Look(w) PROVE HeldInv'
    <2> DEFINE label == IF NoDelivery(work[w]) THEN "insert" ELSE "idle"
    <2>1. label \in Pc /\ label \notin {"smtp", "sent", "failed"}
      BY DEF Pc
    <2> HIDE DEF label
    <2> QED
      BY <1>12, <1>r, <2>1, HeldGoto DEF Look, Goto, requestVars, label
  <1>13. ASSUME NEW w \in Workers, Insert(w) PROVE HeldInv'
    <2>1. work[w] \in Invitations /\ secret[w] \in Token
      BY <1>13, <1>t DEF Insert, HeldExists, Token
    <2>2. /\ rows' = [rows EXCEPT ![work[w]] = Append(rows[work[w]], "publishing")]
          /\ inv' = [inv EXCEPT ![work[w]] = [inv[work[w]] EXCEPT !.token = secret[w]]]
          /\ mine' = [mine EXCEPT ![w] = Len(rows[work[w]]) + 1]
          /\ pc' = [pc EXCEPT ![w] = "smtp"]
      BY <1>13 DEF Insert, TokenStored, Goto
    <2>3. /\ rows' \in [Invitations -> Seq(Statuses)]
          /\ \A j \in Invitations : DOMAIN rows[j] \subseteq DOMAIN rows'[j]
          /\ Len(rows[work[w]]) + 1 \in DOMAIN rows'[work[w]]
          /\ Len(rows[work[w]]) + 1 \in Nat
      BY <1>a, <2>1, <2>2 DEF Statuses
    <2>4. inv' \in [Invitations -> InvRow]
      BY <1>r, <2>1, <2>2, InvRowTypes
    <2>5. TypeOK'
      BY <1>13, <1>t, <2>2, <2>3, <2>4 DEF Insert, TypeOK, Pc, Statuses
    <2>6. /\ pc'[w] = "smtp" /\ mine'[w] = Len(rows[work[w]]) + 1
          /\ \A v \in Workers \ {w} : pc'[v] = pc[v] /\ mine'[v] = mine[v]
      BY <1>t, <2>2 DEF TypeOK
    <2>7. HeldExists'
      BY <1>13, <1>t, <2>1, <2>3, <2>6 DEF Insert, HeldExists
    <2> QED
      BY <2>5, <2>7 DEF HeldInv
  <1>14. ASSUME NEW w \in Workers, Mail(w) PROVE HeldInv'
    <2>1. PICK outcome \in {"sent", "failed"} : pc' = [pc EXCEPT ![w] = outcome]
      BY <1>14 DEF Mail, Goto
    <2>2. work[w] \in Invitations /\ secret[w] \in Token
      BY <1>14, <1>t DEF Mail, HeldExists, Token
    <2>3. mails' \in [Invitations -> Seq(Token)]
      BY <1>14, <1>r, <2>2 DEF Mail
    <2>4. outcome \in Pc
      BY DEF Pc
    <2> QED
      BY <1>14, <2>1, <2>3, <2>4, HeldGoto DEF Mail, requestVars
  <1>15. ASSUME NEW w \in Workers, MailRefused(w) PROVE HeldInv'
    BY <1>15, <1>r, HeldGoto DEF MailRefused, Goto, requestVars, Pc
  <1>16. ASSUME NEW w \in Workers, RecordOutcome(w) PROVE HeldInv'
    <2>1. /\ work[w] \in Invitations /\ mine[w] \in DOMAIN rows[work[w]]
          /\ Outcome(w) \in Statuses
      BY <1>16, <1>t DEF RecordOutcome, HeldExists, Outcome, Statuses
    <2>2. rows' = [rows EXCEPT ![work[w]] =
                     [rows[work[w]] EXCEPT ![mine[w]] = Outcome(w)]]
      BY <1>16 DEF RecordOutcome
    <2>3. /\ rows[work[w]] \in Seq(Statuses)
          /\ [rows[work[w]] EXCEPT ![mine[w]] = Outcome(w)] \in Seq(Statuses)
          /\ DOMAIN [rows[work[w]] EXCEPT ![mine[w]] = Outcome(w)] = DOMAIN rows[work[w]]
      BY <1>r, <2>1
    <2>4. /\ rows' \in [Invitations -> Seq(Statuses)]
          /\ \A j \in Invitations : DOMAIN rows'[j] = DOMAIN rows[j]
      BY <1>r, <2>1, <2>2, <2>3
    <2>5. TypeOK'
      BY <1>16, <1>t, <2>4 DEF RecordOutcome, Goto, requestVars, TypeOK, Pc, Statuses
    <2>6. pc'[w] = "idle" /\ \A v \in Workers \ {w} : pc'[v] = pc[v]
      BY <1>16, <1>t DEF RecordOutcome, Goto, TypeOK
    <2>7. HeldExists'
      BY <1>16, <1>t, <2>4, <2>6 DEF RecordOutcome, requestVars, HeldExists
    <2> QED
      BY <2>5, <2>7 DEF HeldInv
  <1>17. ASSUME NEW w \in Workers, Crash(w) PROVE HeldInv'
    BY <1>17, <1>r, HeldGoto DEF Crash, Goto, requestVars, Pc
  <1>18. CASE UNCHANGED vars
    BY <1>18, <1>t DEF vars, requestVars, workerVars, HeldInv, TypeOK, HeldExists
  <1> QED
    BY <1>1, <1>2, <1>3, <1>4, <1>5, <1>6, <1>7, <1>8, <1>9, <1>10, <1>11, <1>12,
       <1>13, <1>14, <1>15, <1>16, <1>17, <1>18
    DEF Next

\* Invitations keep their types, in both delivery modes.
THEOREM InvitationTypeCorrect == Spec => []TypeOK
  BY HeldInit, HeldStep, PTL DEF Spec, HeldInv

-------------------------------------------------------------------------------
(* Accepted invitations and the membership *)

JoinInv == AcceptedJoins /\ MembershipStays

\* What a step may do to accepted_at, the membership and the open requests
\* without disturbing the invariant.
LEMMA JoinKept ==
    ASSUME JoinInv, HeldInv, HeldInv',
           \A i \in Invitations :
             \/ inv'[i].accepted = inv[i].accepted
             \/ inv'[i].accepted = TRUE /\ member' # NoInvitation,
           \/ member' = member
           \/ member = NoInvitation /\ member' \in Invitations /\ inv'[member'].accepted,
           \A r \in Requests : req'[r].op = "rejoin"
                                 => req[r].op = "rejoin" \/ member' # NoInvitation
    PROVE  JoinInv'
  <1>1. member' \in Invitations \cup {NoInvitation} /\ NoInvitation \notin Invitations
          /\ member \in Invitations \cup {NoInvitation}
    BY InvitationAssumption DEF HeldInv, TypeOK
  <1>2. \A i \in Invitations : inv[i].accepted \in BOOLEAN
    BY DEF HeldInv, TypeOK, InvRow
  <1>3. MembershipStays'
    BY <1>1 DEF JoinInv, MembershipStays
  <1>4. AcceptedJoins'
    BY <1>1, <1>2 DEF JoinInv, AcceptedJoins
  <1> QED
    BY <1>3, <1>4 DEF JoinInv

\* Every step keeps the invariant.
LEMMA JoinStep ==
    ASSUME HeldInv, JoinInv, [Next]_vars
    PROVE  JoinInv'
  <1>t. HeldInv' /\ TypeOK /\ HeldExists
    BY HeldStep DEF HeldInv
  <1>r. /\ inv \in [Invitations -> InvRow] /\ req \in [Requests -> ReqState]
        /\ member \in Invitations \cup {NoInvitation}
        /\ NoInvitation \notin Invitations
    BY <1>t, InvitationAssumption DEF TypeOK
  <1>i. Idle.op = "idle"
    BY DEF Idle
  <1>a. ASSUME NEW r \in Requests, NEW op, NEW i, Reads(r, op, i),
               op = "rejoin" => member # NoInvitation
        PROVE  JoinInv'
    <2>1. \A q \in Requests : req'[q].op = "rejoin"
                                => req[q].op = "rejoin" \/ member' # NoInvitation
      BY <1>a, <1>r DEF Reads
    <2> QED
      BY <1>a, <1>t, <2>1, JoinKept DEF Reads
  <1>b. ASSUME NEW i \in Invitations, NEW row, inv' = [inv EXCEPT ![i] = row],
               row.accepted = inv[i].accepted, member' = member,
               \A q \in Requests : req'[q].op = "rejoin" => req[q].op = "rejoin"
        PROVE  JoinInv'
    <2>1. \A j \in Invitations : inv'[j].accepted = inv[j].accepted
      BY <1>b, <1>r
    <2> QED
      BY <1>b, <1>t, <2>1, JoinKept
  <1>c. ASSUME NEW r \in Requests, req' = [req EXCEPT ![r] = Idle]
        PROVE  \A q \in Requests : req'[q].op = "rejoin" => req[q].op = "rejoin"
    BY <1>c, <1>r, <1>i
  <1>d. ASSUME inv' = inv, member' = member, req' = req PROVE JoinInv'
    BY <1>d, <1>t, JoinKept
  <1>1. ASSUME NEW r \in Requests, CreateRead(r) PROVE JoinInv'
    BY <1>1, <1>a DEF CreateRead
  <1>2. ASSUME NEW r \in Requests, CreateCommit(r) PROVE JoinInv'
    <2>1. PICK i \in Invitations : inv[i] = NoRow /\ inv' = [inv EXCEPT ![i] = NewRow]
      BY <1>2 DEF CreateCommit
    <2>2. NewRow.accepted = inv[i].accepted
      BY <2>1, RowEffects
    <2> QED
      BY <1>2, <1>b, <1>c, <2>1, <2>2 DEF CreateCommit
  <1>3. ASSUME NEW r \in Requests, RevokeRead(r) PROVE JoinInv'
    BY <1>3, <1>a DEF RevokeRead
  <1>4. ASSUME NEW r \in Requests, RevokeCommit(r) PROVE JoinInv'
    <2>1. req[r].i \in Invitations
      BY <1>4, <1>t DEF RevokeCommit, HeldExists
    <2>2. inv' = [inv EXCEPT ![req[r].i] = Revoked(inv[req[r].i])]
      BY <1>4 DEF RevokeCommit
    <2>3. Revoked(inv[req[r].i]).accepted = inv[req[r].i].accepted
      BY <1>r, <2>1, RowEffects
    <2> QED
      BY <1>4, <1>b, <1>c, <2>1, <2>2, <2>3 DEF RevokeCommit
  <1>5. ASSUME NEW r \in Requests, AcceptRead(r) PROVE JoinInv'
    BY <1>5, <1>a DEF AcceptRead
  <1>6. ASSUME NEW r \in Requests, AcceptLook(r) PROVE JoinInv'
    BY <1>6, <1>a DEF AcceptLook
  <1>7. ASSUME NEW r \in Requests, AcceptCommit(r) PROVE JoinInv'
    <2>1. req[r].i \in Invitations
      BY <1>7, <1>t DEF AcceptCommit, Join, Rejoin, HeldExists
    <2>2. Accepted(inv[req[r].i]).accepted = TRUE
      BY <1>r, <2>1, RowEffects
    <2>3. \A q \in Requests : req'[q].op = "rejoin" => req[q].op = "rejoin"
      BY <1>7, <1>c DEF AcceptCommit
    <2>4. CASE inv' = inv /\ member' = member
      BY <1>t, <2>3, <2>4, JoinKept
    <2>5. CASE inv' = [inv EXCEPT ![req[r].i] = Accepted(inv[req[r].i])]
                 /\ member = NoInvitation /\ member' = req[r].i
      <3>1. inv'[req[r].i].accepted = TRUE
              /\ \A j \in Invitations : inv'[j].accepted = inv[j].accepted
                                          \/ inv'[j].accepted = TRUE
        BY <1>r, <2>1, <2>2, <2>5
      <3> QED
        BY <1>r, <1>t, <2>1, <2>3, <2>5, <3>1, JoinKept
    <2>6. CASE inv' = [inv EXCEPT ![req[r].i] = Accepted(inv[req[r].i])]
                 /\ member' = member /\ req[r].op = "rejoin"
      <3>1. member # NoInvitation
        BY <2>6 DEF JoinInv, MembershipStays
      <3>2. \A j \in Invitations : inv'[j].accepted = inv[j].accepted
                                     \/ inv'[j].accepted = TRUE
        BY <1>r, <2>1, <2>2, <2>6
      <3> QED
        BY <1>t, <2>3, <2>6, <3>1, <3>2, JoinKept
    <2> QED
      BY <1>7, <2>4, <2>5, <2>6 DEF AcceptCommit, Join, Rejoin
  <1>8. ASSUME NEW r \in Requests, RequestLost(r) PROVE JoinInv'
    BY <1>8, <1>c, <1>t, JoinKept DEF RequestLost
  <1>9. ASSUME NEW i \in Invitations, Expire(i) PROVE JoinInv'
    <2>1. inv' = [inv EXCEPT ![i] = [inv[i] EXCEPT !.expired = TRUE]]
      BY <1>9 DEF Expire
    <2>2. [inv[i] EXCEPT !.expired = TRUE].accepted = inv[i].accepted
      BY <1>r, RowEffects
    <2> QED
      BY <1>9, <1>b, <2>1, <2>2 DEF Expire
  <1>10. ASSUME NEW w \in Workers, Insert(w) PROVE JoinInv'
    <2>1. work[w] \in Invitations /\ secret[w] \in Token
      BY <1>10, <1>t DEF Insert, HeldExists, Token
    <2>2. inv' = [inv EXCEPT ![work[w]] = [inv[work[w]] EXCEPT !.token = secret[w]]]
      BY <1>10 DEF Insert, TokenStored
    <2>3. [inv[work[w]] EXCEPT !.token = secret[w]].accepted = inv[work[w]].accepted
      BY <1>r, <2>1, RowEffects
    <2> QED
      BY <1>10, <1>b, <2>1, <2>2, <2>3 DEF Insert
  <1>11. ASSUME NEW w \in Workers,
                Start(w) \/ Check(w) \/ Look(w) \/ Mail(w) \/ MailRefused(w)
                  \/ RecordOutcome(w) \/ Crash(w)
         PROVE  JoinInv'
    BY <1>11, <1>d
    DEF Start, Check, Look, Mail, MailRefused, RecordOutcome, Crash, requestVars
  <1>12. CASE UNCHANGED vars
    BY <1>12, <1>d DEF vars, requestVars
  <1> QED
    BY <1>1, <1>2, <1>3, <1>4, <1>5, <1>6, <1>7, <1>8, <1>9, <1>10, <1>11, <1>12
    DEF Next

\* An accepted invitation made its holder a member, and the membership's role
\* comes from an accepted invitation, for any overlapping requests.
THEOREM AcceptedHasJoined == Spec => []AcceptedJoins
  <1>1. Init => JoinInv
    <2> SUFFICES ASSUME Init PROVE JoinInv
      OBVIOUS
    <2>1. \A i \in Invitations : inv[i].accepted = FALSE
      BY RowEffects DEF Init
    <2>2. \A r \in Requests : req[r].op = "idle"
      BY DEF Init, Idle
    <2> QED
      BY <2>1, <2>2 DEF Init, JoinInv, AcceptedJoins, MembershipStays
  <1>2. HeldInv /\ JoinInv /\ [Next]_vars => JoinInv'
    BY JoinStep
  <1> QED
    BY <1>1, <1>2, HeldInit, HeldStep, PTL DEF Spec, JoinInv

-------------------------------------------------------------------------------
(* How many e-mails there can be *)

\* Sets of workers are finite, and smaller when something is taken away.
LEMMA SenderCounts ==
    ASSUME NEW C \in SUBSET Workers, NEW D \in SUBSET C
    PROVE  /\ Cardinality(C) \in Nat /\ Cardinality(D) \in Nat
           /\ Cardinality(Workers) \in Nat
           /\ Cardinality(C) <= Cardinality(Workers)
           /\ Cardinality(D) <= Cardinality(C)
           /\ D # C => Cardinality(D) < Cardinality(C)
  <1>1. IsFiniteSet(Workers) /\ IsFiniteSet(C) /\ IsFiniteSet(D)
    BY InvitationAssumption, FS_Subset
  <1>2. /\ Cardinality(C) \in Nat /\ Cardinality(D) \in Nat
        /\ Cardinality(Workers) \in Nat
    BY <1>1, FS_CardinalityType
  <1>3. Cardinality(C) <= Cardinality(Workers)
    BY <1>1, FS_Subset
  <1>4. Cardinality(D) <= Cardinality(C) /\ (Cardinality(C) = Cardinality(D) => C = D)
    BY <1>1, FS_Subset
  <1> QED
    BY <1>2, <1>3, <1>4

\* The bound for one invitation.
SenderBound(i) ==
    /\ rows[i] = <<>> => mails[i] = <<>>
    /\ rows[i] # <<>>
         => Len(mails[i]) + Cardinality(Senders(i)) <= Cardinality(Workers)

\* A step without an e-mail keeps the bound of an invitation if nobody becomes
\* a sender once there is a delivery row, and no row disappears.
LEMMA NoNewSender ==
    ASSUME NEW i \in Invitations, TypeOK, SenderBound(i), mails'[i] = mails[i],
           rows'[i] = <<>> => rows[i] = <<>>,
           rows[i] # <<>> => Senders(i)' \subseteq Senders(i)
    PROVE  SenderBound(i)'
  <1>1. Senders(i) \in SUBSET Workers /\ Senders(i)' \in SUBSET Workers
    BY DEF Senders
  <1>2. /\ Cardinality(Senders(i)) \in Nat /\ Cardinality(Senders(i)') \in Nat
        /\ Cardinality(Workers) \in Nat
        /\ Cardinality(Senders(i)') <= Cardinality(Workers)
        /\ rows[i] # <<>> => Cardinality(Senders(i)') <= Cardinality(Senders(i))
    BY <1>1, SenderCounts
  <1>3. Len(mails[i]) \in Nat /\ (mails[i] = <<>> => Len(mails[i]) = 0)
    BY DEF TypeOK
  <1>4. rows'[i] = <<>> => mails'[i] = <<>>
    BY DEF SenderBound
  <1>5. rows'[i] # <<>>
          => Len(mails'[i]) + Cardinality(Senders(i)') <= Cardinality(Workers)
    BY <1>2, <1>3 DEF SenderBound
  <1> QED
    BY <1>4, <1>5 DEF SenderBound

\* Every step keeps it.
LEMMA SenderStep ==
    ASSUME HeldInv, SendersBounded, [Next]_vars
    PROVE  SendersBounded'
  <1>t. TypeOK /\ HeldExists /\ TypeOK'
    BY HeldStep DEF HeldInv
  <1> SUFFICES ASSUME NEW i \in Invitations PROVE SenderBound(i)'
    BY DEF SendersBounded, SenderBound
  <1>b. SenderBound(i)
    BY DEF SendersBounded, SenderBound
  <1>r. /\ rows \in [Invitations -> Seq(Statuses)]
        /\ mails \in [Invitations -> Seq(Token)]
        /\ pc \in [Workers -> Pc] /\ work \in [Workers -> Invitations \cup {NoInvitation}]
    BY <1>t DEF TypeOK, Statuses
  <1>a. ASSUME NEW j \in Invitations, NEW s,
               rows' = [rows EXCEPT ![j] = Append(rows[j], s)]
        PROVE  rows'[i] = <<>> => rows[i] = <<>>
    BY <1>a, <1>r
  <1>c. ASSUME mails' = mails, rows'[i] = <<>> => rows[i] = <<>>, UNCHANGED workerVars
        PROVE  SenderBound(i)'
    <2>1. Senders(i)' = Senders(i)
      BY <1>c DEF workerVars, Senders
    <2> QED
      BY <1>b, <1>c, <1>t, <2>1, NoNewSender
  <1>d. ASSUME NEW w \in Workers, NEW label, pc' = [pc EXCEPT ![w] = label],
               label \notin {"insert", "smtp"} \/ (label = "insert" /\ rows[work[w]] = <<>>),
               work' = work, mails' = mails, rows' = rows
        PROVE  SenderBound(i)'
    <2>1. rows[i] # <<>> => Senders(i)' \subseteq Senders(i)
      BY <1>d, <1>r DEF Senders
    <2> QED
      BY <1>b, <1>d, <1>t, <2>1, NoNewSender
  <1>1. ASSUME NEW r \in Requests,
               \/ CreateRead(r) \/ RevokeRead(r) \/ RevokeCommit(r) \/ AcceptRead(r)
               \/ AcceptLook(r) \/ AcceptCommit(r) \/ RequestLost(r)
        PROVE  SenderBound(i)'
    <2>1. mails' = mails /\ rows' = rows /\ UNCHANGED workerVars
      BY <1>1
      DEF CreateRead, RevokeRead, RevokeCommit, AcceptRead, AcceptLook, AcceptCommit,
          RequestLost, Reads
    <2> QED
      BY <1>c, <2>1
  <1>2. ASSUME NEW r \in Requests, CreateCommit(r) PROVE SenderBound(i)'
    <2>1. PICK j \in Invitations :
            \/ rows' = rows
            \/ rows' = [rows EXCEPT ![j] = Append(rows[j], "development_outbox")]
      BY <1>2 DEF CreateCommit
    <2>2. mails' = mails /\ UNCHANGED workerVars
      BY <1>2 DEF CreateCommit
    <2> QED
      BY <1>a, <1>c, <2>1, <2>2
  <1>3. ASSUME NEW j \in Invitations, Expire(j) PROVE SenderBound(i)'
    BY <1>3, <1>c DEF Expire
  <1>4. ASSUME NEW w \in Workers, Start(w) PROVE SenderBound(i)'
    <2>1. PICK j : work' = [work EXCEPT ![w] = j]
      BY <1>4 DEF Start
    <2>2. pc' = [pc EXCEPT ![w] = "check"] /\ mails' = mails /\ rows' = rows
      BY <1>4 DEF Start, Goto
    <2>3. Senders(i)' \subseteq Senders(i)
      BY <1>r, <2>1, <2>2 DEF Senders
    <2> QED
      BY <1>b, <1>t, <2>2, <2>3, NoNewSender
  <1>5. ASSUME NEW w \in Workers, Check(w) PROVE SenderBound(i)'
    <2> DEFINE label == IF Pending(work[w]) THEN "look" ELSE "idle"
    <2>1. label \notin {"insert", "smtp"}
      OBVIOUS
    <2> HIDE DEF label
    <2> QED
      BY <1>5, <1>d, <2>1 DEF Check, Goto, label
  <1>6. ASSUME NEW w \in Workers, Look(w) PROVE SenderBound(i)'
    <2> DEFINE label == IF NoDelivery(work[w]) THEN "insert" ELSE "idle"
    <2>1. label \notin {"insert", "smtp"} \/ (label = "insert" /\ rows[work[w]] = <<>>)
      BY DEF NoDelivery
    <2> HIDE DEF label
    <2> QED
      BY <1>6, <1>d, <2>1 DEF Look, Goto, label
  <1>7. ASSUME NEW w \in Workers, Insert(w) PROVE SenderBound(i)'
    <2>1. /\ rows' = [rows EXCEPT ![work[w]] = Append(rows[work[w]], "publishing")]
          /\ pc[w] = "insert" /\ pc' = [pc EXCEPT ![w] = "smtp"]
          /\ work' = work /\ mails' = mails
      BY <1>7 DEF Insert, Goto
    <2>2. work[w] \in Invitations
      BY <1>t, <2>1 DEF HeldExists
    <2>3. Senders(i)' = Senders(i)
      BY <1>r, <2>1 DEF Senders
    <2> QED
      BY <1>a, <1>b, <1>t, <2>1, <2>2, <2>3, NoNewSender
  <1>8. ASSUME NEW w \in Workers, Mail(w) PROVE SenderBound(i)'
    <2>1. PICK outcome \in {"sent", "failed"} : pc' = [pc EXCEPT ![w] = outcome]
      BY <1>8 DEF Mail, Goto
    <2>2. /\ pc[w] = "smtp" /\ work' = work /\ rows' = rows
          /\ mails' = [mails EXCEPT ![work[w]] = Append(mails[work[w]], secret[w])]
      BY <1>8 DEF Mail
    <2>3. /\ work[w] \in Invitations /\ secret[w] \in Token
          /\ mine[w] \in DOMAIN rows[work[w]]
      BY <1>t, <2>2 DEF HeldExists, Token
    <2>4. CASE work[w] # i
      <3>1. Senders(i)' \subseteq Senders(i) /\ mails'[i] = mails[i]
        BY <1>r, <2>1, <2>2, <2>4 DEF Senders
      <3> QED
        BY <1>b, <1>t, <2>2, <3>1, NoNewSender
    <2>5. CASE work[w] = i
      <3>1. w \in Senders(i) /\ Senders(i)' = Senders(i) \ {w}
        BY <1>r, <2>1, <2>2, <2>5 DEF Senders
      <3>2. Senders(i) \in SUBSET Workers /\ (Senders(i) \ {w}) \in SUBSET Senders(i)
        BY DEF Senders
      <3>3. /\ Cardinality(Senders(i)') < Cardinality(Senders(i))
            /\ Cardinality(Senders(i)') \in Nat /\ Cardinality(Senders(i)) \in Nat
            /\ Cardinality(Workers) \in Nat
        BY <3>1, <3>2, SenderCounts
      <3>4. Len(mails'[i]) = Len(mails[i]) + 1 /\ Len(mails[i]) \in Nat
        BY <1>r, <2>2, <2>3, <2>5
      <3>5. rows[i] # <<>> /\ rows'[i] # <<>>
        BY <1>r, <2>2, <2>3, <2>5
      <3>6. Len(mails[i]) + Cardinality(Senders(i)) <= Cardinality(Workers)
        BY <1>b, <3>5 DEF SenderBound
      <3>7. Len(mails'[i]) + Cardinality(Senders(i)') <= Cardinality(Workers)
        BY <3>3, <3>4, <3>6
      <3> QED
        BY <3>5, <3>7 DEF SenderBound
    <2> QED
      BY <2>4, <2>5
  <1>9. ASSUME NEW w \in Workers, MailRefused(w) PROVE SenderBound(i)'
    BY <1>9, <1>d DEF MailRefused, Goto
  <1>10. ASSUME NEW w \in Workers, RecordOutcome(w) PROVE SenderBound(i)'
    <2>1. /\ rows' = [rows EXCEPT ![work[w]] =
                        [rows[work[w]] EXCEPT ![mine[w]] = Outcome(w)]]
          /\ mails' = mails /\ work' = work /\ pc' = [pc EXCEPT ![w] = "idle"]
      BY <1>10 DEF RecordOutcome, Goto
    <2>2. work[w] \in Invitations /\ mine[w] \in DOMAIN rows[work[w]]
      BY <1>10, <1>t DEF RecordOutcome, HeldExists
    <2>3. rows'[i] = <<>> => rows[i] = <<>>
      BY <1>r, <2>1, <2>2
    <2>4. Senders(i)' \subseteq Senders(i)
      BY <1>r, <2>1 DEF Senders
    <2> QED
      BY <1>b, <1>t, <2>1, <2>3, <2>4, NoNewSender
  <1>11. ASSUME NEW w \in Workers, Crash(w) PROVE SenderBound(i)'
    BY <1>11, <1>d DEF Crash, Goto
  <1>12. CASE UNCHANGED vars
    BY <1>12, <1>c DEF vars
  <1> QED
    BY <1>1, <1>2, <1>3, <1>4, <1>5, <1>6, <1>7, <1>8, <1>9, <1>10, <1>11, <1>12
    DEF Next

\* An invitation is never mailed more often than workers deliver it at the
\* same time; with a single worker, never twice, whatever crashes and replays.
THEOREM MailsBounded == Spec => []MailsBoundedByWorkers
  <1>1. Init => SendersBounded
    BY DEF Init, SendersBounded
  <1>2. HeldInv /\ SendersBounded /\ [Next]_vars => SendersBounded'
    BY SenderStep
  <1>3. HeldInv /\ SendersBounded => MailsBoundedByWorkers
    <2> SUFFICES ASSUME HeldInv, SendersBounded, NEW i \in Invitations
                 PROVE  Len(mails[i]) <= Cardinality(Workers)
      BY DEF MailsBoundedByWorkers
    <2>1. Senders(i) \in SUBSET Workers
      BY DEF Senders
    <2>2. Cardinality(Senders(i)) \in Nat /\ Cardinality(Workers) \in Nat
      BY <2>1, SenderCounts
    <2>3. Len(mails[i]) \in Nat /\ (mails[i] = <<>> => Len(mails[i]) = 0)
      BY DEF HeldInv, TypeOK
    <2> QED
      BY <2>2, <2>3 DEF SendersBounded
  <1> QED
    BY <1>1, <1>2, <1>3, HeldInit, HeldStep, PTL DEF Spec

-------------------------------------------------------------------------------
(* The digest and the records of one worker's deliveries *)

\* What the tables say of an invitation
RecordsFit(i) ==
    /\ i \in jobs \/ rows[i] # <<>> => inv[i].status # "absent"
    /\ rows[i] = <<>> => mails[i] = <<>>
    /\ Len(rows[i]) <= 1
    /\ \A k \in DOMAIN rows[i] : rows[i][k] = "sent" => mails[i] # <<>>
    /\ \A k \in DOMAIN mails[i] : mails[i][k] = inv[i].token

\* What the handler relies on: nothing was mailed before it, and the digest it
\* committed stays until it has sent
HandlerFits(w) ==
    /\ pc[w] # "idle" => work[w] \in jobs
    /\ pc[w] = "insert" => rows[work[w]] = <<>>
    /\ pc[w] = "smtp" => inv[work[w]].token = secret[w] /\ mails[work[w]] = <<>>
    /\ pc[w] = "sent" => mails[work[w]] # <<>>

DigestInv ==
    /\ \A i \in Invitations : RecordsFit(i)
    /\ \A w \in Workers : HandlerFits(w)

\* A commit of a request that keeps the digests keeps this.
LEMMA RequestDigest ==
    ASSUME HeldInv, DigestInv,
           rows' = rows, mails' = mails, pc' = pc, work' = work, secret' = secret,
           jobs \subseteq jobs',
           \A i \in Invitations :
             /\ inv'[i].token = inv[i].token
             /\ inv[i].status # "absent" \/ i \in jobs' \ jobs => inv'[i].status # "absent"
    PROVE  DigestInv'
  <1>1. \A i \in Invitations : RecordsFit(i)'
    BY DEF DigestInv, RecordsFit
  <1>2. \A w \in Workers : HandlerFits(w)'
    BY DEF DigestInv, HandlerFits, HeldInv, HeldExists
  <1> QED
    BY <1>1, <1>2 DEF DigestInv

\* The creation in the development outbox: no handler is at work yet.
LEMMA OutboxDigest ==
    ASSUME HeldInv, DigestInv, NEW i \in Invitations, inv[i] = NoRow,
           inv' = [inv EXCEPT ![i] = NewRow],
           rows' = [rows EXCEPT ![i] = Append(@, "development_outbox")],
           jobs' = jobs, mails' = mails, pc' = pc, work' = work, secret' = secret
    PROVE  DigestInv'
  <1>1. NoRow.status = "absent" /\ NewRow.status = "pending" /\ NewRow.token = NoRow.token
    BY DEF NoRow, NewRow
  <1>2. rows[i] = <<>> /\ i \notin jobs /\ mails[i] = <<>>
    BY <1>1 DEF DigestInv, RecordsFit
  <1>3. /\ rows'[i] = <<"development_outbox">>
        /\ \A j \in Invitations : j # i => rows'[j] = rows[j] /\ inv'[j] = inv[j]
        /\ inv'[i] = NewRow
    BY <1>2 DEF HeldInv, TypeOK
  <1>4. RecordsFit(i)'
    BY <1>1, <1>2, <1>3 DEF RecordsFit
  <1>5. \A j \in Invitations : j # i => RecordsFit(j)'
    BY <1>3 DEF DigestInv, RecordsFit
  <1>6. \A w \in Workers : HandlerFits(w)'
    <2>1. \A w \in Workers : pc[w] # "idle" => work[w] \in Invitations /\ work[w] # i
      BY <1>2 DEF DigestInv, HandlerFits, HeldInv, HeldExists
    <2> QED
      BY <1>3, <2>1 DEF DigestInv, HandlerFits
  <1> QED
    BY <1>4, <1>5, <1>6 DEF DigestInv

\* The worker's steps keep it, when there is no other worker.
LEMMA WorkerDigest ==
    ASSUME HeldInv, DigestInv, NEW w \in Workers, \A v \in Workers : v = w,
           \/ Start(w) \/ Check(w) \/ Look(w) \/ Insert(w)
           \/ Mail(w) \/ MailRefused(w) \/ RecordOutcome(w) \/ Crash(w)
    PROVE  DigestInv'
  <1>t. TypeOK /\ HeldExists /\ HandlerFits(w)
    BY DEF HeldInv, DigestInv
  <1>p. ASSUME NEW label \in Pc, Goto(w, label) PROVE pc'[w] = label
    BY <1>p, <1>t DEF Goto, TypeOK
  <1>k. ASSUME inv' = inv, jobs' = jobs, rows' = rows, mails' = mails
        PROVE  \A i \in Invitations : RecordsFit(i)'
    BY <1>k DEF DigestInv, RecordsFit
  <1>1. CASE Start(w)
    <2>1. /\ inv' = inv /\ jobs' = jobs /\ rows' = rows /\ mails' = mails
          /\ Goto(w, "check") /\ \E i \in jobs : work' = [work EXCEPT ![w] = i]
      BY <1>1 DEF Start, requestVars
    <2>2. work'[w] \in jobs /\ pc'[w] = "check"
      BY <2>1, <1>p, <1>t DEF TypeOK, Pc
    <2>3. HandlerFits(w)'
      BY <2>1, <2>2 DEF HandlerFits
    <2> QED
      BY <2>1, <2>3, <1>k DEF DigestInv
  <1>2. CASE Check(w) \/ MailRefused(w) \/ Crash(w)
    <2>1. /\ inv' = inv /\ jobs' = jobs /\ rows' = rows /\ mails' = mails
          /\ work' = work /\ pc[w] # "idle"
          /\ \E label \in {"look", "idle", "failed"} : Goto(w, label)
      BY <1>2 DEF Check, MailRefused, Crash, requestVars
    <2>2. pc'[w] \in {"look", "idle", "failed"}
      BY <2>1, <1>p DEF Pc
    <2>3. HandlerFits(w)'
      BY <2>1, <2>2, <1>t DEF HandlerFits
    <2> QED
      BY <2>1, <2>3, <1>k DEF DigestInv
  <1>3. CASE Look(w)
    <2>1. /\ inv' = inv /\ jobs' = jobs /\ rows' = rows /\ mails' = mails
          /\ work' = work /\ pc[w] # "idle"
          /\ Goto(w, IF rows[work[w]] = <<>> THEN "insert" ELSE "idle")
      BY <1>3 DEF Look, NoDelivery, requestVars
    <2>2. pc'[w] = IF rows[work[w]] = <<>> THEN "insert" ELSE "idle"
      BY <2>1, <1>p DEF Pc
    <2>3. HandlerFits(w)'
      BY <2>1, <2>2, <1>t DEF HandlerFits
    <2> QED
      BY <2>1, <2>3, <1>k DEF DigestInv
  <1>4. CASE Insert(w)
    <2> DEFINE i == work[w]
    <2>1. /\ jobs' = jobs /\ mails' = mails /\ work' = work /\ secret' = secret
          /\ pc[w] = "insert" /\ Goto(w, "smtp")
          /\ rows' = [rows EXCEPT ![i] = Append(@, "publishing")]
          /\ inv' = [inv EXCEPT ![i].token = secret[w]]
      BY <1>4 DEF Insert, TokenStored
    <2>2. /\ i \in jobs /\ i \in Invitations /\ rows[i] = <<>> /\ secret[w] \in Token
          /\ RecordsFit(i) /\ mails[i] = <<>>
      BY <2>1, <1>t DEF HandlerFits, HeldExists, DigestInv, RecordsFit, Token
    <2>3. /\ rows'[i] = <<"publishing">> /\ inv'[i] = [inv[i] EXCEPT !.token = secret[w]]
          /\ \A j \in Invitations : j # i => rows'[j] = rows[j] /\ inv'[j] = inv[j]
      BY <2>1, <2>2, <1>t DEF TypeOK
    <2>4. inv'[i].token = secret[w] /\ inv'[i].status = inv[i].status
      BY <2>2, <2>3, <1>t DEF TypeOK, InvRow
    <2>5. pc'[w] = "smtp"
      BY <2>1, <1>p DEF Pc
    <2>6. RecordsFit(i)'
      BY <2>1, <2>2, <2>3, <2>4 DEF RecordsFit
    <2>7. \A j \in Invitations : j # i => RecordsFit(j)'
      BY <2>1, <2>3 DEF DigestInv, RecordsFit
    <2>8. HandlerFits(w)'
      BY <2>1, <2>2, <2>4, <2>5 DEF HandlerFits
    <2> QED
      <3>1. \A j \in Invitations : RecordsFit(j)'
        BY <2>1, <2>6, <2>7
      <3> QED
        BY <3>1, <2>8 DEF DigestInv
  <1>5. CASE Mail(w)
    <2> DEFINE i == work[w]
    <2>1. /\ inv' = inv /\ jobs' = jobs /\ rows' = rows /\ work' = work
          /\ pc[w] = "smtp" /\ mails' = [mails EXCEPT ![i] = Append(@, secret[w])]
          /\ \E outcome \in {"sent", "failed"} : Goto(w, outcome)
      BY <1>5 DEF Mail, requestVars
    <2>2. /\ i \in jobs /\ i \in Invitations /\ mails[i] = <<>> /\ RecordsFit(i)
          /\ inv[i].token = secret[w] /\ mine[w] \in DOMAIN rows[i]
      BY <2>1, <1>t DEF HandlerFits, HeldExists, DigestInv
    <2>3. /\ mails'[i] = <<secret[w]>>
          /\ \A j \in Invitations : j # i => mails'[j] = mails[j]
      BY <2>1, <2>2, <1>t DEF TypeOK
    <2>4. pc'[w] \in {"sent", "failed"}
      BY <2>1, <1>p DEF Pc
    <2>5. mails'[i] # <<>> /\ \A k \in DOMAIN mails'[i] : mails'[i][k] = secret[w]
      BY <2>3
    <2>6. rows[i] # <<>>
      BY <2>2
    <2>7. RecordsFit(i)'
      BY <2>1, <2>2, <2>5, <2>6 DEF RecordsFit
    <2>8. \A j \in Invitations : j # i => RecordsFit(j)'
      BY <2>1, <2>3 DEF DigestInv, RecordsFit
    <2>9. HandlerFits(w)'
      BY <2>1, <2>2, <2>4, <2>5 DEF HandlerFits
    <2> QED
      <3>1. \A j \in Invitations : RecordsFit(j)'
        BY <2>1, <2>7, <2>8
      <3> QED
        BY <3>1, <2>9 DEF DigestInv
  <1>6. CASE RecordOutcome(w)
    <2> DEFINE i == work[w]
               m == mine[w]
    <2>1. /\ inv' = inv /\ jobs' = jobs /\ mails' = mails /\ work' = work
          /\ pc[w] \in {"sent", "failed"} /\ Goto(w, "idle")
          /\ rows' = [rows EXCEPT ![i][m] = pc[w]]
      BY <1>6 DEF RecordOutcome, Outcome, requestVars
    <2>2. /\ i \in jobs /\ i \in Invitations /\ m \in DOMAIN rows[i]
          /\ RecordsFit(i) /\ (pc[w] = "sent" => mails[i] # <<>>)
      BY <2>1, <1>t DEF HandlerFits, HeldExists, DigestInv
    <2>3. /\ rows'[i] = [rows[i] EXCEPT ![m] = pc[w]]
          /\ \A j \in Invitations : j # i => rows'[j] = rows[j]
      BY <2>1, <2>2, <1>t DEF TypeOK
    <2>4. rows[i] \in Seq(Statuses)
      BY <2>2, <1>t DEF TypeOK, Statuses
    <2>5. /\ Len(rows'[i]) = Len(rows[i]) /\ rows'[i] # <<>>
          /\ \A k \in DOMAIN rows'[i] : k \in DOMAIN rows[i] /\
               rows'[i][k] = IF k = m THEN pc[w] ELSE rows[i][k]
      BY <2>2, <2>3, <2>4
    <2>6. RecordsFit(i)'
      BY <2>1, <2>2, <2>5 DEF RecordsFit
    <2>7. \A j \in Invitations : j # i => RecordsFit(j)'
      BY <2>1, <2>3 DEF DigestInv, RecordsFit
    <2>8. pc'[w] = "idle"
      BY <2>1, <1>p DEF Pc
    <2>9. HandlerFits(w)'
      BY <2>8 DEF HandlerFits
    <2> QED
      <3>1. \A j \in Invitations : RecordsFit(j)'
        BY <2>1, <2>6, <2>7
      <3> QED
        BY <3>1, <2>9 DEF DigestInv
  <1> QED
    BY <1>1, <1>2, <1>3, <1>4, <1>5, <1>6

\* Every step keeps it, when there is one worker.
LEMMA DigestStep ==
    ASSUME \A v, w \in Workers : v = w
    PROVE  HeldInv /\ DigestInv /\ [Next]_vars => DigestInv'
  <1> SUFFICES ASSUME HeldInv, DigestInv, [Next]_vars PROVE DigestInv'
    OBVIOUS
  <1>t. /\ TypeOK /\ HeldExists /\ inv \in [Invitations -> InvRow]
    BY DEF HeldInv, TypeOK
  <1>a. ASSUME inv' = inv, jobs' = jobs, rows' = rows, mails' = mails, pc' = pc,
               work' = work, secret' = secret
        PROVE  DigestInv'
    BY <1>a, RequestDigest
  <1>b. ASSUME NEW i \in Invitations, NEW row, inv' = [inv EXCEPT ![i] = row],
               row.token = inv[i].token, row.status # "absent",
               rows' = rows, mails' = mails, pc' = pc, work' = work, secret' = secret,
               jobs \subseteq jobs', jobs' \subseteq jobs \cup {i}
        PROVE  DigestInv'
    <2>1. \A j \in Invitations :
            /\ inv'[j].token = inv[j].token
            /\ inv[j].status # "absent" \/ j \in jobs' \ jobs => inv'[j].status # "absent"
      BY <1>b, <1>t
    <2> QED
      BY <1>b, <2>1, RequestDigest
  <1>1. ASSUME NEW r \in Requests,
               CreateRead(r) \/ RevokeRead(r) \/ AcceptRead(r) \/ AcceptLook(r)
                 \/ RequestLost(r)
        PROVE  DigestInv'
    BY <1>1, <1>a DEF CreateRead, RevokeRead, AcceptRead, AcceptLook, RequestLost,
                      Reads, workerVars
  <1>2. ASSUME NEW r \in Requests, CreateCommit(r) PROVE DigestInv'
    <2>1. PICK i \in Invitations :
            /\ inv[i] = NoRow /\ inv' = [inv EXCEPT ![i] = NewRow]
            /\ \/ jobs' = jobs \cup {i} /\ UNCHANGED rows
               \/ /\ rows' = [rows EXCEPT ![i] = Append(@, "development_outbox")]
                  /\ UNCHANGED jobs
      BY <1>2 DEF CreateCommit
    <2>2. mails' = mails /\ pc' = pc /\ work' = work /\ secret' = secret
      BY <1>2 DEF CreateCommit, workerVars
    <2>3. NewRow.token = NoRow.token /\ NewRow.status # "absent"
      BY DEF NewRow, NoRow
    <2>4. CASE jobs' = jobs \cup {i} /\ rows' = rows
      BY <2>1, <2>2, <2>3, <2>4, <1>b
    <2>5. CASE rows' = [rows EXCEPT ![i] = Append(@, "development_outbox")]
                 /\ jobs' = jobs
      BY <2>1, <2>2, <2>5, OutboxDigest
    <2> QED
      BY <2>1, <2>4, <2>5
  <1>3. ASSUME NEW r \in Requests, RevokeCommit(r) PROVE DigestInv'
    <2>1. req[r].i \in Invitations
      BY <1>3, <1>t DEF RevokeCommit, HeldExists
    <2>2. /\ inv' = [inv EXCEPT ![req[r].i] = Revoked(inv[req[r].i])]
          /\ jobs' = jobs /\ rows' = rows /\ mails' = mails /\ pc' = pc
          /\ work' = work /\ secret' = secret
      BY <1>3 DEF RevokeCommit, workerVars
    <2>3. /\ Revoked(inv[req[r].i]).token = inv[req[r].i].token
          /\ Revoked(inv[req[r].i]).status # "absent"
      BY <1>t, <2>1 DEF Revoked, InvRow
    <2> QED
      BY <1>b, <2>1, <2>2, <2>3
  <1>4. ASSUME NEW r \in Requests, AcceptCommit(r) PROVE DigestInv'
    <2>1. req[r].i \in Invitations
      BY <1>4, <1>t DEF AcceptCommit, Join, Rejoin, HeldExists
    <2>2. /\ \/ inv' = inv \/ inv' = [inv EXCEPT ![req[r].i] = Accepted(inv[req[r].i])]
          /\ jobs' = jobs /\ rows' = rows /\ mails' = mails /\ pc' = pc
          /\ work' = work /\ secret' = secret
      BY <1>4 DEF AcceptCommit, Join, Rejoin, workerVars
    <2>3. /\ Accepted(inv[req[r].i]).token = inv[req[r].i].token
          /\ Accepted(inv[req[r].i]).status # "absent"
      BY <1>t, <2>1 DEF Accepted, InvRow
    <2> QED
      BY <1>a, <1>b, <2>1, <2>2, <2>3
  <1>5. ASSUME NEW i \in Invitations, Expire(i) PROVE DigestInv'
    <2>1. /\ inv' = [inv EXCEPT ![i] = [inv[i] EXCEPT !.expired = TRUE]]
          /\ inv[i].status # "absent"
          /\ jobs' = jobs /\ rows' = rows /\ mails' = mails /\ pc' = pc
          /\ work' = work /\ secret' = secret
      BY <1>5 DEF Expire, workerVars
    <2>2. /\ [inv[i] EXCEPT !.expired = TRUE].token = inv[i].token
          /\ [inv[i] EXCEPT !.expired = TRUE].status # "absent"
      BY <1>t, <2>1 DEF InvRow
    <2> QED
      BY <1>b, <2>1, <2>2
  <1>6. ASSUME NEW w \in Workers,
               \/ Start(w) \/ Check(w) \/ Look(w) \/ Insert(w)
               \/ Mail(w) \/ MailRefused(w) \/ RecordOutcome(w) \/ Crash(w)
        PROVE  DigestInv'
    BY <1>6, WorkerDigest
  <1>7. CASE UNCHANGED vars
    BY <1>7, <1>a DEF vars, requestVars, workerVars
  <1> QED
    BY <1>1, <1>2, <1>3, <1>4, <1>5, <1>6, <1>7 DEF Next

\* deliver_invitation_smtp, run by one worker: through crashes, lost answers,
\* replays and rotations of the secret, every link that was mailed opens its
\* invitation and nothing is recorded as sent that was not.
THEOREM MailsMatch ==
    ASSUME \A v, w \in Workers : v = w
    PROVE  Spec => []MailsMatchRecords
  <1>1. Init => DigestInv
    <2> SUFFICES ASSUME Init PROVE DigestInv
      OBVIOUS
    <2>1. \A i \in Invitations : RecordsFit(i)
      BY DEF Init, RecordsFit
    <2>2. \A w \in Workers : HandlerFits(w)
      BY DEF Init, HandlerFits
    <2> QED
      BY <2>1, <2>2 DEF DigestInv
  <1>2. HeldInv /\ DigestInv => MailsMatchRecords
    <2> SUFFICES ASSUME HeldInv, DigestInv PROVE MailsMatchRecords
      OBVIOUS
    <2>1. LinksMatchDigest
      BY DEF DigestInv, RecordsFit, LinksMatchDigest
    <2>2. SentWasMailed
      <3> SUFFICES ASSUME NEW i \in Invitations
                   PROVE  Cardinality({k \in DOMAIN rows[i] : rows[i][k] = "sent"})
                            <= Len(mails[i])
        BY DEF SentWasMailed
      <3> DEFINE S == {k \in DOMAIN rows[i] : rows[i][k] = "sent"}
      <3>1. rows[i] \in Seq(Statuses) /\ mails[i] \in Seq(Token) /\ RecordsFit(i)
        BY DEF HeldInv, TypeOK, Statuses, DigestInv
      <3>2. Len(mails[i]) \in Nat /\ (mails[i] # <<>> => Len(mails[i]) >= 1)
        BY <3>1
      <3>3. DOMAIN rows[i] \subseteq {1}
        BY <3>1 DEF RecordsFit
      <3>4. S = {} \/ (S = {1} /\ mails[i] # <<>>)
        BY <3>1, <3>3 DEF RecordsFit
      <3> HIDE DEF S
      <3>5. Cardinality(S) <= Len(mails[i])
        <4>1. CASE S = {}
          BY <3>2, <4>1, FS_EmptySet
        <4>2. CASE S = {1} /\ mails[i] # <<>>
          BY <3>2, <4>2, FS_Singleton
        <4> QED
          BY <3>4, <4>1, <4>2
      <3> QED
        BY <3>5 DEF S
    <2> QED
      BY <2>1, <2>2 DEF MailsMatchRecords
  <1>3. HeldInv /\ DigestInv /\ [Next]_vars => DigestInv'
    BY DigestStep
  <1> QED
    BY <1>1, <1>2, <1>3, HeldInit, HeldStep, PTL DEF Spec
===============================================================================
