----------------------------- MODULE RecordsProofs -----------------------------
(***************************************************************************)
(* Proofs about the records of a workspace: the event ledger, accounts,    *)
(* the lifecycle of incidents, the service catalog, verdicts and consent,  *)
(* for any number of requests, members, services and events.  The          *)
(* components share no variables; each theorem is about one of them, but   *)
(* the last, which puts the types of all components of MCOperations        *)
(* together.                                                               *)
(***************************************************************************)
EXTENDS MCOperations, OperationsProofs

-------------------------------------------------------------------------------
(* EventLedger *)

MaterialRow ==
    [origin : Senders, repository : Repositories \cup {NoRepository},
     service : BOOLEAN, body : Bodies, occurred : Nat]

PostRow ==
    [step : {"insert", "ok", "conflict", "refused", "lost"}, event : Payload,
     material : MaterialRow]

LedgerTypes ==
    /\ ledger \in [Sources -> {NoMaterial} \cup MaterialRow]
    /\ post \in [Posts -> {[step |-> "new"]} \cup PostRow]
    /\ home \in Repositories /\ moved \in BOOLEAN /\ receipts \in Nat

\* A request that got past the checks writes where it may, under its own name
Permitted(p) ==
    /\ post[p].event.sender \in Adapters => post[p].event.source = post[p].event.sender
    /\ MayWrite(post[p].event.sender, post[p].event.source)

\* What the request compares is what its event says now, unless the service
\* has moved or the event occurred when it was received
Current(p) ==
    (~moved /\ post[p].event.dated)
        => post[p].material = Material(p, post[p].event)

\* What a request was told holds of the row that is stored
AnswerHolds(p) ==
    /\ post[p].step = "ok" =>
         ledger[post[p].event.source] = post[p].material
    /\ post[p].step = "conflict" =>
         ledger[post[p].event.source] \notin {NoMaterial, post[p].material}

LedgerInv ==
    /\ LedgerTypes
    /\ \A s \in Adapters : ledger[s] # NoMaterial => ledger[s].origin = s
    /\ \A p \in Posts :
         post[p].step # "new" =>
           /\ post[p].material.origin = post[p].event.sender
           /\ post[p].step # "refused" => Permitted(p)
           /\ Current(p) /\ AnswerHolds(p)

\* The material of an event is well formed, and whoever sends the event again
\* before the service moves sends the same.
LEMMA MaterialTyped ==
    ASSUME LedgerTypes, NEW p, NEW event \in Payload
    PROVE  /\ Material(p, event) \in MaterialRow
           /\ Material(p, event).origin = event.sender
  <1>1. Named(event) \subseteq Repositories
    BY DEF Named, Payload, LedgerTypes
  <1>2. Effective(event) \in Repositories \cup {NoRepository}
    <2>1. CASE Named(event) = {}
      BY <2>1 DEF Effective
    <2>2. CASE Named(event) # {}
      <3>1. (CHOOSE r \in Named(event) : TRUE) \in Named(event)
        BY <2>2
      <3> QED
        BY <2>2, <3>1, <1>1 DEF Effective
    <2> QED
      BY <2>1, <2>2
  <1> QED
    BY <1>2 DEF Material, MaterialRow, Payload, LedgerTypes

\* No stored row looks like none.
LEMMA MaterialIsSome == ASSUME NEW m \in MaterialRow PROVE m # NoMaterial
  <1>1. "body" \in DOMAIN m
    BY DEF MaterialRow
  <1>2. "body" \notin DOMAIN NoMaterial
    BY DEF NoMaterial
  <1> QED
    BY <1>1, <1>2

\* The look at the ledger answers from the row that is stored.
LEMMA PostKeeps ==
    ASSUME LedgerInv, NEW p \in Posts, Post(p)
    PROVE  LedgerInv'
  <1>1. PICK event \in Payload :
          /\ event.sender \in Adapters => event.source = event.sender
          /\ LET material == Material(p, event)
                 stored == ledger[event.source]
             IN Answered(p,
                  IF ~MayWrite(event.sender, event.source)
                     \/ \E r, q \in Named(event) : r # q THEN "refused"
                  ELSE IF stored = NoMaterial THEN "insert"
                  ELSE Compared(stored, material), event, material)
    BY DEF Post, Sent
  <1> DEFINE material == Material(p, event)
             stored == ledger[event.source]
             step == IF ~MayWrite(event.sender, event.source)
                        \/ \E r, q \in Named(event) : r # q THEN "refused"
                     ELSE IF stored = NoMaterial THEN "insert"
                     ELSE Compared(stored, material)
  <1>2. /\ post' = [post EXCEPT ![p] = [step |-> step, event |-> event,
                                        material |-> material]]
        /\ UNCHANGED <<ledger, home, moved>> /\ receipts' = receipts + 1
    BY <1>1 DEF Post, Answered
  <1>3. material \in MaterialRow /\ material.origin = event.sender
    BY MaterialTyped DEF LedgerInv
  <1>4. /\ step \in {"insert", "ok", "conflict", "refused"}
        /\ step # "refused" => MayWrite(event.sender, event.source)
        /\ step = "ok" => stored = material
        /\ step = "conflict" => stored \notin {NoMaterial, material}
    BY DEF Compared
  <1>5. event.dated => Material(p, event)' = material
    BY <1>2 DEF Material, Effective, Named
  <1>6. \A q \in Posts, e \in Payload : e.dated =>
          Material(q, e)' = Material(q, e)
    BY <1>2 DEF Material, Effective, Named
  <1> HIDE DEF step, material, stored
  <1>7. [step |-> step, event |-> event, material |-> material] \in PostRow
    BY <1>3, <1>4 DEF PostRow
  <1>8. /\ post'[p] = [step |-> step, event |-> event, material |-> material]
        /\ \A q \in Posts : q # p => post'[q] = post[q]
        /\ LedgerTypes'
    BY <1>2, <1>7 DEF LedgerInv, LedgerTypes
  <1>9. ASSUME NEW q \in Posts, post'[q].step # "new"
        PROVE  /\ post'[q].material.origin = post'[q].event.sender
               /\ post'[q].step # "refused" => Permitted(q)'
               /\ Current(q)' /\ AnswerHolds(q)'
    <2>1. CASE q = p
      BY <2>1, <1>1, <1>2, <1>3, <1>4, <1>5, <1>8
      DEF Permitted, MayWrite, Reserved, Current, AnswerHolds, stored, material
    <2>2. CASE q # p
      <3>1. post'[q] = post[q] /\ post[q].step # "new"
        BY <2>2, <1>8, <1>9
      <3>2. post[q].event \in Payload
        BY <3>1 DEF LedgerInv, LedgerTypes, PostRow
      <3> QED
        BY <3>1, <3>2, <1>2, <1>6
        DEF LedgerInv, Permitted, MayWrite, Reserved, Current, AnswerHolds
    <2> QED
      BY <2>1, <2>2
  <1> QED
    BY <1>2, <1>8, <1>9 DEF LedgerInv

\* A request that changes neither the catalog nor a row that is stored keeps
\* what the others were told; its own answer must hold.
LEMMA AnsweredKeeps ==
    ASSUME LedgerInv, NEW p \in Posts, post[p].step = "insert",
           NEW step \in {"ok", "conflict", "lost"},
           post' = [post EXCEPT ![p].step = step],
           ledger' \in [Sources -> {NoMaterial} \cup MaterialRow],
           \A s \in Sources : ledger[s] # NoMaterial => ledger'[s] = ledger[s],
           \A s \in Adapters : ledger'[s] # NoMaterial => ledger'[s].origin = s,
           step = "ok" => ledger'[post[p].event.source] = post[p].material,
           step = "conflict" =>
             ledger'[post[p].event.source] \notin {NoMaterial, post[p].material},
           UNCHANGED <<home, moved, receipts>>
    PROVE  LedgerInv'
  <1>1. post[p] \in PostRow
    BY DEF LedgerInv, LedgerTypes
  <1>2. /\ post'[p] \in PostRow /\ post'[p].step = step
        /\ post'[p].event = post[p].event /\ post'[p].material = post[p].material
        /\ \A q \in Posts : q # p => post'[q] = post[q]
    BY <1>1 DEF LedgerInv, LedgerTypes, PostRow
  <1>3. LedgerTypes'
    BY <1>2 DEF LedgerInv, LedgerTypes
  <1>4. ASSUME NEW q \in Posts, post'[q].step # "new"
        PROVE  /\ post'[q].material.origin = post'[q].event.sender
               /\ post'[q].step # "refused" => Permitted(q)'
               /\ Current(q)' /\ AnswerHolds(q)'
    <2>1. \A e : Material(q, e)' = Material(q, e)
      BY DEF Material, Effective, Named
    <2>2. CASE q = p
      BY <2>1, <2>2, <1>2
      DEF LedgerInv, Permitted, MayWrite, Reserved, Current, AnswerHolds
    <2>3. CASE q # p
      <3>1. post'[q] = post[q] /\ post[q].step # "new" /\ post[q] \in PostRow
        BY <2>3, <1>2, <1>4 DEF LedgerInv, LedgerTypes
      <3>2. post[q].event.source \in Sources /\ post[q].material # NoMaterial
        BY <3>1, MaterialIsSome DEF PostRow, Payload
      <3> QED
        BY <2>1, <3>1, <3>2
        DEF LedgerInv, Permitted, MayWrite, Reserved, Current, AnswerHolds
    <2> QED
      BY <2>2, <2>3
  <1> QED
    BY <1>3, <1>4 DEF LedgerInv

\* The INSERT stores the row, or is answered from the row that got in first.
LEMMA InsertKeeps ==
    ASSUME LedgerInv, NEW p \in Posts, InsertEvent(p)
    PROVE  LedgerInv'
  <1> DEFINE key == post[p].event.source
  <1>1. post[p].step = "insert" /\ post[p] \in PostRow
    BY DEF InsertEvent, LedgerInv, LedgerTypes
  <1>2. /\ key \in Sources /\ post[p].material \in MaterialRow
        /\ post[p].material.origin = post[p].event.sender /\ Permitted(p)
    BY <1>1 DEF PostRow, Payload, LedgerInv
  <1>3. CASE ledger[key] = NoMaterial
    <2>1. /\ ledger' = [ledger EXCEPT ![key] = post[p].material]
          /\ post' = [post EXCEPT ![p].step = "ok"]
          /\ UNCHANGED <<home, moved, receipts>>
      BY <1>3 DEF InsertEvent
    <2>2. key \in Adapters => post[p].material.origin = key
      BY <1>2 DEF Permitted, MayWrite, Reserved
    <2>3. /\ ledger' \in [Sources -> {NoMaterial} \cup MaterialRow]
          /\ ledger'[key] = post[p].material
          /\ \A s \in Sources : s # key => ledger'[s] = ledger[s]
      BY <2>1, <1>2 DEF LedgerInv, LedgerTypes
    <2>4. \A s \in Adapters : ledger'[s] # NoMaterial => ledger'[s].origin = s
      BY <2>2, <2>3 DEF LedgerInv, Sources
    <2> HIDE DEF key
    <2> QED
      BY <1>1, <1>3, <2>1, <2>3, <2>4, AnsweredKeeps DEF key
  <1>4. CASE ledger[key] # NoMaterial
    <2>1. /\ post' = [post EXCEPT
                        ![p].step = Raced(ledger[key], post[p].material)]
          /\ UNCHANGED <<ledger, home, moved, receipts>>
      BY <1>4 DEF InsertEvent
    <2>2. /\ Raced(ledger[key], post[p].material) \in {"ok", "conflict", "lost"}
          /\ Raced(ledger[key], post[p].material) = "ok" =>
               ledger[key] = post[p].material
          /\ Raced(ledger[key], post[p].material) = "conflict" =>
               ledger[key] # post[p].material
      BY DEF Raced, Compared
    <2> QED
      BY <1>1, <1>4, <2>1, <2>2, AnsweredKeeps DEF LedgerInv, LedgerTypes
  <1> QED
    BY <1>3, <1>4

\* Every step of the ledger keeps the invariant.
LEMMA LedgerStep == LedgerInv /\ [LedgerNext]_ledgerVars => LedgerInv'
  <1> SUFFICES ASSUME LedgerInv, [LedgerNext]_ledgerVars PROVE LedgerInv'
    OBVIOUS
  <1>1. ASSUME NEW p \in Posts, LosePost(p) PROVE LedgerInv'
    BY <1>1, AnsweredKeeps DEF LosePost, LedgerInv, LedgerTypes
  <1>2. CASE MoveService
    BY <1>2
    DEF MoveService, LedgerInv, LedgerTypes, Permitted, MayWrite, Reserved,
        Current, AnswerHolds
  <1>3. CASE UNCHANGED ledgerVars
    <2>1. \A p, e : Material(p, e)' = Material(p, e)
      BY <1>3 DEF ledgerVars, Material, Effective, Named
    <2> QED
      BY <1>3, <2>1
      DEF ledgerVars, LedgerInv, LedgerTypes, Permitted, MayWrite, Reserved,
          Current, AnswerHolds
  <1> QED
    BY <1>1, <1>2, <1>3, PostKeeps, InsertKeeps DEF LedgerNext

\* Before the first event nothing is stored.
LEMMA LedgerBegins == LedgerInit => LedgerInv
  <1> SUFFICES ASSUME LedgerInit PROVE LedgerInv
    OBVIOUS
  <1>1. LedgerTypes
    BY DEF LedgerInit, LedgerTypes
  <1>2. \A s \in Adapters : ledger[s] = NoMaterial
    BY DEF LedgerInit, Sources
  <1>3. \A p \in Posts : post[p].step = "new"
    BY DEF LedgerInit
  <1> QED
    BY <1>1, <1>2, <1>3 DEF LedgerInv

\* _record_normalized_operational_event: whatever requests race for one key,
\* an acceptance means that exactly this event is stored, an adapter is refused
\* only for what it sent itself, and a repetition is accepted again, for any
\* number of requests, members and repositories.
THEOREM AnswersStayTrue == LedgerSpec => []AnswersMatchLedger
  <1>1. ASSUME LedgerInv PROVE AnswersMatchLedger
    <2>1. AcceptedIsStored
      BY <1>1 DEF LedgerInv, AnswerHolds, AcceptedIsStored
    <2>2. AdaptersAreNotCrowdedOut
      BY <1>1
      DEF LedgerInv, AnswerHolds, Permitted, AdaptersAreNotCrowdedOut
    <2>3. RepeatIsAccepted
      <3> SUFFICES ASSUME NEW p \in Posts, NEW q \in Posts,
                          post[p].step = "ok", post[q].step = "conflict",
                          post[p].event = post[q].event, ~moved,
                          post[p].event.dated
                   PROVE  FALSE
        BY DEF RepeatIsAccepted
      <3>1. Material(p, post[p].event) = Material(q, post[q].event)
        BY DEF Material
      <3>2. post[p].material = post[q].material
        BY <1>1, <3>1 DEF LedgerInv, Current
      <3> QED
        BY <1>1, <3>2 DEF LedgerInv, AnswerHolds
    <2> QED
      BY <2>1, <2>2, <2>3 DEF AnswersMatchLedger
  <1> QED
    BY LedgerBegins, <1>1, LedgerStep, PTL DEF LedgerSpec

-------------------------------------------------------------------------------
(* Identity *)

LoginState ==
    {Away} \cup [step : {"insert"}, subject : Subjects, email : Emails]
      \cup [step : {"update"}, subject : Subjects, email : Emails, id : Accounts]

\* The account is the subject's
Owns(s, id) == \E u \in users : u.id = id /\ u.subject = s

IdentityInv ==
    /\ users \in SUBSET UserRow
    /\ login \in [Logins -> LoginState]
    /\ known_as \in [Subjects -> SUBSET Accounts]
    /\ \A u, v \in users : u.id = v.id \/ u.subject = v.subject => u = v
    /\ \A s \in Subjects : \A id \in known_as[s] : Owns(s, id)
    /\ \A q \in Logins :
         login[q].step = "update" => Owns(login[q].subject, login[q].id)

\* A row whose address or activity changes stays the row of its subject.
LEMMA RowReplaced ==
    ASSUME IdentityInv, NEW u \in users, NEW w \in UserRow,
           w.id = u.id, w.subject = u.subject, users' = (users \ {u}) \cup {w}
    PROVE  /\ users' \in SUBSET UserRow
           /\ \A x, y \in users' : x.id = y.id \/ x.subject = y.subject => x = y
           /\ \A x \in users : \E y \in users' : y.id = x.id /\ y.subject = x.subject
  <1>1. users' \in SUBSET UserRow
    BY DEF IdentityInv
  <1>2. \A x \in users : x # u => x.id # w.id /\ x.subject # w.subject
    BY DEF IdentityInv
  <1>3. \A x, y \in users' : x.id = y.id \/ x.subject = y.subject => x = y
    BY <1>2 DEF IdentityInv
  <1>4. \A x \in users : \E y \in users' : y.id = x.id /\ y.subject = x.subject
    OBVIOUS
  <1> QED
    BY <1>1, <1>3, <1>4

\* A look-up finds the account of the subject, or decides to write.
LEMMA AuthenticateKeeps ==
    ASSUME IdentityInv, NEW q \in Logins, Authenticate(q)
    PROVE  IdentityInv'
  <1>1. PICK s \in Subjects, e \in Emails :
          \/ /\ login' = [login EXCEPT ![q] =
                            [step |-> "insert", subject |-> s, email |-> e]]
             /\ UNCHANGED known_as
          \/ \E u \in users :
             /\ u.subject = s
             /\ \/ /\ known_as' = [known_as EXCEPT ![s] = @ \cup {u.id}]
                   /\ UNCHANGED login
                \/ /\ login' = [login EXCEPT ![q] =
                                  [step |-> "update", subject |-> s,
                                   email |-> e, id |-> u.id]]
                   /\ UNCHANGED known_as
    BY DEF Authenticate
  <1>2. users' = users /\ \A t, id : Owns(t, id)' = Owns(t, id)
    BY DEF Authenticate, Owns
  <1>3. \A u \in users : u.id \in Accounts
    BY DEF IdentityInv, UserRow
  <1>4. CASE /\ login' = [login EXCEPT ![q] =
                            [step |-> "insert", subject |-> s, email |-> e]]
             /\ UNCHANGED known_as
    <2>1. [step |-> "insert", subject |-> s, email |-> e] \in LoginState
      BY DEF LoginState
    <2>2. /\ login' \in [Logins -> LoginState] /\ login'[q].step = "insert"
          /\ \A r \in Logins : r # q => login'[r] = login[r]
      BY <1>4, <2>1 DEF IdentityInv
    <2>3. \A r \in Logins : (login[r].step = "update" =>
             Owns(login[r].subject, login[r].id))'
      BY <1>2, <2>2 DEF IdentityInv, Owns
    <2> QED
      BY <1>2, <1>4, <2>2, <2>3 DEF IdentityInv
  <1>5. ASSUME NEW u \in users, u.subject = s,
               known_as' = [known_as EXCEPT ![s] = @ \cup {u.id}],
               UNCHANGED login
        PROVE  IdentityInv'
    <2>1. Owns(s, u.id)
      BY <1>5 DEF Owns
    <2>2. /\ known_as' \in [Subjects -> SUBSET Accounts]
          /\ known_as'[s] = known_as[s] \cup {u.id}
          /\ \A t \in Subjects : t # s => known_as'[t] = known_as[t]
      BY <1>3, <1>5 DEF IdentityInv
    <2>3. \A t \in Subjects : \A id \in known_as'[t] : Owns(t, id)'
      BY <1>2, <2>1, <2>2 DEF IdentityInv
    <2> QED
      BY <1>2, <1>5, <2>2, <2>3 DEF IdentityInv
  <1>6. ASSUME NEW u \in users, u.subject = s,
               login' = [login EXCEPT ![q] = [step |-> "update", subject |-> s,
                                              email |-> e, id |-> u.id]],
               UNCHANGED known_as
        PROVE  IdentityInv'
    <2>1. Owns(s, u.id)
      BY <1>6 DEF Owns
    <2>2. [step |-> "update", subject |-> s, email |-> e, id |-> u.id] \in LoginState
      BY <1>3 DEF LoginState
    <2>3. /\ login' \in [Logins -> LoginState]
          /\ login'[q].subject = s /\ login'[q].id = u.id
          /\ \A r \in Logins : r # q => login'[r] = login[r]
      BY <1>6, <2>2 DEF IdentityInv
    <2>4. \A r \in Logins : (login[r].step = "update" =>
             Owns(login[r].subject, login[r].id))'
      BY <1>2, <2>1, <2>3 DEF IdentityInv, Owns
    <2> QED
      BY <1>2, <1>6, <2>3, <2>4 DEF IdentityInv
  <1> QED
    BY <1>1, <1>4, <1>5, <1>6

\* A write that ends a request: whoever owned an account still does, and the
\* answer names an account of the subject.
LEMMA WrittenKeeps ==
    ASSUME IdentityInv, NEW q \in Logins, NEW s \in Subjects, NEW ids \in SUBSET Accounts,
           users' \in SUBSET UserRow,
           \A x, y \in users' : x.id = y.id \/ x.subject = y.subject => x = y,
           \A x \in users : \E y \in users' : y.id = x.id /\ y.subject = x.subject,
           \A id \in ids : \E y \in users' : y.id = id /\ y.subject = s,
           known_as' = [known_as EXCEPT ![s] = @ \cup ids],
           login' = [login EXCEPT ![q] = Away] \/ login' = login
    PROVE  IdentityInv'
  <1>1. /\ known_as' \in [Subjects -> SUBSET Accounts]
        /\ known_as'[s] = known_as[s] \cup ids
        /\ \A t \in Subjects : t # s => known_as'[t] = known_as[t]
    BY DEF IdentityInv
  <1>2. /\ login' \in [Logins -> LoginState]
        /\ \A r \in Logins : login'[r] = login[r] \/ login'[r] = Away
    BY DEF IdentityInv, LoginState
  <1>3. \A t \in Subjects : \A id \in known_as'[t] : Owns(t, id)'
    BY <1>1 DEF IdentityInv, Owns
  <1>4. \A r \in Logins : (login[r].step = "update" =>
          Owns(login[r].subject, login[r].id))'
    BY <1>2 DEF IdentityInv, Away, Owns
  <1> QED
    BY <1>1, <1>2, <1>3, <1>4 DEF IdentityInv

\* The unique columns keep a second row of a subject out.
LEMMA InsertUserKeeps ==
    ASSUME IdentityInv, NEW q \in Logins, InsertUser(q)
    PROVE  IdentityInv'
  <1> DEFINE l == login[q]
  <1>1. l.step = "insert" /\ l.subject \in Subjects /\ l.email \in Emails
    BY DEF InsertUser, IdentityInv, LoginState, Away
  <1>2. CASE Fails(q)
    <2>1. /\ login' = [login EXCEPT ![q] = Away] /\ users' = users
          /\ known_as' = [known_as EXCEPT ![l.subject] = @ \cup {}]
      BY <1>1, <1>2 DEF Fails, IdentityInv
    <2>2. /\ users' \in SUBSET UserRow /\ {} \in SUBSET Accounts
          /\ \A x, y \in users' : x.id = y.id \/ x.subject = y.subject => x = y
          /\ \A x \in users : \E y \in users' : y.id = x.id /\ y.subject = x.subject
      BY <2>1 DEF IdentityInv
    <2> HIDE DEF l
    <2> QED
      BY <1>1, <2>1, <2>2, WrittenKeeps
  <1>3. CASE ~Collides(l.subject, l.email, NoAccount)
    <2>1. CASE ~Fails(q)
      <3>1. PICK id \in Accounts :
              /\ \A u \in users : u.id # id
              /\ users' = users \cup {[id |-> id, subject |-> l.subject,
                                       email |-> l.email, active |-> TRUE]}
              /\ Returns(q, l.subject, id)
        BY <2>1 DEF InsertUser
      <3> DEFINE w == [id |-> id, subject |-> l.subject, email |-> l.email,
                       active |-> TRUE]
      <3>2. w \in UserRow /\ w.id = id /\ w.subject = l.subject
        BY <1>1 DEF UserRow
      <3>3. \A u \in users : u.id # NoAccount
        BY IdentityAssumption DEF IdentityInv, UserRow
      <3>4. \A u \in users : u.id # w.id /\ u.subject # w.subject
        BY <1>3, <3>1, <3>2, <3>3 DEF Collides
      <3> HIDE DEF w
      <3>5. users' = users \cup {w}
        BY <3>1 DEF w
      <3>6. /\ users' \in SUBSET UserRow
            /\ \A x, y \in users' : x.id = y.id \/ x.subject = y.subject => x = y
            /\ \A x \in users : \E y \in users' : y.id = x.id /\ y.subject = x.subject
            /\ \A i \in {id} : \E y \in users' : y.id = i /\ y.subject = l.subject
        BY <3>2, <3>4, <3>5 DEF IdentityInv
      <3>7. /\ known_as' = [known_as EXCEPT ![l.subject] = @ \cup {id}]
            /\ login' = [login EXCEPT ![q] = Away]
        BY <3>1 DEF Returns
      <3>8. {id} \in SUBSET Accounts
        OBVIOUS
      <3> HIDE DEF l
      <3> QED
        BY <1>1, <3>6, <3>7, <3>8, WrittenKeeps
    <2> QED
      BY <1>2, <2>1
  <1> QED
    BY <1>2, <1>3 DEF InsertUser

\* A changed address leaves the account with its subject.
LEMMA UpdateUserKeeps ==
    ASSUME IdentityInv, NEW q \in Logins, UpdateUser(q)
    PROVE  IdentityInv'
  <1> DEFINE l == login[q]
  <1>1. /\ l.step = "update" /\ l.subject \in Subjects /\ l.email \in Emails
        /\ l.id \in Accounts /\ Owns(l.subject, l.id)
    BY DEF UpdateUser, IdentityInv, LoginState, Away
  <1>2. CASE Fails(q)
    <2>1. /\ login' = [login EXCEPT ![q] = Away] /\ users' = users
          /\ known_as' = [known_as EXCEPT ![l.subject] = @ \cup {}]
      BY <1>1, <1>2 DEF Fails, IdentityInv
    <2>2. /\ users' \in SUBSET UserRow /\ {} \in SUBSET Accounts
          /\ \A x, y \in users' : x.id = y.id \/ x.subject = y.subject => x = y
          /\ \A x \in users : \E y \in users' : y.id = x.id /\ y.subject = x.subject
      BY <2>1 DEF IdentityInv
    <2> HIDE DEF l
    <2> QED
      BY <1>1, <2>1, <2>2, WrittenKeeps
  <1>3. CASE ~Fails(q)
    <2>1. PICK u \in users :
            /\ u.id = l.id
            /\ users' = (users \ {u}) \cup {[u EXCEPT !.email = l.email]}
            /\ IF u.active THEN Returns(q, l.subject, l.id)
               ELSE login' = [login EXCEPT ![q] = Away] /\ UNCHANGED known_as
      BY <1>3 DEF UpdateUser
    <2>2. /\ [u EXCEPT !.email = l.email] \in UserRow
          /\ [u EXCEPT !.email = l.email].id = u.id
          /\ [u EXCEPT !.email = l.email].subject = u.subject
      BY <1>1 DEF IdentityInv, UserRow
    <2>3. /\ users' \in SUBSET UserRow
          /\ \A x, y \in users' : x.id = y.id \/ x.subject = y.subject => x = y
          /\ \A x \in users : \E y \in users' : y.id = x.id /\ y.subject = x.subject
      BY <2>1, <2>2, RowReplaced
    <2>4. PICK ids \in {{}, {l.id}} :
            known_as' = [known_as EXCEPT ![l.subject] = @ \cup ids]
      BY <1>1, <2>1 DEF Returns, IdentityInv
    <2>5. login' = [login EXCEPT ![q] = Away]
      BY <2>1 DEF Returns
    <2>6. ids \in SUBSET Accounts /\ \A i \in ids : \E y \in users' : y.id = i /\ y.subject = l.subject
      BY <1>1, <2>3, <2>4 DEF Owns
    <2> HIDE DEF l
    <2> QED
      BY <1>1, <2>3, <2>4, <2>5, <2>6, WrittenKeeps
  <1> QED
    BY <1>2, <1>3

\* Every step keeps the invariant.
LEMMA IdentityStep == IdentityInv /\ [IdentityNext]_identityVars => IdentityInv'
  <1> SUFFICES ASSUME IdentityInv, [IdentityNext]_identityVars PROVE IdentityInv'
    OBVIOUS
  <1>1. CASE Deactivate
    <2>1. PICK u \in users : users' = (users \ {u}) \cup {[u EXCEPT !.active = FALSE]}
      BY <1>1 DEF Deactivate
    <2>2. /\ [u EXCEPT !.active = FALSE] \in UserRow
          /\ [u EXCEPT !.active = FALSE].id = u.id
          /\ [u EXCEPT !.active = FALSE].subject = u.subject
      BY DEF IdentityInv, UserRow
    <2>3. /\ users' \in SUBSET UserRow
          /\ \A x, y \in users' : x.id = y.id \/ x.subject = y.subject => x = y
          /\ \A x \in users : \E y \in users' : y.id = x.id /\ y.subject = x.subject
      BY <2>1, <2>2, RowReplaced
    <2> QED
      BY <1>1, <2>3 DEF Deactivate, IdentityInv, Owns
  <1>2. CASE UNCHANGED identityVars
    BY <1>2 DEF identityVars, IdentityInv, Owns
  <1> QED
    BY <1>1, <1>2, AuthenticateKeeps, InsertUserKeeps, UpdateUserKeeps
    DEF IdentityNext

\* Before the first login there is no account.
LEMMA IdentityBegins == IdentityInit => IdentityInv
  BY DEF IdentityInit, IdentityInv, LoginState, Away

\* _synchronize_oidc_user: a subject is always answered with one account, its
\* own, however first logins and changes of address race, for any number of
\* requests, subjects and accounts.
THEOREM AccountsStayTheSubjects == IdentitySpec => []AccountIsTheSubjects
  <1>1. ASSUME IdentityInv PROVE AccountIsTheSubjects
    <2> SUFFICES ASSUME NEW s \in Subjects, NEW t \in Subjects
                 PROVE  /\ Cardinality(known_as[s]) <= 1
                        /\ s # t => known_as[s] \cap known_as[t] = {}
      BY DEF AccountIsTheSubjects
    <2>1. \A a, b \in known_as[s] : a = b
      BY <1>1 DEF IdentityInv, Owns
    <2>2. CASE known_as[s] = {}
      BY <2>2, FS_EmptySet
    <2>3. CASE known_as[s] # {}
      <3>1. PICK a \in known_as[s] : TRUE
        BY <2>3
      <3>2. known_as[s] = {a}
        BY <2>1, <3>1
      <3>3. Cardinality(known_as[s]) = 1
        BY <3>2, FS_Singleton
      <3>4. s # t => a \notin known_as[t]
        BY <1>1, <3>1 DEF IdentityInv, Owns
      <3> QED
        BY <3>2, <3>3, <3>4
    <2> QED
      BY <2>2, <2>3
  <1> QED
    BY IdentityBegins, <1>1, IdentityStep, PTL DEF IdentitySpec

-------------------------------------------------------------------------------
(* IncidentLifecycle *)

\* What a request under way knows: it holds the row lock, and the row has not
\* moved since it read it
PatchFits(r) ==
    patch[r] # NoPatch =>
        /\ holder = r
        /\ patch[r].row.timeline = incident.timeline
        /\ patch[r].kind = "lifecycle" =>
             /\ incident.status # "resolved"
             /\ StatusOrder[patch[r].row.status] >= StatusOrder[incident.status]

LifecycleInv ==
    /\ LifecycleTypeOK
    /\ \A r \in Responders : PatchFits(r)
    /\ \A m \in Responders : Len(inbox[m]) = Len(incident.timeline)

\* The body of LifecycleOnlyAdds: what a step may do to the row
OnlyAdds ==
    /\ IsPrefix(incident.timeline, incident'.timeline)
    /\ StatusOrder[incident'.status] >= StatusOrder[incident.status]
    /\ incident.status = "resolved" =>
         [incident' EXCEPT !.timeline = <<>>]
             = [incident EXCEPT !.timeline = <<>>]
    /\ incident' # incident =>
         Len(incident'.timeline) = Len(incident.timeline) + 1
    /\ \A m \in Responders :
         Len(inbox'[m]) = Len(incident'.timeline)

LEMMA StatusOrderTyped ==
    \A s \in Statuses : StatusOrder[s] \in Nat
  BY DEF Statuses, StatusOrder

\* An entry at the end leaves what was there a prefix.
LEMMA AppendKeepsPrefix ==
    ASSUME NEW T, NEW s \in Seq(T), NEW e \in T
    PROVE  /\ Append(s, e) \in Seq(T) /\ IsPrefix(s, Append(s, e))
           /\ Len(Append(s, e)) = Len(s) + 1
  <1>1. Append(s, e) \in Seq(T) /\ Len(Append(s, e)) = Len(s) + 1
    OBVIOUS
  <1>2. \A i \in 1..Len(s) : Append(s, e)[i] = s[i]
    OBVIOUS
  <1>3. SubSeq(s, 1, Len(s)) = SubSeq(Append(s, e), 1, Len(s))
    BY <1>1, <1>2
  <1> QED
    BY <1>1, <1>3 DEF IsPrefix

LEMMA PrefixOfItself ==
    ASSUME NEW T, NEW s \in Seq(T) PROVE IsPrefix(s, s)
  BY DEF IsPrefix

\* A step that leaves the row and the lengths alone adds nothing.
LEMMA RowKept ==
    ASSUME LifecycleInv, incident' = incident,
           \A m \in Responders : Len(inbox'[m]) = Len(inbox[m])
    PROVE  OnlyAdds
  <1>1. /\ incident.timeline \in Seq(Responders \X {"lifecycle", "note"})
        /\ StatusOrder[incident.status] \in Nat
    BY StatusOrderTyped DEF LifecycleInv, LifecycleTypeOK, IncidentRow
  <1>2. IsPrefix(incident.timeline, incident'.timeline)
    BY <1>1, PrefixOfItself
  <1> QED
    BY <1>1, <1>2 DEF OnlyAdds, LifecycleInv

\* A request that reads takes the lock, so no other request is under way.
LEMMA ReadsKeeps ==
    ASSUME LifecycleInv, NEW r \in Responders, NEW kind \in {"lifecycle", "note"},
           NEW row \in IncidentRow, patch[r] = NoPatch, Reads(r, kind, row),
           row.timeline = incident.timeline,
           kind = "lifecycle" =>
             /\ incident.status # "resolved"
             /\ StatusOrder[row.status] >= StatusOrder[incident.status]
    PROVE  LifecycleInv' /\ OnlyAdds
  <1> DEFINE p == [kind |-> kind, row |-> row]
  <1>1. /\ holder = NoOne /\ holder' = r
        /\ patch' = [patch EXCEPT ![r] = p]
        /\ incident' = incident /\ inbox' = inbox
    BY DEF Reads, RowFree
  <1>2. p \in [kind : {"lifecycle", "note"}, row : IncidentRow]
        /\ p.kind = kind /\ p.row = row
    OBVIOUS
  <1> HIDE DEF p
  <1>3. LifecycleTypeOK'
    BY <1>1, <1>2 DEF LifecycleInv, LifecycleTypeOK
  <1>4. patch'[r] = p /\ \A q \in Responders : q # r => patch'[q] = patch[q]
    BY <1>1 DEF LifecycleInv, LifecycleTypeOK
  <1>5. \A q \in Responders : patch[q] = NoPatch
    BY <1>1, LifecycleAssumption DEF LifecycleInv, PatchFits
  <1>6. \A q \in Responders : PatchFits(q)'
    BY <1>1, <1>2, <1>4, <1>5 DEF PatchFits
  <1>7. \A m \in Responders : Len(inbox'[m]) = Len(inbox[m])
    BY <1>1
  <1> QED
    BY <1>1, <1>3, <1>6, <1>7, RowKept DEF LifecycleInv

LEMMA ReadLifecycleKeeps ==
    ASSUME LifecycleInv, NEW r \in Responders, ReadLifecycle(r)
    PROVE  LifecycleInv' /\ OnlyAdds
  <1>1. PICK status \in Statuses, a \in Responders \cup {NoOne}, v \in Severities :
          /\ StatusOrder[status] >= StatusOrder[incident.status]
          /\ Reads(r, "lifecycle", Changed(incident, status, a, v))
    BY DEF ReadLifecycle
  <1> DEFINE row == Changed(incident, status, a, v)
  <1>2. incident.resolvedAt \in BOOLEAN
    BY DEF LifecycleInv, LifecycleTypeOK, IncidentRow
  <1>3. (incident.resolvedAt \/ status = "resolved") \in BOOLEAN
    BY <1>2
  <1>4. row \in IncidentRow /\ row.timeline = incident.timeline /\ row.status = status
    BY <1>3 DEF LifecycleInv, LifecycleTypeOK, IncidentRow, Changed
  <1>5. patch[r] = NoPatch /\ incident.status # "resolved"
    BY DEF ReadLifecycle
  <1> HIDE DEF row
  <1>6. Reads(r, "lifecycle", row)
    BY <1>1 DEF row
  <1> QED
    BY <1>1, <1>4, <1>5, <1>6, ReadsKeeps

LEMMA ReadNoteKeeps ==
    ASSUME LifecycleInv, NEW r \in Responders, ReadNote(r)
    PROVE  LifecycleInv' /\ OnlyAdds
  BY ReadsKeeps DEF ReadNote, LifecycleInv, LifecycleTypeOK

\* When a request ends, the others that are under way are none.
LEMMA EndedFits ==
    ASSUME LifecycleInv, NEW r \in Responders, patch[r] # NoPatch,
           patch' = [patch EXCEPT ![r] = NoPatch],
           holder' = IF holder = r THEN NoOne ELSE holder
    PROVE  /\ patch' \in [Responders -> {NoPatch} \cup
                            [kind : {"lifecycle", "note"}, row : IncidentRow]]
           /\ holder' \in Responders \cup {NoOne}
           /\ \A q \in Responders : PatchFits(q)'
  <1>1. patch' \in [Responders -> {NoPatch} \cup
                       [kind : {"lifecycle", "note"}, row : IncidentRow]]
    BY DEF LifecycleInv, LifecycleTypeOK
  <1>2. holder = r
    BY DEF LifecycleInv, PatchFits
  <1>3. \A q \in Responders : patch'[q] = NoPatch
    BY <1>2 DEF LifecycleInv, LifecycleTypeOK, PatchFits
  <1> QED
    BY <1>1, <1>2, <1>3 DEF PatchFits

LEMMA DropPatchKeeps ==
    ASSUME LifecycleInv, NEW r \in Responders, DropPatch(r)
    PROVE  LifecycleInv' /\ OnlyAdds
  <1>1. /\ patch[r] # NoPatch /\ patch' = [patch EXCEPT ![r] = NoPatch]
        /\ holder' = IF holder = r THEN NoOne ELSE holder
        /\ incident' = incident /\ inbox' = inbox
    BY DEF DropPatch
  <1>2. OnlyAdds
    BY <1>1, RowKept
  <1> QED
    BY <1>1, <1>2, EndedFits DEF LifecycleInv, LifecycleTypeOK

LEMMA MarkReadKeeps ==
    ASSUME LifecycleInv, NEW r \in Responders, MarkRead(r)
    PROVE  LifecycleInv' /\ OnlyAdds
  <1>1. PICK n \in 1..Len(inbox[r]) : inbox' = [inbox EXCEPT ![r][n] = TRUE]
    BY DEF MarkRead
  <1>2. incident' = incident /\ holder' = holder /\ patch' = patch
    BY DEF MarkRead
  <1>3. [inbox[r] EXCEPT ![n] = TRUE] \in Seq(BOOLEAN)
        /\ Len([inbox[r] EXCEPT ![n] = TRUE]) = Len(inbox[r])
    BY DEF LifecycleInv, LifecycleTypeOK
  <1>4. inbox' \in [Responders -> Seq(BOOLEAN)]
        /\ \A m \in Responders : Len(inbox'[m]) = Len(inbox[m])
    BY <1>1, <1>3 DEF LifecycleInv, LifecycleTypeOK
  <1>5. OnlyAdds
    BY <1>2, <1>4, RowKept
  <1> QED
    BY <1>2, <1>4, <1>5 DEF LifecycleInv, LifecycleTypeOK, PatchFits

\* A commit writes the row it locked, with one entry more.
LEMMA CommitPatchKeeps ==
    ASSUME LifecycleInv, NEW r \in Responders, CommitPatch(r)
    PROVE  LifecycleInv' /\ OnlyAdds
  <1> DEFINE p == patch[r]
             T == Responders \X {"lifecycle", "note"}
             t == Append(incident.timeline, <<r, p.kind>>)
  <1>1. /\ p # NoPatch /\ p.kind \in {"lifecycle", "note"} /\ p.row \in IncidentRow
        /\ p.row.timeline = incident.timeline
        /\ p.kind = "lifecycle" =>
             /\ incident.status # "resolved"
             /\ StatusOrder[p.row.status] >= StatusOrder[incident.status]
    BY DEF CommitPatch, LifecycleInv, LifecycleTypeOK, PatchFits
  <1>2. incident \in IncidentRow /\ incident.timeline \in Seq(T)
    BY DEF LifecycleInv, LifecycleTypeOK, IncidentRow
  <1>3. /\ t \in Seq(T) /\ IsPrefix(incident.timeline, t)
        /\ Len(t) = Len(incident.timeline) + 1
    BY <1>1, <1>2, AppendKeepsPrefix
  <1>4. /\ incident' = IF p.kind = "note" THEN [incident EXCEPT !.timeline = t]
                       ELSE [p.row EXCEPT !.timeline = t]
        /\ inbox' = [m \in Responders |-> Append(inbox[m], FALSE)]
        /\ patch' = [patch EXCEPT ![r] = NoPatch]
        /\ holder' = IF holder = r THEN NoOne ELSE holder
    BY <1>1 DEF CommitPatch, TimelineEntry, Notified
  <1> HIDE DEF p, t
  <1>5. incident' \in IncidentRow /\ incident'.timeline = t
    BY <1>1, <1>2, <1>3, <1>4 DEF IncidentRow
  <1>6. /\ inbox' \in [Responders -> Seq(BOOLEAN)]
        /\ \A m \in Responders : Len(inbox'[m]) = Len(t)
    <2>1. \A m \in Responders : /\ inbox[m] \in Seq(BOOLEAN)
                                /\ Len(inbox[m]) = Len(incident.timeline)
      BY DEF LifecycleInv, LifecycleTypeOK
    <2>2. \A m \in Responders : /\ Append(inbox[m], FALSE) \in Seq(BOOLEAN)
                                /\ Len(Append(inbox[m], FALSE)) = Len(inbox[m]) + 1
      BY <2>1
    <2> QED
      BY <1>3, <1>4, <2>1, <2>2
  <1>7. StatusOrder[incident.status] \in Nat
    BY <1>2, StatusOrderTyped DEF IncidentRow
  <1>8. StatusOrder[incident'.status] >= StatusOrder[incident.status]
    BY <1>1, <1>2, <1>4, <1>7 DEF IncidentRow
  <1>9. incident.status = "resolved" =>
          [incident' EXCEPT !.timeline = <<>>] = [incident EXCEPT !.timeline = <<>>]
    BY <1>1, <1>2, <1>4 DEF IncidentRow
  <1>10. OnlyAdds
    BY <1>3, <1>5, <1>6, <1>8, <1>9 DEF OnlyAdds
  <1>11. p # NoPatch /\ patch[r] = p
    BY <1>1 DEF p
  <1> QED
    BY <1>4, <1>5, <1>6, <1>10, <1>11, EndedFits DEF LifecycleInv, LifecycleTypeOK

\* Every step keeps the invariant and only adds.
LEMMA LifecycleStep ==
    LifecycleInv /\ [LifecycleNext]_lifecycleVars => LifecycleInv' /\ OnlyAdds
  <1> SUFFICES ASSUME LifecycleInv, [LifecycleNext]_lifecycleVars
               PROVE  LifecycleInv' /\ OnlyAdds
    OBVIOUS
  <1>1. CASE UNCHANGED lifecycleVars
    <2>1. LifecycleInv'
      BY <1>1 DEF lifecycleVars, LifecycleInv, LifecycleTypeOK, PatchFits
    <2>2. OnlyAdds
      BY <1>1, RowKept DEF lifecycleVars
    <2> QED
      BY <2>1, <2>2
  <1> QED
    BY <1>1, ReadLifecycleKeeps, ReadNoteKeeps, CommitPatchKeeps, DropPatchKeeps,
       MarkReadKeeps
    DEF LifecycleNext

\* At first the incident has no entries and no request is under way.
LEMMA LifecycleBegins == LifecycleInit => LifecycleInv
  BY DEF LifecycleInit, LifecycleInv, LifecycleTypeOK, IncidentRow, PatchFits,
         Statuses, StatusOrder

\* update_incident_lifecycle and add_incident_note: however requests of any
\* number of responders overlap, committed entries stay, the status never
\* moves back, and every entry notifies every member once.
THEOREM LifecycleLosesNothing == LifecycleSpec => LifecycleOnlyAdds
  <1>1. LifecycleInv /\ [LifecycleNext]_lifecycleVars => [OnlyAdds]_lifecycleVars
    BY LifecycleStep
  <1>2. LifecycleSpec => [][OnlyAdds]_lifecycleVars
    BY LifecycleBegins, <1>1, LifecycleStep, PTL DEF LifecycleSpec
  <1> QED
    BY <1>2 DEF LifecycleOnlyAdds, OnlyAdds

-------------------------------------------------------------------------------
(* Catalog *)

\* What a request under way relies on: the identifier it drew is nobody
\* else's, the rows it saw are still there, and what it checked still holds
\* because it holds the locks of all of them
EditFits(c) ==
    LET e == edit[c] IN
    /\ e.step \in {"create", "waitCreate", "insert"} =>
         /\ e.service \in Services \ services
         /\ \A d \in CatalogClients \ {c} : edit[d].service # e.service
    /\ e.step \in {"update", "waitUpdate", "write"} => e.service \in services
    /\ e.rows \subseteq services
    /\ e.step \in {"waitUpdate", "write"} => e.service \in e.rows
    /\ Checked(c) => Valid(c) /\ CanLock(c)

CatalogInv ==
    /\ CatalogTypeOK
    /\ \A c \in CatalogClients : EditFits(c)
    /\ AcyclicWhereSeen

\* A request may become e: it draws no identifier that is taken, and takes no
\* lock that is held
MayBecome(c, e) ==
    \A d \in CatalogClients \ {c} :
        /\ edit[d].step \in {"create", "waitCreate", "insert"} =>
             e.service # edit[d].service
        /\ e.step \in {"insert", "write"} /\ Checked(d) =>
             edit[d].rows \cap e.rows = {}

\* A check stays true while the rows it saw keep their dependencies.
LEMMA ValidKept ==
    ASSUME NEW d \in CatalogClients, edit'[d] = edit[d],
           \A s \in edit[d].rows : deps'[s] = deps[s]
    PROVE  Valid(d)' <=> Valid(d)
  <1>1. Graph(d)' = Graph(d)
    BY DEF Graph
  <1> QED
    BY <1>1 DEF Valid

\* A step that changes only one request keeps what the others rely on.
LEMMA OthersKept ==
    ASSUME CatalogInv, NEW c \in CatalogClients, NEW e \in Edit,
           edit' = [edit EXCEPT ![c] = e],
           \A d \in CatalogClients \ {c} : \A s \in edit[d].rows :
             Checked(d) => deps'[s] = deps[s],
           services \subseteq services',
           \A d \in CatalogClients \ {c} :
             edit[d].step \in {"create", "waitCreate", "insert"} =>
               edit[d].service \notin services',
           MayBecome(c, e)
    PROVE  /\ edit' \in [CatalogClients -> Edit]
           /\ edit'[c] = e
           /\ \A d \in CatalogClients \ {c} : edit'[d] = edit[d] /\ EditFits(d)'
  <1>1. /\ edit' \in [CatalogClients -> Edit] /\ edit'[c] = e
        /\ \A d \in CatalogClients \ {c} : edit'[d] = edit[d]
    BY DEF CatalogInv, CatalogTypeOK
  <1>2. ASSUME NEW d \in CatalogClients \ {c} PROVE EditFits(d)'
    <2>1. edit'[d] = edit[d] /\ EditFits(d)
      BY <1>1 DEF CatalogInv
    <2>2. edit[d].step \in {"create", "waitCreate", "insert"} =>
             /\ edit[d].service \in Services \ services'
             /\ \A f \in CatalogClients \ {d} : edit'[f].service # edit[d].service
      BY <1>1, <2>1 DEF EditFits, MayBecome
    <2>3. Checked(d) => Valid(d)'
      BY <2>1, ValidKept DEF EditFits
    <2>4. Checked(d) => CanLock(d)'
      BY <1>1, <2>1 DEF EditFits, CanLock, Checked, MayBecome
    <2> QED
      BY <2>1, <2>2, <2>3, <2>4 DEF EditFits, Checked
  <1> QED
    BY <1>1, <1>2

\* A step that leaves the rows alone
LEMMA RowsAlone ==
    ASSUME CatalogInv, NEW c \in CatalogClients, NEW e \in Edit,
           edit' = [edit EXCEPT ![c] = e],
           services' = services, deps' = deps, known' = known,
           MayBecome(c, e)
    PROVE  /\ edit'[c] = e
           /\ \A d \in CatalogClients \ {c} : edit'[d] = edit[d]
           /\ EditFits(c)' => CatalogInv'
  <1>1. /\ edit' \in [CatalogClients -> Edit] /\ edit'[c] = e
        /\ \A d \in CatalogClients \ {c} : edit'[d] = edit[d] /\ EditFits(d)'
    <2>1. \A d \in CatalogClients \ {c} :
             edit[d].step \in {"create", "waitCreate", "insert"} =>
               edit[d].service \notin services'
      BY DEF CatalogInv, EditFits
    <2> QED
      BY <2>1, OthersKept
  <1> QED
    BY <1>1 DEF CatalogInv, CatalogTypeOK, AcyclicWhereSeen

LEMMA NoEditTyped == NoEdit \in Edit
  BY DEF NoEdit, Edit

\* A request that ends with no write
LEMMA EndsKeeps ==
    ASSUME CatalogInv, NEW c \in CatalogClients, Ends(c),
           services' = services, deps' = deps, known' = known
    PROVE  CatalogInv'
  <1>1. \A d \in CatalogClients : edit[d].step \in {"create", "waitCreate", "insert"} =>
          NoEdit.service # edit[d].service
    BY CatalogAssumption DEF CatalogInv, EditFits, NoEdit
  <1>2. NoEdit.step = "idle" /\ NoEdit.rows = {}
    BY DEF NoEdit
  <1>3. edit'[c] = NoEdit /\ (EditFits(c)' => CatalogInv')
    <2>1. edit' = [edit EXCEPT ![c] = NoEdit]
      BY DEF Ends
    <2>2. MayBecome(c, NoEdit)
      BY <1>1, <1>2 DEF MayBecome
    <2> QED
      BY <2>1, <2>2, NoEditTyped, RowsAlone
  <1>4. EditFits(c)'
    BY <1>2, <1>3 DEF EditFits, Checked
  <1> QED
    BY <1>3, <1>4

LEMMA CreateServiceKeeps ==
    ASSUME CatalogInv, NEW c \in CatalogClients, CreateService(c)
    PROVE  CatalogInv'
  <1>1. PICK s \in Services, new \in SUBSET Services :
          /\ Fresh(s)
          /\ edit' = [edit EXCEPT ![c] = [NoEdit EXCEPT
                        !.step = "create", !.service = s, !.new = new]]
    BY DEF CreateService
  <1> DEFINE e == [NoEdit EXCEPT !.step = "create", !.service = s, !.new = new]
  <1>2. e \in Edit /\ e.step = "create" /\ e.service = s /\ e.rows = {}
    BY DEF NoEdit, Edit
  <1> HIDE DEF e
  <1>3. edit' = [edit EXCEPT ![c] = e] 
        /\ services' = services /\ deps' = deps /\ known' = known
    BY <1>1 DEF e, CreateService
  <1>4. s \notin services /\ \A d \in CatalogClients : edit[d].service # s
    BY <1>1 DEF Fresh
  <1>5. /\ edit'[c] = e /\ (EditFits(c)' => CatalogInv')
        /\ \A d \in CatalogClients \ {c} : edit'[d] = edit[d]
    <2>1. MayBecome(c, e)
      BY <1>2, <1>4 DEF MayBecome
    <2> QED
      BY <1>2, <1>3, <2>1, RowsAlone
  <1>6. EditFits(c)'
    BY <1>2, <1>3, <1>4, <1>5 DEF EditFits, Checked
  <1> QED
    BY <1>5, <1>6

LEMMA UpdateServiceKeeps ==
    ASSUME CatalogInv, NEW c \in CatalogClients, UpdateService(c)
    PROVE  CatalogInv'
  <1>1. PICK s \in services, new \in SUBSET Services :
          edit' = [edit EXCEPT ![c] = [NoEdit EXCEPT
                     !.step = "update", !.service = s, !.new = new,
                     !.was = deps[s]]]
    BY DEF UpdateService
  <1> DEFINE e == [NoEdit EXCEPT !.step = "update", !.service = s, !.new = new,
                                 !.was = deps[s]]
  <1>2. s \in Services /\ deps[s] \in SUBSET Services
    BY DEF CatalogInv, CatalogTypeOK
  <1>3. e \in Edit /\ e.step = "update" /\ e.service = s /\ e.rows = {}
    BY <1>2 DEF NoEdit, Edit
  <1> HIDE DEF e
  <1>4. edit' = [edit EXCEPT ![c] = e] 
        /\ services' = services /\ deps' = deps /\ known' = known
    BY <1>1 DEF e, UpdateService
  <1>5. \A d \in CatalogClients : edit[d].step \in {"create", "waitCreate", "insert"} =>
          edit[d].service # s
    BY DEF CatalogInv, EditFits
  <1>6. edit'[c] = e /\ (EditFits(c)' => CatalogInv')
    <2>1. MayBecome(c, e)
      BY <1>3, <1>5 DEF MayBecome
    <2> QED
      BY <1>3, <1>4, <2>1, RowsAlone
  <1>7. EditFits(c)'
    BY <1>3, <1>4, <1>6 DEF EditFits, Checked
  <1> QED
    BY <1>6, <1>7

\* The rows a statement will return are those that exist.
LEMMA SnapshotKeeps ==
    ASSUME CatalogInv, NEW c \in CatalogClients, Snapshot(c)
    PROVE  CatalogInv'
  <1> DEFINE e == [edit[c] EXCEPT
                     !.step = IF edit[c].step = "create" THEN "waitCreate"
                              ELSE "waitUpdate",
                     !.rows = services]
  <1>1. edit[c] \in Edit /\ edit[c].step \in {"create", "update"} /\ EditFits(c)
    BY DEF Snapshot, CatalogInv, CatalogTypeOK
  <1>2. /\ e \in Edit /\ e.service = edit[c].service /\ e.rows = services
        /\ \/ edit[c].step = "create" /\ e.step = "waitCreate"
           \/ edit[c].step = "update" /\ e.step = "waitUpdate"
    BY <1>1 DEF Edit, CatalogInv, CatalogTypeOK
  <1>3. edit' = [edit EXCEPT ![c] = e] 
        /\ services' = services /\ deps' = deps /\ known' = known
    BY DEF Snapshot, CatalogInv, CatalogTypeOK
  <1> HIDE DEF e
  <1>4. MayBecome(c, e)
    BY <1>2 DEF CatalogInv, EditFits, MayBecome
  <1>5. /\ edit'[c] = e /\ (EditFits(c)' => CatalogInv')
        /\ \A d \in CatalogClients \ {c} : edit'[d] = edit[d]
    BY <1>2, <1>3, <1>4, RowsAlone
  <1>6. EditFits(c)'
    BY <1>1, <1>2, <1>3, <1>5 DEF EditFits, Checked
  <1> QED
    BY <1>5, <1>6

\* The locks are granted only if no other checked request holds one of them.
LEMMA ValidateKeeps ==
    ASSUME CatalogInv, NEW c \in CatalogClients, Validate(c)
    PROVE  CatalogInv'
  <1>1. CASE Ends(c)
    BY <1>1, EndsKeeps DEF Validate
  <1>2. CASE ~Ends(c)
    <2> DEFINE e == [edit[c] EXCEPT
                       !.step = IF edit[c].step = "waitCreate" THEN "insert"
                                ELSE "write"]
    <2>1. /\ edit[c] \in Edit /\ edit[c].step \in {"waitCreate", "waitUpdate"}
          /\ EditFits(c) /\ CanLock(c) /\ Valid(c)
      BY <1>2 DEF Validate, CatalogInv, CatalogTypeOK
    <2>2. /\ e \in Edit /\ e.service = edit[c].service
          /\ e.rows = edit[c].rows /\ e.new = edit[c].new
          /\ \/ edit[c].step = "waitCreate" /\ e.step = "insert"
             \/ edit[c].step = "waitUpdate" /\ e.step = "write"
      BY <2>1 DEF Edit
    <2>3. edit' = [edit EXCEPT ![c] = e] 
        /\ services' = services /\ deps' = deps /\ known' = known
      BY <1>2 DEF Validate, CatalogInv, CatalogTypeOK
    <2> HIDE DEF e
    <2>4. \A d \in CatalogClients \ {c} :
            /\ edit[d].step \in {"create", "waitCreate", "insert"} =>
                 e.service # edit[d].service
            /\ Checked(d) => edit[d].rows \cap e.rows = {}
      BY <2>1, <2>2 DEF CatalogInv, EditFits, CanLock
    <2>5. /\ edit'[c] = e /\ (EditFits(c)' => CatalogInv')
          /\ \A d \in CatalogClients \ {c} : edit'[d] = edit[d]
      <3>1. MayBecome(c, e)
        BY <2>4 DEF MayBecome
      <3> QED
        BY <2>2, <2>3, <3>1, RowsAlone
    <2>6. Valid(c)'
      <3>1. Graph(c)' = Graph(c)
        BY <2>2, <2>3, <2>5 DEF Graph
      <3> QED
        BY <2>1, <2>2, <2>5, <3>1 DEF Valid
    <2>7. CanLock(c)'
      BY <2>4, <2>5 DEF CanLock, Checked
    <2>8. EditFits(c)'
      BY <2>1, <2>2, <2>3, <2>5, <2>6, <2>7 DEF EditFits, Checked
    <2> QED
      BY <2>5, <2>8
  <1> QED
    BY <1>1, <1>2

\* The services a commit adds an edge for were all in the graph it checked.
LEMMA CommitServiceKeeps ==
    ASSUME CatalogInv, NEW c \in CatalogClients, CommitService(c)
    PROVE  CatalogInv'
  <1> DEFINE e == edit[c]
             x == edit[c].service
  <1>1. /\ e \in Edit /\ EditFits(c) /\ Checked(c) /\ Valid(c) /\ CanLock(c)
        /\ e.step \in {"insert", "write"}
    BY DEF CommitService, CatalogInv, CatalogTypeOK, EditFits, Checked
  <1>2. x \in Services /\ e.rows \subseteq services /\ e.new \subseteq e.rows
    BY <1>1 DEF EditFits, Valid, Edit, CatalogInv, CatalogTypeOK
  <1>3. services' = services \cup {x} /\ edit' = [edit EXCEPT ![c] = NoEdit]
    BY DEF CommitService, Ends
  <1> DEFINE Written ==
               /\ services' \in SUBSET Services
               /\ deps' \in [Services -> SUBSET services']
               /\ known' \in [Services -> SUBSET services']
               /\ \A d \in CatalogClients \ {c} : \A s \in edit[d].rows :
                    Checked(d) => deps'[s] = deps[s]
               /\ AcyclicWhereSeen'
  <1>4. ASSUME e.step = "insert" \/ e.new # e.was PROVE Written
    <2>1. /\ deps' = [deps EXCEPT ![x] = e.new]
          /\ known' = [known EXCEPT ![x] = e.rows \cup {x}]
      BY <1>4 DEF CommitService
    <2>2. /\ deps'[x] = e.new /\ \A s \in Services : s # x => deps'[s] = deps[s]
          /\ known'[x] = e.rows \cup {x}
          /\ \A s \in Services : s # x => known'[s] = known[s]
      BY <1>2, <2>1 DEF CatalogInv, CatalogTypeOK
    <2>3. /\ services' \in SUBSET Services
          /\ deps' \in [Services -> SUBSET services']
          /\ known' \in [Services -> SUBSET services']
      <3>1. \A s \in Services : deps'[s] \in SUBSET services'
                                /\ known'[s] \in SUBSET services'
        BY <1>2, <1>3, <2>2 DEF CatalogInv, CatalogTypeOK
      <3>2. deps' = [s \in Services |-> deps'[s]] /\ known' = [s \in Services |-> known'[s]]
        BY <2>1 DEF CatalogInv, CatalogTypeOK
      <3> QED
        BY <1>2, <1>3, <3>1, <3>2 DEF CatalogInv, CatalogTypeOK
    <2>4. \A d \in CatalogClients \ {c} : \A s \in edit[d].rows :
            Checked(d) => deps'[s] = deps[s]
      <3> SUFFICES ASSUME NEW d \in CatalogClients \ {c}, NEW s \in edit[d].rows,
                          Checked(d)
                   PROVE  s # x
        BY <2>2 DEF CatalogInv, CatalogTypeOK, Edit
      <3>1. s \in services /\ edit[d].rows \cap e.rows = {}
        BY <1>1 DEF CatalogInv, EditFits, CanLock
      <3>2. CASE e.step = "insert"
        BY <1>1, <3>1, <3>2 DEF EditFits
      <3>3. CASE e.step = "write"
        BY <1>1, <3>1, <3>3 DEF EditFits
      <3> QED
        BY <1>1, <3>2, <3>3
    <2>5. AcyclicWhereSeen'
      <3> SUFFICES ASSUME NEW S \in SUBSET services', S # {},
                          \A s \in S : S \subseteq known'[s]
                   PROVE  \E s \in S : deps'[s] \cap S = {}
        BY DEF AcyclicWhereSeen
      <3>1. CASE x \in S
        <4>1. S \in SUBSET DOMAIN Graph(c)
          BY <2>2, <3>1 DEF Graph
        <4>2. PICK s \in S : Graph(c)[s] \cap S = {}
          BY <1>1, <4>1 DEF Valid, Cyclic
        <4>3. Graph(c)[s] = IF s = x THEN e.new ELSE deps[s]
          BY <4>1 DEF Graph
        <4>4. deps'[s] = Graph(c)[s]
          BY <2>2, <2>3, <4>3
        <4> QED
          BY <4>2, <4>4
      <3>2. CASE x \notin S
        <4>1. S \in SUBSET services /\ \A s \in S : S \subseteq known[s]
          BY <1>3, <2>2, <2>3, <3>2
        <4>2. PICK s \in S : deps[s] \cap S = {}
          BY <4>1 DEF CatalogInv, AcyclicWhereSeen
        <4> QED
          BY <2>2, <2>3, <3>2, <4>2
      <3> QED
        BY <3>1, <3>2
    <2> QED
      BY <2>3, <2>4, <2>5
  <1>5. ASSUME ~(e.step = "insert" \/ e.new # e.was) PROVE Written
    <2>1. deps' = deps /\ known' = known
      BY <1>5 DEF CommitService
    <2>2. services' = services
      BY <1>1, <1>3, <1>5 DEF EditFits
    <2> QED
      BY <2>1, <2>2 DEF CatalogInv, CatalogTypeOK, AcyclicWhereSeen
  <1>6. \A d \in CatalogClients \ {c} :
          edit[d].step \in {"create", "waitCreate", "insert"} =>
            edit[d].service \notin services' /\ NoEdit.service # edit[d].service
    <2>1. \A d \in CatalogClients \ {c} :
            edit[d].step \in {"create", "waitCreate", "insert"} =>
              edit[d].service \in Services \ services /\ edit[d].service # x
      BY DEF CatalogInv, EditFits
    <2> QED
      BY <1>3, <2>1, CatalogAssumption DEF NoEdit
  <1>7. NoEdit.step = "idle" /\ NoEdit.rows = {}
    BY DEF NoEdit
  <1>8. Written
    BY <1>4, <1>5
  <1>9. /\ edit' \in [CatalogClients -> Edit] /\ edit'[c] = NoEdit
        /\ \A d \in CatalogClients \ {c} : EditFits(d)'
    <2>1. MayBecome(c, NoEdit)
      BY <1>6, <1>7 DEF MayBecome
    <2> QED
      BY <1>3, <1>6, <1>8, <2>1, NoEditTyped, OthersKept
  <1>10. EditFits(c)'
    BY <1>7, <1>9 DEF EditFits, Checked
  <1> QED
    BY <1>8, <1>9, <1>10 DEF CatalogInv, CatalogTypeOK

\* Every step keeps the invariant.
LEMMA CatalogStep == CatalogInv /\ [CatalogNext]_catalogVars => CatalogInv'
  <1> SUFFICES ASSUME CatalogInv, [CatalogNext]_catalogVars PROVE CatalogInv'
    OBVIOUS
  <1>1. ASSUME NEW c \in CatalogClients, Abandon(c) PROVE CatalogInv'
    BY <1>1, EndsKeeps DEF Abandon
  <1>2. CASE UNCHANGED catalogVars
    BY <1>2 DEF catalogVars, CatalogInv, CatalogTypeOK, AcyclicWhereSeen, EditFits,
                Checked, Valid, Graph, CanLock
  <1> QED
    BY <1>1, <1>2, CreateServiceKeeps, UpdateServiceKeeps, SnapshotKeeps,
       ValidateKeeps, CommitServiceKeeps
    DEF CatalogNext

\* The seeded services depend on nothing.
LEMMA CatalogBegins == CatalogInit => CatalogInv
  <1> SUFFICES ASSUME CatalogInit PROVE CatalogInv
    OBVIOUS
  <1>1. CatalogTypeOK
    BY CatalogAssumption, NoEditTyped DEF CatalogInit, CatalogTypeOK
  <1>2. \A c \in CatalogClients : EditFits(c)
    BY DEF CatalogInit, EditFits, NoEdit, Checked
  <1>3. AcyclicWhereSeen
    BY CatalogAssumption DEF CatalogInit, AcyclicWhereSeen
  <1> QED
    BY <1>1, <1>2, <1>3 DEF CatalogInv

\* _validate_service_dependencies: for any number of requests and services,
\* the edges written by requests that saw each other's services are acyclic.
THEOREM CatalogStaysAcyclic == CatalogSpec => []AcyclicWhereSeen
  <1>1. CatalogInv => AcyclicWhereSeen
    BY DEF CatalogInv
  <1> QED
    BY CatalogBegins, <1>1, CatalogStep, PTL DEF CatalogSpec

-------------------------------------------------------------------------------
(* Feedback *)

\* The hypothesis shows the last verdict given on it, if any
ShowsLast(h) ==
    \/ /\ \A i \in 1..Len(given) : given[i].hypothesis # h
       /\ statuses[h] = "unreviewed"
    \/ \E i \in 1..Len(given) :
         /\ given[i].hypothesis = h /\ statuses[h] = given[i].verdict
         /\ \A k \in 1..Len(given) : given[k].hypothesis = h => k <= i

\* While no two requests have met, at most one is under way and the list it
\* read is the one that is stored
FeedbackInv ==
    /\ FeedbackTypeOK
    /\ ~overlapped =>
         /\ \A j, o \in Judges : judging[j].busy /\ judging[o].busy => j = o
         /\ \A j \in Judges : judging[j].busy => judging[j].was = statuses
         /\ \A h \in Hypotheses : ShowsLast(h)

LEMMA SubmitFeedbackKeeps ==
    ASSUME FeedbackInv, NEW j \in Judges, SubmitFeedback(j)
    PROVE  FeedbackInv'
  <1>1. PICK h \in Hypotheses, v \in Verdicts :
          judging' = [judging EXCEPT ![j] =
                        [busy |-> TRUE, hypothesis |-> h, verdict |-> v,
                         was |-> statuses]]
    BY DEF SubmitFeedback
  <1> DEFINE f == [busy |-> TRUE, hypothesis |-> h, verdict |-> v, was |-> statuses]
  <1>2. /\ f \in [busy : {TRUE}, hypothesis : Hypotheses, verdict : Verdicts, was : List]
        /\ f.was = statuses
    BY DEF FeedbackInv, FeedbackTypeOK
  <1> HIDE DEF f
  <1>3. judging' = [judging EXCEPT ![j] = f] /\ statuses' = statuses /\ given' = given
        /\ overlapped' = (overlapped \/ \E o \in Judges : judging[o].busy)
    BY <1>1 DEF f, SubmitFeedback
  <1>4. judging'[j] = f /\ \A o \in Judges : o # j => judging'[o] = judging[o]
    BY <1>3 DEF FeedbackInv, FeedbackTypeOK
  <1>5. FeedbackTypeOK'
    <2>1. overlapped' \in BOOLEAN
      BY <1>3, Zenon DEF FeedbackInv, FeedbackTypeOK
    <2> QED
      BY <1>2, <1>3, <2>1 DEF FeedbackInv, FeedbackTypeOK
  <1>6. ASSUME ~overlapped'
        PROVE  /\ \A i, o \in Judges : judging'[i].busy /\ judging'[o].busy => i = o
               /\ \A i \in Judges : judging'[i].busy => judging'[i].was = statuses'
               /\ \A g \in Hypotheses : ShowsLast(g)'
    <2>1. ~overlapped /\ \A o \in Judges : ~judging[o].busy
      BY <1>3, <1>6
    <2>2. \A g \in Hypotheses : ShowsLast(g)'
      BY <1>3, <2>1 DEF FeedbackInv, ShowsLast
    <2> QED
      BY <1>2, <1>3, <1>4, <2>1, <2>2
  <1> QED
    BY <1>5, <1>6 DEF FeedbackInv

\* A request that was alone writes the stored list with its verdict in it.
LEMMA CommitFeedbackKeeps ==
    ASSUME FeedbackInv, NEW j \in Judges, CommitFeedback(j)
    PROVE  FeedbackInv'
  <1> DEFINE f == judging[j]
             list == [f.was EXCEPT ![f.hypothesis] = f.verdict]
             r == [hypothesis |-> f.hypothesis, verdict |-> f.verdict]
  <1>1. /\ f \in [busy : {TRUE}, hypothesis : Hypotheses, verdict : Verdicts, was : List]
        /\ f.busy
    <2>1. f.busy
      BY DEF CommitFeedback
    <2>2. f \in {Idle} \cup [busy : {TRUE}, hypothesis : Hypotheses,
                             verdict : Verdicts, was : List]
      BY DEF FeedbackInv, FeedbackTypeOK
    <2>3. Idle.busy = FALSE
      BY DEF Idle
    <2> QED
      BY <2>1, <2>2, <2>3
  <1>2. /\ statuses' = IF list = f.was THEN statuses ELSE list
        /\ given' = Append(given, r)
        /\ judging' = [judging EXCEPT ![j] = Idle] /\ overlapped' = overlapped
    BY DEF CommitFeedback, Judged
  <1>3. list \in List /\ r \in [hypothesis : Hypotheses, verdict : Verdicts]
    BY <1>1 DEF List
  <1>4. FeedbackTypeOK'
    <2> HIDE DEF list, r, f
    <2>1. statuses' \in List
      BY <1>2, <1>3 DEF FeedbackInv, FeedbackTypeOK
    <2>2. given' \in Seq([hypothesis : Hypotheses, verdict : Verdicts])
      BY <1>2, <1>3 DEF FeedbackInv, FeedbackTypeOK
    <2> QED
      BY <1>2, <2>1, <2>2 DEF FeedbackInv, FeedbackTypeOK
  <1>5. /\ judging'[j] = Idle /\ ~Idle.busy
        /\ \A o \in Judges : o # j => judging'[o] = judging[o]
    BY <1>2 DEF FeedbackInv, FeedbackTypeOK, Idle
  <1>6. ASSUME ~overlapped
        PROVE  /\ \A o \in Judges : ~judging'[o].busy
               /\ \A h \in Hypotheses : ShowsLast(h)'
    <2>1. \A o \in Judges : ~judging'[o].busy
      BY <1>1, <1>5, <1>6 DEF FeedbackInv
    <2>2. f.was = statuses
      BY <1>1, <1>6 DEF FeedbackInv
    <2>3. \A h \in Hypotheses :
            statuses'[h] = IF h = f.hypothesis THEN f.verdict ELSE statuses[h]
      BY <1>1, <1>2, <2>2 DEF List
    <2>4. /\ Len(given') = Len(given) + 1 /\ Len(given) \in Nat
          /\ given'[Len(given) + 1] = r
          /\ \A i \in 1..Len(given) : given'[i] = given[i]
      BY <1>2, <1>3 DEF FeedbackInv, FeedbackTypeOK
    <2>5. ASSUME NEW h \in Hypotheses PROVE ShowsLast(h)'
      <3>1. CASE h = f.hypothesis
        <4>1. /\ Len(given) + 1 \in 1..Len(given')
              /\ given'[Len(given) + 1].hypothesis = h
              /\ statuses'[h] = given'[Len(given) + 1].verdict
          BY <1>1, <2>3, <2>4, <3>1
        <4>2. \A k \in 1..Len(given') : k <= Len(given) + 1
          BY <2>4
        <4> QED
          BY <4>1, <4>2 DEF ShowsLast
      <3>2. CASE h # f.hypothesis
        <4>1. ShowsLast(h) /\ statuses'[h] = statuses[h]
          BY <1>6, <2>3, <3>2 DEF FeedbackInv
        <4>2. given'[Len(given) + 1].hypothesis # h
          BY <2>4, <3>2
        <4>3. \A i \in 1..Len(given') : i \in 1..Len(given) \/ i = Len(given) + 1
          BY <2>4
        <4>4. CASE \A i \in 1..Len(given) : given[i].hypothesis # h
          BY <2>4, <4>1, <4>2, <4>3, <4>4 DEF ShowsLast
        <4>5. ASSUME NEW i \in 1..Len(given), given[i].hypothesis = h,
                     statuses[h] = given[i].verdict,
                     \A k \in 1..Len(given) : given[k].hypothesis = h => k <= i
              PROVE  ShowsLast(h)'
          <5>1. i \in 1..Len(given') /\ given'[i] = given[i]
            BY <2>4
          <5>2. \A k \in 1..Len(given') : given'[k].hypothesis = h => k <= i
            BY <2>4, <4>2, <4>3, <4>5
          <5> QED
            BY <4>1, <4>5, <5>1, <5>2 DEF ShowsLast
        <4> QED
          BY <4>1, <4>4, <4>5 DEF ShowsLast
      <3> QED
        BY <3>1, <3>2
    <2> QED
      BY <2>1, <2>5
  <1> QED
    BY <1>2, <1>4, <1>6 DEF FeedbackInv

LEMMA DropFeedbackKeeps ==
    ASSUME FeedbackInv, NEW j \in Judges, DropFeedback(j)
    PROVE  FeedbackInv'
  <1>1. /\ judging' = [judging EXCEPT ![j] = Idle]
        /\ statuses' = statuses /\ given' = given /\ overlapped' = overlapped
    BY DEF DropFeedback
  <1>2. /\ judging'[j] = Idle /\ ~Idle.busy
        /\ \A o \in Judges : o # j => judging'[o] = judging[o]
    BY <1>1 DEF FeedbackInv, FeedbackTypeOK, Idle
  <1>3. FeedbackTypeOK'
    BY <1>1 DEF FeedbackInv, FeedbackTypeOK
  <1> QED
    BY <1>1, <1>2, <1>3 DEF FeedbackInv, ShowsLast

\* Every step keeps the invariant.
LEMMA FeedbackStep == FeedbackInv /\ [FeedbackNext]_feedbackVars => FeedbackInv'
  <1> SUFFICES ASSUME FeedbackInv, [FeedbackNext]_feedbackVars PROVE FeedbackInv'
    OBVIOUS
  <1>1. CASE UNCHANGED feedbackVars
    <2>1. FeedbackTypeOK'
      BY <1>1 DEF feedbackVars, FeedbackInv, FeedbackTypeOK
    <2>2. \A h \in Hypotheses : ShowsLast(h)' <=> ShowsLast(h)
      BY <1>1 DEF feedbackVars, ShowsLast
    <2> QED
      BY <1>1, <2>1, <2>2 DEF feedbackVars, FeedbackInv
  <1> QED
    BY <1>1, SubmitFeedbackKeeps, CommitFeedbackKeeps, DropFeedbackKeeps
    DEF FeedbackNext

\* At first no verdict is given.
LEMMA FeedbackBegins == FeedbackInit => FeedbackInv
  <1> SUFFICES ASSUME FeedbackInit PROVE FeedbackInv
    OBVIOUS
  <1>1. FeedbackTypeOK
    <2>1. statuses \in List
      BY DEF FeedbackInit, List
    <2>2. given \in Seq([hypothesis : Hypotheses, verdict : Verdicts])
      BY DEF FeedbackInit
    <2>3. overlapped \in BOOLEAN
      BY DEF FeedbackInit
    <2>4. judging \in [Judges -> {Idle}]
      BY DEF FeedbackInit
    <2>5. judging \in [Judges -> {Idle} \cup
                         [busy : {TRUE}, hypothesis : Hypotheses,
                          verdict : Verdicts, was : List]]
      BY <2>4
    <2> QED
      BY <2>1, <2>2, <2>3, <2>5 DEF FeedbackTypeOK
  <1>2. \A h \in Hypotheses : ShowsLast(h)
    BY DEF FeedbackInit, ShowsLast
  <1>3. \A j \in Judges : ~judging[j].busy
    BY DEF FeedbackInit, Idle
  <1> QED
    BY <1>1, <1>2, <1>3 DEF FeedbackInv

\* submit_feedback: only requests that overlap can lose a verdict, for any
\* number of members and hypotheses.
THEOREM VerdictsAreKept == FeedbackSpec => []VerdictLostOnlyByOverlap
  <1>1. ASSUME FeedbackInv, ~overlapped, NEW h \in Hypotheses
        PROVE  LET on == {i \in 1..Len(given) : given[i].hypothesis = h} IN
               statuses[h] = IF on = {} THEN "unreviewed"
                             ELSE given[CHOOSE i \in on :
                                          \A k \in on : k <= i].verdict
    <2> DEFINE on == {i \in 1..Len(given) : given[i].hypothesis = h}
               last == CHOOSE i \in on : \A k \in on : k <= i
    <2>1. ShowsLast(h)
      BY <1>1 DEF FeedbackInv
    <2>2. CASE on = {}
      BY <2>1, <2>2 DEF ShowsLast
    <2>3. CASE on # {}
      <3>1. PICK i \in on : statuses[h] = given[i].verdict /\ \A k \in on : k <= i
        BY <2>1, <2>3 DEF ShowsLast
      <3>2. last \in on /\ \A k \in on : k <= last
        BY <3>1
      <3>3. \A k \in on : k \in Int
        OBVIOUS
      <3>4. last <= i /\ i <= last /\ last \in Int /\ i \in Int
        BY <3>1, <3>2, <3>3
      <3>5. last = i
        BY <3>4
      <3> QED
        BY <2>3, <3>1, <3>5
    <2> QED
      BY <2>2, <2>3
  <1>2. FeedbackInv => VerdictLostOnlyByOverlap
    BY <1>1 DEF VerdictLostOnlyByOverlap
  <1> QED
    BY FeedbackBegins, <1>2, FeedbackStep, PTL DEF FeedbackSpec

-------------------------------------------------------------------------------
(* DatasetConsent *)

Stored == [content : Nat, at : Nat]

Decided == [purpose : Purposes, approved : BOOLEAN, snapshot : Stored, at : Nat,
            knew : Nat]

Requests == {NoReview} \cup [step : {"snapshot"}, new : Stored]
              \cup [step : {"consent"}, new : Decided]

ConsentTypes ==
    /\ eligible \in Seq(BOOLEAN)
    /\ snapshots \in SUBSET Stored
    /\ decisions \in Seq(Decided)
    /\ ticks \in Nat
    /\ review \in [Reviewers -> Requests]

\* The snapshot holds a verdict of the kind it needs, among those it counts
Documented(s) == s.content <= Len(eligible) /\ Eligible(s.content)

SnapshotsHold ==
    /\ \A s \in snapshots : Documented(s)
    /\ \A r \in Reviewers : review[r].step = "snapshot" => Documented(review[r].new)
    /\ OneSnapshotPerContent
    /\ snapshots # {} => \E s \in snapshots : \A t \in snapshots : Later(s, t)

\* created_at runs behind the clock, and a decision that was begun once others
\* were committed is later than each of them
KnewEarlier(d) ==
    /\ d.knew <= Len(decisions)
    /\ d.at < ticks
    /\ \A i \in 1..d.knew : decisions[i].at < d.at

DecisionsHold ==
    /\ \A j \in 1..Len(decisions) : KnewEarlier(decisions[j])
    /\ \A r \in Reviewers : review[r].step = "consent" => KnewEarlier(review[r].new)
    /\ \A p \in Purposes : DecisionsOn(p) # {} =>
         \E i \in DecisionsOn(p) :
           \A j \in DecisionsOn(p) : Later(decisions[i], decisions[j])

ConsentInv == ConsentTypes /\ SnapshotsHold /\ DecisionsHold

\* What SELECT ... ORDER BY created_at DESC returns is one of the rows.
LEMMA LatestSnapshotIs ==
    ASSUME ConsentInv, snapshots # {}
    PROVE  LatestSnapshot \in snapshots
  BY DEF ConsentInv, SnapshotsHold, LatestSnapshot

\* The invariant allows only what get_dataset_readiness may answer.
LEMMA ConsentImplies == ASSUME ConsentInv PROVE ReadinessIsJustified
  <1>1. ReadyIsDocumented
    <2> SUFFICES ASSUME NEW p \in Purposes, Ready(p)
                 PROVE  Eligible(LatestSnapshot.content)
      BY DEF ReadyIsDocumented
    <2>1. snapshots # {}
      BY DEF Ready, Prepared
    <2>2. LatestSnapshot \in snapshots
      BY <2>1, LatestSnapshotIs
    <2> QED
      BY <2>2 DEF ConsentInv, SnapshotsHold, Documented
  <1>2. RevocationHolds
    <2> SUFFICES ASSUME NEW p \in Purposes, Ready(p)
                 PROVE  \E i \in DecisionsOn(p) :
                          /\ decisions[i].approved
                          /\ decisions[i].snapshot = LatestSnapshot
                          /\ \A j \in DecisionsOn(p) :
                               ~decisions[j].approved => decisions[j].knew < i
      BY DEF RevocationHolds
    <2> DEFINE last == CHOOSE i \in DecisionsOn(p) :
                         \A j \in DecisionsOn(p) : Later(decisions[i], decisions[j])
    <2>1. /\ DecisionsOn(p) # {} /\ decisions[last].approved
          /\ decisions[last].snapshot = LatestSnapshot
      BY DEF Ready, Consented, LatestDecision
    <2>2. /\ last \in DecisionsOn(p)
          /\ \A j \in DecisionsOn(p) : Later(decisions[last], decisions[j])
      BY <2>1 DEF ConsentInv, DecisionsHold
    <2> HIDE DEF last
    <2>3. ASSUME NEW j \in DecisionsOn(p) PROVE decisions[j].knew < last
      <3>1. j \in 1..Len(decisions) /\ last \in 1..Len(decisions)
        BY <2>2 DEF DecisionsOn
      <3>2. /\ decisions[j].at \in Nat /\ decisions[last].at \in Nat
            /\ decisions[j].knew \in Nat
        <4>1. decisions[j] \in Decided /\ decisions[last] \in Decided
          BY <3>1 DEF ConsentInv, ConsentTypes
        <4> QED
          BY <4>1 DEF Decided
      <3>3. decisions[last].at >= decisions[j].at
        BY <2>2 DEF Later
      <3>4. last \in 1..decisions[j].knew => decisions[last].at < decisions[j].at
        BY <3>1 DEF ConsentInv, DecisionsHold, KnewEarlier
      <3> QED
        BY <3>1, <3>2, <3>3, <3>4
    <2> QED
      BY <2>1, <2>2, <2>3
  <1> QED
    BY <1>1, <1>2 DEF ConsentInv, SnapshotsHold, ReadinessIsJustified

\* A verdict that arrives leaves what a snapshot counts where it is.
LEMMA RecordVerdictKeeps ==
    ASSUME ConsentInv, RecordVerdict
    PROVE  ConsentInv'
  <1>1. PICK e \in BOOLEAN : eligible' = Append(eligible, e)
    BY DEF RecordVerdict
  <1>2. /\ snapshots' = snapshots /\ decisions' = decisions /\ review' = review
        /\ ticks' = ticks
    BY DEF RecordVerdict
  <1>3. /\ eligible' \in Seq(BOOLEAN) /\ Len(eligible') = Len(eligible) + 1
        /\ Len(eligible) \in Nat
        /\ \A i \in 1..Len(eligible) : eligible'[i] = eligible[i]
    BY <1>1 DEF ConsentInv, ConsentTypes
  <1>4. ASSUME NEW s \in Stored, Documented(s)
        PROVE  s.content <= Len(eligible') /\ \E i \in 1..s.content : eligible'[i]
    <2>1. s.content \in Nat /\ s.content <= Len(eligible)
      BY <1>4 DEF Stored, Documented
    <2>2. PICK i \in 1..s.content : eligible[i]
      BY <1>4 DEF Documented, Eligible
    <2>3. i \in 1..Len(eligible)
      BY <1>3, <2>1, <2>2
    <2> QED
      BY <1>3, <2>1, <2>2, <2>3
  <1>5. \A r \in Reviewers : review[r].step = "snapshot" => review[r].new \in Stored
    BY DEF ConsentInv, ConsentTypes, Requests, NoReview
  <1>6. ConsentTypes'
    BY <1>2, <1>3 DEF ConsentInv, ConsentTypes
  <1>7. SnapshotsHold'
    BY <1>2, <1>4, <1>5 DEF ConsentInv, ConsentTypes, SnapshotsHold, Documented,
                            Eligible, OneSnapshotPerContent
  <1>8. DecisionsHold'
    BY <1>2 DEF ConsentInv, DecisionsHold, KnewEarlier, DecisionsOn
  <1> QED
    BY <1>6, <1>7, <1>8 DEF ConsentInv

LEMMA ReviewTyped ==
    ASSUME ConsentInv, NEW r \in Reviewers
    PROVE  /\ review[r].step = "snapshot" => review[r].new \in Stored
           /\ review[r].step = "consent" => review[r].new \in Decided
  <1>1. review[r] \in Requests /\ NoReview.step = "idle"
    BY DEF ConsentInv, ConsentTypes, NoReview
  <1>2. CASE review[r] = NoReview
    BY <1>1, <1>2
  <1>3. CASE review[r] \in [step : {"snapshot"}, new : Stored]
    BY <1>3
  <1>4. CASE review[r] \in [step : {"consent"}, new : Decided]
    BY <1>4
  <1> QED
    BY <1>1, <1>2, <1>3, <1>4 DEF Requests

\* A request that begins takes the time of the clock.
LEMMA StartsKeeps ==
    ASSUME ConsentInv, NEW r \in Reviewers, NEW q \in Requests, Starts(r, q),
           q.step = "snapshot" => Documented(q.new),
           q.step = "consent" => q.new.knew = Len(decisions) /\ q.new.at = ticks
    PROVE  ConsentInv'
  <1>1. /\ review' = [review EXCEPT ![r] = q] /\ ticks' = ticks + 1
        /\ snapshots' = snapshots /\ decisions' = decisions /\ eligible' = eligible
    BY DEF Starts
  <1>2. /\ review'[r] = q /\ \A o \in Reviewers : o # r => review'[o] = review[o]
        /\ review' \in [Reviewers -> Requests]
    BY <1>1 DEF ConsentInv, ConsentTypes
  <1>3. ConsentTypes'
    BY <1>1, <1>2 DEF ConsentInv, ConsentTypes
  <1>4. SnapshotsHold'
    <2>1. \A s : Documented(s)' <=> Documented(s)
      BY <1>1 DEF Documented, Eligible
    <2>2. \A o \in Reviewers : review'[o].step = "snapshot" => Documented(review'[o].new)
      BY <1>2 DEF ConsentInv, SnapshotsHold
    <2> QED
      BY <1>1, <2>1, <2>2 DEF ConsentInv, SnapshotsHold, OneSnapshotPerContent,
                              Documented, Eligible
  <1>5. DecisionsHold'
    <2>1. ticks \in Nat /\ Len(decisions) \in Nat
      BY DEF ConsentInv, ConsentTypes
    <2>2. ASSUME NEW d \in Decided, KnewEarlier(d)
          PROVE  /\ d.knew <= Len(decisions') /\ d.at < ticks'
                 /\ \A i \in 1..d.knew : decisions'[i].at < d.at
      BY <1>1, <2>1, <2>2 DEF KnewEarlier, Decided
    <2>3. \A j \in 1..Len(decisions) : decisions[j] \in Decided /\ KnewEarlier(decisions[j])
      BY DEF ConsentInv, ConsentTypes, DecisionsHold
    <2>4. ASSUME NEW o \in Reviewers, review'[o].step = "consent"
          PROVE  /\ review'[o].new.knew <= Len(decisions') /\ review'[o].new.at < ticks'
                 /\ \A i \in 1..review'[o].new.knew :
                      decisions'[i].at < review'[o].new.at
      <3>1. CASE o = r
        <4>1. q.new.knew = Len(decisions) /\ q.new.at = ticks /\ review'[o] = q
          BY <1>2, <2>4, <3>1
        <4>2. \A i \in 1..Len(decisions) : decisions[i].at < ticks
          BY <2>3 DEF KnewEarlier
        <4> QED
          BY <1>1, <2>1, <4>1, <4>2
      <3>2. CASE o # r
        <4>1. review'[o] = review[o] /\ KnewEarlier(review[o].new)
          BY <1>2, <2>4, <3>2 DEF ConsentInv, DecisionsHold
        <4>2. review[o].new \in Decided
          BY <2>4, <4>1, ReviewTyped
        <4> QED
          BY <2>2, <4>1, <4>2
      <3> QED
        BY <3>1, <3>2
    <2>5. \A p \in Purposes : DecisionsOn(p)' = DecisionsOn(p)
      BY <1>1 DEF DecisionsOn
    <2>6. /\ \A j \in 1..Len(decisions') : KnewEarlier(decisions[j])'
          /\ \A o \in Reviewers : (review[o].step = "consent" => KnewEarlier(review[o].new))'
      BY <1>1, <2>2, <2>3, <2>4 DEF KnewEarlier
    <2> QED
      BY <1>1, <2>5, <2>6 DEF ConsentInv, DecisionsHold
  <1> QED
    BY <1>3, <1>4, <1>5 DEF ConsentInv

LEMMA CreateSnapshotKeeps ==
    ASSUME ConsentInv, NEW r \in Reviewers, CreateSnapshot(r)
    PROVE  ConsentInv'
  <1> DEFINE n == [content |-> Len(eligible), at |-> ticks]
             q == [step |-> "snapshot", new |-> n]
  <1>1. n \in Stored /\ n.content = Len(eligible)
    BY DEF ConsentInv, ConsentTypes, Stored
  <1>2. Eligible(Len(eligible)) /\ Starts(r, q)
    BY DEF CreateSnapshot
  <1>3. Documented(n)
    BY <1>1, <1>2 DEF Documented, ConsentInv, ConsentTypes
  <1> HIDE DEF n
  <1>4. q \in Requests /\ q.step = "snapshot" /\ q.new = n
    BY <1>1 DEF Requests
  <1> HIDE DEF q
  <1>5. q.step # "consent"
    BY <1>4
  <1> QED
    BY <1>2, <1>3, <1>4, <1>5, StartsKeeps

LEMMA DecideConsentKeeps ==
    ASSUME ConsentInv, NEW r \in Reviewers, DecideConsent(r)
    PROVE  ConsentInv'
  <1>1. PICK p \in Purposes, approved \in BOOLEAN :
          Starts(r, [step |-> "consent",
                     new |-> [purpose |-> p, approved |-> approved,
                              snapshot |-> LatestSnapshot, at |-> ticks,
                              knew |-> Len(decisions)]])
    BY DEF DecideConsent
  <1> DEFINE n == [purpose |-> p, approved |-> approved, snapshot |-> LatestSnapshot,
                   at |-> ticks, knew |-> Len(decisions)]
             q == [step |-> "consent", new |-> n]
  <1>2. LatestSnapshot \in Stored
    BY LatestSnapshotIs DEF DecideConsent, ConsentInv, ConsentTypes
  <1>3. n \in Decided /\ n.knew = Len(decisions) /\ n.at = ticks
    BY <1>2 DEF ConsentInv, ConsentTypes, Decided
  <1>4. Starts(r, q)
    BY <1>1
  <1> HIDE DEF n
  <1>5. q \in Requests /\ q.step = "consent" /\ q.new = n
    BY <1>3 DEF Requests
  <1> HIDE DEF q
  <1>6. q.step # "snapshot"
    BY <1>5
  <1> QED
    BY <1>3, <1>4, <1>5, <1>6, StartsKeeps

\* A request that ends leaves the other requests as they are.
LEMMA FinishedFits ==
    ASSUME ConsentInv, NEW r \in Reviewers,
           review' = [review EXCEPT ![r] = NoReview]
    PROVE  /\ review' \in [Reviewers -> Requests]
           /\ \A o \in Reviewers : review'[o] = review[o] \/ review'[o].step = "idle"
  BY DEF ConsentInv, ConsentTypes, Requests, NoReview

\* The unique constraint keeps a second snapshot of a content out.
LEMMA CommitSnapshotKeeps ==
    ASSUME ConsentInv, NEW r \in Reviewers, CommitSnapshot(r)
    PROVE  ConsentInv'
  <1> DEFINE n == review[r].new
  <1>1. /\ review[r].step = "snapshot" /\ review' = [review EXCEPT ![r] = NoReview]
        /\ eligible' = eligible /\ ticks' = ticks /\ decisions' = decisions
        /\ snapshots' = IF HasContent(n.content) THEN snapshots ELSE snapshots \cup {n}
    BY DEF CommitSnapshot, Finishes
  <1>2. n \in Stored /\ Documented(n)
    BY <1>1, ReviewTyped DEF ConsentInv, SnapshotsHold
  <1>3. /\ review' \in [Reviewers -> Requests]
        /\ \A o \in Reviewers : review'[o] = review[o] \/ review'[o].step = "idle"
    BY <1>1, FinishedFits
  <1> HIDE DEF n
  <1>4. ConsentTypes'
    BY <1>1, <1>2, <1>3 DEF ConsentInv, ConsentTypes
  <1>5. DecisionsHold'
    <2>1. \A o \in Reviewers : (review[o].step = "consent" => KnewEarlier(review[o].new))'
      BY <1>1, <1>3 DEF ConsentInv, DecisionsHold, KnewEarlier
    <2>2. \A j \in 1..Len(decisions') : KnewEarlier(decisions[j])'
      BY <1>1 DEF ConsentInv, DecisionsHold, KnewEarlier
    <2>3. \A p \in Purposes : DecisionsOn(p)' = DecisionsOn(p)
      BY <1>1 DEF DecisionsOn
    <2> QED
      BY <1>1, <2>1, <2>2, <2>3 DEF ConsentInv, DecisionsHold
  <1>6. SnapshotsHold'
    <2>1. \A o \in Reviewers : (review[o].step = "snapshot" => Documented(review[o].new))'
      BY <1>1, <1>3 DEF ConsentInv, SnapshotsHold, Documented, Eligible
    <2>2. \A s \in snapshots' : Documented(s)'
      <3>1. \A s \in snapshots' : Documented(s)
        BY <1>1, <1>2 DEF ConsentInv, SnapshotsHold
      <3> QED
        BY <1>1, <3>1 DEF Documented, Eligible
    <2>3. OneSnapshotPerContent'
      <3>1. CASE HasContent(n.content)
        BY <1>1, <3>1 DEF ConsentInv, SnapshotsHold, OneSnapshotPerContent
      <3>2. CASE ~HasContent(n.content)
        <4>1. snapshots' = snapshots \cup {n} /\ \A s \in snapshots : s.content # n.content
          BY <1>1, <3>2 DEF HasContent
        <4> QED
          BY <4>1 DEF ConsentInv, SnapshotsHold, OneSnapshotPerContent
      <3> QED
        BY <3>1, <3>2
    <2>4. snapshots' # {} => \E s \in snapshots' : \A t \in snapshots' : Later(s, t)
      <3>1. CASE snapshots' = snapshots
        BY <3>1 DEF ConsentInv, SnapshotsHold
      <3>2. CASE snapshots' = snapshots \cup {n}
        <4>1. CASE snapshots = {}
          BY <1>2, <3>2, <4>1 DEF Stored, Later
        <4>2. CASE snapshots # {}
          <5>1. PICK s \in snapshots : \A t \in snapshots : Later(s, t)
            BY <4>2 DEF ConsentInv, SnapshotsHold
          <5>2. n.at \in Nat /\ \A t \in snapshots : t.at \in Nat
            BY <1>2 DEF Stored, ConsentInv, ConsentTypes
          <5>3. CASE n.at >= s.at
            BY <3>2, <5>1, <5>2, <5>3 DEF Later
          <5>4. CASE s.at >= n.at
            BY <3>2, <5>1, <5>2, <5>4 DEF Later
          <5> QED
            BY <5>2, <5>3, <5>4
        <4> QED
          BY <4>1, <4>2
      <3> QED
        BY <1>1, <3>1, <3>2
    <2> QED
      BY <2>1, <2>2, <2>3, <2>4 DEF SnapshotsHold
  <1> QED
    BY <1>4, <1>5, <1>6 DEF ConsentInv

\* A decision is the last to be committed, not always the latest.
LEMMA CommitConsentKeeps ==
    ASSUME ConsentInv, NEW r \in Reviewers, CommitConsent(r)
    PROVE  ConsentInv'
  <1> DEFINE n == review[r].new
             len == Len(decisions)
  <1>1. /\ review[r].step = "consent" /\ review' = [review EXCEPT ![r] = NoReview]
        /\ eligible' = eligible /\ ticks' = ticks /\ snapshots' = snapshots
        /\ decisions' = Append(decisions, n)
    BY DEF CommitConsent, Finishes
  <1>2. n \in Decided /\ KnewEarlier(n)
    BY <1>1, ReviewTyped DEF ConsentInv, DecisionsHold
  <1>3. /\ review' \in [Reviewers -> Requests]
        /\ \A o \in Reviewers : review'[o] = review[o] \/ review'[o].step = "idle"
    BY <1>1, FinishedFits
  <1> HIDE DEF n
  <1>4. /\ decisions' \in Seq(Decided) /\ len \in Nat /\ Len(decisions') = len + 1
        /\ decisions'[len + 1] = n
        /\ \A i \in 1..len : decisions'[i] = decisions[i] /\ decisions[i] \in Decided
    BY <1>1, <1>2 DEF ConsentInv, ConsentTypes
  <1>5. ConsentTypes'
    BY <1>1, <1>3, <1>4 DEF ConsentInv, ConsentTypes
  <1>6. SnapshotsHold'
    <2>1. \A o \in Reviewers : (review[o].step = "snapshot" => Documented(review[o].new))'
      BY <1>1, <1>3 DEF ConsentInv, SnapshotsHold, Documented, Eligible
    <2> QED
      BY <1>1, <2>1 DEF ConsentInv, SnapshotsHold, Documented, Eligible,
                        OneSnapshotPerContent
  <1>7. DecisionsHold'
    <2>1. ASSUME NEW d \in Decided, KnewEarlier(d)
          PROVE  /\ d.knew <= Len(decisions') /\ d.at < ticks'
                 /\ \A i \in 1..d.knew : decisions'[i].at < d.at
      <3>1. d.knew \in Nat /\ d.knew <= len
        BY <2>1 DEF KnewEarlier, Decided
      <3>2. \A i \in 1..d.knew : i \in 1..len
        BY <1>4, <3>1
      <3> QED
        BY <1>1, <1>4, <2>1, <3>1, <3>2 DEF KnewEarlier
    <2>2. \A j \in 1..Len(decisions') : j \in 1..len \/ j = len + 1
      BY <1>4
    <2>3. \A j \in 1..len : KnewEarlier(decisions[j])
      BY DEF ConsentInv, DecisionsHold
    <2>4. \A j \in 1..Len(decisions') : KnewEarlier(decisions[j])'
      <3> SUFFICES ASSUME NEW j \in 1..Len(decisions') PROVE KnewEarlier(decisions[j])'
        OBVIOUS
      <3>1. PICK d \in Decided : decisions'[j] = d /\ KnewEarlier(d)
        BY <1>2, <1>4, <2>2, <2>3
      <3> QED
        BY <2>1, <3>1 DEF KnewEarlier
    <2>5. \A o \in Reviewers : (review[o].step = "consent" => KnewEarlier(review[o].new))'
      <3> SUFFICES ASSUME NEW o \in Reviewers, review'[o].step = "consent"
                   PROVE  KnewEarlier(review[o].new)'
        OBVIOUS
      <3>1. review'[o] = review[o] /\ review[o].step = "consent"
        BY <1>3
      <3>2. review[o].new \in Decided /\ KnewEarlier(review[o].new)
        BY <3>1, ReviewTyped DEF ConsentInv, DecisionsHold
      <3> QED
        BY <2>1, <3>1, <3>2 DEF KnewEarlier
    <2>6. ASSUME NEW p \in Purposes, DecisionsOn(p)' # {}
          PROVE  \E i \in DecisionsOn(p)' :
                   \A j \in DecisionsOn(p)' : Later(decisions'[i], decisions'[j])
      <3>1. /\ DecisionsOn(p) \subseteq 1..len
            /\ DecisionsOn(p)' = IF n.purpose = p THEN DecisionsOn(p) \cup {len + 1}
                                 ELSE DecisionsOn(p)
        BY <1>4, <2>2 DEF DecisionsOn
      <3>2. \A i \in 1..len + 1 : decisions'[i] \in Decided /\ decisions'[i].at \in Nat
        <4>1. \A i \in 1..len + 1 : decisions'[i] \in Decided
          BY <1>2, <1>4, <2>2
        <4> QED
          BY <4>1 DEF Decided
      <3>3. CASE DecisionsOn(p) = {}
        BY <1>4, <2>6, <3>1, <3>2, <3>3 DEF Later
      <3>4. CASE DecisionsOn(p) # {}
        <4>1. PICK i \in DecisionsOn(p) :
                \A j \in DecisionsOn(p) : Later(decisions[i], decisions[j])
          BY <3>4 DEF ConsentInv, DecisionsHold
        <4>2. \A j \in DecisionsOn(p) : Later(decisions'[i], decisions'[j])
          BY <1>4, <3>1, <4>1
        <4>3. i \in 1..len + 1 /\ \A j \in DecisionsOn(p) : j \in 1..len + 1
          BY <1>4, <3>1
        <4>4. CASE n.purpose # p
          BY <3>1, <4>2, <4>4
        <4>5. CASE n.purpose = p /\ decisions'[i].at >= n.at
          <5>1. Later(decisions'[i], decisions'[len + 1])
            BY <1>4, <4>5 DEF Later
          <5> QED
            BY <3>1, <4>2, <4>5, <5>1
        <4>6. CASE n.purpose = p /\ n.at >= decisions'[i].at
          <5>1. n.at \in Nat /\ n = decisions'[len + 1]
            BY <1>2, <1>4 DEF Decided
          <5>2. \A j \in DecisionsOn(p) : Later(decisions'[len + 1], decisions'[j])
            BY <3>2, <4>2, <4>3, <4>6, <5>1 DEF Later
          <5>3. Later(decisions'[len + 1], decisions'[len + 1])
            BY <5>1 DEF Later
          <5> QED
            BY <3>1, <4>6, <5>2, <5>3
        <4>7. decisions'[i].at \in Nat /\ n.at \in Nat
          BY <1>2, <3>2, <4>3 DEF Decided
        <4> QED
          BY <4>4, <4>5, <4>6, <4>7
      <3> QED
        BY <3>3, <3>4
    <2> QED
      BY <2>4, <2>5, <2>6 DEF DecisionsHold
  <1> QED
    BY <1>5, <1>6, <1>7 DEF ConsentInv

LEMMA DropReviewKeeps ==
    ASSUME ConsentInv, NEW r \in Reviewers, DropReview(r)
    PROVE  ConsentInv'
  <1>1. /\ review' = [review EXCEPT ![r] = NoReview]
        /\ eligible' = eligible /\ ticks' = ticks /\ snapshots' = snapshots
        /\ decisions' = decisions
    BY DEF DropReview, Finishes
  <1>2. /\ review' \in [Reviewers -> Requests]
        /\ \A o \in Reviewers : review'[o] = review[o] \/ review'[o].step = "idle"
    BY <1>1, FinishedFits
  <1>3. \A o \in Reviewers :
          /\ (review[o].step = "snapshot" => Documented(review[o].new))'
          /\ (review[o].step = "consent" => KnewEarlier(review[o].new))'
    BY <1>1, <1>2 DEF ConsentInv, SnapshotsHold, DecisionsHold, Documented, Eligible,
                      KnewEarlier
  <1>4. ConsentTypes'
    BY <1>1, <1>2 DEF ConsentInv, ConsentTypes
  <1>5. SnapshotsHold'
    BY <1>1, <1>3 DEF ConsentInv, SnapshotsHold, Documented, Eligible,
                      OneSnapshotPerContent
  <1>6. DecisionsHold'
    BY <1>1, <1>3 DEF ConsentInv, DecisionsHold, KnewEarlier, DecisionsOn
  <1> QED
    BY <1>4, <1>5, <1>6 DEF ConsentInv

\* Every step keeps the invariant.
LEMMA ConsentStep == ConsentInv /\ [ConsentNext]_consentVars => ConsentInv'
  <1> SUFFICES ASSUME ConsentInv, [ConsentNext]_consentVars PROVE ConsentInv'
    OBVIOUS
  <1>1. CASE Resolve \/ UNCHANGED consentVars
    <2>1. /\ eligible' = eligible /\ snapshots' = snapshots /\ decisions' = decisions
          /\ review' = review /\ ticks' = ticks
      BY <1>1 DEF Resolve, consentVars
    <2> QED
      BY <2>1 DEF ConsentInv, ConsentTypes, SnapshotsHold, DecisionsHold, Documented,
                  Eligible, KnewEarlier, DecisionsOn, OneSnapshotPerContent
  <1> QED
    BY <1>1, RecordVerdictKeeps, CreateSnapshotKeeps, CommitSnapshotKeeps,
       DecideConsentKeeps, CommitConsentKeeps, DropReviewKeeps
    DEF ConsentNext

\* At first there is neither a snapshot nor a decision.
LEMMA ConsentBegins == ConsentInit => ConsentInv
  BY DEF ConsentInit, ConsentInv, ConsentTypes, SnapshotsHold, DecisionsHold,
         Requests, NoReview, OneSnapshotPerContent, DecisionsOn

\* get_dataset_readiness: an incident is ready only on a documented snapshot,
\* under an approval no revocation has ended, for a content one snapshot holds,
\* for any number of reviewers and purposes.
THEOREM ReadinessStaysJustified == ConsentSpec => []ReadinessIsJustified
  <1> QED
    BY ConsentBegins, ConsentImplies, ConsentStep, PTL DEF ConsentSpec
-------------------------------------------------------------------------------
(* The composition: the types of all components *)

\* DatasetConsent: verdicts and times stay within their bounds
ConsentBounds == ConsentInv /\ ConsentTypeOK /\ Len(eligible) <= MaxRatings

\* A request that begins takes a time before the last tick.
LEMMA StartsBounded ==
    ASSUME ConsentBounds, NEW r \in Reviewers, NEW q, Starts(r, q),
           \/ q.step = "snapshot" /\ q.new \in Snap
           \/ q.step = "consent" /\ q.new \in Decision
    PROVE  ConsentTypeOK' /\ Len(eligible') <= MaxRatings
  <1>1. /\ ticks < MaxTicks /\ ticks' = ticks + 1
        /\ UNCHANGED <<connected, resolved, eligible, snapshots, decisions>>
    BY DEF Starts
  <1>2. review'[r] = q /\ \A o \in Reviewers : o # r => review'[o] = review[o]
    BY DEF Starts, ConsentBounds, ConsentInv, ConsentTypes
  <1>3. ticks' \in 0..MaxTicks
    BY <1>1, ConsentAssumption DEF ConsentBounds, ConsentTypeOK
  <1> QED
    BY <1>1, <1>2, <1>3 DEF ConsentBounds, ConsentTypeOK

\* A request that ends leaves the other requests as they are.
LEMMA FinishesBounded ==
    ASSUME ConsentBounds, NEW r \in Reviewers, Finishes(r),
           snapshots' \in SUBSET Snap, decisions' \in Seq(Decision)
    PROVE  ConsentTypeOK' /\ Len(eligible') <= MaxRatings
  <1>1. UNCHANGED <<connected, resolved, eligible, ticks>>
    BY DEF Finishes
  <1>2. \A o \in Reviewers : review'[o] \in {NoReview, review[o]}
    BY DEF Finishes, ConsentBounds, ConsentInv, ConsentTypes
  <1> QED
    BY <1>1, <1>2 DEF ConsentBounds, ConsentTypeOK

\* Every step of the consent keeps the bounds.
LEMMA ConsentBoundsStep == ConsentBounds /\ [ConsentNext]_consentVars => ConsentBounds'
  <1> SUFFICES ASSUME ConsentBounds, [ConsentNext]_consentVars
               PROVE  ConsentTypeOK' /\ Len(eligible') <= MaxRatings
    BY ConsentStep DEF ConsentBounds
  <1>1. CASE Resolve \/ UNCHANGED consentVars
    <2>1. /\ resolved' \in BOOLEAN
          /\ UNCHANGED <<connected, eligible, snapshots, decisions, review, ticks>>
      BY <1>1 DEF Resolve, consentVars, ConsentBounds, ConsentTypeOK
    <2> QED
      BY <2>1 DEF ConsentBounds, ConsentTypeOK
  <1>2. CASE RecordVerdict
    <2>1. PICK e \in BOOLEAN : eligible' = Append(eligible, e)
      BY <1>2 DEF RecordVerdict
    <2>2. /\ Len(eligible) < MaxRatings
          /\ UNCHANGED <<connected, resolved, snapshots, decisions, review, ticks>>
      BY <1>2 DEF RecordVerdict
    <2>3. eligible \in Seq(BOOLEAN)
      BY DEF ConsentBounds, ConsentTypeOK
    <2>4. eligible' \in Seq(BOOLEAN) /\ Len(eligible') = Len(eligible) + 1
      BY <2>1, <2>3
    <2>5. Len(eligible') <= MaxRatings
      BY <2>2, <2>3, <2>4, ConsentAssumption
    <2> QED
      BY <2>2, <2>4, <2>5 DEF ConsentBounds, ConsentTypeOK
  <1>3. ASSUME NEW r \in Reviewers, CreateSnapshot(r)
        PROVE  ConsentTypeOK' /\ Len(eligible') <= MaxRatings
    <2> DEFINE new == [content |-> Len(eligible), at |-> ticks]
    <2>1. Len(eligible) \in 0..MaxRatings
      BY ConsentAssumption DEF ConsentBounds, ConsentTypeOK
    <2>2. new \in Snap
      BY <2>1 DEF Snap, ConsentBounds, ConsentTypeOK
    <2>3. Starts(r, [step |-> "snapshot", new |-> new])
      BY <1>3 DEF CreateSnapshot
    <2> HIDE DEF new
    <2> QED
      BY <2>2, <2>3, StartsBounded
  <1>4. ASSUME NEW r \in Reviewers, CommitSnapshot(r)
        PROVE  ConsentTypeOK' /\ Len(eligible') <= MaxRatings
    <2>1. review[r].new \in Snap
      BY <1>4 DEF CommitSnapshot, ConsentBounds, ConsentTypeOK, NoReview
    <2>2. snapshots' \in SUBSET Snap /\ decisions' \in Seq(Decision)
      BY <1>4, <2>1 DEF CommitSnapshot, ConsentBounds, ConsentTypeOK
    <2> QED
      BY <1>4, <2>2, FinishesBounded DEF CommitSnapshot
  <1>5. ASSUME NEW r \in Reviewers, DecideConsent(r)
        PROVE  ConsentTypeOK' /\ Len(eligible') <= MaxRatings
    <2>1. PICK p \in Purposes, approved \in BOOLEAN :
            Starts(r, [step |-> "consent",
                       new |-> [purpose |-> p, approved |-> approved,
                                snapshot |-> LatestSnapshot, at |-> ticks,
                                knew |-> Len(decisions)]])
      BY <1>5 DEF DecideConsent
    <2> DEFINE new == [purpose |-> p, approved |-> approved,
                       snapshot |-> LatestSnapshot, at |-> ticks,
                       knew |-> Len(decisions)]
    <2>2. LatestSnapshot \in Snap
      BY <1>5, LatestSnapshotIs DEF DecideConsent, ConsentBounds, ConsentTypeOK
    <2>3. new \in Decision
      BY <2>2 DEF Decision, ConsentBounds, ConsentTypeOK
    <2>4. Starts(r, [step |-> "consent", new |-> new])
      BY <2>1
    <2> HIDE DEF new
    <2> QED
      BY <2>3, <2>4, StartsBounded
  <1>6. ASSUME NEW r \in Reviewers, CommitConsent(r)
        PROVE  ConsentTypeOK' /\ Len(eligible') <= MaxRatings
    <2>1. review[r].new \in Decision
      BY <1>6 DEF CommitConsent, ConsentBounds, ConsentTypeOK, NoReview
    <2>2. snapshots' \in SUBSET Snap /\ decisions' \in Seq(Decision)
      BY <1>6, <2>1 DEF CommitConsent, ConsentBounds, ConsentTypeOK
    <2> QED
      BY <1>6, <2>2, FinishesBounded DEF CommitConsent
  <1>7. ASSUME NEW r \in Reviewers, DropReview(r)
        PROVE  ConsentTypeOK' /\ Len(eligible') <= MaxRatings
    BY <1>7, FinishesBounded DEF DropReview, ConsentBounds, ConsentTypeOK
  <1> QED
    BY <1>1, <1>2, <1>3, <1>4, <1>5, <1>6, <1>7 DEF ConsentNext

\* At first there is nothing to bound.
LEMMA ConsentBounded == ConsentInit => ConsentBounds
  <1> SUFFICES ASSUME ConsentInit PROVE ConsentBounds
    OBVIOUS
  <1>1. /\ connected \in BOOLEAN /\ resolved = FALSE /\ ticks = 0
        /\ eligible = <<>> /\ snapshots = {} /\ decisions = <<>>
        /\ \A r \in Reviewers : review[r] = NoReview
    BY DEF ConsentInit
  <1>2. /\ eligible \in Seq(BOOLEAN) /\ decisions \in Seq(Decision)
        /\ Len(eligible) <= MaxRatings /\ ticks \in 0..MaxTicks
    BY <1>1, ConsentAssumption
  <1> QED
    BY <1>1, <1>2, ConsentBegins DEF ConsentBounds, ConsentTypeOK

\* RateLimit: the clock stays within its bound
RateTypes == RateInv /\ time <= EndOfTime

\* Only the clock moves time, and only below the bound.
LEMMA RateTypesStep == RateTypes /\ [RateNext]_rateVars => RateTypes'
  <1> SUFFICES ASSUME RateTypes, [RateNext]_rateVars PROVE time' <= EndOfTime
    BY RateStep DEF RateTypes
  <1>1. time' = time \/ (time < EndOfTime /\ time' = time + 1)
    <2>1. CASE Tick
      BY <2>1 DEF Tick
    <2>2. ASSUME NEW k \in Keys, Request(k) PROVE time' = time
      BY <2>2 DEF Request
    <2>3. CASE UNCHANGED rateVars
      BY <2>3 DEF rateVars
    <2> QED
      BY <2>1, <2>2, <2>3 DEF RateNext
  <1> QED
    BY <1>1, RateAssumption DEF RateTypes, RateInv

\* A function on 1..n is a sequence.
LEMMA FunctionIsASequence ==
    ASSUME NEW S, NEW n \in Nat, NEW s \in [1..n -> S] PROVE s \in Seq(S)
  BY SeqDef

\* What a deque holds are times of the past.
LEMMA RateTyped ==
    /\ RateInit => RateTypes
    /\ RateTypes => RateTypeOK
  <1>1. RateInit => time <= EndOfTime
    BY RateAssumption DEF RateInit
  <1>2. ASSUME RateTypes PROVE RateTypeOK
    <2>1. time \in 0..EndOfTime
      BY <1>2, RateAssumption DEF RateTypes, RateInv
    <2>2. ASSUME NEW k \in Keys
          PROVE  buckets[k] \in Seq(0..EndOfTime) /\ granted[k] \in Seq(0..EndOfTime)
      <3> DEFINE g == granted[k]
                 b == buckets[k]
      <3>1. /\ g \in Seq(Nat) /\ b \in Seq(Nat) /\ Len(b) <= Len(g)
            /\ \A i \in 1..Len(g) : g[i] <= time
            /\ \A i \in 1..Len(b) : b[i] = g[Len(g) - Len(b) + i]
        BY <1>2 DEF RateTypes, RateInv, DequeFits
      <3> HIDE DEF g, b
      <3>2. \A i \in 1..Len(g) : g[i] \in 0..EndOfTime
        BY <2>1, <3>1, RateAssumption
      <3>3. \A i \in 1..Len(b) : Len(g) - Len(b) + i \in 1..Len(g)
        BY <3>1
      <3>4. \A i \in 1..Len(b) : b[i] \in 0..EndOfTime
        BY <3>1, <3>2, <3>3
      <3>5. ASSUME NEW t \in Seq(Nat), \A i \in 1..Len(t) : t[i] \in 0..EndOfTime
            PROVE  t \in Seq(0..EndOfTime)
        <4>1. t \in [1..Len(t) -> 0..EndOfTime]
          BY <3>5, LenProperties
        <4> QED
          BY <4>1, FunctionIsASequence, LenProperties
      <3>6. g \in Seq(0..EndOfTime) /\ b \in Seq(0..EndOfTime)
        BY <3>1, <3>2, <3>4, <3>5
      <3> QED
        BY <3>6 DEF g, b
    <2> QED
      BY <1>2, <2>1, <2>2 DEF RateTypes, RateInv, RateTypeOK
  <1> QED
    BY <1>1, <1>2, RateBegins DEF RateTypes

\* EventLedger, UserContext, Identity and InstallState
LEMMA StoresTyped ==
    /\ LedgerInv => LedgerTypeOK
    /\ ContextInv /\ AloneInv => ContextTypeOK
    /\ IdentityInv => IdentityTypeOK
    /\ InstallInv => InstallTypeOK
  <1>1. ASSUME LedgerTypes PROVE LedgerTypeOK
    <2>1. \A s \in Sources : ledger[s] = NoMaterial \/ ledger[s].origin \in Senders
      BY <1>1 DEF LedgerTypes, MaterialRow
    <2>2. \A p \in Posts :
            post[p].step \in {"new", "insert", "ok", "conflict", "refused", "lost"}
      BY <1>1 DEF LedgerTypes, PostRow
    <2> QED
      BY <1>1, <2>1, <2>2 DEF LedgerTypes, LedgerTypeOK
  <1>2. ContextInv /\ AloneInv => ContextTypeOK
    <2>1. ASSUME ContextInv, NEW t \in Tabs, tab[t].open PROVE tab[t].row \in ContextRow
      <3>1. tab[t] \in {Closed} \cup OpenTab
        BY <2>1 DEF ContextInv
      <3>2. tab[t] # Closed
        BY <2>1 DEF Closed
      <3> QED
        BY <3>1, <3>2 DEF OpenTab
    <2> QED
      BY <2>1 DEF ContextInv, AloneInv, ContextTypeOK
  <1>3. IdentityInv => IdentityTypeOK
    BY DEF IdentityInv, IdentityTypeOK
  <1>4. InstallInv => InstallTypeOK
    BY DEF InstallInv, InstallTypeOK
  <1> QED
    BY <1>1, <1>2, <1>3, <1>4 DEF LedgerInv

\* The invariant of the component that the behaviour follows
OperationsInv ==
    /\ subject = "catalog" => CatalogInv
    /\ subject = "policy" => PolicyInv
    /\ subject = "lifecycle" => LifecycleInv
    /\ subject = "feedback" => FeedbackInv
    /\ subject = "consent" => ConsentBounds
    /\ subject = "ledger" => LedgerInv
    /\ subject = "context" => ContextInv /\ AloneInv
    /\ subject = "identity" => IdentityInv
    /\ subject = "install" => InstallInv
    /\ subject = "setting" => SettingInv
    /\ subject = "rate" => RateTypes

\* Whatever component it is, it starts in its own initial state.
LEMMA OperationsStart == Init => OperationsInv
  <1> SUFFICES ASSUME Init PROVE OperationsInv
    OBVIOUS
  <1>1. /\ CatalogInit /\ PolicyInit /\ LifecycleInit /\ FeedbackInit /\ ConsentInit
        /\ LedgerInit /\ ContextInit /\ IdentityInit /\ InstallInit /\ SettingInit
        /\ RateInit
    BY DEF Init
  <1> QED
    BY <1>1, CatalogBegins, PolicyBegins, LifecycleBegins, FeedbackBegins,
       ConsentBounded, LedgerBegins, ContextBegins, AloneBegins, IdentityBegins,
       InstallBegins, SettingBegins, RateTyped
    DEF OperationsInv

\* Its steps are the ones of the component.
LEMMA OperationsStep == OperationsInv /\ [Next]_vars => OperationsInv'
  <1> SUFFICES ASSUME OperationsInv, [Next]_vars PROVE OperationsInv'
    OBVIOUS
  <1>1. subject' = subject
    BY DEF Next, vars
  <1>2. /\ subject = "catalog" => [CatalogNext]_catalogVars
        /\ subject = "policy" => [PolicyNext]_policyVars
        /\ subject = "lifecycle" => [LifecycleNext]_lifecycleVars
        /\ subject = "feedback" => [FeedbackNext]_feedbackVars
        /\ subject = "consent" => [ConsentNext]_consentVars
        /\ subject = "ledger" => [LedgerNext]_ledgerVars
        /\ subject = "context" => [ContextNext]_contextVars
        /\ subject = "identity" => [IdentityNext]_identityVars
        /\ subject = "install" => [InstallNext]_installVars
        /\ subject = "setting" => [SettingNext]_settingVars
        /\ subject = "rate" => [RateNext]_rateVars
    BY Zenon DEF Next, vars
  <1>3. /\ subject = "catalog" => CatalogInv'
        /\ subject = "policy" => PolicyInv'
        /\ subject = "lifecycle" => LifecycleInv'
        /\ subject = "feedback" => FeedbackInv'
        /\ subject = "consent" => ConsentBounds'
        /\ subject = "ledger" => LedgerInv'
    BY <1>2, CatalogStep, PolicyStep, LifecycleStep, FeedbackStep, ConsentBoundsStep,
       LedgerStep DEF OperationsInv
  <1>4. /\ subject = "context" => ContextInv' /\ AloneInv'
        /\ subject = "identity" => IdentityInv'
        /\ subject = "install" => InstallInv'
        /\ subject = "setting" => SettingInv'
        /\ subject = "rate" => RateTypes'
    BY <1>2, ContextStep, AloneStep, IdentityStep, InstallStep, SettingStep,
       RateTypesStep DEF OperationsInv
  <1> QED
    BY <1>1, <1>3, <1>4 DEF OperationsInv

\* Every component the API serves keeps its types, for any values of all the
\* constants: rows name what exists, a dependency is a service of the catalog,
\* versions, verdicts and times stay within their bounds, and every request is
\* at one of its steps.
THEOREM OperationsStayTyped == Spec => []TypeOK
  <1>1. OperationsInv => TypeOK
    BY StoresTyped, RateTyped
    DEF OperationsInv, TypeOK, CatalogInv, PolicyInv, LifecycleInv, FeedbackInv,
        ConsentBounds, SettingInv
  <1> QED
    BY <1>1, OperationsStart, OperationsStep, PTL DEF Spec
===============================================================================
