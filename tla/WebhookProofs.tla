----------------------------- MODULE WebhookProofs -----------------------------
(***************************************************************************)
(* Proofs about Webhook for any processes, deliveries and changes.         *)
(***************************************************************************)
EXTENDS Webhook, TLAPS, WellFoundedInduction

PullRequestPc == {"mark", "analyze", "insert", "activate", "enqueue", "store", "fail"}

\* What the place of process p in the handler says about the database.
Knows(p) ==
    /\ h[p].pc # "idle" => h[p].d \in Deliveries
    /\ h[p].pc \in PullRequestPc => Kind(p) = "pull_request"
    /\ h[p].pc \in {"upsert", "write"} => Kind(p) = "deployment"
    /\ h[p].pc \in {"activate", "event", "enqueue", "store"} /\ Kind(p) = "pull_request"
          => created[Change(p)] # 0
    /\ h[p].pc \in {"enqueue", "store", "upsert", "write", "finish"} => h[p].d \in events
    /\ h[p].pc = "finish" =>
          /\ Kind(p) = "pull_request" => PullRequestDone(h[p].d)
          /\ Kind(p) = "deployment" => row.version # 0
    /\ h[p].pc = "write" =>
          \A c \in {h[p].match, h[p].row.change} : c # None => created[c] # 0

HandlersKnow == \A p \in Processes : Knows(p)

\* The inductive invariant.
Inv == TypeOK /\ ProcessedIsComplete /\ KnownBeforeUsed /\ HandlersKnow

-------------------------------------------------------------------------------
(* Types of what is written, and the steps of a handler. *)

\* Deliveries have well typed events.
LEMMA EventTypes ==
    ASSUME NEW d \in Deliveries
    PROVE  /\ Event[d].at \in 1..MaxTime /\ Event[d].at \in 0..MaxTime
           /\ Event[d].kind = "pull_request" => Event[d].change \in Changes
           /\ Normalized(Event[d].state) \in Status
           /\ FinishedAt(d) \in 0..MaxTime
           /\ InstallationState(Event[d].state) \in ConnState
  <1>1. /\ Event[d].at \in 1..MaxTime /\ Event[d].at \in 0..MaxTime
        /\ Event[d].kind = "pull_request" => Event[d].change \in Changes
        /\ 0 \in 0..MaxTime
    BY WebhookAssumption
  <1>2. Normalized(Event[d].state) \in Status
    BY DEF Normalized, Status
  <1>3. InstallationState(Event[d].state) \in ConnState
    BY DEF InstallationState, ConnState
  <1> QED
    BY <1>1, <1>2, <1>3 DEF FinishedAt

\* A deployment's status has a counterpart for its change.
LEMMA LegacyType == \A s \in Status : Legacy(s) \in LegacyStatus
  BY DEF Legacy, Status, LegacyStatus

\* The rows of the deployment are well typed.
LEMMA RowTypes ==
    /\ NoRow \in Row
    /\ \A copy \in Row, d \in Deliveries, c \in Changes \cup {None} :
          /\ Updated(copy, d, c) \in Row
          /\ row \in Row => Flushed(copy, Updated(copy, d, c)) \in Row
  <1>1. NoRow \in Row
    BY WebhookAssumption DEF NoRow, Row, Status
  <1>2. ASSUME NEW copy \in Row, NEW d \in Deliveries, NEW c \in Changes \cup {None}
        PROVE  Updated(copy, d, c) \in Row
    <2>1. copy.version + 1 \in Nat /\ copy.change \in Changes \cup {None}
      BY DEF Row
    <2> QED
      BY <2>1, EventTypes DEF Updated, Row
  <1>3. ASSUME NEW copy \in Row, NEW new \in Row, row \in Row
        PROVE  Flushed(copy, new) \in Row
    BY <1>3 DEF Flushed, Column, Row
  <1> QED
    BY <1>1, <1>2, <1>3

\* The idle handler is well typed.
LEMMA IdleType == Idle \in Handler /\ Idle.pc = "idle" /\ Idle.d = None
  BY RowTypes DEF Idle, Handler, Pc, DeliveryStatus, ConnState, LegacyStatus

\* The handlers other than p's stay where they are.
OthersStay(p) == \A q \in Processes \ {p} : h'[q] = h[q]

\* A handler that moves on keeps what it has loaded.
LEMMA GotoEffect ==
    ASSUME TypeOK, NEW p \in Processes, NEW pc \in Pc, Goto(p, pc)
    PROVE  /\ h' \in [Processes -> Handler] /\ OthersStay(p)
           /\ h'[p].pc = pc /\ h'[p].d = h[p].d
           /\ h'[p].row = h[p].row /\ h'[p].match = h[p].match
  <1>1. h \in [Processes -> Handler] /\ h[p] \in Handler
    BY DEF TypeOK
  <1>2. [h[p] EXCEPT !.pc = pc] \in Handler
    BY <1>1 DEF Handler
  <1>3. h' = [h EXCEPT ![p] = [h[p] EXCEPT !.pc = pc]]
    BY DEF Goto
  <1> QED
    BY <1>1, <1>2, <1>3 DEF OthersStay, Handler

\* A handler that is done is idle again.
LEMMA DoneEffect ==
    ASSUME TypeOK, NEW p \in Processes, Done(p)
    PROVE  h' \in [Processes -> Handler] /\ OthersStay(p) /\ h'[p] = Idle
  BY IdleType DEF TypeOK, Done, OthersStay

\* What a handler knows is never undone: rows are only added to the ledger, the
\* changes and the outbox, and the deployment's record stays.
Grows ==
    /\ events \subseteq events' /\ jobs \subseteq jobs' /\ unwatched \subseteq unwatched'
    /\ \A c \in Changes : created[c] # 0 => created'[c] # 0
    /\ row.version # 0 => row'.version # 0

\* A handler that does not move goes on knowing what it knew.
LEMMA KnowsKept ==
    ASSUME TypeOK, NEW q \in Processes, Knows(q), h'[q] = h[q], Grows
    PROVE  Knows(q)'
  <1>1. h[q] \in Handler
    BY DEF TypeOK
  <1>2. /\ h[q].match \in Changes \cup {None}
        /\ h[q].row.change \in Changes \cup {None}
    BY <1>1 DEF Handler, Row
  <1>3. h[q].pc # "idle" /\ Event[h[q].d].kind = "pull_request" => Event[h[q].d].change \in Changes
    BY EventTypes DEF Knows
  <1> QED
    BY <1>1, <1>2, <1>3 DEF Knows, Grows, Kind, Change, PullRequestDone

\* An idle handler claims nothing.
LEMMA IdleKnows ==
    ASSUME NEW p \in Processes, h'[p] = Idle PROVE Knows(p)'
  BY IdleType DEF Knows, PullRequestPc

\* What a processed delivery has left behind.
Complete(d) ==
    /\ d \in events
    /\ Event[d].kind = "pull_request" => PullRequestDone(d)
    /\ Event[d].kind = "deployment" => row.version # 0

\* A step of process p keeps the invariant if it only adds rows, leaves the
\* process where its knowledge is right, and calls a delivery processed only
\* when its effect is complete.
LEMMA StepKeeps ==
    ASSUME Inv, NEW p \in Processes, TypeOK', Grows, OthersStay(p), Knows(p)',
           \A d \in Deliveries : delivery'[d] = "processed"
               => delivery[d] = "processed" \/ Complete(d)',
           \A c \in jobs' \cup {active', row'.change} : c # None =>
               c \in jobs \cup {active, row.change} \/ created'[c] # 0
    PROVE  Inv'
  <1>1. TypeOK /\ ProcessedIsComplete /\ KnownBeforeUsed /\ HandlersKnow
    BY DEF Inv
  <1>2. HandlersKnow'
    BY <1>1, KnowsKept DEF HandlersKnow, OthersStay
  <1>3. ASSUME NEW d \in Deliveries, delivery[d] = "processed" PROVE Complete(d)'
    BY <1>1, <1>3, EventTypes DEF ProcessedIsComplete, Complete, PullRequestDone, Grows
  <1>4. ProcessedIsComplete'
    BY <1>3 DEF ProcessedIsComplete, Complete
  <1>5. KnownBeforeUsed'
    <2>1. jobs \subseteq Changes /\ active \in Changes \cup {None}
          /\ row.change \in Changes \cup {None}
      BY <1>1 DEF TypeOK, Row
    <2> QED
      BY <1>1, <2>1 DEF KnownBeforeUsed, Grows
  <1> QED
    BY <1>2, <1>4, <1>5 DEF Inv

-------------------------------------------------------------------------------
(* The invariant is inductive. *)

\* It holds before the app is installed.
LEMMA InvInit == Init => Inv
  <1> SUFFICES ASSUME Init PROVE Inv
    OBVIOUS
  <1>1. h \in [Processes -> Handler] /\ row \in Row /\ row.change = None
    BY IdleType, RowTypes DEF Init, NoRow
  <1>2. created \in [Changes -> 0..MaxTime] /\ deployed \in [Changes -> LegacyStatus]
    BY WebhookAssumption DEF Init, LegacyStatus
  <1>3. callback \in [was : ConnState, new : ConnState \ {"revoked"}]
    BY DEF Init, NoCallback, ConnState
  <1>4. TypeOK
    BY <1>1, <1>2, <1>3 DEF Init, TypeOK, ConnState, DeliveryStatus
  <1>5. HandlersKnow
    BY IdleType DEF Init, HandlersKnow, Knows, PullRequestPc
  <1>6. ProcessedIsComplete /\ KnownBeforeUsed
    BY <1>1 DEF Init, ProcessedIsComplete, KnownBeforeUsed
  <1> QED
    BY <1>4, <1>5, <1>6 DEF Inv

\* The user's requests keep it: they write only the link.
LEMMA InvUser == Inv /\ User => Inv'
  <1> SUFFICES ASSUME Inv, User PROVE Inv'
    OBVIOUS
  <1>t. TypeOK
    BY DEF Inv
  <1>1. UNCHANGED <<received, delivery, events, changeVars, row, h, history>>
    BY DEF User, CallbackRead, CallbackCommit, Sync, Disconnect
  <1>2. /\ conn' \in ConnState /\ selected' \in BOOLEAN /\ calls' \in Nat
        /\ callback' \in [was : ConnState, new : ConnState \ {"revoked"}]
    <2>1. /\ callback.new \in ConnState /\ conn \in ConnState /\ calls + 1 \in Nat
          /\ selected \in BOOLEAN /\ calls \in Nat
          /\ callback \in [was : ConnState, new : ConnState \ {"revoked"}]
      BY <1>t DEF TypeOK
    <2>2. CASE CallbackRead
      BY <2>1, <2>2 DEF CallbackRead, Called, ConnState
    <2>3. CASE CallbackCommit
      BY <2>1, <2>3 DEF CallbackCommit, NoCallback, ConnState
    <2>4. ASSUME NEW choice \in BOOLEAN, Sync(choice)
          PROVE  /\ conn' = conn /\ callback' = callback
                 /\ selected' \in BOOLEAN /\ calls' \in Nat
      BY <2>1, <2>4 DEF Sync, Called
    <2>5. CASE Disconnect
      BY <2>1, <2>5 DEF Disconnect, Called, ConnState
    <2> QED
      BY <2>1, <2>2, <2>3, <2>4, <2>5 DEF User
  <1>3. TypeOK'
    BY <1>t, <1>1, <1>2 DEF TypeOK, changeVars, history
  <1> QED
    BY <1>1, <1>3 DEF Inv, ProcessedIsComplete, KnownBeforeUsed, HandlersKnow, Knows,
         Kind, Change, PullRequestDone, changeVars, history

\* The arrival and the recording of a delivery keep it.
LEMMA InvArrival ==
    ASSUME Inv, NEW p \in Processes,
           (\E d \in Deliveries : Receive(p, d)) \/ RecordInstallation(p) \/ Record(p)
    PROVE  Inv'
  <1>t. TypeOK /\ Knows(p) /\ h[p] \in Handler
    BY DEF Inv, TypeOK, HandlersKnow
  <1>1. ASSUME NEW d \in Deliveries, Receive(p, d) PROVE Inv'
    <2>r. received + 1 \in Nat
      BY <1>t DEF TypeOK
    <2>1. /\ UNCHANGED <<link, delivery, events, changeVars, row, history>>
          /\ received' \in Nat
      BY <1>1, <2>r DEF Receive
    <2>2. CASE UNCHANGED h
      <3>1. TypeOK' /\ Grows /\ OthersStay(p)
        BY <2>1, <2>2, <1>t DEF TypeOK, link, changeVars, history, Grows, OthersStay
      <3>2. Knows(p)'
        BY <3>1, <2>2, <1>t, KnowsKept
      <3> QED
        BY <2>1, <3>1, <3>2, StepKeeps DEF changeVars
    <2>3. CASE h' # h
      <3> DEFINE r == [Idle EXCEPT !.pc = "record", !.d = d, !.seen = delivery[d],
                                   !.conn = conn, !.selected = selected]
      <3>1. r \in Handler /\ r.pc = "record" /\ r.d = d
        BY <1>t, IdleType DEF TypeOK, Handler, Pc
      <3>2. h' = [h EXCEPT ![p] = r]
        BY <1>1, <2>3 DEF Receive
      <3> HIDE DEF r
      <3>3. h' \in [Processes -> Handler] /\ OthersStay(p) /\ h'[p] = r
        BY <3>1, <3>2, <1>t DEF TypeOK, OthersStay
      <3>4. TypeOK' /\ Grows
        BY <2>1, <3>3, <1>t DEF TypeOK, link, changeVars, history, Grows
      <3>5. Knows(p)'
        BY <3>1, <3>3 DEF Knows, PullRequestPc
      <3> QED
        BY <2>1, <3>3, <3>4, <3>5, StepKeeps DEF changeVars
    <2> QED
      BY <2>2, <2>3
  <1>2. CASE RecordInstallation(p)
    <2>1. At(p, "record") /\ h[p].d \in Deliveries
      BY <1>2, <1>t DEF RecordInstallation, At, Knows
    <2>2. h' \in [Processes -> Handler] /\ OthersStay(p) /\ h'[p] = Idle
      BY <1>2, <1>t, DoneEffect DEF RecordInstallation
    <2>3. /\ conn' \in ConnState /\ delivery' \in [Deliveries -> DeliveryStatus]
          /\ \A d \in Deliveries : delivery'[d] = "processed" => delivery[d] = "processed"
      BY <1>2, <1>t, <2>1, EventTypes
         DEF RecordInstallation, TypeOK, DeliveryStatus
    <2>4. TypeOK' /\ Grows
      BY <1>2, <1>t, <2>2, <2>3 DEF RecordInstallation, TypeOK, changeVars, history, Grows
    <2>5. Knows(p)'
      BY <2>2, IdleKnows
    <2> QED
      BY <1>2, <2>2, <2>3, <2>4, <2>5, StepKeeps DEF RecordInstallation, changeVars
  <1>3. CASE Record(p)
    <2> DEFINE new == NewStatus(Kind(p), h[p].selected)
               next == After(Kind(p), h[p].selected)
    <2>1. At(p, "record") /\ h[p].d \in Deliveries
      BY <1>3, <1>t DEF Record, At, Knows
    <2>2. /\ new \in DeliveryStatus /\ new # "processed"
          /\ next \in {"mark", "event", "idle"} /\ next \in Pc
          /\ next = "mark" => Kind(p) = "pull_request"
          /\ next = "event" => Kind(p) # "pull_request"
      BY DEF NewStatus, After, DeliveryStatus, Pc
    <2>3. /\ delivery' \in [Deliveries -> DeliveryStatus]
          /\ \A d \in Deliveries : delivery'[d] = "processed" => delivery[d] = "processed"
      BY <1>3, <1>t, <2>1, <2>2 DEF Record, TypeOK
    <2>4. /\ h' \in [Processes -> Handler] /\ OthersStay(p)
          /\ h'[p] = Idle \/ (h'[p].pc = next /\ next # "idle" /\ h'[p].d = h[p].d)
      <3>1. CASE Done(p)
        BY <3>1, <1>t, DoneEffect
      <3>2. CASE next # "idle" /\ Goto(p, next)
        BY <3>2, <1>t, <2>2, GotoEffect
      <3>3. CASE next # "idle" /\ h' = [h EXCEPT ![p].pc = next, ![p].seen = new]
        <4> HIDE DEF next, new
        <4>1. [h[p] EXCEPT !.pc = next, !.seen = new] \in Handler
          BY <1>t, <2>2 DEF Handler
        <4>2. h' = [h EXCEPT ![p] = [h[p] EXCEPT !.pc = next, !.seen = new]]
          BY <3>3
        <4> QED
          BY <3>3, <4>1, <4>2, <1>t DEF TypeOK, OthersStay, Handler
      <3> QED
        BY <1>3, <3>1, <3>2, <3>3 DEF Record
    <2>5. TypeOK' /\ Grows
      BY <1>3, <1>t, <2>3, <2>4 DEF Record, TypeOK, link, changeVars, history, Grows
    <2>6. Knows(p)'
      <3>1. CASE h'[p] = Idle
        BY <3>1, IdleKnows
      <3>2. CASE h'[p].pc = next /\ next # "idle" /\ h'[p].d = h[p].d
        <4> HIDE DEF next
        <4> QED
          BY <3>2, <2>1, <2>2 DEF Knows, PullRequestPc, Kind
      <3> QED
        BY <2>4, <3>1, <3>2
    <2> QED
      BY <1>3, <2>3, <2>4, <2>5, <2>6, StepKeeps DEF Record, changeVars
  <1> QED
    BY <1>1, <1>2, <1>3

\* A handler that ends, whatever status other than processed it leaves, keeps it.
LEMMA InvEnds ==
    ASSUME Inv, NEW p \in Processes, Done(p),
           delivery' \in [Deliveries -> DeliveryStatus],
           \A d \in Deliveries : delivery'[d] = "processed"
               => delivery[d] = "processed" \/ Complete(d)',
           stopped' \subseteq Deliveries, jobs' \subseteq Changes, jobs \subseteq jobs',
           \A c \in jobs' : c \in jobs \/ created[c] # 0,
           UNCHANGED <<link, received, events, created, deployed, active, row, unwatched>>
    PROVE  Inv'
  <1>t. TypeOK
    BY DEF Inv
  <1>1. h' \in [Processes -> Handler] /\ OthersStay(p) /\ h'[p] = Idle
    BY <1>t, DoneEffect
  <1>2. TypeOK' /\ Grows
    BY <1>t, <1>1 DEF TypeOK, link, Grows
  <1>3. Knows(p)'
    BY <1>1, IdleKnows
  <1> QED
    BY <1>1, <1>2, <1>3, StepKeeps

\* A handler that moves on and writes neither the changes nor the deployment
\* keeps it if it knows what its new place says.
LEMMA InvMoves ==
    ASSUME Inv, NEW p \in Processes, NEW pc \in Pc, Goto(p, pc), Knows(p)',
           events' \subseteq Deliveries, events \subseteq events',
           unwatched' \subseteq Deliveries, unwatched \subseteq unwatched',
           UNCHANGED <<link, received, delivery, changeVars, row, stopped>>
    PROVE  Inv'
  <1>t. TypeOK
    BY DEF Inv
  <1>1. h' \in [Processes -> Handler] /\ OthersStay(p)
    BY <1>t, GotoEffect
  <1>2. TypeOK' /\ Grows
    BY <1>t, <1>1 DEF TypeOK, link, changeVars, Grows
  <1> QED
    BY <1>1, <1>2, StepKeeps DEF changeVars

\* The steps of the analysis of a pull request keep it.
LEMMA InvPullRequest ==
    ASSUME Inv, NEW p \in Processes, PullRequest(p) PROVE Inv'
  <1>t. TypeOK /\ Knows(p) /\ h[p] \in Handler
    BY DEF Inv, TypeOK, HandlersKnow
  <1>d. h[p].pc # "idle" => h[p].d \in Deliveries
    BY <1>t DEF Knows
  <1>k. h[p].pc \in PullRequestPc => Kind(p) = "pull_request" /\ Change(p) \in Changes
    BY <1>t, <1>d, EventTypes DEF Knows, PullRequestPc, Kind, Change
  <1>1. CASE Mark(p)
    <2>1. h[p].d \in Deliveries /\ Kind(p) = "pull_request"
      BY <1>1, <1>d, <1>k DEF Mark, At, PullRequestPc
    <2>2. /\ delivery' \in [Deliveries -> DeliveryStatus]
          /\ \A d \in Deliveries : delivery'[d] = "processed" => delivery[d] = "processed"
      BY <1>1, <1>t, <2>1 DEF Mark, TypeOK, DeliveryStatus
    <2> DEFINE r == [h[p] EXCEPT !.pc = "analyze", !.seen = "processing"]
    <2>3. r \in Handler /\ r.pc = "analyze" /\ r.d = h[p].d
      BY <1>t DEF Handler, Pc, DeliveryStatus
    <2>4. h' = [h EXCEPT ![p] = r]
      BY <1>1 DEF Mark
    <2> HIDE DEF r
    <2>5. h' \in [Processes -> Handler] /\ OthersStay(p) /\ h'[p] = r
      BY <2>3, <2>4, <1>t DEF TypeOK, OthersStay
    <2>6. TypeOK' /\ Grows
      BY <1>1, <1>t, <2>2, <2>5 DEF Mark, TypeOK, link, changeVars, history, Grows
    <2>7. Knows(p)'
      BY <2>1, <2>3, <2>5 DEF Knows, PullRequestPc, Kind
    <2> QED
      BY <1>1, <2>2, <2>5, <2>6, <2>7, StepKeeps DEF Mark, changeVars
  <1>2. CASE Analyze(p)
    <2> DEFINE pc == IF created[Change(p)] = 0 THEN "insert" ELSE "activate"
               r == [h[p] EXCEPT !.pc = pc, !.active = active]
    <2>1. h[p].d \in Deliveries /\ Kind(p) = "pull_request"
      BY <1>2, <1>d, <1>k DEF Analyze, At, PullRequestPc
    <2>2. pc \in {"insert", "activate"} /\ pc \in Pc
          /\ (pc = "activate" => created[Change(p)] # 0)
      BY DEF Pc
    <2>3. h' = [h EXCEPT ![p] = r]
      BY <1>2 DEF Analyze
    <2> HIDE DEF pc
    <2>4. r \in Handler /\ r.pc = pc /\ r.d = h[p].d
      BY <1>t, <2>2 DEF Handler, TypeOK
    <2> HIDE DEF r
    <2>5. h' \in [Processes -> Handler] /\ OthersStay(p) /\ h'[p] = r
      BY <2>3, <2>4, <1>t DEF TypeOK, OthersStay
    <2>6. TypeOK' /\ Grows
      BY <1>2, <1>t, <2>5 DEF Analyze, TypeOK, link, changeVars, history, Grows
    <2>7. Knows(p)'
      BY <1>2, <2>1, <2>2, <2>4, <2>5
         DEF Analyze, changeVars, Knows, PullRequestPc, Kind, Change
    <2> QED
      BY <1>2, <2>5, <2>6, <2>7, StepKeeps DEF Analyze, changeVars
  <1>3. ASSUME NEW now \in 1..MaxTime, InsertChange(p, now) PROVE Inv'
    <2>1. h[p].d \in Deliveries /\ Kind(p) = "pull_request" /\ Change(p) \in Changes
      BY <1>3, <1>d, <1>k DEF InsertChange, At, PullRequestPc
    <2>2. PICK pc \in {"fail", "activate"} :
             Goto(p, pc) /\ (pc = "activate" => created'[Change(p)] # 0)
      BY <1>3, <1>t, <2>1, WebhookAssumption DEF InsertChange, TypeOK
    <2>3. /\ h' \in [Processes -> Handler] /\ OthersStay(p)
          /\ h'[p].pc = pc /\ h'[p].d = h[p].d
      BY <2>2, <1>t, GotoEffect DEF Pc
    <2>4. /\ created' \in [Changes -> 0..MaxTime]
          /\ \A c \in Changes : created[c] # 0 => created'[c] # 0
      BY <1>3, <1>t, <2>1, WebhookAssumption DEF InsertChange, TypeOK
    <2>5. TypeOK' /\ Grows
      BY <1>3, <1>t, <2>3, <2>4 DEF InsertChange, TypeOK, link, history, Grows
    <2>6. Knows(p)'
      BY <2>1, <2>2, <2>3 DEF Knows, PullRequestPc, Kind, Change
    <2> QED
      BY <1>3, <2>3, <2>5, <2>6, StepKeeps DEF InsertChange
  <1>4. CASE Activate(p)
    <2>1. /\ h[p].d \in Deliveries /\ Kind(p) = "pull_request" /\ Change(p) \in Changes
          /\ created[Change(p)] # 0
      BY <1>4, <1>t, <1>d, <1>k DEF Activate, At, PullRequestPc, Knows
    <2>2. /\ h' \in [Processes -> Handler] /\ OthersStay(p)
          /\ h'[p].pc = "event" /\ h'[p].d = h[p].d
      BY <1>4, <1>t, GotoEffect DEF Activate, Pc
    <2>3. TypeOK' /\ Grows
      BY <1>4, <1>t, <2>1, <2>2 DEF Activate, TypeOK, link, history, Grows
    <2>4. Knows(p)'
      BY <1>4, <2>1, <2>2 DEF Activate, Knows, PullRequestPc, Kind, Change
    <2> QED
      BY <1>4, <2>1, <2>2, <2>3, <2>4, StepKeeps DEF Activate
  <1>5. CASE Enqueue(p)
    <2>1. /\ h[p].d \in Deliveries /\ Kind(p) = "pull_request" /\ Change(p) \in Changes
          /\ created[Change(p)] # 0 /\ h[p].d \in events
      BY <1>5, <1>t, <1>d, <1>k DEF Enqueue, At, PullRequestPc, Knows
    <2>2. PICK pc \in {"store", "finish"} :
             /\ Goto(p, pc)
             /\ pc = "finish" => Change(p) \in jobs' \/ h[p].d \in unwatched'
      BY <1>5 DEF Enqueue, changeVars
    <2>3. h'[p].pc = pc /\ h'[p].d = h[p].d
      BY <2>2, <1>t, GotoEffect DEF Pc
    <2>4. Knows(p)'
      BY <1>5, <2>1, <2>2, <2>3
         DEF Enqueue, changeVars, Knows, PullRequestPc, PullRequestDone, Kind, Change
    <2>5. unwatched' \subseteq Deliveries /\ unwatched \subseteq unwatched'
      BY <1>5, <1>t, <2>1 DEF Enqueue, TypeOK
    <2>6. /\ events' = events /\ events \subseteq Deliveries /\ pc \in Pc
          /\ UNCHANGED <<link, received, delivery, changeVars, row, stopped>>
      BY <1>5, <1>t DEF Enqueue, TypeOK, Pc
    <2> QED
      BY <2>2, <2>4, <2>5, <2>6, InvMoves
  <1>6. CASE Store(p)
    <2>1. /\ h[p].d \in Deliveries /\ Kind(p) = "pull_request" /\ Change(p) \in Changes
          /\ created[Change(p)] # 0 /\ h[p].d \in events
      BY <1>6, <1>t, <1>d, <1>k DEF Store, At, PullRequestPc, Knows
    <2>2. CASE Change(p) \in jobs
      <3>1. /\ Goto(p, "fail") /\ "fail" \in Pc
            /\ UNCHANGED <<link, received, delivery, events, changeVars, row, history>>
        BY <1>6, <2>2 DEF Store, changeVars, Pc
      <3>2. h'[p].pc = "fail" /\ h'[p].d = h[p].d
        BY <3>1, <1>t, GotoEffect
      <3>3. Knows(p)'
        BY <2>1, <3>2 DEF Knows, PullRequestPc, Kind
      <3> QED
        BY <1>t, <3>1, <3>3, InvMoves DEF TypeOK, history
    <2>3. CASE Change(p) \notin jobs
      <3>1. /\ Done(p) /\ jobs' = jobs \cup {Change(p)}
            /\ delivery' = [delivery EXCEPT ![h[p].d] = "processed"]
            /\ UNCHANGED <<link, received, events, created, deployed, active, row, history>>
        BY <1>6, <2>3 DEF Store
      <3> PICK e \in Deliveries : e = h[p].d
        BY <2>1
      <3>2. Complete(e)'
        BY <2>1, <3>1 DEF Complete, PullRequestDone, Kind, Change, history
      <3>3. /\ delivery' \in [Deliveries -> DeliveryStatus]
            /\ \A d \in Deliveries \ {e} : delivery'[d] = delivery[d]
        BY <1>t, <2>1, <3>1 DEF TypeOK, DeliveryStatus
      <3>4. \A d \in Deliveries : delivery'[d] = "processed"
               => delivery[d] = "processed" \/ Complete(d)'
        BY <3>2, <3>3
      <3>5. /\ jobs' \subseteq Changes /\ jobs \subseteq jobs' /\ stopped' \subseteq Deliveries
            /\ \A c \in jobs' : c \in jobs \/ created[c] # 0
        BY <1>t, <2>1, <3>1 DEF TypeOK, history
      <3> QED
        BY <3>1, <3>3, <3>4, <3>5, InvEnds DEF history
    <2> QED
      BY <2>2, <2>3
  <1>7. CASE Throw(p)
    <2>1. h[p].d \in Deliveries /\ Kind(p) = "pull_request"
      BY <1>7, <1>d, <1>k DEF Throw, InTry, PullRequestPc
    <2>2. /\ Goto(p, "fail") /\ "fail" \in Pc
          /\ UNCHANGED <<link, received, delivery, events, changeVars, row, history>>
      BY <1>7 DEF Throw, Pc
    <2>3. h'[p].pc = "fail" /\ h'[p].d = h[p].d
      BY <2>2, <1>t, GotoEffect
    <2>4. Knows(p)'
      BY <2>1, <2>3 DEF Knows, PullRequestPc, Kind
    <2> QED
      BY <1>t, <2>2, <2>4, InvMoves DEF TypeOK, history
  <1>8. CASE Fail(p)
    <2>1. h[p].d \in Deliveries
      BY <1>8, <1>d DEF Fail, At
    <2>2. /\ delivery' \in [Deliveries -> DeliveryStatus]
          /\ \A d \in Deliveries : delivery'[d] = "processed" => delivery[d] = "processed"
      BY <1>8, <1>t, <2>1 DEF Fail, TypeOK, DeliveryStatus
    <2> QED
      BY <1>8, <1>t, <2>2, InvEnds DEF Fail, TypeOK, changeVars, history
  <1> QED
    BY <1>1, <1>2, <1>3, <1>4, <1>5, <1>6, <1>7, <1>8 DEF PullRequest

\* The event ledger, the deployment's upsert and the end of a handler keep it.
LEMMA InvEvent ==
    ASSUME Inv, NEW p \in Processes,
           RecordEvent(p) \/ Deployment(p) \/ Finish(p) \/ Stop(p)
    PROVE  Inv'
  <1>t. TypeOK /\ Knows(p) /\ KnownBeforeUsed /\ h[p] \in Handler
    BY DEF Inv, TypeOK, HandlersKnow
  <1>d. h[p].pc # "idle" => h[p].d \in Deliveries
    BY <1>t DEF Knows
  <1>r. row \in Row /\ row.change \in Changes \cup {None} /\ row.version \in Nat
    BY <1>t DEF TypeOK, Row
  <1>1. CASE RecordEvent(p)
    <2> DEFINE pc == CASE Kind(p) = "pull_request" -> "enqueue"
                       [] Kind(p) = "deployment" -> "upsert"
                       [] OTHER -> "finish"
    <2>1. h[p].d \in Deliveries /\ (Kind(p) = "pull_request" => created[Change(p)] # 0)
      BY <1>1, <1>t, <1>d DEF RecordEvent, At, Knows
    <2>2. /\ pc \in Pc
          /\ pc \in {"enqueue", "upsert", "finish"}
          /\ pc = "enqueue" => Kind(p) = "pull_request"
          /\ pc = "upsert" => Kind(p) = "deployment"
          /\ pc = "finish" => Kind(p) \notin {"pull_request", "deployment"}
      BY DEF Pc
    <2>3. Goto(p, pc)
      BY <1>1 DEF RecordEvent
    <2> HIDE DEF pc
    <2>4. h'[p].pc = pc /\ h'[p].d = h[p].d
      BY <2>2, <2>3, <1>t, GotoEffect
    <2>5. Knows(p)'
      BY <1>1, <2>1, <2>2, <2>4
         DEF RecordEvent, changeVars, Knows, PullRequestPc, Kind, Change
    <2>6. /\ events' \subseteq Deliveries /\ events \subseteq events'
          /\ unwatched' = unwatched /\ unwatched \subseteq Deliveries
          /\ UNCHANGED <<link, received, delivery, changeVars, row, stopped>>
      BY <1>1, <1>t, <2>1 DEF RecordEvent, TypeOK, history
    <2> QED
      BY <2>2, <2>3, <2>5, <2>6, InvMoves
  <1>2. ASSUME NEW c \in Matching \cup {None}, UpsertRead(p, c) PROVE Inv'
    <2> DEFINE pc == IF Outdated(row, h[p].d) THEN "finish" ELSE "write"
               was == IF c = None THEN "not_deployed" ELSE deployed[c]
               r == [h[p] EXCEPT !.pc = pc, !.row = row, !.match = c, !.was = was]
    <2>1. h[p].d \in Deliveries /\ Kind(p) = "deployment" /\ h[p].d \in events
      BY <1>2, <1>t, <1>d DEF UpsertRead, At, Knows
    <2>2. /\ pc \in {"finish", "write"} /\ pc \in Pc
          /\ pc = "finish" => row.version # 0
      BY DEF Pc, Outdated
    <2>3. c \in Changes \cup {None} /\ was \in LegacyStatus
      BY <1>t, WebhookAssumption DEF TypeOK, LegacyStatus
    <2>4. c # None => created[c] # 0
      <3>1. c # None => c \in Eligible(Event[h[p].d].at)
        BY <1>2 DEF UpsertRead, Latest
      <3> QED
        BY <3>1 DEF Eligible
    <2>5. h' = [h EXCEPT ![p] = r]
      BY <1>2 DEF UpsertRead
    <2> HIDE DEF pc, was
    <2>6. r \in Handler /\ r.pc = pc /\ r.d = h[p].d /\ r.match = c /\ r.row = row
      BY <1>t, <1>r, <2>2, <2>3 DEF Handler
    <2> HIDE DEF r
    <2>7. h' \in [Processes -> Handler] /\ OthersStay(p) /\ h'[p] = r
      BY <2>5, <2>6, <1>t DEF TypeOK, OthersStay
    <2>8. TypeOK' /\ Grows
      BY <1>2, <1>t, <2>7 DEF UpsertRead, TypeOK, link, changeVars, history, Grows
    <2>9. Knows(p)'
      <3>1. h'[p].pc = pc /\ h'[p].d = h[p].d /\ h'[p].match = c /\ h'[p].row = row
        BY <2>6, <2>7
      <3>2. row' = row /\ created' = created /\ events' = events
        BY <1>2 DEF UpsertRead, changeVars
      <3>3. row.change # None => created[row.change] # 0
        BY <1>t DEF KnownBeforeUsed
      <3> QED
        BY <2>1, <2>2, <2>4, <3>1, <3>2, <3>3 DEF Knows, PullRequestPc, Kind
    <2> QED
      BY <1>2, <2>7, <2>8, <2>9, StepKeeps DEF UpsertRead, changeVars
  <1>3. CASE UpsertWrite(p)
    <2> DEFINE copy == h[p].row
               new == Updated(copy, h[p].d, h[p].match)
    <2>1. /\ h[p].d \in Deliveries /\ Kind(p) = "deployment" /\ h[p].d \in events
          /\ \A c \in {h[p].match, copy.change} : c # None => created[c] # 0
      BY <1>3, <1>t, <1>d DEF UpsertWrite, At, Knows
    <2>2. copy \in Row /\ h[p].match \in Changes \cup {None}
      BY <1>t DEF Handler
    <2>3. copy.version \in Nat
      BY <2>2 DEF Row
    <2>4. new \in Row /\ Flushed(copy, new) \in Row
      BY <1>r, <2>1, <2>2, RowTypes
    <2>5. /\ new.version = copy.version + 1
          /\ new.change \in {h[p].match, copy.change}
          /\ new.change = None \/ created[new.change] # 0
      BY <2>1 DEF Updated
    <2>6. /\ Flushed(copy, new).version # 0
          /\ Flushed(copy, new).change \in {new.change, row.change}
      BY <2>3, <2>5 DEF Flushed, Column
    <2>7. deployed' \in [Changes -> LegacyStatus]
      <3>1. Legacy(Normalized(Event[h[p].d].state)) \in LegacyStatus
        BY <2>1, EventTypes, LegacyType
      <3>2. deployed \in [Changes -> LegacyStatus] /\ deployed' \in {deployed, Deployed(p)}
        BY <1>3, <1>t DEF UpsertWrite, TypeOK
      <3> QED
        BY <2>2, <3>1, <3>2 DEF Deployed
    <2>8. CASE copy.version = 0 /\ row.version # 0
      <3>1. Goto(p, "upsert") /\ row' = row /\ "upsert" \in Pc
        BY <1>3, <2>8 DEF UpsertWrite, Pc
      <3>2. /\ h' \in [Processes -> Handler] /\ OthersStay(p)
            /\ h'[p].pc = "upsert" /\ h'[p].d = h[p].d
        BY <3>1, <1>t, GotoEffect
      <3>3. TypeOK' /\ Grows
        BY <1>3, <1>t, <2>7, <3>1, <3>2 DEF UpsertWrite, TypeOK, link, history, Grows
      <3>4. Knows(p)'
        BY <1>3, <2>1, <3>2 DEF UpsertWrite, Knows, PullRequestPc, Kind
      <3> QED
        BY <1>3, <3>1, <3>2, <3>3, <3>4, StepKeeps DEF UpsertWrite
    <2>9. CASE ~(copy.version = 0 /\ row.version # 0)
      <3>1. /\ Goto(p, "finish") /\ "finish" \in Pc
            /\ row' \in {new, Flushed(copy, new)}
        BY <1>3, <2>9 DEF UpsertWrite, Pc
      <3>2. /\ row' \in Row /\ row'.version # 0
            /\ row'.change \in {new.change, row.change}
        BY <2>3, <2>4, <2>5, <2>6, <3>1
      <3>3. /\ h' \in [Processes -> Handler] /\ OthersStay(p)
            /\ h'[p].pc = "finish" /\ h'[p].d = h[p].d
        BY <3>1, <1>t, GotoEffect
      <3>4. TypeOK' /\ Grows
        BY <1>3, <1>t, <2>7, <3>2, <3>3 DEF UpsertWrite, TypeOK, link, history, Grows
      <3>5. Knows(p)'
        BY <1>3, <2>1, <3>2, <3>3 DEF UpsertWrite, Knows, PullRequestPc, Kind
      <3>6. \A c \in jobs' \cup {active', row'.change} : c # None =>
               c \in jobs \cup {active, row.change} \/ created'[c] # 0
        BY <1>3, <2>5, <3>2 DEF UpsertWrite
      <3> QED
        BY <1>3, <3>3, <3>4, <3>5, <3>6, StepKeeps DEF UpsertWrite
    <2> QED
      BY <2>8, <2>9
  <1>4. CASE Finish(p)
    <2>1. h[p].d \in Deliveries
      BY <1>4, <1>d DEF Finish, At
    <2> PICK e \in Deliveries : e = h[p].d
      BY <2>1
    <2>2. Complete(e)
      BY <1>4, <1>t DEF Finish, At, Knows, Complete, Kind
    <2>3. Complete(e)'
      BY <1>4, <2>2 DEF Finish, Complete, PullRequestDone, changeVars, history
    <2>4. /\ delivery' \in [Deliveries -> DeliveryStatus]
          /\ \A d \in Deliveries \ {e} : delivery'[d] = delivery[d]
      BY <1>4, <1>t DEF Finish, TypeOK, DeliveryStatus
    <2>5. \A d \in Deliveries : delivery'[d] = "processed"
             => delivery[d] = "processed" \/ Complete(d)'
      BY <2>3, <2>4
    <2> QED
      BY <1>4, <1>t, <2>4, <2>5, InvEnds DEF Finish, TypeOK, changeVars, history
  <1>5. CASE Stop(p)
    <2>1. stopped' \subseteq Deliveries
      BY <1>5, <1>t, <1>d DEF Stop, At, TypeOK
    <2> QED
      BY <1>5, <1>t, <2>1, InvEnds DEF Stop, TypeOK, changeVars
  <1> QED
    BY <1>1, <1>2, <1>3, <1>4, <1>5 DEF Deployment

\* Every step keeps it.
LEMMA InvStep == Inv /\ [Next]_vars => Inv'
  <1> SUFFICES ASSUME Inv, [Next]_vars PROVE Inv'
    OBVIOUS
  <1>1. ASSUME NEW p \in Processes, Handle(p) PROVE Inv'
    BY <1>1, InvArrival, InvPullRequest, InvEvent DEF Handle
  <1>2. CASE UNCHANGED vars
    BY <1>2 DEF vars, link, changeVars, history, Inv, TypeOK, ProcessedIsComplete,
         KnownBeforeUsed, HandlersKnow, Knows, Kind, Change, PullRequestDone
  <1> QED
    BY <1>1, <1>2, InvUser DEF Next

-------------------------------------------------------------------------------
(* Theorems *)

\* The handlers, the link and the rows keep their types.
THEOREM WebhookTypeCorrect == Spec => []TypeOK
  <1>1. Inv => TypeOK
    BY DEF Inv
  <1> QED
    BY <1>1, InvInit, InvStep, PTL DEF Spec

\* A delivery that is marked processed has had its whole effect, for any number
\* of API processes, deliveries, redeliveries, exceptions and crashes.
THEOREM ProcessedHasCompleted == Spec => []ProcessedIsComplete
  <1>1. Inv => ProcessedIsComplete
    BY DEF Inv
  <1> QED
    BY <1>1, InvInit, InvStep, PTL DEF Spec

\* The scenario, the outbox and the deployment name analysed changes only.
THEOREM UsedIsKnown == Spec => []KnownBeforeUsed
  <1>1. Inv => KnownBeforeUsed
    BY DEF Inv
  <1> QED
    BY <1>1, InvInit, InvStep, PTL DEF Spec

-------------------------------------------------------------------------------
(* Who works on a delivery, and who may connect the installation. *)

\* The handler of p has recorded its delivery and goes on
Working(p) == h[p].pc \notin {"idle", "record"}

OwnInv ==
    /\ \A p \in Processes : Working(p) => Kind(p) # "installation"
    /\ \A d \in Deliveries : delivery[d] = "processing" =>
         d \in stopped \/ \E p \in Processes : Working(p) /\ h[p].d = d
    /\ ConnectedIsVerified

\* A step of one process keeps this if a delivery it leaves processing has an
\* owner, and if it unsigns no installation.
LEMMA OwnStep ==
    ASSUME OwnInv, NEW p \in Processes, OthersStay(p), stopped \subseteq stopped',
           Working(p)' => Kind(p)' # "installation",
           \A d \in Deliveries : delivery'[d] = "processing" =>
             \/ d \in stopped'
             \/ Working(p)' /\ h'[p].d = d
             \/ delivery[d] = "processing" /\ ~(Working(p) /\ h[p].d = d),
           Verified \subseteq Verified',
           "connected" \in {conn', callback'.new} =>
             "connected" \in {conn, callback.new} \/ Verified' # {}
    PROVE  OwnInv'
  <1>1. \A q \in Processes \ {p} : h'[q] = h[q]
    BY DEF OthersStay
  <1>2. \A q \in Processes : Working(q)' => Kind(q)' # "installation"
    BY <1>1 DEF OwnInv, Working, Kind
  <1>3. \A d \in Deliveries : delivery'[d] = "processing" =>
          d \in stopped' \/ \E q \in Processes : Working(q)' /\ h'[q].d = d
    BY <1>1 DEF OwnInv, Working
  <1>4. ConnectedIsVerified'
    BY DEF OwnInv, ConnectedIsVerified
  <1> QED
    BY <1>2, <1>3, <1>4 DEF OwnInv

\* A handler that works on a delivery writes the status of no other, and its
\* delivery is no installation.
LEMMA WorkingKeepsSigned ==
    ASSUME OwnInv, NEW p \in Processes, Working(p),
           \A d \in Deliveries : d # h[p].d => delivery'[d] = delivery[d]
    PROVE  Verified \subseteq Verified'
  BY DEF OwnInv, Verified, Installations, Kind

\* A handler that moves on still owns its delivery.
LEMMA OwnMoves ==
    ASSUME OwnInv, NEW p \in Processes, OthersStay(p), Working(p),
           h'[p].pc \notin {"idle", "record"}, h'[p].d = h[p].d,
           stopped' = stopped, conn' = conn, callback' = callback,
           \A d \in Deliveries : d # h[p].d => delivery'[d] = delivery[d]
    PROVE  OwnInv'
  <1>1. Verified \subseteq Verified'
    BY WorkingKeepsSigned
  <1>2. Working(p)' /\ Kind(p)' # "installation"
    BY DEF OwnInv, Working, Kind
  <1>3. \A d \in Deliveries : delivery'[d] = "processing" =>
          \/ Working(p)' /\ h'[p].d = d
          \/ delivery[d] = "processing" /\ ~(Working(p) /\ h[p].d = d)
    BY <1>2
  <1> QED
    BY <1>1, <1>2, <1>3, OwnStep

\* A handler that ends has answered for its delivery, or was stopped.
LEMMA OwnEnds ==
    ASSUME OwnInv, NEW p \in Processes, OthersStay(p), Working(p), h'[p] = Idle,
           stopped \subseteq stopped', conn' = conn, callback' = callback,
           \A d \in Deliveries : d # h[p].d => delivery'[d] = delivery[d],
           h[p].d \in stopped' \/ delivery'[h[p].d] # "processing"
    PROVE  OwnInv'
  <1>1. Verified \subseteq Verified'
    BY WorkingKeepsSigned
  <1>2. ~(Working(p)')
    BY IdleType DEF Working
  <1>3. \A d \in Deliveries : delivery'[d] = "processing" =>
          \/ d \in stopped'
          \/ delivery[d] = "processing" /\ ~(Working(p) /\ h[p].d = d)
    OBVIOUS
  <1> QED
    BY <1>1, <1>2, <1>3, OwnStep

\* The arrival and the recording of a delivery keep it: the one who records it
\* owns it, and an installation is signed in the commit that connects it.
LEMMA OwnArrival ==
    ASSUME Inv, OwnInv, NEW p \in Processes,
           (\E d \in Deliveries : Receive(p, d)) \/ RecordInstallation(p) \/ Record(p)
    PROVE  OwnInv'
  <1>t. TypeOK /\ Knows(p) /\ h[p] \in Handler
    BY DEF Inv, TypeOK, HandlersKnow
  <1>1. ASSUME NEW d \in Deliveries, Receive(p, d) PROVE OwnInv'
    <2>1. /\ conn' = conn /\ callback' = callback /\ delivery' = delivery
          /\ stopped' = stopped /\ h[p].pc = "idle"
      BY <1>1 DEF Receive, At, link, history
    <2>2. OthersStay(p) /\ h'[p].pc \in {"idle", "record"}
      <3>1. CASE UNCHANGED h
        BY <2>1, <3>1 DEF OthersStay
      <3>2. CASE h' # h
        <4>1. h' = [h EXCEPT ![p] = [Idle EXCEPT !.pc = "record", !.d = d,
                     !.seen = delivery[d], !.conn = conn, !.selected = selected]]
          BY <1>1, <3>2 DEF Receive
        <4>2. [Idle EXCEPT !.pc = "record", !.d = d, !.seen = delivery[d],
                           !.conn = conn, !.selected = selected].pc = "record"
          BY DEF Idle
        <4> QED
          BY <4>1, <4>2, <1>t DEF TypeOK, OthersStay
      <3> QED
        BY <3>1, <3>2
    <2>3. ~Working(p) /\ ~(Working(p)') /\ Verified' = Verified
      BY <2>1, <2>2 DEF Working, Verified
    <2> QED
      BY <2>1, <2>2, <2>3, OwnStep
  <1>2. CASE RecordInstallation(p)
    <2> DEFINE d == h[p].d
               new == InstallationState(Event[d].state)
    <2>1. /\ h[p].pc = "record" /\ d \in Deliveries /\ Event[d].kind = "installation"
          /\ stopped' = stopped /\ callback' = callback
      BY <1>2, <1>t DEF RecordInstallation, At, Knows, Kind, history
    <2>2. OthersStay(p) /\ h'[p] = Idle
      BY <1>2, <1>t, DoneEffect DEF RecordInstallation
    <2>3. ~Working(p) /\ ~(Working(p)')
      BY <2>1, <2>2, IdleType DEF Working
    <2>4. CASE delivery[d] # "absent"
      <3>1. conn' = conn /\ delivery' = delivery
        BY <1>2, <2>4 DEF RecordInstallation
      <3>2. Verified' = Verified
        BY <3>1 DEF Verified
      <3> QED
        BY <2>1, <2>2, <2>3, <3>1, <3>2, OwnStep
    <2>5. CASE delivery[d] = "absent"
      <3>1. delivery' = [delivery EXCEPT ![d] =
                           IF h[p].conn = "absent" THEN "verified_unmapped" ELSE "verified"]
        BY <1>2, <2>5 DEF RecordInstallation
      <3>2. /\ delivery'[d] \in {"verified_unmapped", "verified"}
            /\ \A e \in Deliveries : e # d => delivery'[e] = delivery[e]
        BY <3>1, <2>1, <1>t DEF TypeOK
      <3>3. d \in Verified' /\ Verified \subseteq Verified'
        BY <2>1, <3>2 DEF Verified, Installations
      <3>4. \A e \in Deliveries : delivery'[e] = "processing" => delivery[e] = "processing"
        BY <3>2
      <3> QED
        BY <2>1, <2>2, <2>3, <3>3, <3>4, OwnStep
    <2> QED
      BY <2>4, <2>5
  <1>3. CASE Record(p)
    <2> DEFINE d == h[p].d
               new == NewStatus(Kind(p), h[p].selected)
               next == After(Kind(p), h[p].selected)
    <2>1. /\ h[p].pc = "record" /\ d \in Deliveries /\ Kind(p) # "installation"
          /\ stopped' = stopped /\ conn' = conn /\ callback' = callback
      BY <1>3, <1>t DEF Record, At, Knows, link, history
    <2>2. next \in {"mark", "event", "idle"} /\ (next = "idle" => new # "processing")
      <3>1. Kind(p) \in Kinds
        BY <2>1, WebhookAssumption DEF Kind
      <3> QED
        BY <2>1, <3>1 DEF NewStatus, After, Kinds
    <2>3. ~Working(p)
      BY <2>1 DEF Working
    <2>4. /\ OthersStay(p)
          /\ h'[p] = Idle \/ (h'[p].pc = next /\ next # "idle" /\ h'[p].d = d)
      <3>1. CASE Done(p)
        BY <3>1, <1>t, DoneEffect
      <3>2. CASE next # "idle" /\ Goto(p, next)
        <4>1. next \in Pc
          BY <2>2 DEF Pc
        <4> QED
          BY <3>2, <4>1, <1>t, GotoEffect
      <3>3. CASE next # "idle" /\ h' = [h EXCEPT ![p].pc = next, ![p].seen = new]
        BY <3>3, <1>t DEF TypeOK, OthersStay, Handler
      <3> QED
        BY <1>3, <3>1, <3>2, <3>3 DEF Record
    <2>5. \/ delivery' = delivery
          \/ /\ delivery[d] = "absent" /\ delivery' = [delivery EXCEPT ![d] = new]
             /\ next = "idle" \/ (h'[p].pc = next /\ h'[p].d = d)
      BY <1>3, <1>t, IdleType DEF Record, TypeOK, Handler
    <2> HIDE DEF new, next
    <2>6. Working(p)' => Kind(p)' # "installation"
      BY <2>1, <2>4, IdleType DEF Working, Kind
    <2>7. Verified \subseteq Verified'
      BY <2>1, <2>5, <1>t DEF Verified, Installations, TypeOK, Kind
    <2>8. \A e \in Deliveries : delivery'[e] = "processing" =>
            \/ Working(p)' /\ h'[p].d = e
            \/ delivery[e] = "processing"
      BY <2>1, <2>2, <2>5, <1>t DEF Working, TypeOK
    <2> QED
      BY <2>1, <2>3, <2>4, <2>6, <2>7, <2>8, OwnStep
  <1> QED
    BY <1>1, <1>2, <1>3

\* The handling of a pull request, of an event and of a deployment keep it.
LEMMA OwnHandles ==
    ASSUME Inv, OwnInv, NEW p \in Processes,
           PullRequest(p) \/ RecordEvent(p) \/ Deployment(p) \/ Finish(p) \/ Stop(p)
    PROVE  OwnInv'
  <1>t. TypeOK /\ Knows(p) /\ h[p] \in Handler
    BY DEF Inv, TypeOK, HandlersKnow
  <1>g. ASSUME NEW pc \in Pc \ {"idle", "record"}, Goto(p, pc), Working(p),
               stopped' = stopped, conn' = conn, callback' = callback,
               delivery' = delivery
        PROVE  OwnInv'
    <2>1. OthersStay(p) /\ h'[p].pc = pc /\ h'[p].d = h[p].d
      BY <1>g, <1>t, GotoEffect
    <2> QED
      BY <1>g, <2>1, OwnMoves
  <1>e. ASSUME Done(p), Working(p), stopped' = stopped, conn' = conn,
               callback' = callback,
               NEW s \in {"processed", "failed"},
               delivery' = [delivery EXCEPT ![h[p].d] = s]
        PROVE  OwnInv'
    <2>1. OthersStay(p) /\ h'[p] = Idle
      BY <1>e, <1>t, DoneEffect
    <2>2. h[p].d \in Deliveries
      BY <1>e, <1>t DEF Working, Knows
    <2>3. /\ \A d \in Deliveries : d # h[p].d => delivery'[d] = delivery[d]
          /\ delivery'[h[p].d] # "processing"
      BY <1>e, <2>2, <1>t DEF TypeOK
    <2> QED
      BY <1>e, <2>1, <2>3, OwnEnds
  <1>1. CASE Mark(p)
    <2>1. /\ h' = [h EXCEPT ![p].pc = "analyze", ![p].seen = "processing"]
          /\ Working(p) /\ stopped' = stopped /\ conn' = conn /\ callback' = callback
          /\ \/ delivery' = delivery
             \/ delivery' = [delivery EXCEPT ![h[p].d] = "processing"]
      BY <1>1 DEF Mark, At, Working, link, history
    <2>2. OthersStay(p) /\ h'[p].pc = "analyze" /\ h'[p].d = h[p].d
      BY <2>1, <1>t DEF TypeOK, OthersStay, Handler
    <2>3. \A d \in Deliveries : d # h[p].d => delivery'[d] = delivery[d]
      BY <2>1, <1>t DEF TypeOK
    <2> QED
      BY <2>1, <2>2, <2>3, OwnMoves
  <1>2. CASE Analyze(p)
    <2>1. /\ Working(p) /\ stopped' = stopped /\ conn' = conn /\ callback' = callback
          /\ delivery' = delivery
      BY <1>2 DEF Analyze, At, Working, link, history
    <2>2. /\ OthersStay(p) /\ h'[p].pc \in {"insert", "activate"}
          /\ h'[p].d = h[p].d
      BY <1>2, <1>t DEF Analyze, TypeOK, OthersStay, Handler
    <2> QED
      BY <2>1, <2>2, OwnMoves
  <1>3. ASSUME NEW now \in 1..MaxTime, InsertChange(p, now) PROVE OwnInv'
    <2>1. /\ Working(p) /\ stopped' = stopped /\ conn' = conn /\ callback' = callback
          /\ delivery' = delivery /\ (Goto(p, "fail") \/ Goto(p, "activate"))
      BY <1>3 DEF InsertChange, At, Working, link, history
    <2> QED
      BY <2>1, <1>g DEF Pc
  <1>4. CASE Activate(p)
    <2>1. /\ Working(p) /\ stopped' = stopped /\ conn' = conn /\ callback' = callback
          /\ delivery' = delivery /\ Goto(p, "event")
      BY <1>4 DEF Activate, At, Working, link, history
    <2> QED
      BY <2>1, <1>g DEF Pc
  <1>5. CASE Enqueue(p)
    <2>1. /\ Working(p) /\ stopped' = stopped /\ conn' = conn /\ callback' = callback
          /\ delivery' = delivery /\ (Goto(p, "store") \/ Goto(p, "finish"))
      BY <1>5 DEF Enqueue, At, Working, link
    <2> QED
      BY <2>1, <1>g DEF Pc
  <1>6. CASE Store(p)
    <2>1. /\ Working(p) /\ stopped' = stopped /\ conn' = conn /\ callback' = callback
          /\ \/ Goto(p, "fail") /\ delivery' = delivery
             \/ Done(p) /\ delivery' = [delivery EXCEPT ![h[p].d] = "processed"]
      BY <1>6 DEF Store, At, Working, link, history
    <2> QED
      BY <2>1, <1>g, <1>e DEF Pc
  <1>7. CASE Throw(p)
    <2>1. /\ Working(p) /\ stopped' = stopped /\ conn' = conn /\ callback' = callback
          /\ delivery' = delivery /\ Goto(p, "fail")
      BY <1>7 DEF Throw, InTry, Working, link, history
    <2> QED
      BY <2>1, <1>g DEF Pc
  <1>8. CASE Fail(p)
    <2>1. /\ Working(p) /\ stopped' = stopped /\ conn' = conn /\ callback' = callback
          /\ Done(p) /\ delivery' = [delivery EXCEPT ![h[p].d] = "failed"]
      BY <1>8 DEF Fail, At, Working, link, history
    <2> QED
      BY <2>1, <1>e
  <1>9. CASE RecordEvent(p)
    <2>1. /\ Working(p) /\ stopped' = stopped /\ conn' = conn /\ callback' = callback
          /\ delivery' = delivery
          /\ \E pc \in {"enqueue", "upsert", "finish"} : Goto(p, pc)
      BY <1>9 DEF RecordEvent, At, Working, link, history
    <2> QED
      BY <2>1, <1>g DEF Pc
  <1>10. ASSUME NEW c \in Matching \cup {None}, UpsertRead(p, c) PROVE OwnInv'
    <2>1. /\ Working(p) /\ stopped' = stopped /\ conn' = conn /\ callback' = callback
          /\ delivery' = delivery
      BY <1>10 DEF UpsertRead, At, Working, link, history
    <2>2. /\ OthersStay(p) /\ h'[p].pc \in {"finish", "write"}
          /\ h'[p].d = h[p].d
      BY <1>10, <1>t DEF UpsertRead, TypeOK, OthersStay, Handler
    <2> QED
      BY <2>1, <2>2, OwnMoves
  <1>11. CASE UpsertWrite(p)
    <2>1. /\ Working(p) /\ stopped' = stopped /\ conn' = conn /\ callback' = callback
          /\ delivery' = delivery /\ (Goto(p, "upsert") \/ Goto(p, "finish"))
      BY <1>11 DEF UpsertWrite, At, Working, link, history
    <2> QED
      BY <2>1, <1>g DEF Pc
  <1>12. CASE Finish(p)
    <2>1. /\ Working(p) /\ stopped' = stopped /\ conn' = conn /\ callback' = callback
          /\ Done(p) /\ delivery' = [delivery EXCEPT ![h[p].d] = "processed"]
      BY <1>12 DEF Finish, At, Working, link, history
    <2> QED
      BY <2>1, <1>e
  <1>13. CASE Stop(p)
    <2>1. /\ stopped' = stopped \cup {h[p].d} /\ conn' = conn /\ callback' = callback
          /\ Done(p) /\ delivery' = delivery
      BY <1>13 DEF Stop, link
    <2>2. OthersStay(p) /\ h'[p] = Idle
      BY <2>1, <1>t, DoneEffect
    <2>3. CASE Working(p)
      BY <2>1, <2>2, <2>3, OwnEnds
    <2>4. CASE ~Working(p)
      <3>1. ~(Working(p)') /\ Verified' = Verified
        BY <2>1, <2>2, IdleType DEF Working, Verified
      <3> QED
        BY <2>1, <2>2, <2>4, <3>1, OwnStep
    <2> QED
      BY <2>3, <2>4
  <1> QED
    BY <1>1, <1>2, <1>3, <1>4, <1>5, <1>6, <1>7, <1>8, <1>9, <1>10, <1>11, <1>12, <1>13
    DEF PullRequest, Deployment

\* The callback believes a signed event only.
LEMMA OwnUser == ASSUME Inv, OwnInv, User PROVE OwnInv'
  <1>1. h' = h /\ delivery' = delivery /\ stopped' = stopped
    BY DEF User, CallbackRead, CallbackCommit, Sync, Disconnect, history
  <1>2. Verified' = Verified
    BY <1>1 DEF Verified
  <1>3. ConnectedIsVerified'
    <2>1. CASE CallbackRead
      BY <1>2, <2>1 DEF CallbackRead, OwnInv, ConnectedIsVerified
    <2>2. CASE CallbackCommit
      BY <1>2, <2>2 DEF CallbackCommit, OwnInv, ConnectedIsVerified, NoCallback
    <2>3. ASSUME NEW choice \in BOOLEAN, Sync(choice) PROVE ConnectedIsVerified'
      BY <1>2, <2>3 DEF Sync, OwnInv, ConnectedIsVerified
    <2>4. CASE Disconnect
      BY <1>2, <2>4 DEF Disconnect, OwnInv, ConnectedIsVerified
    <2> QED
      BY <2>1, <2>2, <2>3, <2>4 DEF User
  <1> QED
    BY <1>1, <1>3 DEF OwnInv, Working, Kind

LEMMA OwnInvStep == Inv /\ OwnInv /\ [Next]_vars => OwnInv'
  <1> SUFFICES ASSUME Inv, OwnInv, [Next]_vars PROVE OwnInv'
    OBVIOUS
  <1>1. ASSUME NEW p \in Processes, Handle(p) PROVE OwnInv'
    BY <1>1, OwnArrival, OwnHandles DEF Handle
  <1>2. CASE UNCHANGED vars
    BY <1>2 DEF vars, link, history, OwnInv, Working, Kind, ConnectedIsVerified, Verified
  <1> QED
    BY <1>1, <1>2, OwnUser DEF Next

\* What a handler owns and who connected the installation, of every behaviour
LEMMA OwnInvHolds == Spec => [](Inv /\ OwnInv)
  <1>1. Init => OwnInv
    BY IdleType DEF Init, OwnInv, Working, ConnectedIsVerified, NoCallback
  <1> QED
    BY <1>1, InvInit, InvStep, OwnInvStep, PTL DEF Spec

\* A delivery is left processing only under a handler or by one that stopped,
\* for any number of processes: two handlers of one delivery do not orphan it.
THEOREM ProcessingHasAnOwner == Spec => []ProcessingIsOwned
  <1>1. OwnInv => ProcessingIsOwned
    BY DEF OwnInv, ProcessingIsOwned
  <1> QED
    BY <1>1, OwnInvHolds, PTL

\* The connection becomes connected, and the callback asks for it, only after
\* a signed installation event was recorded, whatever runs in between.
THEOREM ConnectionIsSigned == Spec => []ConnectedIsVerified
  <1>1. OwnInv => ConnectedIsVerified
    BY DEF OwnInv
  <1> QED
    BY <1>1, OwnInvHolds, PTL

-------------------------------------------------------------------------------
(* The deployment's record, when one process handles the deliveries. *)

\* A set of numbers with a bound has a greatest one.
LEMMA HasMax ==
    ASSUME NEW n \in Nat, NEW T, T \subseteq 0..n, T # {}
    PROVE  \E x \in T : \A y \in T : y <= x
  <1> DEFINE U == {n - x : x \in T}
  <1>1. \A x \in T : n - x \in U
    OBVIOUS
  <1>2. \A u \in U : \E x \in T : u = n - x
    OBVIOUS
  <1> HIDE DEF U
  <1>3. \A x \in T : x \in 0..n
    OBVIOUS
  <1>4. \A x \in T : x \in Nat /\ n - x \in Nat
    BY <1>3
  <1>5. U \subseteq Nat /\ U # {}
    BY <1>1, <1>2, <1>4
  <1>6. PICK m \in U : \A y \in U : ~ (<<y, m>> \in OpToRel(<, Nat))
    BY <1>5, NatLessThanWellFounded, WFMin
  <1>7. PICK x \in T : m = n - x
    BY <1>2
  <1>8. ASSUME NEW y \in T PROVE y <= x
    <2>1. n - y \in U /\ n - y \in Nat /\ m \in Nat
      BY <1>1, <1>4, <1>5
    <2>2. ~(n - y < m)
      BY <1>6, <2>1 DEF OpToRel
    <2>3. x \in Nat /\ y \in Nat
      BY <1>4
    <2> QED
      BY <1>7, <2>2, <2>3
  <1> QED
    BY <1>8

\* If a change of the commit is old enough, one of them is the newest.
LEMMA LatestExists ==
    ASSUME TypeOK, NEW at, Eligible(at) # {}
    PROVE  Latest(at) # {}
  <1> DEFINE T == {created[c] : c \in Eligible(at)}
  <1>1. \A c \in Eligible(at) : created[c] \in 0..MaxTime
    BY WebhookAssumption DEF TypeOK, Eligible
  <1>2. T \subseteq 0..MaxTime /\ T # {}
    BY <1>1
  <1>3. MaxTime \in Nat
    BY WebhookAssumption
  <1> HIDE DEF T
  <1>4. PICK x \in T : \A y \in T : y <= x
    BY <1>2, <1>3, HasMax
  <1>5. PICK c \in Eligible(at) : \A e \in Eligible(at) : created[e] <= created[c]
    BY <1>4 DEF T
  <1> QED
    BY <1>5 DEF Latest

\* The record is that of a deployment, and names a change of the deployed commit
\* that was there when the event happened
RowIsSound ==
    /\ row.version = 0 => row.change = None
    /\ row.version # 0 => row.last \in Deliveries
    /\ row.change # None => row.change \in Matching /\ created[row.change] \in 1..row.at

\* What a handler of a deployment has loaded is what is stored
CopyIsFresh(p) ==
    LET d == h[p].d
        c == h[p].match
    IN h[p].pc = "write" =>
        /\ h[p].row = row /\ ~Outdated(row, d)
        /\ c = None => Eligible(Event[d].at) = {}
        /\ c # None => c \in Eligible(Event[d].at) /\ h[p].was = deployed[c]

\* Its event is in the record once the upsert returned
Caught(p) ==
    h[p].pc = "finish" /\ Kind(p) = "deployment" => row.at >= Event[h[p].d].at

RowInv ==
    /\ RowIsSound /\ RecordFollowsDeliveries
    /\ \A p \in Processes : CopyIsFresh(p) /\ Caught(p)

\* A step that leaves the record, the changes and their status alone keeps this
\* if it neither begins a write nor finishes a deployment without its event.
LEMMA RowAlone ==
    ASSUME RowInv, NEW p \in Processes, \A q \in Processes : q = p,
           row' = row, created' = created, deployed' = deployed,
           h'[p].pc # "write",
           h'[p].pc = "finish" => Event[h'[p].d].kind # "deployment",
           \A d \in Deliveries : delivery'[d] = "processed" =>
             \/ delivery[d] = "processed" \/ Event[d].kind # "deployment"
             \/ row.at >= Event[d].at
    PROVE  RowInv'
  <1>1. RowIsSound' /\ RowIsOneDelivery' /\ ChangeFollowsRow'
    BY DEF RowInv, RowIsSound, RecordFollowsDeliveries, RowIsOneDelivery, ChangeFollowsRow
  <1>2. NeverOlder'
    BY DEF RowInv, RecordFollowsDeliveries, NeverOlder
  <1>3. \A q \in Processes : CopyIsFresh(q)' /\ Caught(q)'
    BY DEF CopyIsFresh, Caught, Kind
  <1> QED
    BY <1>1, <1>2, <1>3 DEF RowInv, RecordFollowsDeliveries

\* The arrival and the recording of a delivery keep it.
LEMMA RowArrival ==
    ASSUME Inv, RowInv, NEW p \in Processes, \A q \in Processes : q = p,
           (\E d \in Deliveries : Receive(p, d)) \/ RecordInstallation(p) \/ Record(p)
    PROVE  RowInv'
  <1>t. TypeOK /\ Knows(p) /\ h[p] \in Handler
    BY DEF Inv, TypeOK, HandlersKnow
  <1>1. row' = row /\ created' = created /\ deployed' = deployed
    BY DEF Receive, RecordInstallation, Record, changeVars
  <1>2. h'[p].pc \in {"idle", "record", "mark", "event"}
    <2>1. ASSUME NEW d \in Deliveries, Receive(p, d) PROVE h'[p].pc \in {"idle", "record"}
      <3>1. CASE UNCHANGED h
        BY <2>1, <3>1 DEF Receive, At
      <3>2. CASE h' # h
        <4>1. h' = [h EXCEPT ![p] = [Idle EXCEPT !.pc = "record", !.d = d,
                     !.seen = delivery[d], !.conn = conn, !.selected = selected]]
          BY <2>1, <3>2 DEF Receive
        <4>2. [Idle EXCEPT !.pc = "record", !.d = d, !.seen = delivery[d],
                           !.conn = conn, !.selected = selected].pc = "record"
          BY DEF Idle
        <4> QED
          BY <4>1, <4>2, <1>t DEF TypeOK
      <3> QED
        BY <3>1, <3>2
    <2>2. CASE RecordInstallation(p)
      BY <2>2, <1>t, DoneEffect, IdleType DEF RecordInstallation
    <2>3. CASE Record(p)
      <3> DEFINE next == After(Kind(p), h[p].selected)
                 new == NewStatus(Kind(p), h[p].selected)
      <3>1. next \in {"mark", "event", "idle"} /\ next \in Pc
        BY DEF After, Pc
      <3>2. \/ Done(p) \/ Goto(p, next)
            \/ h' = [h EXCEPT ![p].pc = next, ![p].seen = new]
        BY <2>3 DEF Record
      <3> HIDE DEF next, new
      <3>3. CASE Done(p)
        BY <3>3, <1>t, DoneEffect, IdleType
      <3>4. CASE Goto(p, next)
        BY <3>1, <3>4, <1>t, GotoEffect
      <3>5. CASE h' = [h EXCEPT ![p].pc = next, ![p].seen = new]
        BY <3>1, <3>5, <1>t DEF TypeOK, Handler
      <3> QED
        BY <3>2, <3>3, <3>4, <3>5
    <2> QED
      BY <2>1, <2>2, <2>3
  <1>3. \A d \in Deliveries : delivery'[d] = "processed" => delivery[d] = "processed"
    <2>1. ASSUME NEW d \in Deliveries, Receive(p, d) PROVE delivery' = delivery
      BY <2>1 DEF Receive
    <2>2. CASE RecordInstallation(p)
      BY <2>2, <1>t DEF RecordInstallation, TypeOK
    <2>3. CASE Record(p)
      <3>1. NewStatus(Kind(p), h[p].selected) # "processed"
        BY DEF NewStatus
      <3> QED
        BY <2>3, <3>1, <1>t DEF Record, TypeOK
    <2> QED
      BY <2>1, <2>2, <2>3
  <1> QED
    BY <1>1, <1>2, <1>3, RowAlone

\* A change that is inserted is younger than the record.
LEMMA RowInsert ==
    ASSUME Inv, RowInv, NEW p \in Processes, \A q \in Processes : q = p,
           NEW now \in 1..MaxTime, InsertChange(p, now)
    PROVE  RowInv'
  <1>t. TypeOK
    BY DEF Inv
  <1>1. row' = row /\ deployed' = deployed /\ delivery' = delivery
    BY DEF InsertChange
  <1>2. h'[p].pc \in {"fail", "activate"}
    <2>1. \E pc \in {"fail", "activate"} : Goto(p, pc)
      BY DEF InsertChange
    <2> QED
      BY <2>1, <1>t, GotoEffect DEF Pc
  <1>3. \A c \in Changes : created[c] # 0 => created'[c] = created[c]
    BY <1>t DEF InsertChange, TypeOK
  <1>4. row.change # None => created'[row.change] = created[row.change]
    BY <1>3, <1>t DEF RowInv, RowIsSound, TypeOK, Row
  <1>5. RowIsSound' /\ RecordFollowsDeliveries'
    BY <1>1, <1>4 DEF RowInv, RowIsSound, RecordFollowsDeliveries, RowIsOneDelivery,
                      NeverOlder, ChangeFollowsRow
  <1>6. \A q \in Processes : CopyIsFresh(q)' /\ Caught(q)'
    BY <1>2 DEF CopyIsFresh, Caught
  <1> QED
    BY <1>5, <1>6 DEF RowInv

\* What upsert_github_deployment loads is what is stored; if it returns at once
\* the record shows the event or a later one.
LEMMA RowRead ==
    ASSUME Inv, RowInv, NEW p \in Processes, \A q \in Processes : q = p,
           NEW c \in Matching \cup {None}, UpsertRead(p, c)
    PROVE  RowInv'
  <1> DEFINE d == h[p].d
             at == Event[h[p].d].at
  <1>t. TypeOK /\ Knows(p) /\ h[p] \in Handler
    BY DEF Inv, TypeOK, HandlersKnow
  <1>d. d \in Deliveries /\ at \in 0..MaxTime /\ row \in Row
    BY <1>t, EventTypes DEF UpsertRead, At, Knows, TypeOK
  <1>1. /\ row' = row /\ deployed' = deployed /\ created' = created
        /\ delivery' = delivery
    BY DEF UpsertRead, changeVars
  <1>2. RowIsSound' /\ RecordFollowsDeliveries'
    BY <1>1 DEF RowInv, RowIsSound, RecordFollowsDeliveries, RowIsOneDelivery,
                NeverOlder, ChangeFollowsRow
  <1>3. /\ h'[p].pc = IF Outdated(row, d) THEN "finish" ELSE "write"
        /\ h'[p].d = d /\ h'[p].row = row /\ h'[p].match = c
        /\ h'[p].was = IF c = None THEN "not_deployed" ELSE deployed[c]
    BY <1>t DEF UpsertRead, TypeOK, Handler
  <1>4. IF Latest(at) = {} THEN c = None ELSE c \in Latest(at)
    BY DEF UpsertRead
  <1>5. /\ c = None => Eligible(at) = {}
        /\ c # None => c \in Eligible(at)
    <2>1. None \notin Latest(at)
      BY WebhookAssumption DEF Latest, Eligible
    <2> QED
      BY <1>4, <1>t, <2>1, LatestExists DEF Latest
  <1> HIDE DEF at
  <1>6. CopyIsFresh(p)'
    <2>1. Eligible(at)' = Eligible(at)
      BY <1>1, <1>3 DEF Eligible, at
    <2>2. h'[p].pc = "write" => ~Outdated(row, d)
      BY <1>3
    <2> QED
      BY <1>1, <1>3, <1>5, <2>1, <2>2 DEF CopyIsFresh, Eligible, Outdated, at
  <1>7. Caught(p)'
    <2>1. ASSUME h'[p].pc = "finish" PROVE row.at >= at
      <3>1. Outdated(row, d)
        BY <1>3, <2>1
      <3>2. row.version # 0 /\ (row.last = d \/ at < row.at)
        BY <3>1 DEF Outdated, at
      <3>3. row.last = d => row.at = at
        BY <3>2 DEF RowInv, RecordFollowsDeliveries, RowIsOneDelivery, at
      <3>4. row.at \in Int /\ at \in Int
        BY <1>d DEF Row
      <3> QED
        BY <3>2, <3>3, <3>4
    <2> QED
      BY <1>1, <1>3, <2>1 DEF Caught, at
  <1> QED
    BY <1>2, <1>6, <1>7 DEF RowInv

\* An UPDATE whose copy is the stored row stores the new one.
LEMMA FlushedIsNew ==
    ASSUME NEW new \in Row PROVE Flushed(row, new) = new
  BY DEF Flushed, Column, Row

\* The write stores one event in all its columns, and its change shows it.
LEMMA RowWrite ==
    ASSUME Inv, RowInv, NEW p \in Processes, \A q \in Processes : q = p,
           UpsertWrite(p)
    PROVE  RowInv'
  <1> DEFINE d == h[p].d
             at == Event[h[p].d].at
             c == h[p].match
             new == Updated(row, d, c)
             s == Legacy(Normalized(Event[d].state))
  <1>t. TypeOK /\ Knows(p) /\ h[p] \in Handler /\ CopyIsFresh(p)
    BY DEF Inv, TypeOK, HandlersKnow, RowInv
  <1>d. /\ d \in Deliveries /\ at \in 1..MaxTime /\ row \in Row
        /\ c \in Changes \cup {None} /\ at \in Nat
    <2>1. d \in Deliveries
      BY <1>t DEF UpsertWrite, At, Knows
    <2> QED
      BY <1>t, <2>1, EventTypes DEF TypeOK, Handler
  <1>f. /\ h[p].row = row /\ ~Outdated(row, d)
        /\ c = None => Eligible(at) = {}
        /\ c # None => c \in Eligible(at) /\ h[p].was = deployed[c]
    BY <1>t DEF CopyIsFresh, UpsertWrite, At
  <1>1. /\ new \in Row /\ new.version = row.version + 1
        /\ new.status = Normalized(Event[d].state) /\ new.at = at
        /\ new.finished = FinishedAt(d) /\ new.last = d
        /\ new.change = IF c = None THEN row.change ELSE c
    BY <1>d, RowTypes DEF Updated
  <1>2. /\ row' = new /\ deployed' = Deployed(p) /\ Goto(p, "finish")
        /\ created' = created /\ delivery' = delivery
    <2>1. /\ ~(h[p].row.version = 0 /\ row.version # 0)
          /\ row' = IF h[p].row.version = 0 THEN new ELSE Flushed(row, new)
      BY <1>f DEF UpsertWrite
    <2> HIDE DEF new
    <2>2. row' = new
      BY <2>1, <1>1, FlushedIsNew
    <2> QED
      BY <1>f, <2>2 DEF UpsertWrite
  <1> HIDE DEF new
  <1>3. h'[p].pc = "finish" /\ h'[p].d = d
    BY <1>2, <1>t, GotoEffect DEF Pc
  <1>4. row.version # 0 => at >= row.at
    <2>1. row.version # 0 => ~(at < row.at)
      BY <1>f DEF Outdated
    <2>2. row.at \in Nat
      BY <1>d DEF Row
    <2> QED
      BY <1>d, <2>1, <2>2
  <1>5. c = None => row.change = None
    <2> SUFFICES ASSUME row.change # None PROVE Eligible(at) # {}
      BY <1>f
    <2>1. /\ row.version # 0 /\ row.change \in Matching
          /\ created[row.change] \in 1..row.at
      BY DEF RowInv, RowIsSound
    <2>2. created[row.change] \in 1..at
      BY <1>4, <1>d, <2>1 DEF Row
    <2> QED
      BY <2>1, <2>2 DEF Eligible
  <1>6. new.change = c
    BY <1>1, <1>5
  <1>7. RowIsSound'
    <2>1. row.version + 1 # 0
      BY <1>d DEF Row
    <2>2. c # None => c \in Matching /\ created[c] \in 1..at
      BY <1>f DEF Eligible
    <2> QED
      BY <1>1, <1>2, <1>6, <1>d, <2>1, <2>2 DEF RowIsSound
  <1>8. RowIsOneDelivery'
    BY <1>1, <1>2 DEF RowIsOneDelivery, FinishedAt
  <1>9. NeverOlder'
    <2> SUFFICES ASSUME NEW e \in Deliveries, Event[e].kind = "deployment",
                        delivery[e] = "processed"
                 PROVE  at >= Event[e].at
      BY <1>1, <1>2 DEF NeverOlder
    <2>1. row.version # 0
      BY DEF Inv, ProcessedIsComplete
    <2>2. row.at >= Event[e].at
      BY DEF RowInv, RecordFollowsDeliveries, NeverOlder
    <2>3. row.at \in Int /\ Event[e].at \in Int
      BY <1>d, WebhookAssumption DEF Row
    <2> QED
      BY <1>4, <1>d, <2>1, <2>2, <2>3
  <1>10. ChangeFollowsRow'
    <2>1. c # None => deployed'[c] = s
      <3>1. c # None => c \in Changes
        BY <1>d
      <3> HIDE DEF s
      <3>2. deployed' = IF c = None \/ s = h[p].was THEN deployed
                        ELSE [deployed EXCEPT ![c] = s]
        BY <1>2 DEF Deployed, s
      <3> QED
        BY <1>f, <3>1, <3>2, <1>t DEF TypeOK
    <2> QED
      BY <1>1, <1>2, <1>6, <2>1 DEF ChangeFollowsRow
  <1>11. CopyIsFresh(p)' /\ Caught(p)'
    BY <1>1, <1>2, <1>3, <1>d DEF CopyIsFresh, Caught
  <1> QED
    BY <1>7, <1>8, <1>9, <1>10, <1>11 DEF RowInv, RecordFollowsDeliveries

\* The other steps of a handler leave the record alone, and a delivery of a
\* deployment is processed only when its event is in it.
LEMMA RowHandles ==
    ASSUME Inv, RowInv, NEW p \in Processes, \A q \in Processes : q = p,
           PullRequest(p) \/ RecordEvent(p) \/ Deployment(p) \/ Finish(p) \/ Stop(p)
    PROVE  RowInv'
  <1>t. TypeOK /\ Knows(p) /\ h[p] \in Handler /\ Caught(p)
    BY DEF Inv, TypeOK, HandlersKnow, RowInv
  <1>g. ASSUME NEW pc \in Pc \ {"write"}, Goto(p, pc),
               pc = "finish" => Kind(p) # "deployment",
               row' = row, created' = created, deployed' = deployed, delivery' = delivery
        PROVE  RowInv'
    <2>1. h'[p].pc = pc /\ h'[p].d = h[p].d
      BY <1>g, <1>t, GotoEffect
    <2> QED
      BY <1>g, <2>1, RowAlone DEF Kind
  <1>e. ASSUME Done(p), row' = row, created' = created, deployed' = deployed,
               \A d \in Deliveries : delivery'[d] = "processed" =>
                 \/ delivery[d] = "processed" \/ Event[d].kind # "deployment"
                 \/ row.at >= Event[d].at
        PROVE  RowInv'
    <2>1. h'[p].pc = "idle"
      BY <1>e, <1>t, DoneEffect, IdleType
    <2> QED
      BY <1>e, <2>1, RowAlone
  <1>1. CASE Mark(p)
    <2>1. /\ row' = row /\ created' = created /\ deployed' = deployed
          /\ h' = [h EXCEPT ![p].pc = "analyze", ![p].seen = "processing"]
      BY <1>1 DEF Mark, changeVars
    <2>2. h'[p].pc = "analyze"
      BY <2>1, <1>t DEF TypeOK, Handler
    <2>3. \A d \in Deliveries : delivery'[d] = "processed" => delivery[d] = "processed"
      BY <1>1, <1>t DEF Mark, TypeOK
    <2> QED
      BY <2>1, <2>2, <2>3, RowAlone
  <1>2. CASE Analyze(p)
    <2>1. /\ row' = row /\ created' = created /\ deployed' = deployed
          /\ delivery' = delivery
      BY <1>2 DEF Analyze, changeVars
    <2>2. h'[p].pc \in {"insert", "activate"}
      BY <1>2, <1>t DEF Analyze, TypeOK, Handler
    <2> QED
      BY <2>1, <2>2, RowAlone
  <1>4. CASE Activate(p)
    <2>1. /\ row' = row /\ created' = created /\ deployed' = deployed
          /\ delivery' = delivery /\ Goto(p, "event")
      BY <1>4 DEF Activate
    <2> QED
      BY <2>1, <1>g DEF Pc
  <1>5. CASE Enqueue(p)
    <2>1. /\ row' = row /\ created' = created /\ deployed' = deployed
          /\ delivery' = delivery /\ (Goto(p, "store") \/ Goto(p, "finish"))
          /\ Kind(p) = "pull_request"
      BY <1>5, <1>t DEF Enqueue, changeVars, At, Knows, PullRequestPc
    <2> QED
      BY <2>1, <1>g DEF Pc
  <1>6. CASE Store(p)
    <2>1. /\ row' = row /\ created' = created /\ deployed' = deployed
          /\ Kind(p) = "pull_request"
          /\ \/ Goto(p, "fail") /\ delivery' = delivery
             \/ Done(p) /\ delivery' = [delivery EXCEPT ![h[p].d] = "processed"]
      BY <1>6, <1>t DEF Store, At, Knows, PullRequestPc
    <2>2. CASE Done(p) /\ delivery' = [delivery EXCEPT ![h[p].d] = "processed"]
      <3>1. \A d \in Deliveries : delivery'[d] = "processed" =>
              delivery[d] = "processed" \/ Event[d].kind # "deployment"
        BY <2>1, <2>2, <1>t DEF TypeOK, Kind
      <3> QED
        BY <2>1, <2>2, <3>1, <1>e
    <2> QED
      BY <2>1, <2>2, <1>g DEF Pc
  <1>7. CASE Throw(p)
    <2>1. /\ row' = row /\ created' = created /\ deployed' = deployed
          /\ delivery' = delivery /\ Goto(p, "fail")
      BY <1>7 DEF Throw, changeVars
    <2> QED
      BY <2>1, <1>g DEF Pc
  <1>8. CASE Fail(p)
    <2>1. /\ row' = row /\ created' = created /\ deployed' = deployed
          /\ Done(p) /\ delivery' = [delivery EXCEPT ![h[p].d] = "failed"]
      BY <1>8 DEF Fail, changeVars
    <2>2. \A d \in Deliveries : delivery'[d] = "processed" => delivery[d] = "processed"
      BY <2>1, <1>t DEF TypeOK
    <2> QED
      BY <2>1, <2>2, <1>e
  <1>9. CASE RecordEvent(p)
    <2>1. /\ row' = row /\ created' = created /\ deployed' = deployed
          /\ delivery' = delivery
          /\ \E pc \in {"enqueue", "upsert", "finish"} :
               Goto(p, pc) /\ (pc = "finish" => Kind(p) # "deployment")
      BY <1>9 DEF RecordEvent, changeVars
    <2> QED
      BY <2>1, <1>g DEF Pc
  <1>12. CASE Finish(p)
    <2>1. /\ row' = row /\ created' = created /\ deployed' = deployed /\ h[p].pc = "finish"
          /\ Done(p) /\ delivery' = [delivery EXCEPT ![h[p].d] = "processed"]
      BY <1>12 DEF Finish, At, changeVars
    <2>2. \A d \in Deliveries : delivery'[d] = "processed" =>
             \/ delivery[d] = "processed" \/ Event[d].kind # "deployment"
             \/ row.at >= Event[d].at
      BY <2>1, <1>t DEF TypeOK, Caught, Kind
    <2> QED
      BY <2>1, <2>2, <1>e
  <1>13. CASE Stop(p)
    BY <1>13, <1>e DEF Stop, changeVars
  <1> QED
    BY <1>1, <1>2, RowInsert, <1>4, <1>5, <1>6, <1>7, <1>8, <1>9, RowRead, RowWrite,
       <1>12, <1>13
    DEF PullRequest, Deployment

LEMMA RowInvStep ==
    ASSUME \A p, q \in Processes : p = q
    PROVE  Inv /\ RowInv /\ [Next]_vars => RowInv'
  <1> SUFFICES ASSUME Inv, RowInv, [Next]_vars PROVE RowInv'
    OBVIOUS
  <1>1. ASSUME NEW p \in Processes, Handle(p) PROVE RowInv'
    BY <1>1, RowArrival, RowHandles DEF Handle
  <1>2. CASE User \/ UNCHANGED vars
    <2>1. /\ row' = row /\ created' = created /\ deployed' = deployed /\ h' = h
          /\ delivery' = delivery
      BY <1>2 DEF User, CallbackRead, CallbackCommit, Sync, Disconnect, vars, changeVars
    <2> QED
      BY <2>1 DEF RowInv, RowIsSound, RecordFollowsDeliveries, RowIsOneDelivery,
                  NeverOlder, ChangeFollowsRow, CopyIsFresh, Caught, Kind, Eligible,
                  Outdated
  <1> QED
    BY <1>1, <1>2 DEF Next

\* upsert_github_deployment, served by one process: in whatever order GitHub
\* sends and repeats its deliveries, and whatever requests of the user run in
\* between, the record shows one delivery in all its columns, none older than a
\* processed one, and its change shows the same.
THEOREM RecordFollows ==
    ASSUME \A p, q \in Processes : p = q
    PROVE  Spec => []RecordFollowsDeliveries
  <1>1. Init => RowInv
    <2> SUFFICES ASSUME Init PROVE RowInv
      OBVIOUS
    <2>1. row.version = 0 /\ row.change = None
      BY DEF Init, NoRow
    <2>2. \A p \in Processes : h[p].pc = "idle"
      BY IdleType DEF Init
    <2> QED
      BY <2>1, <2>2 DEF Init, RowInv, RowIsSound, RecordFollowsDeliveries,
                        RowIsOneDelivery, NeverOlder, ChangeFollowsRow, CopyIsFresh, Caught
  <1>2. RowInv => RecordFollowsDeliveries
    BY DEF RowInv
  <1>3. Inv /\ RowInv /\ [Next]_vars => RowInv'
    BY RowInvStep
  <1> QED
    BY <1>1, <1>2, <1>3, InvInit, InvStep, PTL DEF Spec
================================================================================
