-------------------------- MODULE JobQueueRefinement --------------------------
(***************************************************************************)
(* With one worker process and one replay request at a time, JobQueue      *)
(* implements JobLifecycle, for any set of jobs and any retry budget.      *)
(***************************************************************************)
EXTENDS JobQueueProofs

\* At most one worker process and one replay request at a time
Solo ==
    /\ \A v, w \in Workers : v = w
    /\ \A a, b \in Admins : a = b

\* A commit of a current copy writes the status and attempts it assigned.
LEMMA FlushCurrent ==
    ASSUME NEW row \in Row, NEW old \in Row, NEW new \in Row, NEW stamped,
           old.status = row.status, old.attempts = row.attempts
    PROVE  /\ Flush(row, old, new, stamped).status = new.status
           /\ Flush(row, old, new, stamped).attempts = new.attempts
  BY DEF Flush, Column

\* What the operations assign to status and attempts.
LEMMA Assigned ==
    ASSUME NEW old \in Row
    PROVE  /\ Swept(old).attempts = old.attempts
           /\ Swept(old).status =
                IF old.attempts >= MaxAttempts THEN "dead_letter" ELSE "queued"
           /\ Completed(old).attempts = old.attempts
           /\ Completed(old).status = "succeeded"
           /\ \A r \in BOOLEAN :
                /\ Failed(old, r).attempts = old.attempts
                /\ Failed(old, r).status =
                     IF Retries(old, r) THEN "queued"
                     ELSE IF r THEN "dead_letter" ELSE "failed"
           /\ Replayed(old).attempts = 0
           /\ Replayed(old).status = "queued"
           /\ Claimed(old).attempts = old.attempts + 1
           /\ Claimed(old).status = "running"
  <1>1. /\ Swept(old).attempts = old.attempts
        /\ Swept(old).status =
                IF old.attempts >= MaxAttempts THEN "dead_letter" ELSE "queued"
    BY DEF Swept, Row
  <1>2. Completed(old).attempts = old.attempts /\ Completed(old).status = "succeeded"
    BY DEF Completed, Row
  <1>3. ASSUME NEW r \in BOOLEAN
        PROVE  /\ Failed(old, r).attempts = old.attempts
               /\ Failed(old, r).status =
                     IF Retries(old, r) THEN "queued"
                     ELSE IF r THEN "dead_letter" ELSE "failed"
    BY DEF Failed, Row
  <1>4. Replayed(old).attempts = 0 /\ Replayed(old).status = "queued"
    BY DEF Replayed, Row
  <1>5. Claimed(old).attempts = old.attempts + 1 /\ Claimed(old).status = "running"
    BY DEF Claimed, Row
  <1> QED
    BY <1>1, <1>2, <1>3, <1>4, <1>5

\* The sessions that can commit a row at all: they hold the row as it is.
LEMMA CurrentCopy ==
    ASSUME TypeOK, CopiesAreCurrent, NEW s \in Sessions, NEW j \in Jobs, Loaded(s, j)
    PROVE  /\ session[s][j] \in Row /\ job[j] \in Row
           /\ session[s][j].status = job[j].status
           /\ session[s][j].attempts = job[j].attempts
           /\ job[j].attempts \in Nat
  BY DEF TypeOK, CopiesAreCurrent, Row

\* The row k after a step, as far as JobLifecycle sees it
Same(k) == job'[k].status = job[k].status /\ job'[k].attempts = job[k].attempts

\* Another session's copy stays current when s commits rows that s has loaded.
LEMMA OthersCurrent ==
    ASSUME Solo, TypeOK, TypeOK', SessionDiscipline, SoloInv,
           NEW s \in Sessions, session' = [session EXCEPT ![s] = NothingLoaded],
           s \in Workers => pc[s] \in {"sweep", "handle"},
           \A k \in Jobs : ~Loaded(s, k) => Same(k)
    PROVE  CopiesAreCurrent'
  <1> SUFFICES ASSUME NEW t \in Sessions, NEW k \in Jobs, Loaded(t, k)'
               PROVE  /\ session'[t][k].status = job'[k].status
                      /\ session'[t][k].attempts = job'[k].attempts
    BY DEF CopiesAreCurrent, Sessions
  <1>1. t # s
    BY DEF Loaded, NothingLoaded, NoRow, TypeOK
  <1>2. session'[t] = session[t] /\ Loaded(t, k)
    BY <1>1 DEF Loaded, TypeOK
  <1>3. /\ session[t][k].status = job[k].status
        /\ session[t][k].attempts = job[k].attempts
    BY <1>2, CurrentCopy DEF SoloInv
  <1>4. ~Loaded(s, k)
    <2>1. SUFFICES ASSUME Loaded(s, k) PROVE FALSE
      OBVIOUS
    <2>2. session[s][k].status = session[t][k].status
      BY <1>3, <2>1, CurrentCopy DEF SoloInv
    <2>3. ASSUME NEW v \in Workers, NEW a \in Admins, pc[v] \in {"sweep", "handle"},
                 Loaded(v, k), Loaded(a, k)
          PROVE  session[v][k].status # session[a][k].status
      BY <2>3 DEF SoloInv, HeldIsRunning, SessionDiscipline, Loaded
    <2>4. CASE s \in Workers
      <3>1. t \in Admins
        BY <1>1, <2>4 DEF Solo, Sessions
      <3> QED
        BY <1>2, <2>1, <2>2, <2>3, <2>4, <3>1
    <2>5. CASE s \in Admins
      <3>1. t \in Workers
        BY <1>1, <2>5 DEF Solo, Sessions
      <3>2. pc[t] \in {"sweep", "handle"}
        <4>1. session[t] # NothingLoaded
          BY <1>2 DEF Loaded, NothingLoaded, NoRow
        <4> QED
          BY <3>1, <4>1 DEF SessionDiscipline, TypeOK
      <3> QED
        BY <1>2, <2>1, <2>2, <2>3, <2>5, <3>1, <3>2
    <2> QED
      BY <2>4, <2>5 DEF Sessions
  <1> QED
    BY <1>2, <1>3, <1>4 DEF Same

\* Copies are current right after they are read (of no row: a cleared session).
LEMMA ReadCurrent ==
    ASSUME TypeOK, CopiesAreCurrent, NEW s \in Sessions, NEW S,
           session' = [session EXCEPT ![s] = Copy(S)], job' = job
    PROVE  CopiesAreCurrent'
  <1> SUFFICES ASSUME NEW t \in Sessions, NEW k \in Jobs, Loaded(t, k)'
               PROVE  /\ session'[t][k].status = job[k].status
                      /\ session'[t][k].attempts = job[k].attempts
    BY DEF CopiesAreCurrent, Sessions
  <1>1. CASE t = s
    BY <1>1 DEF Loaded, Copy, NoRow, TypeOK
  <1>2. CASE t # s
    BY <1>2 DEF CopiesAreCurrent, Loaded, TypeOK
  <1> QED
    BY <1>1, <1>2

LEMMA ClearCurrent ==
    ASSUME TypeOK, CopiesAreCurrent, NEW s \in Sessions,
           session' = [session EXCEPT ![s] = NothingLoaded], job' = job
    PROVE  CopiesAreCurrent'
  <1>1. NothingLoaded = Copy({})
    BY DEF NothingLoaded, Copy
  <1> QED
    BY <1>1, ReadCurrent

\* Every action keeps copies current, held jobs running and budgets respected.
LEMMA SoloStep ==
    ASSUME Solo, TypeOK, SessionDiscipline, SoloInv, [Next]_vars
    PROVE  SoloInv'
  <1>t. TypeOK'
    BY TypeStep
  <1>m. MaxAttempts \in Nat \ {0} /\ Workers \cap Admins = {}
    BY JobQueueAssumption
  <1>n. \A k \in Jobs : job[k] \in Row /\ job[k].attempts \in Nat
    BY DEF TypeOK, Row
  <1> USE DEF SoloInv, Sessions
  <1>i. ASSUME NEW w \in Workers, pc'[w] \notin {"load", "handle"} PROVE HeldIsRunning'
    BY <1>i DEF Solo, HeldIsRunning
  <1>j. ASSUME job' = job PROVE BudgetKept'
    BY <1>j DEF BudgetKept
  <1>1. ASSUME NEW w \in Workers, SweepRead(w) PROVE SoloInv'
    <2>1. pc'[w] \notin {"load", "handle"}
      BY <1>1 DEF SweepRead, TypeOK
    <2> QED
      BY <1>i, <1>j, <1>1, <2>1, ReadCurrent DEF SweepRead
  <1>2. ASSUME NEW w \in Workers, SweepCommit(w) PROVE SoloInv'
    <2>1. pc'[w] = "poll"
      BY <1>2 DEF SweepCommit, TypeOK
    <2>2. \A k \in Jobs : ~Loaded(w, k) => job'[k] = job[k]
      BY <1>2 DEF SweepCommit
    <2>3. ASSUME NEW k \in Jobs, Loaded(w, k)
          PROVE  /\ job'[k].attempts = job[k].attempts
                 /\ job'[k].status =
                      IF job[k].attempts >= MaxAttempts THEN "dead_letter" ELSE "queued"
      <3>1. job'[k] = Flush(job[k], session[w][k], Swept(session[w][k]),
                            SweptStamps(session[w][k]))
        BY <1>2, <2>3 DEF SweepCommit
      <3>2. /\ session[w][k] \in Row /\ job[k] \in Row
            /\ session[w][k].status = job[k].status
            /\ session[w][k].attempts = job[k].attempts
        BY <2>3, CurrentCopy
      <3>3. Swept(session[w][k]) \in Row
        BY <3>2, RowTypes
      <3>4. /\ job'[k].status = Swept(session[w][k]).status
            /\ job'[k].attempts = Swept(session[w][k]).attempts
        BY <3>1, <3>2, <3>3, FlushCurrent
      <3> QED
        BY <3>2, <3>4, Assigned
    <2>4. BudgetKept'
      BY <1>m, <1>n, <2>2, <2>3 DEF BudgetKept
    <2>5. CopiesAreCurrent'
      BY <1>2, <1>t, <2>2, OthersCurrent DEF SweepCommit, Same
    <2> QED
      BY <1>i, <2>1, <2>4, <2>5
  <1>3. ASSUME NEW w \in Workers, ClaimRead(w) PROVE SoloInv'
    <2>1. pc'[w] \notin {"load", "handle"}
      BY <1>3 DEF ClaimRead, TypeOK
    <2>2. CopiesAreCurrent'
      BY <1>3 DEF ClaimRead, CopiesAreCurrent, Loaded
    <2> QED
      BY <1>i, <1>j, <1>3, <2>1, <2>2 DEF ClaimRead
  <1>4. ASSUME NEW w \in Workers, NEW j \in Jobs, ClaimWin(w, j) PROVE SoloInv'
    <2>1. /\ job[j].status = "queued" /\ job'[j].status = "running"
          /\ job'[j].attempts = job[j].attempts + 1
          /\ \A k \in Jobs \ {j} : job'[k] = job[k]
      BY <1>4, <1>n, Assigned DEF ClaimWin, Claimable, TypeOK
    <2>2. BudgetKept'
      BY <1>m, <1>n, <2>1 DEF BudgetKept
    <2>3. \A s \in Sessions : ~Loaded(s, j)
      <3>1. ~Loaded(w, j)
        BY <1>4 DEF ClaimWin, SessionDiscipline, Loaded, NothingLoaded, NoRow
      <3>2. \A a \in Admins : ~Loaded(a, j)
        BY <2>1 DEF SessionDiscipline, CopiesAreCurrent, Loaded
      <3> QED
        BY <3>1, <3>2 DEF Solo
    <2>4. CopiesAreCurrent'
      BY <1>4, <2>1, <2>3 DEF ClaimWin, CopiesAreCurrent, Loaded
    <2>5. pc'[w] = "load" /\ held'[w] = {j}
      BY <1>4 DEF ClaimWin, TypeOK
    <2>6. HeldIsRunning'
      BY <2>1, <2>5 DEF HeldIsRunning, Solo
    <2> QED
      BY <2>2, <2>4, <2>6
  <1>5. ASSUME NEW w \in Workers, NEW j \in Jobs, ClaimMiss(w, j) PROVE SoloInv'
    <2>1. pc'[w] \notin {"load", "handle"}
      BY <1>5 DEF ClaimMiss, TypeOK
    <2>2. CopiesAreCurrent'
      BY <1>5 DEF ClaimMiss, CopiesAreCurrent, Loaded
    <2> QED
      BY <1>i, <1>j, <1>5, <2>1, <2>2 DEF ClaimMiss
  <1>6. ASSUME NEW w \in Workers, Load(w) \/ Reload(w) PROVE SoloInv'
    <2>1. /\ pc[w] \in {"load", "handle"} /\ pc'[w] = "handle"
          /\ session' = [session EXCEPT ![w] = Copy(held[w])]
          /\ job' = job /\ held' = held
      BY <1>6 DEF Load, Reload, TypeOK
    <2>2. \A k \in held[w] : job[k].status = "running"
      BY <2>1 DEF HeldIsRunning
    <2>3. \A k \in Jobs : session'[w][k].status \in {"absent", "running"}
      BY <2>1, <2>2 DEF Copy, NoRow, TypeOK
    <2>4. HeldIsRunning'
      BY <2>1, <2>2, <2>3 DEF HeldIsRunning, Solo
    <2> QED
      BY <1>j, <2>1, <2>4, ReadCurrent
  <1>7. ASSUME NEW w \in Workers, NEW j \in Jobs, NEW new \in Row, NEW stamped,
               FinishWith(w, j, new, stamped),
               new.status \notin {"queued", "running"}
                 \/ (new.status = "queued" /\ new.attempts < MaxAttempts)
        PROVE  SoloInv'
    <2>1. Loaded(w, j) /\ pc'[w] = "idle"
      BY <1>7 DEF FinishWith, Loaded, TypeOK
    <2>2. job'[j] = Flush(job[j], session[w][j], new, stamped)
            /\ \A k \in Jobs \ {j} : job'[k] = job[k]
      BY <1>7 DEF FinishWith, TypeOK
    <2>3. job'[j].status = new.status /\ job'[j].attempts = new.attempts
      BY <2>1, <2>2, CurrentCopy, FlushCurrent
    <2>4. BudgetKept'
      BY <1>7, <2>2, <2>3 DEF BudgetKept
    <2>5. CopiesAreCurrent'
      BY <1>7, <1>t, <2>1, <2>2, OthersCurrent DEF FinishWith, Same
    <2> QED
      BY <1>i, <2>1, <2>4, <2>5
  <1>8. ASSUME NEW w \in Workers, NEW j \in Jobs, Complete(w, j) PROVE SoloInv'
    <2>1. session[w][j] \in Row
      BY DEF TypeOK
    <2> QED
      BY <1>7, <1>8, <2>1, RowTypes, Assigned DEF Complete
  <1>9. ASSUME NEW w \in Workers, NEW j \in Jobs, NEW r \in BOOLEAN, Fail(w, j, r)
        PROVE  SoloInv'
    <2>1. session[w][j] \in Row /\ Failed(session[w][j], r) \in Row
      BY RowTypes DEF TypeOK
    <2>2. LET new == Failed(session[w][j], r)
          IN  new.status \notin {"queued", "running"}
                \/ (new.status = "queued" /\ new.attempts < MaxAttempts)
      BY <2>1, Assigned DEF Retries
    <2> QED
      BY <1>7, <1>9, <2>1, <2>2 DEF Fail
  <1>10. ASSUME NEW w \in Workers, FinishRejected(w) \/ Crash(w) PROVE SoloInv'
    <2>1. /\ pc'[w] = "down" /\ job' = job
          /\ session' = [session EXCEPT ![w] = NothingLoaded]
      BY <1>10 DEF FinishRejected, Crash, TypeOK
    <2> QED
      BY <1>i, <1>j, <2>1, ClearCurrent
  <1>11. ASSUME NEW w \in Workers, Restart(w) PROVE SoloInv'
    <2>1. pc'[w] = "idle" /\ job' = job /\ session' = session
      BY <1>11 DEF Restart, TypeOK
    <2>2. CopiesAreCurrent'
      BY <2>1 DEF CopiesAreCurrent, Loaded
    <2> QED
      BY <1>i, <1>j, <2>1, <2>2
  <1>12. ASSUME NEW a \in Admins, NEW j \in Jobs, ReplayRead(a, j) PROVE SoloInv'
    <2>1. /\ session' = [session EXCEPT ![a] = Copy({j})]
          /\ job' = job /\ pc' = pc /\ held' = held
      BY <1>12 DEF ReplayRead
    <2>2. \A w \in Workers : session'[w] = session[w]
      BY <1>m, <2>1 DEF TypeOK
    <2>3. HeldIsRunning'
      BY <2>1, <2>2 DEF HeldIsRunning
    <2> QED
      BY <1>j, <2>1, <2>3, ReadCurrent
  <1>13. ASSUME NEW a \in Admins, NEW j \in Jobs, ReplayCommit(a, j) PROVE SoloInv'
    <2>1. /\ Loaded(a, j) /\ pc' = pc /\ held' = held
          /\ session' = [session EXCEPT ![a] = NothingLoaded]
          /\ \A w \in Workers : session'[w] = session[w]
          /\ \A k \in Jobs \ {j} : job'[k] = job[k]
      BY <1>m, <1>13 DEF ReplayCommit, TypeOK
    <2>2. job'[j] = Flush(job[j], session[a][j], Replayed(session[a][j]), {"available_at"})
      BY <1>13 DEF ReplayCommit, TypeOK
    <2>3. job'[j].status = "queued" /\ job'[j].attempts = 0
      <3>1. /\ session[a][j] \in Row /\ job[j] \in Row
            /\ session[a][j].status = job[j].status
            /\ session[a][j].attempts = job[j].attempts
        BY <2>1, CurrentCopy
      <3>2. Replayed(session[a][j]) \in Row
        BY <3>1, RowTypes
      <3>3. /\ job'[j].status = Replayed(session[a][j]).status
            /\ job'[j].attempts = Replayed(session[a][j]).attempts
        BY <2>2, <3>1, <3>2, FlushCurrent
      <3> QED
        BY <3>1, <3>3, Assigned
    <2>4. job[j].status \in {"failed", "dead_letter"}
      BY <2>1, CurrentCopy DEF SessionDiscipline, Loaded
    <2>5. HeldIsRunning'
      <3> SUFFICES ASSUME NEW w \in Workers
                   PROVE  /\ pc[w] \in {"load", "handle"}
                               => \A k \in held[w] : job'[k].status = "running"
                          /\ pc[w] = "handle" => \A k \in Jobs :
                               session[w][k].status \in {"absent", "running"}
        BY <2>1 DEF HeldIsRunning
      <3>1. held[w] \subseteq Jobs
        BY DEF TypeOK
      <3> QED
        BY <2>1, <2>4, <3>1 DEF HeldIsRunning
    <2>6. BudgetKept'
      BY <1>m, <2>1, <2>3 DEF BudgetKept
    <2>7. CopiesAreCurrent'
      BY <1>m, <1>t, <2>1, OthersCurrent DEF Same
    <2> QED
      BY <2>5, <2>6, <2>7
  <1>14. ASSUME NEW j \in Jobs, Enqueue(j) PROVE SoloInv'
    <2>1. /\ job[j].status = "absent" /\ job'[j].status = "queued"
          /\ job'[j].attempts = 0
          /\ \A k \in Jobs \ {j} : job'[k] = job[k]
      BY <1>14 DEF Enqueue, NewRow, NoRow, TypeOK
    <2>2. session' = session /\ pc' = pc /\ held' = held
      BY <1>14 DEF Enqueue
    <2>3. \A s \in Sessions : ~Loaded(s, j)
      BY <2>1 DEF CopiesAreCurrent, Loaded
    <2>4. CopiesAreCurrent'
      BY <2>1, <2>2, <2>3 DEF CopiesAreCurrent, Loaded
    <2>5. HeldIsRunning'
      BY <2>1, <2>2 DEF HeldIsRunning, TypeOK
    <2>6. BudgetKept'
      BY <1>m, <2>1 DEF BudgetKept
    <2> QED
      BY <2>4, <2>5, <2>6
  <1>15. ASSUME \A k \in Jobs : Same(k), session' = session, pc' = pc, held' = held
         PROVE  SoloInv'
    <2>1. CopiesAreCurrent'
      BY <1>15 DEF Same, CopiesAreCurrent, Loaded
    <2>2. HeldIsRunning'
      BY <1>15 DEF Same, HeldIsRunning, TypeOK
    <2>3. BudgetKept'
      BY <1>15 DEF Same, BudgetKept
    <2> QED
      BY <2>1, <2>2, <2>3
  <1>16. ASSUME NEW j \in Jobs, BackoffElapses(j) PROVE SoloInv'
    <2>1. \A k \in Jobs : Same(k)
      BY <1>n, <1>16 DEF BackoffElapses, Same, TypeOK, Row
    <2> QED
      BY <1>15, <1>16, <2>1 DEF BackoffElapses
  <1>17. ASSUME NEW j \in Jobs, LeaseLapses(j) PROVE SoloInv'
    <2>1. \A k \in Jobs : Same(k)
      BY <1>n, <1>17 DEF LeaseLapses, Same, TypeOK, Row
    <2> QED
      BY <1>15, <1>17, <2>1 DEF LeaseLapses
  <1>18. CASE UNCHANGED vars
    BY <1>15, <1>18 DEF vars, Same
  <1> QED
    BY <1>1, <1>2, <1>3, <1>4, <1>5, <1>6, <1>8, <1>9, <1>10, <1>11, <1>12,
       <1>13, <1>14, <1>16, <1>17, <1>18
    DEF Next, Claim, Finish, Clock

-------------------------------------------------------------------------------
(* The refinement *)

\* A step that changes one row changes one entry of the view.
LEMMA OneRowSeen ==
    ASSUME TypeOK, TypeOK', NEW j \in Jobs,
           \A k \in Jobs \ {j} : Same(k)
    PROVE  LifecycleView' =
             [LifecycleView EXCEPT ![j] = [status |-> job'[j].status, attempts |-> job'[j].attempts]]
  BY DEF LifecycleView, Same

\* What JobLifecycle makes of a run that was lost.
LEMMA LossSeen ==
    ASSUME NEW status, NEW attempts
    PROVE  Lifecycle!AfterLoss([status |-> status, attempts |-> attempts])
             = [status   |-> IF attempts < MaxAttempts THEN "queued" ELSE "dead_letter",
                attempts |-> attempts]
  BY DEF Lifecycle!AfterLoss

\* A step that changes no row's status or attempts is a stutter of the view.
LEMMA StutterSeen ==
    ASSUME \A k \in Jobs : Same(k)
    PROVE  LifecycleView' = LifecycleView
  BY DEF LifecycleView, Same

\* Every step of the queue is a step of JobLifecycle or changes nothing it sees.
LEMMA RefinementStep ==
    ASSUME Solo, TypeOK, SessionDiscipline, SoloInv, [Next]_vars
    PROVE  Lifecycle!Next \/ LifecycleView' = LifecycleView
  <1>t. TypeOK'
    BY TypeStep
  <1>m. MaxAttempts \in Nat \ {0}
    BY JobQueueAssumption
  <1>n. \A k \in Jobs : job[k] \in Row /\ job[k].attempts \in Nat
    BY DEF TypeOK, Row
  <1>v. \A k \in Jobs :
          /\ LifecycleView[k] = [status |-> job[k].status, attempts |-> job[k].attempts]
          /\ LifecycleView[k].status = job[k].status
          /\ LifecycleView[k].attempts = job[k].attempts
    BY DEF LifecycleView
  <1> USE DEF SoloInv, Sessions
  <1>1. ASSUME NEW j \in Jobs, Enqueue(j) PROVE Lifecycle!Next
    <2>1. /\ job[j].status = "absent" /\ job'[j] = NewRow
          /\ \A k \in Jobs \ {j} : job'[k] = job[k]
      BY <1>1 DEF Enqueue, TypeOK
    <2>2. job'[j].status = "queued" /\ job'[j].attempts = 0
      BY <2>1 DEF NewRow, NoRow
    <2>3. LifecycleView' = [LifecycleView EXCEPT ![j] = [status |-> "queued", attempts |-> 0]]
      BY <1>t, <2>1, <2>2, OneRowSeen DEF Same
    <2>4. Lifecycle!Accept(j)
      BY <1>v, <2>1, <2>3 DEF Lifecycle!Accept, Lifecycle!Becomes
    <2> QED
      BY <2>4 DEF Lifecycle!Next
  <1>2. ASSUME NEW w \in Workers, SweepCommit(w) PROVE Lifecycle!Next
    <2> DEFINE S == {k \in Jobs : Loaded(w, k)}
    <2>1. ASSUME NEW k \in S
          PROVE  /\ job[k].status = "running"
                 /\ job'[k].attempts = job[k].attempts
                 /\ job'[k].status =
                      IF job[k].attempts < MaxAttempts THEN "queued" ELSE "dead_letter"
      <3>1. job'[k] = Flush(job[k], session[w][k], Swept(session[w][k]),
                            SweptStamps(session[w][k]))
        BY <1>2, <2>1 DEF SweepCommit
      <3>2. /\ session[w][k] \in Row /\ job[k] \in Row
            /\ session[w][k].status = job[k].status
            /\ session[w][k].attempts = job[k].attempts
        BY <2>1, CurrentCopy
      <3>3. Swept(session[w][k]) \in Row
        BY <3>2, RowTypes
      <3>4. /\ job'[k].status = Swept(session[w][k]).status
            /\ job'[k].attempts = Swept(session[w][k]).attempts
        BY <3>1, <3>2, <3>3, FlushCurrent
      <3>5. job[k].status = "running"
        BY <1>2, <2>1, <3>2 DEF SweepCommit, SessionDiscipline, Loaded
      <3> QED
        BY <1>m, <1>n, <2>1, <3>2, <3>4, <3>5, Assigned
    <2>2. \A k \in Jobs \ S : job'[k] = job[k]
      BY <1>2 DEF SweepCommit
    <2>3. LifecycleView' =
            [k \in Jobs |-> IF k \in S THEN Lifecycle!AfterLoss(LifecycleView[k])
                            ELSE LifecycleView[k]]
      <3>1. ASSUME NEW k \in S
            PROVE  [status |-> job'[k].status, attempts |-> job'[k].attempts]
                     = Lifecycle!AfterLoss(LifecycleView[k])
        <4>1. LifecycleView[k] = [status |-> job[k].status, attempts |-> job[k].attempts]
          BY <1>v
        <4>2. Lifecycle!AfterLoss([status |-> job[k].status, attempts |-> job[k].attempts])
                = [status   |-> IF job[k].attempts < MaxAttempts
                                THEN "queued" ELSE "dead_letter",
                   attempts |-> job[k].attempts]
          BY LossSeen
        <4> QED
          BY <2>1, <4>1, <4>2
      <3>2. ASSUME NEW k \in Jobs \ S
            PROVE  [status |-> job'[k].status, attempts |-> job'[k].attempts] = LifecycleView[k]
        BY <1>v, <2>2
      <3>3. LifecycleView' = [k \in Jobs |-> [status |-> job'[k].status, attempts |-> job'[k].attempts]]
        BY DEF LifecycleView
      <3> QED
        BY <3>1, <3>2, <3>3
    <2>4. Lifecycle!Recover(S)
      BY <1>v, <2>1, <2>3 DEF Lifecycle!Recover
    <2> QED
      BY <2>4 DEF Lifecycle!Next
  <1>3. ASSUME NEW w \in Workers, NEW j \in Jobs, ClaimWin(w, j) PROVE Lifecycle!Next
    <2>1. /\ job[j].status = "queued" /\ job'[j].status = "running"
          /\ job'[j].attempts = job[j].attempts + 1
          /\ \A k \in Jobs \ {j} : job'[k] = job[k]
      BY <1>3, <1>n, Assigned DEF ClaimWin, Claimable, TypeOK
    <2>2. job[j].attempts < MaxAttempts
      BY <2>1 DEF BudgetKept
    <2>3. LifecycleView' =
            [LifecycleView EXCEPT ![j] = [status |-> "running", attempts |-> job[j].attempts + 1]]
      BY <1>t, <2>1, OneRowSeen DEF Same
    <2>4. Lifecycle!Start(j)
      BY <1>v, <2>1, <2>2, <2>3 DEF Lifecycle!Start, Lifecycle!Becomes
    <2> QED
      BY <2>4 DEF Lifecycle!Next
  <1>4. ASSUME NEW w \in Workers, NEW j \in Jobs, NEW new \in Row, NEW stamped,
               FinishWith(w, j, new, stamped), new.attempts = session[w][j].attempts
        PROVE  /\ LifecycleView' =
                    [LifecycleView EXCEPT ![j] = [status |-> new.status, attempts |-> job[j].attempts]]
               /\ job[j].status = "running"
               /\ job[j].attempts = session[w][j].attempts
    <2>1. Loaded(w, j) /\ session[w][j].status = "running"
      BY <1>4 DEF FinishWith, Loaded
    <2>2. job'[j] = Flush(job[j], session[w][j], new, stamped)
            /\ \A k \in Jobs \ {j} : job'[k] = job[k]
      BY <1>4 DEF FinishWith, TypeOK
    <2>3. /\ session[w][j] \in Row /\ job[j] \in Row
          /\ session[w][j].status = job[j].status
          /\ session[w][j].attempts = job[j].attempts
      BY <2>1, CurrentCopy
    <2>4. job'[j].status = new.status /\ job'[j].attempts = new.attempts
      BY <2>2, <2>3, FlushCurrent
    <2> QED
      BY <1>t, <1>4, <2>1, <2>2, <2>3, <2>4, OneRowSeen DEF Same
  <1>5. ASSUME NEW w \in Workers, NEW j \in Jobs, Complete(w, j) PROVE Lifecycle!Next
    <2>1. session[w][j] \in Row
      BY DEF TypeOK
    <2>2. /\ LifecycleView' =
               [LifecycleView EXCEPT ![j] = [status |-> "succeeded", attempts |-> job[j].attempts]]
          /\ job[j].status = "running"
      <3>1. /\ Completed(session[w][j]) \in Row
            /\ Completed(session[w][j]).status = "succeeded"
            /\ Completed(session[w][j]).attempts = session[w][j].attempts
        BY <2>1, RowTypes, Assigned
      <3> QED
        BY <1>4, <1>5, <3>1 DEF Complete
    <2>3. Lifecycle!Succeed(j)
      BY <1>v, <2>2 DEF Lifecycle!Succeed, Lifecycle!Becomes
    <2> QED
      BY <2>3 DEF Lifecycle!Next
  <1>6. ASSUME NEW w \in Workers, NEW j \in Jobs, NEW r \in BOOLEAN, Fail(w, j, r)
        PROVE  Lifecycle!Next
    <2> DEFINE new == Failed(session[w][j], r)
    <2>1. session[w][j] \in Row /\ new \in Row
      BY RowTypes DEF TypeOK
    <2>2. /\ new.attempts = session[w][j].attempts
          /\ new.status = IF Retries(session[w][j], r) THEN "queued"
                          ELSE IF r THEN "dead_letter" ELSE "failed"
      BY <2>1, Assigned
    <2>3. FinishWith(w, j, new, FailedStamps(session[w][j], r))
      BY <1>6 DEF Fail
    <2> HIDE DEF new
    <2>4. /\ LifecycleView' =
               [LifecycleView EXCEPT ![j] = [status |-> new.status, attempts |-> job[j].attempts]]
          /\ job[j].status = "running"
          /\ job[j].attempts = session[w][j].attempts
      BY <1>4, <2>1, <2>2, <2>3
    <2>5. CASE r = FALSE
      <3>1. new.status = "failed"
        BY <2>2, <2>5 DEF Retries
      <3>2. Lifecycle!Reject(j)
        BY <1>v, <2>4, <3>1 DEF Lifecycle!Reject, Lifecycle!Becomes
      <3> QED
        BY <3>2 DEF Lifecycle!Next
    <2>6. CASE r = TRUE
      <3>1. new.status = IF job[j].attempts < MaxAttempts THEN "queued" ELSE "dead_letter"
        BY <2>2, <2>4, <2>6 DEF Retries
      <3>2. [status |-> new.status, attempts |-> job[j].attempts]
              = Lifecycle!AfterLoss(LifecycleView[j])
        <4>1. LifecycleView[j] = [status |-> job[j].status, attempts |-> job[j].attempts]
          BY <1>v
        <4>2. Lifecycle!AfterLoss([status |-> job[j].status, attempts |-> job[j].attempts])
                = [status   |-> IF job[j].attempts < MaxAttempts
                                THEN "queued" ELSE "dead_letter",
                   attempts |-> job[j].attempts]
          BY LossSeen
        <4> QED
          BY <3>1, <4>1, <4>2
      <3>3. Lifecycle!Retry(j)
        BY <1>v, <2>4, <3>2 DEF Lifecycle!Retry
      <3> QED
        BY <3>3 DEF Lifecycle!Next
    <2> QED
      BY <2>5, <2>6
  <1>7. ASSUME NEW a \in Admins, NEW j \in Jobs, ReplayCommit(a, j) PROVE Lifecycle!Next
    <2>1. /\ Loaded(a, j) /\ \A k \in Jobs \ {j} : job'[k] = job[k]
          /\ job'[j] = Flush(job[j], session[a][j], Replayed(session[a][j]),
                             {"available_at"})
      BY <1>7 DEF ReplayCommit, TypeOK
    <2>2. /\ session[a][j] \in Row /\ job[j] \in Row
          /\ session[a][j].status = job[j].status
          /\ session[a][j].attempts = job[j].attempts
      BY <2>1, CurrentCopy
    <2>3. Replayed(session[a][j]) \in Row
      BY <2>2, RowTypes
    <2>4. /\ job'[j].status = Replayed(session[a][j]).status
          /\ job'[j].attempts = Replayed(session[a][j]).attempts
      BY <2>1, <2>2, <2>3, FlushCurrent
    <2>5. job'[j].status = "queued" /\ job'[j].attempts = 0
      BY <2>2, <2>4, Assigned
    <2>6. job[j].status \in {"failed", "dead_letter"}
      BY <2>1, <2>2 DEF SessionDiscipline, Loaded
    <2>7. LifecycleView' = [LifecycleView EXCEPT ![j] = [status |-> "queued", attempts |-> 0]]
      BY <1>t, <2>1, <2>5, OneRowSeen DEF Same
    <2>8. Lifecycle!Replay(j)
      BY <1>v, <2>6, <2>7 DEF Lifecycle!Replay, Lifecycle!Becomes
    <2> QED
      BY <2>8 DEF Lifecycle!Next
  <1>8. ASSUME NEW j \in Jobs, BackoffElapses(j) PROVE LifecycleView' = LifecycleView
    <2>1. \A k \in Jobs : Same(k)
      BY <1>n, <1>8 DEF BackoffElapses, Same, TypeOK, Row
    <2> QED
      BY <2>1, StutterSeen
  <1>9. ASSUME NEW j \in Jobs, LeaseLapses(j) PROVE LifecycleView' = LifecycleView
    <2>1. \A k \in Jobs : Same(k)
      BY <1>n, <1>9 DEF LeaseLapses, Same, TypeOK, Row
    <2> QED
      BY <2>1, StutterSeen
  <1>10. ASSUME job' = job PROVE LifecycleView' = LifecycleView
    BY <1>10 DEF LifecycleView
  <1>11. ASSUME NEW w \in Workers,
                SweepRead(w) \/ ClaimRead(w) \/ Load(w) \/ Reload(w)
                  \/ FinishRejected(w) \/ Crash(w) \/ Restart(w)
         PROVE  job' = job
    BY <1>11 DEF SweepRead, ClaimRead, Load, Reload, FinishRejected, Crash, Restart
  <1>12. ASSUME NEW w \in Workers, NEW j \in Jobs, ClaimMiss(w, j) PROVE job' = job
    BY <1>12 DEF ClaimMiss
  <1>13. ASSUME NEW a \in Admins, NEW j \in Jobs, ReplayRead(a, j) PROVE job' = job
    BY <1>13 DEF ReplayRead
  <1>14. CASE UNCHANGED vars
    BY <1>10, <1>14 DEF vars
  <1> QED
    BY <1>1, <1>2, <1>3, <1>5, <1>6, <1>7, <1>8, <1>9, <1>10, <1>11, <1>12,
       <1>13, <1>14
    DEF Next, Claim, Finish, Clock

\* One worker and one operator: the queue keeps the lifecycle promise. A job is
\* attempted at most max_attempts times per budget, a success is final, a
\* dead letter has used its budget, and only a replay opens a new one.
THEOREM SoloImplementsLifecycle ==
    ASSUME Solo
    PROVE  Spec => ImplementsLifecycle
  <1>1. Init => Lifecycle!Init
    BY DEF Init, Lifecycle!Init, LifecycleView, NoRow
  <1>2. Init => SoloInv
    <2> SUFFICES ASSUME Init PROVE SoloInv
      OBVIOUS
    <2>1. CopiesAreCurrent
      BY DEF Init, CopiesAreCurrent, Loaded, NothingLoaded, NoRow, Sessions
    <2>2. HeldIsRunning
      BY DEF Init, HeldIsRunning
    <2>3. BudgetKept
      BY DEF Init, BudgetKept, NoRow
    <2> QED
      BY <2>1, <2>2, <2>3 DEF SoloInv
  <1>3. TypeOK /\ SessionDiscipline /\ SoloInv /\ [Next]_vars => SoloInv'
    BY SoloStep
  <1>4. TypeOK /\ SessionDiscipline /\ SoloInv /\ [Next]_vars
          => [Lifecycle!Next]_LifecycleView
    BY RefinementStep
  <1> QED
    BY <1>1, <1>2, <1>3, <1>4, TypeInit, TypeStep, DisciplineInit, DisciplineStep, PTL
    DEF Spec, ImplementsLifecycle, Lifecycle!Spec

===============================================================================
