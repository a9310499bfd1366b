---------------------------- MODULE JobQueueProofs ----------------------------
(***************************************************************************)
(* Proofs about JobQueue for any number of jobs, workers and replay        *)
(* requests and any retry budget.                                          *)
(***************************************************************************)
EXTENDS JobQueue, FiniteSetTheorems, TLAPS

-------------------------------------------------------------------------------
(* Rows: what the operations make of a row is a row. *)

\* A commit of well-typed objects leaves a well-typed row.
LEMMA FlushType ==
    ASSUME NEW row \in Row, NEW old \in Row, NEW new \in Row, NEW stamped
    PROVE  Flush(row, old, new, stamped) \in Row
  BY DEF Flush, Column, Row

\* The clock changes one column.
LEMMA ClockTypes ==
    ASSUME NEW old \in Row
    PROVE  [old EXCEPT !.due = TRUE] \in Row /\ [old EXCEPT !.lock = "lapsed"] \in Row
  BY DEF Row

\* NoRow, the row of a new job and the objects each operation assigns.
LEMMA RowTypes ==
    /\ NoRow \in Row
    /\ NewRow \in Row
    /\ \A old \in Row :
         /\ Claimed(old) \in Row
         /\ Swept(old) \in Row
         /\ Completed(old) \in Row
         /\ Replayed(old) \in Row
         /\ \A r \in BOOLEAN : Failed(old, r) \in Row
  <1>1. NoRow \in Row /\ NewRow \in Row
    BY DEF NoRow, NewRow, Row, Status, Terminal
  <1>2. ASSUME NEW old \in Row PROVE Claimed(old) \in Row
    <2>1. old.attempts + 1 \in Nat
      BY DEF Row
    <2> QED
      BY <2>1 DEF Claimed, Row, Status, Terminal
  <1>3. ASSUME NEW old \in Row PROVE Swept(old) \in Row
    BY DEF Swept, Row, Status, Terminal
  <1>4. ASSUME NEW old \in Row PROVE Completed(old) \in Row
    BY DEF Completed, Row, Status, Terminal
  <1>5. ASSUME NEW old \in Row PROVE Replayed(old) \in Row
    BY DEF Replayed, Row, Status
  <1>6. ASSUME NEW old \in Row, NEW r \in BOOLEAN PROVE Failed(old, r) \in Row
    BY DEF Failed, Retries, Row, Status, Terminal
  <1> QED
    BY <1>1, <1>2, <1>3, <1>4, <1>5, <1>6

-------------------------------------------------------------------------------
(* Type correctness *)

\* What a session reads is well typed.
LEMMA CopyType == TypeOK => \A S : Copy(S) \in [Jobs -> Row]
  BY RowTypes DEF TypeOK, Copy

\* The empty table and idle workers are well typed.
LEMMA TypeInit == Init => TypeOK
  BY RowTypes DEF Init, TypeOK, NothingLoaded, Sessions

\* No action of the queue leaves the type invariant.
LEMMA TypeStep == TypeOK /\ [Next]_vars => TypeOK'
  <1> SUFFICES ASSUME TypeOK, [Next]_vars PROVE TypeOK'
    OBVIOUS
  <1> USE RowTypes, CopyType DEF TypeOK, NothingLoaded, Sessions
  <1>1. ASSUME NEW w \in Workers, SweepRead(w) PROVE TypeOK'
    BY <1>1 DEF SweepRead
  <1>2. ASSUME NEW w \in Workers, SweepCommit(w) PROVE TypeOK'
    <2>1. job' \in [Jobs -> Row]
      BY <1>2, FlushType DEF SweepCommit
    <2> QED
      BY <1>2, <2>1 DEF SweepCommit
  <1>3. ASSUME NEW w \in Workers, ClaimRead(w) PROVE TypeOK'
    BY <1>3 DEF ClaimRead, Ready
  <1>4. ASSUME NEW w \in Workers, NEW j \in Jobs, ClaimWin(w, j) PROVE TypeOK'
    <2>1. job' \in [Jobs -> Row]
      BY <1>4 DEF ClaimWin
    <2> QED
      BY <1>4, <2>1 DEF ClaimWin
  <1>5. ASSUME NEW w \in Workers, NEW j \in Jobs, ClaimMiss(w, j) PROVE TypeOK'
    BY <1>5 DEF ClaimMiss
  <1>6. ASSUME NEW w \in Workers, Load(w) PROVE TypeOK'
    BY <1>6 DEF Load
  <1>7. ASSUME NEW w \in Workers, Reload(w) PROVE TypeOK'
    BY <1>7 DEF Reload
  <1>8. ASSUME NEW w \in Workers, NEW j \in Jobs, NEW new \in Row, NEW stamped,
               FinishWith(w, j, new, stamped)
        PROVE  TypeOK'
    <2>1. job' \in [Jobs -> Row]
      BY <1>8, FlushType DEF FinishWith
    <2> QED
      BY <1>8, <2>1 DEF FinishWith
  <1>9. ASSUME NEW w \in Workers, NEW j \in Jobs, Complete(w, j) PROVE TypeOK'
    BY <1>8, <1>9 DEF Complete
  <1>10. ASSUME NEW w \in Workers, NEW j \in Jobs, NEW r \in BOOLEAN, Fail(w, j, r)
        PROVE  TypeOK'
    BY <1>8, <1>10 DEF Fail
  <1>11. ASSUME NEW w \in Workers, FinishRejected(w) PROVE TypeOK'
    BY <1>11 DEF FinishRejected
  <1>12. ASSUME NEW w \in Workers, Crash(w) PROVE TypeOK'
    BY <1>12 DEF Crash
  <1>13. ASSUME NEW w \in Workers, Restart(w) PROVE TypeOK'
    BY <1>13 DEF Restart
  <1>14. ASSUME NEW a \in Admins, NEW j \in Jobs, ReplayRead(a, j) PROVE TypeOK'
    BY <1>14 DEF ReplayRead
  <1>15. ASSUME NEW a \in Admins, NEW j \in Jobs, ReplayCommit(a, j) PROVE TypeOK'
    <2>1. job' \in [Jobs -> Row]
      BY <1>15, FlushType DEF ReplayCommit
    <2> QED
      BY <1>15, <2>1 DEF ReplayCommit
  <1>16. ASSUME NEW j \in Jobs, Enqueue(j) PROVE TypeOK'
    BY <1>16 DEF Enqueue
  <1>17. ASSUME NEW j \in Jobs, BackoffElapses(j) PROVE TypeOK'
    <2>1. [job[j] EXCEPT !.due = TRUE] \in Row
      BY ClockTypes
    <2>2. job' = [job EXCEPT ![j] = [job[j] EXCEPT !.due = TRUE]]
      BY <1>17 DEF BackoffElapses
    <2> QED
      BY <1>17, <2>1, <2>2 DEF BackoffElapses
  <1>18. ASSUME NEW j \in Jobs, LeaseLapses(j) PROVE TypeOK'
    <2>1. [job[j] EXCEPT !.lock = "lapsed"] \in Row
      BY ClockTypes
    <2>2. job' = [job EXCEPT ![j] = [job[j] EXCEPT !.lock = "lapsed"]]
      BY <1>18 DEF LeaseLapses
    <2> QED
      BY <1>18, <2>1, <2>2 DEF LeaseLapses
  <1>19. CASE UNCHANGED vars
    BY <1>19 DEF vars
  <1> QED
    BY <1>1, <1>2, <1>3, <1>4, <1>5, <1>6, <1>7, <1>9, <1>10, <1>11, <1>12,
       <1>13, <1>14, <1>15, <1>16, <1>17, <1>18, <1>19
    DEF Next, Claim, Finish, Clock

\* Every reachable state is well typed: no column or worker leaves its domain.
THEOREM TypeCorrect == Spec => []TypeOK
  BY TypeInit, TypeStep, PTL DEF Spec

-------------------------------------------------------------------------------
(* Which rows sessions hold *)

\* The discipline of sessions holds initially.
LEMMA DisciplineInit == Init => SessionDiscipline
  BY DEF Init, SessionDiscipline, NothingLoaded, NoRow, Sessions

\* No action lets a session hold a row it should not.
LEMMA DisciplineStep ==
    TypeOK /\ SessionDiscipline /\ [Next]_vars => SessionDiscipline'
  <1> SUFFICES ASSUME TypeOK, SessionDiscipline, [Next]_vars
               PROVE  SessionDiscipline'
    OBVIOUS
  <1> USE JobQueueAssumption DEF TypeOK, SessionDiscipline, NothingLoaded, Sessions
  <1>1. ASSUME NEW w \in Workers, SweepRead(w) PROVE SessionDiscipline'
    <2>1. Expired = {} => Copy(Expired) = [k \in Jobs |-> NoRow]
      BY DEF Copy
    <2>2. \A k \in Jobs : Copy(Expired)[k].status \in {"absent", "running"}
      BY DEF Copy, Expired, NoRow
    <2>3. session'[w] = Copy(Expired) /\ \A s \in Sessions \ {w} : session'[s] = session[s]
      BY <1>1 DEF SweepRead
    <2>4. pc'[w] = (IF Expired = {} THEN "poll" ELSE "sweep")
            /\ \A v \in Workers \ {w} : pc'[v] = pc[v]
      BY <1>1 DEF SweepRead
    <2>5. \A v \in Workers :
            pc'[v] \in {"idle", "poll", "claim", "load", "down"}
              => session'[v] = [k \in Jobs |-> NoRow]
      BY <2>1, <2>3, <2>4
    <2>6. \A v \in Workers, k \in Jobs :
            pc'[v] = "sweep" => session'[v][k].status \in {"absent", "running"}
      BY <2>2, <2>3, <2>4
    <2>7. \A a \in Admins : session'[a] = session[a]
      BY <2>3
    <2> QED
      BY <2>5, <2>6, <2>7
  <1>2. ASSUME NEW w \in Workers, SweepCommit(w) PROVE SessionDiscipline'
    BY <1>2 DEF SweepCommit
  <1>3. ASSUME NEW w \in Workers, ClaimRead(w) PROVE SessionDiscipline'
    BY <1>3 DEF ClaimRead
  <1>4. ASSUME NEW w \in Workers, NEW j \in Jobs, ClaimWin(w, j) \/ ClaimMiss(w, j)
        PROVE  SessionDiscipline'
    BY <1>4 DEF ClaimWin, ClaimMiss
  <1>5. ASSUME NEW w \in Workers, Load(w) PROVE SessionDiscipline'
    BY <1>5 DEF Load
  <1>6. ASSUME NEW w \in Workers, Reload(w) PROVE SessionDiscipline'
    BY <1>6 DEF Reload
  <1>7. ASSUME NEW w \in Workers, NEW j \in Jobs, NEW new, NEW stamped,
               FinishWith(w, j, new, stamped)
        PROVE  SessionDiscipline'
    BY <1>7 DEF FinishWith
  <1>8. ASSUME NEW w \in Workers, Finish(w) PROVE SessionDiscipline'
    <2>1. CASE FinishRejected(w)
      BY <2>1 DEF FinishRejected
    <2> QED
      BY <1>7, <1>8, <2>1 DEF Finish, Complete, Fail
  <1>9. ASSUME NEW w \in Workers, Crash(w) PROVE SessionDiscipline'
    BY <1>9 DEF Crash
  <1>10. ASSUME NEW w \in Workers, Restart(w) PROVE SessionDiscipline'
    BY <1>10 DEF Restart
  <1>11. ASSUME NEW a \in Admins, NEW j \in Jobs, ReplayRead(a, j)
         PROVE  SessionDiscipline'
    <2>1. \A k \in Jobs :
            Copy({j})[k].status \in {"absent", "failed", "dead_letter"}
      BY <1>11 DEF ReplayRead, Copy, NoRow
    <2>2. session'[a] = Copy({j}) /\ \A s \in Sessions \ {a} : session'[s] = session[s]
      BY <1>11 DEF ReplayRead
    <2>3. \A w \in Workers : session'[w] = session[w] /\ pc'[w] = pc[w]
      BY <1>11, <2>2 DEF ReplayRead
    <2>4. \A b \in Admins, k \in Jobs :
            session'[b][k].status \in {"absent", "failed", "dead_letter"}
      BY <2>1, <2>2
    <2> QED
      BY <2>3, <2>4
  <1>12. ASSUME NEW a \in Admins, NEW j \in Jobs, ReplayCommit(a, j)
         PROVE  SessionDiscipline'
    BY <1>12 DEF ReplayCommit, NoRow
  <1>13. ASSUME NEW j \in Jobs, Enqueue(j) \/ Clock(j) PROVE SessionDiscipline'
    BY <1>13 DEF Enqueue, Clock, BackoffElapses, LeaseLapses
  <1>14. CASE UNCHANGED vars
    BY <1>14 DEF vars
  <1> QED
    BY <1>1, <1>2, <1>3, <1>4, <1>5, <1>6, <1>8, <1>9, <1>10, <1>11, <1>12,
       <1>13, <1>14
    DEF Next, Claim

-------------------------------------------------------------------------------
(* A job is never lost, and a final status is always stamped *)

\* Whatever stale copy a session commits, the row it leaves is not running;
\* and if it is final it has completed_at.
LEMMA CommitEnds ==
    ASSUME NEW row \in Row, NEW old \in Row, NEW new, NEW stamped,
           \/ /\ old.status = "running" /\ new = Swept(old)
              /\ stamped = SweptStamps(old)
           \/ /\ old.status = "running" /\ new = Completed(old)
              /\ stamped = {"completed_at"}
           \/ \E r \in BOOLEAN :
                /\ old.status = "running" /\ new = Failed(old, r)
                /\ stamped = FailedStamps(old, r)
           \/ /\ old.status \in {"failed", "dead_letter"} /\ new = Replayed(old)
    PROVE  LET r == Flush(row, old, new, stamped)
           IN  r.status # "running" /\ (r.status \in Terminal => r.done)
  <1>1. CASE old.status = "running" /\ new = Swept(old) /\ stamped = SweptStamps(old)
    BY <1>1 DEF Flush, Column, Swept, SweptStamps, Row, Terminal
  <1>2. CASE /\ old.status = "running" /\ new = Completed(old)
             /\ stamped = {"completed_at"}
    BY <1>2 DEF Flush, Column, Completed, Row, Terminal
  <1>3. ASSUME NEW r \in BOOLEAN, old.status = "running", new = Failed(old, r),
               stamped = FailedStamps(old, r)
        PROVE  LET f == Flush(row, old, new, stamped)
               IN  f.status # "running" /\ (f.status \in Terminal => f.done)
    BY <1>3 DEF Flush, Column, Failed, FailedStamps, Retries, Row, Terminal
  <1>4. CASE old.status \in {"failed", "dead_letter"} /\ new = Replayed(old)
    BY <1>4 DEF Flush, Column, Replayed, Row, Terminal
  <1> QED
    BY <1>1, <1>2, <1>3, <1>4

RowsSound == RunningIsRecoverable /\ TerminalIsStamped

\* No action loses a running job's lock or leaves a final status unstamped.
LEMMA RowsStep ==
    TypeOK /\ SessionDiscipline /\ RowsSound /\ [Next]_vars => RowsSound'
  <1> SUFFICES ASSUME TypeOK, SessionDiscipline, RowsSound, [Next]_vars
               PROVE  RowsSound'
    OBVIOUS
  <1> DEFINE Sound(r) == /\ r.status = "running" => r.lock # "none"
                         /\ r.status \in Terminal => r.done
  <1>0. SUFFICES ASSUME NEW k \in Jobs PROVE Sound(job'[k])
    BY DEF RowsSound, RunningIsRecoverable, TerminalIsStamped
  <1>a. Sound(job[k])
    BY DEF RowsSound, RunningIsRecoverable, TerminalIsStamped
  <1> USE DEF TypeOK, Sessions
  <1>1. ASSUME NEW w \in Workers, SweepCommit(w) PROVE Sound(job'[k])
    <2>1. CASE ~Loaded(w, k)
      BY <1>a, <1>1, <2>1 DEF SweepCommit
    <2>2. CASE Loaded(w, k)
      <3>1. session[w][k].status = "running"
        BY <1>1, <2>2 DEF SweepCommit, Loaded, SessionDiscipline
      <3> QED
        BY <1>1, <2>2, <3>1, CommitEnds DEF SweepCommit
    <2> QED
      BY <2>1, <2>2
  <1>2. ASSUME NEW w \in Workers, NEW j \in Jobs, ClaimWin(w, j)
        PROVE  Sound(job'[k])
    <2>1. Sound(Claimed(job[j]))
      BY DEF Claimed, Row, Terminal
    <2> QED
      BY <1>a, <1>2, <2>1 DEF ClaimWin
  <1>3. ASSUME NEW w \in Workers, NEW j \in Jobs, Complete(w, j)
        PROVE  Sound(job'[k])
    BY <1>a, <1>3, CommitEnds DEF Complete, FinishWith
  <1>4. ASSUME NEW w \in Workers, NEW j \in Jobs, NEW r \in BOOLEAN, Fail(w, j, r)
        PROVE  Sound(job'[k])
    BY <1>a, <1>4, CommitEnds DEF Fail, FinishWith
  <1>5. ASSUME NEW a \in Admins, NEW j \in Jobs, ReplayCommit(a, j)
        PROVE  Sound(job'[k])
    <2>1. session[a][j].status \in {"failed", "dead_letter"}
      BY <1>5 DEF ReplayCommit, Loaded, SessionDiscipline
    <2> QED
      BY <1>a, <1>5, <2>1, CommitEnds DEF ReplayCommit
  <1>6. ASSUME NEW j \in Jobs, Enqueue(j) PROVE Sound(job'[k])
    BY <1>a, <1>6 DEF Enqueue, NewRow, NoRow, Terminal
  <1>7. ASSUME NEW j \in Jobs, BackoffElapses(j) PROVE Sound(job'[k])
    BY <1>a, <1>7 DEF BackoffElapses, Row
  <1>8. ASSUME NEW j \in Jobs, LeaseLapses(j) PROVE Sound(job'[k])
    BY <1>a, <1>8 DEF LeaseLapses, Row
  <1>9. ASSUME job' = job PROVE Sound(job'[k])
    BY <1>a, <1>9
  <1>10. ASSUME NEW w \in Workers,
                SweepRead(w) \/ ClaimRead(w) \/ Load(w) \/ Reload(w)
                  \/ FinishRejected(w) \/ Crash(w) \/ Restart(w)
         PROVE  job' = job
    BY <1>10 DEF SweepRead, ClaimRead, Load, Reload, FinishRejected, Crash, Restart
  <1>11. ASSUME NEW w \in Workers, NEW j \in Jobs, ClaimMiss(w, j) PROVE job' = job
    BY <1>11 DEF ClaimMiss
  <1>12. ASSUME NEW a \in Admins, NEW j \in Jobs, ReplayRead(a, j) PROVE job' = job
    BY <1>12 DEF ReplayRead
  <1>13. CASE UNCHANGED vars
    BY <1>9, <1>13 DEF vars
  <1> QED
    BY <1>1, <1>2, <1>3, <1>4, <1>5, <1>6, <1>7, <1>8, <1>9, <1>10, <1>11,
       <1>12, <1>13
    DEF Next, Claim, Finish, Clock

\* The three invariants together are inductive.
LEMMA RowsSafe == Spec => [](TypeOK /\ SessionDiscipline /\ RowsSound)
  <1>1. Init => RowsSound
    BY DEF Init, RowsSound, RunningIsRecoverable, TerminalIsStamped, NoRow, Terminal
  <1> QED
    BY <1>1, TypeInit, TypeStep, DisciplineInit, DisciplineStep, RowsStep, PTL
    DEF Spec

\* No job is lost: for any number of workers and replay requests, a running row
\* always has the locked_at by which requeue_expired_jobs can find it, and a
\* final status always comes with completed_at, although stale sessions write
\* the columns of one row in separate commits.
THEOREM RowsStayStamped == Spec => []StampsFollowStatus
  <1>1. RowsSound => StampsFollowStatus
    BY DEF RowsSound, StampsFollowStatus
  <1> QED
    BY <1>1, RowsSafe, PTL

-------------------------------------------------------------------------------
(* How far the retry budget can be overshot *)

\* Sessions and every set of them are finite.
LEMMA CarriersFinite ==
    ASSUME NEW C \in SUBSET Sessions
    PROVE  /\ IsFiniteSet(C)
           /\ Cardinality(C) \in Nat
           /\ Cardinality(C) <= Cardinality(Sessions)
           /\ Cardinality(Sessions) \in Nat
  <1>1. IsFiniteSet(Sessions)
    BY JobQueueAssumption, FS_Union DEF Sessions
  <1> QED
    BY <1>1, FS_Subset, FS_CardinalityType

\* A proper subset of a set of sessions is smaller.
LEMMA FewerCarriers ==
    ASSUME NEW C \in SUBSET Sessions, NEW D \in SUBSET C
    PROVE  /\ Cardinality(D) <= Cardinality(C)
           /\ D # C => Cardinality(D) < Cardinality(C)
  <1>1. IsFiniteSet(C) /\ Cardinality(C) \in Nat /\ Cardinality(D) \in Nat
    BY CarriersFinite
  <1>2. Cardinality(D) <= Cardinality(C) /\ (Cardinality(C) = Cardinality(D) => C = D)
    BY <1>1, FS_Subset
  <1> QED
    BY <1>1, <1>2

Covered(j) ==
    job[j].attempts >= MaxAttempts => Debt(j) < MaxAttempts + Cardinality(Sessions)

\* A step keeps the debt of a job covered when it resets the attempts, or when
\* it adds none and pays for a return to the queue with a carrier.
LEMMA DebtKept ==
    ASSUME TypeOK, TypeOK', NEW j \in Jobs, Covered(j),
           \/ job'[j].attempts < MaxAttempts
           \/ /\ job'[j].attempts = job[j].attempts
              /\ Carriers(j)' \subseteq Carriers(j)
              /\ \/ job'[j].status = "queued" => job[j].status = "queued"
                 \/ Carriers(j)' # Carriers(j)
    PROVE  Covered(j)'
  <1>1. job[j].attempts \in Nat /\ job'[j].attempts \in Nat /\ MaxAttempts \in Nat
    BY JobQueueAssumption DEF TypeOK, Row
  <1>2. Carriers(j) \in SUBSET Sessions /\ (Carriers(j))' \in SUBSET Sessions
    BY DEF Carriers, Sessions
  <1>3. /\ Cardinality(Carriers(j)) \in Nat
        /\ Cardinality((Carriers(j))') \in Nat
        /\ Cardinality(Sessions) \in Nat
    BY <1>2, CarriersFinite
  <1>4. CASE job'[j].attempts < MaxAttempts
    BY <1>1, <1>4 DEF Covered
  <1>5. CASE /\ job'[j].attempts = job[j].attempts
             /\ (Carriers(j))' \subseteq Carriers(j)
             /\ \/ job'[j].status = "queued" => job[j].status = "queued"
                \/ (Carriers(j))' # Carriers(j)
    <2>1. Cardinality((Carriers(j))') <= Cardinality(Carriers(j))
      BY <1>2, <1>5, FewerCarriers
    <2>2. (Carriers(j))' # Carriers(j)
            => Cardinality((Carriers(j))') < Cardinality(Carriers(j))
      BY <1>2, <1>5, FewerCarriers
    <2> QED
      BY <1>1, <1>3, <1>5, <2>1, <2>2 DEF Covered, Debt, Sessions
  <1> QED
    BY <1>4, <1>5

\* Giving up its whole identity map removes a session from the carriers.
LEMMA Discarded ==
    ASSUME TypeOK, NEW s \in Sessions, NEW k \in Jobs,
           session' = [session EXCEPT ![s] = NothingLoaded]
    PROVE  (Carriers(k))' = Carriers(k) \ {s}
  BY DEF Carriers, Loaded, NothingLoaded, NoRow, TypeOK, Sessions

\* A session that reads rows carries no budget of a job that has none left.
LEMMA ReadKept ==
    ASSUME TypeOK, TypeOK', NEW s \in Sessions, NEW S, NEW k \in Jobs, Covered(k),
           session' = [session EXCEPT ![s] = Copy(S)], job' = job
    PROVE  Covered(k)'
  <1>1. CASE job[k].attempts < MaxAttempts
    BY <1>1, DebtKept
  <1>2. CASE ~(job[k].attempts < MaxAttempts)
    <2>1. session'[s][k] = job[k] \/ session'[s][k] = NoRow
      BY DEF Copy, TypeOK
    <2>2. \A t \in Sessions \ {s} : session'[t] = session[t]
      BY DEF TypeOK
    <2>3. (Carriers(k))' \subseteq Carriers(k)
      BY <1>2, <2>1, <2>2 DEF Carriers, Loaded, NoRow, Sessions
    <2> QED
      BY <2>3, DebtKept
  <1> QED
    BY <1>1, <1>2

\* A commit by a session that gives up its copy keeps the debt covered.
LEMMA CommitKept ==
    ASSUME TypeOK, TypeOK', NEW s \in Sessions, NEW k \in Jobs, Covered(k),
           session' = [session EXCEPT ![s] = NothingLoaded],
           Loaded(s, k),
           \/ job'[k].attempts < MaxAttempts
           \/ /\ job'[k].attempts = job[k].attempts
              /\ job'[k].status = "queued" => session[s][k].attempts < MaxAttempts
    PROVE  Covered(k)'
  <1>1. (Carriers(k))' = Carriers(k) \ {s}
    BY Discarded
  <1>2. CASE session[s][k].attempts < MaxAttempts
    <2>1. s \in Carriers(k)
      BY <1>2 DEF Carriers
    <2> QED
      BY <1>1, <2>1, DebtKept
  <1>3. CASE ~(session[s][k].attempts < MaxAttempts)
    BY <1>1, <1>3, DebtKept
  <1> QED
    BY <1>2, <1>3

\* A claim starts an attempt that the queued row's debt has already paid for.
LEMMA ClaimKept ==
    ASSUME TypeOK, TypeOK', SessionDiscipline, NEW w \in Workers, NEW k \in Jobs,
           ClaimWin(w, k), Covered(k)
    PROVE  Covered(k)'
  <1>1. /\ job[k].attempts \in Nat /\ MaxAttempts \in Nat \ {0}
        /\ job'[k].attempts = job[k].attempts + 1
        /\ job[k].status = "queued" /\ job'[k].status = "running"
    BY JobQueueAssumption DEF ClaimWin, Claimable, Claimed, TypeOK, Row
  <1>2. (Carriers(k))' = Carriers(k)
    BY DEF ClaimWin, Carriers, Loaded, Sessions
  <1>3. Carriers(k) \in SUBSET Sessions /\ Carriers(k) # Sessions
    BY DEF ClaimWin, SessionDiscipline, Carriers, Loaded, NothingLoaded, NoRow, Sessions
  <1>4. /\ Cardinality(Carriers(k)) \in Nat /\ Cardinality(Sessions) \in Nat
        /\ Cardinality(Carriers(k)) < Cardinality(Sessions)
    BY <1>3, CarriersFinite, FewerCarriers
  <1> QED
    BY <1>1, <1>2, <1>4 DEF Covered, Debt, Sessions

\* No action uncovers the debt of a job.
LEMMA DebtStep ==
    TypeOK /\ SessionDiscipline /\ DebtCovered /\ [Next]_vars => DebtCovered'
  <1> SUFFICES ASSUME TypeOK, SessionDiscipline, [Next]_vars, NEW k \in Jobs, Covered(k)
               PROVE  Covered(k)'
    BY DEF DebtCovered, Covered, Sessions
  <1> USE DEF Sessions
  <1>t. TypeOK'
    BY TypeStep
  <1>u. /\ \A s \in Sessions : session[s] \in [Jobs -> Row]
        /\ job[k] \in Row /\ job[k].attempts \in Nat
        /\ MaxAttempts \in Nat \ {0}
    BY JobQueueAssumption DEF TypeOK, Row
  <1>0. ASSUME session' = session, job'[k].attempts = job[k].attempts,
               job'[k].status = "queued" => job[k].status = "queued"
        PROVE  Covered(k)'
    <2>1. (Carriers(k))' = Carriers(k)
      BY <1>0 DEF Carriers, Loaded
    <2> QED
      BY <1>0, <1>t, <2>1, DebtKept
  <1>e. ASSUME NEW s \in Sessions, session' = [session EXCEPT ![s] = NothingLoaded],
               job'[k] = job[k]
        PROVE  Covered(k)'
    BY <1>t, <1>e, Discarded, DebtKept
  <1>1. ASSUME NEW w \in Workers, SweepRead(w) PROVE Covered(k)'
    BY <1>t, <1>1, ReadKept DEF SweepRead
  <1>2. ASSUME NEW w \in Workers, SweepCommit(w) PROVE Covered(k)'
    <2>1. CASE ~Loaded(w, k)
      BY <1>2, <1>e, <2>1 DEF SweepCommit
    <2>2. CASE Loaded(w, k)
      <3>1. /\ session[w][k].status = "running" /\ session[w][k] \in Row
            /\ session[w][k].attempts \in Nat
        BY <1>2, <1>u, <2>2 DEF SweepCommit, Loaded, SessionDiscipline, Row
      <3>2. job'[k] = Flush(job[k], session[w][k], Swept(session[w][k]),
                            SweptStamps(session[w][k]))
        BY <1>2, <2>2 DEF SweepCommit
      <3>3. job'[k].attempts = job[k].attempts
        BY <3>1, <3>2 DEF Flush, Column, Swept, Row
      <3>4. job'[k].status = "queued" => session[w][k].attempts < MaxAttempts
        BY <1>u, <3>1, <3>2 DEF Flush, Column, Swept, Row
      <3> QED
        BY <1>t, <1>2, <2>2, <3>3, <3>4, CommitKept DEF SweepCommit
    <2> QED
      BY <2>1, <2>2
  <1>3. ASSUME NEW w \in Workers, ClaimRead(w) PROVE Covered(k)'
    BY <1>0, <1>3 DEF ClaimRead
  <1>4. ASSUME NEW w \in Workers, NEW j \in Jobs, ClaimWin(w, j) PROVE Covered(k)'
    <2>1. CASE j = k
      BY <1>t, <1>4, <2>1, ClaimKept
    <2>2. CASE j # k
      BY <1>0, <1>4, <2>2 DEF ClaimWin, TypeOK
    <2> QED
      BY <2>1, <2>2
  <1>5. ASSUME NEW w \in Workers, NEW j \in Jobs, ClaimMiss(w, j) PROVE Covered(k)'
    BY <1>0, <1>5 DEF ClaimMiss
  <1>6. ASSUME NEW w \in Workers, Load(w) PROVE Covered(k)'
    BY <1>t, <1>6, ReadKept DEF Load
  <1>7. ASSUME NEW w \in Workers, Reload(w) PROVE Covered(k)'
    BY <1>t, <1>7, ReadKept DEF Reload
  <1>8. ASSUME NEW w \in Workers, NEW j \in Jobs, NEW new, NEW stamped,
               FinishWith(w, j, new, stamped),
               new.attempts = session[w][j].attempts,
               new.status # "running",
               new.status = "queued" => session[w][j].attempts < MaxAttempts
        PROVE  Covered(k)'
    <2>1. CASE j # k
      BY <1>8, <1>e, <2>1 DEF FinishWith, TypeOK
    <2>2. CASE j = k
      <3>1. job'[k] = Flush(job[k], session[w][k], new, stamped)
        BY <1>8, <2>2 DEF FinishWith, TypeOK
      <3>2. session[w][k].status = "running"
        BY <1>8, <2>2 DEF FinishWith
      <3>3. job'[k].attempts = job[k].attempts /\ job'[k].status = new.status
        BY <1>8, <2>2, <3>1, <3>2 DEF Flush, Column
      <3> QED
        BY <1>t, <1>8, <2>2, <3>2, <3>3, CommitKept DEF FinishWith, Loaded
    <2> QED
      BY <2>1, <2>2
  <1>9. ASSUME NEW w \in Workers, NEW j \in Jobs, Complete(w, j) PROVE Covered(k)'
    <2>1. LET new == Completed(session[w][j])
          IN  new.attempts = session[w][j].attempts /\ new.status = "succeeded"
      BY <1>u DEF Completed, Row
    <2> QED
      BY <1>8, <1>9, <2>1 DEF Complete
  <1>10. ASSUME NEW w \in Workers, NEW j \in Jobs, NEW r \in BOOLEAN, Fail(w, j, r)
         PROVE  Covered(k)'
    <2>1. LET new == Failed(session[w][j], r)
          IN  /\ new.attempts = session[w][j].attempts
              /\ new.status # "running"
              /\ new.status = "queued" => session[w][j].attempts < MaxAttempts
      BY <1>u DEF Failed, Retries, Row
    <2> QED
      BY <1>8, <1>10, <2>1 DEF Fail
  <1>11. ASSUME NEW w \in Workers, FinishRejected(w) PROVE Covered(k)'
    BY <1>e, <1>11 DEF FinishRejected
  <1>12. ASSUME NEW w \in Workers, Crash(w) PROVE Covered(k)'
    BY <1>e, <1>12 DEF Crash
  <1>13. ASSUME NEW w \in Workers, Restart(w) PROVE Covered(k)'
    BY <1>0, <1>13 DEF Restart
  <1>14. ASSUME NEW a \in Admins, NEW j \in Jobs, ReplayRead(a, j) PROVE Covered(k)'
    BY <1>t, <1>14, ReadKept DEF ReplayRead
  <1>15. ASSUME NEW a \in Admins, NEW j \in Jobs, ReplayCommit(a, j) PROVE Covered(k)'
    <2>1. CASE j # k
      BY <1>15, <1>e, <2>1 DEF ReplayCommit, TypeOK
    <2>2. CASE j = k
      <3>1. job'[k] = Flush(job[k], session[a][k], Replayed(session[a][k]), {"available_at"})
        BY <1>15, <2>2 DEF ReplayCommit, TypeOK
      <3>2. session[a][k] \in Row
        BY <1>u
      <3>3. IF session[a][k].attempts = 0 THEN job'[k].attempts = job[k].attempts
            ELSE job'[k].attempts = 0
        BY <3>1, <3>2 DEF Flush, Column, Replayed, Row
      <3>4. \/ job'[k].attempts < MaxAttempts
            \/ /\ job'[k].attempts = job[k].attempts
               /\ session[a][k].attempts < MaxAttempts
        BY <1>u, <3>3
      <3>5. Loaded(a, k) /\ session' = [session EXCEPT ![a] = NothingLoaded]
        BY <1>15, <2>2 DEF ReplayCommit
      <3> QED
        BY <1>t, <3>4, <3>5, CommitKept
    <2> QED
      BY <2>1, <2>2
  <1>16. ASSUME NEW j \in Jobs, Enqueue(j) PROVE Covered(k)'
    <2>1. CASE j = k
      <3>1. job'[k].attempts = 0
        <4>1. job'[k] = NewRow
          BY <1>16, <2>1 DEF Enqueue, TypeOK
        <4> QED
          BY <4>1 DEF NewRow, NoRow
      <3> QED
        BY <1>t, <1>u, <3>1, DebtKept
    <2>2. CASE j # k
      BY <1>0, <1>16, <2>2 DEF Enqueue, TypeOK
    <2> QED
      BY <2>1, <2>2
  <1>17. ASSUME NEW j \in Jobs, BackoffElapses(j) PROVE Covered(k)'
    <2>1. job'[k].attempts = job[k].attempts /\ job'[k].status = job[k].status
      BY <1>17, <1>u DEF BackoffElapses, TypeOK, Row
    <2> QED
      BY <1>0, <1>17, <2>1 DEF BackoffElapses
  <1>18. ASSUME NEW j \in Jobs, LeaseLapses(j) PROVE Covered(k)'
    <2>1. job'[k].attempts = job[k].attempts /\ job'[k].status = job[k].status
      BY <1>18, <1>u DEF LeaseLapses, TypeOK, Row
    <2> QED
      BY <1>0, <1>18, <2>1 DEF LeaseLapses
  <1>19. CASE UNCHANGED vars
    BY <1>0, <1>19 DEF vars
  <1> QED
    BY <1>1, <1>2, <1>3, <1>4, <1>5, <1>6, <1>7, <1>9, <1>10, <1>11, <1>12,
       <1>13, <1>14, <1>15, <1>16, <1>17, <1>18, <1>19
    DEF Next, Claim, Finish, Clock

\* For any number of workers, replay requests and jobs: stale commits overshoot
\* max_attempts by fewer attempts than there are sessions.
THEOREM OvershootBounded == Spec => []AttemptOvershootBounded
  <1>1. Init => DebtCovered
    BY JobQueueAssumption DEF Init, DebtCovered, NoRow
  <1>2. TypeOK /\ DebtCovered => AttemptOvershootBounded
    <2> SUFFICES ASSUME TypeOK, DebtCovered, NEW j \in Jobs
                 PROVE  job[j].attempts < MaxAttempts + Cardinality(Sessions)
      BY DEF AttemptOvershootBounded
    <2>1. job[j].attempts \in Nat /\ MaxAttempts \in Nat
      BY JobQueueAssumption DEF TypeOK, Row
    <2>2. Carriers(j) \in SUBSET Sessions
      BY DEF Carriers
    <2>3. Cardinality(Carriers(j)) \in Nat /\ Cardinality(Sessions) \in Nat
      BY <2>2, CarriersFinite
    <2> QED
      BY <2>1, <2>3 DEF DebtCovered, Debt
  <1> QED
    BY <1>1, <1>2, TypeInit, TypeStep, DisciplineInit, DisciplineStep, DebtStep, PTL
    DEF Spec

===============================================================================
