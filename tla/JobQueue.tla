------------------------------- MODULE JobQueue -------------------------------
(***************************************************************************)
(* The durable background-job outbox (backend/app/job_queue.py), the       *)
(* worker loop that drains it (backend/app/worker.py, run_worker) and the  *)
(* operator's replay (backend/app/job_services.py, replay_failed_job).     *)
(*                                                                         *)
(* Several worker processes and API requests share one table.  Each has a  *)
(* SQLAlchemy session, configured in backend/app/database.py with          *)
(* expire_on_commit=False: a row that was loaded stays in the session's    *)
(* identity map as it was, session.get answers from there, and a flush     *)
(* writes only the columns that differ from what was loaded, by primary    *)
(* key and with no version test.  So every function here that reads a row  *)
(* and later commits is two steps of the model.                            *)
(*                                                                         *)
(* Time is abstracted to the two comparisons the code makes with it:       *)
(* available_at <= now is the column "due", and locked_at is "none",       *)
(* "fresh", or "lapsed" once it is older than the lease timeout.           *)
(***************************************************************************)
EXTENDS Naturals, FiniteSets

CONSTANTS
    Jobs,         \* primary keys of background_jobs
    Workers,      \* worker processes
    Admins,       \* concurrent replay requests of the API
    MaxAttempts,  \* max_attempts of a job
    ClaimLimit,   \* .limit(20) of claim_next_job
    MaxReplays    \* bound: replays of one job that are explored

ASSUME JobQueueAssumption ==
    /\ MaxAttempts \in Nat \ {0}
    /\ ClaimLimit \in Nat \ {0}
    /\ MaxReplays \in Nat
    /\ IsFiniteSet(Workers)
    /\ IsFiniteSet(Admins)
    /\ Workers \cap Admins = {}

VARIABLES
    job,      \* the table: [Jobs -> Row]
    session,  \* identity maps: the row each session loaded, NoRow if it has none
    pc,       \* where each worker is in run_worker / run_one_job
    cands,    \* the candidates a worker selected and has not tried yet
    held,     \* the job a worker claimed in this iteration (in a set)
    replays   \* audit rows "background_job.replayed" per job

vars == <<job, session, pc, cands, held, replays>>

Sessions == Workers \cup Admins

Terminal == {"succeeded", "failed", "dead_letter"}

Status == {"absent", "queued", "running"} \cup Terminal

Row == [status : Status, attempts : Nat, due : BOOLEAN,
        lock : {"none", "fresh", "lapsed"}, done : BOOLEAN]

NoRow == [status |-> "absent", attempts |-> 0, due |-> FALSE,
          lock |-> "none", done |-> FALSE]

NewRow == [NoRow EXCEPT !.status = "queued", !.due = TRUE]

NothingLoaded == [j \in Jobs |-> NoRow]

Loaded(s, j) == session[s][j].status # "absent"

\* The identity map of a session that has just read the rows of S
Copy(S) == [j \in Jobs |-> IF j \in S THEN job[j] ELSE NoRow]

-------------------------------------------------------------------------------
(***************************************************************************)
(* What an ORM commit does to a row.  old is the row as it was loaded, new *)
(* the object after the assignments of the operation.  A column is part of *)
(* the UPDATE when its value changed; a column in "stamped" was assigned   *)
(* the current clock and always changed.                                   *)
(***************************************************************************)
Column(cur, old, new) == IF new # old THEN new ELSE cur

Flush(row, old, new, stamped) ==
    [status   |-> Column(row.status, old.status, new.status),
     attempts |-> Column(row.attempts, old.attempts, new.attempts),
     due      |-> IF "available_at" \in stamped THEN new.due ELSE row.due,
     lock     |-> Column(row.lock, old.lock, new.lock),
     done     |-> IF "completed_at" \in stamped
                  THEN TRUE ELSE Column(row.done, old.done, new.done)]

\* Mutant: the sweep does not look at the retry budget
SweptForever(old) ==
    [old EXCEPT !.lock = "none", !.status = "queued", !.due = TRUE]

\* requeue_expired_jobs: what the sweep makes of one expired row
Swept(old) ==
    [old EXCEPT !.lock   = "none",
                !.status = IF old.attempts >= MaxAttempts
                           THEN "dead_letter" ELSE "queued",
                !.due    = TRUE]

SweptStamps(old) ==
    IF old.attempts >= MaxAttempts THEN {"completed_at"} ELSE {"available_at"}

\* complete_job
Completed(old) == [old EXCEPT !.status = "succeeded", !.lock = "none"]

\* Mutant: one retry too many
RetriesOnceMore(old, retryable) == retryable /\ old.attempts <= MaxAttempts

\* fail_job: a retry is due only after the backoff
Retries(old, retryable) == retryable /\ old.attempts < MaxAttempts

Failed(old, retryable) ==
    [old EXCEPT !.lock   = "none",
                !.status = IF Retries(old, retryable) THEN "queued"
                           ELSE IF retryable THEN "dead_letter" ELSE "failed",
                !.due    = FALSE]

FailedStamps(old, retryable) ==
    IF Retries(old, retryable) THEN {"available_at"} ELSE {"completed_at"}

\* replay_dead_letter_job: a fresh retry budget
Replayed(old) ==
    [old EXCEPT !.status = "queued", !.attempts = 0, !.due = TRUE,
                !.lock = "none", !.done = FALSE]

-------------------------------------------------------------------------------
Init ==
    /\ job = [j \in Jobs |-> NoRow]
    /\ session = [s \in Sessions |-> NothingLoaded]
    /\ pc = [w \in Workers |-> "idle"]
    /\ cands = [w \in Workers |-> {}]
    /\ held = [w \in Workers |-> {}]
    /\ replays = [j \in Jobs |-> 0]

\* enqueue_job, at the instant its transaction commits a new row
Enqueue(j) ==
    /\ job[j].status = "absent"
    /\ job' = [job EXCEPT ![j] = NewRow]
    /\ UNCHANGED <<session, pc, cands, held, replays>>

\* Mutant: the recovery query looks for queued rows
ExpiredQueued ==
    {j \in Jobs : job[j].status = "queued" /\ job[j].lock = "lapsed"}

\* requeue_expired_jobs: the SELECT of running rows whose lease lapsed
Expired == {j \in Jobs : job[j].status = "running" /\ job[j].lock = "lapsed"}

SweepRead(w) ==
    /\ pc[w] = "idle"
    /\ session' = [session EXCEPT ![w] = Copy(Expired)]
    /\ pc' = [pc EXCEPT ![w] = IF Expired = {} THEN "poll" ELSE "sweep"]
    /\ UNCHANGED <<job, cands, held, replays>>

\* requeue_expired_jobs: one transaction updates every row that was read
SweepCommit(w) ==
    /\ pc[w] = "sweep"
    /\ job' = [j \in Jobs |->
                 IF Loaded(w, j)
                 THEN Flush(job[j], session[w][j], Swept(session[w][j]),
                            SweptStamps(session[w][j]))
                 ELSE job[j]]
    /\ session' = [session EXCEPT ![w] = NothingLoaded]
    /\ pc' = [pc EXCEPT ![w] = "poll"]
    /\ UNCHANGED <<cands, held, replays>>

\* claim_next_job: the SELECT of at most ClaimLimit ready rows
Claimable(j) == job[j].status = "queued" /\ job[j].due

Ready == {j \in Jobs : Claimable(j)}

ClaimRead(w) ==
    /\ pc[w] = "poll"
    /\ \E S \in SUBSET Ready :
         /\ S = Ready \/ Cardinality(S) = ClaimLimit
         /\ Cardinality(S) <= ClaimLimit
         /\ cands' = [cands EXCEPT ![w] = S]
         /\ pc' = [pc EXCEPT ![w] = IF S = {} THEN "idle" ELSE "claim"]
    /\ UNCHANGED <<job, session, held, replays>>

\* Mutant: the claim does not set locked_at
ClaimedUnlocked(row) ==
    [row EXCEPT !.status = "running", !.attempts = row.attempts + 1]

\* claim_next_job: the values of the UPDATE
Claimed(row) ==
    [row EXCEPT !.status   = "running",
                !.attempts = row.attempts + 1,
                !.lock     = "fresh"]

\* claim_next_job: the compare-and-set of one candidate finds it still ready
ClaimWin(w, j) ==
    /\ pc[w] = "claim"
    /\ j \in cands[w]
    /\ Claimable(j)
    /\ job' = [job EXCEPT ![j] = Claimed(job[j])]
    /\ held' = [held EXCEPT ![w] = {j}]
    /\ cands' = [cands EXCEPT ![w] = {}]
    /\ pc' = [pc EXCEPT ![w] = "load"]
    /\ UNCHANGED <<session, replays>>

\* claim_next_job: rowcount is 0, the next candidate is tried or None returned
ClaimMiss(w, j) ==
    /\ pc[w] = "claim"
    /\ j \in cands[w]
    /\ ~Claimable(j)
    /\ cands' = [cands EXCEPT ![w] = @ \ {j}]
    /\ pc' = [pc EXCEPT ![w] = IF cands[w] = {j} THEN "idle" ELSE "claim"]
    /\ UNCHANGED <<job, session, held, replays>>

\* claim_next_job: session.get(..., populate_existing=True) after the commit
Load(w) ==
    /\ pc[w] = "load"
    /\ session' = [session EXCEPT ![w] = Copy(held[w])]
    /\ pc' = [pc EXCEPT ![w] = "handle"]
    /\ UNCHANGED <<job, cands, held, replays>>

\* The handler rolled its session back, which expires every loaded object:
\* the row is read again when complete_job or fail_job next looks at it
Reload(w) ==
    /\ pc[w] = "handle"
    /\ session' = [session EXCEPT ![w] = Copy(held[w])]
    /\ UNCHANGED <<job, pc, cands, held, replays>>

\* The row this worker commits when its handler has ended
FinishWith(w, j, new, stamped) ==
    /\ pc[w] = "handle"
    /\ j \in held[w]
    /\ session[w][j].status = "running"
    /\ job' = [job EXCEPT ![j] = Flush(@, session[w][j], new, stamped)]
    /\ session' = [session EXCEPT ![w] = NothingLoaded]
    /\ held' = [held EXCEPT ![w] = {}]
    /\ pc' = [pc EXCEPT ![w] = "idle"]
    /\ UNCHANGED <<cands, replays>>

\* run_one_job: the handler returned
Complete(w, j) ==
    FinishWith(w, j, Completed(session[w][j]), {"completed_at"})

\* run_one_job: the handler raised PermanentJobError, no handler is registered
\* (retryable = FALSE), or it raised anything else (retryable = TRUE)
Fail(w, j, retryable) ==
    FinishWith(w, j, Failed(session[w][j], retryable),
               FailedStamps(session[w][j], retryable))

\* complete_job and fail_job raise JobStateError; run_worker does not catch
\* it, so the process ends
FinishRejected(w) ==
    /\ pc[w] = "handle"
    /\ \E j \in held[w] : session[w][j].status # "running"
    /\ pc' = [pc EXCEPT ![w] = "down"]
    /\ session' = [session EXCEPT ![w] = NothingLoaded]
    /\ held' = [held EXCEPT ![w] = {}]
    /\ UNCHANGED <<job, cands, replays>>

\* A worker process stops at any point: killed, out of memory, database error
Crash(w) ==
    /\ pc[w] # "down"
    /\ pc' = [pc EXCEPT ![w] = "down"]
    /\ session' = [session EXCEPT ![w] = NothingLoaded]
    /\ cands' = [cands EXCEPT ![w] = {}]
    /\ held' = [held EXCEPT ![w] = {}]
    /\ UNCHANGED <<job, replays>>

\* The supervisor starts the worker again
Restart(w) ==
    /\ pc[w] = "down"
    /\ pc' = [pc EXCEPT ![w] = "idle"]
    /\ UNCHANGED <<job, session, cands, held, replays>>

\* replay_failed_job up to the state test of replay_dead_letter_job
ReplayRead(a, j) ==
    /\ session[a] = NothingLoaded
    /\ job[j].status \in {"failed", "dead_letter"}
    /\ session' = [session EXCEPT ![a] = Copy({j})]
    /\ UNCHANGED <<job, pc, cands, held, replays>>

\* replay_failed_job: the row and its audit event commit together
ReplayCommit(a, j) ==
    /\ Loaded(a, j)
    /\ replays[j] < MaxReplays
    /\ job' = [job EXCEPT ![j] =
                 Flush(@, session[a][j], Replayed(session[a][j]),
                       {"available_at"})]
    /\ replays' = [replays EXCEPT ![j] = @ + 1]
    /\ session' = [session EXCEPT ![a] = NothingLoaded]
    /\ UNCHANGED <<pc, cands, held>>

\* The clock passes available_at of a queued row
BackoffElapses(j) ==
    /\ job[j].status = "queued" /\ ~job[j].due
    /\ job' = [job EXCEPT ![j].due = TRUE]
    /\ UNCHANGED <<session, pc, cands, held, replays>>

\* The clock passes locked_at + lease_timeout of a running row, whether its
\* worker is gone or only slow
LeaseLapses(j) ==
    /\ job[j].status = "running" /\ job[j].lock = "fresh"
    /\ job' = [job EXCEPT ![j].lock = "lapsed"]
    /\ UNCHANGED <<session, pc, cands, held, replays>>

Claim(w) == \E j \in Jobs : ClaimWin(w, j) \/ ClaimMiss(w, j)

Finish(w) ==
    \/ FinishRejected(w)
    \/ \E j \in Jobs :
         Complete(w, j) \/ \E retryable \in BOOLEAN : Fail(w, j, retryable)

Clock(j) == BackoffElapses(j) \/ LeaseLapses(j)

Next ==
    \/ \E w \in Workers :
         \/ SweepRead(w) \/ SweepCommit(w)
         \/ ClaimRead(w) \/ Claim(w) \/ Load(w)
         \/ Reload(w) \/ Finish(w)
         \/ Crash(w) \/ Restart(w)
    \/ \E a \in Admins, j \in Jobs : ReplayRead(a, j) \/ ReplayCommit(a, j)
    \/ \E j \in Jobs : Enqueue(j) \/ Clock(j)

Spec == Init /\ [][Next]_vars

(***************************************************************************)
(* A live worker keeps polling, its supervisor restarts it and the clock   *)
(* advances.  Nothing makes a producer or an operator act, and a crash     *)
(* loop is excluded: eventually no worker crashes any more.                *)
(***************************************************************************)
WorkerStep(w) ==
    \/ SweepRead(w) \/ SweepCommit(w) \/ ClaimRead(w) \/ Claim(w)
    \/ Load(w) \/ Finish(w) \/ Restart(w)

Fairness ==
    /\ \A w \in Workers : WF_vars(WorkerStep(w))
    /\ \A j \in Jobs : WF_vars(Clock(j))
    /\ <>[][~\E w \in Workers : Crash(w)]_vars

FairSpec == Spec /\ Fairness
-------------------------------------------------------------------------------
(***************************************************************************)
(* Properties                                                              *)
(***************************************************************************)

\* The columns of every row, the copies in the sessions and every worker's
\* place in run_worker keep their types.
TypeOK ==
    /\ job \in [Jobs -> Row]
    /\ session \in [Sessions -> [Jobs -> Row]]
    /\ pc \in [Workers -> {"idle", "sweep", "poll", "claim", "load", "handle",
                            "down"}]
    /\ cands \in [Workers -> SUBSET Jobs]
    /\ held \in [Workers -> SUBSET Jobs]
    /\ replays \in [Jobs -> Nat]

\* No job is lost: whatever stale write hits it, a running row has a locked_at,
\* so requeue_expired_jobs will find it once the lease lapses (its query skips
\* rows with locked_at NULL).
RunningIsRecoverable ==
    \A j \in Jobs : job[j].status = "running" => job[j].lock # "none"

\* A row that carries a final status carries completed_at too, even when two
\* commits of different sessions each wrote a part of it.
TerminalIsStamped ==
    \A j \in Jobs : job[j].status \in Terminal => job[j].done

\* status and its timestamps agree in every row although sessions commit them
\* from copies they read at different times: a job that runs can be recovered
\* by the sweep, one that is final says when it ended.
StampsFollowStatus == RunningIsRecoverable /\ TerminalIsStamped

\* However the sessions interleave, the retry budget can be exceeded only by
\* the stale copies of a row that workers and replay requests can hold at
\* once: fail_job and requeue_expired_jobs test the attempts they loaded.
AttemptOvershootBounded ==
    \A j \in Jobs :
      job[j].attempts < MaxAttempts + Cardinality(Sessions)

\* A job that complete_job marked succeeded is never requeued, failed or run
\* again: complete_job, fail_job and replay_dead_letter_job refuse any job that
\* is not in the state they start from.
SucceededIsFinal ==
    [][\A j \in Jobs : job[j].status = "succeeded"
                          => job'[j].status = "succeeded"]_vars

\* Every accepted job reaches a final state, through crashes of its workers,
\* lapsed leases and stale commits.
Settles ==
    \A j \in Jobs : job[j].status = "queued" ~> job[j].status \in Terminal

(***************************************************************************)
(* The strengthening that makes these invariants inductive.                *)
(***************************************************************************)

\* Which rows a session may hold: run_worker opens a session per iteration,
\* the sweep holds only rows it read as running, and a replay request only
\* one it found replayable.
SessionDiscipline ==
    /\ \A w \in Workers :
         pc[w] \in {"idle", "poll", "claim", "load", "down"}
           => session[w] = NothingLoaded
    /\ \A w \in Workers, j \in Jobs :
         pc[w] = "sweep" => session[w][j].status \in {"absent", "running"}
    /\ \A a \in Admins, j \in Jobs :
         session[a][j].status \in {"absent", "failed", "dead_letter"}

\* The sessions whose copy of j still shows budget: each can requeue j once
Carriers(j) ==
    {s \in Sessions : Loaded(s, j) /\ session[s][j].attempts < MaxAttempts}

\* Once the budget of j is used up, every further attempt is paid for by a
\* session that gave up its copy with budget left, or will be.
Debt(j) ==
    job[j].attempts + Cardinality(Carriers(j))
      + (IF job[j].status = "queued" THEN 1 ELSE 0)

DebtCovered ==
    \A j \in Jobs :
      job[j].attempts >= MaxAttempts => Debt(j) < MaxAttempts + Cardinality(Sessions)

\* One worker process and one operator at a time (the composition that
\* docker-compose.yml deploys) keep the promise of JobLifecycle.
LifecycleView ==
    [j \in Jobs |-> [status |-> job[j].status, attempts |-> job[j].attempts]]

Lifecycle == INSTANCE JobLifecycle WITH job <- LifecycleView

ImplementsLifecycle == Lifecycle!Spec

\* With no second worker and no second operator, every copy a session holds is
\* the row as it is, and the retry budget is respected.
CopiesAreCurrent ==
    \A s \in Sessions, j \in Jobs :
      Loaded(s, j) => /\ session[s][j].status = job[j].status
                      /\ session[s][j].attempts = job[j].attempts

HeldIsRunning ==
    \A w \in Workers :
      /\ pc[w] \in {"load", "handle"}
           => \A j \in held[w] : job[j].status = "running"
      /\ pc[w] = "handle"
           => \A j \in Jobs : session[w][j].status \in {"absent", "running"}

BudgetKept ==
    \A j \in Jobs :
      /\ job[j].status = "queued" => job[j].attempts < MaxAttempts
      /\ job[j].status = "running" => job[j].attempts <= MaxAttempts

SoloInv == CopiesAreCurrent /\ HeldIsRunning /\ BudgetKept
===============================================================================
