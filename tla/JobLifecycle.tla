----------------------------- MODULE JobLifecycle -----------------------------
(***************************************************************************)
(* What the job outbox promises of a job, with no sessions, leases or      *)
(* clocks: an accepted job runs at most MaxAttempts times per retry        *)
(* budget, a failed run either returns to the queue with budget left or    *)
(* ends as dead_letter with none, a success is final, and only an explicit *)
(* replay of a failed job opens a fresh budget.                            *)
(***************************************************************************)
EXTENDS Naturals

CONSTANTS Jobs, MaxAttempts

VARIABLE job   \* [Jobs -> [status, attempts]]

Init == job = [j \in Jobs |-> [status |-> "absent", attempts |-> 0]]

Becomes(j, status, attempts) ==
    job' = [job EXCEPT ![j] = [status |-> status, attempts |-> attempts]]

Accept(j) ==
    job[j].status = "absent" /\ Becomes(j, "queued", 0)

\* A run starts only while the budget lasts
Start(j) ==
    /\ job[j].status = "queued"
    /\ job[j].attempts < MaxAttempts
    /\ Becomes(j, "running", job[j].attempts + 1)

Succeed(j) ==
    job[j].status = "running" /\ Becomes(j, "succeeded", job[j].attempts)

Reject(j) ==
    job[j].status = "running" /\ Becomes(j, "failed", job[j].attempts)

\* Where a run goes that failed for a transient reason or was abandoned
AfterLoss(row) ==
    [row EXCEPT !.status =
       IF row.attempts < MaxAttempts THEN "queued" ELSE "dead_letter"]

Retry(j) ==
    job[j].status = "running" /\ job' = [job EXCEPT ![j] = AfterLoss(@)]

\* Recovery of abandoned runs takes any number of them at once
Recover(S) ==
    /\ \A j \in S : job[j].status = "running"
    /\ job' = [j \in Jobs |-> IF j \in S THEN AfterLoss(job[j]) ELSE job[j]]

Replay(j) ==
    job[j].status \in {"failed", "dead_letter"} /\ Becomes(j, "queued", 0)

Next ==
    \/ \E j \in Jobs :
         \/ Accept(j) \/ Start(j) \/ Succeed(j) \/ Reject(j)
         \/ Retry(j) \/ Replay(j)
    \/ \E S \in SUBSET Jobs : Recover(S)

Spec == Init /\ [][Next]_job
===============================================================================
