------------------------------- MODULE Retention -------------------------------
(***************************************************************************)
(* scripts/retention_report.py: operators count the rows of a table that   *)
(* are older than a cutoff and, with --apply, delete them batch by batch,  *)
(* while the application goes on writing: an event that comes in late is   *)
(* as old as its occurred_at says.  Runs overlap, a batch can fail, the    *)
(* audit log can be unwritable and a process can be stopped anywhere.      *)
(*                                                                         *)
(* A row is a number, its age: a row below the cutoff is expired.  A batch *)
(* is selected and deleted by identifier; the delete waits for another     *)
(* run's delete of the same rows and then finds those gone.  One table     *)
(* stands for the ones a run works through.                                *)
(***************************************************************************)
EXTENDS Naturals, FiniteSets, FiniteSetsExt

CONSTANTS
    Sweeps,      \* runs of the script
    Rows,        \* rows there may ever be, numbers
    Cutoffs,     \* cutoffs, per run
    BatchSize

ASSUME RetentionAssumption ==
    /\ Rows \subseteq Nat /\ Cutoffs \in [Sweeps -> Nat] /\ BatchSize \in Nat \ {0}

VARIABLES
    present,     \* the rows of the table
    gone,        \* the rows that were deleted
    hold,        \* the legal hold
    sweep,       \* per run: step, counted, deleted and the batch selected
    log          \* the audit log: what it says of each run

retentionVars == <<present, gone, hold, sweep, log>>

NotRun == [step |-> "idle", apply |-> FALSE, counted |-> 0, deleted |-> 0,
           batch |-> {}]

RetentionInit ==
    /\ present \in SUBSET Rows
    /\ gone = {} /\ hold \in BOOLEAN
    /\ sweep = [r \in Sweeps |-> NotRun]
    /\ log = {}

\* The application records an event, of any age
WriteRow ==
    /\ \E n \in Rows \ (present \cup gone) : present' = present \cup {n}
    /\ UNCHANGED <<gone, hold, sweep, log>>

ChangeHold ==
    /\ hold' = ~hold
    /\ UNCHANGED <<present, gone, sweep, log>>

Entry(event, r) == [event |-> event, run |-> r, deleted |-> sweep[r].deleted]

\* The hold is read once; a run that deletes is announced first
StartSweep(r) ==
    /\ sweep[r].step = "idle"
    /\ \/ /\ ~hold
          /\ sweep' = [sweep EXCEPT ![r].step = "count", ![r].apply = TRUE]
          /\ log' = log \cup {Entry("started", r)}
       \/ sweep' = [sweep EXCEPT ![r].step = "count"] /\ UNCHANGED log
       \/ sweep' = [sweep EXCEPT ![r].step = "failed"] /\ UNCHANGED log
    /\ UNCHANGED <<present, gone, hold>>

Expired(r) == {n \in present : n < Cutoffs[r]}

CountRows(r) ==
    /\ sweep[r].step = "count"
    /\ LET counted == Cardinality(Expired(r))
       IN  sweep' = [sweep EXCEPT ![r].counted = counted,
                       ![r].step = IF ~sweep[r].apply THEN "done"
                                   ELSE IF counted = 0 THEN "report"
                                   ELSE "select"]
    /\ UNCHANGED <<present, gone, hold, log>>

\* LIMIT: no more than was counted
BatchLimit(r) == Min({BatchSize, sweep[r].counted - sweep[r].deleted})

\* The oldest expired rows
SelectBatch(r) ==
    /\ sweep[r].step = "select"
    /\ LET batch == {n \in Expired(r) :
                       Cardinality({k \in Expired(r) : k < n}) < BatchLimit(r)}
       IN  sweep' = [sweep EXCEPT ![r].batch = batch,
                       ![r].step = IF batch = {} THEN "report" ELSE "delete"]
    /\ UNCHANGED <<present, gone, hold, log>>

\* The rows that were selected
RowcountSelected(r) == Cardinality(sweep[r].batch)

\* rowcount: the rows that were still there
Rowcount(r) == Cardinality(sweep[r].batch \cap present)

\* DELETE and commit
DeleteBatch(r) ==
    /\ sweep[r].step = "delete"
    /\ LET deleted == sweep[r].deleted + Rowcount(r)
       IN  sweep' = [sweep EXCEPT ![r].deleted = deleted, ![r].batch = {},
                       ![r].step = IF deleted < sweep[r].counted
                                   THEN "select" ELSE "report"]
    /\ present' = present \ sweep[r].batch
    /\ gone' = gone \cup (sweep[r].batch \cap present)
    /\ UNCHANGED <<hold, log>>

\* retention_completed
ReportSweep(r) ==
    /\ sweep[r].step = "report"
    /\ sweep' = [sweep EXCEPT ![r].step = "done"]
    /\ log' = log \cup {Entry("completed", r)}
    /\ UNCHANGED <<present, gone, hold>>

\* A statement or the log fails: retention_failed, without the numbers, if the
\* log can be written; or the process is stopped
FailSweep(r) ==
    /\ sweep[r].step \in {"count", "select", "delete", "report"}
    /\ sweep' = [sweep EXCEPT ![r].step = "failed", ![r].batch = {}]
    /\ \/ sweep[r].apply
          /\ log' = log \cup {[Entry("failed", r) EXCEPT !.deleted = 0]}
       \/ UNCHANGED log
    /\ UNCHANGED <<present, gone, hold>>

RetentionNext ==
    \/ WriteRow \/ ChangeHold
    \/ \E r \in Sweeps : \/ StartSweep(r) \/ CountRows(r) \/ SelectBatch(r)
                         \/ DeleteBatch(r) \/ ReportSweep(r) \/ FailSweep(r)

RetentionSpec == RetentionInit /\ [][RetentionNext]_retentionVars
--------------------------------------------------------------------------------
RetentionTypeOK ==
    /\ present \subseteq Rows /\ gone \subseteq Rows \ present
    /\ hold \in BOOLEAN
    /\ \A r \in Sweeps :
         /\ sweep[r].step \in {"idle", "count", "select", "delete", "report",
                               "done", "failed"}
         /\ sweep[r].batch \subseteq Rows

\* The audit log accounts for what is gone: if every run it names as started
\* is completed, the numbers they report add up to the rows that were deleted,
\* although runs select the same rows
AuditAddsUp ==
    LET started == {e.run : e \in {f \in log : f.event = "started"}}
        completed == {e \in log : e.event = "completed"}
        Reported(e) == e.deleted
    IN  started = {e.run : e \in completed} =>
          MapThenSumSet(Reported, completed) = Cardinality(gone)

\* A run deletes no more than it counted, however many old rows come in while
\* it works
NoMoreThanCounted ==
    \A r \in Sweeps : sweep[r].deleted <= sweep[r].counted

\* Two runs of the retention script over the same rows are accounted for: the
\* log adds up, and neither deletes more than it announced
DeletionsAreAccountedFor == AuditAddsUp /\ NoMoreThanCounted
================================================================================
