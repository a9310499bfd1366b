--------------------------- MODULE RestoreRehearsal ----------------------------
(***************************************************************************)
(* scripts/restore_rehearsal.py with PostgreSQL: operators restore a       *)
(* backup into a disposable database, check it and drop it.  Rehearsals    *)
(* that were given the same target run at the same time, every step can    *)
(* fail, and a process can be stopped anywhere.                            *)
(*                                                                         *)
(* The checks are the ones the code makes, in its order; what they find is *)
(* up to the backup.  The rehearsal of an SQLite backup is not modelled:   *)
(* it works on a private temporary copy, with an integrity check and a     *)
(* write probe of its own, and has no database, grants or role to share.   *)
(***************************************************************************)
EXTENDS Naturals, Sequences

CONSTANTS
    Rehearsals,
    NoRehearsal,
    MaxRehearsals  \* bound: rehearsals that are started, all together

ASSUME RehearsalAssumption == NoRehearsal \notin Rehearsals /\ MaxRehearsals \in Nat

VARIABLES
    target,        \* the target database: its creator, or NoRehearsal if there is none
    restored,      \* the steps that succeeded in it
    rehearsal,     \* per rehearsal: where it is
    outcome,       \* per rehearsal: how the body of the try ended
    leftover,      \* the creator of the target will not drop it any more
    begun

rehearsalVars == <<target, restored, rehearsal, outcome, leftover, begun>>

\* pg_restore, the grants, the schema with its head, and the runtime role
Checks == <<"restore", "grants", "schema", "runtime">>

Stops == {"idle", "success", "failure", "stopped"}

RehearsalInit ==
    /\ target = NoRehearsal /\ restored = <<>> /\ leftover = FALSE /\ begun = 0
    /\ rehearsal = [r \in Rehearsals |-> "idle"]
    /\ outcome = [r \in Rehearsals |-> "none"]

Goes(r, step) == rehearsal' = [rehearsal EXCEPT ![r] = step]

\* The arguments and the archive are verified, then pg_database is read
LookForTarget(r) ==
    /\ rehearsal[r] \in Stops /\ begun < MaxRehearsals /\ begun' = begun + 1
    /\ \/ target = NoRehearsal /\ Goes(r, "create")
       \/ Goes(r, "failure")
    /\ outcome' = [outcome EXCEPT ![r] = "none"]
    /\ UNCHANGED <<target, restored, leftover>>

\* The finally block covers the creation too
CreateTargetInsideTry(r) ==
    /\ rehearsal[r] = "create"
    /\ IF target = NoRehearsal
       THEN target' = r /\ restored' = <<>> /\ Goes(r, "check")
            /\ UNCHANGED outcome
       ELSE /\ Goes(r, "drop") /\ outcome' = [outcome EXCEPT ![r] = "failure"]
            /\ UNCHANGED <<target, restored>>
    /\ UNCHANGED <<leftover, begun>>

\* CREATE DATABASE fails if the name was taken meanwhile
CreateTarget(r) ==
    /\ rehearsal[r] = "create"
    /\ IF target = NoRehearsal
       THEN target' = r /\ restored' = <<>> /\ Goes(r, "check")
       ELSE Goes(r, "failure") /\ UNCHANGED <<target, restored>>
    /\ UNCHANGED <<outcome, leftover, begun>>

\* One step in the target, or its failure; after the last one the body returns
CheckTarget(r) ==
    /\ rehearsal[r] = "check"
    /\ \/ /\ Len(restored) < Len(Checks)
          /\ restored' = Append(restored, Checks[Len(restored) + 1])
          /\ IF Len(restored') = Len(Checks)
             THEN Goes(r, "drop") /\ outcome' = [outcome EXCEPT ![r] = "success"]
             ELSE UNCHANGED <<rehearsal, outcome>>
       \/ /\ Goes(r, "drop") /\ outcome' = [outcome EXCEPT ![r] = "failure"]
          /\ UNCHANGED restored
    /\ UNCHANGED <<target, leftover, begun>>

\* The finally block; if it fails its error replaces the result
DropTarget(r) ==
    /\ rehearsal[r] = "drop"
    /\ \/ target' = NoRehearsal /\ Goes(r, outcome[r]) /\ UNCHANGED leftover
       \/ leftover' = TRUE /\ Goes(r, "failure") /\ UNCHANGED target
    /\ UNCHANGED <<restored, outcome, begun>>

\* The process is stopped
StopRehearsal(r) ==
    /\ rehearsal[r] \notin Stops
    /\ Goes(r, "stopped")
    /\ leftover' = (leftover \/ rehearsal[r] \in {"check", "drop"})
    /\ UNCHANGED <<target, restored, outcome, begun>>

\* The operator removes what a rehearsal left
RemoveLeftover ==
    /\ leftover
    /\ target' = NoRehearsal /\ leftover' = FALSE
    /\ UNCHANGED <<restored, rehearsal, outcome, begun>>

RehearsalNext ==
    \/ \E r \in Rehearsals : \/ LookForTarget(r) \/ CreateTarget(r)
                             \/ CheckTarget(r) \/ DropTarget(r)
                             \/ StopRehearsal(r)
    \/ RemoveLeftover

RehearsalSpec == RehearsalInit /\ [][RehearsalNext]_rehearsalVars
--------------------------------------------------------------------------------
RehearsalTypeOK ==
    /\ target \in Rehearsals \cup {NoRehearsal} /\ Len(restored) <= Len(Checks)
    /\ rehearsal \in [Rehearsals -> Stops \cup {"create", "check", "drop"}]
    /\ leftover \in BOOLEAN /\ begun \in 0..MaxRehearsals

\* A rehearsal works in a database of its own: from its creation until the
\* rehearsal drops it nobody else has dropped or replaced it
TargetIsItsOwn ==
    \A r \in Rehearsals :
      rehearsal[r] \in {"check", "drop"} => target = r /\ ~leftover

\* A rehearsal reports success only after every check succeeded in the
\* database it created, and when that database is gone
SuccessLeavesNothing ==
    \A r \in Rehearsals :
      rehearsal[r] # "success" /\ rehearsal'[r] = "success" =>
        /\ target' = NoRehearsal /\ restored = Checks /\ target = r

\* No step of a rehearsal touches the database of another one, and none
\* reports a success that the checks and the clean-up did not earn
RehearsalsAreSafe == [][TargetIsItsOwn' /\ SuccessLeavesNothing]_rehearsalVars
================================================================================
