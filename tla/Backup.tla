-------------------------------- MODULE Backup ---------------------------------
(***************************************************************************)
(* scripts/backup_database.py: operators write an archive of the database  *)
(* to one destination.  The dump goes to a temporary file of its own that  *)
(* replaces the destination when it is complete; it can fail, and the      *)
(* process can be stopped anywhere.                                        *)
(*                                                                         *)
(* SQLite and PostgreSQL take the same steps; the dump itself is external. *)
(*                                                                         *)
(* The script's first lines and docs/OPERATIONS.md say that nothing is     *)
(* overwritten without --force.  The destination is looked at once, before *)
(* the dump, so this holds of what was there then and not of an archive    *)
(* that another backup made since; UnforcedReplacesOnlyUnseen says so.     *)
(***************************************************************************)
EXTENDS FiniteSets

CONSTANTS
    Dumps,       \* backups
    NoDump       \* the author of the archive that was there before

ASSUME BackupAssumption == NoDump \notin Dumps

VARIABLES
    archive,     \* the destination: absent, or whose dump it is, whole or not
    dump,        \* per backup: its step and what it saw
    scratch,     \* temporary files
    force        \* per backup: --force

backupVars == <<archive, dump, scratch, force>>

Absence == [by |-> NoDump, whole |-> TRUE, there |-> FALSE]

Archive(by, whole) == [by |-> by, whole |-> whole, there |-> TRUE]

NotBegun == [step |-> "idle", sawArchive |-> FALSE]

BackupInit ==
    /\ archive \in {Absence, Archive(NoDump, TRUE)}
    /\ dump = [b \in Dumps |-> NotBegun]
    /\ scratch = {} /\ force \in [Dumps -> BOOLEAN]

\* _assert_destination
MayWrite(b) == ~archive.there \/ force[b]

Begin(b) ==
    /\ dump[b].step = "idle"
    /\ dump' = [dump EXCEPT ![b] =
                  [step |-> IF MayWrite(b) THEN "dump" ELSE "failed",
                   sawArchive |-> archive.there]]
    /\ UNCHANGED <<archive, scratch, force>>

\* pg_dump writes the destination itself
DumpInPlace(b) ==
    /\ dump[b].step = "dump"
    /\ archive' = Archive(b, FALSE)
    /\ scratch' = scratch \cup {b}
    /\ dump' = [dump EXCEPT ![b].step = "dumping"]
    /\ UNCHANGED force

\* The temporary file appears and grows
StartDump(b) ==
    /\ dump[b].step = "dump"
    /\ scratch' = scratch \cup {b}
    /\ dump' = [dump EXCEPT ![b].step = "dumping"]
    /\ UNCHANGED <<archive, force>>

\* The dump ends; if it failed, the finally block removes the file
EndDump(b) ==
    /\ dump[b].step = "dumping"
    /\ \/ dump' = [dump EXCEPT ![b].step = "replace"] /\ UNCHANGED scratch
       \/ /\ dump' = [dump EXCEPT ![b].step = "failed"]
          /\ scratch' = scratch \ {b}
    /\ UNCHANGED <<archive, force>>

\* os.replace
ReplaceArchive(b) ==
    /\ dump[b].step = "replace"
    /\ archive' = Archive(b, TRUE)
    /\ scratch' = scratch \ {b}
    /\ dump' = [dump EXCEPT ![b].step = "done"]
    /\ UNCHANGED force

\* The process is stopped; its temporary file stays
StopBackup(b) ==
    /\ dump[b].step \in {"dump", "dumping", "replace"}
    /\ dump' = [dump EXCEPT ![b].step = "stopped"]
    /\ UNCHANGED <<archive, scratch, force>>

BackupNext ==
    \E b \in Dumps : \/ Begin(b) \/ StartDump(b) \/ EndDump(b)
                     \/ ReplaceArchive(b) \/ StopBackup(b)

BackupSpec == BackupInit /\ [][BackupNext]_backupVars
--------------------------------------------------------------------------------
BackupTypeOK ==
    /\ archive.by \in Dumps \cup {NoDump} /\ scratch \subseteq Dumps
    /\ force \in [Dumps -> BOOLEAN]
    /\ \A b \in Dumps : dump[b].step \in {"idle", "dump", "dumping", "replace",
                                          "done", "failed", "stopped"}

\* Whatever fails or is stopped, the destination is the archive that was there
\* before or the whole dump of a backup that said so, and a temporary file is
\* left only where a process was stopped
ArchiveIsWhole ==
    /\ archive.whole
    /\ archive.by \in Dumps => dump[archive.by].step = "done"
    /\ \A b \in scratch : dump[b].step \notin {"idle", "done", "failed"}

\* Without --force a backup replaces no archive but one that another backup
\* made after this one had looked
UnforcedReplacesOnlyUnseen ==
    \A b \in Dumps :
      archive # archive' /\ archive'.by = b /\ archive.there /\ ~force[b] =>
        ~dump[b].sawArchive /\ archive.by \in Dumps

\* No step of a backup, its stop included, leaves half an archive at the
\* destination or replaces one that it had been told to spare
BackupsAreSafe == [][ArchiveIsWhole' /\ UnforcedReplacesOnlyUnseen]_backupVars
================================================================================
