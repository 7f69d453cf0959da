-------------------------- MODULE EvidencePublisher --------------------------
(***************************************************************************)
(* DockerEvidencePublisher.publish and the read that follows it in         *)
(* DockerVerifierTransport.execute, for any number of processes that       *)
(* publish into one artifact root: Control and Agents, and repetitions of  *)
(* a verification under the run id of an earlier one.                      *)
(*                                                                         *)
(* Any file operation may fail, any process may be killed, and the power   *)
(* may fail: then each entry of a directory that was changed since the     *)
(* last fsync of that directory is as it was or as it is.  Lock files and  *)
(* run directories are entries of the artifact root, request records are   *)
(* entries of service-requests, which is taken to exist.                   *)
(***************************************************************************)
EXTENDS Naturals

CONSTANTS
  Procs,         \* calls of execute()
  RunIds,
  Bodies,        \* what requests ask for, their run id apart
  NULL,
  MaxFaults,     \* file operations that fail
  MaxLosses      \* power failures

ASSUME PublisherAssumption ==
  /\ NULL \notin Procs
  /\ NULL \notin Bodies
  /\ NULL \notin [body : Bodies, by : Procs]
  /\ MaxFaults \in Nat
  /\ MaxLosses \in Nat

VARIABLES
  call,          \* where each call stands
  locks,         \* .<run_id>.publish.lock: who created it
  runs,          \* <run_id>/: what was verified, and by which call
  records,       \* service-requests/<run_id>.json
  disk,          \* the locks, runs and records that survive a power failure
  faults, losses

pvars == <<call, locks, runs, records, disk, faults, losses>>

\* A run directory holds the receipt of one call for one request.
Run == [body : Bodies, by : Procs]
RunOf(p) == [body |-> call[p].body, by |-> p]

Inside == {"locked", "record", "write", "fsync_record", "rename", "fsync",
           "rollback", "fsync_rollback", "unlock"}
Over == {"ok", "failed", "dead"}
PC == Inside \cup Over \cup {"idle", "staged", "fsync_unlock", "readback"}
Call == [pc : PC, run_id : RunIds \cup {NULL}, body : Bodies \cup {NULL}, fine : BOOLEAN]

Nothing == [r \in RunIds |-> NULL]

At(p, pc) == call[p].pc = pc
GoTo(p, pc) == call' = [call EXCEPT ![p].pc = pc]
\* Goes on with an exception pending.
Failing(p, pc) == call' = [call EXCEPT ![p].pc = pc, ![p].fine = FALSE]

Fault == faults < MaxFaults /\ faults' = faults + 1
Fine == UNCHANGED faults

-----------------------------------------------------------------------------
(* Deviations from the code, each a plausible slip; no action uses them.   *)
FsyncRootSkipped == UNCHANGED disk
FsyncRecordsSkipped == UNCHANGED disk
-----------------------------------------------------------------------------
(* publish() *)

\* The verification has been made and staged.
Stage(p, r, b) ==
  /\ At(p, "idle")
  /\ call' = [call EXCEPT ![p] = [pc |-> "staged", run_id |-> r, body |-> b, fine |-> TRUE]]
  /\ UNCHANGED <<locks, runs, records, disk, faults, losses>>

\* os.open with O_CREAT | O_EXCL
LockFree(r) == locks[r] = NULL
TakeLock(p) ==
  /\ At(p, "staged")
  /\ LockFree(call[p].run_id)
  /\ locks' = [locks EXCEPT ![call[p].run_id] = p]
  /\ GoTo(p, "locked")
  /\ UNCHANGED <<runs, records, disk, faults, losses>>

\* The lock file is there, or cannot be created.
LockRefused(p) ==
  /\ At(p, "staged")
  /\ IF LockFree(call[p].run_id) THEN Fault ELSE Fine
  /\ Failing(p, "failed")
  /\ UNCHANGED <<locks, runs, records, disk, losses>>

CheckRun(p) ==
  /\ At(p, "locked")
  /\ \/ runs[call[p].run_id] = NULL /\ GoTo(p, "record")
     \/ runs[call[p].run_id] # NULL /\ Failing(p, "unlock")
  /\ UNCHANGED <<locks, runs, records, disk, faults, losses>>

CheckRecord(p) ==
  /\ At(p, "record")
  /\ \/ records[call[p].run_id] = NULL /\ GoTo(p, "write")
     \/ records[call[p].run_id] # NULL /\ Failing(p, "unlock")
  /\ UNCHANGED <<locks, runs, records, disk, faults, losses>>

\* write_json_atomic up to its rename: the record is there.
WriteRecord(p) ==
  /\ At(p, "write")
  /\ records' = [records EXCEPT ![call[p].run_id] = call[p].body]
  /\ GoTo(p, "fsync_record")
  /\ UNCHANGED <<locks, runs, disk, faults, losses>>

\* The rest of write_json_atomic: service-requests is synced.
FsyncRecords == disk' = [disk EXCEPT !.records = records]
FsyncRecord(p) ==
  /\ At(p, "fsync_record")
  /\ FsyncRecords
  /\ GoTo(p, "rename")
  /\ UNCHANGED <<locks, runs, records, faults, losses>>

\* write_json_atomic raises, before or after the record is there; in both cases
\* request_written is still false.
WriteFails(p) ==
  /\ call[p].pc \in {"write", "fsync_record"}
  /\ Fault
  /\ Failing(p, "unlock")
  /\ UNCHANGED <<locks, runs, records, disk, losses>>

\* os.replace of the staged directory; it fails over a run that is there.
Rename(p) ==
  /\ At(p, "rename")
  /\ runs[call[p].run_id] = NULL
  /\ runs' = [runs EXCEPT ![call[p].run_id] = RunOf(p)]
  /\ GoTo(p, "fsync")
  /\ UNCHANGED <<locks, records, disk, faults, losses>>

RenameFails(p) ==
  /\ At(p, "rename")
  /\ IF runs[call[p].run_id] = NULL THEN Fault ELSE Fine
  /\ Failing(p, "rollback")
  /\ UNCHANGED <<locks, runs, records, disk, losses>>

FsyncRoot == disk' = [disk EXCEPT !.runs = runs, !.locks = locks]
Fsync(p) ==
  /\ At(p, "fsync")
  /\ FsyncRoot
  /\ GoTo(p, "unlock")
  /\ UNCHANGED <<locks, runs, records, faults, losses>>

FsyncFails(p) ==
  /\ At(p, "fsync")
  /\ Fault
  /\ Failing(p, "rollback")
  /\ UNCHANGED <<locks, runs, records, disk, losses>>

\* except OSError, once the record was written: it is removed unless the run is
\* there.
Uncommitted(r) == runs[r] = NULL
Rollback(p) ==
  /\ At(p, "rollback")
  /\ \/ /\ Uncommitted(call[p].run_id)
        /\ records' = [records EXCEPT ![call[p].run_id] = NULL]
        /\ GoTo(p, "fsync_rollback")
     \/ /\ ~ Uncommitted(call[p].run_id)
        /\ UNCHANGED records
        /\ GoTo(p, "unlock")
  /\ UNCHANGED <<locks, runs, disk, faults, losses>>

FsyncRollback(p) ==
  /\ At(p, "fsync_rollback")
  /\ FsyncRecords
  /\ GoTo(p, "unlock")
  /\ UNCHANGED <<locks, runs, records, faults, losses>>

\* The unlink or the fsync of _remove_uncommitted_request fails, which is ignored.
RollbackFails(p) ==
  /\ call[p].pc \in {"rollback", "fsync_rollback"}
  /\ Uncommitted(call[p].run_id)
  /\ Fault
  /\ GoTo(p, "unlock")
  /\ UNCHANGED <<locks, runs, records, disk, losses>>

\* finally: lock_path.unlink
Unlock(p) ==
  /\ At(p, "unlock")
  /\ locks' = [locks EXCEPT ![call[p].run_id] = NULL]
  /\ GoTo(p, "fsync_unlock")
  /\ UNCHANGED <<runs, records, disk, faults, losses>>

FsyncUnlock(p) ==
  /\ At(p, "fsync_unlock")
  /\ FsyncRoot
  /\ GoTo(p, IF call[p].fine THEN "readback" ELSE "failed")
  /\ UNCHANGED <<locks, runs, records, faults, losses>>

\* The unlink or the fsync of the finally clause raises.
UnlockFails(p) ==
  /\ call[p].pc \in {"unlock", "fsync_unlock"}
  /\ Fault
  /\ Failing(p, "failed")
  /\ UNCHANGED <<locks, runs, records, disk, losses>>

(* execute() after publish() *)

\* The published receipt is read and must be the one that was staged.
ReadBack(p) ==
  /\ At(p, "readback")
  /\ \/ runs[call[p].run_id] = RunOf(p) /\ GoTo(p, "ok") /\ Fine
     \/ runs[call[p].run_id] # RunOf(p) /\ Failing(p, "failed") /\ Fine
     \/ Fault /\ Failing(p, "failed")
  /\ UNCHANGED <<locks, runs, records, disk, losses>>

-----------------------------------------------------------------------------
Running(p) == call[p].pc \notin Over \cup {"idle"}

\* A process is killed.
Kill(p) ==
  /\ Running(p)
  /\ GoTo(p, "dead")
  /\ UNCHANGED <<locks, runs, records, disk, faults, losses>>

\* An entry after a power failure: as it was synced or as it was changed since.
Survivors(synced, now) == {f \in [RunIds -> {synced[r] : r \in RunIds} \cup {now[r] : r \in RunIds}] :
                             \A r \in RunIds : f[r] \in {synced[r], now[r]}}

PowerFails ==
  /\ losses < MaxLosses
  /\ losses' = losses + 1
  /\ locks' \in Survivors(disk.locks, locks)
  /\ runs' \in Survivors(disk.runs, runs)
  /\ records' \in Survivors(disk.records, records)
  /\ disk' = [locks |-> locks', runs |-> runs', records |-> records']
  /\ call' = [p \in Procs |-> IF Running(p) THEN [call[p] EXCEPT !.pc = "dead"] ELSE call[p]]
  /\ UNCHANGED faults

PInit ==
  /\ call = [p \in Procs |-> [pc |-> "idle", run_id |-> NULL, body |-> NULL, fine |-> TRUE]]
  /\ locks = Nothing /\ runs = Nothing /\ records = Nothing
  /\ disk = [locks |-> Nothing, runs |-> Nothing, records |-> Nothing]
  /\ faults = 0 /\ losses = 0

Step(p) ==
  \/ \E r \in RunIds, b \in Bodies : Stage(p, r, b)
  \/ TakeLock(p) \/ LockRefused(p) \/ CheckRun(p) \/ CheckRecord(p)
  \/ WriteRecord(p) \/ FsyncRecord(p) \/ WriteFails(p)
  \/ Rename(p) \/ RenameFails(p) \/ Fsync(p) \/ FsyncFails(p)
  \/ Rollback(p) \/ FsyncRollback(p) \/ RollbackFails(p)
  \/ Unlock(p) \/ FsyncUnlock(p) \/ UnlockFails(p) \/ ReadBack(p)

PNext ==
  \/ \E p \in Procs : Step(p) \/ Kill(p)
  \/ PowerFails

PSpec == PInit /\ [][PNext]_pvars

-----------------------------------------------------------------------------
(* Properties *)

\* Calls and directories are well formed, and a call between taking and releasing
\* the lock file is the one that created it: two calls are never inside for one
\* run id.
PTypeOK ==
  /\ call \in [Procs -> Call]
  /\ \A p \in Procs : ~ At(p, "idle") => call[p].run_id \in RunIds /\ call[p].body \in Bodies
  /\ \A p \in Procs : call[p].pc \in Inside => locks[call[p].run_id] = p
  /\ locks \in [RunIds -> Procs \cup {NULL}]
  /\ runs \in [RunIds -> Run \cup {NULL}]
  /\ records \in [RunIds -> Bodies \cup {NULL}]
  /\ disk \in [locks : [RunIds -> Procs \cup {NULL}], runs : [RunIds -> Run \cup {NULL}],
               records : [RunIds -> Bodies \cup {NULL}]]

\* A run directory never exists without the record of the very request it
\* answers, whoever raced for the run id, whatever failed and even after a power
\* failure between any two steps.
RunHasRecord == \A r \in RunIds : runs[r] # NULL => records[r] = runs[r].body

\* A result that execute() returned is the caller's own, and it and its record
\* are on disk for good.
OkIsDurable ==
  \A p \in Procs :
    At(p, "ok") =>
      /\ runs[call[p].run_id] = RunOf(p)
      /\ disk.runs[call[p].run_id] = RunOf(p)
      /\ disk.records[call[p].run_id] = call[p].body

\* Users of the store see a run id written once and never lose what they were
\* told of: the publisher implements the abstract store.
Confirmed == {call[p].run_id : p \in {q \in Procs : At(q, "ok")}}
Store == INSTANCE EvidenceStore WITH Evidence <- Run, published <- runs, confirmed <- Confirmed
ImplementsStore == Store!StoreSpec
=============================================================================
