---------------------------- MODULE CodingWorker ----------------------------
(***************************************************************************)
(* Worker processes on the job queue: worker.py, with its LeaseKeeper      *)
(* threads, the attempt workspaces and the Agent run directories.          *)
(*                                                                         *)
(* Each queue call is two steps: the reading of time.time(), taken before  *)
(* the transaction waits for the write lock, and the transaction, which    *)
(* compares and stores that reading however late it commits.  The main     *)
(* thread and the keeper of a process interleave with each other, with the *)
(* other processes and with the clock, and a process may die anywhere.     *)
(***************************************************************************)
EXTENDS JobQueue

CONSTANTS
  Procs,        \* worker processes
  WorkerIdOf,   \* the --worker-id each was started with; they may coincide
  Lease,        \* --lease-seconds
  Report,       \* the result dictionary of a failed attempt
  RunPrefix,    \* the run_id field of a payload, or NULL
  MaxClock,     \* bound on the clock
  MaxCrashes    \* bound on crashes

ASSUME WorkerAssumption ==
  /\ WorkerIdOf \in [Procs -> WorkerIds]
  /\ Lease \in Leases
  /\ Report \in Reports
  /\ MaxClock \in Nat
  /\ MaxCrashes \in Nat
  /\ 0..MaxClock \subseteq Times

VARIABLES
  clock,         \* the wall clock
  proc,          \* proc[p]: where run_once of p stands
  keeper,        \* keeper[p]: where its LeaseKeeper stands
  attempt_dirs,  \* attempt workspaces on disk, <<job, attempt>>
  run_dirs,      \* Agent run directories: [prefix, attempt, job_id]
  crashes        \* how many processes were killed

workVars == <<clock, proc, keeper, attempt_dirs, run_dirs, crashes>>
wvars == <<jobs, attempt_finished, accepted, granted,
           clock, proc, keeper, attempt_dirs, run_dirs, crashes>>

\* A process: its program counter, the clock reading of its pending transaction,
\* the job and attempt number of the JobRecord it holds, and its AttemptFinished.
At(pc, now, h, r) == [pc |-> pc, now |-> now, held |-> h, result |-> r]
Idle == At("idle", 0, NULL, NULL)

\* A keeper: its program counter, the reading of its heartbeat, and whether
\* lost_error is set.
Beating(pc, now, lost) == [pc |-> pc, now |-> now, lost |-> lost]
Off == Beating("off", 0, FALSE)

Held == [job_id : JobIds, attempt : Nat]
DirOf(h) == <<h.job_id, h.attempt>>

\* The run directory of an attempt: {run_id or job_id}-attempt-NNNN
PrefixOf(j) == IF RunPrefix[jobs[j].payload] = NULL THEN j ELSE RunPrefix[jobs[j].payload]
RunDir(h) == [prefix |-> PrefixOf(h.job_id), attempt |-> h.attempt, job_id |-> h.job_id]
RunExists(h) == \E d \in run_dirs : d.prefix = PrefixOf(h.job_id) /\ d.attempt = h.attempt

Lost(p) == keeper[p].lost
Move(p, pc, now) == proc' = [proc EXCEPT ![p] = At(pc, now, proc[p].held, proc[p].result)]

-----------------------------------------------------------------------------
(* claim *)

ClaimRead(p) ==
  /\ proc[p].pc = "idle"
  /\ proc' = [proc EXCEPT ![p] = At("claim", clock, NULL, NULL)]
  /\ UNCHANGED <<vars, clock, keeper, attempt_dirs, run_dirs, crashes>>

\* The claimed record carries the new attempt number; __enter__ starts the keeper.
ClaimCommit(p) ==
  /\ proc[p].pc = "claim"
  /\ \E j \in JobIds :
       /\ ClaimJob(j, WorkerIdOf[p], Lease, proc[p].now)
       /\ proc' = [proc EXCEPT ![p] =
            At("claimed", 0, [job_id |-> j, attempt |-> jobs'[j].attempts], NULL)]
  /\ keeper' = [keeper EXCEPT ![p] = Beating("wait", 0, FALSE)]
  /\ UNCHANGED <<clock, attempt_dirs, run_dirs, crashes>>

\* Nothing is claimable: run_once returns None.
ClaimNone(p) ==
  /\ proc[p].pc = "claim"
  /\ \A j \in JobIds : ~ Claimable(jobs[j], proc[p].now)
  /\ proc' = [proc EXCEPT ![p] = Idle]
  /\ UNCHANGED <<vars, clock, keeper, attempt_dirs, run_dirs, crashes>>

(* LeaseKeeper *)

KeeperRead(p) ==
  /\ keeper[p].pc = "wait"
  /\ keeper' = [keeper EXCEPT ![p] = Beating("beat", clock, FALSE)]
  /\ UNCHANGED <<vars, clock, proc, attempt_dirs, run_dirs, crashes>>

KeeperBeat(p) ==
  /\ keeper[p].pc = "beat"
  /\ Heartbeat(proc[p].held.job_id, WorkerIdOf[p], Lease, keeper[p].now)
  /\ keeper' = [keeper EXCEPT ![p] = Beating("wait", 0, FALSE)]
  /\ UNCHANGED <<clock, proc, attempt_dirs, run_dirs, crashes>>

\* LeaseError, or any other exception of the heartbeat (a busy database): the
\* keeper records it and never beats again.
KeeperLost(p) ==
  /\ keeper[p].pc = "beat"
  /\ keeper' = [keeper EXCEPT ![p] = Beating("off", 0, TRUE)]
  /\ UNCHANGED <<vars, clock, proc, attempt_dirs, run_dirs, crashes>>

(* _execute_attempt *)

\* The attempt workspace must be new; then it is materialized.
Materialize(p) ==
  LET h == proc[p].held
  IN /\ proc[p].pc = "claimed"
     /\ jobs[h.job_id].kind = "coding-agent"
     /\ DirOf(h) \notin attempt_dirs
     /\ attempt_dirs' = attempt_dirs \cup {DirOf(h)}
     /\ Move(p, "materialized", 0)
     /\ UNCHANGED <<vars, clock, keeper, run_dirs, crashes>>

\* Another kind of job, a payload from_dict refuses, a source bundle that does
\* not match its reference, an attempt workspace that exists: before the try.
RejectAttempt(p) ==
  /\ proc[p].pc = "claimed"
  /\ Move(p, "raised", 0)
  /\ UNCHANGED <<vars, clock, keeper, attempt_dirs, run_dirs, crashes>>

\* AgentRunStore refuses a run directory that exists; then the Agent runs.
StartAgent(p) ==
  /\ proc[p].pc = "materialized"
  /\ ~ RunExists(proc[p].held)
  /\ run_dirs' = run_dirs \cup {RunDir(proc[p].held)}
  /\ Move(p, "agent", 0)
  /\ UNCHANGED <<vars, clock, keeper, attempt_dirs, crashes>>

\* finally: shutil.rmtree(attempt_root, ignore_errors=True), which may leave it.
RemoveDir(p) == attempt_dirs' \in {attempt_dirs \ {DirOf(proc[p].held)}, attempt_dirs}

\* The Agent ends, successful or not; the output bundle becomes the lineage.
AgentDone(p, b) ==
  LET h == proc[p].held
  IN /\ proc[p].pc = "agent"
     /\ ~ Lost(p)
     /\ RemoveDir(p)
     /\ proc' = [proc EXCEPT ![p] = At("executed", 0, h,
          [job_id |-> h.job_id, attempt |-> h.attempt, output_bundle |-> b])]
     /\ UNCHANGED <<vars, clock, keeper, run_dirs, crashes>>

\* A digest mismatch, an existing run directory, a lost lease seen after the
\* Agent, a bundle that cannot be written: the attempt raises.
ExecuteRaises(p) ==
  /\ proc[p].pc \in {"materialized", "agent"}
  /\ RemoveDir(p)
  /\ Move(p, "raised", 0)
  /\ UNCHANGED <<vars, clock, keeper, run_dirs, crashes>>

(* finish_attempt and fail *)

\* lost_error is looked at once more, then the reading of finish_attempt.
FinishRead(p) ==
  /\ proc[p].pc = "executed"
  /\ IF Lost(p) THEN Move(p, "raised", 0) ELSE Move(p, "finish", clock)
  /\ UNCHANGED <<vars, clock, keeper, attempt_dirs, run_dirs, crashes>>

FinishCommit(p) ==
  /\ proc[p].pc = "finish"
  /\ FinishAttempt(WorkerIdOf[p], proc[p].result, proc[p].now)
  /\ Move(p, "leave", 0)
  /\ UNCHANGED <<clock, keeper, attempt_dirs, run_dirs, crashes>>

\* LeaseError from finish_attempt is caught by the except clause like any other.
FinishRefused(p) ==
  LET row == jobs[proc[p].held.job_id]
  IN /\ proc[p].pc = "finish"
     /\ ~ (Holds(row, WorkerIdOf[p], proc[p].now) /\ IsCurrentAttempt(row, proc[p].result))
     /\ Move(p, "raised", 0)
     /\ UNCHANGED <<vars, clock, keeper, attempt_dirs, run_dirs, crashes>>

\* except Exception: a lost lease is reported, anything else fails the job.
FailRead(p) ==
  /\ proc[p].pc = "raised"
  /\ IF Lost(p) THEN Move(p, "leave", 0) ELSE Move(p, "fail", clock)
  /\ UNCHANGED <<vars, clock, keeper, attempt_dirs, run_dirs, crashes>>

FailCommit(p) ==
  /\ proc[p].pc = "fail"
  /\ Fail(proc[p].held.job_id, WorkerIdOf[p], Report, proc[p].now)
  /\ Move(p, "leave", 0)
  /\ UNCHANGED <<clock, keeper, attempt_dirs, run_dirs, crashes>>

\* LeaseError from fail leaves run_once.
FailRefused(p) ==
  /\ proc[p].pc = "fail"
  /\ ~ Holds(jobs[proc[p].held.job_id], WorkerIdOf[p], proc[p].now)
  /\ Move(p, "leave", 0)
  /\ UNCHANGED <<vars, clock, keeper, attempt_dirs, run_dirs, crashes>>

\* __exit__ stops and joins the keeper; a heartbeat that outlives the join dies
\* with the process.
Leave(p) ==
  /\ proc[p].pc = "leave"
  /\ proc' = [proc EXCEPT ![p] = Idle]
  /\ keeper' = [keeper EXCEPT ![p] = Off]
  /\ UNCHANGED <<vars, clock, attempt_dirs, run_dirs, crashes>>

(* The environment *)

\* The process is killed; a later worker-once of the same id starts afresh.
Crash(p) ==
  /\ proc[p].pc # "idle"
  /\ crashes < MaxCrashes
  /\ crashes' = crashes + 1
  /\ proc' = [proc EXCEPT ![p] = Idle]
  /\ keeper' = [keeper EXCEPT ![p] = Off]
  /\ UNCHANGED <<vars, clock, attempt_dirs, run_dirs>>

Tick ==
  /\ clock < MaxClock
  /\ clock' = clock + 1
  /\ UNCHANGED <<vars, proc, keeper, attempt_dirs, run_dirs, crashes>>

-----------------------------------------------------------------------------
WInit ==
  /\ Init
  /\ clock = 0
  /\ proc = [p \in Procs |-> Idle]
  /\ keeper = [p \in Procs |-> Off]
  /\ attempt_dirs = {}
  /\ run_dirs = {}
  /\ crashes = 0

Main(p) ==
  \/ ClaimRead(p) \/ ClaimCommit(p) \/ ClaimNone(p)
  \/ Materialize(p) \/ RejectAttempt(p) \/ StartAgent(p) \/ ExecuteRaises(p)
  \/ \E b \in Bundles : AgentDone(p, b)
  \/ FinishRead(p) \/ FinishCommit(p) \/ FinishRefused(p)
  \/ FailRead(p) \/ FailCommit(p) \/ FailRefused(p)
  \/ Leave(p)

Keeper(p) == KeeperRead(p) \/ KeeperBeat(p) \/ KeeperLost(p)

WNext ==
  \/ \E p \in Procs : Main(p) \/ Keeper(p) \/ Crash(p)
  \/ Tick
  \/ Enqueue /\ UNCHANGED workVars

WSpec == WInit /\ [][WNext]_wvars

\* A process that is alive takes its next step: every call it makes returns, the
\* Agent's step and time limits included.  Nothing is assumed of the clock, of
\* the keepers or of the submitters.
WFairSpec == WSpec /\ \A p \in Procs : WF_wvars(Main(p))

-----------------------------------------------------------------------------
(* Properties *)

Working == {"claimed", "materialized", "agent", "executed", "finish", "raised", "fail"}

\* Processes, keepers and directories are well formed, and so is the queue.
WTypeOK ==
  /\ TypeOK
  /\ clock \in 0..MaxClock
  /\ proc \in [Procs -> [pc : Working \cup {"idle", "claim", "leave"}, now : 0..MaxClock,
                         held : Held \cup {NULL}, result : Attempt \cup {NULL}]]
  /\ keeper \in [Procs -> [pc : {"off", "wait", "beat"}, now : 0..MaxClock, lost : BOOLEAN]]
  /\ attempt_dirs \subseteq JobIds \X Nat
  /\ crashes \in 0..MaxCrashes

\* However late a claim commits and however stale its reading, two processes
\* never work on the same attempt number of a job, so a stale worker and its
\* replacement never share an attempt workspace.
AttemptsNotShared ==
  \A p, q \in Procs :
    p # q /\ proc[p].pc \in Working /\ proc[q].pc \in Working
      => proc[p].held # proc[q].held

\* What a killed worker leaves behind never blocks a later attempt: neither the
\* check "attempt workspace already exists" nor the one on the Agent run
\* directory meets a directory, as long as jobs do not ask for the same run_id.
RetryNotBlocked ==
  \A p \in Procs :
    /\ proc[p].pc = "claimed" => DirOf(proc[p].held) \notin attempt_dirs
    /\ proc[p].pc = "materialized" => ~ RunExists(proc[p].held)

\* p's step made the job it holds terminal.
EndsJob(p) ==
  /\ proc[p].pc \in {"finish", "fail"}
  /\ proc'[p].pc = "leave"
  /\ jobs' # jobs

\* What a step that ends a job must be the end of.
OnlyCurrentEnds ==
  \A p \in Procs :
    EndsJob(p) => proc[p].held.attempt = jobs[proc[p].held.job_id].attempts

\* What a step must do with the expiry of an attempt that goes on.
LeaseGrows ==
  \A j \in JobIds :
    /\ jobs[j].status = "running" /\ jobs'[j].status = "running"
    /\ jobs[j].attempts = jobs'[j].attempts
    => jobs'[j].lease_expires_at >= jobs[j].lease_expires_at

\* However late it commits, no call of a worker whose job was taken over harms
\* the replacement: a process ends a job only while the attempt it holds is the
\* job's current one, and no heartbeat cuts the lease of a running attempt short.
StaleHarmsNothing == [][OnlyCurrentEnds /\ LeaseGrows]_wvars

\* A job that is queued, or whose lease ran out, is taken by some worker or ends.
ClaimableIsTaken ==
  \A j \in JobIds :
    (\/ jobs[j].status = "queued"
     \/ jobs[j].status = "running" /\ jobs[j].lease_expires_at <= clock)
    ~> ~ (\/ jobs[j].status = "queued"
          \/ jobs[j].status = "running" /\ jobs[j].lease_expires_at <= clock)
=============================================================================
