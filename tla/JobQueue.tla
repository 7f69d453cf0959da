------------------------------ MODULE JobQueue ------------------------------
(***************************************************************************)
(* The durable job queue: the tables jobs and attempt_finished of          *)
(* database.py and the transactions of queue.py.  Every transaction is     *)
(* BEGIN IMMEDIATE ... COMMIT on one SQLite file, so each is one action.   *)
(*                                                                         *)
(* The clock is NOT a variable of this module.  queue.py reads time.time() *)
(* before it waits (up to 30 s) for the write lock, a caller may pass its  *)
(* own reading, and the wall clock may be set back; so a transaction works *)
(* with any reading `now' of Times.  What is proved here holds whatever    *)
(* the clocks say.  CodingWorker adds a clock and stale readings.          *)
(*                                                                         *)
(* A call that raises or returns None changes no row and is not a step.    *)
(***************************************************************************)
EXTENDS Naturals, FiniteSets

CONSTANTS
  JobIds,       \* the ids uuid4 may hand out; ordered as ORDER BY job_id does
  Keys,         \* idempotency keys, after strip()
  Kinds,        \* job kinds, "coding-agent" among them
  Payloads,     \* canonical payload_json texts
  WorkerIds,    \* worker ids, after strip()
  Bundles,      \* output bundles an attempt may have produced
  Reports,      \* plain result dictionaries given to complete and fail
  Times,        \* readings of time.time()
  Stamps,       \* collation ranks of the created_at texts
  Leases,       \* lease durations a caller may ask for
  MaxAttempts,  \* bound on attempts; the code has none
  NULL          \* SQL NULL

ASSUME JobQueueAssumption ==
  /\ JobIds \subseteq Nat
  /\ "coding-agent" \in Kinds
  /\ Times \subseteq Nat
  /\ Stamps \subseteq Nat
  /\ Leases \subseteq Nat \ {0}
  /\ MaxAttempts \in Nat

VARIABLES
  jobs,              \* jobs[j]: the row of job id j, NoRow while there is none
  attempt_finished,  \* the rows of the table attempt_finished
  accepted,          \* history: what enqueue has answered to its callers
  granted            \* history: the claims handed out

vars == <<jobs, attempt_finished, accepted, granted>>

(***************************************************************************)
(* Rows.  An AttemptFinished stands for its payload_json, attempt_id and   *)
(* attempt_digest, which are functions of it.                              *)
(***************************************************************************)
Attempt == [job_id : JobIds, attempt : Nat, output_bundle : Bundles]

Status == {"queued", "running", "completed", "failed"}
Terminal == {"completed", "failed"}

Row == [key : Keys \cup {NULL}, kind : Kinds \cup {NULL},
        payload : Payloads \cup {NULL}, status : Status \cup {"absent"},
        lease_owner : WorkerIds \cup {NULL}, lease_expires_at : Nat \cup {NULL},
        attempts : Nat, result_json : Attempt \cup Reports \cup {NULL},
        created_at : Stamps \cup {NULL}]

NoRow == [key |-> NULL, kind |-> NULL, payload |-> NULL, status |-> "absent",
          lease_owner |-> NULL, lease_expires_at |-> NULL, attempts |-> 0,
          result_json |-> NULL, created_at |-> NULL]

Exists(j) == jobs[j].status # "absent"
HasKey(j, k) == Exists(j) /\ jobs[j].key = k

-----------------------------------------------------------------------------
(* Deviations from the code, each a plausible slip; no action uses them.   *)
SameRequestByKind(row, kind, payload) == row.kind = kind
ClaimedRowSameAttempt(row, w, expires) ==
  [row EXCEPT !.status = "running", !.lease_owner = w, !.lease_expires_at = expires]
ClaimableQueued(row, now) == row.status = "queued"
IsCurrentAttemptUnfenced(row, a) == row.kind = "coding-agent"
HoldsAnyOwner(row, w, now) == row.status = "running" /\ row.lease_expires_at > now
-----------------------------------------------------------------------------
(* enqueue *)

QueuedRow(k, kind, payload, stamp) ==
  [key |-> k, kind |-> kind, payload |-> payload, status |-> "queued",
   lease_owner |-> NULL, lease_expires_at |-> NULL, attempts |-> 0,
   result_json |-> NULL, created_at |-> stamp]

\* The comparison after the INSERT ... ON CONFLICT DO NOTHING.
SameRequest(row, kind, payload) == row.kind = kind /\ row.payload = payload

Answer(j, k, kind, payload) ==
  [job_id |-> j, key |-> k, kind |-> kind, payload |-> payload]

\* The key is new: the row is inserted under a fresh uuid.
EnqueueNew(j, k, kind, payload, stamp) ==
  /\ ~ Exists(j)
  /\ \A i \in JobIds : ~ HasKey(i, k)
  /\ jobs' = [jobs EXCEPT ![j] = QueuedRow(k, kind, payload, stamp)]
  /\ accepted' = accepted \cup {Answer(j, k, kind, payload)}
  /\ UNCHANGED <<attempt_finished, granted>>

\* The key is bound: the same request gets the stored row back, any other
\* request IdempotencyConflictError.
EnqueueAgain(j, k, kind, payload) ==
  /\ HasKey(j, k)
  /\ SameRequest(jobs[j], kind, payload)
  /\ accepted' = accepted \cup {Answer(j, k, kind, payload)}
  /\ UNCHANGED <<jobs, attempt_finished, granted>>

(* claim *)

Claimable(row, now) ==
  \/ row.status = "queued"
  \/ row.status = "running" /\ row.lease_expires_at <= now

\* ORDER BY created_at, job_id
Before(i, j) ==
  \/ jobs[i].created_at < jobs[j].created_at
  \/ jobs[i].created_at = jobs[j].created_at /\ i < j

Selected(j, now) ==
  /\ Claimable(jobs[j], now)
  /\ \A i \in JobIds \ {j} : Claimable(jobs[i], now) => Before(j, i)

ClaimedRow(row, w, expires) ==
  [row EXCEPT !.status = "running", !.lease_owner = w,
              !.lease_expires_at = expires, !.attempts = @ + 1]

\* _lease_window: the expiry a reading and a duration give.
LeaseWindow(now, lease) == now + lease

Grant(j, a, w) == [job_id |-> j, attempt |-> a, worker |-> w]

ClaimJob(j, w, lease, now) ==
  /\ Selected(j, now)
  /\ jobs[j].attempts < MaxAttempts
  /\ jobs' = [jobs EXCEPT ![j] = ClaimedRow(@, w, LeaseWindow(now, lease))]
  /\ granted' = granted \cup {Grant(j, jobs'[j].attempts, w)}
  /\ UNCHANGED <<attempt_finished, accepted>>

(* heartbeat, complete, fail and finish_attempt *)

\* The WHERE clause heartbeat and _finish share.  It names no attempt.
Holds(row, w, now) ==
  /\ row.status = "running"
  /\ row.lease_owner = w
  /\ row.lease_expires_at > now

Heartbeat(j, w, lease, now) ==
  /\ Holds(jobs[j], w, now)
  /\ jobs' = [jobs EXCEPT ![j].lease_expires_at = LeaseWindow(now, lease)]
  /\ UNCHANGED <<attempt_finished, accepted, granted>>

FinishedRow(row, status, result) ==
  [row EXCEPT !.status = status, !.lease_owner = NULL,
              !.lease_expires_at = NULL, !.result_json = result]

Finish(j, w, status, result, now) ==
  /\ Holds(jobs[j], w, now)
  /\ jobs' = [jobs EXCEPT ![j] = FinishedRow(@, status, result)]
  /\ UNCHANGED <<attempt_finished, accepted, granted>>

Complete(j, w, result, now) == Finish(j, w, "completed", result, now)
Fail(j, w, result, now) == Finish(j, w, "failed", result, now)

\* The fence finish_attempt adds to the lease.
IsCurrentAttempt(row, a) == row.kind = "coding-agent" /\ row.attempts = a.attempt

\* PRIMARY KEY(job_id, attempt) of attempt_finished.
Published(j, n) == \E r \in attempt_finished : r.job_id = j /\ r.attempt = n

FinishAttempt(w, a, now) ==
  /\ Holds(jobs[a.job_id], w, now)
  /\ IsCurrentAttempt(jobs[a.job_id], a)
  /\ ~ Published(a.job_id, a.attempt)
  /\ jobs' = [jobs EXCEPT ![a.job_id] = FinishedRow(@, "completed", a)]
  /\ attempt_finished' = attempt_finished \cup {a}
  /\ UNCHANGED <<accepted, granted>>

-----------------------------------------------------------------------------
Init ==
  /\ jobs = [j \in JobIds |-> NoRow]
  /\ attempt_finished = {}
  /\ accepted = {}
  /\ granted = {}

\* The attempts a caller may try to publish: any at all.
BoundedAttempt == [job_id : JobIds, attempt : 1..MaxAttempts, output_bundle : Bundles]

Enqueue ==
  \E j \in JobIds, k \in Keys, kind \in Kinds, payload \in Payloads :
    \/ \E stamp \in Stamps : EnqueueNew(j, k, kind, payload, stamp)
    \/ EnqueueAgain(j, k, kind, payload)

Claim ==
  \E j \in JobIds, w \in WorkerIds, lease \in Leases, now \in Times :
    ClaimJob(j, w, lease, now)

Release ==
  \E j \in JobIds, w \in WorkerIds, now \in Times :
    \/ \E lease \in Leases : Heartbeat(j, w, lease, now)
    \/ \E result \in Reports : Complete(j, w, result, now)
    \/ \E result \in Reports : Fail(j, w, result, now)

Publish ==
  \E w \in WorkerIds, a \in BoundedAttempt, now \in Times : FinishAttempt(w, a, now)

Next == Enqueue \/ Claim \/ Release \/ Publish

Spec == Init /\ [][Next]_vars

-----------------------------------------------------------------------------
(* Properties *)

\* Every row has the columns database.py declares, and its CHECK holds: a lease
\* owner and an expiry exactly on running rows.
TypeOK ==
  /\ jobs \in [JobIds -> Row]
  /\ \A j \in JobIds :
       /\ (jobs[j].status = "running") => /\ jobs[j].lease_owner \in WorkerIds
                                          /\ jobs[j].lease_expires_at \in Nat
       /\ (jobs[j].status # "running") => /\ jobs[j].lease_owner = NULL
                                          /\ jobs[j].lease_expires_at = NULL
  /\ attempt_finished \subseteq Attempt
  /\ accepted \subseteq [job_id : JobIds, key : Keys, kind : Kinds, payload : Payloads]
  /\ granted \subseteq [job_id : JobIds, attempt : Nat, worker : WorkerIds]

\* enqueue is idempotent: whatever a caller was told about a key stays true of
\* the one row that holds it, so two answers for a key name one job and one
\* request, in whatever order the calls and the workers ran.
IdempotentEnqueue ==
  /\ \A x \in accepted : /\ HasKey(x.job_id, x.key)
                         /\ jobs[x.job_id].kind = x.kind
                         /\ jobs[x.job_id].payload = x.payload
  /\ \A x, y \in accepted : x.key = y.key => x = y

\* finish_attempt publishes lineage and releases the lease together: the
\* published attempt is the job's last one and its result, so a job has one
\* lineage at most and nothing written later may contradict it.
LineageIsResult ==
  \A a \in attempt_finished :
    /\ jobs[a.job_id].status = "completed"
    /\ jobs[a.job_id].kind = "coding-agent"
    /\ jobs[a.job_id].attempts = a.attempt
    /\ jobs[a.job_id].result_json = a

\* claim never hands out an attempt number twice, nor one beyond the row's
\* counter: attempt workspaces and run directories are named by these numbers.
AttemptNumbersUnique ==
  /\ \A g \in granted : g.attempt \in 1..jobs[g.job_id].attempts
  /\ \A g, h \in granted :
       g.job_id = h.job_id /\ g.attempt = h.attempt => g = h

\* A running row's owner is the worker its last attempt was granted to.
LeaseWasGranted ==
  \A j \in JobIds :
    jobs[j].status = "running" =>
      Grant(j, jobs[j].attempts, jobs[j].lease_owner) \in granted

\* A published attempt was claimed: lineage never comes from nowhere.
LineageWasGranted ==
  \A a \in attempt_finished :
    \E g \in granted : g.job_id = a.job_id /\ g.attempt = a.attempt

\* What a step must do with the terminal rows.
KeepsTerminal ==
  \A j \in JobIds : jobs[j].status \in Terminal => jobs'[j] = jobs[j]

\* A completed or failed row is never written again: no late heartbeat, claim,
\* complete, fail or finish_attempt changes it.
TerminalIsFinal == [][KeepsTerminal]_vars
=============================================================================
