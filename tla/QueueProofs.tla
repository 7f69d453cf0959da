----------------------------- MODULE QueueProofs -----------------------------
(***************************************************************************)
(* The safety of the job queue, of the worker processes that work on it    *)
(* and of the Control processes that judge its results, for every set of   *)
(* jobs, keys, workers, processes, run ids, contracts and clock readings.  *)
(* Each transaction of a process is one of the queue's, so the queue's     *)
(* invariant holds under its users as well and carries their proofs.       *)
(***************************************************************************)
EXTENDS CodingWorker, ControlOutcome, TLAPS

-----------------------------------------------------------------------------
(* The queue.  The parts of IndInv need each other: LineageIsResult survives *)
(* a claim only because a published job is terminal, LineageWasGranted needs *)
(* LeaseWasGranted to know that the attempt finish_attempt publishes had     *)
(* been claimed, and idempotence needs that a key is held by one row.        *)

\* The UNIQUE constraint on idempotency_key.
KeyUnique ==
  \A i, j \in JobIds : Exists(i) /\ Exists(j) /\ jobs[i].key = jobs[j].key => i = j

\* A job id that has no row yet was never claimed.
AbsentUnclaimed == \A j \in JobIds : ~ Exists(j) => jobs[j].attempts = 0

\* Everything a transaction may rely on about the two tables.
IndInv ==
  /\ TypeOK
  /\ KeyUnique
  /\ AbsentUnclaimed
  /\ IdempotentEnqueue
  /\ LineageIsResult
  /\ AttemptNumbersUnique
  /\ LeaseWasGranted
  /\ LineageWasGranted

USE JobQueueAssumption

\* The empty tables satisfy the invariant.
LEMMA InitIndInv == Init => IndInv
  BY DEF Init, IndInv, TypeOK, KeyUnique, AbsentUnclaimed, IdempotentEnqueue, LineageIsResult,
         AttemptNumbersUnique, LeaseWasGranted, LineageWasGranted, Row, NoRow,
         Exists, Status

-----------------------------------------------------------------------------
(* What the row functions write. *)

\* The row enqueue inserts: queued, without a lease, never claimed.
LEMMA QueuedRowFacts ==
  ASSUME NEW k \in Keys, NEW kind \in Kinds, NEW p \in Payloads, NEW s \in Stamps
  PROVE  \A new : new = QueuedRow(k, kind, p, s) =>
           /\ new \in Row
           /\ new.status = "queued" /\ new.lease_owner = NULL
           /\ new.lease_expires_at = NULL /\ new.attempts = 0
           /\ new.key = k /\ new.kind = kind /\ new.payload = p
  BY DEF QueuedRow, Row, Status

\* The row claim writes: a lease, one attempt more, the rest as it was.
LEMMA ClaimedRowFacts ==
  ASSUME NEW row \in Row, NEW w \in WorkerIds, NEW e \in Nat
  PROVE  \A new : new = ClaimedRow(row, w, e) =>
           /\ new \in Row
           /\ new.status = "running" /\ new.lease_owner = w
           /\ new.lease_expires_at = e /\ new.attempts = row.attempts + 1
           /\ new.key = row.key /\ new.kind = row.kind /\ new.payload = row.payload
<1>1. PICK n : n = row.attempts + 1
  OBVIOUS
<1>2. n \in Nat
  BY <1>1 DEF Row
<1>3. ClaimedRow(row, w, e) = [row EXCEPT !.status = "running", !.lease_owner = w,
                                         !.lease_expires_at = e, !.attempts = n]
  BY <1>1 DEF ClaimedRow
<1>4. /\ ClaimedRow(row, w, e) \in Row
      /\ ClaimedRow(row, w, e).status = "running"
      /\ ClaimedRow(row, w, e).lease_owner = w
      /\ ClaimedRow(row, w, e).lease_expires_at = e
      /\ ClaimedRow(row, w, e).attempts = n
      /\ ClaimedRow(row, w, e).key = row.key
      /\ ClaimedRow(row, w, e).kind = row.kind
      /\ ClaimedRow(row, w, e).payload = row.payload
  BY <1>2, <1>3 DEF Row, Status
<1> QED
  BY <1>1, <1>4

\* The row heartbeat writes: only its expiry is new.
LEMMA RenewedRowFacts ==
  ASSUME NEW row \in Row, NEW e \in Nat
  PROVE  \A new : new = [row EXCEPT !.lease_expires_at = e] =>
           /\ new \in Row
           /\ new.status = row.status /\ new.lease_owner = row.lease_owner
           /\ new.lease_expires_at = e /\ new.attempts = row.attempts
           /\ new.key = row.key /\ new.kind = row.kind /\ new.payload = row.payload
           /\ new.result_json = row.result_json
  BY DEF Row

\* The row complete, fail and finish_attempt write: the lease is gone.
LEMMA FinishedRowFacts ==
  ASSUME NEW row \in Row, NEW st \in Terminal, NEW r \in Attempt \cup Reports
  PROVE  \A new : new = FinishedRow(row, st, r) =>
           /\ new \in Row
           /\ new.status = st /\ new.lease_owner = NULL
           /\ new.lease_expires_at = NULL /\ new.attempts = row.attempts
           /\ new.key = row.key /\ new.kind = row.kind /\ new.payload = row.payload
           /\ new.result_json = r
  BY DEF FinishedRow, Row, Status, Terminal

-----------------------------------------------------------------------------
(* One lemma per transaction: it keeps the invariant. *)

\* enqueue of a new key keeps the invariant.
LEMMA EnqueueNewInv ==
  ASSUME IndInv, NEW j \in JobIds, NEW k \in Keys, NEW kind \in Kinds,
         NEW p \in Payloads, NEW s \in Stamps, EnqueueNew(j, k, kind, p, s)
  PROVE  IndInv'
<1>1. PICK new : new = QueuedRow(k, kind, p, s)
  OBVIOUS
<1>2. /\ new \in Row
      /\ new.status = "queued" /\ new.lease_owner = NULL
      /\ new.lease_expires_at = NULL /\ new.attempts = 0
      /\ new.key = k /\ new.kind = kind /\ new.payload = p
  BY <1>1, QueuedRowFacts
<1>3. jobs' = [jobs EXCEPT ![j] = new]
  BY <1>1 DEF EnqueueNew
<1>4. jobs \in [JobIds -> Row] /\ jobs[j].status = "absent"
  BY DEF IndInv, TypeOK, EnqueueNew, Exists
<1>5. jobs' \in [JobIds -> Row] /\ jobs'[j] = new /\ \A i \in JobIds \ {j} : jobs'[i] = jobs[i]
  BY <1>2, <1>3, <1>4
<1>6. ASSUME NEW x \in accepted PROVE x.job_id # j /\ x.key # k
  <2>1. x.job_id \in JobIds /\ HasKey(x.job_id, x.key)
    BY DEF IndInv, TypeOK, IdempotentEnqueue
  <2> QED
    BY <1>4, <2>1 DEF HasKey, Exists, EnqueueNew
<1>7. ~ \E a \in attempt_finished : a.job_id = j
  BY <1>4 DEF IndInv, LineageIsResult
<1>8. ~ \E g \in granted : g.job_id = j
  BY <1>4 DEF IndInv, TypeOK, AbsentUnclaimed, Exists, AttemptNumbersUnique
<1>9. TypeOK'
  BY <1>2, <1>5 DEF IndInv, TypeOK, EnqueueNew, Answer
<1>10. KeyUnique'
  BY <1>2, <1>5 DEF IndInv, KeyUnique, Exists, EnqueueNew, HasKey
<1>11. AbsentUnclaimed'
  BY <1>2, <1>5 DEF IndInv, AbsentUnclaimed, Exists
<1>12. IdempotentEnqueue'
  BY <1>2, <1>5, <1>6 DEF IndInv, TypeOK, IdempotentEnqueue, EnqueueNew, Answer, HasKey, Exists
<1>13. LineageIsResult'
  BY <1>5, <1>7 DEF IndInv, TypeOK, LineageIsResult, EnqueueNew, Attempt
<1>14. AttemptNumbersUnique'
  BY <1>5, <1>8 DEF IndInv, TypeOK, AttemptNumbersUnique, EnqueueNew
<1>15. LeaseWasGranted'
  BY <1>2, <1>5 DEF IndInv, TypeOK, LeaseWasGranted, EnqueueNew
<1>16. LineageWasGranted'
  BY DEF IndInv, LineageWasGranted, EnqueueNew
<1> QED
  BY <1>9, <1>10, <1>11, <1>12, <1>13, <1>14, <1>15, <1>16 DEF IndInv

\* enqueue of a bound key keeps the invariant.
LEMMA EnqueueAgainInv ==
  ASSUME IndInv, NEW j \in JobIds, NEW k \in Keys, NEW kind \in Kinds,
         NEW p \in Payloads, EnqueueAgain(j, k, kind, p)
  PROVE  IndInv'
<1>1. TypeOK'
  BY DEF IndInv, TypeOK, EnqueueAgain, Answer
<1>2. IdempotentEnqueue'
  <2>1. \A x \in accepted' : /\ HasKey(x.job_id, x.key)'
                             /\ jobs'[x.job_id].kind = x.kind
                             /\ jobs'[x.job_id].payload = x.payload
    BY DEF IndInv, IdempotentEnqueue, EnqueueAgain, Answer, HasKey, Exists, SameRequest
  <2>2. \A x, y \in accepted' : x.key = y.key => x.job_id = y.job_id
    <3>1. KeyUnique'
      BY DEF IndInv, KeyUnique, Exists, EnqueueAgain
    <3>2. \A x \in accepted' : x.job_id \in JobIds
      BY <1>1 DEF TypeOK
    <3> QED
      BY <2>1, <3>1, <3>2 DEF KeyUnique, HasKey
  <2> QED
    <3>1. ASSUME NEW x \in accepted', NEW y \in accepted', x.key = y.key PROVE x = y
      <4>1. x.job_id = y.job_id /\ x.kind = y.kind /\ x.payload = y.payload
        BY <2>1, <2>2, <3>1
      <4> QED
        BY <1>1, <3>1, <4>1 DEF TypeOK
    <3> QED
      BY <2>1, <3>1 DEF IdempotentEnqueue
<1> QED
  BY <1>1, <1>2 DEF IndInv, KeyUnique, AbsentUnclaimed, LineageIsResult, AttemptNumbersUnique,
                    LeaseWasGranted, LineageWasGranted, EnqueueAgain, Exists

\* claim keeps the invariant: it counts the attempt and grants it to one worker.
LEMMA ClaimInv ==
  ASSUME IndInv, NEW j \in JobIds, NEW w \in WorkerIds, NEW l \in Leases, NEW n \in Times,
         ClaimJob(j, w, l, n)
  PROVE  IndInv'
<1>0. PICK new : new = ClaimedRow(jobs[j], w, n + l)
  OBVIOUS
<1>1. jobs \in [JobIds -> Row] /\ n + l \in Nat
  BY DEF IndInv, TypeOK
<1>2. /\ new \in Row
      /\ new.status = "running" /\ new.lease_owner = w
      /\ new.lease_expires_at = n + l /\ new.attempts = jobs[j].attempts + 1
      /\ new.key = jobs[j].key /\ new.kind = jobs[j].kind /\ new.payload = jobs[j].payload
  BY <1>0, <1>1, ClaimedRowFacts
<1>3. jobs' \in [JobIds -> Row] /\ jobs'[j] = new /\ \A i \in JobIds \ {j} : jobs'[i] = jobs[i]
  BY <1>0, <1>1, <1>2 DEF ClaimJob, LeaseWindow
<1>4. jobs[j].attempts \in Nat /\ jobs[j].status \in {"queued", "running"}
  BY <1>1 DEF Row, ClaimJob, Selected, Claimable
<1>5. granted' = granted \cup {Grant(j, jobs[j].attempts + 1, w)}
  BY <1>2, <1>3 DEF ClaimJob
<1>6. TypeOK'
  <2>1. granted' \subseteq [job_id : JobIds, attempt : Nat, worker : WorkerIds]
    <3>1. jobs[j].attempts + 1 \in Nat
      BY <1>4
    <3> QED
      BY <1>5, <3>1 DEF IndInv, TypeOK, Grant
  <2> QED
    BY <1>1, <1>2, <1>3, <2>1 DEF IndInv, TypeOK, ClaimJob
<1>7. KeyUnique' /\ AbsentUnclaimed'
  BY <1>2, <1>3, <1>4 DEF IndInv, KeyUnique, AbsentUnclaimed, Exists
<1>8. IdempotentEnqueue'
  BY <1>2, <1>3, <1>4 DEF IndInv, TypeOK, IdempotentEnqueue, ClaimJob, HasKey, Exists
<1>9. LineageIsResult'
  <2>1. \A a \in attempt_finished : a.job_id \in JobIds \ {j}
    BY <1>4 DEF IndInv, TypeOK, LineageIsResult, Attempt
  <2> QED
    BY <1>3, <2>1 DEF IndInv, LineageIsResult, ClaimJob
<1>10. AttemptNumbersUnique'
  <2>1. ASSUME NEW g \in granted
        PROVE  /\ g.job_id \in JobIds /\ g.attempt \in Nat
               /\ g.attempt \in 1..jobs[g.job_id].attempts
               /\ g.attempt \in 1..jobs'[g.job_id].attempts
               /\ g.job_id = j => g.attempt # jobs[j].attempts + 1
    <3>1. g.job_id \in JobIds /\ g.attempt \in Nat
      BY DEF IndInv, TypeOK
    <3>2. g.attempt \in 1..jobs[g.job_id].attempts
      BY DEF IndInv, AttemptNumbersUnique
    <3>3. CASE g.job_id = j
      BY <1>2, <1>3, <1>4, <3>1, <3>2, <3>3
    <3>4. CASE g.job_id # j
      BY <1>3, <3>1, <3>2, <3>4
    <3> QED
      BY <3>3, <3>4
  <2>2. PICK c : c = Grant(j, jobs[j].attempts + 1, w)
    OBVIOUS
  <2>3. c.job_id = j /\ c.attempt = jobs[j].attempts + 1 /\ granted' = granted \cup {c}
    BY <1>5, <2>2 DEF Grant
  <2>4. c.attempt \in 1..jobs'[c.job_id].attempts
    BY <1>2, <1>3, <1>4, <2>3
  <2>5. \A g \in granted' : g.attempt \in 1..jobs'[g.job_id].attempts
    BY <2>1, <2>3, <2>4
  <2>6. \A g, h \in granted' : g.job_id = h.job_id /\ g.attempt = h.attempt => g = h
    BY <2>1, <2>3 DEF IndInv, AttemptNumbersUnique
  <2> QED
    BY <2>5, <2>6 DEF AttemptNumbersUnique
<1>11. LeaseWasGranted'
  BY <1>2, <1>3, <1>5 DEF IndInv, LeaseWasGranted
<1>12. LineageWasGranted'
  BY <1>5 DEF IndInv, LineageWasGranted, ClaimJob
<1> QED
  BY <1>6, <1>7, <1>8, <1>9, <1>10, <1>11, <1>12 DEF IndInv

\* heartbeat keeps the invariant.
LEMMA HeartbeatInv ==
  ASSUME IndInv, NEW j \in JobIds, NEW w \in WorkerIds, NEW l \in Leases, NEW n \in Times,
         Heartbeat(j, w, l, n)
  PROVE  IndInv'
<1>0. PICK e : e = n + l
  OBVIOUS
<1>1. jobs \in [JobIds -> Row] /\ e \in Nat
  BY <1>0 DEF IndInv, TypeOK
<1>2. PICK new : new = [jobs[j] EXCEPT !.lease_expires_at = e]
  OBVIOUS
<1>3. /\ new \in Row
      /\ new.status = jobs[j].status /\ new.lease_owner = jobs[j].lease_owner
      /\ new.lease_expires_at = e /\ new.attempts = jobs[j].attempts
      /\ new.key = jobs[j].key /\ new.kind = jobs[j].kind /\ new.payload = jobs[j].payload
      /\ new.result_json = jobs[j].result_json
  BY <1>1, <1>2, RenewedRowFacts
<1>4. jobs' \in [JobIds -> Row] /\ jobs'[j] = new /\ \A i \in JobIds \ {j} : jobs'[i] = jobs[i]
  <2>1. jobs' = [jobs EXCEPT ![j] = new]
    BY <1>0, <1>1, <1>2 DEF Heartbeat, LeaseWindow
  <2> QED
    BY <1>1, <1>3, <2>1
<1>5. jobs[j].status = "running"
  BY DEF Heartbeat, Holds
<1>6. TypeOK'
  BY <1>1, <1>3, <1>4, <1>5 DEF IndInv, TypeOK, Heartbeat
<1>7. KeyUnique' /\ AbsentUnclaimed'
  BY <1>3, <1>4 DEF IndInv, KeyUnique, AbsentUnclaimed, Exists
<1>8. IdempotentEnqueue'
  BY <1>3, <1>4 DEF IndInv, TypeOK, IdempotentEnqueue, Heartbeat, HasKey, Exists
<1>9. LineageIsResult'
  <2>1. \A a \in attempt_finished : a.job_id \in JobIds \ {j}
    BY <1>5 DEF IndInv, TypeOK, LineageIsResult, Attempt
  <2> QED
    BY <1>4, <2>1 DEF IndInv, LineageIsResult, Heartbeat
<1>10. AttemptNumbersUnique'
  BY <1>3, <1>4 DEF IndInv, TypeOK, AttemptNumbersUnique, Heartbeat
<1>11. LeaseWasGranted'
  BY <1>3, <1>4 DEF IndInv, LeaseWasGranted, Heartbeat
<1>12. LineageWasGranted'
  BY DEF IndInv, LineageWasGranted, Heartbeat
<1> QED
  BY <1>6, <1>7, <1>8, <1>9, <1>10, <1>11, <1>12 DEF IndInv

\* complete, fail and the UPDATE of finish_attempt.
LEMMA FinishedJobInv ==
  ASSUME IndInv, NEW j \in JobIds, NEW st \in Terminal, NEW r \in Attempt \cup Reports,
         jobs[j].status = "running",
         jobs' = [jobs EXCEPT ![j] = FinishedRow(@, st, r)],
         UNCHANGED <<accepted, granted>>
  PROVE  /\ jobs' \in [JobIds -> Row]
         /\ \A i \in JobIds \ {j} : jobs'[i] = jobs[i]
         /\ jobs'[j].status = st /\ jobs'[j].attempts = jobs[j].attempts
         /\ jobs'[j].kind = jobs[j].kind /\ jobs'[j].result_json = r
         /\ jobs'[j].lease_owner = NULL /\ jobs'[j].lease_expires_at = NULL
         /\ KeyUnique' /\ AbsentUnclaimed' /\ IdempotentEnqueue'
         /\ AttemptNumbersUnique' /\ LeaseWasGranted'
         /\ \A a \in attempt_finished : a.job_id \in JobIds \ {j}
<1>1. PICK new : new = FinishedRow(jobs[j], st, r)
  OBVIOUS
<1>2. jobs \in [JobIds -> Row] /\ jobs[j] \in Row
  BY DEF IndInv, TypeOK
<1>3. /\ new \in Row
      /\ new.status = st /\ new.lease_owner = NULL
      /\ new.lease_expires_at = NULL /\ new.attempts = jobs[j].attempts
      /\ new.key = jobs[j].key /\ new.kind = jobs[j].kind /\ new.payload = jobs[j].payload
      /\ new.result_json = r
  BY <1>1, <1>2, FinishedRowFacts
<1>4. jobs' \in [JobIds -> Row] /\ jobs'[j] = new /\ \A i \in JobIds \ {j} : jobs'[i] = jobs[i]
  BY <1>1, <1>2, <1>3
<1>5. st # "running" /\ st # "absent"
  BY DEF Terminal
<1>6. KeyUnique' /\ AbsentUnclaimed'
  BY <1>3, <1>4, <1>5 DEF IndInv, KeyUnique, AbsentUnclaimed, Exists
<1>7. IdempotentEnqueue'
  BY <1>3, <1>4, <1>5 DEF IndInv, TypeOK, IdempotentEnqueue, HasKey, Exists
<1>8. AttemptNumbersUnique'
  BY <1>3, <1>4 DEF IndInv, TypeOK, AttemptNumbersUnique
<1>9. LeaseWasGranted'
  BY <1>3, <1>4, <1>5 DEF IndInv, LeaseWasGranted
<1>10. \A a \in attempt_finished : a.job_id \in JobIds \ {j}
  BY DEF IndInv, TypeOK, LineageIsResult, Attempt
<1> QED
  BY <1>3, <1>4, <1>6, <1>7, <1>8, <1>9, <1>10

\* complete and fail keep the invariant.
LEMMA FinishInv ==
  ASSUME IndInv, NEW j \in JobIds, NEW w \in WorkerIds, NEW n \in Times,
         NEW st \in Terminal, NEW r \in Reports, Finish(j, w, st, r, n)
  PROVE  IndInv'
<1>1. /\ jobs[j].status = "running"
      /\ jobs' = [jobs EXCEPT ![j] = FinishedRow(@, st, r)]
      /\ UNCHANGED <<accepted, granted>>
      /\ UNCHANGED attempt_finished
  BY DEF Finish, Holds
<1>2. /\ jobs' \in [JobIds -> Row]
      /\ \A i \in JobIds \ {j} : jobs'[i] = jobs[i]
      /\ jobs'[j].status = st
      /\ jobs'[j].lease_owner = NULL /\ jobs'[j].lease_expires_at = NULL
      /\ KeyUnique' /\ AbsentUnclaimed' /\ IdempotentEnqueue'
      /\ AttemptNumbersUnique' /\ LeaseWasGranted'
      /\ \A a \in attempt_finished : a.job_id \in JobIds \ {j}
  BY <1>1, FinishedJobInv
<1>3. TypeOK'
  BY <1>1, <1>2 DEF IndInv, TypeOK, Terminal
<1>4. LineageIsResult' /\ LineageWasGranted'
  BY <1>1, <1>2 DEF IndInv, LineageIsResult, LineageWasGranted
<1> QED
  BY <1>2, <1>3, <1>4 DEF IndInv

\* finish_attempt keeps the invariant: lineage and result are written together.
LEMMA FinishAttemptInv ==
  ASSUME IndInv, NEW w \in WorkerIds, NEW a \in BoundedAttempt, NEW n \in Times,
         FinishAttempt(w, a, n)
  PROVE  IndInv'
<1>1. a \in Attempt /\ a \in Attempt \cup Reports
  BY DEF BoundedAttempt, Attempt
<1>2. PICK j \in JobIds : j = a.job_id
  BY DEF BoundedAttempt
<1>3. PICK st \in Terminal : st = "completed"
  BY DEF Terminal
<1>4. /\ jobs[j].status = "running"
      /\ jobs' = [jobs EXCEPT ![j] = FinishedRow(@, st, a)]
      /\ UNCHANGED <<accepted, granted>>
  BY <1>2, <1>3 DEF FinishAttempt, Holds
<1>5. /\ attempt_finished' = attempt_finished \cup {a}
      /\ jobs[j].kind = "coding-agent" /\ jobs[j].attempts = a.attempt
  BY <1>2 DEF FinishAttempt, IsCurrentAttempt
<1>6. PICK r \in Attempt \cup Reports : r = a
  BY <1>1
<1>7. jobs' = [jobs EXCEPT ![j] = FinishedRow(@, st, r)]
  BY <1>4, <1>6
<1>8. jobs[j].status = "running" /\ UNCHANGED <<accepted, granted>>
  BY <1>4
<1>9. /\ jobs' \in [JobIds -> Row]
      /\ \A i \in JobIds \ {j} : jobs'[i] = jobs[i]
      /\ jobs'[j].status = st
      /\ jobs'[j].attempts = jobs[j].attempts /\ jobs'[j].kind = jobs[j].kind
      /\ jobs'[j].lease_owner = NULL /\ jobs'[j].lease_expires_at = NULL
      /\ KeyUnique' /\ AbsentUnclaimed' /\ IdempotentEnqueue'
      /\ AttemptNumbersUnique' /\ LeaseWasGranted'
      /\ \A b \in attempt_finished : b.job_id \in JobIds \ {j}
  BY <1>7, <1>8, FinishedJobInv
<1>10. jobs'[j].result_json = a
  <2>1. jobs[j] \in Row /\ jobs'[j] = FinishedRow(jobs[j], st, r)
    BY <1>7 DEF IndInv, TypeOK
  <2> QED
    BY <1>6, <2>1, FinishedRowFacts
<1>11. TypeOK'
  BY <1>1, <1>4, <1>5, <1>6, <1>3, <1>9 DEF IndInv, TypeOK
<1>12. LineageIsResult'
  <2>1. /\ jobs'[a.job_id].status = "completed" /\ jobs'[a.job_id].kind = "coding-agent"
        /\ jobs'[a.job_id].attempts = a.attempt /\ jobs'[a.job_id].result_json = a
    BY <1>2, <1>3, <1>5, <1>9, <1>10
  <2>2. ASSUME NEW b \in attempt_finished
        PROVE  /\ jobs'[b.job_id].status = "completed" /\ jobs'[b.job_id].kind = "coding-agent"
               /\ jobs'[b.job_id].attempts = b.attempt /\ jobs'[b.job_id].result_json = b
    <3>1. jobs'[b.job_id] = jobs[b.job_id]
      BY <1>9
    <3> QED
      BY <3>1 DEF IndInv, LineageIsResult
  <2> QED
    BY <1>5, <2>1, <2>2 DEF LineageIsResult
<1>13. LineageWasGranted'
  <2>1. PICK g : g = Grant(a.job_id, a.attempt, jobs[a.job_id].lease_owner)
    OBVIOUS
  <2>2. g \in granted' /\ g.job_id = a.job_id /\ g.attempt = a.attempt
    BY <1>2, <1>4, <1>5, <2>1 DEF IndInv, LeaseWasGranted, Grant
  <2> QED
    BY <1>4, <1>5, <2>2 DEF IndInv, LineageWasGranted
<1> QED
  BY <1>9, <1>11, <1>12, <1>13 DEF IndInv

-----------------------------------------------------------------------------
(* The theorems. *)

\* Every transaction keeps the invariant.
LEMMA NextIndInv == IndInv /\ [Next]_vars => IndInv'
<1> SUFFICES ASSUME IndInv, [Next]_vars PROVE IndInv'
  OBVIOUS
<1>1. CASE Enqueue
  BY <1>1, EnqueueNewInv, EnqueueAgainInv DEF Enqueue
<1>2. CASE Claim
  BY <1>2, ClaimInv DEF Claim
<1>3. CASE Release
  <2>1. {"completed", "failed"} \subseteq Terminal
    BY DEF Terminal
  <2> QED
    BY <1>3, <2>1, HeartbeatInv, FinishInv DEF Release, Complete, Fail
<1>4. CASE Publish
  BY <1>4, FinishAttemptInv DEF Publish
<1>5. CASE UNCHANGED vars
  BY <1>5 DEF vars, IndInv, TypeOK, KeyUnique, AbsentUnclaimed, IdempotentEnqueue,
              LineageIsResult, AttemptNumbersUnique, LeaseWasGranted, LineageWasGranted,
              Exists, HasKey
<1> QED
  BY <1>1, <1>2, <1>3, <1>4, <1>5 DEF Next

\* The inductive invariant holds in every reachable state.
THEOREM QueueInvariant == Spec => []IndInv
  BY InitIndInv, NextIndInv, PTL DEF Spec

\* The columns keep their types and the CHECK of the jobs table is never violated.
THEOREM TypeCorrect == Spec => []TypeOK
<1>1. IndInv => TypeOK
  BY DEF IndInv
<1> QED
  BY <1>1, QueueInvariant, PTL

\* enqueue answers a key with one job and one request for ever.
THEOREM EnqueueIsIdempotent == Spec => []IdempotentEnqueue
<1>1. IndInv => IdempotentEnqueue
  BY DEF IndInv
<1> QED
  BY <1>1, QueueInvariant, PTL

\* The lineage finish_attempt publishes is, and stays, the result of its job.
THEOREM LineageIsAlwaysResult == Spec => []LineageIsResult
<1>1. IndInv => LineageIsResult
  BY DEF IndInv
<1> QED
  BY <1>1, QueueInvariant, PTL

\* No attempt number is handed out twice, whatever the clocks of the workers say.
THEOREM AttemptNumbersAreUnique == Spec => []AttemptNumbersUnique
<1>1. IndInv => AttemptNumbersUnique
  BY DEF IndInv
<1> QED
  BY <1>1, QueueInvariant, PTL

\* Published lineage was claimed.
THEOREM LineageIsGranted == Spec => []LineageWasGranted
<1>1. IndInv => LineageWasGranted
  BY DEF IndInv
<1> QED
  BY <1>1, QueueInvariant, PTL

\* No transaction selects or updates a terminal row: nothing rewrites a job's
\* verdict, whoever calls and whatever clock reading it brings.
THEOREM TerminalRowsAreFinal == Spec => TerminalIsFinal
<1>1. ASSUME TypeOK, [Next]_vars, NEW i \in JobIds, jobs[i].status \in Terminal
      PROVE  jobs'[i] = jobs[i]
  <2> USE <1>1 DEF TypeOK, Terminal
  <2>1. CASE Enqueue
    BY <2>1 DEF Enqueue, EnqueueNew, EnqueueAgain, Exists
  <2>2. CASE Claim
    BY <2>2 DEF Claim, ClaimJob, Selected, Claimable
  <2>3. CASE Release
    BY <2>3 DEF Release, Heartbeat, Complete, Fail, Finish, Holds
  <2>4. CASE Publish
    BY <2>4 DEF Publish, FinishAttempt, Holds
  <2>5. CASE UNCHANGED vars
    BY <2>5 DEF vars
  <2> QED
    BY <2>1, <2>2, <2>3, <2>4, <2>5 DEF Next
<1>2. TypeOK /\ [Next]_vars => [KeepsTerminal]_vars
  BY <1>1 DEF KeepsTerminal
<1> QED
  BY <1>2, TypeCorrect, PTL DEF Spec, TerminalIsFinal

-----------------------------------------------------------------------------
(* Control.  The invariant adds to the queue's what a call of adjudicate()   *)
(* may rely on between its reads and its publication.  That the attempt it   *)
(* loaded is still the job's lineage minutes later is the queue's            *)
(* LineageIsResult; that the evidence is still the evidence is the           *)
(* write-once store.                                                         *)

HIDE JobQueueAssumption
USE ControlAssumption

\* An outcome was made from the inputs of a request.
MadeFor(o, r) ==
  o.contract = r.contract /\ o.profile = r.profile /\ o.run_id = r.run_id

\* What holds of a call of adjudicate() whatever the others do meanwhile.
CallBound(c) ==
  /\ c.pc # "idle" => /\ c.request \in Request
                      /\ c.attempt \in attempt_finished
                      /\ c.attempt.job_id = c.request.job_id
  /\ c.pc = "publish" => /\ c.outcome \in TaskOutcome
                         /\ c.outcome.attempt = c.attempt
                         /\ MadeFor(c.outcome, c.request)
                         /\ Supported(c.outcome)

CallsBound == \A p \in Controls : CallBound(control[p])

\* finish_attempt is called with the attempts the workers claimed.
LineageBounded == attempt_finished \subseteq BoundedAttempt

\* Everything a step of Control may rely on.
CInv ==
  /\ IndInv
  /\ LineageBounded
  /\ CTypeOK
  /\ CallsBound
  /\ OutcomeIsAboutLineage
  /\ OutcomeHasEvidence
  /\ ReturnedIsStored

-----------------------------------------------------------------------------
(* Lemmas *)

\* No transaction of the queue removes lineage.
LEMMA LineageGrows ==
  ASSUME [Next]_vars
  PROVE  /\ attempt_finished \subseteq attempt_finished'
         /\ LineageBounded => LineageBounded'
<1>1. CASE Enqueue
  BY <1>1 DEF Enqueue, EnqueueNew, EnqueueAgain, LineageBounded
<1>2. CASE Claim
  BY <1>2 DEF Claim, ClaimJob, LineageBounded
<1>3. CASE Release
  BY <1>3 DEF Release, Heartbeat, Complete, Fail, Finish, LineageBounded
<1>4. CASE Publish
  BY <1>4 DEF Publish, FinishAttempt, LineageBounded
<1>5. CASE UNCHANGED vars
  BY <1>5 DEF vars, LineageBounded
<1> QED
  BY <1>1, <1>2, <1>3, <1>4, <1>5 DEF Next

\* A row of task_outcomes is not the absence of one.
LEMMA NoOutcomeIsNull == NULL \notin TaskOutcome
  BY DEF TaskOutcome

\* The one lineage of a job.
LEMMA OneLineage ==
  ASSUME LineageIsResult, NEW a \in attempt_finished, NEW b \in attempt_finished,
         a.job_id = b.job_id
  PROVE  a = b
  BY DEF LineageIsResult

\* The empty tables and stores satisfy the invariant.
LEMMA InitCInv == CInit => CInv
<1> SUFFICES ASSUME CInit PROVE CInv
  OBVIOUS
<1>1. IndInv
  BY InitIndInv DEF CInit
<1>2. attempt_finished = {}
  BY DEF CInit, Init
<1>3. CTypeOK
  BY <1>1 DEF IndInv, CInit, CTypeOK, CallRecord, NoCall, Call
<1> QED
  BY <1>1, <1>2, <1>3 DEF CInv, CInit, LineageBounded, CallsBound, CallBound, NoCall, Call,
     OutcomeIsAboutLineage, OutcomeHasEvidence, ReturnedIsStored

\* A transaction of the queue leaves Control's invariant alone.
LEMMA QueueStepInv ==
  ASSUME CInv, [Next]_vars, UNCHANGED ctlVars
  PROVE  CInv'
<1>1. IndInv'
  BY NextIndInv DEF CInv
<1>2. attempt_finished \subseteq attempt_finished' /\ LineageBounded'
  BY LineageGrows DEF CInv
<1>3. UNCHANGED <<task_outcomes, evidence, control, returned>>
  BY DEF ctlVars
<1>4. CTypeOK'
  BY <1>1, <1>3 DEF CInv, CTypeOK, IndInv
<1>5. CallsBound'
  BY <1>2, <1>3 DEF CInv, CallsBound, CallBound, Supported
<1>6. OutcomeIsAboutLineage'
  BY <1>1, <1>2, <1>3 DEF CInv, IndInv, OutcomeIsAboutLineage, LineageIsResult
<1>7. OutcomeHasEvidence' /\ ReturnedIsStored'
  BY <1>3 DEF CInv, OutcomeHasEvidence, ReturnedIsStored, Supported
<1> QED
  BY <1>1, <1>2, <1>4, <1>5, <1>6, <1>7 DEF CInv

\* What a step that leaves the two tables of the queue alone keeps.
LEMMA QueueFrame ==
  ASSUME CInv, UNCHANGED vars
  PROVE  /\ IndInv' /\ LineageBounded'
         /\ UNCHANGED <<jobs, attempt_finished>>
  BY NextIndInv DEF CInv, vars, LineageBounded

\* A step that only moves one call keeps the invariant if the call stays bound.
LEMMA MoveInv ==
  ASSUME CInv, UNCHANGED vars, UNCHANGED <<task_outcomes, evidence, returned>>,
         NEW p \in Controls, NEW c \in CallRecord, CallBound(c),
         control' = [control EXCEPT ![p] = c]
  PROVE  CInv'
<1>1. IndInv' /\ LineageBounded' /\ UNCHANGED <<jobs, attempt_finished>>
  BY QueueFrame
<1>2. CTypeOK'
  BY <1>1 DEF CInv, CTypeOK, IndInv
<1>3. CallsBound'
  <2> SUFFICES ASSUME NEW q \in Controls PROVE CallBound(control[q])'
    BY DEF CallsBound
  <2>1. control'[q] = IF q = p THEN c ELSE control[q]
    BY DEF CInv, CTypeOK
  <2>2. CallBound(control'[q])
    BY <2>1 DEF CInv, CallsBound
  <2> QED
    BY <1>1, <2>2 DEF CallBound, Supported
<1>4. OutcomeIsAboutLineage' /\ OutcomeHasEvidence' /\ ReturnedIsStored'
  BY <1>1 DEF CInv, OutcomeIsAboutLineage, OutcomeHasEvidence, ReturnedIsStored, Supported
<1> QED
  BY <1>1, <1>2, <1>3, <1>4 DEF CInv

\* The call ends without an outcome: VerifyFails, PublishRefused, ControlCrash, and an
\* outcome found that another request made.
LEMMA EndInv ==
  ASSUME CInv, UNCHANGED vars, UNCHANGED <<task_outcomes, evidence, returned>>,
         NEW p \in Controls, control' = [control EXCEPT ![p] = NoCall]
  PROVE  CInv'
<1>1. NoCall \in CallRecord /\ CallBound(NoCall)
  BY DEF NoCall, Call, CallRecord, CallBound
<1> QED
  BY <1>1, MoveInv

\* Begin loads the latest AttemptFinished of the requested job.
LEMMA BeginInv ==
  ASSUME CInv, UNCHANGED vars, NEW p \in Controls, NEW r \in Request, Begin(p, r)
  PROVE  CInv'
<1>1. PICK a \in attempt_finished :
        /\ a.job_id = r.job_id
        /\ control' = [control EXCEPT ![p] = Call("attempt", r, a, NULL)]
  BY DEF Begin, LatestAttempt
<1>2. PICK c : c = Call("attempt", r, a, NULL)
  OBVIOUS
<1>3. c \in CallRecord /\ CallBound(c)
  BY <1>1, <1>2 DEF CInv, LineageBounded, Call, CallRecord, CallBound
<1> QED
  BY <1>1, <1>2, <1>3, MoveInv DEF Begin

\* LoadOutcome: a stored outcome made by this request is about the attempt the
\* call loaded, because a job has one lineage.
LEMMA LoadOutcomeInv ==
  ASSUME CInv, UNCHANGED vars, NEW p \in Controls, LoadOutcome(p)
  PROVE  CInv'
<1> DEFINE r == control[p].request
           a == control[p].attempt
           o == task_outcomes[r.job_id]
<1>1. /\ control[p].pc = "attempt"
      /\ r \in Request /\ a \in attempt_finished /\ a.job_id = r.job_id
      /\ a \in BoundedAttempt /\ r.job_id \in JobIds
  BY DEF LoadOutcome, CInv, CallsBound, CallBound, LineageBounded, Request
<1>2. UNCHANGED <<task_outcomes, evidence, returned>>
  BY DEF LoadOutcome
<1>3. CASE control' = [control EXCEPT ![p] = Call("verify", r, a, NULL)]
  <2>1. PICK c : c = Call("verify", r, a, NULL)
    OBVIOUS
  <2>2. c \in CallRecord /\ CallBound(c)
    BY <1>1, <2>1 DEF Call, CallRecord, CallBound
  <2> QED
    BY <1>2, <1>3, <2>1, <2>2, MoveInv
<1>4. CASE /\ o # NULL /\ SameInputs(o, r)
           /\ control' = [control EXCEPT ![p] = Call("publish", r, a, o)]
  <2>1. o \in TaskOutcome
    BY <1>1, <1>4 DEF CInv, CTypeOK
  <2>2. o.attempt \in attempt_finished /\ o.attempt.job_id = a.job_id /\ Supported(o)
    BY <1>1, <1>4 DEF CInv, OutcomeIsAboutLineage, OutcomeHasEvidence
  <2>3. o.attempt = a
    BY <1>1, <2>2, OneLineage DEF CInv, IndInv
  <2>4. PICK c : c = Call("publish", r, a, o)
    OBVIOUS
  <2>5. c \in CallRecord /\ CallBound(c)
    BY <1>1, <1>4, <2>1, <2>2, <2>3, <2>4
       DEF Call, CallRecord, CallBound, SameInputs, MadeFor
  <2> QED
    BY <1>2, <1>4, <2>4, <2>5, MoveInv
<1>5. CASE control' = [control EXCEPT ![p] = NoCall]
  BY <1>2, <1>5, EndInv
<1> QED
  BY <1>3, <1>4, <1>5 DEF LoadOutcome

\* The store is write-once: what supported an outcome goes on supporting it.
LEMMA SupportKept ==
  ASSUME CTypeOK, NEW run \in RunIds, NEW receipt \in Receipt, FreeRun(run),
         evidence' = [evidence EXCEPT ![run] = receipt],
         NEW o \in TaskOutcome, Supported(o)
  PROVE  Supported(o)'
<1>1. o.run_id \in RunIds /\ o.run_id # run
  BY DEF TaskOutcome, Supported, FreeRun
<1>2. evidence'[o.run_id] = evidence[o.run_id]
  BY <1>1 DEF CTypeOK
<1> QED
  BY <1>2 DEF Supported

\* What publishing a run under a free run id keeps.
LEMMA PublishedRunKeeps ==
  ASSUME CInv, UNCHANGED vars, UNCHANGED <<task_outcomes, returned>>,
         NEW run \in RunIds, NEW receipt \in Receipt, FreeRun(run),
         evidence' = [evidence EXCEPT ![run] = receipt]
  PROVE  /\ evidence' \in [RunIds -> Receipt \cup {NULL}]
         /\ OutcomeIsAboutLineage' /\ OutcomeHasEvidence' /\ ReturnedIsStored'
         /\ \A c \in CallRecord : CallBound(c) => CallBound(c)'
<1>1. UNCHANGED <<jobs, attempt_finished>>
  BY QueueFrame
<1>2. evidence' \in [RunIds -> Receipt \cup {NULL}]
  BY DEF CInv, CTypeOK
<1>3. OutcomeIsAboutLineage' /\ ReturnedIsStored'
  BY <1>1 DEF CInv, OutcomeIsAboutLineage, ReturnedIsStored
<1>4. OutcomeHasEvidence'
  <2> SUFFICES ASSUME NEW j \in JobIds, task_outcomes[j] # NULL
               PROVE  Supported(task_outcomes[j])'
    BY DEF OutcomeHasEvidence
  <2>1. task_outcomes[j] \in TaskOutcome /\ Supported(task_outcomes[j])
    BY DEF CInv, CTypeOK, OutcomeHasEvidence
  <2>2. PICK o \in TaskOutcome : o = task_outcomes[j]
    BY <2>1
  <2>3. Supported(o)'
    BY <2>1, <2>2, SupportKept DEF CInv
  <2> QED
    BY <2>2, <2>3 DEF Supported
<1>5. ASSUME NEW c \in CallRecord, CallBound(c)
      PROVE  CallBound(c)'
  <2>1. c.pc = "publish" => Supported(c.outcome)'
    <3> SUFFICES ASSUME c.pc = "publish" PROVE Supported(c.outcome)'
      OBVIOUS
    <3>1. c.outcome \in TaskOutcome /\ Supported(c.outcome)
      BY <1>5 DEF CallBound
    <3>2. PICK o \in TaskOutcome : o = c.outcome
      BY <3>1
    <3>3. Supported(o)'
      BY <3>1, <3>2, SupportKept DEF CInv
    <3> QED
      BY <3>2, <3>3 DEF Supported
  <2> QED
    BY <1>1, <1>5, <2>1 DEF CallBound
<1> QED
  BY <1>2, <1>3, <1>4, <1>5

\* Diagnostic verification by an Agent.
LEMMA AgentVerifiesInv ==
  ASSUME CInv, UNCHANGED vars, NEW run \in RunIds, NEW receipt \in Receipt,
         AgentVerifies(run, receipt)
  PROVE  CInv'
<1>1. /\ FreeRun(run) /\ evidence' = [evidence EXCEPT ![run] = receipt]
      /\ UNCHANGED <<task_outcomes, control, returned>>
  BY DEF AgentVerifies
<1>2. IndInv' /\ LineageBounded'
  BY QueueFrame
<1>3. /\ evidence' \in [RunIds -> Receipt \cup {NULL}]
      /\ OutcomeIsAboutLineage' /\ OutcomeHasEvidence' /\ ReturnedIsStored'
      /\ \A c \in CallRecord : CallBound(c) => CallBound(c)'
  BY <1>1, PublishedRunKeeps
<1>4. CTypeOK'
  BY <1>1, <1>2, <1>3 DEF CInv, CTypeOK, IndInv
<1>5. CallsBound'
  <2> SUFFICES ASSUME NEW q \in Controls PROVE CallBound(control[q])'
    BY DEF CallsBound
  <2>1. PICK c \in CallRecord : c = control[q]
    BY DEF CInv, CTypeOK
  <2>2. CallBound(c)'
    BY <1>3, <2>1 DEF CInv, CallsBound
  <2> QED
    BY <1>1, <2>1, <2>2 DEF CallBound, Supported
<1> QED
  BY <1>2, <1>3, <1>4, <1>5 DEF CInv

\* Verify publishes a run for the attempt's bundle and evaluates that very run.
LEMMA VerifyInv ==
  ASSUME CInv, UNCHANGED vars, NEW p \in Controls, NEW facts \in Facts, Verify(p, facts)
  PROVE  CInv'
<1> DEFINE r == control[p].request
           a == control[p].attempt
<1>1. PICK receipt : receipt = ReceiptFor(r, a, facts)
  OBVIOUS
<1>2. PICK o : o = OutcomeOf(r, a, receipt)
  OBVIOUS
<1>3. PICK c : c = Call("publish", r, a, o)
  OBVIOUS
<1>4. /\ control[p].pc = "verify" /\ FreeRun(r.run_id)
      /\ evidence' = [evidence EXCEPT ![r.run_id] = receipt]
      /\ control' = [control EXCEPT ![p] = c]
      /\ UNCHANGED <<task_outcomes, returned>>
  BY <1>1, <1>2, <1>3 DEF Verify
<1>5. /\ r \in Request /\ r.run_id \in RunIds /\ r.contract \in Contracts /\ r.profile \in Profiles
      /\ a \in attempt_finished /\ a.job_id = r.job_id
      /\ a \in BoundedAttempt /\ a.output_bundle \in Bundles
  BY <1>4 DEF CInv, CallsBound, CallBound, LineageBounded, Request, BoundedAttempt
<1>6. /\ receipt \in Receipt /\ receipt # NULL
      /\ receipt.bundle = a.output_bundle /\ receipt.profile = r.profile
      /\ receipt.facts = facts
  BY <1>1, <1>5 DEF ReceiptFor, Receipt
<1>7. /\ o \in TaskOutcome /\ o.attempt = a /\ MadeFor(o, r)
      /\ o.decision = Evaluate[r.contract][receipt.facts]
  BY <1>2, <1>5, <1>6 DEF OutcomeOf, TaskOutcome, MadeFor
<1>8. /\ evidence' \in [RunIds -> Receipt \cup {NULL}]
      /\ OutcomeIsAboutLineage' /\ OutcomeHasEvidence' /\ ReturnedIsStored'
      /\ \A d \in CallRecord : CallBound(d) => CallBound(d)'
  BY <1>4, <1>5, <1>6, PublishedRunKeeps
<1>9. IndInv' /\ LineageBounded' /\ UNCHANGED <<jobs, attempt_finished>>
  BY QueueFrame
<1>10. evidence'[r.run_id] = receipt
  BY <1>4, <1>5 DEF CInv, CTypeOK
<1>11. Supported(o)'
  BY <1>5, <1>6, <1>7, <1>10 DEF Supported, MadeFor
<1>12. c \in CallRecord /\ CallBound(c)'
  BY <1>3, <1>5, <1>7, <1>9, <1>11 DEF Call, CallRecord, CallBound, MadeFor, Supported
<1>13. CTypeOK'
  BY <1>4, <1>8, <1>9, <1>12 DEF CInv, CTypeOK, IndInv
<1>14. CallsBound'
  <2> SUFFICES ASSUME NEW q \in Controls PROVE CallBound(control[q])'
    BY DEF CallsBound
  <2>1. control'[q] = IF q = p THEN c ELSE control[q]
    BY <1>4 DEF CInv, CTypeOK
  <2>2. PICK d \in CallRecord : d = control'[q]
    BY <1>12, <2>1 DEF CInv, CTypeOK
  <2>3. CallBound(d)'
    BY <1>8, <1>12, <2>1, <2>2 DEF CInv, CallsBound
  <2> QED
    BY <2>2, <2>3 DEF CallBound, Supported
<1> QED
  BY <1>8, <1>9, <1>13, <1>14 DEF CInv

\* PublishOutcome stores an outcome that is bound and supported, or finds it there.
LEMMA PublishOutcomeInv ==
  ASSUME CInv, UNCHANGED vars, NEW p \in Controls, PublishOutcome(p)
  PROVE  CInv'
<1> DEFINE r == control[p].request
           a == control[p].attempt
           o == control[p].outcome
           j == a.job_id
<1>1. /\ control[p].pc = "publish" /\ CurrentAttempt(a) /\ task_outcomes[j] \in {NULL, o}
      /\ task_outcomes' = [task_outcomes EXCEPT ![j] = o]
      /\ returned' = returned \cup {[request |-> r, outcome |-> o]}
      /\ control' = [control EXCEPT ![p] = NoCall]
      /\ UNCHANGED evidence
  BY DEF PublishOutcome, Acceptable
<1>2. /\ r \in Request /\ a \in attempt_finished /\ j = r.job_id /\ j \in JobIds
      /\ o \in TaskOutcome /\ o.attempt = a /\ MadeFor(o, r) /\ Supported(o)
  BY <1>1 DEF CInv, CallsBound, CallBound, Request
<1>3. IndInv' /\ LineageBounded' /\ UNCHANGED <<jobs, attempt_finished>>
  BY QueueFrame
<1>4. NoCall \in CallRecord /\ CallBound(NoCall)'
  BY DEF NoCall, Call, CallRecord, CallBound
<1>5. CTypeOK'
  <2>1. task_outcomes' \in [JobIds -> TaskOutcome \cup {NULL}]
    BY <1>1, <1>2 DEF CInv, CTypeOK
  <2>2. returned' \subseteq [request : Request, outcome : TaskOutcome]
    BY <1>1, <1>2 DEF CInv, CTypeOK
  <2>3. control' \in [Controls -> CallRecord]
    BY <1>1, <1>4 DEF CInv, CTypeOK
  <2> QED
    BY <1>1, <1>3, <2>1, <2>2, <2>3 DEF CInv, CTypeOK, IndInv
<1>6. CallsBound'
  <2> SUFFICES ASSUME NEW q \in Controls PROVE CallBound(control[q])'
    BY DEF CallsBound
  <2>1. control'[q] = IF q = p THEN NoCall ELSE control[q]
    BY <1>1 DEF CInv, CTypeOK
  <2>2. CallBound(control'[q])
    BY <2>1 DEF CInv, CallsBound, CallBound, NoCall, Call
  <2> QED
    BY <1>1, <1>3, <2>2 DEF CallBound, Supported
<1>7. \A i \in JobIds : task_outcomes'[i] = IF i = j THEN o ELSE task_outcomes[i]
  BY <1>1 DEF CInv, CTypeOK
<1>8. OutcomeIsAboutLineage'
  BY <1>1, <1>2, <1>3, <1>7 DEF CInv, OutcomeIsAboutLineage, CurrentAttempt
<1>9. OutcomeHasEvidence'
  <2> SUFFICES ASSUME NEW i \in JobIds, task_outcomes'[i] # NULL
               PROVE  Supported(task_outcomes[i])'
    BY DEF OutcomeHasEvidence
  <2>1. Supported(task_outcomes'[i])
    BY <1>2, <1>7 DEF CInv, OutcomeHasEvidence
  <2> QED
    BY <1>1, <2>1 DEF Supported
<1>10. ReturnedIsStored'
  <2> SUFFICES ASSUME NEW x \in returned'
               PROVE  /\ task_outcomes'[x.request.job_id] = x.outcome
                      /\ MadeFor(x.outcome, x.request)
    BY DEF ReturnedIsStored, MadeFor
  <2>1. CASE x \in returned
    <3>1. /\ x.request.job_id \in JobIds /\ x.outcome \in TaskOutcome
          /\ task_outcomes[x.request.job_id] = x.outcome
          /\ MadeFor(x.outcome, x.request)
      BY <2>1 DEF CInv, CTypeOK, Request, ReturnedIsStored, MadeFor
    <3>2. x.request.job_id = j => x.outcome = o
      BY <1>1, <3>1, NoOutcomeIsNull
    <3> QED
      BY <1>7, <3>1, <3>2
  <2>2. CASE x = [request |-> r, outcome |-> o]
    BY <1>2, <1>7, <2>2
  <2> QED
    BY <1>1, <2>1, <2>2
<1> QED
  BY <1>3, <1>5, <1>6, <1>8, <1>9, <1>10 DEF CInv

\* Every step of Control, of the queue and of an Agent keeps the invariant.
LEMMA NextCInv == CInv /\ [CNext]_allVars => CInv'
<1> SUFFICES ASSUME CInv, [CNext]_allVars PROVE CInv'
  OBVIOUS
<1>1. CASE Next /\ UNCHANGED ctlVars
  BY <1>1, QueueStepInv
<1>2. CASE AgentStep /\ UNCHANGED vars
  BY <1>2, AgentVerifiesInv DEF AgentStep
<1>3. ASSUME NEW p \in Controls, ControlStep(p), UNCHANGED vars
      PROVE  CInv'
  <2>1. CASE \E r \in Request : Begin(p, r)
    BY <1>3, <2>1, BeginInv
  <2>2. CASE LoadOutcome(p)
    BY <1>3, <2>2, LoadOutcomeInv
  <2>3. CASE \E facts \in Facts : Verify(p, facts)
    BY <1>3, <2>3, VerifyInv
  <2>4. CASE VerifyFails(p)
    BY <1>3, <2>4, EndInv DEF VerifyFails
  <2>5. CASE PublishOutcome(p)
    BY <1>3, <2>5, PublishOutcomeInv
  <2>6. CASE PublishRefused(p)
    BY <1>3, <2>6, EndInv DEF PublishRefused
  <2>7. CASE ControlCrash(p)
    BY <1>3, <2>7, EndInv DEF ControlCrash
  <2> QED
    BY <1>3, <2>1, <2>2, <2>3, <2>4, <2>5, <2>6, <2>7 DEF ControlStep
<1>4. CASE UNCHANGED allVars
  BY <1>4, QueueStepInv DEF allVars, vars, ctlVars
<1> QED
  BY <1>1, <1>2, <1>3, <1>4 DEF CNext

-----------------------------------------------------------------------------
(* The theorems. *)

\* The inductive invariant holds in every reachable state.
THEOREM ControlInvariant == CSpec => []CInv
  BY InitCInv, NextCInv, PTL DEF CSpec

\* An outcome is about the one attempt that completed its job, for ever.
THEOREM OutcomesAreAboutLineage == CSpec => []OutcomeIsAboutLineage
<1>1. CInv => OutcomeIsAboutLineage
  BY DEF CInv
<1> QED
  BY <1>1, ControlInvariant, PTL

\* No outcome without a stored receipt that decided it: agents that verify into
\* the same store, crashes and racing Control processes included.
THEOREM OutcomesHaveEvidence == CSpec => []OutcomeHasEvidence
<1>1. CInv => OutcomeHasEvidence
  BY DEF CInv
<1> QED
  BY <1>1, ControlInvariant, PTL

\* adjudicate() never answers anything but the stored outcome of that request.
THEOREM AnswersAreStored == CSpec => []ReturnedIsStored
<1>1. CInv => ReturnedIsStored
  BY DEF CInv
<1> QED
  BY <1>1, ControlInvariant, PTL

\* A published outcome is never replaced.
THEOREM OutcomesAreFinal == CSpec => OutcomeIsFinal
<1>1. ASSUME CInv, [CNext]_allVars, NEW i \in JobIds, task_outcomes[i] # NULL
      PROVE  task_outcomes'[i] = task_outcomes[i]
  <2>1. CASE Next /\ UNCHANGED ctlVars
    BY <2>1 DEF ctlVars
  <2>2. CASE AgentStep
    BY <2>2 DEF AgentStep, AgentVerifies
  <2>3. ASSUME NEW p \in Controls, ControlStep(p)
        PROVE  task_outcomes'[i] = task_outcomes[i]
    <3>1. CASE PublishOutcome(p)
      BY <1>1, <3>1 DEF PublishOutcome, Acceptable, CInv, CTypeOK
    <3> QED
      BY <2>3, <3>1 DEF ControlStep, Begin, LoadOutcome, Verify, VerifyFails,
                        PublishRefused, ControlCrash
  <2>4. CASE UNCHANGED allVars
    BY <2>4 DEF allVars
  <2> QED
    BY <1>1, <2>1, <2>2, <2>3, <2>4 DEF CNext
<1>2. CInv /\ [CNext]_allVars => [KeepsOutcomes]_allVars
  BY <1>1 DEF KeepsOutcomes
<1> QED
  BY <1>2, ControlInvariant, PTL DEF CSpec, OutcomeIsFinal

-----------------------------------------------------------------------------
(* Refinement: every step of the system is a step of the task lifecycle or   *)
(* leaves it alone.                                                          *)

\* The initial tables are an initial state of the lifecycle.
LEMMA InitRefines == CInit => Task!Init
<1> SUFFICES ASSUME CInit PROVE Task!Init
  OBVIOUS
<1>1. \A j \in JobIds : PhaseOf(j) = "absent" /\ LineageOf(j) = NULL
  BY DEF CInit, Init, NoRow, PhaseOf, LineageOf, HasLineage
<1> QED
  BY <1>1 DEF Task!Init, CInit

\* A transaction on the row of job j that publishes at most an attempt of j
\* leaves the abstract state of every other task alone.
LEMMA OtherTasksKept ==
  ASSUME TypeOK, NEW j \in JobIds, NEW new, jobs' = [jobs EXCEPT ![j] = new],
         attempt_finished \subseteq attempt_finished',
         \A b \in attempt_finished' : b \in attempt_finished \/ b.job_id = j,
         NEW i \in JobIds, i # j
  PROVE  PhaseOf(i)' = PhaseOf(i) /\ LineageOf(i)' = LineageOf(i)
<1>1. jobs'[i] = jobs[i]
  BY DEF TypeOK
<1>2. HasLineage(i)' <=> HasLineage(i)
  BY DEF HasLineage
<1> QED
  BY <1>1, <1>2 DEF PhaseOf, LineageOf

\* The abstract step a transaction on the row of job j is.
LEMMA RowStepRefines ==
  ASSUME CInv, UNCHANGED ctlVars, NEW j \in JobIds, NEW new,
         jobs' = [jobs EXCEPT ![j] = new],
         attempt_finished \subseteq attempt_finished',
         \A b \in attempt_finished' : b \in attempt_finished \/ b.job_id = j,
         \/ PhaseOf(j)' = PhaseOf(j) /\ LineageOf(j)' = LineageOf(j)
         \/ PhaseOf(j) = "absent" /\ PhaseOf(j)' = "open" /\ LineageOf(j)' = LineageOf(j)
         \/ PhaseOf(j) = "open" /\ PhaseOf(j)' = "ended" /\ LineageOf(j)' = LineageOf(j)
         \/ PhaseOf(j) = "open" /\ PhaseOf(j)' = "executed" /\ LineageOf(j)' \in BoundedAttempt
  PROVE  [Task!Next]_(Task!vars)
<1>1. \A i \in JobIds \ {j} : PhaseOf(i)' = PhaseOf(i) /\ LineageOf(i)' = LineageOf(i)
  BY OtherTasksKept DEF CInv, CTypeOK
<1>2. UNCHANGED task_outcomes
  BY DEF ctlVars
<1>3. CASE PhaseOf(j)' = PhaseOf(j) /\ LineageOf(j)' = LineageOf(j)
  BY <1>1, <1>2, <1>3 DEF Task!vars
<1>4. CASE PhaseOf(j) = "absent" /\ PhaseOf(j)' = "open" /\ LineageOf(j)' = LineageOf(j)
  <2>1. Task!Submit(j)
    BY <1>1, <1>2, <1>4 DEF Task!Submit
  <2> QED
    BY <2>1 DEF Task!Next
<1>5. CASE PhaseOf(j) = "open" /\ PhaseOf(j)' = "ended" /\ LineageOf(j)' = LineageOf(j)
  <2>1. Task!Abandon(j)
    BY <1>1, <1>2, <1>5 DEF Task!Abandon
  <2> QED
    BY <2>1 DEF Task!Next
<1>6. CASE PhaseOf(j) = "open" /\ PhaseOf(j)' = "executed" /\ LineageOf(j)' \in BoundedAttempt
  <2>1. Task!Execute(j, LineageOf(j)')
    BY <1>1, <1>2, <1>6 DEF Task!Execute
  <2> QED
    BY <1>6, <2>1 DEF Task!Next
<1> QED
  BY <1>3, <1>4, <1>5, <1>6

\* A task that has not completed has no lineage.
LEMMA OpenHasNoLineage ==
  ASSUME CInv, NEW j \in JobIds, jobs[j].status # "completed"
  PROVE  ~ HasLineage(j) /\ LineageOf(j) = NULL
  BY DEF CInv, IndInv, LineageIsResult, HasLineage, LineageOf

\* enqueue submits a task, or changes nothing.
LEMMA EnqueueRefines ==
  ASSUME CInv, UNCHANGED ctlVars, Enqueue
  PROVE  [Task!Next]_(Task!vars)
<1>1. PICK j \in JobIds, k \in Keys, kind \in Kinds, payload \in Payloads :
        \/ \E stamp \in Stamps : EnqueueNew(j, k, kind, payload, stamp)
        \/ EnqueueAgain(j, k, kind, payload)
  BY DEF Enqueue
<1>2. CASE EnqueueAgain(j, k, kind, payload)
  BY <1>2 DEF EnqueueAgain, ctlVars, Task!vars, PhaseOf, LineageOf, HasLineage
<1>3. ASSUME NEW stamp \in Stamps, EnqueueNew(j, k, kind, payload, stamp)
      PROVE  [Task!Next]_(Task!vars)
  <2>1. PICK new : new = QueuedRow(k, kind, payload, stamp)
    OBVIOUS
  <2>2. /\ jobs' = [jobs EXCEPT ![j] = new] /\ attempt_finished' = attempt_finished
        /\ jobs[j].status = "absent" /\ new.status = "queued"
    BY <1>3, <2>1, QueuedRowFacts DEF EnqueueNew, Exists
  <2>3. jobs'[j] = new
    BY <2>2 DEF CInv, IndInv, TypeOK
  <2>4. ~ HasLineage(j) /\ ~ HasLineage(j)'
    BY <2>2, OpenHasNoLineage DEF HasLineage
  <2>5. /\ PhaseOf(j) = "absent" /\ PhaseOf(j)' = "open"
        /\ LineageOf(j)' = LineageOf(j)
    BY <2>2, <2>3, <2>4 DEF PhaseOf, LineageOf
  <2> QED
    BY <2>2, <2>5, RowStepRefines
<1> QED
  BY <1>1, <1>2, <1>3

\* A row written while it was not completed, with no lineage published: the
\* task stays open or is abandoned.
LEMMA OpenRowRefines ==
  ASSUME CInv, UNCHANGED ctlVars, NEW j \in JobIds, NEW new,
         jobs' = [jobs EXCEPT ![j] = new], attempt_finished' = attempt_finished,
         jobs[j].status \in {"queued", "running"},
         new.status \in {"running", "completed", "failed"}
  PROVE  [Task!Next]_(Task!vars)
<1>1. jobs'[j] = new
  BY DEF CInv, IndInv, TypeOK
<1>2. ~ HasLineage(j) /\ ~ HasLineage(j)'
  BY OpenHasNoLineage DEF HasLineage
<1>3. /\ PhaseOf(j) = "open" /\ PhaseOf(j)' \in {"open", "ended"}
      /\ LineageOf(j)' = LineageOf(j)
  BY <1>1, <1>2 DEF PhaseOf, LineageOf
<1> QED
  BY <1>3, RowStepRefines

\* claim opens nothing and ends nothing.
LEMMA ClaimRefines ==
  ASSUME CInv, UNCHANGED ctlVars, Claim
  PROVE  [Task!Next]_(Task!vars)
<1>1. PICK j \in JobIds, w \in WorkerIds, lease \in Leases, now \in Times :
        ClaimJob(j, w, lease, now)
  BY DEF Claim
<1>2. LeaseWindow(now, lease) \in Nat /\ jobs[j] \in Row
  BY JobQueueAssumption DEF LeaseWindow, CInv, IndInv, TypeOK
<1>3. PICK new : new = ClaimedRow(jobs[j], w, LeaseWindow(now, lease))
  OBVIOUS
<1>4. new.status = "running"
  BY <1>2, <1>3, ClaimedRowFacts
<1>5. /\ jobs' = [jobs EXCEPT ![j] = new] /\ attempt_finished' = attempt_finished
      /\ jobs[j].status \in {"queued", "running"}
  BY <1>1, <1>3 DEF ClaimJob, Selected, Claimable
<1> QED
  BY <1>4, <1>5, OpenRowRefines

\* heartbeat changes nothing of the task; complete and fail abandon it.
LEMMA ReleaseRefines ==
  ASSUME CInv, UNCHANGED ctlVars, Release
  PROVE  [Task!Next]_(Task!vars)
<1>1. PICK j \in JobIds, w \in WorkerIds, now \in Times :
        \/ \E lease \in Leases : Heartbeat(j, w, lease, now)
        \/ \E result \in Reports : Complete(j, w, result, now)
        \/ \E result \in Reports : Fail(j, w, result, now)
  BY DEF Release
<1>2. jobs[j] \in Row
  BY DEF CInv, IndInv, TypeOK
<1>3. ASSUME NEW lease \in Leases, Heartbeat(j, w, lease, now)
      PROVE  [Task!Next]_(Task!vars)
  <2>1. PICK e \in Nat : e = LeaseWindow(now, lease)
    BY JobQueueAssumption DEF LeaseWindow
  <2>2. PICK new : new = [jobs[j] EXCEPT !.lease_expires_at = e]
    OBVIOUS
  <2>3. new.status = jobs[j].status
    BY <1>2, <2>2, RenewedRowFacts
  <2>4. /\ jobs' = [jobs EXCEPT ![j] = new] /\ attempt_finished' = attempt_finished
        /\ jobs[j].status = "running"
    BY <1>3, <2>1, <2>2 DEF Heartbeat, Holds
  <2> QED
    BY <2>3, <2>4, OpenRowRefines
<1>4. ASSUME NEW st \in Terminal, NEW result \in Reports, Finish(j, w, st, result, now)
      PROVE  [Task!Next]_(Task!vars)
  <2>1. PICK new : new = FinishedRow(jobs[j], st, result)
    OBVIOUS
  <2>2. new.status = st
    BY <1>2, <2>1, FinishedRowFacts
  <2>3. /\ jobs' = [jobs EXCEPT ![j] = new] /\ attempt_finished' = attempt_finished
        /\ jobs[j].status = "running"
    BY <1>4, <2>1 DEF Finish, Holds
  <2> QED
    BY <2>2, <2>3, OpenRowRefines DEF Terminal
<1>5. {"completed", "failed"} \subseteq Terminal
  BY DEF Terminal
<1> QED
  BY <1>1, <1>3, <1>4, <1>5 DEF Complete, Fail

\* finish_attempt executes the task by the attempt it publishes.
LEMMA PublishRefines ==
  ASSUME CInv, UNCHANGED ctlVars, Publish
  PROVE  [Task!Next]_(Task!vars)
<1>1. PICK w \in WorkerIds, a \in BoundedAttempt, now \in Times : FinishAttempt(w, a, now)
  BY DEF Publish
<1> DEFINE j == a.job_id
<1>2. j \in JobIds /\ a \in Attempt
  BY DEF BoundedAttempt, Attempt
<1>3. jobs[j] \in Row
  BY <1>2 DEF CInv, IndInv, TypeOK
<1>4. PICK st \in Terminal : st = "completed"
  BY DEF Terminal
<1>5. PICK new : new = FinishedRow(jobs[j], st, a)
  OBVIOUS
<1>6. new.status = st /\ new.result_json = a
  BY <1>2, <1>3, <1>5, FinishedRowFacts
<1>7. /\ jobs' = [jobs EXCEPT ![j] = new] /\ attempt_finished' = attempt_finished \cup {a}
      /\ jobs[j].status = "running"
  BY <1>1, <1>4, <1>5 DEF FinishAttempt, Holds
<1>8. jobs'[j] = new
  BY <1>2, <1>7 DEF CInv, IndInv, TypeOK
<1>9. HasLineage(j)'
  BY <1>7 DEF HasLineage
<1>10. PhaseOf(j) = "open" /\ PhaseOf(j)' = "executed" /\ LineageOf(j)' = a
  BY <1>4, <1>6, <1>7, <1>8, <1>9 DEF PhaseOf, LineageOf
<1> QED
  BY <1>2, <1>7, <1>10, RowStepRefines

\* Publishing an outcome decides the task; finding it published changes nothing.
LEMMA PublishOutcomeRefines ==
  ASSUME CInv, UNCHANGED vars, NEW p \in Controls, PublishOutcome(p)
  PROVE  [Task!Next]_(Task!vars)
<1> DEFINE a == control[p].attempt
           o == control[p].outcome
           j == a.job_id
<1>1. /\ CurrentAttempt(a) /\ task_outcomes[j] \in {NULL, o}
      /\ task_outcomes' = [task_outcomes EXCEPT ![j] = o]
      /\ control[p].pc = "publish"
  BY DEF PublishOutcome, Acceptable
<1>2. a \in attempt_finished /\ j \in JobIds /\ o \in TaskOutcome /\ o.attempt = a
  BY <1>1 DEF CInv, CallsBound, CallBound, Request
<1>3. PhaseOf(j) = "executed" /\ LineageOf(j) = a
  BY <1>1, <1>2 DEF CurrentAttempt, PhaseOf, LineageOf, HasLineage
<1>4. UNCHANGED <<jobs, attempt_finished>>
  BY QueueFrame
<1>5. \A i \in JobIds : PhaseOf(i)' = PhaseOf(i) /\ LineageOf(i)' = LineageOf(i)
  BY <1>4 DEF PhaseOf, LineageOf, HasLineage
<1>6. CASE task_outcomes[j] = NULL
  <2>1. Task!Decide(j, o)
    BY <1>1, <1>2, <1>3, <1>5, <1>6 DEF Task!Decide, AttemptOf
  <2> QED
    BY <1>2, <2>1 DEF Task!Next
<1>7. CASE task_outcomes[j] = o
  <2>1. task_outcomes' = task_outcomes
    BY <1>1, <1>2, <1>7 DEF CInv, CTypeOK
  <2> QED
    BY <1>5, <2>1 DEF Task!vars
<1> QED
  BY <1>1, <1>6, <1>7

\* Every step maps to a step of the lifecycle or to a stutter.
LEMMA NextRefines == CInv /\ [CNext]_allVars => [Task!Next]_(Task!vars)
<1> SUFFICES ASSUME CInv, [CNext]_allVars PROVE [Task!Next]_(Task!vars)
  OBVIOUS
<1>1. CASE Next /\ UNCHANGED ctlVars
  BY <1>1, EnqueueRefines, ClaimRefines, ReleaseRefines, PublishRefines DEF Next
<1>2. ASSUME UNCHANGED <<jobs, attempt_finished, task_outcomes>>
      PROVE  UNCHANGED Task!vars
  BY <1>2 DEF Task!vars, PhaseOf, LineageOf, HasLineage
<1>3. CASE AgentStep /\ UNCHANGED vars
  BY <1>2, <1>3 DEF AgentStep, AgentVerifies, vars
<1>4. ASSUME NEW p \in Controls, ControlStep(p), UNCHANGED vars
      PROVE  [Task!Next]_(Task!vars)
  <2>1. CASE PublishOutcome(p)
    BY <1>4, <2>1, PublishOutcomeRefines
  <2>2. CASE ~ PublishOutcome(p)
    <3>1. UNCHANGED <<jobs, attempt_finished, task_outcomes>>
      BY <1>4, <2>2 DEF ControlStep, Begin, LoadOutcome, Verify, VerifyFails,
                        PublishRefused, ControlCrash, vars
    <3> QED
      BY <1>2, <3>1
  <2> QED
    BY <2>1, <2>2
<1>5. CASE UNCHANGED allVars
  BY <1>2, <1>5 DEF allVars
<1> QED
  BY <1>1, <1>3, <1>4, <1>5 DEF CNext

\* The queue, its workers, verification and Control implement the task lifecycle:
\* one execution, one verdict, about that execution.
THEOREM SystemImplementsTaskLifecycle == CSpec => ImplementsTaskLifecycle
  BY InitRefines, NextRefines, ControlInvariant, PTL
     DEF CSpec, ImplementsTaskLifecycle, Task!Spec

-----------------------------------------------------------------------------
(* The worker processes, for any number of processes, crashes and readings   *)
(* of the clock.  What a process holds is traced back to a claim it was      *)
(* granted.                                                                  *)

HIDE ControlAssumption
USE WorkerAssumption

\* Where a process has a JobRecord in hand.
Busy == Working \cup {"leave"}

\* No two processes were started with one --worker-id.
OwnIds == \A p, q \in Procs : WorkerIdOf[p] = WorkerIdOf[q] => p = q

\* No two jobs ask for the same run_id.
OwnRuns ==
  \A i, j \in JobIds : Exists(i) /\ Exists(j) /\ PrefixOf(i) = PrefixOf(j) => i = j

-----------------------------------------------------------------------------
(* The inductive invariant, by parts. *)

WorkTypes ==
  /\ clock \in 0..MaxClock
  /\ proc \in [Procs -> [pc : Working \cup {"idle", "claim", "leave"}, now : 0..MaxClock,
                         held : Held \cup {NULL}, result : Attempt \cup {NULL}]]
  /\ keeper \in [Procs -> [pc : {"off", "wait", "beat"}, now : 0..MaxClock, lost : BOOLEAN]]
  /\ attempt_dirs \subseteq JobIds \X Nat
  /\ crashes \in 0..MaxCrashes

Bounded == \A j \in JobIds : jobs[j].attempts <= MaxAttempts

\* The record a process works on was granted to it; its keeper beats for it,
\* and the lineage it publishes is that attempt's.
HeldWasGranted ==
  \A p \in Procs :
    /\ proc[p].pc \in Busy =>
         /\ proc[p].held \in Held
         /\ Grant(proc[p].held.job_id, proc[p].held.attempt, WorkerIdOf[p]) \in granted
    /\ keeper[p].pc # "off" => proc[p].pc \in Busy
    /\ proc[p].pc \in {"executed", "finish"} =>
         /\ proc[p].result \in Attempt
         /\ proc[p].result.job_id = proc[p].held.job_id
         /\ proc[p].result.attempt = proc[p].held.attempt

\* Directories on disk are named by attempts that were claimed, and an attempt
\* that is about to make its own does not find it.
DirsWereClaimed ==
  /\ \A d \in attempt_dirs : d[2] <= jobs[d[1]].attempts
  /\ \A p \in Procs : proc[p].pc = "claimed" => DirOf(proc[p].held) \notin attempt_dirs

RunsWereClaimed ==
  /\ \A d \in run_dirs : /\ d.job_id \in JobIds /\ d.attempt \in Nat
                         /\ d.attempt <= jobs[d.job_id].attempts
                         /\ d.prefix = PrefixOf(d.job_id)
                         /\ Exists(d.job_id)
  /\ \A p \in Procs : proc[p].pc \in {"claimed", "materialized"} =>
       ~ \E d \in run_dirs : d.job_id = proc[p].held.job_id /\ d.attempt = proc[p].held.attempt

\* No reading is from the future, and no lease outlives one taken now.
ReadingsArePast ==
  /\ \A p \in Procs : proc[p].now <= clock /\ keeper[p].now <= clock
  /\ \A j \in JobIds : jobs[j].status = "running" => jobs[j].lease_expires_at <= clock + Lease

\* A process that goes on holding a job was granted no later attempt of it, and
\* its pending heartbeat is not older than the lease it would renew.
OwnIsLatest ==
  \A p \in Procs :
    /\ proc[p].pc \in Busy =>
         \A g \in granted : g.job_id = proc[p].held.job_id /\ g.worker = WorkerIdOf[p]
                              => g.attempt <= proc[p].held.attempt
    /\ keeper[p].pc = "beat" /\ jobs[proc[p].held.job_id].status = "running"
         /\ jobs[proc[p].held.job_id].lease_owner = WorkerIdOf[p]
         => jobs[proc[p].held.job_id].lease_expires_at <= keeper[p].now + Lease

WorkInv ==
  /\ IndInv
  /\ WorkTypes
  /\ Bounded
  /\ HeldWasGranted
  /\ AttemptsNotShared
  /\ DirsWereClaimed
  /\ RunsWereClaimed
  /\ ReadingsArePast
  /\ (OwnIds => OwnIsLatest)

-----------------------------------------------------------------------------
(* Steps of the queue that grant nothing and renew no lease. *)

Calm ==
  /\ granted' = granted
  /\ \A j \in JobIds :
       /\ jobs'[j].attempts = jobs[j].attempts
       /\ Exists(j) => jobs'[j].status # "absent" /\ jobs'[j].payload = jobs[j].payload
       /\ jobs'[j].status = "running" =>
            /\ jobs[j].status = "running"
            /\ jobs'[j].lease_owner = jobs[j].lease_owner
            /\ jobs'[j].lease_expires_at = jobs[j].lease_expires_at

\* enqueue inserts a row that was never claimed.
LEMMA EnqueueCalm == ASSUME IndInv, Enqueue PROVE Calm
<1>1. CASE \E j \in JobIds, k \in Keys, kind \in Kinds, payload \in Payloads, stamp \in Stamps :
             EnqueueNew(j, k, kind, payload, stamp)
  <2>1. PICK j \in JobIds, k \in Keys, kind \in Kinds, payload \in Payloads, stamp \in Stamps :
          EnqueueNew(j, k, kind, payload, stamp)
    BY <1>1
  <2>2. PICK new : new = QueuedRow(k, kind, payload, stamp)
    OBVIOUS
  <2>3. new.status = "queued" /\ new.attempts = 0
    BY <2>2, QueuedRowFacts
  <2>4. jobs'[j] = new /\ \A i \in JobIds \ {j} : jobs'[i] = jobs[i]
    BY <2>1, <2>2 DEF EnqueueNew, IndInv, TypeOK
  <2>5. ~ Exists(j) /\ jobs[j].attempts = 0 /\ granted' = granted
    BY <2>1 DEF EnqueueNew, IndInv, AbsentUnclaimed
  <2> QED BY <2>3, <2>4, <2>5 DEF Calm, Exists
<1>2. CASE \E j \in JobIds, k \in Keys, kind \in Kinds, payload \in Payloads :
             EnqueueAgain(j, k, kind, payload)
  BY <1>2 DEF EnqueueAgain, Calm, Exists
<1> QED BY <1>1, <1>2 DEF Enqueue

\* The row of complete, fail and finish_attempt is no longer running.
LEMMA FinishedCalm ==
  ASSUME IndInv, NEW j \in JobIds, NEW st \in Terminal, NEW r \in Attempt \cup Reports,
         jobs[j].status = "running", jobs' = [jobs EXCEPT ![j] = FinishedRow(@, st, r)],
         granted' = granted
  PROVE  Calm
<1>1. PICK new : new = FinishedRow(jobs[j], st, r)
  OBVIOUS
<1>2. jobs[j] \in Row
  BY DEF IndInv, TypeOK
<1>3. new.status = st /\ new.attempts = jobs[j].attempts /\ new.payload = jobs[j].payload
  BY <1>1, <1>2, FinishedRowFacts
<1>4. jobs'[j] = new /\ \A i \in JobIds \ {j} : jobs'[i] = jobs[i]
  BY <1>1 DEF IndInv, TypeOK
<1> QED BY <1>3, <1>4 DEF Calm, Exists, Terminal

\* A call that raises writes nothing.
LEMMA UnchangedCalm == UNCHANGED vars => Calm
BY DEF vars, Calm, Exists

-----------------------------------------------------------------------------
(* What the parts of the invariant say of one process. *)

\* The job of a busy process exists and its attempt was handed out.
LEMMA HeldFacts ==
  ASSUME WorkInv, NEW p \in Procs, proc[p].pc \in Busy
  PROVE  /\ proc[p].held \in Held
         /\ proc[p].held.job_id \in JobIds /\ proc[p].held.attempt \in Nat
         /\ proc[p].held.attempt \in 1..jobs[proc[p].held.job_id].attempts
         /\ Exists(proc[p].held.job_id)
<1>1. proc[p].held \in Held
  BY DEF WorkInv, HeldWasGranted
<1>2. proc[p].held.job_id \in JobIds /\ proc[p].held.attempt \in Nat
  BY <1>1 DEF Held
<1>3. PICK g : g = Grant(proc[p].held.job_id, proc[p].held.attempt, WorkerIdOf[p])
  OBVIOUS
<1>4. g \in granted /\ g.job_id = proc[p].held.job_id /\ g.attempt = proc[p].held.attempt
  BY <1>3 DEF WorkInv, HeldWasGranted, Grant
<1>5. proc[p].held.attempt \in 1..jobs[proc[p].held.job_id].attempts
  BY <1>4 DEF WorkInv, IndInv, AttemptNumbersUnique
<1>6. jobs[proc[p].held.job_id].attempts \in Nat
  BY <1>2 DEF WorkInv, IndInv, TypeOK, Row
<1>7. Exists(proc[p].held.job_id)
  BY <1>2, <1>5, <1>6 DEF WorkInv, IndInv, AbsentUnclaimed
<1> QED BY <1>1, <1>2, <1>5, <1>7

\* A step of the main thread of p that neither claims nor leaves.
LEMMA ProcStep ==
  ASSUME WorkInv, IndInv', Calm, NEW p \in Procs,
         NEW c \in Working \cup {"idle", "claim", "leave"}, NEW n \in {0, clock},
         NEW h \in Held \cup {NULL}, NEW r \in Attempt \cup {NULL},
         proc' = [proc EXCEPT ![p] = At(c, n, h, r)],
         UNCHANGED <<clock, keeper, crashes>>,
         c \in Busy => proc[p].pc \in Busy /\ h = proc[p].held,
         c \in Working => proc[p].pc \in Working,
         c \notin Busy => proc[p].pc \notin Busy,
         c # "claimed",
         c = "materialized" => proc[p].pc = "claimed",
         c \in {"executed", "finish"} =>
           r \in Attempt /\ r.job_id = h.job_id /\ r.attempt = h.attempt,
         \/ attempt_dirs' \subseteq attempt_dirs
         \/ proc[p].pc = "claimed" /\ attempt_dirs' = attempt_dirs \cup {DirOf(proc[p].held)},
         \/ run_dirs' = run_dirs
         \/ proc[p].pc = "materialized" /\ c = "agent"
              /\ run_dirs' = run_dirs \cup {RunDir(proc[p].held)}
  PROVE  WorkInv'
<1>1. /\ proc'[p].pc = c /\ proc'[p].now = n /\ proc'[p].held = h /\ proc'[p].result = r
      /\ \A q \in Procs \ {p} : proc'[q] = proc[q]
  BY DEF WorkInv, WorkTypes, At
<1>w. Working \subseteq Busy /\ "claimed" \in Working /\ "materialized" \in Working
  BY DEF Busy, Working
<1>2. WorkTypes'
  <2>1. n \in 0..MaxClock
    BY DEF WorkInv, WorkTypes
  <2>2. At(c, n, h, r) \in [pc : Working \cup {"idle", "claim", "leave"}, now : 0..MaxClock,
                            held : Held \cup {NULL}, result : Attempt \cup {NULL}]
    BY <2>1 DEF At
  <2>3. attempt_dirs' \subseteq JobIds \X Nat
    BY <1>w, HeldFacts DEF WorkInv, WorkTypes, DirOf
  <2> QED BY <2>2, <2>3 DEF WorkInv, WorkTypes
<1>3. Bounded'
  BY DEF WorkInv, Bounded, Calm
<1>4. HeldWasGranted'
  BY <1>1, <1>w DEF WorkInv, HeldWasGranted, Calm
<1>5. AttemptsNotShared'
  BY <1>1, <1>w DEF WorkInv, AttemptsNotShared
<1>6. DirsWereClaimed'
  <2>1. ASSUME NEW d \in attempt_dirs' PROVE d[2] <= jobs'[d[1]].attempts
    <3>1. CASE d \in attempt_dirs
      BY <3>1 DEF WorkInv, DirsWereClaimed, WorkTypes, Calm
    <3>2. CASE proc[p].pc = "claimed" /\ d = DirOf(proc[p].held)
      BY <1>w, <3>2, HeldFacts DEF DirOf, Calm
    <3> QED BY <2>1, <3>1, <3>2
  <2>2. ASSUME NEW q \in Procs, proc'[q].pc = "claimed" PROVE DirOf(proc'[q].held) \notin attempt_dirs'
    <3>1. q # p /\ proc'[q] = proc[q]
      BY <1>1, <2>2
    <3>2. DirOf(proc[q].held) \notin attempt_dirs
      BY <2>2, <3>1 DEF WorkInv, DirsWereClaimed
    <3>3. ASSUME proc[p].pc = "claimed" PROVE DirOf(proc[q].held) # DirOf(proc[p].held)
      <4>1. proc[p].held # proc[q].held
        BY <1>w, <2>2, <3>1, <3>3 DEF WorkInv, AttemptsNotShared
      <4>2. proc[p].held \in Held /\ proc[q].held \in Held
        BY <1>w, <2>2, <3>1, <3>3, HeldFacts
      <4> QED BY <4>1, <4>2 DEF Held, DirOf
    <3> QED BY <3>1, <3>2, <3>3
  <2> QED BY <2>1, <2>2 DEF DirsWereClaimed, DirOf
<1>7. RunsWereClaimed'
  <2>1. \A j \in JobIds : Exists(j) => Exists(j)' /\ PrefixOf(j)' = PrefixOf(j)
    BY DEF Calm, Exists, PrefixOf
  <2>2. ASSUME NEW d \in run_dirs'
        PROVE  /\ d.job_id \in JobIds /\ d.attempt \in Nat
               /\ d.attempt <= jobs'[d.job_id].attempts
               /\ d.prefix = PrefixOf(d.job_id)' /\ Exists(d.job_id)'
    <3>1. CASE d \in run_dirs
      BY <2>1, <3>1 DEF WorkInv, RunsWereClaimed, Calm
    <3>2. CASE proc[p].pc = "materialized" /\ d = RunDir(proc[p].held)
      <4>1. /\ d.job_id = proc[p].held.job_id /\ d.attempt = proc[p].held.attempt
            /\ d.prefix = PrefixOf(proc[p].held.job_id)
        BY <3>2 DEF RunDir
      <4> QED BY <1>w, <2>1, <3>2, <4>1, HeldFacts DEF Calm
    <3> QED BY <2>2, <3>1, <3>2
  <2>3. ASSUME NEW q \in Procs, proc'[q].pc \in {"claimed", "materialized"}, NEW d \in run_dirs',
               d.job_id = proc'[q].held.job_id, d.attempt = proc'[q].held.attempt
        PROVE  FALSE
    <3>1. CASE q = p
      <4>1. c = "materialized" /\ proc[p].pc = "claimed" /\ h = proc[p].held /\ run_dirs' = run_dirs
        BY <1>1, <1>w, <2>3, <3>1
      <4> QED BY <1>1, <2>3, <3>1, <4>1 DEF WorkInv, RunsWereClaimed
    <3>2. CASE q # p
      <4>1. proc'[q] = proc[q]
        BY <1>1, <3>2
      <4>2. d \notin run_dirs
        BY <2>3, <4>1 DEF WorkInv, RunsWereClaimed
      <4>3. proc[p].pc = "materialized" /\ d = RunDir(proc[p].held)
        BY <2>3, <4>2
      <4>4. d.job_id = proc[p].held.job_id /\ d.attempt = proc[p].held.attempt
        BY <4>3 DEF RunDir
      <4>5. proc[p].held # proc[q].held
        BY <1>w, <2>3, <3>2, <4>1, <4>3 DEF WorkInv, AttemptsNotShared
      <4>6. proc[p].held \in Held /\ proc[q].held \in Held
        BY <1>w, <2>3, <4>1, <4>3, HeldFacts
      <4> QED BY <2>3, <4>1, <4>4, <4>5, <4>6 DEF Held
    <3> QED BY <3>1, <3>2
  <2> QED BY <2>2, <2>3 DEF RunsWereClaimed
<1>8. ReadingsArePast'
  BY <1>1 DEF WorkInv, ReadingsArePast, WorkTypes, Calm
<1>9. OwnIds => OwnIsLatest'
  <2> SUFFICES ASSUME OwnIds, NEW q \in Procs
               PROVE  /\ proc'[q].pc \in Busy =>
                           \A g \in granted' :
                             g.job_id = proc'[q].held.job_id /\ g.worker = WorkerIdOf[q]
                               => g.attempt <= proc'[q].held.attempt
                      /\ keeper'[q].pc = "beat" /\ jobs'[proc'[q].held.job_id].status = "running"
                           /\ jobs'[proc'[q].held.job_id].lease_owner = WorkerIdOf[q]
                           => jobs'[proc'[q].held.job_id].lease_expires_at <= keeper'[q].now + Lease
    BY DEF OwnIsLatest
  <2>1. proc'[q].pc \in Busy => proc[q].pc \in Busy /\ proc'[q].held = proc[q].held
    BY <1>1
  <2>2. keeper'[q].pc = "beat" => proc'[q].pc \in Busy
    BY <1>4 DEF HeldWasGranted
  <2>3. proc[q].pc \in Busy => proc[q].held.job_id \in JobIds
    BY HeldFacts
  <2> QED BY <2>1, <2>2, <2>3 DEF WorkInv, OwnIsLatest, Calm
<1> QED BY <1>2, <1>3, <1>4, <1>5, <1>6, <1>7, <1>8, <1>9 DEF WorkInv, OwnIds

\* The process is idle again and its keeper is gone: __exit__, or a kill.
LEMMA QuitStep ==
  ASSUME WorkInv, IndInv', UNCHANGED vars, NEW p \in Procs,
         proc' = [proc EXCEPT ![p] = Idle], keeper' = [keeper EXCEPT ![p] = Off],
         UNCHANGED <<clock, attempt_dirs, run_dirs>>, crashes' \in 0..MaxCrashes
  PROVE  WorkInv'
<1>1. /\ proc'[p].pc = "idle" /\ proc'[p].now = 0
      /\ keeper'[p].pc = "off" /\ keeper'[p].now = 0
      /\ \A q \in Procs \ {p} : proc'[q] = proc[q] /\ keeper'[q] = keeper[q]
  BY DEF WorkInv, WorkTypes, At, Idle, Beating, Off
<1>w. "idle" \notin Busy /\ "idle" \notin Working
  BY DEF Busy, Working
<1>2. WorkTypes'
  <2>1. /\ Idle \in [pc : Working \cup {"idle", "claim", "leave"}, now : 0..MaxClock,
                     held : Held \cup {NULL}, result : Attempt \cup {NULL}]
        /\ Off \in [pc : {"off", "wait", "beat"}, now : 0..MaxClock, lost : BOOLEAN]
    BY DEF At, Idle, Beating, Off
  <2> QED BY <2>1 DEF WorkInv, WorkTypes
<1>3. Bounded'
  BY DEF WorkInv, Bounded, vars
<1>4. HeldWasGranted' /\ AttemptsNotShared'
  BY <1>1, <1>w DEF WorkInv, HeldWasGranted, AttemptsNotShared, vars
<1>5. DirsWereClaimed'
  <2>1. \A d \in attempt_dirs' : d[2] <= jobs'[d[1]].attempts
    BY DEF WorkInv, DirsWereClaimed, vars
  <2>2. ASSUME NEW q \in Procs, proc'[q].pc = "claimed"
        PROVE  DirOf(proc'[q].held) \notin attempt_dirs'
    <3>1. proc'[q] = proc[q]
      BY <1>1, <2>2
    <3> QED BY <2>2, <3>1 DEF WorkInv, DirsWereClaimed
  <2> QED BY <2>1, <2>2 DEF DirsWereClaimed, DirOf
<1>6. RunsWereClaimed'
  BY <1>1 DEF WorkInv, RunsWereClaimed, Exists, PrefixOf, vars
<1>7. ReadingsArePast'
  BY <1>1 DEF WorkInv, ReadingsArePast, WorkTypes, vars
<1>8. OwnIds => OwnIsLatest'
  BY <1>1, <1>w DEF WorkInv, OwnIsLatest, vars
<1> QED BY <1>2, <1>3, <1>4, <1>5, <1>6, <1>7, <1>8 DEF WorkInv, OwnIds

\* The keeper takes its reading, or gives up.
LEMMA KeeperStep ==
  ASSUME WorkInv, IndInv', UNCHANGED vars, NEW p \in Procs,
         NEW c \in {"off", "beat"}, NEW n \in {0, clock}, NEW l \in BOOLEAN,
         keeper' = [keeper EXCEPT ![p] = Beating(c, n, l)],
         keeper[p].pc # "off", c = "beat" => n = clock,
         UNCHANGED <<clock, proc, attempt_dirs, run_dirs, crashes>>
  PROVE  WorkInv'
<1>1. /\ keeper'[p].pc = c /\ keeper'[p].now = n
      /\ \A q \in Procs \ {p} : keeper'[q] = keeper[q]
  BY DEF WorkInv, WorkTypes, Beating
<1>2. WorkTypes'
  <2>1. Beating(c, n, l) \in [pc : {"off", "wait", "beat"}, now : 0..MaxClock, lost : BOOLEAN]
    BY DEF WorkInv, WorkTypes, Beating
  <2> QED BY <2>1 DEF WorkInv, WorkTypes
<1>3. Bounded'
  BY DEF WorkInv, Bounded, vars
<1>4. HeldWasGranted' /\ AttemptsNotShared'
  BY <1>1 DEF WorkInv, HeldWasGranted, AttemptsNotShared, vars
<1>5. DirsWereClaimed'
  BY <1>1 DEF WorkInv, DirsWereClaimed, DirOf, vars
<1>6. RunsWereClaimed'
  BY <1>1 DEF WorkInv, RunsWereClaimed, Exists, PrefixOf, vars
<1>7. ReadingsArePast'
  BY <1>1 DEF WorkInv, ReadingsArePast, WorkTypes, vars
<1>8. OwnIds => OwnIsLatest'
  <2> SUFFICES ASSUME OwnIds, NEW q \in Procs, keeper'[q].pc = "beat",
                      jobs[proc[q].held.job_id].status = "running",
                      jobs[proc[q].held.job_id].lease_owner = WorkerIdOf[q]
               PROVE  jobs[proc[q].held.job_id].lease_expires_at <= keeper'[q].now + Lease
    BY DEF WorkInv, OwnIsLatest, vars
  <2>1. CASE q = p
    <3>1. proc[p].held.job_id \in JobIds
      BY HeldFacts DEF WorkInv, HeldWasGranted
    <3> QED BY <1>1, <2>1, <3>1 DEF WorkInv, ReadingsArePast
  <2>2. CASE q # p
    BY <1>1, <2>2 DEF WorkInv, OwnIsLatest
  <2> QED BY <2>1, <2>2
<1> QED BY <1>2, <1>3, <1>4, <1>5, <1>6, <1>7, <1>8 DEF WorkInv, OwnIds

\* A heartbeat commits.
LEMMA BeatStep == ASSUME WorkInv, IndInv', NEW p \in Procs, KeeperBeat(p) PROVE WorkInv'
<1> DEFINE j == proc[p].held.job_id
<1>a. keeper[p].pc = "beat" /\ proc[p].pc \in Busy
  BY DEF KeeperBeat, WorkInv, HeldWasGranted
<1>b. j \in JobIds
  BY <1>a, HeldFacts
<1>c. PICK e : e = keeper[p].now + Lease
  OBVIOUS
<1>d. e \in Nat /\ keeper[p].now \in Nat /\ clock \in Nat /\ Lease \in Nat
  <2>1. keeper[p].now \in Nat /\ clock \in Nat
    BY DEF WorkInv, WorkTypes
  <2>2. Lease \in Nat
    BY JobQueueAssumption
  <2> QED BY <1>c, <2>1, <2>2
<1>e. jobs' = [jobs EXCEPT ![j] = [jobs[j] EXCEPT !.lease_expires_at = e]]
  BY <1>c DEF KeeperBeat, Heartbeat, LeaseWindow
<1>f. jobs[j] \in Row /\ jobs \in [JobIds -> Row]
  BY <1>b DEF WorkInv, IndInv, TypeOK
<1>g. PICK new : new = [jobs[j] EXCEPT !.lease_expires_at = e]
  OBVIOUS
<1>h. /\ new.status = jobs[j].status /\ new.lease_owner = jobs[j].lease_owner
      /\ new.lease_expires_at = e /\ new.attempts = jobs[j].attempts
      /\ new.payload = jobs[j].payload
  BY <1>d, <1>f, <1>g, RenewedRowFacts
<1>i. jobs'[j] = new /\ \A i \in JobIds \ {j} : jobs'[i] = jobs[i]
  BY <1>b, <1>e, <1>f, <1>g
<1>k. /\ \A i \in JobIds : /\ jobs'[i].attempts = jobs[i].attempts
                           /\ jobs'[i].status = jobs[i].status
                           /\ jobs'[i].lease_owner = jobs[i].lease_owner
                           /\ jobs'[i].payload = jobs[i].payload
      /\ jobs'[j].lease_expires_at = e
      /\ \A i \in JobIds \ {j} : jobs'[i].lease_expires_at = jobs[i].lease_expires_at
  BY <1>h, <1>i
<1>l. /\ keeper'[p].pc = "wait" /\ keeper'[p].now = 0
      /\ \A q \in Procs \ {p} : keeper'[q] = keeper[q]
      /\ UNCHANGED <<clock, proc, attempt_dirs, run_dirs, crashes, granted>>
  BY DEF KeeperBeat, Heartbeat, WorkInv, WorkTypes, Beating
<1>2. WorkTypes'
  <2>1. Beating("wait", 0, FALSE) \in [pc : {"off", "wait", "beat"}, now : 0..MaxClock, lost : BOOLEAN]
    BY DEF Beating
  <2> QED BY <1>l, <2>1 DEF WorkInv, WorkTypes, KeeperBeat
<1>3. Bounded'
  BY <1>k DEF WorkInv, Bounded
<1>4. HeldWasGranted' /\ AttemptsNotShared'
  BY <1>a, <1>l DEF WorkInv, HeldWasGranted, AttemptsNotShared
<1>5. DirsWereClaimed'
  BY <1>k, <1>l DEF WorkInv, WorkTypes, DirsWereClaimed, DirOf
<1>6. RunsWereClaimed'
  <2>1. \A i \in JobIds : Exists(i)' = Exists(i) /\ PrefixOf(i)' = PrefixOf(i)
    BY <1>k DEF Exists, PrefixOf
  <2> QED BY <1>k, <1>l, <2>1 DEF WorkInv, RunsWereClaimed
<1>7. ReadingsArePast'
  BY <1>b, <1>c, <1>d, <1>k, <1>l DEF WorkInv, ReadingsArePast
<1>8. OwnIds => OwnIsLatest'
  <2> SUFFICES ASSUME OwnIds, NEW q \in Procs, keeper'[q].pc = "beat",
                      jobs'[proc[q].held.job_id].status = "running",
                      jobs'[proc[q].held.job_id].lease_owner = WorkerIdOf[q]
               PROVE  jobs'[proc[q].held.job_id].lease_expires_at <= keeper'[q].now + Lease
    BY <1>l DEF WorkInv, OwnIsLatest
  <2>1. q # p /\ keeper'[q] = keeper[q]
    BY <1>l
  <2>2. proc[q].held.job_id \in JobIds
    BY <2>1, HeldFacts DEF WorkInv, HeldWasGranted
  <2>3. jobs[j].lease_owner = WorkerIdOf[p]
    BY DEF KeeperBeat, Heartbeat, Holds
  <2>4. proc[q].held.job_id # j
    BY <1>k, <1>b, <2>1, <2>3 DEF OwnIds
  <2> QED BY <1>k, <2>1, <2>2, <2>4 DEF WorkInv, OwnIsLatest
<1> QED BY <1>2, <1>3, <1>4, <1>5, <1>6, <1>7, <1>8 DEF WorkInv, OwnIds

\* A claim commits: the attempt is one nobody was granted before.
LEMMA ClaimStep == ASSUME WorkInv, IndInv', NEW p \in Procs, ClaimCommit(p) PROVE WorkInv'
<1>1. PICK j \in JobIds :
        /\ ClaimJob(j, WorkerIdOf[p], Lease, proc[p].now)
        /\ proc' = [proc EXCEPT ![p] =
             At("claimed", 0, [job_id |-> j, attempt |-> jobs'[j].attempts], NULL)]
  BY DEF ClaimCommit
<1>2. PICK e : e = proc[p].now + Lease
  OBVIOUS
<1>3. e \in Nat /\ e <= clock + Lease /\ clock \in Nat /\ Lease \in Nat
  <2>1. proc[p].now \in Nat /\ clock \in Nat /\ proc[p].now <= clock
    BY DEF WorkInv, WorkTypes, ReadingsArePast
  <2>2. Lease \in Nat
    BY JobQueueAssumption
  <2> QED BY <1>2, <2>1, <2>2
<1>4. jobs[j] \in Row /\ jobs \in [JobIds -> Row] /\ jobs[j].attempts \in Nat
  BY DEF WorkInv, IndInv, TypeOK, Row
<1>5. PICK new : new = ClaimedRow(jobs[j], WorkerIdOf[p], e)
  OBVIOUS
<1>6. /\ new.status = "running" /\ new.lease_owner = WorkerIdOf[p]
      /\ new.lease_expires_at = e /\ new.attempts = jobs[j].attempts + 1
      /\ new.payload = jobs[j].payload
  BY <1>3, <1>4, <1>5, ClaimedRowFacts
<1>7. jobs'[j] = new /\ \A i \in JobIds \ {j} : jobs'[i] = jobs[i]
  BY <1>1, <1>2, <1>4, <1>5 DEF ClaimJob, LeaseWindow
<1>8. PICK h : h = [job_id |-> j, attempt |-> jobs[j].attempts + 1]
  OBVIOUS
<1>9. h \in Held /\ h.job_id = j /\ h.attempt = jobs[j].attempts + 1
  BY <1>4, <1>8 DEF Held
<1>10. /\ proc' = [proc EXCEPT ![p] = At("claimed", 0, h, NULL)]
       /\ granted' = granted \cup {Grant(j, h.attempt, WorkerIdOf[p])}
  BY <1>1, <1>6, <1>7, <1>8, <1>9 DEF ClaimJob
<1>11. /\ proc'[p].pc = "claimed" /\ proc'[p].now = 0 /\ proc'[p].held = h
       /\ keeper'[p].pc = "wait" /\ keeper'[p].now = 0
       /\ \A q \in Procs \ {p} : proc'[q] = proc[q] /\ keeper'[q] = keeper[q]
       /\ UNCHANGED <<clock, attempt_dirs, run_dirs, crashes>>
  BY <1>10 DEF ClaimCommit, WorkInv, WorkTypes, At, Beating
<1>12. \A i \in JobIds : /\ jobs[i].attempts \in Nat /\ jobs[i].attempts <= jobs'[i].attempts
                         /\ Exists(i) => Exists(i)' /\ PrefixOf(i)' = PrefixOf(i)
  <2>1. \A i \in JobIds : jobs[i].attempts \in Nat
    BY DEF WorkInv, IndInv, TypeOK, Row
  <2> QED BY <1>6, <1>7, <2>1 DEF Exists, PrefixOf
<1>w. Working \subseteq Busy /\ "claimed" \in Working
  BY DEF Busy, Working
<1>13. ASSUME NEW q \in Procs \ {p}, proc[q].pc \in Busy
       PROVE  proc[q].held \in Held /\ proc[q].held.attempt <= jobs[proc[q].held.job_id].attempts
  BY <1>13, <1>12, HeldFacts
<1>20. WorkTypes'
  <2>1. /\ At("claimed", 0, h, NULL) \in
             [pc : Working \cup {"idle", "claim", "leave"}, now : 0..MaxClock,
              held : Held \cup {NULL}, result : Attempt \cup {NULL}]
        /\ Beating("wait", 0, FALSE) \in [pc : {"off", "wait", "beat"}, now : 0..MaxClock, lost : BOOLEAN]
    BY <1>9, <1>w DEF At, Beating
  <2> QED BY <1>10, <1>11, <2>1 DEF WorkInv, WorkTypes, ClaimCommit
<1>21. Bounded'
  <2>1. jobs[j].attempts < MaxAttempts
    BY <1>1 DEF ClaimJob
  <2>2. jobs[j].attempts + 1 <= MaxAttempts
    BY <1>4, <2>1, JobQueueAssumption
  <2> QED BY <1>6, <1>7, <2>2 DEF WorkInv, Bounded
<1>22. HeldWasGranted'
  BY <1>9, <1>10, <1>11, <1>w DEF WorkInv, HeldWasGranted
<1>23. AttemptsNotShared'
  <2>1. ASSUME NEW q \in Procs \ {p}, proc[q].pc \in Busy PROVE proc[q].held # h
    BY <1>4, <1>9, <1>13, <2>1 DEF Held
  <2> QED BY <1>11, <1>w, <2>1 DEF WorkInv, AttemptsNotShared
<1>24. DirsWereClaimed'
  <2>1. ASSUME NEW d \in attempt_dirs PROVE d[2] <= jobs'[d[1]].attempts /\ d # DirOf(h)
    <3>1. d[1] \in JobIds /\ d[2] \in Nat /\ d[2] <= jobs[d[1]].attempts
      BY DEF WorkInv, WorkTypes, DirsWereClaimed
    <3>2. jobs[d[1]].attempts \in Nat /\ jobs'[d[1]].attempts \in Nat
            /\ jobs[d[1]].attempts <= jobs'[d[1]].attempts
      BY <1>6, <1>7, <1>12, <3>1
    <3>3. d # DirOf(h)
      BY <1>4, <1>9, <3>1 DEF DirOf
    <3> QED BY <3>1, <3>2, <3>3
  <2>2. ASSUME NEW q \in Procs, proc'[q].pc = "claimed"
        PROVE  DirOf(proc'[q].held) \notin attempt_dirs'
    <3>1. CASE q = p
      BY <1>11, <2>1, <3>1
    <3>2. CASE q # p
      BY <1>11, <2>2, <3>2 DEF WorkInv, DirsWereClaimed
    <3> QED BY <3>1, <3>2
  <2> QED BY <1>11, <2>1, <2>2 DEF DirsWereClaimed, DirOf
<1>25. RunsWereClaimed'
  <2>1. ASSUME NEW d \in run_dirs
        PROVE  /\ d.job_id \in JobIds /\ d.attempt \in Nat
               /\ d.attempt <= jobs'[d.job_id].attempts
               /\ d.prefix = PrefixOf(d.job_id)' /\ Exists(d.job_id)'
               /\ ~ (d.job_id = h.job_id /\ d.attempt = h.attempt)
    <3>1. /\ d.job_id \in JobIds /\ d.attempt \in Nat /\ d.attempt <= jobs[d.job_id].attempts
          /\ d.prefix = PrefixOf(d.job_id) /\ Exists(d.job_id)
      BY DEF WorkInv, RunsWereClaimed
    <3>2. jobs[d.job_id].attempts \in Nat /\ jobs'[d.job_id].attempts \in Nat
            /\ jobs[d.job_id].attempts <= jobs'[d.job_id].attempts
      BY <1>6, <1>7, <1>12, <3>1
    <3> QED BY <1>4, <1>9, <1>12, <3>1, <3>2
  <2>2. ASSUME NEW q \in Procs, proc'[q].pc \in {"claimed", "materialized"}, NEW d \in run_dirs'
        PROVE  ~ (d.job_id = proc'[q].held.job_id /\ d.attempt = proc'[q].held.attempt)
    <3>1. CASE q = p
      BY <1>11, <2>1, <3>1
    <3>2. CASE q # p
      BY <1>11, <2>2, <3>2 DEF WorkInv, RunsWereClaimed
    <3> QED BY <3>1, <3>2
  <2> QED BY <1>11, <2>1, <2>2 DEF RunsWereClaimed
<1>26. ReadingsArePast'
  BY <1>3, <1>6, <1>7, <1>11 DEF WorkInv, ReadingsArePast
<1>27. OwnIds => OwnIsLatest'
  <2> SUFFICES ASSUME OwnIds PROVE OwnIsLatest'
    OBVIOUS
  <2> DEFINE new_grant == Grant(j, h.attempt, WorkerIdOf[p])
  <2>1. new_grant.worker = WorkerIdOf[p] /\ new_grant.attempt = h.attempt
    BY DEF Grant
  <2>2. ASSUME NEW q \in Procs, proc'[q].pc \in Busy, NEW g \in granted',
               g.job_id = proc'[q].held.job_id, g.worker = WorkerIdOf[q]
        PROVE  g.attempt <= proc'[q].held.attempt
    <3>1. CASE q = p
      <4>1. g \in granted => g.attempt \in 1..jobs[j].attempts
        BY <1>9, <1>11, <2>2, <3>1 DEF WorkInv, IndInv, AttemptNumbersUnique
      <4>2. h.attempt \in Nat
        BY <1>4, <1>9
      <4> QED BY <1>4, <1>9, <1>10, <1>11, <2>1, <2>2, <3>1, <4>1, <4>2
    <3>2. CASE q # p
      <4>1. g # new_grant
        BY <2>1, <2>2, <3>2 DEF OwnIds
      <4> QED BY <1>10, <1>11, <2>2, <3>2, <4>1 DEF WorkInv, OwnIsLatest
    <3> QED BY <3>1, <3>2
  <2>3. ASSUME NEW q \in Procs, keeper'[q].pc = "beat",
               jobs'[proc'[q].held.job_id].status = "running",
               jobs'[proc'[q].held.job_id].lease_owner = WorkerIdOf[q]
        PROVE  jobs'[proc'[q].held.job_id].lease_expires_at <= keeper'[q].now + Lease
    <3>1. q # p /\ proc'[q] = proc[q] /\ keeper'[q] = keeper[q]
      BY <1>11, <2>3
    <3>2. proc[q].held.job_id \in JobIds
      BY <2>3, <3>1, HeldFacts DEF WorkInv, HeldWasGranted
    <3>3. proc[q].held.job_id # j
      BY <1>6, <1>7, <2>3, <3>1 DEF OwnIds
    <3>4. jobs'[proc[q].held.job_id] = jobs[proc[q].held.job_id]
      BY <1>7, <3>2, <3>3
    <3> QED BY <2>3, <3>1, <3>4 DEF WorkInv, OwnIsLatest
  <2> QED BY <2>2, <2>3 DEF OwnIsLatest
<1> QED BY <1>20, <1>21, <1>22, <1>23, <1>24, <1>25, <1>26, <1>27 DEF WorkInv, OwnIds

\* The main thread goes on with the record it holds.
LEMMA MoveStep ==
  ASSUME WorkInv, IndInv', Calm, NEW p \in Procs, NEW c \in Busy \ {"claimed", "executed"},
         NEW n \in {0, clock}, Move(p, c, n), UNCHANGED <<clock, keeper, crashes>>,
         proc[p].pc \in Working,
         c = "materialized" => proc[p].pc = "claimed",
         c = "finish" => proc[p].pc = "executed",
         \/ attempt_dirs' \subseteq attempt_dirs
         \/ proc[p].pc = "claimed" /\ attempt_dirs' = attempt_dirs \cup {DirOf(proc[p].held)},
         \/ run_dirs' = run_dirs
         \/ proc[p].pc = "materialized" /\ c = "agent"
              /\ run_dirs' = run_dirs \cup {RunDir(proc[p].held)}
  PROVE  WorkInv'
<1> DEFINE h == proc[p].held
           r == proc[p].result
<1>1. h \in Held \cup {NULL} /\ r \in Attempt \cup {NULL}
  BY DEF WorkInv, WorkTypes
<1>2. proc' = [proc EXCEPT ![p] = At(c, n, h, r)]
  BY DEF Move
<1>3. c \in Working \cup {"idle", "claim", "leave"} /\ proc[p].pc \in Busy
  BY DEF Busy
<1>4. c \in {"executed", "finish"} => r \in Attempt /\ r.job_id = h.job_id /\ r.attempt = h.attempt
  BY DEF WorkInv, HeldWasGranted
<1> HIDE DEF h, r
<1>5. h = proc[p].held
  BY DEF h
<1> QED BY <1>1, <1>2, <1>3, <1>4, <1>5, ProcStep

-----------------------------------------------------------------------------
(* The steps of a worker are transactions of the queue. *)

LEMMA WorkIsQueueStep == ASSUME WorkInv, [WNext]_wvars PROVE [Next]_vars
<1>1. ASSUME NEW p \in Procs, ClaimCommit(p) PROVE Next
  <2>1. proc[p].now \in Times
    BY DEF WorkInv, WorkTypes
  <2>2. PICK j \in JobIds : ClaimJob(j, WorkerIdOf[p], Lease, proc[p].now)
    BY <1>1 DEF ClaimCommit
  <2> QED BY <2>1, <2>2 DEF Next, Claim
<1>2. ASSUME NEW p \in Procs, KeeperBeat(p) PROVE Next
  <2>1. keeper[p].now \in Times
    BY DEF WorkInv, WorkTypes
  <2>2. proc[p].held.job_id \in JobIds
    BY <1>2, HeldFacts DEF KeeperBeat, WorkInv, HeldWasGranted
  <2>3. Heartbeat(proc[p].held.job_id, WorkerIdOf[p], Lease, keeper[p].now)
    BY <1>2 DEF KeeperBeat
  <2> QED BY <2>1, <2>2, <2>3 DEF Next, Release
<1>3. ASSUME NEW p \in Procs, FailCommit(p) PROVE Next
  <2>1. proc[p].now \in Times
    BY DEF WorkInv, WorkTypes
  <2>2. proc[p].held.job_id \in JobIds
    BY <1>3, HeldFacts DEF FailCommit, Busy, Working
  <2>3. Fail(proc[p].held.job_id, WorkerIdOf[p], Report, proc[p].now)
    BY <1>3 DEF FailCommit
  <2> QED BY <2>1, <2>2, <2>3 DEF Next, Release
<1>4. ASSUME NEW p \in Procs, FinishCommit(p) PROVE Next
  <2>1. proc[p].now \in Times
    BY DEF WorkInv, WorkTypes
  <2>2. proc[p].pc = "finish" /\ proc[p].pc \in Busy
    BY <1>4 DEF FinishCommit, Busy, Working
  <2>3. /\ proc[p].result \in Attempt /\ proc[p].result.job_id = proc[p].held.job_id
        /\ proc[p].result.attempt = proc[p].held.attempt
    BY <2>2 DEF WorkInv, HeldWasGranted
  <2>4. /\ proc[p].held.job_id \in JobIds
        /\ proc[p].held.attempt \in 1..jobs[proc[p].held.job_id].attempts
    BY <2>2, HeldFacts
  <2>5. jobs[proc[p].held.job_id].attempts <= MaxAttempts /\ jobs[proc[p].held.job_id].attempts \in Nat
    BY <2>4 DEF WorkInv, Bounded, IndInv, TypeOK, Row
  <2>6. proc[p].result.attempt \in 1..MaxAttempts
    BY <2>3, <2>4, <2>5, JobQueueAssumption
  <2>7. proc[p].result \in BoundedAttempt
    BY <2>3, <2>6 DEF Attempt, BoundedAttempt
  <2>8. FinishAttempt(WorkerIdOf[p], proc[p].result, proc[p].now)
    BY <1>4 DEF FinishCommit
  <2> QED BY <2>1, <2>7, <2>8 DEF Next, Publish
<1>5. ASSUME NEW p \in Procs,
             \/ ClaimRead(p) \/ ClaimNone(p) \/ Materialize(p) \/ RejectAttempt(p) \/ StartAgent(p)
             \/ ExecuteRaises(p) \/ FinishRead(p) \/ FinishRefused(p) \/ FailRead(p)
             \/ FailRefused(p) \/ Leave(p) \/ KeeperRead(p) \/ KeeperLost(p) \/ Crash(p)
             \/ \E b \in Bundles : AgentDone(p, b)
      PROVE  UNCHANGED vars
  BY <1>5 DEF ClaimRead, ClaimNone, Materialize, RejectAttempt, StartAgent, ExecuteRaises,
              FinishRead, FinishRefused, FailRead, FailRefused, Leave, KeeperRead, KeeperLost,
              Crash, AgentDone
<1>6. Tick => UNCHANGED vars
  BY DEF Tick
<1>7. Enqueue => Next
  BY DEF Next
<1>8. UNCHANGED wvars => UNCHANGED vars
  BY DEF wvars, vars
<1> QED BY <1>1, <1>2, <1>3, <1>4, <1>5, <1>6, <1>7, <1>8 DEF WNext, Main, Keeper

-----------------------------------------------------------------------------
(* Every step keeps the invariant. *)

LEMMA InitWork == WInit => WorkInv
<1> SUFFICES ASSUME WInit PROVE WorkInv
  OBVIOUS
<1>1. IndInv
  BY InitIndInv DEF WInit
<1>w. "idle" \notin Busy /\ "idle" \notin Working
  BY DEF Busy, Working
<1>2. WorkTypes
  <2>1. /\ Idle \in [pc : Working \cup {"idle", "claim", "leave"}, now : 0..MaxClock,
                     held : Held \cup {NULL}, result : Attempt \cup {NULL}]
        /\ Off \in [pc : {"off", "wait", "beat"}, now : 0..MaxClock, lost : BOOLEAN]
    BY DEF At, Idle, Beating, Off
  <2> QED BY <2>1 DEF WInit, WorkTypes
<1>3. \A j \in JobIds : jobs[j].attempts = 0 /\ jobs[j].status = "absent"
  BY DEF WInit, Init, NoRow
<1>4. \A p \in Procs : /\ proc[p].pc = "idle" /\ proc[p].now = 0
                       /\ keeper[p].pc = "off" /\ keeper[p].now = 0
  BY DEF WInit, Idle, At, Off, Beating
<1>5. Bounded
  BY <1>3, JobQueueAssumption DEF Bounded
<1>6. HeldWasGranted /\ AttemptsNotShared
  BY <1>4, <1>w DEF HeldWasGranted, AttemptsNotShared
<1>7. DirsWereClaimed /\ RunsWereClaimed
  BY <1>4 DEF WInit, DirsWereClaimed, RunsWereClaimed
<1>8. ReadingsArePast
  BY <1>3, <1>4 DEF WInit, ReadingsArePast
<1>9. OwnIsLatest
  BY <1>4, <1>w DEF OwnIsLatest
<1> QED BY <1>1, <1>2, <1>5, <1>6, <1>7, <1>8, <1>9 DEF WorkInv

\* The steps of run_once that hold no record: its claim reads the clock, or
\* finds nothing.
LEMMA UnheldStep ==
  ASSUME WorkInv, IndInv', NEW p \in Procs, ClaimRead(p) \/ ClaimNone(p)
  PROVE  WorkInv'
<1>1. Calm
  BY UnchangedCalm DEF ClaimRead, ClaimNone
<1>2. proc[p].pc \notin Busy
  BY DEF ClaimRead, ClaimNone, Busy, Working
<1>3. /\ "idle" \notin Busy /\ "claim" \notin Busy /\ "idle" \notin Working /\ "claim" \notin Working
  BY DEF Busy, Working
<1>4. CASE ClaimRead(p)
  BY <1>1, <1>2, <1>3, <1>4, ProcStep DEF ClaimRead
<1>5. CASE ClaimNone(p)
  BY <1>1, <1>2, <1>3, <1>5, ProcStep DEF ClaimNone, Idle
<1> QED BY <1>4, <1>5

\* The steps of _execute_attempt.
LEMMA ExecuteStep ==
  ASSUME WorkInv, IndInv', NEW p \in Procs,
         \/ Materialize(p) \/ RejectAttempt(p) \/ StartAgent(p) \/ ExecuteRaises(p)
         \/ \E b \in Bundles : AgentDone(p, b)
  PROVE  WorkInv'
<1>1. Calm
  BY UnchangedCalm DEF Materialize, RejectAttempt, StartAgent, ExecuteRaises, AgentDone
<1>2. proc[p].pc \in {"claimed", "materialized", "agent"} /\ proc[p].pc \in Working
  BY DEF Materialize, RejectAttempt, StartAgent, ExecuteRaises, AgentDone, Working
<1>3. {"materialized", "raised", "agent"} \subseteq Busy \ {"claimed", "executed"}
  BY DEF Busy, Working
<1>4. CASE Materialize(p)
  BY <1>1, <1>2, <1>3, <1>4, MoveStep DEF Materialize
<1>5. CASE RejectAttempt(p)
  BY <1>1, <1>2, <1>3, <1>5, MoveStep DEF RejectAttempt
<1>6. CASE StartAgent(p)
  BY <1>1, <1>2, <1>3, <1>6, MoveStep DEF StartAgent
<1>7. CASE ExecuteRaises(p)
  <2>1. attempt_dirs' \subseteq attempt_dirs
    BY <1>7 DEF ExecuteRaises, RemoveDir
  <2> QED BY <1>1, <1>2, <1>3, <1>7, <2>1, MoveStep DEF ExecuteRaises
<1>8. CASE \E b \in Bundles : AgentDone(p, b)
  <2>1. PICK b \in Bundles : AgentDone(p, b)
    BY <1>8
  <2>2. PICK h : h = proc[p].held
    OBVIOUS
  <2>3. PICK r : r = [job_id |-> h.job_id, attempt |-> h.attempt, output_bundle |-> b]
    OBVIOUS
  <2>4. h \in Held /\ h.job_id \in JobIds /\ h.attempt \in Nat
    BY <1>2, <2>2, HeldFacts DEF Busy
  <2>5. r \in Attempt /\ r.job_id = h.job_id /\ r.attempt = h.attempt
    BY <2>3, <2>4 DEF Attempt
  <2>6. attempt_dirs' \subseteq attempt_dirs /\ UNCHANGED <<clock, keeper, crashes, run_dirs>>
    BY <2>1 DEF AgentDone, RemoveDir
  <2>7. proc' = [proc EXCEPT ![p] = At("executed", 0, h, r)]
    BY <2>1, <2>2, <2>3 DEF AgentDone
  <2>8. "executed" \in Working /\ "executed" \in Busy /\ proc[p].pc \in Busy
    BY <1>2 DEF Busy, Working
  <2> QED BY <1>1, <1>2, <2>2, <2>4, <2>5, <2>6, <2>7, <2>8, ProcStep
<1> QED BY <1>4, <1>5, <1>6, <1>7, <1>8

\* The readings and refusals of finish_attempt and fail.
LEMMA ReportStep ==
  ASSUME WorkInv, IndInv', NEW p \in Procs,
         FinishRead(p) \/ FinishRefused(p) \/ FailRead(p) \/ FailRefused(p)
  PROVE  WorkInv'
<1>1. Calm
  BY UnchangedCalm DEF FinishRead, FinishRefused, FailRead, FailRefused
<1>2. proc[p].pc \in Working
  BY DEF FinishRead, FinishRefused, FailRead, FailRefused, Working
<1>3. {"raised", "finish", "leave", "fail"} \subseteq Busy \ {"claimed", "executed"}
  BY DEF Busy, Working
<1>4. CASE FinishRead(p)
  BY <1>1, <1>2, <1>3, <1>4, MoveStep DEF FinishRead
<1>5. CASE FinishRefused(p)
  BY <1>1, <1>2, <1>3, <1>5, MoveStep DEF FinishRefused
<1>6. CASE FailRead(p)
  BY <1>1, <1>2, <1>3, <1>6, MoveStep DEF FailRead
<1>7. CASE FailRefused(p)
  BY <1>1, <1>2, <1>3, <1>7, MoveStep DEF FailRefused
<1> QED BY <1>4, <1>5, <1>6, <1>7

\* The transactions of finish_attempt and fail write rows that end.
LEMMA CommitCalm ==
  ASSUME WorkInv, NEW p \in Procs, FinishCommit(p) \/ FailCommit(p)
  PROVE  Calm
<1>1. proc[p].held.job_id \in JobIds
  BY HeldFacts DEF FinishCommit, FailCommit, Busy, Working
<1>2. CASE FinishCommit(p)
  <2>1. proc[p].result \in Attempt /\ proc[p].result.job_id \in JobIds
    BY <1>1, <1>2 DEF FinishCommit, WorkInv, HeldWasGranted
  <2> QED BY <1>2, <2>1, FinishedCalm DEF FinishCommit, FinishAttempt, Holds, WorkInv, Terminal
<1>3. CASE FailCommit(p)
  BY <1>1, <1>3, FinishedCalm DEF FailCommit, Fail, Finish, Holds, WorkInv, Terminal
<1> QED BY <1>2, <1>3

LEMMA CommitStep ==
  ASSUME WorkInv, IndInv', NEW p \in Procs, FinishCommit(p) \/ FailCommit(p)
  PROVE  WorkInv'
<1>1. proc[p].pc \in {"finish", "fail"} /\ proc[p].pc \in Working
  BY DEF FinishCommit, FailCommit, Working
<1>2. "leave" \in Busy \ {"claimed", "executed"}
  BY DEF Busy
<1> QED BY <1>1, <1>2, CommitCalm, MoveStep DEF FinishCommit, FailCommit

\* The clock moves on, or a caller submits a job.
LEMMA AroundStep ==
  ASSUME WorkInv, IndInv', Calm, UNCHANGED <<proc, keeper, attempt_dirs, run_dirs, crashes>>,
         clock' \in 0..MaxClock, clock' >= clock
  PROVE  WorkInv'
<1>1. WorkTypes'
  BY DEF WorkInv, WorkTypes
<1>2. Bounded' /\ HeldWasGranted' /\ AttemptsNotShared'
  BY DEF WorkInv, Bounded, HeldWasGranted, AttemptsNotShared, Calm
<1>3. DirsWereClaimed'
  BY DEF WorkInv, WorkTypes, DirsWereClaimed, DirOf, Calm
<1>4. RunsWereClaimed'
  <2>1. \A j \in JobIds : Exists(j) => Exists(j)' /\ PrefixOf(j)' = PrefixOf(j)
    BY DEF Calm, Exists, PrefixOf
  <2> QED BY <2>1 DEF WorkInv, RunsWereClaimed, Calm
<1>5. ReadingsArePast'
  <2>1. clock \in Nat /\ clock' \in Nat /\ Lease \in Nat
    BY JobQueueAssumption DEF WorkInv, WorkTypes
  <2>2. \A p \in Procs : proc[p].now \in Nat /\ keeper[p].now \in Nat
    BY DEF WorkInv, WorkTypes
  <2>3. \A p \in Procs : proc'[p].now <= clock' /\ keeper'[p].now <= clock'
    BY <2>1, <2>2 DEF WorkInv, ReadingsArePast
  <2>4. ASSUME NEW j \in JobIds, jobs'[j].status = "running"
        PROVE  jobs'[j].lease_expires_at <= clock' + Lease
    <3>1. jobs[j].status = "running" /\ jobs'[j].lease_expires_at = jobs[j].lease_expires_at
      BY <2>4 DEF Calm
    <3>2. jobs[j].lease_expires_at \in Nat /\ jobs[j].lease_expires_at <= clock + Lease
      BY <3>1 DEF WorkInv, IndInv, TypeOK, ReadingsArePast
    <3> QED BY <2>1, <3>1, <3>2
  <2> QED BY <2>3, <2>4 DEF ReadingsArePast
<1>6. OwnIds => OwnIsLatest'
  <2>1. \A q \in Procs : keeper[q].pc = "beat" => proc[q].held.job_id \in JobIds
    BY HeldFacts DEF WorkInv, HeldWasGranted
  <2> QED BY <2>1 DEF WorkInv, OwnIsLatest, Calm
<1> QED BY <1>1, <1>2, <1>3, <1>4, <1>5, <1>6 DEF WorkInv, OwnIds

LEMMA NextWork == ASSUME WorkInv, [WNext]_wvars PROVE WorkInv'
<1>0. IndInv'
  BY WorkIsQueueStep, NextIndInv DEF WorkInv
<1>1. ASSUME NEW p \in Procs, Main(p) PROVE WorkInv'
  <2>1. CASE ClaimRead(p) \/ ClaimNone(p)
    BY <1>0, <2>1, UnheldStep
  <2>2. CASE ClaimCommit(p)
    BY <1>0, <2>2, ClaimStep
  <2>3. CASE \/ Materialize(p) \/ RejectAttempt(p) \/ StartAgent(p) \/ ExecuteRaises(p)
             \/ \E b \in Bundles : AgentDone(p, b)
    BY <1>0, <2>3, ExecuteStep
  <2>4. CASE FinishRead(p) \/ FinishRefused(p) \/ FailRead(p) \/ FailRefused(p)
    BY <1>0, <2>4, ReportStep
  <2>5. CASE FinishCommit(p) \/ FailCommit(p)
    BY <1>0, <2>5, CommitStep
  <2>6. CASE Leave(p)
    BY <1>0, <2>6, QuitStep DEF Leave, WorkInv, WorkTypes
  <2> QED BY <1>1, <2>1, <2>2, <2>3, <2>4, <2>5, <2>6 DEF Main
<1>2. ASSUME NEW p \in Procs, Keeper(p) PROVE WorkInv'
  <2>1. CASE KeeperRead(p)
    BY <1>0, <2>1, KeeperStep DEF KeeperRead
  <2>2. CASE KeeperBeat(p)
    BY <1>0, <2>2, BeatStep
  <2>3. CASE KeeperLost(p)
    BY <1>0, <2>3, KeeperStep DEF KeeperLost
  <2> QED BY <1>2, <2>1, <2>2, <2>3 DEF Keeper
<1>3. ASSUME NEW p \in Procs, Crash(p) PROVE WorkInv'
  <2>1. crashes' \in 0..MaxCrashes
    BY <1>3 DEF Crash, WorkInv, WorkTypes
  <2> QED BY <1>0, <1>3, <2>1, QuitStep DEF Crash
<1>4. CASE Tick
  BY <1>0, <1>4, UnchangedCalm, AroundStep DEF Tick, WorkInv, WorkTypes
<1>5. CASE Enqueue /\ UNCHANGED workVars
  <2>1. Calm
    BY <1>5, EnqueueCalm DEF WorkInv
  <2> QED BY <1>0, <1>5, <2>1, AroundStep DEF workVars, WorkInv, WorkTypes
<1>6. CASE UNCHANGED wvars
  <2>1. Calm
    BY <1>6, UnchangedCalm DEF wvars, vars
  <2> QED BY <1>0, <1>6, <2>1, AroundStep DEF wvars, WorkInv, WorkTypes
<1> QED BY <1>1, <1>2, <1>3, <1>4, <1>5, <1>6 DEF WNext

-----------------------------------------------------------------------------
(* The theorems. *)

\* The inductive invariant holds in every reachable state.
THEOREM WorkInvariant == WSpec => []WorkInv
BY InitWork, NextWork, PTL DEF WSpec

\* Worker processes use the queue as its specification allows: a stale reading,
\* a crash or a late thread of worker.py is never more than a transaction with
\* an odd clock, so every theorem about the queue holds with the workers on it.
THEOREM WorkersImplementQueue == WSpec => Spec
<1>1. WInit => Init
  BY DEF WInit
<1>2. WorkInv /\ [WNext]_wvars => [Next]_vars
  BY WorkIsQueueStep
<1> QED BY <1>1, <1>2, WorkInvariant, PTL DEF WSpec, Spec

\* The records of processes, keepers and directories keep their types.
THEOREM WorkerTypeOK == WSpec => []WTypeOK
<1>1. WorkInv => WTypeOK
  BY DEF WorkInv, WorkTypes, IndInv, WTypeOK
<1> QED BY <1>1, WorkInvariant, PTL

\* Two processes never work on the same attempt of a job, whatever their
\* readings of the clock, their crashes and their worker ids.
THEOREM AttemptsAreNotShared == WSpec => []AttemptsNotShared
<1>1. WorkInv => AttemptsNotShared
  BY DEF WorkInv
<1> QED BY <1>1, WorkInvariant, PTL

\* While the jobs in the queue ask for different runs, no attempt meets a
\* directory an earlier one left behind (worker.py _execute_attempt).
THEOREM RetriesAreNotBlocked == WSpec => [](OwnRuns => RetryNotBlocked)
<1>1. ASSUME WorkInv, OwnRuns, NEW p \in Procs, proc[p].pc = "materialized", RunExists(proc[p].held)
      PROVE  FALSE
  <2>1. PICK d \in run_dirs : d.prefix = PrefixOf(proc[p].held.job_id) /\ d.attempt = proc[p].held.attempt
    BY <1>1 DEF RunExists
  <2>2. proc[p].held.job_id \in JobIds /\ Exists(proc[p].held.job_id)
    BY <1>1, HeldFacts DEF Busy, Working
  <2>3. d.job_id = proc[p].held.job_id
    BY <1>1, <2>1, <2>2 DEF WorkInv, RunsWereClaimed, OwnRuns
  <2> QED BY <1>1, <2>1, <2>3 DEF WorkInv, RunsWereClaimed
<1>2. WorkInv => (OwnRuns => RetryNotBlocked)
  BY <1>1 DEF WorkInv, DirsWereClaimed, RetryNotBlocked
<1> QED BY <1>2, WorkInvariant, PTL

\* Only claims and heartbeats grant or renew a lease.
LEMMA LeaseWriters ==
  ASSUME WorkInv, [WNext]_wvars
  PROVE  Calm \/ \E p \in Procs : ClaimCommit(p) \/ KeeperBeat(p)
<1>1. ASSUME NEW p \in Procs,
             \/ ClaimRead(p) \/ ClaimNone(p) \/ Materialize(p) \/ RejectAttempt(p) \/ StartAgent(p)
             \/ ExecuteRaises(p) \/ FinishRead(p) \/ FinishRefused(p) \/ FailRead(p)
             \/ FailRefused(p) \/ Leave(p) \/ KeeperRead(p) \/ KeeperLost(p) \/ Crash(p)
             \/ \E b \in Bundles : AgentDone(p, b)
      PROVE  UNCHANGED vars
  BY <1>1 DEF ClaimRead, ClaimNone, Materialize, RejectAttempt, StartAgent, ExecuteRaises,
              FinishRead, FinishRefused, FailRead, FailRefused, Leave, KeeperRead, KeeperLost,
              Crash, AgentDone
<1>2. Tick \/ UNCHANGED wvars => UNCHANGED vars
  BY DEF Tick, wvars, vars
<1>3. Enqueue => Calm
  BY EnqueueCalm DEF WorkInv
<1> QED BY <1>1, <1>2, <1>3, CommitCalm, UnchangedCalm DEF WNext, Main, Keeper

\* A job is ended by its holder's finish_attempt or fail and by nothing else.
LEMMA JobEnders ==
  ASSUME WorkInv, [WNext]_wvars, NEW p \in Procs, EndsJob(p)
  PROVE  FinishCommit(p) \/ FailCommit(p)
<1>1. proc[p].pc \in {"finish", "fail"} /\ proc'[p].pc = "leave" /\ jobs' # jobs
  BY DEF EndsJob
<1>2. proc \in [Procs -> [pc : Working \cup {"idle", "claim", "leave"}, now : 0..MaxClock,
                         held : Held \cup {NULL}, result : Attempt \cup {NULL}]]
  BY DEF WorkInv, WorkTypes
<1>3. proc' # proc
  BY <1>1
<1>4. ASSUME NEW q \in Procs, Main(q) \/ Crash(q), q # p PROVE proc'[p] = proc[p]
  BY <1>2, <1>4 DEF Main, ClaimRead, ClaimCommit, ClaimNone, Materialize, RejectAttempt, StartAgent,
     ExecuteRaises, AgentDone, FinishRead, FinishCommit, FinishRefused, FailRead, FailCommit,
     FailRefused, Leave, Crash, Move
<1>5. ASSUME Main(p) PROVE FinishCommit(p) \/ FailCommit(p)
  <2>1. FinishRefused(p) \/ FailRefused(p) => jobs' = jobs
    BY DEF FinishRefused, FailRefused, vars
  <2> QED BY <1>1, <1>5, <2>1 DEF Main, ClaimRead, ClaimCommit, ClaimNone, Materialize,
     RejectAttempt, StartAgent, ExecuteRaises, AgentDone, FinishRead, FailRead, Leave
<1>6. ~ Crash(p)
  BY <1>1, <1>2 DEF Crash, Idle, At
<1>7. ASSUME NEW q \in Procs, Keeper(q) PROVE proc' = proc
  BY <1>7 DEF Keeper, KeeperRead, KeeperBeat, KeeperLost
<1>8. Tick \/ UNCHANGED workVars \/ UNCHANGED wvars => proc' = proc
  BY DEF Tick, workVars, wvars
<1> QED BY <1>1, <1>3, <1>4, <1>5, <1>6, <1>7, <1>8 DEF WNext

\* A process that ends a job ends the attempt it holds.
LEMMA EndsItsOwn ==
  ASSUME WorkInv, OwnIds, [WNext]_wvars, NEW p \in Procs, EndsJob(p)
  PROVE  proc[p].held.attempt = jobs[proc[p].held.job_id].attempts
<1> DEFINE j == proc[p].held.job_id
<1>1. FinishCommit(p) \/ FailCommit(p)
  BY JobEnders
<1>2. CASE FinishCommit(p)
  BY <1>2 DEF FinishCommit, FinishAttempt, IsCurrentAttempt, WorkInv, HeldWasGranted
<1>3. CASE FailCommit(p)
  <2>1. proc[p].pc \in Busy
    BY <1>3 DEF FailCommit, Busy, Working
  <2>2. /\ j \in JobIds /\ proc[p].held.attempt \in 1..jobs[j].attempts
        /\ jobs[j].attempts \in Nat
    BY <2>1, HeldFacts DEF WorkInv, IndInv, TypeOK, Row
  <2>3. jobs[j].status = "running" /\ jobs[j].lease_owner = WorkerIdOf[p]
    BY <1>3 DEF FailCommit, Fail, Finish, Holds
  <2>4. PICK g : g = Grant(j, jobs[j].attempts, WorkerIdOf[p])
    OBVIOUS
  <2>5. g \in granted /\ g.job_id = j /\ g.attempt = jobs[j].attempts /\ g.worker = WorkerIdOf[p]
    BY <2>2, <2>3, <2>4 DEF WorkInv, IndInv, LeaseWasGranted, Grant
  <2>6. jobs[j].attempts <= proc[p].held.attempt
    BY <2>1, <2>5 DEF WorkInv, OwnIsLatest
  <2> QED BY <2>2, <2>6
<1> QED BY <1>1, <1>2, <1>3

\* A step does not cut the lease of an attempt that goes on.
LEMMA LeaseKept ==
  ASSUME WorkInv, OwnIds, [WNext]_wvars, NEW j \in JobIds,
         jobs[j].status = "running", jobs'[j].status = "running",
         jobs[j].attempts = jobs'[j].attempts
  PROVE  jobs'[j].lease_expires_at >= jobs[j].lease_expires_at
<1>1. jobs \in [JobIds -> Row] /\ jobs[j].attempts \in Nat /\ jobs[j].lease_expires_at \in Nat
  BY DEF WorkInv, IndInv, TypeOK, Row
<1>2. CASE Calm
  BY <1>1, <1>2 DEF Calm
<1>3. ASSUME NEW p \in Procs, ClaimCommit(p) PROVE jobs'[j] = jobs[j]
  <2>1. PICK i \in JobIds : ClaimJob(i, WorkerIdOf[p], Lease, proc[p].now)
    BY <1>3 DEF ClaimCommit
  <2>2. PICK e : e = LeaseWindow(proc[p].now, Lease)
    OBVIOUS
  <2>3. e \in Nat
    BY <2>2, JobQueueAssumption DEF LeaseWindow, WorkInv, WorkTypes
  <2>4. PICK new : new = ClaimedRow(jobs[i], WorkerIdOf[p], e)
    OBVIOUS
  <2>5. jobs[i] \in Row /\ jobs[i].attempts \in Nat
    BY <1>1 DEF Row
  <2>6. new.attempts = jobs[i].attempts + 1
    BY <2>3, <2>4, <2>5, ClaimedRowFacts
  <2>7. jobs' = [jobs EXCEPT ![i] = new]
    BY <2>1, <2>2, <2>4 DEF ClaimJob
  <2>8. i # j
    BY <1>1, <2>5, <2>6, <2>7
  <2> QED BY <1>1, <2>7, <2>8
<1>4. ASSUME NEW p \in Procs, KeeperBeat(p)
      PROVE  jobs'[j].lease_expires_at >= jobs[j].lease_expires_at
  <2> DEFINE i == proc[p].held.job_id
  <2>1. i \in JobIds
    BY <1>4, HeldFacts DEF KeeperBeat, WorkInv, HeldWasGranted
  <2>2. PICK e : e = keeper[p].now + Lease
    OBVIOUS
  <2>3. e \in Nat
    BY <2>2, JobQueueAssumption DEF WorkInv, WorkTypes
  <2>4. jobs' = [jobs EXCEPT ![i] = [jobs[i] EXCEPT !.lease_expires_at = e]]
    BY <1>4, <2>2 DEF KeeperBeat, Heartbeat, LeaseWindow
  <2>5. CASE i # j
    BY <1>1, <2>4, <2>5
  <2>6. CASE i = j
    <3>1. keeper[p].pc = "beat" /\ jobs[i].lease_owner = WorkerIdOf[p] /\ jobs[i].status = "running"
      BY <1>4 DEF KeeperBeat, Heartbeat, Holds
    <3>2. jobs[i].lease_expires_at <= e
      BY <2>2, <3>1 DEF WorkInv, OwnIsLatest
    <3>3. jobs'[i].lease_expires_at = e
      BY <1>1, <2>1, <2>4 DEF Row
    <3> QED BY <1>1, <2>3, <2>6, <3>2, <3>3
  <2> QED BY <2>5, <2>6
<1> QED BY <1>1, <1>2, <1>3, <1>4, LeaseWriters

\* When every process has its own --worker-id, a process ends a job only while
\* it holds the job's current attempt, and no heartbeat, however late, cuts the
\* lease of a running attempt short.
THEOREM StaleCallsHarmNothing == ASSUME OwnIds PROVE WSpec => StaleHarmsNothing
<1>1. WorkInv /\ [WNext]_wvars => [OnlyCurrentEnds /\ LeaseGrows]_wvars
  BY EndsItsOwn, LeaseKept DEF OnlyCurrentEnds, LeaseGrows
<1> QED BY <1>1, WorkInvariant, PTL DEF WSpec, StaleHarmsNothing

=============================================================================
