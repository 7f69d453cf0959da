--------------------------- MODULE ControlOutcome ---------------------------
(***************************************************************************)
(* Control: services/control_outcomes.py and services/evidence_contract.py *)
(* on top of the job queue, with the table task_outcomes of                *)
(* infra/control_outcomes.py and the store of published verification runs. *)
(*                                                                         *)
(* adjudicate() is not one transaction.  It reads the attempt, reads the   *)
(* outcome on another connection, runs a verification that may take        *)
(* minutes, and then publishes; other Control processes, the queue and     *)
(* crashes come in between.  The queue's own steps are those of JobQueue.  *)
(***************************************************************************)
EXTENDS JobQueue

CONSTANTS
  Controls,    \* processes running task-adjudicate
  RunIds,      \* verification run ids
  Contracts,   \* evidence contracts, each with its producer authority
  Profiles,    \* verification profiles
  Facts,       \* what a verification run may observe
  Evaluate     \* evaluate_evidence_contract: the decision of a contract on facts

VARIABLES
  task_outcomes,  \* task_outcomes[j]: the row of job j, or NULL
  evidence,       \* evidence[r]: the receipt published under run id r, or NULL
  control,        \* control[p]: where the adjudicate() call of p stands
  returned        \* history: the requests adjudicate() has answered, with the outcome

ctlVars == <<task_outcomes, evidence, control, returned>>
allVars == <<jobs, attempt_finished, accepted, granted,
             task_outcomes, evidence, control, returned>>

Decisions == {"passed", "failed", "indeterminate"}
Request == [job_id : JobIds, contract : Contracts, profile : Profiles, run_id : RunIds]
Receipt == [bundle : Bundles, profile : Profiles, facts : Facts]
TaskOutcome == [attempt : BoundedAttempt, contract : Contracts, profile : Profiles,
                run_id : RunIds, decision : Decisions]

ASSUME ControlAssumption ==
  /\ Evaluate \in [Contracts -> [Facts -> Decisions]]
  /\ NULL \notin Receipt \cup TaskOutcome

\* A call of adjudicate(): its request, the attempt it loaded and the outcome it
\* is about to publish.
Call(pc, r, a, o) == [pc |-> pc, request |-> r, attempt |-> a, outcome |-> o]
CallRecord ==
  [pc : {"idle", "attempt", "verify", "publish"}, request : Request \cup {NULL},
   attempt : BoundedAttempt \cup {NULL}, outcome : TaskOutcome \cup {NULL}]
NoCall == Call("idle", NULL, NULL, NULL)

-----------------------------------------------------------------------------
(* Deviations from the code, each a plausible slip; no action uses them.   *)
SameInputsByRun(o, r) == o.run_id = r.run_id
AcceptableAlways(j, o) == TRUE
FreeRunAlways(run) == TRUE
-----------------------------------------------------------------------------
(* adjudicate() *)

\* get_attempt_finished: ORDER BY attempt DESC LIMIT 1
LatestAttempt(j, a) ==
  /\ a \in attempt_finished
  /\ a.job_id = j
  /\ \A b \in attempt_finished : b.job_id = j => b.attempt <= a.attempt

\* A call whose job has no AttemptFinished raises and leaves no trace.
Begin(p, r) ==
  /\ control[p] = NoCall
  /\ \E a \in attempt_finished :
       /\ LatestAttempt(r.job_id, a)
       /\ control' = [control EXCEPT ![p] = Call("attempt", r, a, NULL)]
  /\ UNCHANGED <<task_outcomes, evidence, returned>>

\* The comparison of a stored outcome with the request's Control inputs.
SameInputs(o, r) ==
  o.contract = r.contract /\ o.profile = r.profile /\ o.run_id = r.run_id

\* get_task_outcome: no row, a row this very request made, or another one.
LoadOutcome(p) ==
  LET r == control[p].request
      a == control[p].attempt
      o == task_outcomes[r.job_id]
  IN /\ control[p].pc = "attempt"
     /\ \/ /\ o = NULL
           /\ control' = [control EXCEPT ![p] = Call("verify", r, a, NULL)]
        \/ /\ o # NULL
           /\ SameInputs(o, r)
           /\ control' = [control EXCEPT ![p] = Call("publish", r, a, o)]
        \/ /\ o # NULL
           /\ ~ SameInputs(o, r)
           /\ control' = [control EXCEPT ![p] = NoCall]
     /\ UNCHANGED <<task_outcomes, evidence, returned>>

\* verification run already exists
FreeRun(run) == evidence[run] = NULL

\* The receipt of a run over the attempt's output bundle: execute() checks
\* every binding of it before it publishes.
ReceiptFor(r, a, facts) ==
  [bundle |-> a.output_bundle, profile |-> r.profile, facts |-> facts]

OutcomeOf(r, a, receipt) ==
  [attempt |-> a, contract |-> r.contract, profile |-> r.profile,
   run_id |-> r.run_id, decision |-> Evaluate[r.contract][receipt.facts]]

\* The verification ends, its run is published under the requested run id,
\* the receipt is read back from the store and evaluated.
Verify(p, facts) ==
  LET r == control[p].request
      a == control[p].attempt
      receipt == ReceiptFor(r, a, facts)
  IN /\ control[p].pc = "verify"
     /\ FreeRun(r.run_id)
     /\ evidence' = [evidence EXCEPT ![r.run_id] = receipt]
     /\ control' = [control EXCEPT ![p] = Call("publish", r, a, OutcomeOf(r, a, receipt))]
     /\ UNCHANGED <<task_outcomes, returned>>

\* The run id is taken, or the verifier transport fails: nothing is published.
VerifyFails(p) ==
  /\ control[p].pc = "verify"
  /\ control' = [control EXCEPT ![p] = NoCall]
  /\ UNCHANGED <<task_outcomes, evidence, returned>>

\* What publish_task_outcome re-reads in its own transaction.
CurrentAttempt(a) ==
  LET row == jobs[a.job_id]
  IN /\ a \in attempt_finished
     /\ row.attempts = a.attempt
     /\ row.kind = "coding-agent"
     /\ row.status = "completed"
     /\ row.result_json = a

\* _validate_outcome_binding
Binding(o, a) == o.attempt = a

\* No outcome yet, or this one.
Acceptable(j, o) == task_outcomes[j] \in {NULL, o}

PublishOutcome(p) ==
  LET a == control[p].attempt
      o == control[p].outcome
  IN /\ control[p].pc = "publish"
     /\ Binding(o, a)
     /\ CurrentAttempt(a)
     /\ Acceptable(a.job_id, o)
     /\ task_outcomes' = [task_outcomes EXCEPT ![a.job_id] = o]
     /\ returned' = returned \cup {[request |-> control[p].request, outcome |-> o]}
     /\ control' = [control EXCEPT ![p] = NoCall]
     /\ UNCHANGED evidence

\* TaskOutcomeConflictError: another Control process was first; or StaleAttemptError.
PublishRefused(p) ==
  LET a == control[p].attempt
      o == control[p].outcome
  IN /\ control[p].pc = "publish"
     /\ ~ (Binding(o, a) /\ CurrentAttempt(a) /\ Acceptable(a.job_id, o))
     /\ control' = [control EXCEPT ![p] = NoCall]
     /\ UNCHANGED <<task_outcomes, evidence, returned>>

\* The process dies, or a step after the evidence was published raises.
ControlCrash(p) ==
  /\ control[p].pc # "idle"
  /\ control' = [control EXCEPT ![p] = NoCall]
  /\ UNCHANGED <<task_outcomes, evidence, returned>>

\* Diagnostic verification by an Agent publishes runs in the same store.
AgentVerifies(run, receipt) ==
  /\ FreeRun(run)
  /\ evidence' = [evidence EXCEPT ![run] = receipt]
  /\ UNCHANGED <<task_outcomes, control, returned>>

-----------------------------------------------------------------------------
CInit ==
  /\ Init
  /\ task_outcomes = [j \in JobIds |-> NULL]
  /\ evidence = [run \in RunIds |-> NULL]
  /\ control = [p \in Controls |-> NoCall]
  /\ returned = {}

ControlStep(p) ==
  \/ \E r \in Request : Begin(p, r)
  \/ LoadOutcome(p)
  \/ \E facts \in Facts : Verify(p, facts)
  \/ VerifyFails(p)
  \/ PublishOutcome(p)
  \/ PublishRefused(p)
  \/ ControlCrash(p)

AgentStep == \E run \in RunIds, receipt \in Receipt : AgentVerifies(run, receipt)

CNext ==
  \/ Next /\ UNCHANGED ctlVars
  \/ (AgentStep \/ \E p \in Controls : ControlStep(p)) /\ UNCHANGED vars

CSpec == CInit /\ [][CNext]_allVars

-----------------------------------------------------------------------------
(* Properties *)

\* The two tables, the evidence store and the calls under way are well formed.
CTypeOK ==
  /\ TypeOK
  /\ task_outcomes \in [JobIds -> TaskOutcome \cup {NULL}]
  /\ evidence \in [RunIds -> Receipt \cup {NULL}]
  /\ control \in [Controls -> CallRecord]
  /\ returned \subseteq [request : Request, outcome : TaskOutcome]

\* A published outcome is about the one attempt that completed its job, and the
\* queue's own row still says so.
OutcomeIsAboutLineage ==
  \A j \in JobIds :
    task_outcomes[j] # NULL =>
      LET a == task_outcomes[j].attempt
      IN a.job_id = j /\ a \in attempt_finished /\ jobs[j].result_json = a

\* A receipt the store holds supports outcome o.
Supported(o) ==
  LET receipt == evidence[o.run_id]
  IN /\ receipt # NULL
     /\ receipt.bundle = o.attempt.output_bundle
     /\ receipt.profile = o.profile
     /\ o.decision = Evaluate[o.contract][receipt.facts]

\* The decision of an outcome is what its contract says of a receipt that the
\* store holds under the outcome's run id, for the attempt's output bundle and
\* the outcome's profile: no other run, bundle or profile decided the task.
OutcomeHasEvidence ==
  \A j \in JobIds : task_outcomes[j] # NULL => Supported(task_outcomes[j])

\* Whatever raced or crashed, every answer adjudicate() ever gave is the stored
\* outcome of the requested job, made from the requested contract, profile and
\* run: no two callers were told different things, and none was told another
\* request's verdict.
ReturnedIsStored ==
  \A x \in returned :
    /\ task_outcomes[x.request.job_id] = x.outcome
    /\ x.outcome.contract = x.request.contract
    /\ x.outcome.profile = x.request.profile
    /\ x.outcome.run_id = x.request.run_id

\* What a step must do with the outcomes there are.
KeepsOutcomes ==
  \A j \in JobIds : task_outcomes[j] # NULL => task_outcomes'[j] = task_outcomes[j]

\* An outcome, once published, is never replaced: a late publisher with another
\* run or contract gets TaskOutcomeConflictError.
OutcomeIsFinal == [][KeepsOutcomes]_allVars

-----------------------------------------------------------------------------
(* The task lifecycle this implements. *)

HasLineage(j) == \E a \in attempt_finished : a.job_id = j

PhaseOf(j) ==
  IF jobs[j].status = "absent" THEN "absent"
  ELSE IF jobs[j].status \in {"queued", "running"} THEN "open"
  ELSE IF HasLineage(j) THEN "executed" ELSE "ended"

LineageOf(j) == IF HasLineage(j) THEN jobs[j].result_json ELSE NULL

AttemptOf(o) == o.attempt

Task == INSTANCE TaskLifecycle WITH
  Jobs <- JobIds, Lineage <- BoundedAttempt, Outcomes <- TaskOutcome, NoValue <- NULL,
  About <- AttemptOf,
  phase <- [j \in JobIds |-> PhaseOf(j)],
  lineage <- [j \in JobIds |-> LineageOf(j)],
  outcome <- task_outcomes

\* Queue, workers, verification and Control together implement the abstract
\* task lifecycle.
ImplementsTaskLifecycle == Task!Spec
=============================================================================
