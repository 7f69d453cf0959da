------------------------------ MODULE AgentRun ------------------------------
(***************************************************************************)
(* One run of the coding Agent: the loop of agent_loop.py, the transitions *)
(* of agent_transitions.py, the state of agent_state.py and the compaction *)
(* of compaction.py.                                                       *)
(*                                                                         *)
(* The loop is sequential; what is uncertain is everything it calls.  The  *)
(* model may answer anything, a tool may fail before or after it wrote, a  *)
(* verification may be flaky or touch the workspace, and the deadline may  *)
(* pass between any two steps.  Workspaces are compared by state hash; the *)
(* workspace is the run's own, so nobody else writes to it.                *)
(***************************************************************************)
EXTENDS Naturals, Sequences

CONSTANTS
  Hashes,             \* workspace state hashes
  Criteria,           \* acceptance criteria of the task and of its commands
  Covers,             \* the criteria of each verification command, in command order
  Calls,              \* fingerprints of tool decisions
  MaxSteps, MaxProtocolErrors, MaxCompactions,           \* AgentLimits
  KeepRecent, CompactInterval, VerifyInterval, StagnationLimit,  \* CadencePolicy
  NULL

ASSUME LimitsAssumption ==
  /\ MaxSteps \in Nat \ {0}
  /\ MaxProtocolErrors \in Nat
  /\ MaxCompactions \in Nat
  /\ KeepRecent \in Nat \ {0}
  /\ CompactInterval \in Nat \ {0}
  /\ VerifyInterval \in Nat \ {0}
  /\ StagnationLimit \in Nat \ {0, 1}

\* _require_criterion_coverage
ASSUME CoverageAssumption ==
  /\ Covers \in Seq(SUBSET Criteria)
  /\ \A c \in Criteria : \E i \in DOMAIN Covers : c \in Covers[i]

ASSUME NullAssumption ==
  /\ NULL \notin Hashes
  /\ NULL \notin [state : Hashes, passed : BOOLEAN, failed : SUBSET Criteria]
  /\ NULL \notin [count : Nat, latest : [state : Hashes, passed : BOOLEAN, failed : SUBSET Criteria]
                                          \cup {NULL}]
  /\ "finish" \notin Calls

VARIABLES
  pc,                 \* where the loop stands; "done" with a result, "raised" without
  step,               \* the number of the step under way, or of the last one
  expired,            \* the global deadline has passed
  workspace,          \* the state hash of the workspace
  before,             \* turn.before.state_hash
  events, compact_summary, compactions,
  protocol_errors,
  last_fingerprint, repeated_fingerprint,
  mutations_since_verify, last_failed,   \* last_failed_verification_state
  criterion_status,
  state_visits, cycle_streak,            \* keys of state_visits, workspace_cycle_streak
  result,             \* the AgentResult, or NULL
  verdict,            \* history: the last verification, its state and its verdict
  unverified,         \* history: tool calls that changed the workspace since then
  recorded            \* history: events appended so far

loopVars == <<pc, step, before>>
contextVars == <<events, compact_summary, compactions, recorded>>
decisionVars == <<protocol_errors, last_fingerprint, repeated_fingerprint>>
workVars == <<workspace, mutations_since_verify, state_visits, cycle_streak, unverified>>
verifyVars == <<last_failed, criterion_status, verdict>>
avars == <<pc, step, expired, workspace, before, events, compact_summary, compactions,
           protocol_errors, last_fingerprint, repeated_fingerprint,
           mutations_since_verify, last_failed, criterion_status, state_visits,
           cycle_streak, result, verdict, unverified, recorded>>

\* failed: the criteria of the commands that failed
Verdict == [state : Hashes, passed : BOOLEAN, failed : SUBSET Criteria]

\* An event: its kind, and the verdict of a verification.
Event(kind, v) == [kind |-> kind, verdict |-> v]

\* A VerificationReceipt: every command has run.
Receipt == [unchanged : BOOLEAN, results : [DOMAIN Covers -> BOOLEAN]]

-----------------------------------------------------------------------------
(* Deviations from the code, each a plausible slip; no action uses them.   *)
LastFailedKept(r, h) == IF r.unchanged /\ \A i \in DOMAIN Covers : r.results[i] THEN NULL ELSE last_failed
CarriedNothing(s) == NULL
PassesByLastCommand(r) == r.unchanged /\ r.results[Len(Covers)]
ProtocolErrorUncounted ==
  /\ pc = "model"
  /\ ~ expired
  /\ pc' = "step"
  /\ step' = step - 1
  /\ UNCHANGED <<contextVars, decisionVars, workVars, verifyVars, result, expired, before>>
-----------------------------------------------------------------------------
(* Helpers *)

Append1(kind, v) ==
  /\ events' = Append(events, Event(kind, v))
  /\ recorded' = recorded + 1
  /\ UNCHANGED <<compact_summary, compactions>>

\* recorder.finish: the result carries a fresh snapshot of the workspace.
Finish(success, steps) ==
  /\ pc' = "done"
  /\ result' = [success |-> success, steps |-> steps, state |-> workspace']
  /\ UNCHANGED <<step, before>>

GoOn(to) == pc' = to /\ UNCHANGED <<step, before, result>>

StagnantAt(n) == n >= StagnationLimit
VerifyDue(n) == n >= VerifyInterval

\* state_criterion_key
Key(h, status) == <<h, status>>
Remember(h, status) == state_visits \cup {Key(h, status)}

(* The head of a step: budget, deadline, compaction, snapshot. *)

StepBudgetExhausted ==
  /\ pc = "step"
  /\ step = MaxSteps
  /\ UNCHANGED <<contextVars, decisionVars, workVars, verifyVars, expired>>
  /\ Finish(FALSE, MaxSteps)

DeadlineAtStep ==
  /\ pc = "step"
  /\ step < MaxSteps
  /\ expired
  /\ UNCHANGED <<contextVars, decisionVars, workVars, verifyVars, expired>>
  /\ Finish(FALSE, step)

\* The latest verification among some events, or the one carried over.
Carried(s) == IF s = NULL THEN NULL ELSE s.latest
IsVerification(e) == e.kind = "verification"
Latest(es, carried) ==
  LET vs == {i \in DOMAIN es : IsVerification(es[i])}
  IN IF vs = {} THEN carried ELSE es[CHOOSE i \in vs : \A j \in vs : j <= i].verdict

\* compact_events: all but the most recent events go into the summary.
Compact ==
  LET n == Len(events) - KeepRecent
      cut == SubSeq(events, 1, n)
  IN /\ events' = SubSeq(events, n + 1, Len(events))
     /\ compact_summary' =
          [count |-> n + IF compact_summary = NULL THEN 0 ELSE compact_summary.count,
           latest |-> Latest(cut, Carried(compact_summary))]
     /\ compactions' = compactions + 1
     /\ UNCHANGED recorded

MayCompact == compactions < MaxCompactions /\ Len(events) > KeepRecent

\* should_compact: on every CompactInterval-th step, and whenever the transcript
\* is too long, which any transcript may be.
BeginStep ==
  /\ pc = "step"
  /\ step < MaxSteps
  /\ ~ expired
  /\ \/ MayCompact /\ Compact
     \/ ~ (MayCompact /\ (step + 1) % CompactInterval = 0) /\ UNCHANGED contextVars
  /\ step' = step + 1
  /\ before' = workspace
  /\ pc' = "model"
  /\ UNCHANGED <<decisionVars, workVars, verifyVars, result, expired>>

(* The model call. *)

\* The provider fails, or the deadline passes during the call.
ModelFails ==
  /\ pc = "model"
  /\ UNCHANGED <<contextVars, decisionVars, workVars, verifyVars, expired>>
  /\ Finish(FALSE, step - 1)

\* parse_agent_decision raises ProtocolError.
ProtocolError ==
  /\ pc = "model"
  /\ ~ expired
  /\ protocol_errors' = protocol_errors + 1
  /\ Append1("protocol_error", NULL)
  /\ UNCHANGED <<last_fingerprint, repeated_fingerprint, workVars, verifyVars, expired>>
  /\ IF protocol_errors + 1 > MaxProtocolErrors THEN Finish(FALSE, step) ELSE GoOn("step")

\* observe_decision: the same decision too often in a row ends the run.
Decide(f) ==
  LET n == IF f = last_fingerprint THEN repeated_fingerprint + 1 ELSE 1
  IN /\ pc = "model"
     /\ ~ expired
     /\ repeated_fingerprint' = n
     /\ last_fingerprint' = f
     /\ UNCHANGED <<protocol_errors, contextVars, workVars, verifyVars, expired>>
     /\ \/ StagnantAt(n) /\ Finish(FALSE, step)
        \/ ~ StagnantAt(n) /\ GoOn(IF f = "finish" THEN "finish" ELSE "tool")

(* AgentToolTransitionHandler.execute and the verification after it. *)

\* A tool that reads, or one that fails and leaves the workspace as it was.
ToolKeeps(kind) ==
  /\ pc = "tool"
  /\ Append1(kind, NULL)
  /\ GoOn("step")
  /\ UNCHANGED <<decisionVars, workVars, verifyVars, expired>>

\* A tool fails after it wrote, or changed what it said it would not.
ToolFailsDirty(h) ==
  /\ pc = "tool"
  /\ h # workspace
  /\ workspace' = h
  /\ unverified' = unverified + 1
  /\ Append1("tool_error", NULL)
  /\ Finish(FALSE, step)
  /\ UNCHANGED <<decisionVars, verifyVars, expired,
                 mutations_since_verify, state_visits, cycle_streak>>

\* observe_workspace_state: a state and criterion status seen before lengthens
\* the streak; too long a streak ends the run.  Otherwise a verification may be due.
ToolMutates(h) ==
  LET seen == Key(h, criterion_status) \in state_visits
      streak == IF seen THEN cycle_streak + 1 ELSE 0
      n == mutations_since_verify + 1
  IN /\ pc = "tool"
     /\ h # workspace
     /\ workspace' = h
     /\ unverified' = unverified + 1
     /\ mutations_since_verify' = n
     /\ cycle_streak' = streak
     /\ state_visits' = Remember(h, criterion_status)
     /\ Append1("tool", NULL)
     /\ \/ seen /\ StagnantAt(streak) /\ Finish(FALSE, step)
        \/ ~ (seen /\ StagnantAt(streak)) /\ GoOn(IF VerifyDue(n) THEN "verify" ELSE "step")
     /\ UNCHANGED <<decisionVars, verifyVars, expired>>

(* AgentVerificationTransitionHandler *)

\* receipt.passed
Passes(r) == r.unchanged /\ \A i \in DOMAIN Covers : r.results[i]

\* update_criterion_status over the receipt's pairs of criterion and command: the
\* last command that names a criterion decides.
LastNaming(c) ==
  CHOOSE i \in DOMAIN Covers :
    c \in Covers[i] /\ \A j \in DOMAIN Covers : c \in Covers[j] => j <= i
CriterionStatus(r) ==
  [c \in Criteria |-> IF r.results[LastNaming(c)] THEN "passed" ELSE "failed"]

FailedCriteria(r) == UNION {Covers[i] : i \in {j \in DOMAIN Covers : ~ r.results[j]}}

\* What every verification does: the criteria of the receipt, the state it left,
\* the event.
Verified(r) ==
  LET v == [state |-> workspace', passed |-> Passes(r), failed |-> FailedCriteria(r)]
  IN /\ workspace' \in IF r.unchanged THEN {workspace} ELSE Hashes
     /\ criterion_status' = CriterionStatus(r)
     /\ verdict' = v
     /\ unverified' = 0
     /\ Append1("verification", v)
     /\ UNCHANGED <<decisionVars, cycle_streak, expired>>

\* last_failed_verification_state after an intermediate verification.
LastFailed(r, h) == IF Passes(r) THEN NULL ELSE h

\* verification_interval_mutations were made: verify, go on whatever the verdict.
IntermediateVerify(r) ==
  /\ pc = "verify"
  /\ Verified(r)
  /\ mutations_since_verify' = 0
  /\ state_visits' = Remember(workspace, criterion_status')
  /\ \/ ~ r.unchanged /\ Finish(FALSE, step) /\ UNCHANGED last_failed
     \/ r.unchanged /\ GoOn("step") /\ last_failed' = LastFailed(r, workspace)

\* finish on the state that failed last is refused without a verification.
RejectFinish ==
  /\ pc = "finish"
  /\ last_failed = before
  /\ Append1("verification_rejected", NULL)
  /\ GoOn("step")
  /\ UNCHANGED <<decisionVars, workVars, verifyVars, expired>>

FinalVerify(r) ==
  /\ pc = "finish"
  /\ last_failed # before
  /\ Verified(r)
  /\ state_visits' = Remember(workspace', criterion_status')
  /\ \/ ~ r.unchanged /\ Finish(FALSE, step) /\ UNCHANGED <<last_failed, mutations_since_verify>>
     \/ r.unchanged /\ Passes(r) /\ Finish(TRUE, step)
        /\ UNCHANGED <<last_failed, mutations_since_verify>>
     \/ r.unchanged /\ ~ Passes(r) /\ GoOn("step")
        /\ last_failed' = workspace' /\ mutations_since_verify' = 0

\* A verifier, a snapshot or the observation of the workspace raises; nothing in
\* the loop catches it, and the run has no result.
Raise ==
  /\ pc \in {"step", "tool", "verify", "finish"}
  /\ pc' = "raised"
  /\ UNCHANGED <<step, before, result, contextVars, decisionVars, workVars, verifyVars, expired>>

\* The deadline passes.
Expire ==
  /\ pc \notin {"done", "raised"}
  /\ ~ expired
  /\ expired' = TRUE
  /\ UNCHANGED <<loopVars, result, contextVars, decisionVars, workVars, verifyVars>>

-----------------------------------------------------------------------------
AInit ==
  /\ pc = "step"
  /\ step = 0
  /\ expired = FALSE
  /\ workspace \in Hashes
  /\ before = workspace
  /\ events = <<>>
  /\ compact_summary = NULL
  /\ compactions = 0
  /\ protocol_errors = 0
  /\ last_fingerprint = NULL
  /\ repeated_fingerprint = 0
  /\ mutations_since_verify = 0
  /\ last_failed = NULL
  /\ criterion_status = [c \in Criteria |-> "not_run"]
  /\ state_visits = {Key(workspace, criterion_status)}
  /\ cycle_streak = 0
  /\ result = NULL
  /\ verdict = NULL
  /\ unverified = 0
  /\ recorded = 0

Loop ==
  \/ StepBudgetExhausted \/ DeadlineAtStep \/ BeginStep
  \/ ModelFails \/ ProtocolError
  \/ \E f \in Calls \cup {"finish"} : Decide(f)
  \/ \E kind \in {"tool", "tool_error"} : ToolKeeps(kind)
  \/ \E h \in Hashes : ToolFailsDirty(h) \/ ToolMutates(h)
  \/ RejectFinish
  \/ \E r \in Receipt : IntermediateVerify(r) \/ FinalVerify(r)
  \/ Raise

\* The run has ended.
Ended == pc \in {"done", "raised"} /\ UNCHANGED avars

ANext == Loop \/ Expire \/ Ended

ASpec == AInit /\ [][ANext]_avars

\* Every call the loop makes returns.  Nothing is assumed of the clock.
AFairSpec == ASpec /\ WF_avars(Loop)

-----------------------------------------------------------------------------
(* Properties *)

Running == pc \notin {"done", "raised"}

\* The fields of AgentRunState have their types, and a run that goes on is within
\* every budget: steps, protocol errors, compactions, repeated decisions.
ATypeOK ==
  /\ pc \in {"step", "model", "tool", "finish", "verify", "done", "raised"}
  /\ step \in 0..MaxSteps
  /\ expired \in BOOLEAN
  /\ workspace \in Hashes /\ before \in Hashes
  /\ compactions \in 0..MaxCompactions
  /\ protocol_errors \in Nat /\ (Running => protocol_errors <= MaxProtocolErrors)
  /\ repeated_fingerprint \in Nat /\ (Running => repeated_fingerprint < StagnationLimit)
  /\ cycle_streak \in Nat /\ (Running => cycle_streak < StagnationLimit)
  /\ mutations_since_verify \in Nat /\ unverified \in Nat /\ recorded \in Nat
  /\ last_failed \in Hashes \cup {NULL}
  /\ criterion_status \in [Criteria -> {"not_run", "passed", "failed"}]
  /\ verdict \in Verdict \cup {NULL}
  /\ result \in [success : BOOLEAN, steps : 0..MaxSteps, state : Hashes] \cup {NULL}

\* A run reports success only if the very last verification passed, on the
\* workspace the result describes, and every acceptance criterion is recorded as
\* passed: no mutation, flaky verdict or rejected finish comes in between.
SuccessIsVerified ==
  result # NULL /\ result.success =>
    /\ verdict = [state |-> result.state, passed |-> TRUE, failed |-> {}]
    /\ workspace = result.state
    /\ unverified = 0
    /\ \A c \in Criteria : criterion_status[c] = "passed"

\* The model is never asked for a further decision while VerifyInterval or more
\* changes of the workspace are unverified.
UnverifiedBounded == pc \in {"step", "model"} => unverified < VerifyInterval

\* The workspace a run goes on with is on record together with the criterion
\* status it goes on with, so a later return to it is noticed as a cycle.
CurrentIsVisited ==
  pc \in {"step", "model"} => Key(workspace, criterion_status) \in state_visits

\* The criterion status the model is asked to decide by is that of the latest
\* verification: a criterion one of whose commands failed is not shown as passed.
StatusIsAuthoritative ==
  pc = "model" /\ verdict # NULL =>
    \A c \in verdict.failed : criterion_status[c] = "failed"

\* What the model is shown is complete: every event is in the transcript or
\* counted in the summary, and the latest verification of the two is the last one
\* there was, however often the transcript was compacted.
ContextComplete ==
  /\ recorded = Len(events) + IF compact_summary = NULL THEN 0 ELSE compact_summary.count
  /\ Latest(events, IF compact_summary = NULL THEN NULL ELSE compact_summary.latest) = verdict

\* A finish step that verifies has something to verify.
VerifiesNews ==
  /\ pc = "finish"
  /\ events' # events
  /\ IsVerification(events'[Len(events')])
  /\ verdict # NULL
  => verdict.passed \/ verdict.state # workspace

\* A final verification never repeats a verification that failed on the same
\* workspace just before, be that a final or an intermediate one.
FailureNotRepeated == [][VerifiesNews]_avars

\* Every run ends, with a result or with an exception.
RunEnds == <>(pc \in {"done", "raised"})
=============================================================================
