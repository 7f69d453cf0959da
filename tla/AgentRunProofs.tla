--------------------------- MODULE AgentRunProofs ---------------------------
(***************************************************************************)
(* The safety of an Agent run for every budget, every number of workspace  *)
(* states, commands and criteria, and whatever the model, the tools, the   *)
(* verifier and the deadline do.                                           *)
(*                                                                         *)
(* A run that goes on knows three things about its workspace: how many     *)
(* changes are unverified, whether the last verification failed and on     *)
(* which state, and that the state is on record with the criterion status. *)
(* The invariant says that the loop's own counters are these facts.        *)
(***************************************************************************)
EXTENDS AgentRun, SequenceTheorems, WellFoundedInduction, TLAPS

\* The events of the transcript.
EventKind == {"tool", "tool_error", "protocol_error", "verification", "verification_rejected"}
EventRecord == [kind : EventKind, verdict : Verdict \cup {NULL}]

\* The types of what a step may write while the run ends.
DataOK ==
  /\ expired \in BOOLEAN
  /\ workspace \in Hashes
  /\ events \in Seq(EventRecord)
  /\ compactions \in 0..MaxCompactions
  /\ protocol_errors \in Nat /\ repeated_fingerprint \in Nat /\ cycle_streak \in Nat
  /\ mutations_since_verify \in Nat /\ unverified \in Nat /\ recorded \in Nat
  /\ last_failed \in Hashes \cup {NULL}
  /\ criterion_status \in [Criteria -> {"not_run", "passed", "failed"}]
  /\ verdict \in Verdict \cup {NULL}

\* Inside a step there is a step, and its snapshot is the workspace until the
\* tool or the verifier runs.
StepInv ==
  /\ events \in Seq(EventRecord)
  /\ pc \in {"model", "tool", "finish", "verify"} => step \in 1..MaxSteps
  /\ pc \in {"model", "tool", "finish"} => before = workspace

\* mutations_since_verify counts the unverified changes, and stays below the
\* interval until the verification it triggers.
CountInv ==
  /\ Running => unverified = mutations_since_verify
  /\ pc \in {"step", "model", "tool", "finish"} => unverified < VerifyInterval

\* last_failed_verification_state remembers the last verdict, if it was a failure.
FailureInv ==
  Running /\ verdict # NULL /\ ~ verdict.passed => last_failed = verdict.state

VisitInv == Running => Key(workspace, criterion_status) \in state_visits

\* Everything a step of the loop may rely on.
AInv ==
  /\ ATypeOK
  /\ StepInv
  /\ CountInv
  /\ FailureInv
  /\ VisitInv
  /\ SuccessIsVerified
  /\ (Running => result = NULL)

\* A step that ends the run without success.
Ending ==
  /\ pc' = "done"
  /\ result' \in [success : {FALSE}, steps : 0..MaxSteps, state : {workspace'}]
  /\ UNCHANGED <<step, before>>

-----------------------------------------------------------------------------
(* Lemmas *)

\* recorder.finish with a failed termination.
LEMMA FinishEnds ==
  ASSUME NEW n \in 0..MaxSteps, Finish(FALSE, n)
  PROVE  Ending
  BY DEF Finish, Ending

\* A criterion has a last command, so update_criterion_status assigns it a
\* result of the receipt.
LEMMA LastNamingExists ==
  ASSUME NEW c \in Criteria
  PROVE  /\ LastNaming(c) \in DOMAIN Covers
         /\ c \in Covers[LastNaming(c)]
<1> DEFINE N == Len(Covers)
           T == {N - i : i \in {j \in DOMAIN Covers : c \in Covers[j]}}
<1>1. N \in Nat /\ DOMAIN Covers = 1..N
  BY CoverageAssumption
<1>2. T \subseteq Nat
  BY <1>1
<1>3. T # {}
  BY <1>1, CoverageAssumption
<1>4. PICK R : R = OpToRel(<, Nat)
  OBVIOUS
<1>5. IsWellFoundedOn(R, Nat)
  BY <1>4, NatLessThanWellFounded
<1>6. PICK x \in T : \A y \in T : ~ (<<y, x>> \in R)
  <2> HIDE DEF T
  <2> QED BY <1>2, <1>3, <1>5, WFMin
<1>7. \A y \in T : ~ (y < x)
  BY <1>2, <1>4, <1>6 DEF OpToRel
<1>8. PICK i \in DOMAIN Covers : c \in Covers[i] /\ x = N - i
  BY <1>6
<1>9. ASSUME NEW j \in DOMAIN Covers, c \in Covers[j]
      PROVE  j <= i
  <2>1. N - j \in T
    BY <1>9
  <2>2. ~ (N - j < N - i)
    BY <2>1, <1>7, <1>8
  <2> HIDE DEF N
  <2> QED
    BY <2>2, <1>1
<1> HIDE DEF T, N
<1> QED
  BY <1>8, <1>9 DEF LastNaming

\* The status of every criterion is one of the three, and "passed" when every
\* command passed.
LEMMA StatusOfReceipt ==
  ASSUME NEW r \in Receipt
  PROVE  /\ CriterionStatus(r) \in [Criteria -> {"not_run", "passed", "failed"}]
         /\ Passes(r) => \A c \in Criteria : CriterionStatus(r)[c] = "passed"
<1>1. \A c \in Criteria : LastNaming(c) \in DOMAIN Covers
  BY LastNamingExists
<1> QED
  BY <1>1 DEF CriterionStatus, Passes

\* A verdict is a Verdict.
LEMMA VerdictOfReceipt ==
  ASSUME NEW r \in Receipt, NEW h \in Hashes
  PROVE  /\ [state |-> h, passed |-> Passes(r), failed |-> FailedCriteria(r)] \in Verdict
         /\ Passes(r) => FailedCriteria(r) = {}
<1>1. Passes(r) \in BOOLEAN
  BY DEF Passes
<1>2. FailedCriteria(r) \subseteq Criteria
  BY CoverageAssumption DEF FailedCriteria
<1>3. Passes(r) => FailedCriteria(r) = {}
  BY DEF FailedCriteria, Passes
<1> QED
  BY <1>1, <1>2, <1>3 DEF Verdict

\* Appending an event leaves a transcript.
LEMMA AppendKeepsEvents ==
  ASSUME NEW kind \in EventKind, NEW v \in Verdict \cup {NULL},
         events \in Seq(EventRecord), recorded \in Nat, Append1(kind, v)
  PROVE  /\ events' \in Seq(EventRecord)
         /\ recorded' \in Nat
         /\ events' # <<>>
         /\ events'[Len(events')] = Event(kind, v)
         /\ compactions' = compactions
<1>1. PICK e : e = Event(kind, v)
  OBVIOUS
<1>2. e \in EventRecord
  BY <1>1 DEF Event, EventRecord
<1>3. events' = Append(events, e)
  BY <1>1 DEF Append1
<1>4. /\ events' \in Seq(EventRecord)
      /\ events' # <<>>
      /\ events'[Len(events')] = e
  BY <1>2, <1>3, AppendProperties
<1>5. recorded' \in Nat /\ compactions' = compactions
  BY DEF Append1
<1>6. events'[Len(events')] = Event(kind, v)
  BY <1>1, <1>4, Zenon
<1> QED
  BY <1>4, <1>5, <1>6

\* Compaction leaves a transcript.
LEMMA CompactKeepsEvents ==
  ASSUME events \in Seq(EventRecord), MayCompact, Compact,
         compactions \in 0..MaxCompactions, recorded \in Nat
  PROVE  /\ events' \in Seq(EventRecord)
         /\ compactions' \in 0..MaxCompactions
         /\ recorded' \in Nat
<1>1. PICK n : n = Len(events) - KeepRecent
  OBVIOUS
<1>2. n \in Nat /\ Len(events) \in Nat
  BY <1>1, LimitsAssumption DEF MayCompact
<1>3. \A i \in (n + 1)..Len(events) : events[i] \in EventRecord
  BY <1>2
<1>4. SubSeq(events, n + 1, Len(events)) \in Seq(EventRecord)
  BY <1>2, <1>3, SubSeqProperties
<1>5. events' = SubSeq(events, n + 1, Len(events))
  BY <1>1 DEF Compact
<1>6. compactions' \in 0..MaxCompactions
  <2>1. compactions' = compactions + 1
    BY DEF Compact
  <2> QED
    BY <2>1, LimitsAssumption DEF MayCompact
<1> QED
  BY <1>4, <1>5, <1>6 DEF Compact

\* A run starts in the invariant.
LEMMA InitAInv == AInit => AInv
<1> SUFFICES ASSUME AInit PROVE AInv
  OBVIOUS
<1>1. ATypeOK
  <2>1. criterion_status \in [Criteria -> {"not_run", "passed", "failed"}]
    BY DEF AInit
  <2>2. step \in 0..MaxSteps /\ compactions \in 0..MaxCompactions
    BY LimitsAssumption DEF AInit
  <2>3. /\ Running => protocol_errors <= MaxProtocolErrors
        /\ Running => repeated_fingerprint < StagnationLimit
        /\ Running => cycle_streak < StagnationLimit
    BY LimitsAssumption DEF AInit
  <2> QED
    BY <2>1, <2>2, <2>3 DEF AInit, ATypeOK
<1>2. StepInv
  BY DEF AInit, StepInv
<1>3. CountInv
  BY LimitsAssumption DEF AInit, CountInv
<1>4. FailureInv /\ VisitInv /\ SuccessIsVerified /\ (Running => result = NULL)
  BY DEF AInit, FailureInv, VisitInv, SuccessIsVerified
<1> QED
  BY <1>1, <1>2, <1>3, <1>4 DEF AInv

\* What the invariant says of the types.
LEMMA AInvTypes == AInv => DataOK
  BY DEF AInv, ATypeOK, StepInv, DataOK

\* A step that ends the run without success keeps the invariant whatever it did.
LEMMA EndingKeepsAInv ==
  ASSUME AInv, Ending, DataOK'
  PROVE  AInv'
<1>1. pc' = "done" /\ ~ Running'
  BY DEF Ending, Running
<1>2. /\ result' \in [success : BOOLEAN, steps : 0..MaxSteps, state : Hashes]
      /\ ~ result'.success
  BY DEF Ending, DataOK
<1>3. step' \in 0..MaxSteps /\ before' \in Hashes
  BY DEF Ending, AInv, ATypeOK
<1>4. ATypeOK'
  BY <1>1, <1>2, <1>3 DEF DataOK, ATypeOK
<1>5. StepInv' /\ CountInv' /\ FailureInv' /\ VisitInv' /\ SuccessIsVerified'
  BY <1>1, <1>2 DEF DataOK, StepInv, CountInv, FailureInv, VisitInv, SuccessIsVerified
<1> QED
  BY <1>1, <1>4, <1>5 DEF AInv

\* Ending a run without success, the workspace and the verdict as they are.
LEMMA EndKeepsAInv ==
  ASSUME AInv, StepBudgetExhausted \/ DeadlineAtStep \/ ModelFails
  PROVE  AInv'
<1>1. Ending
  <2>1. CASE StepBudgetExhausted
    <3>1. MaxSteps \in 0..MaxSteps
      BY LimitsAssumption
    <3> QED
      BY <2>1, <3>1, FinishEnds DEF StepBudgetExhausted
  <2>2. CASE DeadlineAtStep
    BY <2>2, FinishEnds DEF AInv, ATypeOK, DeadlineAtStep
  <2>3. CASE ModelFails
    <3>1. step - 1 \in 0..MaxSteps
      BY <2>3, LimitsAssumption DEF AInv, StepInv, ModelFails
    <3> QED
      BY <2>3, <3>1, FinishEnds DEF ModelFails
  <2> QED
    BY <2>1, <2>2, <2>3
<1>2. UNCHANGED <<contextVars, decisionVars, workVars, verifyVars, expired>>
  BY DEF StepBudgetExhausted, DeadlineAtStep, ModelFails
<1>3. DataOK'
  BY <1>2, AInvTypes DEF DataOK, contextVars, decisionVars, workVars, verifyVars
<1> QED
  BY <1>1, <1>3, EndingKeepsAInv

\* The head of a step.
LEMMA BeginStepKeepsAInv ==
  ASSUME AInv, BeginStep
  PROVE  AInv'
<1>1. /\ events' \in Seq(EventRecord)
      /\ compactions' \in 0..MaxCompactions
      /\ recorded' \in Nat
  <2>1. CASE MayCompact /\ Compact
    BY <2>1, CompactKeepsEvents DEF AInv, ATypeOK, StepInv
  <2>2. CASE UNCHANGED contextVars
    BY <2>2 DEF AInv, ATypeOK, StepInv, contextVars
  <2> QED
    BY <2>1, <2>2 DEF BeginStep
<1>2. ATypeOK'
  BY <1>1, LimitsAssumption DEF AInv, ATypeOK, BeginStep, Running, decisionVars, workVars,
                                verifyVars
<1>3. StepInv'
  BY <1>1, LimitsAssumption DEF AInv, ATypeOK, StepInv, BeginStep, workVars
<1>4. CountInv' /\ FailureInv' /\ VisitInv' /\ SuccessIsVerified' /\ (Running => result = NULL)'
  BY DEF AInv, CountInv, FailureInv, VisitInv, SuccessIsVerified, BeginStep, Running,
         decisionVars, workVars, verifyVars
<1> QED
  BY <1>2, <1>3, <1>4 DEF AInv

\* A protocol error costs one of the budget.
LEMMA ProtocolErrorKeepsAInv ==
  ASSUME AInv, ProtocolError
  PROVE  AInv'
<1>1. events' \in Seq(EventRecord) /\ recorded' \in Nat /\ compactions' = compactions
  <2>1. PICK k \in EventKind : k = "protocol_error"
    BY DEF EventKind
  <2>2. Append1(k, NULL)
    BY <2>1 DEF ProtocolError
  <2> QED
    BY <2>2, AppendKeepsEvents DEF AInv, ATypeOK, StepInv
<1>2. \/ Ending
      \/ GoOn("step") /\ protocol_errors' <= MaxProtocolErrors
  <2>1. CASE protocol_errors + 1 > MaxProtocolErrors
    BY <2>1, FinishEnds DEF AInv, ATypeOK, ProtocolError
  <2>2. CASE ~ (protocol_errors + 1 > MaxProtocolErrors)
    BY <2>2, LimitsAssumption DEF AInv, ATypeOK, ProtocolError
  <2> QED
    BY <2>1, <2>2
<1>3. ATypeOK'
  <2>1. protocol_errors' \in Nat
    BY DEF AInv, ATypeOK, ProtocolError
  <2>2. UNCHANGED <<repeated_fingerprint, workVars, verifyVars, expired>> /\ pc = "model"
    BY DEF ProtocolError
  <2> QED
    BY <1>1, <1>2, <2>1, <2>2 DEF AInv, ATypeOK, StepInv, Ending, GoOn, Running, workVars,
                                  verifyVars
<1>4. StepInv' /\ CountInv' /\ FailureInv' /\ VisitInv' /\ SuccessIsVerified'
      /\ (Running => result = NULL)'
  BY <1>1, <1>2 DEF AInv, StepInv, CountInv, FailureInv, VisitInv, SuccessIsVerified,
                    ProtocolError, Ending, GoOn, Running, workVars, verifyVars
<1> QED
  BY <1>3, <1>4 DEF AInv

\* A decision is carried out, or ends the run as stagnant.
LEMMA DecideKeepsAInv ==
  ASSUME AInv, NEW f \in Calls \cup {"finish"}, Decide(f)
  PROVE  AInv'
<1>1. PICK n \in Nat : repeated_fingerprint' = n
      /\ \/ Ending
         \/ n < StagnationLimit /\ pc' \in {"finish", "tool"} /\ UNCHANGED <<step, before, result>>
  <2>1. PICK n : n = (IF f = last_fingerprint THEN repeated_fingerprint + 1 ELSE 1)
    OBVIOUS
  <2>2. n \in Nat
    BY <2>1 DEF AInv, ATypeOK
  <2>3. repeated_fingerprint' = n
    BY <2>1 DEF Decide
  <2>4. CASE StagnantAt(n)
    <3>1. Finish(FALSE, step)
      BY <2>1, <2>4 DEF Decide
    <3> QED
      BY <2>2, <2>3, <3>1, FinishEnds DEF AInv, ATypeOK
  <2>5. CASE ~ StagnantAt(n)
    <3>1. pc' \in {"finish", "tool"} /\ UNCHANGED <<step, before, result>>
      BY <2>1, <2>5 DEF Decide, GoOn
    <3> QED
      BY <2>2, <2>3, <2>5, <3>1, LimitsAssumption DEF StagnantAt
  <2> QED
    BY <2>4, <2>5
<1>2. UNCHANGED <<protocol_errors, contextVars, workVars, verifyVars, expired>> /\ pc = "model"
  BY DEF Decide
<1>3. DataOK'
  BY <1>1, <1>2, AInvTypes DEF DataOK, contextVars, workVars, verifyVars
<1>4. CASE Ending
  BY <1>3, <1>4, EndingKeepsAInv
<1>5. CASE /\ repeated_fingerprint' < StagnationLimit
           /\ pc' \in {"finish", "tool"}
           /\ UNCHANGED <<step, before, result>>
  <2>1. ATypeOK'
    BY <1>2, <1>3, <1>5 DEF AInv, ATypeOK, DataOK, Running, workVars
  <2>2. StepInv' /\ CountInv' /\ FailureInv' /\ VisitInv' /\ SuccessIsVerified'
        /\ (Running => result = NULL)'
    BY <1>2, <1>3, <1>5 DEF AInv, DataOK, StepInv, CountInv, FailureInv, VisitInv,
                            SuccessIsVerified, Running, workVars, verifyVars
  <2> QED
    BY <2>1, <2>2 DEF AInv
<1> QED
  BY <1>1, <1>4, <1>5

\* A tool that leaves the workspace alone.
LEMMA ToolKeepsKeepsAInv ==
  ASSUME AInv, NEW kind \in {"tool", "tool_error"}, ToolKeeps(kind)
  PROVE  AInv'
<1>1. kind \in EventKind
  BY DEF EventKind
<1>2. Append1(kind, NULL)
  BY DEF ToolKeeps
<1>3. events' \in Seq(EventRecord) /\ recorded' \in Nat /\ compactions' = compactions
  BY <1>1, <1>2, AppendKeepsEvents DEF AInv, ATypeOK, StepInv
<1>4. /\ pc = "tool" /\ pc' = "step"
      /\ UNCHANGED <<step, before, result, decisionVars, workVars, verifyVars, expired>>
  BY DEF ToolKeeps, GoOn
<1>5. ATypeOK'
  BY <1>3, <1>4 DEF AInv, ATypeOK, Running, decisionVars, workVars, verifyVars
<1>6. StepInv' /\ CountInv' /\ FailureInv' /\ VisitInv' /\ SuccessIsVerified'
      /\ (Running => result = NULL)'
  BY <1>3, <1>4 DEF AInv, StepInv, CountInv, FailureInv, VisitInv, SuccessIsVerified, Running,
                    workVars, verifyVars
<1> QED
  BY <1>5, <1>6 DEF AInv

\* A tool that fails after it wrote ends the run.
LEMMA ToolFailsDirtyKeepsAInv ==
  ASSUME AInv, NEW h \in Hashes, ToolFailsDirty(h)
  PROVE  AInv'
<1>1. PICK kind \in EventKind : kind = "tool_error"
  BY DEF EventKind
<1>2. Append1(kind, NULL)
  BY <1>1 DEF ToolFailsDirty
<1>3. events' \in Seq(EventRecord) /\ recorded' \in Nat /\ compactions' = compactions
  BY <1>2, AppendKeepsEvents DEF AInv, ATypeOK, StepInv
<1>4. Ending
  BY FinishEnds DEF AInv, ATypeOK, ToolFailsDirty
<1>5. DataOK'
  <2>1. unverified' \in Nat
    BY AInvTypes DEF ToolFailsDirty, DataOK
  <2> QED
    BY <1>3, <2>1, AInvTypes DEF ToolFailsDirty, DataOK, decisionVars, verifyVars
<1> QED
  BY <1>4, <1>5, EndingKeepsAInv

\* A tool that changes the workspace.
LEMMA ToolMutatesKeepsAInv ==
  ASSUME AInv, NEW h \in Hashes, ToolMutates(h)
  PROVE  AInv'
<1>1. PICK kind \in EventKind : kind = "tool"
  BY DEF EventKind
<1>2. Append1(kind, NULL)
  BY <1>1 DEF ToolMutates
<1>3. events' \in Seq(EventRecord) /\ recorded' \in Nat /\ compactions' = compactions
  BY <1>2, AppendKeepsEvents DEF AInv, ATypeOK, StepInv
<1> DEFINE seen == Key(h, criterion_status) \in state_visits
<1>5. PICK streak : streak = IF seen THEN cycle_streak + 1 ELSE 0
  OBVIOUS
<1>6. PICK n : n = mutations_since_verify + 1
  OBVIOUS
<1>7. streak \in Nat /\ n \in Nat
  BY <1>5, <1>6 DEF AInv, ATypeOK
<1>8. /\ pc = "tool" /\ workspace' = h
      /\ unverified' = unverified + 1 /\ mutations_since_verify' = n
      /\ cycle_streak' = streak
      /\ state_visits' = Remember(h, criterion_status)
      /\ UNCHANGED <<decisionVars, verifyVars, expired>>
  BY <1>5, <1>6 DEF ToolMutates
<1>9. \/ seen /\ StagnantAt(streak) /\ Finish(FALSE, step)
      \/ /\ ~ (seen /\ StagnantAt(streak))
         /\ pc' = IF VerifyDue(n) THEN "verify" ELSE "step"
         /\ UNCHANGED <<step, before, result>>
  BY <1>5, <1>6 DEF ToolMutates, GoOn
<1>10. unverified' \in Nat
  BY <1>8 DEF AInv, ATypeOK
<1>11. DataOK'
  BY <1>3, <1>7, <1>8, <1>10, AInvTypes DEF DataOK, decisionVars, verifyVars
<1>12. CASE Finish(FALSE, step)
  <2>1. Ending
    BY <1>12, FinishEnds DEF AInv, ATypeOK
  <2> QED
    BY <2>1, <1>11, EndingKeepsAInv
<1>13. CASE /\ ~ (seen /\ StagnantAt(streak))
            /\ pc' = IF VerifyDue(n) THEN "verify" ELSE "step"
            /\ UNCHANGED <<step, before, result>>
  <2>1. streak < StagnationLimit
    BY <1>5, <1>7, <1>13, LimitsAssumption DEF StagnantAt
  <2>2. pc' \in {"verify", "step"} /\ (pc' = "step" => n < VerifyInterval)
    BY <1>7, <1>13, LimitsAssumption DEF VerifyDue
  <2>3. ATypeOK'
    BY <1>8, <1>11, <1>13, <2>1, <2>2 DEF AInv, ATypeOK, DataOK, Running, decisionVars
  <2>4. StepInv'
    BY <1>3, <1>8, <1>13, <2>2 DEF AInv, StepInv
  <2>5. CountInv'
    BY <1>6, <1>8, <2>2 DEF AInv, CountInv, Running
  <2>6. FailureInv'
    BY <1>8, <2>2 DEF AInv, FailureInv, Running, verifyVars
  <2>7. VisitInv'
    BY <1>8 DEF VisitInv, Remember, verifyVars
  <2>8. SuccessIsVerified' /\ (Running => result = NULL)'
    BY <1>8, <1>13 DEF AInv, SuccessIsVerified, Running
  <2> QED
    BY <2>3, <2>4, <2>5, <2>6, <2>7, <2>8 DEF AInv
<1> QED
  BY <1>9, <1>12, <1>13

\* finish is refused on the state that failed last.
LEMMA RejectFinishKeepsAInv ==
  ASSUME AInv, RejectFinish
  PROVE  AInv'
<1>1. PICK kind \in EventKind : kind = "verification_rejected"
  BY DEF EventKind
<1>2. Append1(kind, NULL)
  BY <1>1 DEF RejectFinish
<1>3. events' \in Seq(EventRecord) /\ recorded' \in Nat /\ compactions' = compactions
  BY <1>2, AppendKeepsEvents DEF AInv, ATypeOK, StepInv
<1>4. /\ pc = "finish" /\ pc' = "step"
      /\ UNCHANGED <<step, before, result, decisionVars, workVars, verifyVars, expired>>
  BY DEF RejectFinish, GoOn
<1>5. ATypeOK'
  BY <1>3, <1>4 DEF AInv, ATypeOK, Running, decisionVars, workVars, verifyVars
<1>6. StepInv' /\ CountInv' /\ FailureInv' /\ VisitInv' /\ SuccessIsVerified'
      /\ (Running => result = NULL)'
  BY <1>3, <1>4 DEF AInv, StepInv, CountInv, FailureInv, VisitInv, SuccessIsVerified, Running,
                    workVars, verifyVars
<1> QED
  BY <1>5, <1>6 DEF AInv

\* What every verification leaves behind.
LEMMA VerifiedFacts ==
  ASSUME AInv, NEW r \in Receipt, Verified(r)
  PROVE  /\ workspace' \in Hashes
         /\ r.unchanged => workspace' = workspace
         /\ criterion_status' \in [Criteria -> {"not_run", "passed", "failed"}]
         /\ Passes(r) => \A c \in Criteria : criterion_status'[c] = "passed"
         /\ verdict' \in Verdict
         /\ verdict'.state = workspace' /\ verdict'.passed = Passes(r)
         /\ Passes(r) => verdict' = [state |-> workspace', passed |-> TRUE, failed |-> {}]
         /\ unverified' = 0
         /\ events' \in Seq(EventRecord) /\ recorded' \in Nat /\ compactions' = compactions
         /\ UNCHANGED <<decisionVars, cycle_streak, expired>>
<1>1. workspace' \in Hashes /\ (r.unchanged => workspace' = workspace)
  BY DEF AInv, ATypeOK, Verified
<1>2. PICK v : v = [state |-> workspace', passed |-> Passes(r), failed |-> FailedCriteria(r)]
  OBVIOUS
<1>3. v \in Verdict /\ (Passes(r) => FailedCriteria(r) = {})
  BY <1>1, <1>2, VerdictOfReceipt
<1>4. PICK kind \in EventKind : kind = "verification"
  BY DEF EventKind
<1>5. verdict' = v /\ Append1(kind, v) /\ unverified' = 0
  BY <1>2, <1>4 DEF Verified
<1>6. events' \in Seq(EventRecord) /\ recorded' \in Nat /\ compactions' = compactions
  BY <1>3, <1>5, AppendKeepsEvents DEF AInv, ATypeOK, StepInv
<1>7. criterion_status' = CriterionStatus(r) /\ UNCHANGED <<decisionVars, cycle_streak, expired>>
  BY DEF Verified
<1>8. /\ criterion_status' \in [Criteria -> {"not_run", "passed", "failed"}]
      /\ Passes(r) => \A c \in Criteria : criterion_status'[c] = "passed"
  BY <1>7, StatusOfReceipt
<1>9. verdict'.state = workspace' /\ verdict'.passed = Passes(r)
  BY <1>2, <1>5
<1>10. Passes(r) => verdict' = [state |-> workspace', passed |-> TRUE, failed |-> {}]
  BY <1>2, <1>3, <1>5 DEF Passes
<1> QED
  BY <1>1, <1>3, <1>5, <1>6, <1>7, <1>8, <1>9, <1>10

\* The types after a verification, whatever becomes of the run.
LEMMA VerifiedTypes ==
  ASSUME AInv, NEW r \in Receipt, Verified(r),
         mutations_since_verify' \in Nat, last_failed' \in Hashes \cup {NULL}
  PROVE  DataOK'
<1>1. /\ workspace' \in Hashes
      /\ criterion_status' \in [Criteria -> {"not_run", "passed", "failed"}]
      /\ verdict' \in Verdict \cup {NULL}
      /\ unverified' = 0
      /\ events' \in Seq(EventRecord) /\ recorded' \in Nat /\ compactions' = compactions
      /\ UNCHANGED <<decisionVars, cycle_streak, expired>>
  BY VerifiedFacts
<1> QED
  BY <1>1, AInvTypes DEF DataOK, decisionVars

\* A verification on an unchanged workspace after which the run goes on: the
\* counter restarts, and a failure is remembered with its state.
LEMMA GoingOnKeepsAInv ==
  ASSUME AInv, NEW r \in Receipt, Verified(r), r.unchanged, Running, GoOn("step"),
         mutations_since_verify' = 0,
         state_visits' = Remember(workspace', criterion_status'),
         last_failed' \in Hashes \cup {NULL},
         ~ Passes(r) => last_failed' = workspace'
  PROVE  AInv'
<1>1. DataOK'
  BY VerifiedTypes
<1>2. /\ pc' = "step" /\ UNCHANGED <<step, before, result>>
  BY DEF GoOn
<1>3. /\ unverified' = 0
      /\ UNCHANGED <<decisionVars, cycle_streak>>
      /\ verdict'.state = workspace' /\ verdict'.passed = Passes(r)
  BY VerifiedFacts
<1>4. ATypeOK'
  BY <1>1, <1>2, <1>3 DEF AInv, ATypeOK, DataOK, Running, decisionVars
<1>5. StepInv'
  BY <1>1, <1>2 DEF StepInv, DataOK
<1>6. CountInv'
  BY <1>2, <1>3, LimitsAssumption DEF CountInv
<1>7. FailureInv'
  BY <1>2, <1>3 DEF FailureInv
<1>8. VisitInv'
  BY DEF VisitInv, Remember
<1>9. SuccessIsVerified' /\ (Running => result = NULL)'
  BY <1>2 DEF AInv, SuccessIsVerified
<1> QED
  BY <1>4, <1>5, <1>6, <1>7, <1>8, <1>9 DEF AInv

\* The verification that a number of mutations triggers.
LEMMA IntermediateVerifyKeepsAInv ==
  ASSUME AInv, NEW r \in Receipt, IntermediateVerify(r)
  PROVE  AInv'
<1>1. /\ Verified(r) /\ Running /\ pc = "verify"
      /\ mutations_since_verify' = 0
      /\ state_visits' = Remember(workspace, criterion_status')
  BY DEF IntermediateVerify, Running
<1>2. CASE Finish(FALSE, step) /\ UNCHANGED last_failed
  <2>1. Ending
    BY <1>2, FinishEnds DEF AInv, ATypeOK
  <2>2. last_failed' \in Hashes \cup {NULL}
    BY <1>2 DEF AInv, ATypeOK
  <2>3. DataOK'
    BY <1>1, <2>2, VerifiedTypes
  <2> QED
    BY <2>1, <2>3, EndingKeepsAInv
<1>3. CASE r.unchanged /\ GoOn("step") /\ last_failed' = LastFailed(r, workspace)
  <2>1. workspace' = workspace /\ workspace' \in Hashes
    BY <1>1, <1>3, VerifiedFacts
  <2>2. last_failed' \in Hashes \cup {NULL} /\ (~ Passes(r) => last_failed' = workspace')
    BY <1>3, <2>1 DEF LastFailed
  <2> QED
    BY <1>1, <1>3, <2>1, <2>2, GoingOnKeepsAInv
<1> QED
  BY <1>2, <1>3 DEF IntermediateVerify

\* The verification that a finish decision asks for.
LEMMA FinalVerifyKeepsAInv ==
  ASSUME AInv, NEW r \in Receipt, FinalVerify(r)
  PROVE  AInv'
<1>1. /\ Verified(r) /\ Running /\ pc = "finish"
      /\ state_visits' = Remember(workspace', criterion_status')
  BY DEF FinalVerify, Running
<1>2. ASSUME UNCHANGED <<last_failed, mutations_since_verify>>
      PROVE  DataOK'
  <2>1. last_failed' \in Hashes \cup {NULL} /\ mutations_since_verify' \in Nat
    BY <1>2 DEF AInv, ATypeOK
  <2> QED
    BY <1>1, <2>1, VerifiedTypes
<1>3. CASE Finish(FALSE, step) /\ UNCHANGED <<last_failed, mutations_since_verify>>
  <2>1. Ending
    BY <1>3, FinishEnds DEF AInv, ATypeOK
  <2> QED
    BY <1>2, <1>3, <2>1, EndingKeepsAInv
<1>4. CASE /\ Passes(r) /\ Finish(TRUE, step)
           /\ UNCHANGED <<last_failed, mutations_since_verify>>
  <2>1. DataOK'
    BY <1>2, <1>4
  <2>2. /\ pc' = "done" /\ UNCHANGED <<step, before>>
        /\ result' = [success |-> TRUE, steps |-> step, state |-> workspace']
    BY <1>4 DEF Finish
  <2>3. /\ result' \in [success : BOOLEAN, steps : 0..MaxSteps, state : Hashes]
        /\ result'.state = workspace'
    BY <2>1, <2>2 DEF AInv, ATypeOK, DataOK
  <2>4. ATypeOK'
    BY <2>1, <2>2, <2>3 DEF AInv, ATypeOK, DataOK, Running
  <2>5. SuccessIsVerified'
    <3>1. /\ unverified' = 0
          /\ \A c \in Criteria : criterion_status'[c] = "passed"
          /\ verdict' = [state |-> workspace', passed |-> TRUE, failed |-> {}]
      BY <1>1, <1>4, VerifiedFacts
    <3> QED
      BY <2>3, <3>1 DEF SuccessIsVerified
  <2>6. StepInv' /\ CountInv' /\ FailureInv' /\ VisitInv' /\ (Running => result = NULL)'
    BY <2>1, <2>2 DEF DataOK, StepInv, CountInv, FailureInv, VisitInv, Running
  <2> QED
    BY <2>4, <2>5, <2>6 DEF AInv
<1>5. CASE /\ r.unchanged /\ ~ Passes(r) /\ GoOn("step")
           /\ last_failed' = workspace' /\ mutations_since_verify' = 0
  <2>1. workspace' \in Hashes
    BY <1>1, VerifiedFacts
  <2> QED
    BY <1>1, <1>5, <2>1, GoingOnKeepsAInv
<1> QED
  BY <1>3, <1>4, <1>5 DEF FinalVerify

\* An exception, the passing of the deadline, and a run that has ended.
LEMMA RestKeepsAInv ==
  ASSUME AInv, Raise \/ Expire \/ UNCHANGED avars
  PROVE  AInv'
<1>1. CASE Raise
  <2>1. /\ pc' = "raised" /\ pc # "done"
        /\ UNCHANGED <<step, before, result, contextVars, decisionVars, workVars, verifyVars,
                       expired>>
    BY <1>1 DEF Raise
  <2>2. ATypeOK'
    BY <2>1 DEF AInv, ATypeOK, Running, contextVars, decisionVars, workVars, verifyVars
  <2>3. StepInv' /\ CountInv' /\ FailureInv' /\ VisitInv' /\ SuccessIsVerified'
        /\ (Running => result = NULL)'
    BY <2>1 DEF AInv, StepInv, CountInv, FailureInv, VisitInv, SuccessIsVerified, Running,
                contextVars, workVars, verifyVars
  <2> QED
    BY <2>2, <2>3 DEF AInv
<1>2. CASE Expire
  <2>1. /\ expired' = TRUE
        /\ UNCHANGED <<pc, step, before, result, contextVars, decisionVars, workVars, verifyVars>>
    BY <1>2 DEF Expire, loopVars
  <2>2. ATypeOK'
    BY <2>1 DEF AInv, ATypeOK, Running, contextVars, decisionVars, workVars, verifyVars
  <2>3. StepInv' /\ CountInv' /\ FailureInv' /\ VisitInv' /\ SuccessIsVerified'
        /\ (Running => result = NULL)'
    BY <2>1 DEF AInv, StepInv, CountInv, FailureInv, VisitInv, SuccessIsVerified, Running,
                contextVars, workVars, verifyVars
  <2> QED
    BY <2>2, <2>3 DEF AInv
<1>3. CASE UNCHANGED avars
  BY <1>3 DEF avars, AInv, ATypeOK, StepInv, CountInv, FailureInv, VisitInv, SuccessIsVerified,
              Running
<1> QED
  BY <1>1, <1>2, <1>3

\* Every step of a run keeps the invariant.
LEMMA StepKeepsAInv ==
  ASSUME AInv, [ANext]_avars
  PROVE  AInv'
<1>1. CASE StepBudgetExhausted \/ DeadlineAtStep \/ ModelFails
  BY <1>1, EndKeepsAInv
<1>2. CASE BeginStep
  BY <1>2, BeginStepKeepsAInv
<1>3. CASE ProtocolError
  BY <1>3, ProtocolErrorKeepsAInv
<1>4. CASE \E f \in Calls \cup {"finish"} : Decide(f)
  BY <1>4, DecideKeepsAInv
<1>5. CASE \E kind \in {"tool", "tool_error"} : ToolKeeps(kind)
  BY <1>5, ToolKeepsKeepsAInv
<1>6. CASE \E h \in Hashes : ToolFailsDirty(h)
  BY <1>6, ToolFailsDirtyKeepsAInv
<1>7. CASE \E h \in Hashes : ToolMutates(h)
  BY <1>7, ToolMutatesKeepsAInv
<1>8. CASE RejectFinish
  BY <1>8, RejectFinishKeepsAInv
<1>9. CASE \E r \in Receipt : IntermediateVerify(r)
  BY <1>9, IntermediateVerifyKeepsAInv
<1>10. CASE \E r \in Receipt : FinalVerify(r)
  BY <1>10, FinalVerifyKeepsAInv
<1>11. CASE Raise \/ Expire \/ UNCHANGED avars
  BY <1>11, RestKeepsAInv
<1> QED
  BY <1>1, <1>2, <1>3, <1>4, <1>5, <1>6, <1>7, <1>8, <1>9, <1>10, <1>11 DEF ANext, Loop, Ended

\* A step that verifies at a finish decision has something to verify: the state
\* that failed last is last_failed_verification_state, which finish is refused on.
LEMMA StepVerifiesNews ==
  ASSUME AInv, [ANext]_avars
  PROVE  VerifiesNews
<1> SUFFICES ASSUME pc = "finish", events' # events, IsVerification(events'[Len(events')]),
                    verdict # NULL
             PROVE  verdict.passed \/ verdict.state # workspace
  BY DEF VerifiesNews
<1>1. RejectFinish \/ \E r \in Receipt : FinalVerify(r)
  <2>1. ~ UNCHANGED events
    OBVIOUS
  <2> QED
    BY <2>1 DEF ANext, Loop, Ended, avars, contextVars, StepBudgetExhausted, DeadlineAtStep,
                BeginStep, ModelFails, ProtocolError, Decide, ToolKeeps, ToolFailsDirty,
                ToolMutates, IntermediateVerify, Raise, Expire
<1>2. ~ RejectFinish
  <2> SUFFICES ASSUME RejectFinish PROVE FALSE
    OBVIOUS
  <2>1. PICK kind \in EventKind : kind = "verification_rejected"
    BY DEF EventKind
  <2>2. Append1(kind, NULL)
    BY <2>1 DEF RejectFinish
  <2>3. events'[Len(events')] = Event(kind, NULL)
    BY <2>2, AppendKeepsEvents DEF AInv, ATypeOK, StepInv
  <2> QED
    BY <2>1, <2>3 DEF IsVerification, Event
<1>3. last_failed # before /\ before = workspace
  BY <1>1, <1>2 DEF FinalVerify, AInv, StepInv
<1> QED
  BY <1>3 DEF AInv, FailureInv, Running

-----------------------------------------------------------------------------
(* The context: what compaction keeps. *)

\* A bounded set of numbers has a greatest one.
LEMMA Greatest ==
  ASSUME NEW N \in Nat, NEW S, S \subseteq 1..N, S # {}
  PROVE  \E x \in S : \A y \in S : y <= x
<1> DEFINE T == {N - i : i \in S}
<1>1. T \subseteq Nat /\ T # {}
  <2>1. \A i \in S : N - i \in Nat
    OBVIOUS
  <2> QED BY <2>1
<1>2. PICK R : R = OpToRel(<, Nat)
  OBVIOUS
<1>3. IsWellFoundedOn(R, Nat)
  BY <1>2, NatLessThanWellFounded
<1>4. PICK x \in T : \A y \in T : ~ (<<y, x>> \in R)
  <2> HIDE DEF T
  <2> QED BY <1>1, <1>3, WFMin
<1>5. \A y \in T : ~ (y < x)
  BY <1>1, <1>2, <1>4 DEF OpToRel
<1>6. PICK i \in S : x = N - i
  BY <1>4
<1>7. ASSUME NEW j \in S PROVE j <= i
  <2>1. N - j \in T
    OBVIOUS
  <2>2. ~ (N - j < N - i)
    BY <1>5, <1>6, <2>1
  <2>3. i \in 1..N /\ j \in 1..N
    OBVIOUS
  <2> HIDE DEF T
  <2> QED BY <2>2, <2>3
<1> QED BY <1>7

IsLastIn(es, i) ==
  /\ i \in DOMAIN es /\ IsVerification(es[i])
  /\ \A j \in DOMAIN es : IsVerification(es[j]) => j <= i

LEMMA LatestNone ==
  ASSUME NEW es, NEW c, \A i \in DOMAIN es : ~ IsVerification(es[i])
  PROVE  Latest(es, c) = c
<1>1. {i \in DOMAIN es : IsVerification(es[i])} = {}
  OBVIOUS
<1> QED BY <1>1 DEF Latest

LEMMA LatestAt ==
  ASSUME NEW es \in Seq(EventRecord), NEW c, NEW i, IsLastIn(es, i)
  PROVE  Latest(es, c) = es[i].verdict
<1>1. PICK vs : vs = {k \in DOMAIN es : IsVerification(es[k])}
  OBVIOUS
<1>2. i \in vs /\ \A j \in vs : j <= i
  BY <1>1 DEF IsLastIn
<1>3. vs \subseteq Nat
  BY <1>1
<1>4. \A k \in vs : (\A j \in vs : j <= k) => k = i
  BY <1>2, <1>3
<1>5. (CHOOSE k \in vs : \A j \in vs : j <= k) = i
  BY <1>2, <1>4
<1>6. Latest(es, c) = IF vs = {} THEN c ELSE es[CHOOSE k \in vs : \A j \in vs : j <= k].verdict
  BY <1>1 DEF Latest
<1> QED BY <1>2, <1>5, <1>6

LEMMA LastExists ==
  ASSUME NEW es \in Seq(EventRecord), ~ \A i \in DOMAIN es : ~ IsVerification(es[i])
  PROVE  \E i : IsLastIn(es, i)
<1>1. PICK vs : vs = {k \in DOMAIN es : IsVerification(es[k])}
  OBVIOUS
<1>2. PICK N \in Nat : DOMAIN es = 1..N
  OBVIOUS
<1>3. PICK i \in vs : \A j \in vs : j <= i
  BY <1>1, <1>2, Greatest
<1> QED BY <1>1, <1>3 DEF IsLastIn

\* The latest verification, after one more event.
LEMMA LatestOfAppend ==
  ASSUME NEW es \in Seq(EventRecord), NEW c, NEW e \in EventRecord
  PROVE  Latest(Append(es, e), c) = IF IsVerification(e) THEN e.verdict ELSE Latest(es, c)
<1>1. PICK fs : fs = Append(es, e)
  OBVIOUS
<1>2. /\ fs \in Seq(EventRecord) /\ Len(fs) = Len(es) + 1 /\ Len(es) \in Nat
      /\ \A i \in 1..Len(es) : fs[i] = es[i]
      /\ fs[Len(es) + 1] = e
  BY <1>1, AppendProperties
<1>3. DOMAIN es = 1..Len(es) /\ DOMAIN fs = 1..(Len(es) + 1)
  BY <1>2
<1>4. CASE IsVerification(e)
  <2>1. IsLastIn(fs, Len(es) + 1)
    BY <1>2, <1>3, <1>4 DEF IsLastIn
  <2>2. Latest(fs, c) = fs[Len(es) + 1].verdict
    BY <1>2, <2>1, LatestAt
  <2> QED BY <1>1, <1>2, <1>4, <2>2
<1>5. CASE ~ IsVerification(e)
  <2>1. CASE \A i \in DOMAIN es : ~ IsVerification(es[i])
    <3>1. \A i \in DOMAIN fs : ~ IsVerification(fs[i])
      BY <1>2, <1>3, <1>5, <2>1
    <3> QED BY <1>1, <1>5, <2>1, <3>1, LatestNone
  <2>2. CASE ~ \A i \in DOMAIN es : ~ IsVerification(es[i])
    <3>1. PICK i : IsLastIn(es, i)
      BY <2>2, LastExists
    <3>2. IsLastIn(fs, i) /\ fs[i] = es[i]
      BY <1>2, <1>3, <1>5, <3>1 DEF IsLastIn
    <3>3. Latest(fs, c) = fs[i].verdict /\ Latest(es, c) = es[i].verdict
      BY <1>2, <3>1, <3>2, LatestAt
    <3> QED BY <1>1, <1>5, <3>2, <3>3
  <2> QED BY <2>1, <2>2
<1> QED BY <1>4, <1>5

\* The latest verification, after the first n events went into the summary.
LEMMA LatestOfSplit ==
  ASSUME NEW es \in Seq(EventRecord), NEW c, NEW n \in 0..Len(es)
  PROVE  Latest(SubSeq(es, n + 1, Len(es)), Latest(SubSeq(es, 1, n), c)) = Latest(es, c)
<1>0. PICK cut, kept : cut = SubSeq(es, 1, n) /\ kept = SubSeq(es, n + 1, Len(es))
  OBVIOUS
<1> SUFFICES Latest(kept, Latest(cut, c)) = Latest(es, c)
  BY <1>0
<1>1. PICK N \in Nat : N = Len(es) /\ DOMAIN es = 1..N
  OBVIOUS
<1>2. n \in 0..N /\ n \in Nat
  BY <1>1
<1>3. /\ cut \in Seq(EventRecord) /\ Len(cut) = n /\ DOMAIN cut = 1..n
      /\ \A i \in 1..n : cut[i] = es[i]
  <2>1. \A i \in 1..n : es[i] \in EventRecord
    BY <1>1, <1>2
  <2> QED BY <1>0, <1>1, <1>2, <2>1, SubSeqProperties
<1>4. /\ kept \in Seq(EventRecord) /\ Len(kept) = N - n /\ DOMAIN kept = 1..(N - n)
      /\ \A i \in 1..(N - n) : kept[i] = es[n + i]
  <2>1. \A i \in (n + 1)..N : es[i] \in EventRecord
    BY <1>1, <1>2
  <2> QED BY <1>0, <1>1, <1>2, <2>1, SubSeqProperties
<1>5. ASSUME NEW i \in DOMAIN es PROVE i \in DOMAIN cut \/ (i - n \in DOMAIN kept /\ n + (i - n) = i)
  <2>1. i \in 1..N
    BY <1>1
  <2>2. i \in 1..n \/ (i - n \in 1..(N - n) /\ n + (i - n) = i)
    BY <1>2, <2>1
  <2>3. DOMAIN cut = 1..n /\ DOMAIN kept = 1..(N - n)
    BY <1>3, <1>4
  <2> QED BY <2>2, <2>3
<1>6. CASE ~ \A i \in DOMAIN kept : ~ IsVerification(kept[i])
  <2>1. PICK i : IsLastIn(kept, i)
    BY <1>4, <1>6, LastExists
  <2>2. i \in 1..(N - n) /\ kept[i] = es[n + i] /\ n + i \in DOMAIN es
    BY <1>1, <1>2, <1>4, <2>1 DEF IsLastIn
  <2>3. ASSUME NEW j \in DOMAIN es, IsVerification(es[j]) PROVE j <= n + i
    <3>1. CASE j \in DOMAIN cut
      BY <1>2, <1>3, <2>2, <3>1
    <3>2. CASE j - n \in DOMAIN kept /\ n + (j - n) = j
      <4>1. kept[j - n] = es[j]
        BY <1>4, <3>2
      <4>2. j - n <= i
        BY <2>1, <2>3, <3>2, <4>1 DEF IsLastIn
      <4> QED BY <1>1, <1>2, <2>2, <4>2
    <3> QED BY <1>5, <3>1, <3>2
  <2>4. IsLastIn(es, n + i)
    BY <2>1, <2>2, <2>3 DEF IsLastIn
  <2>5. PICK d : d = Latest(cut, c)
    OBVIOUS
  <2>6. Latest(kept, d) = kept[i].verdict
    BY <1>4, <2>1, LatestAt
  <2>7. Latest(es, c) = es[n + i].verdict
    BY <2>4, LatestAt
  <2> QED BY <2>2, <2>5, <2>6, <2>7
<1>7. CASE \A i \in DOMAIN kept : ~ IsVerification(kept[i])
  <2>1. Latest(kept, Latest(cut, c)) = Latest(cut, c)
    BY <1>7, LatestNone
  <2>2. ASSUME NEW j \in DOMAIN es, IsVerification(es[j]) PROVE j \in DOMAIN cut
    <3>1. CASE j - n \in DOMAIN kept /\ n + (j - n) = j
      <4>1. kept[j - n] = es[j]
        BY <1>4, <3>1
      <4> QED BY <1>7, <2>2, <3>1, <4>1
    <3> QED BY <1>5, <3>1
  <2>3. CASE \A i \in DOMAIN cut : ~ IsVerification(cut[i])
    <3>1. \A i \in DOMAIN es : ~ IsVerification(es[i])
      BY <1>3, <2>2, <2>3
    <3> QED BY <2>1, <2>3, <3>1, LatestNone
  <2>4. CASE ~ \A i \in DOMAIN cut : ~ IsVerification(cut[i])
    <3>1. PICK i : IsLastIn(cut, i)
      BY <1>3, <2>4, LastExists
    <3>2. i \in DOMAIN es /\ cut[i] = es[i]
      BY <1>1, <1>2, <1>3, <3>1 DEF IsLastIn
    <3>3. ASSUME NEW j \in DOMAIN es, IsVerification(es[j]) PROVE j <= i
      <4>1. j \in DOMAIN cut /\ cut[j] = es[j]
        BY <1>3, <2>2, <3>3
      <4> QED BY <3>1, <3>3, <4>1 DEF IsLastIn
    <3>4. IsLastIn(es, i)
      BY <3>1, <3>2, <3>3 DEF IsLastIn
    <3>5. Latest(cut, c) = cut[i].verdict /\ Latest(es, c) = es[i].verdict
      BY <1>3, <3>1, <3>4, LatestAt
    <3> QED BY <2>1, <3>2, <3>5
  <2> QED BY <2>3, <2>4
<1> QED BY <1>6, <1>7

Summary == [count : Nat, latest : Verdict \cup {NULL}]

SummaryTyped == compact_summary \in Summary \cup {NULL}

Counted(s) == IF s = NULL THEN 0 ELSE s.count

ContextInv == AInv /\ SummaryTyped /\ ContextComplete

\* What the invariant says, in these terms.
LEMMA ContextMeans ==
  ContextComplete <=> /\ recorded = Len(events) + Counted(compact_summary)
                      /\ Latest(events, Carried(compact_summary)) = verdict
BY DEF ContextComplete, Counted, Carried

\* An event is appended.
LEMMA AppendKeepsContext ==
  ASSUME ContextInv, NEW kind \in EventKind, NEW v \in Verdict \cup {NULL}, Append1(kind, v),
         verdict' = IF kind = "verification" THEN v ELSE verdict
  PROVE  SummaryTyped' /\ ContextComplete'
<1>1. PICK e : e = Event(kind, v)
  OBVIOUS
<1>2. e \in EventRecord /\ (IsVerification(e) <=> kind = "verification") /\ e.verdict = v
  BY <1>1 DEF Event, EventRecord, IsVerification
<1>3. events \in Seq(EventRecord)
  BY DEF ContextInv, AInv, StepInv
<1>4. events' = Append(events, e) /\ recorded' = recorded + 1 /\ compact_summary' = compact_summary
  BY <1>1 DEF Append1
<1>5. PICK c, k : c = Carried(compact_summary) /\ k = Counted(compact_summary)
  OBVIOUS
<1>6. recorded = Len(events) + k /\ Latest(events, c) = verdict
  BY <1>5, ContextMeans DEF ContextInv
<1>7. k \in Nat
  BY <1>5 DEF ContextInv, SummaryTyped, Summary, Counted
<1>8. recorded' = Len(events') + k
  <2>1. Len(events') = Len(events) + 1 /\ Len(events) \in Nat
    BY <1>2, <1>3, <1>4, AppendProperties
  <2> QED BY <1>4, <1>6, <1>7, <2>1
<1>9. Latest(events', c) = verdict'
  BY <1>2, <1>3, <1>4, <1>6, LatestOfAppend
<1>10. Latest(events', Carried(compact_summary')) = verdict' /\ recorded' = Len(events') + Counted(compact_summary')
  BY <1>4, <1>5, <1>8, <1>9
<1>11. SummaryTyped'
  BY <1>4 DEF ContextInv, SummaryTyped
<1> QED BY <1>10, <1>11 DEF ContextComplete, Counted, Carried

\* The transcript is compacted.
LEMMA CompactKeepsContext ==
  ASSUME ContextInv, MayCompact, Compact, verdict' = verdict
  PROVE  SummaryTyped' /\ ContextComplete'
<1>1. PICK n, cut : n = Len(events) - KeepRecent /\ cut = SubSeq(events, 1, n)
  OBVIOUS
<1>2. PICK c, k : c = Carried(compact_summary) /\ k = Counted(compact_summary)
  OBVIOUS
<1>3. events \in Seq(EventRecord)
  BY DEF ContextInv, AInv, StepInv
<1>4. n \in 0..Len(events) /\ n \in Nat /\ Len(events) \in Nat
  BY <1>1, <1>3, LimitsAssumption DEF MayCompact
<1>5. recorded = Len(events) + k /\ Latest(events, c) = verdict /\ k \in Nat
  BY <1>2, ContextMeans DEF ContextInv, SummaryTyped, Summary, Counted
<1>6. PICK l : l = Latest(cut, c)
  OBVIOUS
<1>7. /\ events' = SubSeq(events, n + 1, Len(events)) /\ recorded' = recorded
      /\ compact_summary' = [count |-> n + k, latest |-> l]
  BY <1>1, <1>2, <1>6 DEF Compact, Counted
<1>8. l \in Verdict \cup {NULL}
  <2>1. c \in Verdict \cup {NULL}
    BY <1>2 DEF ContextInv, SummaryTyped, Summary, Carried
  <2>2. cut \in Seq(EventRecord)
    <3>1. \A i \in 1..n : events[i] \in EventRecord
      BY <1>3, <1>4
    <3> QED BY <1>1, <1>3, <1>4, <3>1, SubSeqProperties
  <2>3. CASE \A i \in DOMAIN cut : ~ IsVerification(cut[i])
    BY <1>6, <2>1, <2>3, LatestNone
  <2>4. CASE ~ \A i \in DOMAIN cut : ~ IsVerification(cut[i])
    <3>1. PICK i : IsLastIn(cut, i)
      BY <2>2, <2>4, LastExists
    <3>2. l = cut[i].verdict /\ i \in DOMAIN cut
      BY <1>6, <2>2, <3>1, LatestAt DEF IsLastIn
    <3>3. cut[i] \in EventRecord
      BY <2>2, <3>2
    <3> QED BY <3>2, <3>3 DEF EventRecord
  <2> QED BY <2>3, <2>4
<1>9. compact_summary' \in Summary /\ compact_summary' # NULL
  <2>1. compact_summary' \in Summary
    BY <1>4, <1>5, <1>7, <1>8 DEF Summary
  <2> QED BY <2>1, NullAssumption DEF Summary, Verdict
<1>10. Latest(events', l) = verdict'
  <2>1. Latest(SubSeq(events, n + 1, Len(events)), Latest(SubSeq(events, 1, n), c)) = Latest(events, c)
    BY <1>3, <1>4, LatestOfSplit
  <2> QED BY <1>1, <1>5, <1>6, <1>7, <2>1
<1>11. recorded' = Len(events') + (n + k)
  <2>1. Len(events') = Len(events) - n
    <3>1. \A i \in (n + 1)..Len(events) : events[i] \in EventRecord
      BY <1>3, <1>4
    <3> QED BY <1>3, <1>4, <1>7, <3>1, SubSeqProperties
  <2>2. PICK N, m : N = Len(events) /\ m = Len(events')
    OBVIOUS
  <2>3. recorded' = N + k /\ m = N - n /\ k \in Nat /\ n \in Nat /\ N \in Nat
    BY <1>4, <1>5, <1>7, <2>1, <2>2
  <2>4. N + k = m + (n + k)
    BY <2>3
  <2> QED BY <2>2, <2>3, <2>4
<1>12. compact_summary'.count = n + k /\ compact_summary'.latest = l
  BY <1>7
<1>13. ContextComplete'
  BY <1>9, <1>10, <1>11, <1>12 DEF ContextComplete
<1> QED BY <1>9, <1>13 DEF SummaryTyped

\* The loop appends an event, compacts, or leaves the context alone.
LEMMA StepKeepsContext == ASSUME ContextInv, [ANext]_avars PROVE SummaryTyped' /\ ContextComplete'
<1>1. AInv
  BY DEF ContextInv
<1>2. ASSUME UNCHANGED <<contextVars, verdict>> PROVE SummaryTyped' /\ ContextComplete'
  <2>1. UNCHANGED <<events, compact_summary, recorded, verdict>>
    BY <1>2 DEF contextVars
  <2> QED BY <2>1 DEF ContextInv, SummaryTyped, ContextComplete, Latest, IsVerification
<1>3. ASSUME NEW kind \in EventKind, kind # "verification", Append1(kind, NULL), UNCHANGED verdict
      PROVE  SummaryTyped' /\ ContextComplete'
  BY <1>3, AppendKeepsContext
<1>4. ASSUME NEW r \in Receipt, Verified(r) PROVE SummaryTyped' /\ ContextComplete'
  <2>1. PICK v : v = [state |-> workspace', passed |-> Passes(r), failed |-> FailedCriteria(r)]
    OBVIOUS
  <2>2. workspace' \in Hashes
    BY <1>1, <1>4 DEF Verified, AInv, ATypeOK
  <2>3. v \in Verdict
    BY <2>1, <2>2, VerdictOfReceipt
  <2>4. PICK kind \in EventKind : kind = "verification"
    BY DEF EventKind
  <2>5. Append1(kind, v) /\ verdict' = v
    BY <1>4, <2>1, <2>4 DEF Verified
  <2> QED BY <2>3, <2>4, <2>5, AppendKeepsContext
<1>5. CASE BeginStep
  <2>1. verdict' = verdict
    BY <1>5 DEF BeginStep, verifyVars
  <2>2. CASE MayCompact /\ Compact
    BY <2>1, <2>2, CompactKeepsContext
  <2>3. CASE UNCHANGED contextVars
    BY <1>2, <2>1, <2>3
  <2> QED BY <1>5, <2>2, <2>3 DEF BeginStep
<1>6. CASE StepBudgetExhausted \/ DeadlineAtStep \/ ModelFails \/ Raise \/ Expire \/ UNCHANGED avars
  <2>1. UNCHANGED <<contextVars, verdict>>
    BY <1>6 DEF StepBudgetExhausted, DeadlineAtStep, ModelFails, Raise, Expire, avars, contextVars, verifyVars
  <2> QED BY <1>2, <2>1
<1>7. CASE \E f \in Calls \cup {"finish"} : Decide(f)
  <2>1. UNCHANGED <<contextVars, verdict>>
    BY <1>7 DEF Decide, verifyVars
  <2> QED BY <1>2, <2>1
<1>8. CASE ProtocolError
  <2>1. PICK kind \in EventKind : kind = "protocol_error"
    BY DEF EventKind
  <2> QED BY <1>3, <1>8, <2>1 DEF ProtocolError, verifyVars
<1>9. CASE \E kind \in {"tool", "tool_error"} : ToolKeeps(kind)
  <2>1. PICK kind \in {"tool", "tool_error"} : ToolKeeps(kind)
    BY <1>9
  <2>2. kind \in EventKind /\ kind # "verification"
    BY DEF EventKind
  <2> QED BY <1>3, <2>1, <2>2 DEF ToolKeeps, verifyVars
<1>10. CASE \E h \in Hashes : ToolFailsDirty(h)
  <2>1. PICK kind \in EventKind : kind = "tool_error"
    BY DEF EventKind
  <2> QED BY <1>3, <1>10, <2>1 DEF ToolFailsDirty, verifyVars
<1>11. CASE \E h \in Hashes : ToolMutates(h)
  <2>1. PICK kind \in EventKind : kind = "tool"
    BY DEF EventKind
  <2> QED BY <1>3, <1>11, <2>1 DEF ToolMutates, verifyVars
<1>12. CASE RejectFinish
  <2>1. PICK kind \in EventKind : kind = "verification_rejected"
    BY DEF EventKind
  <2> QED BY <1>3, <1>12, <2>1 DEF RejectFinish, verifyVars
<1>13. CASE \E r \in Receipt : IntermediateVerify(r) \/ FinalVerify(r)
  BY <1>4, <1>13 DEF IntermediateVerify, FinalVerify
<1> QED BY <1>5, <1>6, <1>7, <1>8, <1>9, <1>10, <1>11, <1>12, <1>13 DEF ANext, Loop, Ended

-----------------------------------------------------------------------------
(* Theorems *)

\* The state of every run of agent_loop.py satisfies the invariant.
THEOREM AgentInvariant == ASpec => []AInv
<1>1. AInit => AInv
  BY InitAInv
<1>2. AInv /\ [ANext]_avars => AInv'
  BY StepKeepsAInv
<1> QED
  BY <1>1, <1>2, PTL DEF ASpec

\* AgentRunState keeps its types, and a run that goes on is within its budgets.
THEOREM AgentTypeCorrect == ASpec => []ATypeOK
<1>1. AInv => ATypeOK
  BY DEF AInv
<1> QED
  BY <1>1, AgentInvariant, PTL

\* Every AgentResult with success follows a passing verification of the very
\* workspace it describes, with every criterion recorded as passed.
THEOREM SuccessIsAlwaysVerified == ASpec => []SuccessIsVerified
<1>1. AInv => SuccessIsVerified
  BY DEF AInv
<1> QED
  BY <1>1, AgentInvariant, PTL

\* The loop asks the model for a decision only while fewer than
\* verification_interval_mutations changes are unverified.
THEOREM UnverifiedIsBounded == ASpec => []UnverifiedBounded
<1>1. AInv => UnverifiedBounded
  BY DEF AInv, CountInv, UnverifiedBounded
<1> QED
  BY <1>1, AgentInvariant, PTL

\* The workspace a run goes on with is in state_visits with its criterion status.
THEOREM CurrentIsAlwaysVisited == ASpec => []CurrentIsVisited
<1>1. AInv => CurrentIsVisited
  BY DEF AInv, VisitInv, CurrentIsVisited, Running
<1> QED
  BY <1>1, AgentInvariant, PTL

\* A final verification never repeats the verification that failed just before on
\* the same workspace.
THEOREM FailuresAreNotRepeated == ASpec => FailureNotRepeated
<1>1. AInv /\ [ANext]_avars => VerifiesNews
  BY StepVerifiesNews
<1> QED
  BY <1>1, AgentInvariant, PTL DEF ASpec, FailureNotRepeated

\* However often the transcript was compacted, every event is in it or counted in
\* the summary, and the latest verification of the two is the last one there was
\* (compact_events).
THEOREM ContextIsComplete == ASpec => []ContextComplete
<1>1. AInit => ContextInv
  <2> SUFFICES ASSUME AInit PROVE ContextInv
    OBVIOUS
  <2>1. SummaryTyped /\ events = <<>> /\ verdict = NULL /\ compact_summary = NULL /\ recorded = 0
    BY DEF AInit, SummaryTyped
  <2>2. Latest(<<>>, NULL) = NULL
    BY LatestNone
  <2>3. ContextComplete
    BY <2>1, <2>2 DEF ContextComplete
  <2> QED BY <2>1, <2>3, InitAInv DEF ContextInv
<1>2. ContextInv /\ [ANext]_avars => ContextInv'
  BY StepKeepsContext, StepKeepsAInv DEF ContextInv
<1>3. ContextInv => ContextComplete
  BY DEF ContextInv
<1> QED
  BY <1>1, <1>2, <1>3, PTL DEF ASpec
=============================================================================
