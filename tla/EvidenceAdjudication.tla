------------------------ MODULE EvidenceAdjudication ------------------------
(* From a verification receipt to a verdict: the adjudication of             *)
(* services/evidence_contract.py with the receipt adapter and the validation *)
(* of its output in adapters/receipt_observations.py; and the evaluation of  *)
(* Gap closure rules, whose observations arrive one by one.                  *)
(*                                                                           *)
(* The bindings of request and receipt are HostVerification!ValidBindings;   *)
(* here the receipt is the sequence of its command results.                  *)
EXTENDS EvidenceContract

CONSTANTS
  None,
  Proposals,      \* rule sets offered to the constructors
  Receipts,       \* command results the verifier may answer with
  Producer,       \* request.producer_authority
  Candidates,     \* observations an injected adapter may answer with
  Reported,       \* observations that may arrive for a closure rule
  MaxDeviations,  \* bound: observations an injected adapter gets wrong
  MaxReports      \* bound: observations that arrive for a closure rule

FactTypes == {"passed", "exit_code", "timed_out", "workspace_unchanged", "failure_category"}

\* The constructors nest trees.
ASSUME ProposalsAssumption == \A p \in Proposals : IsTree(p.root)

IsScalar(x) == x = [t |-> x.t, v |-> x.v] /\ x.t # "list"

\* The commands of a profile have different names, and a receipt those names.
ASSUME ReceiptsAssumption ==
  \A r \in Receipts :
    /\ Len(r) \in Nat /\ DOMAIN r = 1..Len(r)
    /\ \A i, j \in DOMAIN r : r[i].name = r[j].name => i = j
    /\ \A i \in DOMAIN r : \A x \in {r[i].exit_code, r[i].failure_category} : x = None \/ IsScalar(x)

\* EvidenceSelector has four fields, and observed evidence a value.
ASSUME CandidatesAssumption ==
  \A o \in Candidates :
    /\ o.selector = [type |-> o.selector.type, stage |-> o.selector.stage,
                     check |-> o.selector.check, producer |-> o.selector.producer]
    /\ o.status = "observed" => o.value # None /\ (o.value.t = "list" \/ IsScalar(o.value))

VARIABLES
  phase,          \* of the adjudication, or of the collection for a closure rule
  rules,          \* the rule set, once constructed
  receipt,        \* the authoritative receipt
  observations,   \* what is handed to the evaluator
  deviations,     \* how often the injected adapter left the built-in one
  evaluation      \* the verdict

evars == <<phase, rules, receipt, observations, deviations, evaluation>>

-----------------------------------------------------------------------------
(* The receipt as observations. *)

Bool(b) == [t |-> "bool", v |-> IF b THEN 1 ELSE 0]

\* command_fact_selector
Selector(name, type) ==
  [type |-> type, stage |-> "candidate_final", check |-> name, producer |-> Producer]

\* What the receipt says of a command.
Fact(command, type) ==
  CASE type = "passed" -> Bool(command.passed)
    [] type = "exit_code" -> command.exit_code
    [] type = "timed_out" -> Bool(command.timed_out)
    [] type = "workspace_unchanged" -> Bool(command.workspace_unchanged)
    [] type = "failure_category" -> command.failure_category

\* bound: subject, run and artifact are those of the verification.
Observe(index, command, type) ==
  LET fact == Fact(command, type)
  IN [id |-> <<index, type>>, selector |-> Selector(command.name, type), bound |-> TRUE,
      status |-> IF fact = None THEN "unavailable" ELSE "observed", value |-> fact]

CommandObservations(index, command) ==
  <<Observe(index, command, "passed"), Observe(index, command, "exit_code"),
    Observe(index, command, "timed_out"), Observe(index, command, "workspace_unchanged"),
    Observe(index, command, "failure_category")>>

\* ReceiptObservationAdapter.adapt
Adapt(commands) ==
  LET upto[n \in 0..Len(commands)] ==
        IF n = 0 THEN <<>> ELSE upto[n - 1] \o CommandObservations(n, commands[n])
  IN upto[Len(commands)]

\* Each observation is bound to this verification, final and of the producer.
BoundObservation(o) ==
  o.bound /\ o.selector.stage = "candidate_final" /\ o.selector.producer = Producer

SelectorDuplicated(obs) ==
  \E i, j \in DOMAIN obs :
    /\ i # j
    /\ obs[i].selector.check = obs[j].selector.check
    /\ obs[i].selector.type = obs[j].selector.type

\* Mutant: the values are compared the way Python compares True and 1.
StatesFactUntyped(o, fact) ==
  IF fact = None THEN o.status = "unavailable" /\ o.value = None
  ELSE o.status = "observed" /\ o.value.v = fact.v

\* The observation states the fact: type and value, or that there is none.
StatesFact(o, fact) ==
  IF fact = None THEN o.status = "unavailable" /\ o.value = None
  ELSE o.status = "observed" /\ o.value.t = fact.t /\ o.value.v = fact.v

\* validate_final_command_observations does not raise.
ValidObservations(commands, obs) ==
  /\ Len(obs) = Len(commands) * Cardinality(FactTypes)
  /\ \A i \in DOMAIN obs : BoundObservation(obs[i])
  /\ ~ SelectorDuplicated(obs)
  /\ \A n \in DOMAIN commands, type \in FactTypes :
       \E i \in DOMAIN obs :
         /\ obs[i].selector.check = commands[n].name
         /\ obs[i].selector.type = type
         /\ StatesFact(obs[i], Fact(commands[n], type))

-----------------------------------------------------------------------------
EInit ==
  /\ phase = "new"
  /\ rules = None
  /\ receipt = <<>>
  /\ observations = <<>>
  /\ deviations = 0
  /\ evaluation = None

\* The wire form is parsed and the model constructed, or it raises.
Construct(p) ==
  /\ phase = "new"
  /\ \/ /\ Constructible(p)
        /\ rules' = p
        /\ phase' = IF p.label = "contract" THEN "verify" ELSE "collect"
     \/ /\ ~ Constructible(p)
        /\ phase' = "raised"
        /\ UNCHANGED rules
  /\ UNCHANGED <<receipt, observations, deviations, evaluation>>

\* The verifier ran the profile and its receipt was read back; the adapter ran.
Receive(r) ==
  /\ phase = "verify"
  /\ phase' = "adapted"
  /\ receipt' = r
  /\ observations' = Adapt(r)
  /\ UNCHANGED <<rules, deviations, evaluation>>

\* An injected adapter answers with another observation at some place, with
\* one less or with one more than the built-in adapter.
Deviate ==
  /\ phase = "adapted"
  /\ deviations < MaxDeviations
  /\ deviations' = deviations + 1
  /\ \/ \E i \in DOMAIN observations, o \in Candidates :
          observations' = [observations EXCEPT ![i] = o]
     \/ \E o \in Candidates : observations' = Append(observations, o)
     \/ observations' = SubSeq(observations, 1, Len(observations) - 1)
  /\ UNCHANGED <<phase, rules, receipt, evaluation>>

Validate ==
  /\ phase = "adapted"
  /\ phase' = IF ValidObservations(receipt, observations) THEN "validated" ELSE "raised"
  /\ UNCHANGED <<rules, receipt, observations, deviations, evaluation>>

Evaluate ==
  /\ phase = "validated"
  /\ phase' = "done"
  /\ evaluation' = Evaluation(rules, observations)
  /\ UNCHANGED <<rules, receipt, observations, deviations>>

\* One more observation for a closure rule, which is then evaluated again.
Report(o) ==
  /\ phase = "collect"
  /\ Len(observations) < MaxReports
  /\ observations' = Append(observations, o)
  /\ evaluation' = Evaluation(rules, observations')
  /\ UNCHANGED <<phase, rules, receipt, deviations>>

ENext ==
  \/ \E p \in Proposals : Construct(p)
  \/ \E r \in Receipts : Receive(r)
  \/ Deviate
  \/ Validate
  \/ Evaluate
  \/ \E o \in Reported : Report(o)

ESpec == EInit /\ [][ENext]_evars

-----------------------------------------------------------------------------
(* Properties. *)

\* The phases, and an evaluation exactly when the evaluator was called.
ETypeOK ==
  /\ phase \in {"new", "raised", "verify", "adapted", "validated", "done", "collect"}
  /\ rules \in Proposals \cup {None}
  /\ receipt \in Receipts \cup {<<>>}
  /\ deviations \in 0..MaxDeviations
  /\ Len(observations) <= MaxReports + MaxDeviations + Len(receipt) * Cardinality(FactTypes)
  /\ phase = "done" => evaluation # None

\* The two-valued meaning of an expression when exactly the clauses of S hold.
NodeHolds(node, S, h) ==
  CASE node.kind = "clause_ref" -> node.clause \in S
    [] node.kind = "all_of" -> {k \in node.kids : h[k]} = node.kids
    [] node.kind = "any_of" -> {k \in node.kids : h[k]} # {}
    [] node.kind = "at_least" -> Cardinality({k \in node.kids : h[k]}) >= node.minimum
    [] node.kind = "not" -> {k \in node.kids : h[k]} = {}

Holds(root, S) ==
  LET h[i \in DOMAIN root] == NodeHolds(root[i], S, h)
  IN  h[Len(root)]

\* The truth values of the clauses that agree with every decided clause.
Completions(predicates) ==
  {S \in SUBSET DOMAIN predicates :
     \A c \in DOMAIN predicates :
       /\ predicates[c] = "pass" => c \in S
       /\ predicates[c] = "fail" => c \notin S}

Verdict(e) ==
  CASE e.result \in {"pass", "closed"} -> "pass"
    [] e.result \in {"fail", "not_closed"} -> "fail"
    [] OTHER -> e.result

\* The three-valued evaluation says neither more nor less than the evidence:
\* it passes or fails exactly when every way to settle the undecided clauses
\* (missing, ambiguous, unavailable, mismatched) makes the root true or false
\* (_evaluate_expression against a two-valued reading of the same rule).
VerdictIsForced ==
  evaluation # None /\ evaluation.lifecycle = "completed" =>
    LET worlds == Completions(EvaluateClauses(rules, observations))
    IN /\ (Verdict(evaluation) = "pass") = (\A S \in worlds : Holds(rules.root, S))
       /\ (Verdict(evaluation) = "fail") = (\A S \in worlds : ~ Holds(rules.root, S))

\* No clause of rules the lint accepts is vacuous: each one alone can turn the
\* verdict (the lint "rejects vacuous roots and unreachable clauses").
EveryClauseCounts ==
  evaluation # None /\ evaluation.lifecycle = "completed" =>
    \A c \in ClauseIds(rules) :
      \E S \in SUBSET ClauseIds(rules) :
        Holds(rules.root, S \cup {c}) # Holds(rules.root, S \ {c})

\* Evidence that arrives later never overturns a verdict: an observation of a
\* selector nobody reported refines it, a second one can only withdraw it.
EvidenceOnlyRefines ==
  [][\A o \in Reported :
       (/\ evaluation # None
        /\ Report(o)
        /\ {evaluation.lifecycle, evaluation'.lifecycle} = {"completed"}) =>
         \/ Verdict(evaluation') = Verdict(evaluation)
         \/ /\ Verdict(evaluation) = "indeterminate"
            /\ \A i \in DOMAIN observations : observations[i].selector # o.selector
         \/ /\ Verdict(evaluation') = "indeterminate"
            /\ \E i \in DOMAIN observations : observations[i].selector = o.selector]_evars

\* Whatever adapter is injected, it cannot change the verdict: either Control
\* refuses its observations, or the evaluation is the one of the built-in
\* adapter, or the evaluator reports an error (adjudicate: "adapters cannot
\* accidentally bypass exact-run fencing").
AdapterCannotDecide ==
  phase = "done" =>
    \/ evaluation = Evaluation(rules, Adapt(receipt))
    \/ evaluation.lifecycle = "error"
=============================================================================
