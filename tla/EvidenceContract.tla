-------------------------- MODULE EvidenceContract --------------------------
(* The pure three-valued evaluator of evidence contracts and Gap closure     *)
(* rules (evidence_contract.py) over the models of                           *)
(* contracts/evidence_contract.py.                                           *)
(*                                                                           *)
(* A scalar is [t, v], t its Python type; a list value is [t, items].  An    *)
(* expression is the sequence of its nodes in post order, kids the positions *)
(* of a node's children, the root the last node.  A rule set is what a       *)
(* contract and a closure rule share: label, clauses, root and the size of   *)
(* the canonical JSON.                                                       *)
EXTENDS Integers, Sequences, FiniteSets

CONSTANTS
  Limits,       \* EvidenceContractLimits of the call
  HardLimits    \* the _HARD_MAX_* the models enforce

LimitFields == {"clauses", "nodes", "depth", "bytes", "observations"}

ASSUME LimitsAssumption ==
  /\ Limits \in [LimitFields -> Nat \ {0}]
  /\ HardLimits \in [{"clauses", "nodes", "depth"} -> Nat \ {0}]

LogicalResult == {"pass", "fail", "indeterminate"}
Numeric == {"less_than", "less_than_or_equal", "greater_than", "greater_than_or_equal"}
Setwise == {"subset", "disjoint"}
PredicateOperator == {"equals", "not_equals", "contains"} \cup Numeric \cup Setwise

-----------------------------------------------------------------------------
(* Values. *)

IsList(x) == x.t = "list"
IsInteger(x) == x.t = "int"

\* True == 1 in Python: the key carries the type.
TypedKey(s) == <<s.t, s.v>>
Keys(x) == {TypedKey(x.items[i]) : i \in DOMAIN x.items}
ItemTypes(x) == {x.items[i].t : i \in DOMAIN x.items}

TypedEqual(left, right) ==
  IF IsList(left) \/ IsList(right)
  THEN /\ IsList(left) /\ IsList(right)
       /\ Len(left.items) = Len(right.items)
       /\ \A i \in DOMAIN left.items : TypedKey(left.items[i]) = TypedKey(right.items[i])
  ELSE TypedKey(left) = TypedKey(right)

\* zip() stops at the shorter list.
SameValueSchema(left, right) ==
  /\ left.t = right.t
  /\ IsList(left) =>
       \A i \in DOMAIN left.items \cap DOMAIN right.items : left.items[i].t = right.items[i].t

-----------------------------------------------------------------------------
(* Predicates. *)

TypeMismatch(op, actual, expected) ==
  \/ op = "not_equals" /\ ~ SameValueSchema(actual, expected)
  \/ op \in Numeric /\ ~ (IsInteger(actual) /\ IsInteger(expected))
  \/ op = "contains" /\ (~ IsList(actual) \/ IsList(expected))
  \/ op \in Setwise /\ ~ (IsList(actual) /\ IsList(expected))
  \/ /\ op = "disjoint" /\ IsList(actual) /\ IsList(expected)
     /\ actual.items # <<>> /\ expected.items # <<>>
     /\ ItemTypes(actual) # ItemTypes(expected)

Satisfied(op, actual, expected) ==
  CASE op = "equals" -> TypedEqual(actual, expected)
    [] op = "not_equals" -> ~ TypedEqual(actual, expected)
    [] op = "less_than" -> actual.v < expected.v
    [] op = "less_than_or_equal" -> actual.v <= expected.v
    [] op = "greater_than" -> actual.v > expected.v
    [] op = "greater_than_or_equal" -> actual.v >= expected.v
    [] op = "contains" -> TypedKey(expected) \in Keys(actual)
    [] op = "subset" -> Keys(actual) \subseteq Keys(expected)
    [] op = "disjoint" -> Keys(actual) \cap Keys(expected) = {}

EvaluatePredicate(op, actual, expected) ==
  IF TypeMismatch(op, actual, expected) THEN "indeterminate"
  ELSE IF Satisfied(op, actual, expected) THEN "pass" ELSE "fail"

\* Mutant: of several observations of a selector the latest counts.
EvaluateClauseLatest(clause, observations) ==
  LET matches == {i \in DOMAIN observations : observations[i].selector = clause.selector}
      match == observations[CHOOSE i \in matches : \A j \in matches : j <= i]
  IN IF matches # {} /\ match.status = "observed"
     THEN EvaluatePredicate(clause.operator, match.value, clause.expected)
     ELSE "indeterminate"

\* The clause is decided by exactly one observed value of its selector.
EvaluateClause(clause, observations) ==
  LET matches == {i \in DOMAIN observations : observations[i].selector = clause.selector}
      match == observations[CHOOSE i \in matches : TRUE]
  IN IF Cardinality(matches) = 1 /\ match.status = "observed"
     THEN EvaluatePredicate(clause.operator, match.value, clause.expected)
     ELSE "indeterminate"

-----------------------------------------------------------------------------
(* Expressions. *)

NodeKinds == {"clause_ref", "all_of", "any_of", "at_least", "not"}

\* What the constructors nest is a tree: children come before their node, and
\* every node but the last is the child of one node.
IsTree(root) ==
  /\ Len(root) \in Nat \ {0} /\ DOMAIN root = 1..Len(root)
  /\ \A i \in DOMAIN root :
       /\ root[i].kind \in NodeKinds /\ root[i].minimum \in Int
       /\ root[i].kids \subseteq 1..(i - 1)
       /\ root[i].kind = "clause_ref" => root[i].kids = {}
       /\ root[i].kind = "not" => \E k \in 1..(i - 1) : root[i].kids = {k}
  /\ \A i, j \in DOMAIN root : i # j => root[i].kids \cap root[j].kids = {}
  /\ \A k \in 1..(Len(root) - 1) : \E i \in DOMAIN root : k \in root[i].kids

Refs(root) == {i \in DOMAIN root : root[i].kind = "clause_ref"}

Height(root) ==
  LET h[i \in DOMAIN root] ==
        IF root[i].kind = "clause_ref" THEN 1
        ELSE 1 + CHOOSE m \in {h[k] : k \in root[i].kids} : \A k \in root[i].kids : h[k] <= m
  IN h[Len(root)]

Count(kids, val, result) == Cardinality({k \in kids : val[k] = result})

AllOf(kids, val) ==
  IF \E k \in kids : val[k] = "fail" THEN "fail"
  ELSE IF \A k \in kids : val[k] = "pass" THEN "pass" ELSE "indeterminate"

AnyOf(kids, val) ==
  IF \E k \in kids : val[k] = "pass" THEN "pass"
  ELSE IF \A k \in kids : val[k] = "fail" THEN "fail" ELSE "indeterminate"

\* Mutant: the threshold counts as out of reach when it can just be reached.
AtLeastTooEarly(minimum, kids, val) ==
  LET passes == Count(kids, val, "pass")
  IN IF passes >= minimum THEN "pass"
     ELSE IF passes + Count(kids, val, "indeterminate") <= minimum THEN "fail"
     ELSE "indeterminate"

AtLeast(minimum, kids, val) ==
  LET passes == Count(kids, val, "pass")
  IN IF passes >= minimum THEN "pass"
     ELSE IF passes + Count(kids, val, "indeterminate") < minimum THEN "fail"
     ELSE "indeterminate"

Not(r) == CASE r = "pass" -> "fail" [] r = "fail" -> "pass" [] OTHER -> r

\* One node, by the results of its children; predicates maps the clause ids to
\* their results.
EvaluateNode(node, predicates, val) ==
  CASE node.kind = "clause_ref" -> predicates[node.clause]
    [] node.kind = "all_of" -> AllOf(node.kids, val)
    [] node.kind = "any_of" -> AnyOf(node.kids, val)
    [] node.kind = "at_least" -> AtLeast(node.minimum, node.kids, val)
    [] node.kind = "not" -> Not(val[CHOOSE k \in node.kids : TRUE])

EvaluateExpression(root, predicates) ==
  LET val[i \in DOMAIN root] == EvaluateNode(root[i], predicates, val)
  IN  val[Len(root)]

-----------------------------------------------------------------------------
(* Construction and lint. *)

ClauseIds(rules) == {rules.clauses[i].id : i \in DOMAIN rules.clauses}

\* expression_from_dict and the constructors: children there, the threshold
\* within their number, the hard limits kept.
ValidNode(node) ==
  CASE node.kind \in {"all_of", "any_of"} -> node.kids # {}
    [] node.kind = "at_least" -> node.kids # {} /\ node.minimum \in 1..Cardinality(node.kids)
    [] OTHER -> TRUE

ValidExpression(root) ==
  /\ \A i \in DOMAIN root : ValidNode(root[i])
  /\ Len(root) <= HardLimits.nodes
  /\ Height(root) <= HardLimits.depth

\* EvidenceContract(...) or GapClosureRule(...) does not raise.
Constructible(rules) ==
  /\ rules.clauses # <<>>
  /\ Len(rules.clauses) <= HardLimits.clauses
  /\ Cardinality(ClauseIds(rules)) = Len(rules.clauses)
  /\ ValidExpression(rules.root)

TooLarge(rules) ==
  \/ Len(rules.clauses) > Limits.clauses
  \/ Len(rules.root) > Limits.nodes
  \/ Height(rules.root) > Limits.depth
  \/ rules.bytes > Limits.bytes

UnknownReference(rules) ==
  \E i \in Refs(rules.root) : rules.root[i].clause \notin ClauseIds(rules)

DuplicateReference(rules) ==
  \E i, j \in Refs(rules.root) : i # j /\ rules.root[i].clause = rules.root[j].clause

\* Mutant: clauses the root does not reference are accepted.
UnusedClauseAccepted(rules) == FALSE

UnusedClause(rules) ==
  \E c \in ClauseIds(rules) : \A i \in Refs(rules.root) : rules.root[i].clause # c

InvalidExpectedType(clause) ==
  \/ clause.operator \in Numeric /\ ~ IsInteger(clause.expected)
  \/ clause.operator = "contains" /\ IsList(clause.expected)
  \/ clause.operator \in Setwise /\ ~ IsList(clause.expected)

LintFails(rules) ==
  \/ TooLarge(rules)
  \/ UnknownReference(rules)
  \/ DuplicateReference(rules)
  \/ UnusedClause(rules)
  \/ \E i \in DOMAIN rules.clauses : InvalidExpectedType(rules.clauses[i])

-----------------------------------------------------------------------------
(* Evaluation. *)

\* The predicate results of the clauses, by clause id.
EvaluateClauses(rules, observations) ==
  [c \in ClauseIds(rules) |->
     EvaluateClause(rules.clauses[CHOOSE i \in DOMAIN rules.clauses : rules.clauses[i].id = c],
                    observations)]

DuplicateObservation(observations) ==
  \E i, j \in DOMAIN observations : i # j /\ observations[i].id = observations[j].id

Errored(code) == [lifecycle |-> "error", result |-> "none", error |-> code]

Completed(rules, r) ==
  [lifecycle |-> "completed", error |-> "none",
   result |-> IF rules.label = "contract" THEN r
              ELSE CASE r = "pass" -> "closed"
                     [] r = "fail" -> "not_closed"
                     [] OTHER -> "indeterminate"]

\* evaluate_evidence_contract, evaluate_gap_closure_rule
Evaluation(rules, observations) ==
  IF Len(observations) > Limits.observations THEN Errored("too_many_observations")
  ELSE IF LintFails(rules)
       THEN Errored(IF rules.label = "contract" THEN "contract_lint_failed"
                                                ELSE "closure_rule_lint_failed")
  ELSE IF DuplicateObservation(observations) THEN Errored("duplicate_observation_id")
  ELSE Completed(rules, EvaluateExpression(rules.root, EvaluateClauses(rules, observations)))
=============================================================================
