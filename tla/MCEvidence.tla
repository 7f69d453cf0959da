----------------------------- MODULE MCEvidence -----------------------------
(* Contracts over the facts of a verification command with a deviating       *)
(* adapter, and closure rules of up to three clauses, malformed ones         *)
(* included, with observations in any order.                                 *)
EXTENDS EvidenceAdjudication

Num(n) == [t |-> "int", v |-> n]
Str(n) == [t |-> "str", v |-> n]
List(items) == [t |-> "list", items |-> items]

MCLimits == [clauses |-> 3, nodes |-> 5, depth |-> 3, bytes |-> 1, observations |-> 5]
MCHard == [clauses |-> 4, nodes |-> 6, depth |-> 4]

Ref(c) == [kind |-> "clause_ref", clause |-> c, minimum |-> 0, kids |-> {}]
Op(k, m, kids) == [kind |-> k, clause |-> 0, minimum |-> m, kids |-> kids]
OpsOf(kids, minima) ==
  {Op("all_of", 0, kids), Op("any_of", 0, kids)} \cup {Op("at_least", m, kids) : m \in minima}

Clause(c, type, op, x) ==
  [id |-> c, selector |-> Selector("test", type), operator |-> op, expected |-> x]
Rules(label, clauses, root) == [label |-> label, clauses |-> clauses, root |-> root, bytes |-> 1]

-----------------------------------------------------------------------------
(* The command of the receipt, and contracts over it. *)

Command(name, passed, code, timed, unchanged, category) ==
  [name |-> name, passed |-> passed, exit_code |-> code, timed_out |-> timed,
   workspace_unchanged |-> unchanged, failure_category |-> category]

Good(n) == Command(n, TRUE, Num(0), FALSE, TRUE, Str(0))
Bad(n) == Command(n, FALSE, Num(1), FALSE, TRUE, Str(1))
Late(n) == Command(n, FALSE, Num(0), TRUE, TRUE, Str(1))
NotStarted(n) == Command(n, FALSE, None, FALSE, TRUE, Str(1))

MCReceipts == {<<Good("test")>>, <<Bad("test")>>, <<Late("test")>>, <<NotStarted("test")>>,
               <<Good("test"), Bad("lint")>>}

Obs(id, type, value) ==
  [id |-> id, selector |-> Selector("test", type), bound |-> TRUE, status |-> "observed",
   value |-> value]
Missing(id, type) ==
  [id |-> id, selector |-> Selector("test", type), bound |-> TRUE, status |-> "unavailable",
   value |-> None]

MCCandidates ==
  {Obs(<<0, "a">>, "passed", v) : v \in {Bool(TRUE), Bool(FALSE), Num(1)}}
    \cup {Obs(<<0, "b">>, "exit_code", v) : v \in {Num(0), Num(1), Bool(TRUE), Bool(FALSE)}}
    \cup {Obs(<<0, "a">>, "failure_category", Str(0)), Missing(<<0, "c">>, "exit_code"), Missing(<<0, "d">>, "passed")}
    \cup {[Obs(<<0, "e">>, "exit_code", Num(0)) EXCEPT !.bound = FALSE],
          [Obs(<<0, "e">>, "exit_code", Num(0)) EXCEPT !.selector.producer = "other"],
          [Obs(<<0, "e">>, "exit_code", Num(0)) EXCEPT !.selector.stage = "baseline"]}

Contracts ==
  {Rules("contract", <<Clause(1, "passed", "equals", Bool(TRUE)),
                       Clause(2, "exit_code", "equals", Num(0))>>,
         <<Ref(1), Ref(2), op>>) : op \in OpsOf({1, 2}, {1, 2})}
    \cup {Rules("contract", <<Clause(1, "exit_code", "equals", Num(1))>>,
                <<Ref(1), Op("not", 0, {1})>>)}
    \cup {Rules("contract", <<Clause(1, "exit_code", "less_than", Num(1)),
                              Clause(2, "failure_category", "not_equals", Str(1))>>,
                <<Ref(1), Op("not", 0, {1}), Ref(2), Op("any_of", 0, {2, 3})>>)}

-----------------------------------------------------------------------------
(* Closure rules. *)

Unit == Clause(1, "passed", "equals", Bool(TRUE))
Lint == Clause(2, "exit_code", "not_equals", Num(1))
Doc == Clause(3, "exit_code", "equals", Num(0))

Trees ==
  {<<Ref(1), Ref(c), op>> : c \in {1, 2, 9}, op \in OpsOf({1, 2}, 0..3)}
    \cup {<<Ref(1), Op("not", 0, {1}), Ref(2), op>> : op \in OpsOf({2, 3}, {1, 2})}
    \cup {<<Ref(1), Ref(2), Ref(3), op>> : op \in OpsOf({1, 2, 3}, 1..4)}
    \cup {<<Ref(1), Ref(2), low, Ref(3), op>> :
            low \in OpsOf({1, 2}, {1, 2}), op \in OpsOf({3, 4}, {1, 2})}
    \cup {<<Ref(1), Ref(2), Op("all_of", 0, {1, 2}), Op("not", 0, {3}), Op("not", 0, {4})>>,
          <<Op("any_of", 0, {})>>,
          <<Ref(1), Ref(2), Op("all_of", 0, {1, 2}), Op("not", 0, {3}), Op("not", 0, {4}),
            Op("not", 0, {5})>>}

Values == {Bool(TRUE), Num(1), Str(1), List(<<>>), List(<<Num(1)>>), List(<<Bool(TRUE), Num(2)>>)}

ClosureRules ==
  {Rules("closure_rule", <<Unit, Lint, Doc>>, root) : root \in {t \in Trees : \E i \in DOMAIN t : t[i].clause = 3}}
    \cup {Rules("closure_rule", <<Unit, Lint>>, root) : root \in {t \in Trees : \A i \in DOMAIN t : t[i].clause # 3}}
    \cup {Rules("closure_rule", <<Unit, [Doc EXCEPT !.id = 1]>>, <<Ref(1)>>),
          Rules("closure_rule", <<>>, <<Ref(1)>>),
          Rules("closure_rule", <<Unit, Lint>>, <<Ref(1)>>),
          Rules("closure_rule", <<Unit>>,
                <<Ref(1), Ref(1), Op("not", 0, {2}), Op("any_of", 0, {1, 3})>>),
          Rules("closure_rule", <<Unit, Lint, Doc, [Doc EXCEPT !.id = 4]>>,
                <<Ref(1), Ref(2), Ref(3), Ref(4), Op("all_of", 0, 1..4)>>),
          [Rules("closure_rule", <<Unit>>, <<Ref(1)>>) EXCEPT !.bytes = 2]}
    \cup {Rules("closure_rule", <<Clause(1, "passed", op, x)>>, root) :
            op \in PredicateOperator, x \in Values,
            root \in {<<Ref(1)>>, <<Ref(1), Op("not", 0, {1})>>}}

MCReported ==
  {Obs(<<0, "a">>, "passed", v) : v \in Values} \cup {Missing(<<0, "b">>, "passed")}
    \cup {Obs(<<0, "c">>, "exit_code", v) : v \in {Num(0), Num(1)}} \cup {Obs(<<0, "d">>, "passed", Bool(FALSE))}

MCProposals == Contracts \cup ClosureRules
=============================================================================
