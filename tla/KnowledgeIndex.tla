---------------------------- MODULE KnowledgeIndex ----------------------------
(* The knowledge index: a graph of candidate tasks and knowledge in SQLite   *)
(* (infra/knowledge_*.py), the services that write it and read it            *)
(* (knowledge_*.py) and the commands around them                             *)
(* (interfaces/cli/handlers/knowledge.py).                                   *)
(*                                                                           *)
(* A write is one transaction that checks the whole index before and after.  *)
(* A read walks the graph with one query for each node and for the edges of  *)
(* each node, caches what it has read, and is refused when the revision of   *)
(* the index is another one at its end.  All reads ask one query; of a       *)
(* node's terms, the weight of the query's terms is kept.  Which of several  *)
(* shortest paths is shown is left out, its length is not.                   *)
EXTENDS Naturals, FiniteSets

CONSTANTS
  Missing,        \* no row, or nothing cached
  Broken,         \* a row whose columns are not those of its payload
  NNodes,         \* node ids, in their order
  Submissions,    \* nodes somebody adds
  Links,          \* edges somebody adds, or writes into the file by hand
  Readers, Writers,
  MaxDepth,       \* MAX_GRAPH_TRAVERSAL_DEPTH
  MaxExpansion,   \* _MAX_GRAPH_EXPANSION_NODES
  MaxCandidates,  \* _MAX_NEXT_STEP_CANDIDATES
  MaxDependencies,\* _MAX_DEPENDENCY_STATES
  Requests,       \* what readers ask
  MaxDamages      \* bound: changes of the database file by somebody else

NodeIds == 1..NNodes

\* A task with its candidate status, or knowledge.
Kinds == {"completed", "ready", "blocked", "knowledge"}
EdgeTypes == {"depends_on", "requires", "relates_to"}
DependencyTypes == {"depends_on", "requires"}

ASSUME KnowledgeAssumption ==
  /\ NNodes \in Nat /\ MaxDepth \in Nat /\ MaxDamages \in Nat
  /\ Missing \notin Nat
  /\ MaxExpansion \in Nat /\ MaxCandidates \in Nat /\ MaxDependencies \in Nat
  /\ Submissions \subseteq [id : NodeIds, kind : Kinds, weight : Nat]
  /\ Links \subseteq [source : NodeIds, target : NodeIds, type : EdgeTypes, note : Nat]
  /\ \A e \in Links : e.source # e.target
  /\ Requests \subseteq [op : {"search", "dependencies", "next"}, anchor : NodeIds,
                         depth : 0..MaxDepth, dependency_depth : 0..MaxDepth, limit : Nat \ {0}]

VARIABLES
  meta,                        \* metadata table: "none", "ours", "other"
  nodes, terms, edges,         \* the tables
  damages,
  wpc, wedge,                  \* of each writer: where it is, its edge
  rpc, ask,                    \* of each reader: where it is, its request
  printed, revision,           \* of each reader: revisions it has read
  node_cache, edge_cache, scores,
  answer                       \* of each reader: what it returned

tables == <<meta, nodes, terms, edges>>
writing == <<wpc, wedge>>
caches == <<node_cache, edge_cache, scores>>
reading == <<rpc, ask, printed, revision, caches, answer>>
kvars == <<tables, damages, writing, reading>>

-----------------------------------------------------------------------------
(* Integrity. *)

IsTask(row) == row \notin {Missing, Broken} /\ row.kind # "knowledge"

\* Mutant: requires edges are forgotten.
DependencyEdgesOneType(es) == {e \in es : e.type = "depends_on"}

DependencyEdges(es) == {e \in es : e.type \in DependencyTypes}

\* Kahn's algorithm: what is left when nodes without an incoming edge are taken
\* away again and again.
ContainsCycle(es) ==
  LET ds == DependencyEdges(es)
      Left[k \in 0..NNodes] ==
        IF k = 0 THEN NodeIds
        ELSE {n \in Left[k - 1] : \E e \in ds : e.source \in Left[k - 1] /\ e.target = n}
  IN  Left[NNodes] # {}

EndpointsStored(ns, es) ==
  /\ \A e \in es : {ns[e.source], ns[e.target]} \cap {Missing, Broken} = {}
  /\ \A e \in DependencyEdges(es) : IsTask(ns[e.source]) /\ IsTask(ns[e.target])

WeightOf(row) == IF row = Missing THEN Missing ELSE row.weight

\* Mutant: the terms are not compared with the payloads.
TermsMatchUnchecked(ns, ts) == TRUE

TermsMatch(ns, ts) == \A n \in NodeIds : ts[n] = WeightOf(ns[n])

\* revision_digest_from_connection, unless it raises.
Integrity(m, ns, ts, es) ==
  /\ m = "ours"
  /\ \A n \in NodeIds : ns[n] # Broken
  /\ EndpointsStored(ns, es)
  /\ ~ ContainsCycle(es)
  /\ TermsMatch(ns, ts)

Intact == Integrity(meta, nodes, terms, edges)
Revision == [nodes |-> nodes, edges |-> edges]

-----------------------------------------------------------------------------
(* Writes. *)

\* The tables are created where there are none.
Initialize ==
  /\ meta = "none"
  /\ meta' = "ours"
  /\ UNCHANGED <<nodes, terms, edges, damages, writing, reading>>

\* One transaction: the index is checked, changed and checked again.
Commit(ns, ts, es) ==
  /\ Intact
  /\ Integrity(meta, ns, ts, es)
  /\ nodes' = ns /\ terms' = ts /\ edges' = es
  /\ UNCHANGED <<meta, damages>>

\* put_node: another content under the same id is a conflict.
AddNode(s) ==
  /\ nodes[s.id] = Missing
  /\ Commit([nodes EXCEPT ![s.id] = s], [terms EXCEPT ![s.id] = s.weight], edges)
  /\ UNCHANGED <<writing, reading>>

\* add_edge reads both ends before the transaction; a call that ends there has
\* changed nothing.
AddEdge(w, e) ==
  /\ wpc[w] = "idle" /\ meta # "none"
  /\ nodes[e.source] \notin {Missing, Broken}
  /\ e.type \in DependencyTypes => IsTask(nodes[e.source])
  /\ wpc' = [wpc EXCEPT ![w] = "target"]
  /\ wedge' = [wedge EXCEPT ![w] = e]
  /\ UNCHANGED <<tables, damages, reading>>

Stop(w) ==
  /\ wpc' = [wpc EXCEPT ![w] = "idle"]
  /\ wedge' = [wedge EXCEPT ![w] = Missing]

ReadTarget(w) ==
  /\ wpc[w] = "target"
  /\ LET row == nodes[wedge[w].target]
         ok == /\ row \notin {Missing, Broken}
               /\ wedge[w].type \in DependencyTypes => IsTask(row)
     IN  \/ ok /\ wpc' = [wpc EXCEPT ![w] = "put"] /\ UNCHANGED wedge
         \/ ~ ok /\ Stop(w)
  /\ UNCHANGED <<tables, damages, reading>>

\* The same edge, or the same one with other metadata, is stored.
ExistingEdge(e) ==
  \E x \in edges : x.source = e.source /\ x.target = e.target /\ x.type = e.type

\* _dependency_reaches: everything the start depends on, level by level.
DependencyReaches(es, start, target) ==
  LET ds == DependencyEdges(es)
      Visited[k \in 0..NNodes] ==
        IF k = 0 THEN {start}
        ELSE Visited[k - 1] \cup {e.target : e \in {d \in ds : d.source \in Visited[k - 1]}}
  IN  target \in Visited[NNodes]

\* put_edge, put_dependency_edge
Admitted(e) ==
  /\ ~ ExistingEdge(e)
  /\ e.type \in DependencyTypes =>
       /\ IsTask(nodes[e.source]) /\ IsTask(nodes[e.target])
       /\ ~ DependencyReaches(edges, e.target, e.source)

PutEdge(w) ==
  /\ wpc[w] = "put"
  /\ LET new == edges \cup {wedge[w]}
         ok == Intact /\ Admitted(wedge[w]) /\ Integrity(meta, nodes, terms, new)
     IN  \/ ok /\ Commit(nodes, terms, new)
         \/ ~ ok /\ UNCHANGED <<tables, damages>>
  /\ Stop(w)
  /\ UNCHANGED reading

-----------------------------------------------------------------------------
(* Reads. *)

Neighbors(es, n) == {m \in NodeIds : \E e \in es : {e.source, e.target} = {n, m}}
Requirements(es, n) == {e.target : e \in {x \in DependencyEdges(es) : x.source = n}}

Cached(r, n) == IF edge_cache[r][n] = Missing THEN {} ELSE edge_cache[r][n]

\* The frontier of the walk, level by level, over the edges read so far.
Walk(next, start, depth) ==
  LET Reached[k \in 0..depth] ==
        IF k = 0 THEN {start}
        ELSE Reached[k - 1] \cup UNION {next[n] : n \in Reached[k - 1]}
  IN  Reached[depth]

Around(r, depth) == Walk([n \in NodeIds |-> Neighbors(Cached(r, n), n)], ask[r].anchor, depth)
Below(r, t, depth) == Walk([n \in NodeIds |-> Requirements(Cached(r, n), n)], t, depth)

Others(r) == Around(r, ask[r].depth) \ {ask[r].anchor}

\* The tasks whose dependencies are inspected.
Inspected(r) ==
  IF ask[r].op = "dependencies" THEN {ask[r].anchor}
  ELSE {n \in Others(r) : IsTask(node_cache[r][n])}

\* What a phase has to read.
NodesWanted(r) ==
  CASE rpc[r] = "anchor" -> {ask[r].anchor}
    [] rpc[r] = "pick" -> Others(r)
    [] rpc[r] = "fetch" -> {n \in Others(r) : scores[r][n] > 0}
    [] rpc[r] = "inspect" -> UNION {Below(r, t, ask[r].dependency_depth) : t \in Inspected(r)}
    [] OTHER -> {}

EdgesWanted(r) ==
  CASE rpc[r] = "walk" /\ ask[r].depth > 0 -> Around(r, ask[r].depth - 1)
    [] rpc[r] = "inspect" -> UNION {Below(r, t, ask[r].dependency_depth) : t \in Inspected(r)}
    [] OTHER -> {}

NodesUnread(r) == {n \in NodesWanted(r) : node_cache[r][n] = Missing}
EdgesUnread(r) == {n \in EdgesWanted(r) : edge_cache[r][n] = Missing}

\* The reads of a phase are made one after the other: edges before the nodes
\* they lead to, and in the order of the ids.
IsNext(n, unread) == n \in unread /\ \A m \in unread : n <= m

\* The task itself is not counted.
TooManyDependencies(r, t) ==
  Cardinality(Below(r, t, ask[r].dependency_depth)) > MaxDependencies + 1

\* Limits, an unsuitable anchor, a dependency that is no task.
Raises(r) ==
  \/ rpc[r] = "walk" /\ Cardinality(Around(r, ask[r].depth)) > MaxExpansion
  \/ /\ rpc[r] = "pick"
     /\ Cardinality({n \in Others(r) : IsTask(node_cache[r][n])}) > MaxCandidates
  \/ /\ rpc[r] = "inspect"
     /\ \/ \E t \in Inspected(r) :
             \/ node_cache[r][t] # Missing /\ ~ IsTask(node_cache[r][t])
             \/ TooManyDependencies(r, t)
        \/ \E n \in NodesWanted(r) : node_cache[r][n] # Missing /\ ~ IsTask(node_cache[r][n])

Blank == [n \in NodeIds |-> Missing]

Phase(r, label) == rpc' = [rpc EXCEPT ![r] = label]

\* The caches go, the call is over.
Over(r) ==
  /\ Phase(r, "idle")
  /\ ask' = [ask EXCEPT ![r] = Missing]
  /\ printed' = [printed EXCEPT ![r] = Missing] /\ revision' = [revision EXCEPT ![r] = Missing]
  /\ node_cache' = [node_cache EXCEPT ![r] = Blank] /\ edge_cache' = [edge_cache EXCEPT ![r] = Blank]
  /\ scores' = [scores EXCEPT ![r] = Blank]
  /\ answer' = [answer EXCEPT ![r] = Missing]

\* A command opens an index that is intact; all but graph-next note the revision.
Ask(r, q) ==
  /\ rpc[r] = "idle"
  /\ Intact
  /\ ask' = [ask EXCEPT ![r] = q]
  /\ printed' = [printed EXCEPT ![r] = IF q.op = "next" THEN Missing ELSE Revision]
  /\ Phase(r, "open")
  /\ UNCHANGED <<tables, damages, writing, revision, caches, answer>>

\* KnowledgeReadContext
Open(r) ==
  /\ rpc[r] = "open" /\ Intact
  /\ revision' = [revision EXCEPT ![r] = Revision]
  /\ Phase(r, "anchor")
  /\ UNCHANGED <<tables, damages, writing, ask, printed, caches, answer>>

ReadNode(r, n) ==
  /\ EdgesUnread(r) = {} /\ IsNext(n, NodesUnread(r)) /\ ~ Raises(r)
  /\ nodes[n] \notin {Missing, Broken}
  /\ node_cache' = [node_cache EXCEPT ![r][n] = nodes[n]]
  /\ UNCHANGED <<tables, damages, writing, rpc, ask, printed, revision, edge_cache, scores, answer>>

ReadEdges(r, n) ==
  /\ IsNext(n, EdgesUnread(r)) /\ ~ Raises(r)
  /\ edge_cache' = [edge_cache EXCEPT ![r][n] = {e \in edges : n \in {e.source, e.target}}]
  /\ UNCHANGED <<tables, damages, writing, rpc, ask, printed, revision, node_cache, scores, answer>>

After(op, phase) ==
  CASE phase = "anchor" -> IF op = "dependencies" THEN "inspect" ELSE "walk"
    [] phase = "walk" -> IF op = "next" THEN "pick" ELSE "score"
    [] phase = "pick" -> "score"
    [] phase \in {"fetch", "inspect"} -> "stable"

Proceed(r) ==
  /\ rpc[r] \in {"anchor", "walk", "pick", "fetch", "inspect"}
  /\ NodesUnread(r) = {} /\ EdgesUnread(r) = {} /\ ~ Raises(r)
  /\ Phase(r, After(ask[r].op, rpc[r]))
  /\ UNCHANGED <<tables, damages, writing, ask, printed, revision, caches, answer>>

\* term_scores of the nodes found (next: of the tasks among them).
Scored(r) == IF ask[r].op = "next" THEN Inspected(r) ELSE Others(r)

\* The term rows are those of the payload.
WellScored(n) == IF nodes[n] = Broken THEN FALSE ELSE terms[n] = WeightOf(nodes[n])

Score(r) ==
  /\ rpc[r] = "score"
  /\ \A n \in Scored(r) : WellScored(n)
  /\ scores' = [scores EXCEPT ![r] =
       [n \in NodeIds |-> IF n \in Scored(r) /\ terms[n] # Missing THEN terms[n] ELSE 0]]
  /\ Phase(r, IF ask[r].op = "next" THEN "inspect" ELSE "fetch")
  /\ UNCHANGED <<tables, damages, writing, ask, printed, revision, node_cache, edge_cache, answer>>

-----------------------------------------------------------------------------
(* Answers. *)

\* The level of a walk at which a node is found; within[k] is what the walk
\* reaches in k steps.
Level(within, n) == CHOOSE k \in DOMAIN within :
  n \in within[k] /\ \A j \in 0..(k - 1) : n \notin within[j]

DependencyStates(r, t) ==
  LET dd == ask[r].dependency_depth
      within == [k \in 0..dd |-> Below(r, t, k)]
  IN  {[id |-> n, depth |-> Level(within, n), satisfied |-> node_cache[r][n].kind = "completed"] :
         n \in within[dd] \ {t}}

\* Mutant: a traversal that stops at its depth counts as complete.
TruncatedNever(r, t) == FALSE

\* Something further below was not looked at.
Truncated(r, t) == Below(r, t, ask[r].dependency_depth + 1) # Below(r, t, ask[r].dependency_depth)

Inspection(r, t) ==
  LET states == DependencyStates(r, t)
  IN  [dependencies |-> states,
       truncated |-> Truncated(r, t),
       all_satisfied |-> (\A s \in states : s.satisfied) /\ ~ Truncated(r, t)]

GraphScore(depth) == (MaxDepth + 1 - depth) * 10

Candidate(r, n) ==
  LET depth == Level([k \in 0..ask[r].depth |-> Around(r, k)], n)
  IN  [id |-> n, depth |-> depth,
       total |-> scores[r][n] * 100 + GraphScore(depth),
       eligible |-> ask[r].op = "next" /\ node_cache[r][n].kind = "ready"
                      /\ Inspection(r, n).all_satisfied]

\* Mutant: the candidates are ranked by their scores alone.
BetterByScore(a, b) ==
  \/ a.total > b.total
  \/ a.total = b.total /\ a.depth < b.depth
  \/ a.total = b.total /\ a.depth = b.depth /\ a.id < b.id

\* The sort keys of next_step_context and of search.
Better(a, b) ==
  \/ a.eligible /\ ~ b.eligible
  \/ /\ a.eligible = b.eligible
     /\ \/ a.total > b.total
        \/ a.total = b.total /\ a.depth < b.depth
        \/ a.total = b.total /\ a.depth = b.depth /\ a.id < b.id

Ranked(cs, limit) == {c \in cs : Cardinality({b \in cs : Better(b, c)}) < limit}

Listed(r) ==
  Ranked({Candidate(r, n) : n \in IF ask[r].op = "next" THEN Inspected(r)
                                  ELSE {m \in Others(r) : scores[r][m] > 0}}, ask[r].limit)

Answered(r) ==
  [revision |-> revision[r],
   listed |-> IF ask[r].op = "dependencies" THEN {} ELSE Listed(r),
   inspection |-> IF ask[r].op = "dependencies" THEN Inspection(r, ask[r].anchor) ELSE Missing]

\* Mutant: the read is not fenced.
RequireStableRevisionSkipped(r) == Intact

RequireStableRevision(r) == Intact /\ Revision = revision[r]

\* The answer is made, the revision read again, and the caches are gone.
Return(r) ==
  /\ rpc[r] = "stable"
  /\ RequireStableRevision(r)
  /\ answer' = [answer EXCEPT ![r] = Answered(r)]
  /\ node_cache' = [node_cache EXCEPT ![r] = Blank] /\ edge_cache' = [edge_cache EXCEPT ![r] = Blank]
  /\ scores' = [scores EXCEPT ![r] = Blank] /\ revision' = [revision EXCEPT ![r] = Missing]
  /\ Phase(r, "render")
  /\ UNCHANGED <<tables, damages, writing, ask, printed>>

\* The command prints it with the revision it noted, if that is still the one.
Printable(r) == ask[r].op = "next" \/ (Intact /\ Revision = printed[r])

Render(r) ==
  /\ rpc[r] = "render"
  /\ Printable(r)
  /\ Phase(r, "done")
  /\ UNCHANGED <<tables, damages, writing, ask, printed, revision, caches, answer>>

\* The call raised, or was printed and is forgotten.
Finished(r) ==
  /\ \/ rpc[r] = "done"
     \/ rpc[r] = "open" /\ ~ Intact
     \/ rpc[r] = "stable" /\ ~ RequireStableRevision(r)
     \/ rpc[r] = "render" /\ ~ Printable(r)
     \/ rpc[r] = "score" /\ \E n \in Scored(r) : ~ WellScored(n)
     \/ Raises(r)
     \/ EdgesUnread(r) = {} /\ \E n \in NodesUnread(r) :
          IsNext(n, NodesUnread(r)) /\ nodes[n] \in {Missing, Broken}
  /\ Over(r)
  /\ UNCHANGED <<tables, damages, writing>>

-----------------------------------------------------------------------------
\* Somebody changes the database file: a term row, a row that contradicts its
\* payload, a row that is well-formed, or the metadata.
Tamper(m, ns, ts, es) ==
  /\ meta # "none" /\ damages < MaxDamages
  /\ damages' = damages + 1
  /\ meta' = m /\ nodes' = ns /\ terms' = ts /\ edges' = es
  /\ UNCHANGED <<writing, reading>>

KInit ==
  /\ meta = "none" /\ nodes = Blank /\ terms = Blank /\ edges = {} /\ damages = 0
  /\ wpc = [w \in Writers |-> "idle"] /\ wedge = [w \in Writers |-> Missing]
  /\ rpc = [r \in Readers |-> "idle"] /\ ask = [r \in Readers |-> Missing]
  /\ printed = [r \in Readers |-> Missing] /\ revision = [r \in Readers |-> Missing]
  /\ node_cache = [r \in Readers |-> Blank] /\ edge_cache = [r \in Readers |-> Blank]
  /\ scores = [r \in Readers |-> Blank] /\ answer = [r \in Readers |-> Missing]

Damage ==
  \/ Tamper("other", nodes, terms, edges)
  \/ \E e \in Links \ edges : Tamper(meta, nodes, terms, edges \cup {e})
  \/ \E n \in NodeIds : nodes[n] # Missing /\
       \/ Tamper(meta, [nodes EXCEPT ![n] = Broken], terms, edges)
       \/ Tamper(meta, nodes, [terms EXCEPT ![n] = Missing], edges)
       \/ \E s \in Submissions : s.id = n /\ s # nodes[n] /\
            Tamper(meta, [nodes EXCEPT ![n] = s], [terms EXCEPT ![n] = s.weight], edges)

Write ==
  \/ Initialize
  \/ \E s \in Submissions : AddNode(s)
  \/ \E w \in Writers : (\E e \in Links : AddEdge(w, e)) \/ ReadTarget(w) \/ PutEdge(w)

ReadStep(r) ==
  \/ \E q \in Requests : Ask(r, q)
  \/ Open(r) \/ Proceed(r) \/ Score(r) \/ Return(r) \/ Render(r) \/ Finished(r)
  \/ \E n \in NodeIds : ReadNode(r, n) \/ ReadEdges(r, n)

KNext == Write \/ Damage \/ \E r \in Readers : ReadStep(r)

KSpec == KInit /\ [][KNext]_kvars

-----------------------------------------------------------------------------
(* Properties. *)

\* Types of the tables and of the processes; answers within their limits.
KTypeOK ==
  /\ meta \in {"none", "ours", "other"} /\ damages \in 0..MaxDamages
  /\ nodes \in [NodeIds -> Submissions \cup {Missing, Broken}] /\ edges \subseteq Links
  /\ \A n \in NodeIds : nodes[n] \notin {Missing, Broken} => nodes[n].id = n
  /\ wpc \in [Writers -> {"idle", "target", "put"}]
  /\ rpc \in [Readers -> {"idle", "open", "anchor", "walk", "pick", "score", "fetch", "inspect",
                          "stable", "render", "done"}]
  /\ \A r \in Readers : answer[r] # Missing =>
       /\ Cardinality(answer[r].listed) <= ask[r].limit
       /\ answer[r].inspection # Missing =>
            Cardinality(answer[r].inspection.dependencies) <= MaxDependencies

\* Ranks that fall along every dependency: there is no cycle.
Ordered(es) ==
  \E rank \in [NodeIds -> NodeIds] :
    \A e \in es : e.type \in {"depends_on", "requires"} => rank[e.source] > rank[e.target]

\* Writers that add dependencies of either type at the same time never close a
\* cycle between them, and both ends of a dependency are tasks
\* (test_concurrent_opposite_dependency_writes_admit_exactly_one).
DependenciesAcyclic ==
  damages = 0 =>
    /\ Ordered(edges)
    /\ \A e \in edges : e.type # "relates_to" => IsTask(nodes[e.source]) /\ IsTask(nodes[e.target])

\* An index somebody has damaged is not written to
\* (test_corrupt_index_rejects_writes_without_mutation_or_metadata_repair).
CorruptIsFrozen ==
  [][ damages' = damages /\ tables' # tables /\ meta # "none" =>
        /\ meta = "ours" /\ Ordered(edges)
        /\ \A n \in NodeIds : nodes[n] # Broken /\ (nodes[n] = Missing <=> terms[n] = Missing) ]_kvars

Related(rev) == UNION {{<<e.source, e.target>>, <<e.target, e.source>>} : e \in rev.edges}
Depending(rev) == {<<e.source, e.target>> : e \in {x \in rev.edges : x.type # "relates_to"}}

Joined(R, a, b, k) ==
  \E path \in [0..k -> NodeIds] :
    path[0] = a /\ path[k] = b /\ \A i \in 0..(k - 1) : <<path[i], path[i + 1]>> \in R

\* The nodes other than a at most depth steps from it, with their distances.
Distances(R, a, depth) ==
  {p \in (NodeIds \ {a}) \X (1..depth) :
     Joined(R, a, p[1], p[2]) /\ \A j \in 1..(p[2] - 1) : ~ Joined(R, a, p[1], j)}

\* A search, an inspection or a plan that is printed is the one of the revision it
\* names: the nodes at the distances they have there, with their scores, however
\* the index changed between the queries
\* (test_graph_queries_fail_closed_when_revision_changes_mid_read).
ReadIsOneRevision ==
  \A r \in Readers : rpc[r] = "done" =>
    LET q == ask[r]
        rev == answer[r].revision
        found == {p \in Distances(Related(rev), q.anchor, q.depth) :
                    IF q.op = "next" THEN rev.nodes[p[1]].kind # "knowledge" ELSE rev.nodes[p[1]].weight > 0}
    IN  /\ q.op # "next" => printed[r] = rev
        /\ q.op = "dependencies" =>
             {<<s.id, s.depth>> : s \in answer[r].inspection.dependencies}
               = Distances(Depending(rev), q.anchor, q.dependency_depth)
        /\ q.op # "dependencies" =>
             /\ {<<c.id, c.depth>> : c \in answer[r].listed} \subseteq found
             /\ Cardinality(answer[r].listed)
                  = IF Cardinality(found) < q.limit THEN Cardinality(found) ELSE q.limit
             /\ \A c \in answer[r].listed :
                  c.total = rev.nodes[c.id].weight * 100 + (MaxDepth + 1 - c.depth) * 10

\* Everything task t depends on, however far away, is completed.
AllCompleted(rev, t) ==
  \E done \in SUBSET {n \in NodeIds : rev.nodes[n] # Missing /\ rev.nodes[n].kind = "completed"} :
    \A d \in Depending(rev) : d[1] \in done \cup {t} => d[2] \in done

\* A task shown as eligible is ready and has no open dependency at any distance,
\* and dependencies reported as satisfied are, although the traversal stops at a
\* depth (inspect_in_context; test_dependency_inspection_reports_depth_truncation).
EligibleIsReady ==
  \A r \in Readers : rpc[r] = "done" =>
    LET rev == answer[r].revision IN
      /\ \A c \in answer[r].listed : c.eligible =>
            rev.nodes[c.id].kind = "ready" /\ AllCompleted(rev, c.id)
      /\ ask[r].op = "dependencies" /\ answer[r].inspection.all_satisfied =>
            AllCompleted(rev, ask[r].anchor)

\* A limit never hides a task that can be started behind one that cannot: a ready
\* task near the anchor whose dependencies are completed and within the depth is
\* shown as eligible, or the list is full of such tasks (next_step_context).
EligibleShown ==
  \A r \in Readers : rpc[r] = "done" /\ ask[r].op = "next" =>
    LET q == ask[r]
        rev == answer[r].revision
        shown == {c.id : c \in {x \in answer[r].listed : x.eligible}}
        startable == {p[1] : p \in {x \in Distances(Related(rev), q.anchor, q.depth) :
                        /\ rev.nodes[x[1]].kind = "ready"
                        /\ AllCompleted(rev, x[1])
                        /\ Distances(Depending(rev), x[1], NNodes)
                             = Distances(Depending(rev), x[1], q.dependency_depth)}}
    IN  startable \subseteq shown \/ Cardinality(shown) = q.limit
=============================================================================
