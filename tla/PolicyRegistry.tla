---------------------------- MODULE PolicyRegistry ----------------------------
(* From an evolution run to the policy workers use (evolution.py, policy.py).*)
(*                                                                           *)
(* An evolution run measures a candidate and writes result.json; an operator *)
(* approves it and, in a later command, activates it; workers and commands   *)
(* load the active policy.  Every command is a process of its own: it reads  *)
(* the signing key or, if there is none, creates the file and then writes    *)
(* it.  Files may be edited by hand, and processes killed, between any two   *)
(* steps.  A signature is the key and the payload it was made over; a        *)
(* candidate stands for its hash.                                            *)
EXTENDS Naturals, FiniteSets, FiniteSetsExt

CONSTANTS
  NULL,
  Started,           \* an evolution run without a result.json
  Empty,             \* the key file between its creation and its writing
  Procs,             \* commands that may run at once
  EvolutionIds,
  Candidates,
  Train, Holdout,    \* example identifiers
  MaxScore,          \* the score 1.0; scores are integers up to it
  MinTrainGain, MinHoldoutGain,   \* the deltas of the means times the examples
  RequireAll,        \* require_all_holdout_success
  MaxCalls,          \* bound: commands
  MaxCrashes,        \* bound: processes killed
  MaxEdits           \* bound: files edited by hand

Pairs == EvolutionIds \X Candidates
Payload == [evolution : EvolutionIds, candidate : Candidates]
Signature == [key : Procs \cup {Empty}, over : Payload]
Document == [payload : Payload, signature : Signature]
Result == [accepted : BOOLEAN, earned : BOOLEAN, candidate : Candidates]

ASSUME RegistryAssumption ==
  /\ NULL \notin Procs \cup Candidates \cup {Started, Empty} \cup Result \cup Document
  /\ NULL \notin {"read", "create", "write", "have"}
  /\ Started \notin Result /\ Empty \notin Procs
  /\ IsFiniteSet(Train) /\ IsFiniteSet(Holdout)
  /\ {MaxScore, MinTrainGain, MinHoldoutGain} \subseteq Nat \ {0}
  /\ RequireAll \in BOOLEAN
  /\ {MaxCalls, MaxCrashes, MaxEdits} \subseteq Nat

VARIABLES
  results, approvals, active, key,   \* files; key names its creator, or is empty
  pc, keystep, local, held,          \* of each command: where, what it read, its key
  calls, crashes, edits,
  approved, loaded, edited           \* history

files == <<results, approvals, active>>
process == <<pc, keystep, local, held>>
bounds == <<calls, crashes, edits>>
history == <<approved, loaded, edited>>
rvars == <<files, key, process, bounds, history>>

-----------------------------------------------------------------------------
(* Evolution. *)

Observation == [score : 0..MaxScore, success : BOOLEAN, gate : BOOLEAN]

\* _evaluate_set.  Both policies see the same examples, so that totals compare
\* as means do.
Aggregate(obs, examples) ==
  [ total     |-> MapThenSumSet(LAMBDA e : obs[e].score, examples),
    successes |-> Cardinality({e \in examples : obs[e].success}),
    gates     |-> \A e \in examples : obs[e].gate ]

\* Mutant: the hard gates of the holdout set are not looked at.
AcceptedGates(bt, bh, ct, ch) ==
  /\ ct.total >= bt.total + MinTrainGain
  /\ ch.total >= bh.total + MinHoldoutGain
  /\ ch.successes >= bh.successes
  /\ RequireAll => ch.successes = Cardinality(Holdout)
  /\ ct.gates

\* No reason to reject: aggregates of the baseline and of the candidate.
Accepted(bt, bh, ct, ch) ==
  /\ ct.total >= bt.total + MinTrainGain
  /\ ch.total >= bh.total + MinHoldoutGain
  /\ ch.successes >= bh.successes
  /\ RequireAll => ch.successes = Cardinality(Holdout)
  /\ ct.gates
  /\ ch.gates

\* What a proposal is worth, example by example: the candidate beats the
\* baseline somewhere in each set, breaks no gate, and solves the holdout set.
Earned(bt, bh, ct, ch) ==
  /\ \E e \in Train : ct[e].score > bt[e].score
  /\ \E e \in Holdout : ch[e].score > bh[e].score
  /\ \A e \in Train : ct[e].gate
  /\ \A e \in Holdout : ch[e].gate /\ (RequireAll => ch[e].success)

\* Everything four evaluations may come to; the evaluator runs an agent, so
\* that any observation may follow any other.
Verdicts ==
  { [ accepted |-> Accepted(Aggregate(bt, Train), Aggregate(bh, Holdout),
                            Aggregate(ct, Train), Aggregate(ch, Holdout)),
      earned   |-> Earned(bt, bh, ct, ch) ] :
      bt \in [Train -> Observation], ct \in [Train -> Observation],
      bh \in [Holdout -> Observation], ch \in [Holdout -> Observation] }

IsResult(r) == r \notin {NULL, Started}

\* run: the sets are disjoint, and the directory of the run is new: mkdir
\* refuses one that exists, whoever made it.
StartEvolution(e) ==
  /\ Train # {} /\ Holdout # {} /\ Train \cap Holdout = {}
  /\ results[e] = NULL
  /\ results' = [results EXCEPT ![e] = Started]
  /\ UNCHANGED <<approvals, active, key, process, bounds, history>>

\* The engine fixes a candidate, it is evaluated and result.json written.  A
\* run that is killed before leaves its directory, and its id is spent.
FinishEvolution(e) ==
  /\ results[e] = Started
  /\ \E v \in Verdicts, c \in Candidates :
       results' = [results EXCEPT ![e] = [accepted |-> v.accepted, earned |-> v.earned,
                                          candidate |-> c]]
  /\ UNCHANGED <<approvals, active, key, process, bounds, history>>

-----------------------------------------------------------------------------
(* Commands. *)

Enter(p, at, read) ==
  /\ pc[p] = "idle" /\ calls < MaxCalls
  /\ calls' = calls + 1
  /\ pc' = [pc EXCEPT ![p] = at]
  /\ keystep' = [keystep EXCEPT ![p] = "read"]
  /\ local' = [local EXCEPT ![p] = read]
  /\ UNCHANGED <<files, key, held, crashes, edits, history>>

Leave(p) ==
  /\ pc' = [pc EXCEPT ![p] = "idle"]
  /\ keystep' = [keystep EXCEPT ![p] = NULL]
  /\ local' = [local EXCEPT ![p] = NULL]
  /\ held' = [held EXCEPT ![p] = NULL]

\* PolicyError or OSError: the command ends and has written nothing.
Fail(p) == Leave(p) /\ UNCHANGED <<files, key, bounds, history>>

Proposed(e) == IsResult(results[e]) /\ results[e].accepted

\* approve: an accepted result is read.
Approve(p, e) ==
  /\ Proposed(e)
  /\ Enter(p, "approve",
           [evolution |-> e, candidate |-> results[e].candidate])

\* activate: the result and the approval the operator names are read.
Activate(p, e, x) ==
  /\ Proposed(e) /\ approvals[x] # NULL
  /\ Enter(p, "verify",
           [evolution |-> e, candidate |-> results[e].candidate, approval |-> approvals[x]])

\* load_active
LoadActive(p) ==
  /\ active # NULL
  /\ Enter(p, "load", active)

-----------------------------------------------------------------------------
(* _load_or_create_key *)

ReadKey(p) ==
  /\ keystep[p] = "read"
  /\ \/ /\ key # NULL
        /\ keystep' = [keystep EXCEPT ![p] = "have"]
        /\ held' = [held EXCEPT ![p] = key]
     \/ /\ key = NULL
        /\ keystep' = [keystep EXCEPT ![p] = "create"]
        /\ UNCHANGED held
  /\ UNCHANGED <<files, key, pc, local, bounds, history>>

\* Mutant: the file is opened without O_EXCL.
CreateKeyTruncates(p) ==
  /\ keystep[p] = "create"
  /\ key' = Empty
  /\ keystep' = [keystep EXCEPT ![p] = "write"]
  /\ UNCHANGED <<files, pc, local, held, bounds, history>>

\* O_EXCL: a command that finds the file made since it looked fails.
CreateKey(p) ==
  /\ keystep[p] = "create"
  /\ \/ /\ key = NULL
        /\ key' = Empty
        /\ keystep' = [keystep EXCEPT ![p] = "write"]
        /\ UNCHANGED <<files, pc, local, held, bounds, history>>
     \/ /\ key # NULL
        /\ Fail(p)

\* The key is random: it is told apart by the command that made it.
WriteKey(p) ==
  /\ keystep[p] = "write"
  /\ key' = p
  /\ keystep' = [keystep EXCEPT ![p] = "have"]
  /\ held' = [held EXCEPT ![p] = p]
  /\ UNCHANGED <<files, pc, local, bounds, history>>

\* _sign, _verify
Sign(p, payload) == [key |-> held[p], over |-> payload]
Verified(p, doc) == doc.signature = Sign(p, doc.payload)
PayloadOf(p) == [evolution |-> local[p].evolution, candidate |-> local[p].candidate]

-----------------------------------------------------------------------------

\* approve, signed: an approval that is there already is kept.
CheckApproval(p) ==
  /\ pc[p] = "approve" /\ keystep[p] = "have"
  /\ LET x == <<local[p].evolution, local[p].candidate>> IN
     \/ /\ approvals[x] # NULL
        /\ Fail(p)
     \/ /\ approvals[x] = NULL
        /\ pc' = [pc EXCEPT ![p] = "write_approval"]
        /\ approved' = approved \cup {x}
        /\ UNCHANGED <<files, key, keystep, local, held, bounds, loaded, edited>>

WriteApproval(p) ==
  /\ pc[p] = "write_approval"
  /\ approvals' = [approvals EXCEPT ![<<local[p].evolution, local[p].candidate>>] =
                     [payload |-> PayloadOf(p), signature |-> Sign(p, PayloadOf(p))]]
  /\ Leave(p)
  /\ UNCHANGED <<results, active, key, bounds, history>>

\* Mutant: the hash of the candidate is not compared.
BoundByRun(p) == local[p].approval.payload.evolution = local[p].evolution

\* The approval is about this run and this candidate.
Bound(p) == local[p].approval.payload = PayloadOf(p)

\* activate: the approval is verified, then the key is read again to sign.
VerifyApproval(p) ==
  /\ pc[p] = "verify" /\ keystep[p] = "have"
  /\ \/ /\ Verified(p, local[p].approval) /\ Bound(p)
        /\ pc' = [pc EXCEPT ![p] = "sign"]
        /\ keystep' = [keystep EXCEPT ![p] = "read"]
        /\ held' = [held EXCEPT ![p] = NULL]
        /\ UNCHANGED <<files, key, local, bounds, history>>
     \/ /\ ~ (Verified(p, local[p].approval) /\ Bound(p))
        /\ Fail(p)

WriteActive(p) ==
  /\ pc[p] = "sign" /\ keystep[p] = "have"
  /\ active' = [payload |-> PayloadOf(p), signature |-> Sign(p, PayloadOf(p))]
  /\ Leave(p)
  /\ UNCHANGED <<results, approvals, key, bounds, history>>

\* load_active: the candidate is returned.
Loaded(p) ==
  /\ pc[p] = "load" /\ keystep[p] = "have"
  /\ \/ /\ Verified(p, local[p])
        /\ loaded' = loaded \cup {<<local[p].payload.evolution, local[p].payload.candidate>>}
        /\ Leave(p)
        /\ UNCHANGED <<files, key, bounds, approved, edited>>
     \/ /\ ~ Verified(p, local[p])
        /\ Fail(p)

-----------------------------------------------------------------------------
(* The world. *)

Crash(p) ==
  /\ crashes < MaxCrashes /\ pc[p] # "idle"
  /\ crashes' = crashes + 1
  /\ Leave(p)
  /\ UNCHANGED <<files, key, calls, edits, history>>

Edited(doc, c) == [doc EXCEPT !.payload.candidate = c]

\* Somebody changes the candidate in a file and leaves the signature.
Edit(c) ==
  /\ edits < MaxEdits
  /\ edits' = edits + 1
  /\ \/ \E e \in EvolutionIds :
          /\ IsResult(results[e])
          /\ results' = [results EXCEPT ![e].candidate = c]
          /\ edited' = edited \cup {e}
          /\ UNCHANGED <<approvals, active>>
     \/ \E x \in Pairs :
          /\ approvals[x] # NULL
          /\ approvals' = [approvals EXCEPT ![x] = Edited(@, c)]
          /\ UNCHANGED <<results, active, edited>>
     \/ /\ active # NULL
        /\ active' = Edited(active, c)
        /\ UNCHANGED <<results, approvals, edited>>
  /\ UNCHANGED <<key, process, calls, crashes, approved, loaded>>

-----------------------------------------------------------------------------
RInit ==
  /\ results = [e \in EvolutionIds |-> NULL]
  /\ approvals = [x \in Pairs |-> NULL]
  /\ active = NULL /\ key = NULL
  /\ pc = [p \in Procs |-> "idle"]
  /\ keystep = [p \in Procs |-> NULL]
  /\ local = [p \in Procs |-> NULL]
  /\ held = [p \in Procs |-> NULL]
  /\ calls = 0 /\ crashes = 0 /\ edits = 0
  /\ approved = {} /\ loaded = {} /\ edited = {}

Command(p) ==
  \/ \E e \in EvolutionIds : Approve(p, e)
  \/ \E e \in EvolutionIds, x \in Pairs : Activate(p, e, x)
  \/ LoadActive(p)
  \/ ReadKey(p) \/ CreateKey(p) \/ WriteKey(p)
  \/ CheckApproval(p) \/ WriteApproval(p)
  \/ VerifyApproval(p) \/ WriteActive(p) \/ Loaded(p)

RNext ==
  \/ \E e \in EvolutionIds : StartEvolution(e) \/ FinishEvolution(e)
  \/ \E p \in Procs : Command(p) \/ Crash(p)
  \/ \E c \in Candidates : Edit(c)

RSpec == RInit /\ [][RNext]_rvars

-----------------------------------------------------------------------------
(* Properties. *)

\* Types: in particular nothing is ever signed without a key.
RTypeOK ==
  /\ results \in [EvolutionIds -> Result \cup {NULL, Started}]
  /\ approvals \in [Pairs -> Document \cup {NULL}]
  /\ active \in Document \cup {NULL}
  /\ key \in Procs \cup {Empty, NULL}
  /\ held \in [Procs -> Procs \cup {Empty, NULL}]

\* A policy that load_active returns was approved by an operator for that run and
\* with that content, whatever was edited and whoever was killed ("파일 tampering은
\* 실패한다", docs/architecture-and-data-pipeline.md); unless its result was edited,
\* it also beat the baseline on both sets, broke no hard gate and solved the
\* holdout set (EvolutionRunner.run).
PolicyWasEarned ==
  \A x \in loaded :
    /\ x \in approved
    /\ x[1] \notin edited => results[x[1]].earned /\ results[x[1]].candidate = x[2]

\* A signature made with a whole key verifies for ever: the key file is written
\* once, however many commands create it together.  One made with the empty
\* file, between its creation and its writing, does not.
WholeKeyIsForever ==
  /\ \A x \in Pairs :
       approvals[x] # NULL /\ approvals[x].signature.key # Empty => approvals[x].signature.key = key
  /\ active # NULL /\ active.signature.key # Empty => active.signature.key = key

=============================================================================
