# A TLA+ model of Sisyphus-Harness

Sisyphus-Harness runs coding Agents on submitted tasks, verifies what they
produced in isolation, and records a verdict. Jobs live in one SQLite file;
any number of worker and Control processes work on it, none of them knows of
the others, each may die at any moment, and all that keeps them apart is a
lease, an attempt number and a handful of conditional updates. This project
models that core, what its verdicts are made of (the verifiers, the evidence
contract, the stores of bundles, assets and evidence), the tools of the Agent and
the two registries beside it. It model-checks all of them on small instances, and
proves the safety of nearly all of them for every instance.

Source paths below are relative to `src/src/sisyphus_harness/`.

## 1. Inventory

| component | state it keeps | operations | how it meets the others |
|---|---|---|---|
| Job queue (`queue.py`, `models.py`) | tables `jobs`, `attempt_finished` | enqueue, claim, heartbeat, complete, fail, finish_attempt, get | called by submitters, workers, keepers; one `BEGIN IMMEDIATE` transaction per call |
| Database (`database.py`) | the SQLite file, schema version | initialize (migrations), connection, transaction | under the queue and the outcome authority |
| Worker (`worker.py`) | attempt workspaces, lease keeper thread | run_once, LeaseKeeper | claims a job, runs one Agent, publishes an `AttemptFinished` |
| Agent run (`agent*.py`, `compaction.py`, `run_store.py`) | `AgentRunState`, the workspace, run artifacts | the step loop, tool transitions, final and intermediate verification, compaction | calls the model, the tools, the verification port |
| Control outcomes (`services/control_outcomes.py`, `infra/control_outcomes.py`) | table `task_outcomes` | adjudicate, publish_task_outcome | reads the lineage, runs a verification, publishes one outcome per job |
| Evidence adjudication (`services/evidence_contract.py`) | none | adjudicate | verifies the output bundle, reads the receipt back, evaluates the contract |
| Evidence contract (`evidence_contract.py`) | none | lint, evaluate | pure function used by adjudication |
| Verifiers (`verifier.py`, `adapters/docker_*.py`, `services/verifier.py`, `adapters/bundle_verification.py`) | staging directories, containers | execute, verify | produce receipts |
| Evidence store (`adapters/docker_evidence.py`, `infra/verification_evidence.py`) | a directory per run id, request records, lock files | publish, read_receipt | shared by Control and Agents |
| Bundle and asset stores (`infra/workspace_bundle.py`, `infra/verifier_assets.py`) | content-addressed files | create, load, materialize | source and output of an attempt |
| Workspace tools (`tools.py`, `workspace_tool_*.py`) | files of a workspace | read, write, replace, delete, list, search | called by the Agent |
| Policy and evolution (`policy.py`, `evolution.py`) | approvals, the active policy, a signing key | approve, activate, load_active, evolve | supplies the Agent's policy |
| Knowledge graph (`knowledge_*.py`, `infra/knowledge_*.py`) | an index of tasks and knowledge in SQLite, with a revision digest | init, put node, put edge, search, dependencies, next | commands of an operator; readers and writers are processes of their own |
| Benchmarks, configuration, composition, CLI | none of their own | | wiring and drivers |

What is hard here:

- **time**: `claim`, `heartbeat`, `_finish` and `finish_attempt` read the clock
  *before* they wait up to 30 s for the write lock, so every comparison with a
  lease may be made with a stale reading;
- **two threads per worker**: the keeper may lose the lease after the main
  thread last looked;
- **retries**: an expired job is claimed again while its first holder is still
  running, with directories on disk that a crash left;
- **Control is not a transaction**: the attempt and the outcome are read on two
  connections, minutes before the outcome is published;
- **an Agent run is at the mercy of what it calls**: the model, the tools, the
  verifier and the deadline may do anything, and the loop must end, must not
  report an unverified success, and must show the model a true picture;
- **a command is a tree of processes**: output, exit, timeout, overflow and
  children that outlive their parent race the threads that capture them;
- **files are not read at one moment**: workspaces and asset directories are edited
  while they are bundled, files of the stores may change between the hash and the
  use, and each operation may be the last one before a crash;
- **several files make one decision**: a policy is a result, an approval, an
  activation and a key; a graph query is a dozen SQL queries.

The properties that make each part correct are in section 4; `PROJECT.json`
lists every hazard at its line with the properties that would catch it.

## 2. Modules

| module | models | composes |
|---|---|---|
| `JobQueue` | the two tables and the transactions of `queue.py`, under arbitrary clock readings | |
| `TaskLifecycle` | abstract: what the harness promises about one task | |
| `ControlOutcome` | `adjudicate()` step by step, `task_outcomes`, the evidence store | extends `JobQueue`, implements `TaskLifecycle` |
| `CodingWorker` | `run_once`, the LeaseKeeper thread, attempt and run directories, the clock, crashes | extends `JobQueue` |
| `AgentRun` | the Agent loop, its transitions, run state and compaction | |
| `EvidenceStore` | abstract: run ids are written once, what a caller was told of stays | |
| `EvidencePublisher` | `DockerEvidencePublisher.publish` and the read that follows it, with failing file operations, kills and power failures | implements `EvidenceStore` |
| `HostVerification` | `DockerHostVerifier.execute`: probe, container, cleanup, hashes, receipt | |
| `BoundedVerifier` | `verifier.py`: commands as local processes, the selector loop and the threads that capture them, termination | |
| `EvidenceContract` | `evidence_contract.py` and its models: constructors, lint, predicates, three-valued expressions | |
| `EvidenceAdjudication` | receipt to observations to verdict; observations of a closure rule that arrive one by one | extends `EvidenceContract` |
| `WorkspaceBundles` | `infra/workspace_bundle.py`, the bundle view of a container, the reconstruction in `services/verifier.py` | |
| `VerifierAssets` | `infra/verifier_assets.py` and the asset mount around a verification | extends `WorkspaceBundles` (same kind of state) |
| `WorkspaceTools` | the six tools of the model, the path policy, the hash guard, the atomic write | |
| `PolicyRegistry` | `evolution.py`'s gates, `policy.py` | |
| `KnowledgeIndex` | `infra/knowledge_*.py`, `knowledge_*.py` and the commands around them | |
| `QueueProofs` | theorems about `JobQueue`, `ControlOutcome` and `CodingWorker` | extends the two that extend `JobQueue` |
| `StoresProofs` | theorems about `WorkspaceBundles` and `VerifierAssets` | extends `VerifierAssets` |
| `RegistriesProofs` | theorems about `PolicyRegistry` and `KnowledgeIndex` | extends both |
| `EvidenceProofs` | theorems about `EvidenceContract`, `EvidenceAdjudication` and `EvidencePublisher` | extends the last two |
| `AgentRunProofs`, `HostVerificationProofs`, `BoundedVerifierProofs`, `WorkspaceToolsProofs` | theorems | extend their components |
| `MC*` | constants for TLC | |

### JobQueue

`jobs[j]` is the row of job `j` (`NoRow` while there is none);
`attempt_finished` is the table of that name. `accepted` and `granted` are
history: the answers of `enqueue` and the claims handed out. One action is one
transaction. A call that raises or returns `None` writes nothing and is not a
step. Every transaction takes *any* reading `now` of `Times`: this covers stale
readings, callers that pass `now`, and a wall clock set back. What holds here
holds whatever the clocks say. `updated_at` is never read and is left out;
`created_at` is the rank of its text.

### ControlOutcome

A call of `adjudicate()` is `control[p]`: `idle`, `attempt` (after
`get_attempt_finished`), `verify` (after `get_task_outcome` found nothing) or
`publish`. `Verify` stands for `ControlEvidenceContractService.adjudicate`: the
verification runs over the attempt's output bundle, its receipt is published
under the requested run id, which must be free, is read back and evaluated.
`Evaluate` is a constant: *any* function from contracts and facts to
decisions. The producer authority is part of the contract. Agents publish
diagnostic runs in the same store (`AgentVerifies`). The queue's own steps
interleave everywhere.

### CodingWorker

Each queue call is two steps, `...Read` (the clock reading) and `...Commit` (the
transaction). `proc[p]` is the main thread, `keeper[p]` the heartbeat thread; the
clock ticks, a process may be killed at any point and a later `worker-once` of
the same id starts afresh. `attempt_dirs` and `run_dirs` are what is on disk;
`rmtree(ignore_errors=True)` may leave the attempt directory. Two processes may
have been started with the same `--worker-id` (`WorkerIdOf`). The Agent is one
step here; its inside is `AgentRun`.

### AgentRun

One action per branch of `_run_step`. The workspace is its state hash; a tool
keeps it, changes it, or fails after changing it; a verification runs every
command, each with any result, and may change the workspace; the model answers
any decision or none; the deadline passes at any time; an exception of a
verifier or an observation leaves the loop (`Raise`, no result). `verdict`,
`unverified` and `recorded` are history. Prompts, parsing, artifacts and file
contents are left out; the transcript being too long is a nondeterministic
choice in `BeginStep`.

### EvidencePublisher

`call[p]` is one call of `DockerVerifierTransport.execute` from the moment its
verification is staged: the exclusive lock file, the two checks, the request
record, the rename of the staged directory, the syncs, the removal of the record
if the rename failed, the release of the lock, the read back. Each file operation
is a step and each may fail. `locks`, `runs` and `records` are the directory
entries processes see, `disk` is the copy of them that a power failure cannot
undo. An fsync of a directory makes all its entries durable; a power failure keeps
or loses each entry changed since. `service-requests` is taken to exist and file
contents are synced before their rename, as the code does. `ControlOutcome` uses
the store as `EvidenceStore` describes it. The compatibility service in
`services/verifier.py` writes records without the lock and is not modelled.

### HostVerification

One request with its commands, from the first hash to the receipt that
`EvidencePublisher` stages. `live` is the set of commands whose containers run: one
at a time is waited for, but a container outlives a killed docker client and
`remove_container` ignores its own failure, so earlier ones may be there too. A
live container may write at any time, and a hash taken meanwhile may be of
anything (`Seen`). A timeout, an overflow and a failure of Docker may hit before
the container started, while it runs or after it ended. `code`, `ran` and `alone`
are history: what the commands really did, against which the receipt is judged.
Of the bindings that are validated at the end those are written out that the
host's own results could break. Output files, digests and the Windows capture
are left out; probes see the workspace read-only, so a probe that is left behind
changes nothing.

### BoundedVerifier

A command is a leader, a descendant in its process group and one that left it
(`alive`), each of which may hold the two pipes (`holders`), write, close, exit,
and change the workspace. `pc` is the verifier; every poll, read, signal and wait
is a step. `mode` is the platform: the selector loop, or a thread per pipe as on
Windows (`Reader`). Signals may have no effect: a process may handle SIGTERM, and one
the caller may not signal survives SIGKILL. Output is counted in chunks. At each
poll the deadline, or the drain grace, may have passed.

File operations fail where the code meets it. A read of a pipe that fails is the end
of the stream to both captures (`ReadFails`, `verifier.py:487-488` and `583-584`): the
pipe is closed whatever is in it and whoever holds it. A write to an artifact that
fails leaves the selector loop through its `finally`, and `verify` raises
(`ReadWriteFails`); a reader thread swallows it, ends and closes its pipe, with the
chunk already taken from the budget and the limit not looked at
(`ReaderWriteFails`). `broken` are the streams of the command to which either
happened. What fails around the capture (a snapshot, `os.set_blocking`, the flush and
fsync of the artifacts, the receipt) makes `verify` raise without a receipt
(`RegisterFails`, `Raises`); the processes that are left go on as `stray`.
`classify_command_failure` looks for words in the output and is left out.

### EvidenceContract, EvidenceAdjudication

An expression is the sequence of its nodes in post order, so that evaluation is a
recursive function over positions; `IsTree` says what the constructors can nest, and is an
assumption on `Proposals`. Values carry their Python type: `True` and `1`
are different. The constructors' validation and the lint are the operators that
decide whether a proposal becomes a rule set. The receipt's command results become
observations (`Adapt`); `Deviate` lets an injected adapter answer something else,
which `Validate` must refuse or make harmless. For a closure rule observations are
reported one by one (`Report`), and each time the whole evaluation is made.

### WorkspaceBundles, VerifierAssets

A digest identifies its content, so a reference is the pair of trees it names and a
file of the store is what is written under a reference. `create` takes its first
snapshot, copies path by path, takes its second, packs, compares with an existing
file, replaces, syncs, writes the reference, syncs; while `source` is edited, other
creators run, and processes are killed or the power fails (`safe_*` are the names
that survive). `Reconstruct` goes through the private view or the store itself, down
to the rename of the checked copy. `DamageArchive` and `DamageReference` change a file
of the store. The asset store's creation copies a directory entry by entry with the
stat results it had before (`steady`, `calm`), validates its staging copy, and its
directories are created by rename; the service hashes the mount before and after
the commands.

### WorkspaceTools

`call` is the tool call in hand, `pc` how far it is: policy, ignore check, read, hash
comparison, temporary file, rename, sync. `told` is the set of contents whose hash the
model has seen (it cannot guess one). There is one path of each kind the policy tells
apart: ordinary, authority, operator control, outside of the allowed paths, a link,
`.gitignore`, a file it hides. Somebody else may edit an ordinary file, any operation
may fail. Directory listings and matches are left out: of queries only the contents
they disclose matter.

### PolicyRegistry

`results`, `approvals`, `active` and `key` are the files; each command (evolve, approve,
activate, load) is a process that reads and writes them in steps, and reads or creates
the key in steps of its own (`keystep`). A signature is the key and the payload it
was made over. The acceptance gates are computed from the observations of an
evaluation. Files may be edited by hand; a process may be killed. The optimiser
that proposes candidates is external: any candidate comes with any observations.

### KnowledgeIndex

`nodes`, `terms`, `edges` and `meta` are the tables. A write is one transaction with
the integrity check of the whole index before and after it, after reads of both ends in
transactions of their own (`wpc`). A read opens at a revision, fills its caches with
one query per step (`ReadNode`, `ReadEdges`, `Score`) as far as its walk needs, makes its
answer from the caches and returns it if the revision is still the same; the command
compares again when it prints. `Damage` is a row changed by somebody with an SQL
shell. One query text is asked, so a node's terms are their weight in it.

## 3. Plan

1. done: all modules of section 2 and the proofs of section 6.
2. proofs: the readers of `KnowledgeIndex` when one row is changed by hand.
3. models: schema migration of `database.py`; two jobs with the same `run_id`;
   `BoundedVerifier` shown to deliver what `AgentRun` takes from a verification.

## 4. Runs

Every passing run checks deadlock unless its cfg says otherwise. A *worker* below
is a process. The runs check the properties that are hardest to get right; those
that are proved for every instance (section 6: the type invariants, final rows and
outcomes, the verification interval, visited states, durable answers) and follow from
a refinement or a proof are not repeated in a run. Each `...TypeOK` documents the
state of its module.

| run | instance | what it shows |
|---|---|---|
| `queue` | 2 jobs, 2 keys, 2 workers, 3 readings, 2 leases, 2 attempts | enqueue is idempotent across races (`IdempotentEnqueue`); lineage is the last attempt's and is the row's result (`LineageIsResult`); attempt numbers are unique across takeovers |
| `control` | 2 Control processes, 1 job, 2 bundles, 2 run ids, 2 contracts | every outcome is supported by the stored receipt; every answer is the stored one and matches its request; `TaskLifecycle` is implemented, that is, one outcome, final, about the one execution |
| `worker` | 2 workers with ids of their own, 4 clock values, 4 attempts, 1 crash, under fairness | stale readings, lost heartbeats and leftovers of a crash: no shared attempt, no blocked retry, no stale worker ends a job or cuts a lease short; a claimable job is taken or ends |
| `agent` | 3 workspace states, 2 commands, 5 steps, limits of 2, under fairness | success is verified, compaction loses nothing, failed verifications are not repeated, the run ends |
| `agent_shared_criterion` | 2 commands naming one criterion | **violated**: see findings |
| `publisher` | 3 calls, 1 run id, 2 bodies, 2 faults, 2 power failures | a run always has the record of its own request; `EvidenceStore` is implemented, so what was answered is durable |
| `host` | 2 commands, 3 trees (one that cannot be hashed), assets, under fairness | a passed receipt is about the requested tree and assets only; receipts tell the truth; a verification ends |
| `evidence` | contracts over 5 receipts with 2 deviations of the adapter, rules of up to 3 clauses and 6 nodes with 3 observations in any order | the verdict is the one that every completion of the missing evidence agrees on (`VerdictIsForced`, the reference definition); every clause the lint lets through can turn a verdict; more evidence refines; an adapter decides nothing |
| `verifier` | 2 commands, 2 trees, an output limit of 1 of up to 2 chunks per stream, 1 forked process, 1 failing stream per command, both captures, under fairness | the output budget holds; a pass has nothing alive in the group, all of the output of every stream on which nothing failed, and one tree; the capture ends |
| `stores` | 2 processes, 2 paths, 2 contents, 2 edits, 3 calls, 1 fault, for each store | no bundle of a mixed state; what was returned is durable, and what a crash leaves is no collision; what is installed, or accepted as a verification on assets, is the bundle |
| `tools` | 7 paths, 2 contents, 4 calls, 1 foreign edit | no sequence of calls touches a protected or hidden file; outcomes are true; nothing is overwritten unseen |
| `registries` | policy: 2 evolution runs, 2 candidates, 4 commands, 2 at a time, 1 kill, 1 edit. Knowledge: 3 nodes, 4 edges, a reader beside a writer, or two writers, 1 changed row | a loaded policy was approved and earned; what was signed with a whole key stays valid; no cycle of dependencies; an answer is true of one revision; eligible means ready, and is not hidden by the limit; a damaged index is not written |

### Bounds, and why they are enough

`MaxAttempts` bounds the attempts of a job (the code has no bound); the
interesting number is 2, a stale attempt and its replacement, and `worker`
allows 4. `MaxClock` bounds the clock; with a lease of 2 and 4 values a lease
can run out under its holder, be taken over and run out again. `MaxCrashes` is
1: a second crash only repeats the first from a state that is reached without
it. Two processes and two jobs are enough for every pairwise race; what the
proofs cover holds for any number. `AgentRun` is bounded by the code's own
limits: 5 steps are enough for two mutations, the verification they trigger, a
compaction after it, and a finish on a state that failed; `StagnationLimit` and
`VerifyInterval` of 2 are the smallest that make the limits differ from "at
once". `MaxFaults` and `MaxLosses` of 2 let a file operation fail during the
recovery from another, and the power fail on what an earlier failure left; run ids
do not interact, so one is enough. Calls of `publisher` end and are not repeated
(three of them compete), so it does not check deadlock. Two commands are enough for
one that is left behind and one it disturbs; a third tree is the one that makes
hashing raise. A verification ends, so `host` does not check deadlock.
`verifier` bounds the chunks written (`MaxProduced`, above the limit, so that it
is exceeded by one stream and by both together) and the forks (`MaxForks`): one descendant,
in the group or out of it, is enough to outlive the leader and hold its pipes. A
failed read or write closes its stream, so a command has at most two; one per command
(`MaxFaults`) leaves the other stream to be complete, and the proof has no bound. Two
paths are enough for a mixture of two states, two edits for one before and one after
a path is read, and one fault (`MaxFaults`) for a crash at any point, followed by another
creation of the same bundle. `MaxCalls` of `tools` allows to unhide, write and hide
again after a read. In `registries`, 3 nodes are the smallest chain with a dependency
beyond a depth of 1, and beside a reader nothing adds the edge that would close the
cycle, which is what the two writers race for. In these five runs the operations
are used up at the end, so deadlock is not checked. Symmetry is
used over model values only, never in a run with a liveness property.

### Fairness

`worker` assumes that a live process takes its next step: the calls it
makes return (the Agent has a step and a time limit, SQLite a busy timeout), and
that `worker-once` is run again after it returns, which is the operator's loop
and not the code's. Nothing is assumed of the clock, the keepers, the
submitters, or that crashes stop. `agent` assumes that every call the loop
makes returns; nothing of what it answers and nothing of the deadline.
`host` assumes that the host's calls return: a docker client is killed when its
time is up, probes and `docker rm` are bounded. Nothing is assumed of containers.
`verifier` assumes that the verifier takes its steps (the selector returns after at most
its poll interval) and that time passes: a loop that polls for ever finds the deadline
passed, or the grace over (strong fairness of `PollTimeout` and `PollGraceOver`, which
are possible only at a poll). Nothing is assumed of the processes: they need not react
to signals, close their output or end.

## 5. Findings

1. **A failed criterion is shown as passed** (`agent_shared_criterion`). The
   prompt calls `criterion_status` "authoritative for the latest verification"
   (`agent_context.py:40`). `update_criterion_status` (`agent_state.py:115-128`)
   lets the last command that names a criterion decide, so with two commands on
   one criterion an earlier failure is overwritten, and `failed_criteria` is
   empty while the verification failed. Success is not affected: it rests on
   `receipt.passed` (`SuccessIsVerified` holds for any assignment of criteria
   and is proved).

Read in the code while modelling, and not the subject of a run:

- `docs/architecture-and-data-pipeline.md:664-665` says that a terminal update
  succeeds only for the current owner, an unexpired lease *and the current attempt
  number*. `finish_attempt` checks all three; `_finish`, which `complete` and `fail`
  share (`queue.py:297-300`), does not check the attempt. It matters only when two
  processes run under one worker id (`WorkerIdOf` of `CodingWorker`).
- `docs/adr/0008-host-owned-verification-evidence.md:40-41` says that the request
  record is removed if the commit of the run fails. When the sync after the record's
  own rename fails (`receipts.py:31-32`), `publish` does not know yet that it wrote it
  (`docker_evidence.py:54`): the record stays and the run id is used up.
- `docs/plans/2026-07-22-verifier-command-isolation.md:89`: "Write stdout and stderr
  only after the command container has terminated." `remove_container` ignores its own
  failure (`docker_runtime.py:546-568`) and the host goes on. Such a receipt never passes
  (`PassedIsClean`, proved).
- `docs/task-graph-evolution-plan.md:20` calls comparisons of mismatched types
  fail-closed. `equals` with another type is `fail` (`evidence_contract.py:545-546`),
  which a `not` turns into a pass; the other operators are indeterminate.

Windows the code leaves open, which the properties exempt or the model shows as they
are: an edit of the source that is undone before the second snapshot
(`BundleIsSource`); a foreign edit between a tool's hash comparison and its rename
(`NoBlindWrite`); two approvals of one candidate at the same time, both of which are written; a
signature made with the key file still empty (`WholeKeyIsForever`), which a kill makes
permanent; of two creators of one asset bundle the loser may fail; a bundle view is
refused whenever another job writes to the store meanwhile; a tool whose temporary file
or directory sync fails reports an error though the workspace changed
(`OutcomeIsTrue`; the Agent ends the run); a descendant that left its process group and
closed its pipes is invisible to `BoundedVerifier` (`PassedIsOneTree`); a read of a
command's pipe that fails (`verifier.py:487-488`), and on Windows a failed read or a
failed write to the artifact (`583-584`), ends that stream without a word, so that a
command may pass with output of it missing or with a process still holding the pipe
(`PassedIsComplete` exempts the stream, not the other one); an index edited
by hand and put back between two revisions a reader takes.

Assumed and not modelled: the directories above the evidence and bundle stores exist
durably (`mkdir` is not followed by a sync of the parent); means of scores are exact
(`PolicyRegistry` uses integers, so a required gain below the resolution of a float,
which `evolution.py:193-200` permits, is outside); the two queries of `term_scores` are
one step (`Score`; a revision that changes between them is refused afterwards); a
damaged edge row (`infra/knowledge_integrity.py:179-182`) is not among the damages.

## 6. Proofs

Checked by TLAPS for every value of the constants under the named assumptions of the
modules (`JobQueueAssumption`, `ControlAssumption`, `WorkerAssumption`;
`LimitsAssumption`, `CoverageAssumption`, `NullAssumption` of `AgentRun`;
`PublisherAssumption`, `HostAssumption`, `VerifierAssumption`, `ToolsAssumption`,
`RegistryAssumption`, `KnowledgeAssumption`, `BundlesAssumption`, `AssetsAssumption`).
They type the constants, say that NULL is not a value, that sets a program cannot
run without (trees, contents) are not empty, and that every criterion has a
verification command. TLC evaluates all of them. Each inductive invariant was checked
by TLC on the instance of its run before it was proved.

**QueueProofs, the queue.** The inductive invariant `IndInv` adds to the properties what
they need to be inductive: a key names one row, what was answered is that row's,
a grant's number is at most the row's counter, a running row's last attempt was
granted, a published attempt belongs to a completed row whose counter it is.
`LineageIsResult` alone is not inductive: that a completed row is never claimed
again is what keeps the published attempt its last one. Theorems: `TypeCorrect`,
`EnqueueIsIdempotent`, `LineageIsAlwaysResult`, `AttemptNumbersAreUnique`,
`LineageIsGranted`, `TerminalRowsAreFinal`. No assumption on clocks is used.

**QueueProofs, Control.** `CInv` adds `CallsBound`: between its reads and its
publication a call holds an attempt that is published, and an outcome its
evidence supports. That the attempt it loaded minutes ago is still the job's
lineage follows from `LineageIsResult`; that the evidence is still the evidence,
from the write-once run ids. `OutcomesAreAboutLineage`, `OutcomesHaveEvidence`,
`AnswersAreStored`, `OutcomesAreFinal`, and `SystemImplementsTaskLifecycle`, the
refinement: initial states map to initial states and every step to a step or a
stutter of `TaskLifecycle`.

**QueueProofs, the workers.** Every step of a worker process is a transaction of
the queue or leaves the queue alone (`WorkersImplementQueue`), so `IndInv` holds under
`CodingWorker` too and `WorkInv` builds on it: a record in hand was granted to the
process that holds it, directories on disk are named by attempts that were claimed, no
reading of the clock is from the future. `AttemptsNotShared` is not inductive: that a
late claim gets a number nobody holds needs that whatever is held was granted, and
`AttemptNumbersUnique`. Theorems: `WorkInvariant`, `WorkerTypeOK`,
`AttemptsAreNotShared`, and two with a hypothesis that is about the operator and not
about the code: `RetriesAreNotBlocked` as long as no two jobs ask for one `run_id`
(`OwnRuns`), `StaleCallsHarmNothing` when no two processes were given one
`--worker-id` (`OwnIds`; without it `_finish` cannot tell two attempts apart, see
section 5).

**AgentRunProofs.** `AInv` says that what the loop remembers about its workspace
is true of it: inside a step `before` is the workspace until a tool or the
verifier runs; `mutations_since_verify` is the number of unverified changes;
`last_failed_verification_state` is the state of the last verdict, if that was a
failure; the current state is on record with the current criterion status. None
of the properties is inductive without these: that a failed verification is not
repeated, for instance, needs the third and the first, since the refusal
compares `last_failed` with `before`, not with the workspace. Each action has a
lemma; steps that end the run share one (`EndingKeepsAInv`), and so do the two
verifications after which it goes on (`GoingOnKeepsAInv`). That every criterion
has a last command naming it (`LastNamingExists`) comes from the well-foundedness
of < on Nat. That compaction loses nothing is inductive once the summary is typed
(`ContextInv`): the latest verification of the kept events, with the one of the events
cut away carried over, is the latest of all (`LatestOfSplit`). Theorems:
`AgentTypeCorrect`, `SuccessIsAlwaysVerified`, `UnverifiedIsBounded`,
`CurrentIsAlwaysVisited`, `FailuresAreNotRepeated`, `ContextIsComplete`.

**EvidenceProofs, the evaluator and the adapter.** An evaluation is a recursive function
over the positions of a tree, so the lemmas about it are inductions from the leaves: it
exists and is unique (`ValueExists`, `TruthExists`), and a node that passes or fails does
so in every world that agrees with the decided clauses. For the converse, that an
undecided root can still go either way, a world is built from the root down: every node
below is given the side on which it has to come out, and since the lint allows a clause
one reference only, no leaf is asked for both. `EveryClauseCounts` is an induction along
the path from the root to the clause, with the siblings settled so that the path decides.
`EvidenceOnlyRefines` compares the worlds before and after: an observation of a new
selector can only take worlds away, a repeated one only add some. `AdapterCannotDecide` is
a count: what is validated names different facts of the receipt, as many as the built-in
adapter states, hence exactly those (`AdjudicationInv` carries the validation to the
verdict). Assumed of the constants: proposals are trees, the commands of a receipt have
different names, an observed value is there, a selector has its four fields; each is
enforced by a constructor or by the profile. Theorems: `AdjudicationInvariant`,
`VerdictsAreForced`, `EvidenceRefines`, `ClausesCount`, `AdaptersCannotDecide`.

**EvidenceProofs, the store.** `PInv` is `PTypeOK` with a part per run id
(`RunInv`) and a part per call (`CallInv`). `RunHasRecord` is not inductive: that
a power failure keeps it needs that a run that exists, synced or not, has its
record *on disk*, that is, that the record was synced before the rename; and that
nobody removes the record needs that only the holder of the lock may be about to,
and only while there is no run. Each action either leaves the parts it does not
touch as they were (the frame lemmas) or is treated by itself. In the refinement
the rename publishes, an answer confirms, and a power failure loses only what
nobody was told of, because an answered run is on disk. Theorems:
`PublisherInvariant`, `PublisherTypeCorrect`, `RunsHaveRecords`,
`AnswersAreDurable`, `PublisherImplementsStore`.

**HostVerificationProofs.** `HInv` has three parts besides types: where the loop
stands (`Progress`); what is true of a command that exited, for the results made so
far and for the one in hand (`Facts`); and, as long as every command passed, that
no other container is there and the tree is the requested one (`Clean`).
`PassedIsClean` is not inductive: a result passes because its two hashes agree, and
that they are hashes of the workspace at all needs that no container was left, which
needs that all earlier commands exited. Theorems: `HostInvariant`,
`HostTypeCorrect`, `PassedReceiptsAreClean`, `ReceiptsAreTrue`, for any number of
commands and trees.

**BoundedVerifierProofs.** `VerifierInv`: the artifacts and the rest of the budget are
within the limit, and are all of it in the selector's capture; no chunk is doubled, and
before the limit is met none is lost on a stream on which nothing failed (`Conserved`);
as long as a command may still pass, a pipe that was closed without a failure was
empty and nobody held it, and once the leader was reaped its group is gone (`Clean`);
how the capture gets where it is (`Placed`); and while every command passed and nothing
was left behind, the tree is the one of the start (`OneTree`). `PassedIsOneTree` needs
all of them: that nothing writes between two commands follows from `Clean`, and that a
command passed is known only from flags set many steps before. Theorems:
`VerifierInvariant`, `VerifierTypeOK`, `PassedCommandsAreComplete`,
`PassedReceiptsAreOneTree`, for both captures, any limit and any number of commands and
of failures.

**WorkspaceToolsProofs.** `ToolsInv` adds what a call has established on its way: past
its path check a mutation's path is one the model may write (`Cleared`), until others
write the content about to be replaced is the one that was compared (`Compared`), and
Git shows what it showed at the start but for the temporary file (`Shown`). Theorems:
`ToolsInvariant`, `ToolsTypeOK`, `UntouchablePathsKept`, `OutcomesAreTrue`,
`NoBlindWrites`.

**StoresProofs.** The two stores share `StoreInv`: files are whole unless somebody
damaged one, what was returned is synced, and where a process stands says what is in the
store. The parts about reading (`BundleRead`, `AssetsRead`) are what makes
`BundleIsSource` inductive: there is a past state *t* of the source, the one at the end of
the first pass, such that each entry read is *t*'s or is not in the source any more
(`Follows`). An edit that brings no old content back keeps this, and the second pass,
which finds an entry still in the source, turns it into equality. For the mount of a
verification the trees it has had since the first hash are remembered the same way
(`Mounted`). Theorems, for each store: `BundleInvariant`, `BundlesAreSources`,
`ReturnedBundlesAreDurable`, `MaterializedAreBundles`; `AssetsInvariant`,
`AssetsAreSources`, `ReturnedAssetsAreDurable`, `MountsAreBundles`, `AcceptedRanOnBundle`.

**RegistriesProofs.** *Policy*: `RegistryInv` says that nothing is signed but what an
operator approved, in the files and in the memory of the commands, that what is approved
is backed by an accepted result unless its file was edited, and that the key is written
once, by its creator. That an accepted result was *earned*, a sum over all evaluations
compared case by case, is `AcceptedIsEarned`. Theorems: `RegistryInvariant`,
`RegistryTypeOK`, `WholeKeysAreForever`, `PoliciesWereEarned`. *Knowledge*: a
transaction commits only what Kahn's algorithm lets through, and `AcyclicIsOrdered` shows
that it lets through acyclic relations only: the round in which a node is taken orders
the nodes. Theorems: `KnowledgeInvariant`, `NoDependencyCycles`, `CorruptStaysFrozen`.
*Readers*: an invariant that says the caches agree with the tables is not inductive, for a
writer may commit between two queries. `ReaderInv` says it under a condition, that the
revision is still the one the reader opened at (`WellRead`), with what each phase that is
over has put into the caches. Writers only add rows (`WritesGrow`), so a revision that
was left never comes back (`PrecedesBack`), and the comparison at the end of a read, or
of the command, is a comparison with every state in between. What is then read off the
caches is compared with the definition over paths: a walk by levels finds each node at its
shortest distance (`LevelIsDistance`), a traversal that finds nothing new has found
everything below a task (`CompletedIsEnough`, which needs the acyclicity above: a task
must not depend on itself), and the ranking shows as many candidates as the limit
allows, eligible ones first (`RankedCount`, `EligibleFirst`). The theorems suppose
`damages = 0`: nobody but the program writes the database file. Theorems:
`ReadersInvariant`, `ReadsAreOneRevision`, `EligibleAreReady`, `EligibleAreShown`.
The sum, the algorithm and the walks are recursive functions; the induction over them is
`SetInduction`, an induction over a *set* of numbers from the well-foundedness of < on
Nat, since the library's induction theorems take an operator the provers cannot
instantiate.

Only model-checked: liveness (`ClaimableIsTaken`, `RunEnds`, `VerificationEnds`,
`CaptureEnds`), which this prover does not do; the readers of the knowledge graph when
a row is changed by hand; and `StatusIsAuthoritative`, which does not hold in general.
The run checks the readers for one such row (`MaxDamages`): a row that is changed
and changed back between two comparisons of the revision is not seen by the code.

## 7. Not modelled

See `components` in `PROJECT.json`. Benchmarks drive the Agent one case after the other
and do arithmetic on its results. Configuration, composition and CLI parse and wire;
what they hand on is a constant here. Schema migration of an older database file is
planned. HTTP to the model provider, prompt rendering, JSON and digest formats keep no
state that another process races with; what they may answer is nondeterministic where it
matters. The identity of the container image, `classify_command_failure`, the request
record that the compatibility service writes without the lock, and the optimiser of
`evolution.py` are left out for the reasons given with their components.
