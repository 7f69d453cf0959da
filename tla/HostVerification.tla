--------------------------- MODULE HostVerification ---------------------------
(***************************************************************************)
(* DockerHostVerifier.execute: the commands of one request, each in a      *)
(* container of its own over one writable workspace, and the receipt the   *)
(* host makes of what it saw.                                              *)
(*                                                                         *)
(* A container outlives the docker client that is killed on a timeout, and *)
(* remove_container may fail without anybody noticing: a container of an   *)
(* earlier command may still write while a later one runs.  The workspace  *)
(* is its tree.  Probes see the workspace read-only and only answer.       *)
(***************************************************************************)
EXTENDS Naturals, Sequences

CONSTANTS
  NCommands,     \* commands of the profile
  Trees,         \* what the workspace may hold
  Unhashable,    \* trees workspace_tree_hash raises on (special files, links leading out)
  Requested,     \* request.workspace_bundle.tree_hash
  HasAssets,     \* the profile names an asset bundle
  NULL

ASSUME HostAssumption ==
  /\ NCommands \in Nat \ {0}
  /\ Unhashable \subseteq Trees
  /\ Requested \in Trees \ Unhashable
  /\ HasAssets \in BOOLEAN

VARIABLES
  pc,
  index,         \* the command in hand
  tree,          \* the workspace
  assets,        \* the asset view is what was requested
  late,          \* the global deadline has passed
  before,        \* its hash before the command
  capture,       \* how the command ended for the host
  results,       \* CommandResults
  receipt,
  live,          \* commands whose containers run
  code,          \* history: exit code of each command's container
  alone,         \* history: no earlier container ran when before was taken
  ran            \* history: the tree and assets each command started on, and whether alone

hvars == <<pc, index, tree, assets, late, before, capture, results, receipt, live, code, alone, ran>>

Commands == 1..NCommands
Codes == {0, 1, 125, 127}      \* 125: docker could not start it; 127: no executable

\* _CommandCapture: an exit code, or one of the other ends, or a failure of Docker.
Captures == {"zero", "nonzero", "launch_error", "timed_out", "output_limited"}
Broken == {"os_error", "not_started"}

PC == {"start", "command", "probe", "launch", "run", "cleanup", "collect", "final",
       "returned", "raised"}
Over == {"returned", "raised"}

Result == [capture : Captures, before : Trees, after : Trees, workspace_unchanged : BOOLEAN,
           passed : BOOLEAN]
Receipt == [commands : Seq(Result), before : Trees, after : Trees,
            workspace_unchanged : BOOLEAN, passed : BOOLEAN]

-----------------------------------------------------------------------------
(* Deviations from the code, each a plausible slip; no action uses them.   *)
AssetsUnchecked == TRUE
NoTimeout == FALSE
NotStartedIsAnExit(n) == CASE n = 0 -> "zero" [] n \in {1, 125} -> "nonzero" [] n = 127 -> "launch_error"
-----------------------------------------------------------------------------
(* Containers *)

\* A hash taken while a container writes may be of anything.
Seen == IF live = {} THEN {tree} ELSE Trees

\* A command writes to the workspace.
Writes(c) ==
  /\ c \in live
  /\ tree' \in Trees
  /\ UNCHANGED <<pc, index, assets, late, before, capture, results, receipt, live, code, alone, ran>>

Exits(c) ==
  /\ c \in live
  /\ live' = live \ {c}
  /\ \E n \in Codes : code' = [code EXCEPT ![c] = n]
  /\ UNCHANGED <<pc, index, tree, assets, late, before, capture, results, receipt, alone, ran>>

\* Somebody changes the asset view, which containers see read-only, for good.
AssetsChange ==
  /\ HasAssets /\ assets
  /\ assets' = FALSE
  /\ UNCHANGED <<pc, index, tree, late, before, capture, results, receipt, live, code, alone, ran>>

DeadlinePasses ==
  /\ ~ late /\ late' = TRUE
  /\ UNCHANGED <<pc, index, tree, assets, before, capture, results, receipt, live, code, alone, ran>>

-----------------------------------------------------------------------------
(* The host *)

Raise ==
  /\ pc' = "raised"
  /\ UNCHANGED <<index, tree, assets, late, before, capture, results, receipt, live, code, alone, ran>>

AssetsFine == HasAssets => assets

\* execute() up to its loop
Start ==
  /\ pc = "start"
  /\ tree = Requested
  /\ AssetsFine
  /\ pc' = "command"
  /\ UNCHANGED <<index, tree, assets, late, before, capture, results, receipt, live, code, alone, ran>>

StartRefused == pc = "start" /\ ~ AssetsFine /\ Raise

\* execute_command() up to the probe; past the deadline nothing is run.
BeginCommand ==
  /\ pc = "command"
  /\ \E h \in Seen \ Unhashable : before' = h
  /\ alone' = (live = {})
  /\ \/ late /\ pc' = "collect" /\ capture' = "timed_out"
     \/ ~ late /\ pc' = "probe" /\ UNCHANGED capture
  /\ UNCHANGED <<index, tree, assets, late, results, receipt, live, code, ran>>

ProbeAnswers ==
  /\ pc = "probe"
  /\ pc' = "launch"
  /\ UNCHANGED <<index, tree, assets, late, before, capture, results, receipt, live, code, alone, ran>>

\* It finds no executable, or is out of time.
ProbeFails(how) ==
  /\ pc = "probe"
  /\ pc' = "collect"
  /\ capture' = how
  /\ UNCHANGED <<index, tree, assets, late, before, results, receipt, live, code, alone, ran>>

\* Docker fails, the output is too long or is no answer.
ProbeRaises == pc = "probe" /\ Raise

\* docker run has started the command.
Launch ==
  /\ pc = "launch"
  /\ pc' = "run"
  /\ live' = live \cup {index}
  /\ ran' = [ran EXCEPT ![index] = [tree |-> tree, alone |-> alone, assets |-> assets]]
  /\ UNCHANGED <<index, tree, assets, late, before, capture, results, receipt, code, alone>>

\* What an exit code means to the host.
CaptureOf(n) ==
  CASE n = 0 -> "zero" [] n = 1 -> "nonzero" [] n = 125 -> "not_started" [] n = 127 -> "launch_error"

\* The docker client returns with the exit code of the container.
ClientReturns ==
  /\ pc = "run"
  /\ index \notin live
  /\ capture' = CaptureOf(code[index])
  /\ pc' = IF CaptureOf(code[index]) \in Broken THEN "cleanup" ELSE "collect"
  /\ UNCHANGED <<index, tree, assets, late, before, results, receipt, live, code, alone, ran>>

\* The client is killed, whether or not the container was started or has ended.
ClientKilled(how) ==
  /\ pc \in {"launch", "run"}
  /\ pc' = "cleanup"
  /\ capture' = how
  /\ UNCHANGED <<index, tree, assets, late, before, results, receipt, live, code, alone, ran>>

CanTimeOut == TRUE
TimesOut == CanTimeOut /\ ClientKilled("timed_out")
OutputTooLong == ClientKilled("output_limited")
DockerFails == ClientKilled("os_error")

\* remove_container; no cidfile and a docker rm that fails are ignored.
Cleanup ==
  /\ pc = "cleanup"
  /\ live' \in {live, live \ {index}}
  /\ pc' = IF capture \in Broken THEN "raised" ELSE "collect"
  /\ UNCHANGED <<index, tree, assets, late, before, capture, results, receipt, code, alone, ran>>

Passed(how, unchanged) == how = "zero" /\ unchanged

\* The rest of execute_command(): output files, the hashes, the result.
CommandResult(h) ==
  [capture |-> capture, before |-> before, after |-> h, workspace_unchanged |-> before = h,
   passed |-> Passed(capture, before = h)]

\* The assets are hashed again after every command.
AssetCheck == AssetsFine
AfterCommand == IF index = NCommands THEN "final" ELSE "command"
Collect ==
  /\ pc = "collect"
  /\ AssetCheck
  /\ \E h \in Seen \ Unhashable : results' = Append(results, CommandResult(h))
  /\ index' = index + 1
  /\ pc' = AfterCommand
  /\ UNCHANGED <<tree, assets, late, before, capture, receipt, live, code, alone, ran>>

AssetsRefused == pc = "collect" /\ ~ AssetCheck /\ Raise

HashRaises == pc \in {"command", "collect", "final"} /\ Seen \cap Unhashable # {} /\ Raise

\* validate_final_verification_bindings, as far as the host's own results can fail it
Consistent(c) ==
  /\ c.passed = (c.capture = "zero" /\ c.workspace_unchanged)
  /\ c.workspace_unchanged = (c.before = c.after)
Chained(r) ==
  /\ \A i \in DOMAIN r.commands :
       r.commands[i].before = IF i = 1 THEN r.before ELSE r.commands[i - 1].after
  /\ r.commands[Len(r.commands)].after = r.after
ValidBindings(r) ==
  /\ r.before = Requested
  /\ r.workspace_unchanged = (r.before = r.after)
  /\ Len(r.commands) = NCommands
  /\ \A i \in DOMAIN r.commands : Consistent(r.commands[i])
  /\ Chained(r)

\* execute() after its loop
ReceiptOf(h) ==
  [commands |-> results, before |-> Requested, after |-> h, workspace_unchanged |-> h = Requested,
   passed |-> h = Requested /\ \A i \in DOMAIN results : results[i].passed]

Finish ==
  /\ pc = "final"
  /\ \E h \in Seen \ Unhashable :
       \/ ValidBindings(ReceiptOf(h)) /\ receipt' = ReceiptOf(h) /\ pc' = "returned"
       \/ ~ ValidBindings(ReceiptOf(h)) /\ pc' = "raised" /\ UNCHANGED receipt
  /\ UNCHANGED <<index, tree, assets, late, before, capture, results, live, code, alone, ran>>

-----------------------------------------------------------------------------
HInit ==
  /\ pc = "start" /\ index = 1 /\ tree = Requested /\ assets = TRUE /\ late = FALSE
  /\ before = Requested /\ capture = "zero" /\ results = <<>> /\ receipt = NULL
  /\ live = {} /\ alone = TRUE
  /\ code = [c \in Commands |-> NULL]
  /\ ran = [c \in Commands |-> NULL]

HostStep ==
  \/ Start \/ StartRefused \/ BeginCommand
  \/ ProbeAnswers \/ ProbeFails("timed_out") \/ ProbeFails("launch_error") \/ ProbeRaises
  \/ Launch \/ ClientReturns \/ TimesOut \/ OutputTooLong \/ DockerFails
  \/ Cleanup \/ Collect \/ AssetsRefused \/ HashRaises \/ Finish

World ==
  \/ \E c \in Commands : Writes(c) \/ Exits(c)
  \/ AssetsChange \/ DeadlinePasses

HNext == HostStep \/ World
HSpec == HInit /\ [][HNext]_hvars

\* The calls of the host return: a running client is killed in time, the others
\* answer or fail.  Nothing is assumed of containers.
HFair ==
  /\ WF_hvars(Start \/ StartRefused)
  /\ WF_hvars(BeginCommand \/ HashRaises)
  /\ WF_hvars(ProbeAnswers \/ ProbeFails("timed_out") \/ ProbeFails("launch_error") \/ ProbeRaises)
  /\ WF_hvars(Launch \/ TimesOut)
  /\ WF_hvars(TimesOut)
  /\ WF_hvars(Cleanup)
  /\ WF_hvars(Collect \/ AssetsRefused \/ HashRaises)
  /\ WF_hvars(Finish \/ HashRaises)
HLiveSpec == HSpec /\ HFair

-----------------------------------------------------------------------------
(* Properties *)

\* The host's variables are well formed; containers are of commands that began.
HTypeOK ==
  /\ pc \in PC
  /\ index \in 1..(NCommands + 1)
  /\ tree \in Trees /\ before \in Trees
  /\ assets \in BOOLEAN /\ late \in BOOLEAN /\ alone \in BOOLEAN
  /\ capture \in Captures \cup Broken
  /\ results \in Seq(Result) /\ Len(results) = index - 1
  /\ receipt \in Receipt \cup {NULL}
  /\ live \subseteq 1..index \cap Commands
  /\ code \in [Commands -> Codes \cup {NULL}]
  /\ ran \in [Commands -> [tree : Trees, alone : BOOLEAN, assets : BOOLEAN] \cup {NULL}]

\* A receipt that passed is about the tree that was requested and about nothing
\* else: every command started on it, alone, with the assets requested, and
\* exited with 0, no container is left, and the workspace is still that tree; though
\* commands may write, undo what an earlier one wrote, and outlive their client.
PassedIsClean ==
  pc = "returned" /\ receipt.passed =>
    /\ live = {} /\ tree = Requested
    /\ \A c \in Commands :
         ran[c] = [tree |-> Requested, alone |-> TRUE, assets |-> TRUE] /\ code[c] = 0

\* What a returned receipt says of a command that exited, the command did: it
\* exited with that code and started on that tree, unless a container of an
\* earlier command was still there.
FactsAreTrue ==
  pc = "returned" =>
    \A c \in Commands :
      receipt.commands[c].capture \in {"zero", "nonzero"} =>
        /\ code[c] = IF receipt.commands[c].capture = "zero" THEN 0 ELSE 1
        /\ ran[c].alone => ran[c].tree = receipt.commands[c].before

\* A verification ends, though a command may run for ever.
VerificationEnds == <>(pc \in Over)
=============================================================================
