--------------------------- MODULE BoundedVerifier ---------------------------
(* The verifier that runs commands as local processes (verifier.py), which   *)
(* the verifier service inside a container and the in-process adapter use.   *)
(*                                                                           *)
(* A command is a leader process, the descendants that stay in its process   *)
(* group and those that left it; each may hold the two output pipes, write,  *)
(* close them, exit and change the workspace.  Beside them runs the capture: *)
(* the selector loop, or on Windows a thread per pipe.  Output is counted in *)
(* chunks; a signal may be without effect (a process that handles it, or one *)
(* the caller may not signal).  A read of a pipe or a write to an artifact   *)
(* may fail, with what each of the two captures makes of that, and so may    *)
(* what verify does around the capture.                                      *)
EXTENDS Naturals, FiniteSets, Sequences

CONSTANTS
  NULL,
  NCommands,    \* commands of the request
  Trees,        \* states of the workspace
  MaxOutput,    \* max_output_bytes, in chunks
  MaxProduced,  \* bound: chunks a command writes
  MaxForks,     \* bound: descendants the commands start
  MaxFaults     \* bound: streams of a command with a failed read or write

Streams == {"stdout", "stderr"}
Members == {"leader", "group", "detached"}
Codes == {"zero", "nonzero"}
Modes == {"selector", "threads"}

ASSUME VerifierAssumption ==
  /\ NCommands \in Nat \ {0}
  /\ Trees # {} /\ NULL \notin Codes
  /\ MaxOutput \in Nat \ {0}
  /\ MaxProduced \in Nat
  /\ MaxForks \in Nat
  /\ MaxFaults \in Nat

VARIABLES
  pc, index, before, results, receipt,                   \* verify, _run_command
  mode, run_exists,                                      \* platform, run directory
  alive, code, holders, buffer, produced, forks, tree, stray,   \* processes, workspace
  open, ready, written, remaining,                       \* the capture
  timed_out, leaked, exceeded, exit_seen,
  broken                                                 \* streams a failure has cut off

run == <<pc, index, before, results, receipt>>
fixed == <<mode, run_exists>>
world == <<alive, code, holders, buffer, produced, forks, tree, stray>>
output == <<open, written, remaining, broken>>
flags == <<timed_out, leaked, exceeded, exit_seen>>
capture == <<output, ready, flags>>
bvars == <<run, fixed, world, capture>>

Running == "leader" \in alive
Sum(f) == f["stdout"] + f["stderr"]

\* read() would not block: a chunk is there, or nobody holds the pipe.
Readable(s) == buffer[s] > 0 \/ holders[s] = {}

-----------------------------------------------------------------------------
(* The command's processes. *)

Capturing == pc \notin {"start", "begin", "end", "final", "done", "raised"}

Dead(dying) ==
  /\ alive' = alive \ dying
  /\ holders' = [s \in Streams |-> holders[s] \ dying]
  /\ code' = IF "leader" \in dying \cap alive THEN "nonzero" ELSE code

WriteOutput(p, s) ==
  /\ Capturing
  /\ p \in alive \cap holders[s]
  /\ s \in open
  /\ Sum(produced) < MaxProduced
  /\ buffer' = [buffer EXCEPT ![s] = @ + 1]
  /\ produced' = [produced EXCEPT ![s] = @ + 1]
  /\ UNCHANGED <<run, fixed, capture, alive, code, holders, forks, tree, stray>>

ClosePipe(p, s) ==
  /\ Capturing
  /\ p \in alive \cap holders[s]
  /\ holders' = [holders EXCEPT ![s] = @ \ {p}]
  /\ UNCHANGED <<run, fixed, capture, alive, code, buffer, produced, forks, tree, stray>>

\* The leader starts a descendant, which inherits the pipes it holds.
Fork(p) ==
  /\ Capturing
  /\ Running
  /\ p \in Members \ alive
  /\ forks < MaxForks
  /\ forks' = forks + 1
  /\ alive' = alive \cup {p}
  /\ holders' = [s \in Streams |->
                   IF "leader" \in holders[s] THEN holders[s] \cup {p} ELSE holders[s]]
  /\ UNCHANGED <<run, fixed, capture, code, buffer, produced, tree, stray>>

Exit(p, c) ==
  /\ Capturing
  /\ p \in alive
  /\ alive' = alive \ {p}
  /\ holders' = [s \in Streams |-> holders[s] \ {p}]
  /\ code' = IF p = "leader" THEN c ELSE code
  /\ UNCHANGED <<run, fixed, capture, buffer, produced, forks, tree, stray>>

\* A process of this command, or one an earlier command left, writes to the
\* workspace.
ChangeTree(t) ==
  /\ pc \notin {"start", "done", "raised"}
  /\ alive # {} \/ stray
  /\ t # tree
  /\ tree' = t
  /\ UNCHANGED <<run, fixed, capture, alive, code, holders, buffer, produced, forks, stray>>

-----------------------------------------------------------------------------
(* Signals. *)

\* os.killpg on POSIX, process.kill on Windows
Signalled == IF mode = "selector" THEN {"leader", "group"} ELSE {"leader"}

\* _kill_process_group: PermissionError and ProcessLookupError are ignored.
KillGroup ==
  \/ Dead(Signalled)
  \/ UNCHANGED <<alive, holders, code>>

\* SIGTERM: each process may handle or ignore it; terminate() on Windows kills.
TerminateGroup == \E dying \in SUBSET Signalled : Dead(dying)

-----------------------------------------------------------------------------
(* verify and _run_command around the capture. *)

Start ==
  /\ pc = "start"
  /\ pc' = IF run_exists THEN "raised" ELSE "begin"
  /\ receipt' = [receipt EXCEPT !.before = tree]
  /\ UNCHANGED <<fixed, world, capture, index, before, results>>

\* A CommandResult; that it passed says the rest of it.
Result(passed, b, a) == [passed |-> passed, before |-> b, after |-> a]

\* The state of a capture with these processes, which hold the pipes.
Reset(processes, pipes) ==
  /\ alive' = processes /\ code' = NULL
  /\ holders' = [s \in Streams |-> processes]
  /\ buffer' = [s \in Streams |-> 0] /\ produced' = [s \in Streams |-> 0]
  /\ open' = pipes /\ ready' = {} /\ written' = [s \in Streams |-> 0]
  /\ remaining' = MaxOutput /\ broken' = {}
  /\ timed_out' = FALSE /\ leaked' = FALSE /\ exceeded' = FALSE /\ exit_seen' = FALSE

\* Popen; the pipes are registered, or the reader threads started.
Launch ==
  /\ pc = "begin"
  /\ before' = tree
  /\ Reset({"leader"}, Streams)
  /\ pc' = IF mode = "selector" THEN "poll" ELSE "wait"
  /\ UNCHANGED <<fixed, index, results, receipt, forks, tree, stray>>

\* verify raises and its state is gone; the processes that are left are not.
Raise(left) ==
  /\ pc' = "raised"
  /\ stray' = (stray \/ left # {})
  /\ Reset({}, {})
  /\ before' = NULL
  /\ UNCHANGED <<fixed, index, results, receipt, forks, tree>>

\* The pipes cannot be registered, and the process is killed first, or the
\* threads not started, and it is not; it may have ended or survived.
RegisterFails ==
  /\ pc = "begin"
  /\ \E left \in SUBSET {"leader"} : Raise(left)

\* Around the capture nothing catches an error: a snapshot, a directory, the
\* flush and fsync of the artifacts or the receipt that cannot be written.
Raises ==
  /\ pc \in {"start", "begin", "end", "final"}
  /\ Raise(alive)

AfterCommand == IF index = NCommands THEN "final" ELSE "begin"

\* The executable is not found, or Popen raises OSError.
LaunchFails ==
  /\ pc = "begin"
  /\ results' = Append(results, Result(FALSE, tree, tree))
  /\ pc' = AfterCommand
  /\ index' = index + 1
  /\ UNCHANGED <<fixed, world, capture, before, receipt>>

\* Mutant: the workspace after the command is not compared.
CommandPassedAnyTree ==
  ~ timed_out /\ ~ exceeded /\ ~ leaked /\ code = "zero"

CommandPassed ==
  ~ timed_out /\ ~ exceeded /\ ~ leaked /\ code = "zero" /\ before = tree

\* The workspace is hashed again and the result recorded.
EndCommand ==
  /\ pc = "end"
  /\ results' = Append(results, Result(CommandPassed, before, tree))
  /\ pc' = AfterCommand
  /\ index' = index + 1
  /\ stray' = (stray \/ alive # {})
  /\ Reset({}, {})
  /\ before' = NULL
  /\ UNCHANGED <<fixed, receipt, forks, tree>>

Finish ==
  /\ pc = "final"
  /\ pc' = "done"
  /\ receipt' = [receipt EXCEPT
       !.after = tree,
       !.passed = receipt.before = tree /\ \A i \in DOMAIN results : results[i].passed]
  /\ UNCHANGED <<fixed, world, capture, index, before, results>>

-----------------------------------------------------------------------------
(* _capture_with_selector. *)

\* The clock is read and the process is running at the deadline: SIGTERM to the
\* group.
PollTimeout ==
  /\ pc = "poll" /\ Running
  /\ timed_out' = TRUE
  /\ TerminateGroup
  /\ pc' = "terminated"
  /\ UNCHANGED <<fixed, index, before, results, receipt, buffer, produced, forks, tree, stray,
                 output, ready, leaked, exceeded, exit_seen>>

\* It is running before the deadline.
PollRunning ==
  /\ pc = "poll" /\ Running
  /\ pc' = "select"
  /\ UNCHANGED <<fixed, world, capture, index, before, results, receipt>>

\* The leader was reaped: a group that is not empty is a leak and is killed.
PollExit ==
  /\ pc = "poll" /\ ~ Running /\ ~ exit_seen
  /\ exit_seen' = TRUE
  /\ IF "group" \in alive
     THEN leaked' = TRUE /\ KillGroup
     ELSE UNCHANGED <<leaked, alive, holders, code>>
  /\ pc' = IF open = {} THEN "finally" ELSE "select"
  /\ UNCHANGED <<fixed, index, before, results, receipt, buffer, produced, forks, tree, stray,
                 output, ready, timed_out, exceeded>>

\* Mutant: the loop ends with the process, what the pipes hold is dropped.
PollDrainAtExit ==
  /\ pc = "poll" /\ ~ Running /\ exit_seen
  /\ pc' = "finally"
  /\ UNCHANGED <<fixed, world, capture, index, before, results, receipt>>

\* Output is drained until every pipe is closed...
PollDrain ==
  /\ pc = "poll" /\ ~ Running /\ exit_seen
  /\ pc' = IF open = {} THEN "finally" ELSE "select"
  /\ UNCHANGED <<fixed, world, capture, index, before, results, receipt>>

\* ... or the grace is over.
PollGraceOver ==
  /\ pc = "poll" /\ ~ Running /\ exit_seen
  /\ open # {}
  /\ leaked' = TRUE
  /\ KillGroup
  /\ pc' = "finally"
  /\ UNCHANGED <<fixed, index, before, results, receipt, buffer, produced, forks, tree, stray,
                 output, ready, timed_out, exceeded, exit_seen>>

\* The waits of _terminate_process_group and after it: the process is gone, or
\* SIGKILL follows, once more with the leak recorded, and then it is given up.
Terminated ==
  /\ pc \in {"terminated", "killed", "killed_again"}
  /\ \/ /\ ~ Running
        /\ pc' = "poll"
        /\ UNCHANGED <<leaked, alive, holders, code>>
     \/ /\ Running /\ pc = "terminated"
        /\ KillGroup
        /\ pc' = "killed"
        /\ UNCHANGED leaked
     \/ /\ Running /\ pc = "killed"
        /\ leaked' = TRUE
        /\ KillGroup
        /\ pc' = "killed_again"
     \/ /\ Running /\ pc = "killed_again"
        /\ pc' = "finally"
        /\ UNCHANGED <<leaked, alive, holders, code>>
  /\ UNCHANGED <<fixed, index, before, results, receipt, buffer, produced, forks, tree, stray,
                 output, ready, timed_out, exceeded, exit_seen>>

Select ==
  /\ pc = "select"
  /\ ready' = {s \in open : Readable(s)}
  /\ pc' = IF ready' = {} THEN "poll" ELSE "read"
  /\ UNCHANGED <<fixed, world, index, before, results, receipt, output, flags>>

\* Mutant: the chunk is written whole, the limit is only noticed.
AcceptedWhole(n) == n

\* _OutputBudget.take: what is left of the limit is accepted.
Accepted(n) == IF n <= remaining THEN n ELSE remaining

OverLimit(s) == buffer[s] > remaining

\* A chunk is read and its accepted part written to the artifact.
Take(s) ==
  /\ buffer[s] > 0
  /\ remaining' = remaining - Accepted(buffer[s])
  /\ written' = [written EXCEPT ![s] = @ + Accepted(buffer[s])]
  /\ buffer' = [buffer EXCEPT ![s] = 0]
  /\ UNCHANGED <<open, broken>>

\* A read of the pipe or a write to the artifact fails, and the stream with it.
Fault(s) ==
  /\ Cardinality(broken) < MaxFaults
  /\ broken' = broken \cup {s}

EndOfStream(s) ==
  /\ buffer[s] = 0
  /\ holders[s] = {}
  /\ open' = open \ {s}
  /\ UNCHANGED <<written, remaining, broken, buffer>>

\* A read that fails is taken for the end of the stream: the pipe is closed,
\* whatever is in it and whoever holds it.
ReadFails(s) ==
  /\ Fault(s)
  /\ open' = open \ {s}
  /\ UNCHANGED <<written, remaining, buffer>>

\* BlockingIOError: the pipe is left for the next round of the loop.
ReadBlocks == UNCHANGED <<output, buffer>>

NextRead == IF ready' = {} THEN "poll" ELSE "read"

Read(s) ==
  /\ pc = "read"
  /\ s \in ready
  /\ ready' = ready \ {s}
  /\ \/ /\ Take(s)
        /\ OverLimit(s) /\ ~ exceeded
        /\ exceeded' = TRUE
        /\ KillGroup
        /\ pc' = "overflow"
     \/ /\ \/ Take(s) /\ (OverLimit(s) => exceeded)
           \/ EndOfStream(s) \/ ReadFails(s) \/ ReadBlocks
        /\ pc' = NextRead
        /\ UNCHANGED <<exceeded, alive, holders, code>>
  /\ UNCHANGED <<fixed, index, before, results, receipt, produced, forks, tree, stray,
                 timed_out, leaked, exit_seen>>

\* Mutant: the loop swallows a write that fails, as the threads do.
ReadWriteFailsSwallowed(s) ==
  /\ pc = "read"
  /\ s \in ready
  /\ Accepted(buffer[s]) > 0
  /\ Fault(s)
  /\ remaining' = remaining - Accepted(buffer[s])
  /\ buffer' = [buffer EXCEPT ![s] = 0]
  /\ open' = open \ {s}
  /\ ready' = ready \ {s}
  /\ pc' = NextRead
  /\ UNCHANGED <<fixed, index, before, results, receipt, alive, code, holders, produced, forks, tree,
                 stray, written, flags>>

\* The loop does not catch a write that fails: its finally kills a process that
\* runs and closes the pipes.
ReadWriteFails(s) ==
  /\ pc = "read"
  /\ s \in ready
  /\ Accepted(buffer[s]) > 0
  /\ \E left \in {alive, alive \ Signalled} :
       /\ ~ Running => left = alive
       /\ Raise(left)

\* Mutant: the process of an overflow is waited for without a limit.
OverflowWaits ==
  /\ pc = "overflow"
  /\ ~ Running
  /\ pc' = IF ready = {} THEN "poll" ELSE "read"
  /\ UNCHANGED <<fixed, world, capture, index, before, results, receipt>>

\* The process of an overflow is waited for.
Overflow ==
  /\ pc = "overflow"
  /\ \/ /\ ~ Running
        /\ pc' = IF ready = {} THEN "poll" ELSE "read"
        /\ UNCHANGED leaked
     \/ /\ Running
        /\ leaked' = TRUE
        /\ pc' = "finally"
  /\ UNCHANGED <<fixed, world, index, before, results, receipt,
                 output, ready, timed_out, exceeded, exit_seen>>

\* finally: a process that still runs is killed, the pipes are closed.
Finally ==
  /\ pc = "finally"
  /\ IF Running THEN KillGroup ELSE UNCHANGED <<alive, holders, code>>
  /\ open' = {}
  /\ pc' = "end"
  /\ UNCHANGED <<fixed, index, before, results, receipt, buffer, produced, forks, tree, stray,
                 ready, written, remaining, broken, flags>>

-----------------------------------------------------------------------------
(* _capture_with_threads: a reader thread per pipe beside the main thread. *)

Reader(s) ==
  /\ mode = "threads" /\ Capturing
  /\ s \in open
  /\ \/ /\ Take(s)
        /\ OverLimit(s) /\ ~ exceeded
        /\ exceeded' = TRUE
        /\ KillGroup
     \/ /\ \/ Take(s) /\ (OverLimit(s) => exceeded)
           \/ EndOfStream(s) \/ ReadFails(s)
        /\ UNCHANGED <<exceeded, alive, holders, code>>
  /\ UNCHANGED <<run, fixed, produced, forks, tree, stray, ready, timed_out, leaked, exit_seen>>

\* The accepted part was taken from the budget when its write fails, which the
\* thread swallows: it ends and closes its pipe, without a look at the limit.  What
\* of the chunk was buffered before may still reach the artifact.
ReaderWriteFails(s) ==
  /\ mode = "threads" /\ Capturing
  /\ s \in open
  /\ Fault(s)
  /\ Accepted(buffer[s]) > 0
  /\ remaining' = remaining - Accepted(buffer[s])
  /\ \E kept \in 0..Accepted(buffer[s]) : written' = [written EXCEPT ![s] = @ + kept]
  /\ buffer' = [buffer EXCEPT ![s] = 0]
  /\ open' = open \ {s}
  /\ UNCHANGED <<run, fixed, alive, holders, code, produced, forks, tree, stray, ready, flags>>

\* The wait ends with the process or at the deadline.
Wait ==
  /\ pc = "wait"
  /\ \/ ~ Running /\ UNCHANGED <<timed_out, alive, holders, code>>
     \/ Running /\ timed_out' = TRUE /\ KillGroup
  /\ pc' = "waited"
  /\ UNCHANGED <<fixed, index, before, results, receipt, buffer, produced, forks, tree, stray,
                 output, ready, leaked, exceeded, exit_seen>>

Waited ==
  /\ pc = "waited"
  /\ IF Running THEN leaked' = TRUE /\ KillGroup ELSE UNCHANGED <<leaked, alive, holders, code>>
  /\ exit_seen' = TRUE
  /\ pc' = "join"
  /\ UNCHANGED <<fixed, index, before, results, receipt, buffer, produced, forks, tree, stray,
                 output, ready, timed_out, exceeded>>

\* The readers have ended, or the grace is over and one still reads.
Join ==
  /\ pc = "join"
  /\ \/ open = {} /\ UNCHANGED <<leaked, alive, holders, code>>
     \/ open # {} /\ leaked' = TRUE /\ KillGroup
  /\ pc' = "end"
  /\ UNCHANGED <<fixed, index, before, results, receipt, buffer, produced, forks, tree, stray,
                 output, ready, timed_out, exceeded, exit_seen>>

-----------------------------------------------------------------------------
BInit ==
  /\ pc = "start" /\ index = 1 /\ before = NULL /\ results = <<>>
  /\ receipt = [before |-> NULL, after |-> NULL, passed |-> FALSE]
  /\ mode \in Modes
  /\ run_exists \in BOOLEAN
  /\ tree = CHOOSE t \in Trees : TRUE
  /\ stray = FALSE /\ forks = 0
  /\ alive = {} /\ code = NULL /\ holders = [s \in Streams |-> {}]
  /\ buffer = [s \in Streams |-> 0] /\ produced = [s \in Streams |-> 0]
  /\ open = {} /\ ready = {} /\ written = [s \in Streams |-> 0]
  /\ remaining = MaxOutput /\ broken = {}
  /\ timed_out = FALSE /\ leaked = FALSE /\ exceeded = FALSE /\ exit_seen = FALSE

CaptureStep ==
  \/ PollTimeout \/ PollRunning \/ PollExit \/ PollDrain \/ PollGraceOver \/ Terminated
  \/ Select \/ Overflow \/ Finally
  \/ Wait \/ Waited \/ Join
  \/ \E s \in Streams :
       Read(s) \/ ReadWriteFails(s) \/ Reader(s) \/ ReaderWriteFails(s)

VerifierStep ==
  \/ Start \/ Launch \/ LaunchFails \/ RegisterFails
  \/ CaptureStep \/ EndCommand \/ Finish \/ Raises

Processes ==
  \/ \E p \in Members, s \in Streams : WriteOutput(p, s) \/ ClosePipe(p, s)
  \/ \E p \in {"group", "detached"} : Fork(p)
  \/ \E p \in Members, c \in Codes : Exit(p, c)
  \/ \E t \in Trees : ChangeTree(t)

BNext == VerifierStep \/ Processes

BSpec == BInit /\ [][BNext]_bvars

\* The verifier's own steps are taken, and time passes: a loop that polls for
\* ever finds the deadline passed, or the grace over.  The processes need not do
\* anything.
BFairSpec ==
  BSpec /\ WF_bvars(VerifierStep) /\ SF_bvars(PollTimeout \/ PollGraceOver)

-----------------------------------------------------------------------------
(* Properties. *)

\* Types.
BTypeOK ==
  /\ index \in 1..NCommands + 1
  /\ Len(results) = index - 1
  /\ alive \subseteq Members /\ code \in Codes \cup {NULL}
  /\ Running => code = NULL
  /\ forks \in 0..MaxForks
  /\ ready \subseteq Streams /\ open \subseteq Streams

\* The artifacts stay within the limit the two streams share, and a command that
\* passed ended by itself with 0, before anybody killed it, with nothing of its
\* process group alive; of a stream on which no read or write failed, all that was
\* written is in the artifact and no process holds the pipe
\* (test_active_same_group_descendant_fails,
\* test_open_pipe_from_detached_descendant_fails_closed).  A read that fails ends
\* its stream in silence, so such a stream is cut short; but the selector's capture
\* passes no command of which accepted output is missing.
PassedIsComplete ==
  /\ Sum(written) <= MaxOutput
  /\ pc = "end" /\ CommandPassed =>
       /\ alive \cap Signalled = {}
       /\ \A s \in Streams \ broken : written[s] = produced[s] /\ holders[s] = {}
       /\ \A s \in broken : written[s] <= produced[s]
       /\ mode = "selector" => Sum(written) = MaxOutput - remaining

\* A receipt that passed is about one state of the workspace: the one each
\* command found, each left and the receipt names.  Only a descendant that left
\* the process group and its pipes, which nothing on the host can see, may
\* change it between two commands ("a fully detached descendant needs Docker").
PassedIsOneTree ==
  pc = "done" /\ receipt.passed /\ ~ stray =>
    /\ Len(results) = NCommands
    /\ \A i \in DOMAIN results :
         results[i].passed /\ {results[i].before, results[i].after} = {receipt.before}

\* Every verification ends: a process that ignores signals, a full pipe or a
\* pipe nobody closes cannot hold it (the cleanup and drain deadlines).
CaptureEnds == <>(pc \in {"done", "raised"})
=============================================================================
