------------------------ MODULE BoundedVerifierProofs ------------------------
(***************************************************************************)
(* The safety of the verifier of local processes for every number of       *)
(* commands, descendants, chunks of output, failed reads and writes and    *)
(* states of the workspace, whatever the processes do, on either platform. *)
(***************************************************************************)
EXTENDS BoundedVerifier, TLAPS

-----------------------------------------------------------------------------
(* The inductive invariant, by parts. *)

CaptureLabels ==
  {"poll", "terminated", "killed", "killed_again", "select", "read", "overflow", "finally",
   "wait", "waited", "join"}
Busy == CaptureLabels \cup {"end"}

RunTypes ==
  /\ pc \in Busy \cup {"start", "begin", "final", "done", "raised"}
  /\ tree \in Trees /\ stray \in BOOLEAN
  /\ results \in Seq([passed : BOOLEAN, before : Trees \cup {NULL}, after : Trees])
  /\ before \in Trees \cup {NULL}
  /\ receipt \in [before : Trees \cup {NULL}, after : Trees \cup {NULL}, passed : BOOLEAN]
  /\ mode \in Modes /\ forks \in 0..MaxForks

ProcessTypes ==
  /\ alive \subseteq Members /\ code \in Codes \cup {NULL}
  /\ Running => code = NULL
  /\ holders \in [Streams -> SUBSET Members]
  /\ open \subseteq Streams /\ ready \subseteq Streams /\ broken \subseteq Streams

OutputTypes ==
  /\ buffer \in [Streams -> Nat] /\ produced \in [Streams -> Nat] /\ written \in [Streams -> Nat]
  /\ remaining \in Nat
  /\ {timed_out, leaked, exceeded, exit_seen} \subseteq BOOLEAN

\* The artifacts and the rest of the budget are within the limit, and are all of
\* it in the selector's capture.  No chunk is doubled, and none is lost before the
\* limit is met on a stream on which nothing failed.
Conserved ==
  /\ Sum(written) + remaining <= MaxOutput
  /\ mode = "selector" => Sum(written) + remaining = MaxOutput
  /\ \A s \in Streams : written[s] + buffer[s] <= produced[s]
  /\ ~ exceeded => \A s \in Streams \ broken : written[s] + buffer[s] = produced[s]

\* The capture of a command that may still pass: a pipe it closed, not for a
\* failure, was empty and nobody's, and once the leader was reaped its group is
\* gone.
Clean ==
  ~ leaked /\ ~ timed_out =>
    /\ \A s \in Streams \ (open \cup broken) : buffer[s] = 0 /\ holders[s] = {}
    /\ mode = "selector" /\ exit_seen => alive \cap {"leader", "group"} = {}

\* How the capture gets where it is.
Placed ==
  /\ pc \in {"terminated", "killed", "killed_again"} => timed_out
  /\ pc \in {"wait", "waited", "join"} => mode = "threads"
  /\ pc \in {"finally", "end"} =>
       \/ leaked \/ timed_out
       \/ open = {} /\ (mode = "selector" => exit_seen)

\* One result for each command, and nothing runs between them.
Counted ==
  /\ index \in 1..(NCommands + 1) /\ Len(results) = index - 1
  /\ pc # "raised" => (pc \in {"final", "done"} <=> index = NCommands + 1)
  /\ pc \notin Busy => alive = {}

\* As long as every command passed and left nothing behind, the workspace is the
\* one of the start.
OneTree ==
  /\ ~ stray /\ pc \notin {"start", "raised"} /\ (\A i \in DOMAIN results : results[i].passed) =>
       /\ \A i \in DOMAIN results :
            results[i].before = receipt.before /\ results[i].after = receipt.before
       /\ pc \in {"begin", "final"} => tree = receipt.before
       /\ pc \in Busy => before = receipt.before
  /\ pc = "start" => results = <<>>
  /\ pc = "done" /\ receipt.passed => \A i \in DOMAIN results : results[i].passed

VerifierInv ==
  RunTypes /\ ProcessTypes /\ OutputTypes /\ Conserved /\ Clean /\ Placed /\ Counted /\ OneTree

-----------------------------------------------------------------------------
(* What the steps have in common. *)

\* Signals only take processes away.
Fewer ==
  /\ alive' \subseteq alive
  /\ holders' \in [Streams -> SUBSET Members] /\ \A s \in Streams : holders'[s] \subseteq holders[s]
  /\ code' \in Codes \cup {NULL} /\ (Running' => code' = NULL)

LEMMA DeadFewer == ASSUME ProcessTypes, NEW dying, Dead(dying) PROVE Fewer
BY DEF ProcessTypes, Dead, Fewer, Codes, Running

LEMMA KillFewer ==
  ASSUME ProcessTypes, KillGroup \/ TerminateGroup \/ UNCHANGED <<alive, holders, code>>
  PROVE  Fewer
<1>1. CASE UNCHANGED <<alive, holders, code>>
  BY <1>1 DEF ProcessTypes, Fewer, Running
<1> QED BY <1>1, DeadFewer DEF KillGroup, TerminateGroup

\* What the run has recorded is not touched while a command is captured.
RunKept == UNCHANGED <<index, before, results, receipt, mode, tree, stray, forks>>

LEMMA RunKeptInv ==
  ASSUME VerifierInv, RunKept, pc \in CaptureLabels, pc' \in Busy
  PROVE  RunTypes' /\ Counted' /\ OneTree'
<1> USE DEF VerifierInv, RunKept
<1>1. RunTypes'
  BY DEF RunTypes
<1>2. Counted'
  BY DEF Counted, Busy, CaptureLabels
<1>3. OneTree'
  BY DEF OneTree, Busy, CaptureLabels
<1> QED BY <1>1, <1>2, <1>3

\* The output budget: a pipe is read, found at its end, or given up.
LEMMA ReadFacts ==
  ASSUME VerifierInv, NEW s \in Streams, Fewer,
         \/ /\ Take(s)
            /\ IF OverLimit(s) /\ ~ exceeded THEN exceeded' = TRUE ELSE UNCHANGED exceeded
         \/ /\ EndOfStream(s) \/ ReadFails(s) \/ ReadBlocks
            /\ UNCHANGED exceeded,
         UNCHANGED <<produced, timed_out, leaked, exit_seen, mode>>
  PROVE  /\ OutputTypes' /\ Conserved' /\ Clean'
         /\ open' \subseteq Streams /\ broken' \subseteq Streams
<1> USE DEF VerifierInv
<1>0. /\ buffer \in [Streams -> Nat] /\ produced \in [Streams -> Nat] /\ written \in [Streams -> Nat]
      /\ remaining \in Nat /\ MaxOutput \in Nat
      /\ open \subseteq Streams /\ broken \subseteq Streams
      /\ {timed_out, leaked, exceeded, exit_seen} \subseteq BOOLEAN
  BY VerifierAssumption DEF OutputTypes, ProcessTypes
<1>1. CASE Take(s) /\ IF OverLimit(s) /\ ~ exceeded THEN exceeded' = TRUE ELSE UNCHANGED exceeded
  <2>1. PICK n : n = Accepted(buffer[s])
    OBVIOUS
  <2>2. /\ n \in Nat /\ n <= remaining /\ n <= buffer[s]
        /\ ~ OverLimit(s) => n = buffer[s]
    BY <1>0, <2>1 DEF Accepted, OverLimit
  <2>3. /\ written' = [written EXCEPT ![s] = written[s] + n] /\ buffer' = [buffer EXCEPT ![s] = 0]
        /\ remaining' = remaining - n /\ UNCHANGED <<open, broken>>
    BY <1>1, <2>1 DEF Take
  <2>4. /\ written'[s] = written[s] + n /\ buffer'[s] = 0
        /\ \A u \in Streams \ {s} : written'[u] = written[u] /\ buffer'[u] = buffer[u]
    BY <1>0, <2>3
  <2>5. buffer' \in [Streams -> Nat] /\ written' \in [Streams -> Nat] /\ remaining' \in Nat
    BY <1>0, <2>2, <2>3
  <2>6. OutputTypes'
    BY <1>0, <1>1, <2>5 DEF OutputTypes
  <2>7. Sum(written)' + remaining' = Sum(written) + remaining
    BY <1>0, <2>2, <2>3, <2>4 DEF Sum, Streams
  <2>8. ASSUME NEW u \in Streams
        PROVE  /\ written'[u] + buffer'[u] <= produced'[u]
               /\ ~ exceeded' /\ u \notin broken' => written'[u] + buffer'[u] = produced'[u]
    <3>1. /\ written[u] + buffer[u] <= produced[u]
          /\ ~ exceeded /\ u \notin broken => written[u] + buffer[u] = produced[u]
      BY DEF Conserved
    <3>2. ~ exceeded' => ~ exceeded /\ n = buffer[s]
      BY <1>1, <2>2
    <3>3. CASE u = s
      BY <1>0, <2>2, <2>3, <2>4, <3>1, <3>2, <3>3
    <3>4. CASE u # s
      BY <1>0, <2>3, <2>4, <3>1, <3>2, <3>4
    <3> QED BY <3>3, <3>4
  <2>9. Clean'
    BY <2>3, <2>4 DEF Clean, Fewer
  <2> QED BY <1>0, <2>3, <2>6, <2>7, <2>8, <2>9 DEF Conserved
<1>2. CASE (EndOfStream(s) \/ ReadFails(s) \/ ReadBlocks) /\ UNCHANGED exceeded
  <2>1. /\ UNCHANGED <<written, remaining, buffer>>
        /\ open' \subseteq open /\ broken \subseteq broken' /\ broken' \subseteq broken \cup {s}
        /\ \A u \in Streams \ (open' \cup broken') :
             u \notin open \/ (buffer[u] = 0 /\ holders[u] = {})
    BY <1>2 DEF EndOfStream, ReadFails, ReadBlocks, Fault, output
  <2>2. OutputTypes'
    BY <1>0, <1>2, <2>1 DEF OutputTypes
  <2>3. Conserved'
    BY <1>0, <1>2, <2>1 DEF Conserved, Sum
  <2>4. Clean'
    BY <2>1 DEF Clean, Fewer
  <2> QED BY <1>0, <2>1, <2>2, <2>3, <2>4
<1> QED BY <1>1, <1>2

\* Steps of the capture that read nothing.
NoRead == UNCHANGED <<buffer, produced, written, remaining, broken, exceeded, mode>>

LEMMA NoReadFacts ==
  ASSUME VerifierInv, NoRead, {timed_out', leaked', exit_seen'} \subseteq BOOLEAN
  PROVE  OutputTypes' /\ Conserved'
BY DEF VerifierInv, NoRead, OutputTypes, Conserved, Sum

-----------------------------------------------------------------------------
(* The steps. *)

\* The selector loop of _capture_with_selector.
LEMMA SelectorInv ==
  ASSUME VerifierInv,
         PollTimeout \/ PollRunning \/ PollExit \/ PollDrain \/ PollGraceOver \/ Terminated
  PROVE  VerifierInv'
<1>1. RunKept /\ NoRead /\ UNCHANGED <<open, ready>>
  BY DEF PollTimeout, PollRunning, PollExit, PollDrain, PollGraceOver, Terminated, RunKept, NoRead,
         world, capture, output, flags, fixed
<1>2. Fewer
  BY KillFewer DEF VerifierInv, PollTimeout, PollRunning, PollExit, PollDrain, PollGraceOver, Terminated,
     world
<1>3. pc \in CaptureLabels /\ pc' \in Busy
  BY DEF PollTimeout, PollRunning, PollExit, PollDrain, PollGraceOver, Terminated, CaptureLabels, Busy
<1>4. {timed_out', leaked', exit_seen'} \subseteq BOOLEAN
  BY DEF PollTimeout, PollRunning, PollExit, PollDrain, PollGraceOver, Terminated, VerifierInv,
         OutputTypes, capture, flags
<1>5. ProcessTypes'
  BY <1>1, <1>2 DEF VerifierInv, ProcessTypes, Fewer, NoRead
<1>6. Clean'
  <2> USE <1>1, <1>2 DEF VerifierInv, Clean, Fewer, NoRead, RunKept
  <2>1. CASE PollTimeout
    BY <2>1 DEF PollTimeout
  <2>2. CASE PollRunning
    BY <2>2 DEF PollRunning, capture, flags
  <2>3. CASE PollExit
    BY <2>3 DEF PollExit, Running
  <2>4. CASE PollDrain
    BY <2>4 DEF PollDrain, capture, flags, world
  <2>5. CASE PollGraceOver
    BY <2>5 DEF PollGraceOver
  <2>6. CASE Terminated
    BY <2>6 DEF Terminated
  <2> QED BY <2>1, <2>2, <2>3, <2>4, <2>5, <2>6
<1>7. Placed'
  <2> USE <1>1 DEF VerifierInv, Placed, RunKept
  <2>1. CASE PollTimeout
    BY <2>1 DEF PollTimeout
  <2>2. CASE PollRunning
    BY <2>2 DEF PollRunning, capture, flags
  <2>3. CASE PollExit
    BY <2>3 DEF PollExit
  <2>4. CASE PollDrain
    BY <2>4 DEF PollDrain, capture, flags, world
  <2>5. CASE PollGraceOver
    BY <2>5 DEF PollGraceOver
  <2>6. CASE Terminated
    BY <2>6 DEF Terminated
  <2> QED BY <2>1, <2>2, <2>3, <2>4, <2>5, <2>6
<1> QED BY <1>1, <1>3, <1>4, <1>5, <1>6, <1>7, RunKeptInv, NoReadFacts DEF VerifierInv

LEMMA SelectInv ==
  ASSUME VerifierInv, Select \/ Overflow \/ Finally
  PROVE  VerifierInv'
<1>1. RunKept /\ NoRead
  BY DEF Select, Overflow, Finally, RunKept, NoRead, world, fixed, output, flags
<1>2. Fewer
  BY KillFewer DEF VerifierInv, Select, Overflow, Finally, world
<1>3. pc \in CaptureLabels /\ pc' \in Busy
  BY DEF Select, Overflow, Finally, CaptureLabels, Busy
<1>4. {timed_out', leaked', exit_seen'} \subseteq BOOLEAN
  BY DEF Select, Overflow, Finally, VerifierInv, OutputTypes, flags
<1>5. ProcessTypes'
  BY <1>1, <1>2 DEF Select, Overflow, Finally, VerifierInv, ProcessTypes, Fewer, output, NoRead
<1>6. Clean'
  <2> USE <1>1, <1>2 DEF VerifierInv, Clean, Fewer, NoRead, RunKept
  <2>1. CASE Select
    BY <2>1 DEF Select, output, flags
  <2>2. CASE Overflow
    BY <2>2 DEF Overflow, output, flags
  <2>3. CASE Finally
    BY <2>3 DEF Finally, Placed, flags
  <2> QED BY <2>1, <2>2, <2>3
<1>7. Placed'
  <2> USE <1>1 DEF VerifierInv, Placed, RunKept
  <2>1. CASE Select
    BY <2>1 DEF Select, output, flags
  <2>2. CASE Overflow
    BY <2>2 DEF Overflow, output, flags
  <2>3. CASE Finally
    BY <2>3 DEF Finally, output, flags
  <2> QED BY <2>1, <2>2, <2>3
<1> QED BY <1>1, <1>3, <1>4, <1>5, <1>6, <1>7, RunKeptInv, NoReadFacts DEF VerifierInv

\* The main thread of _capture_with_threads.
LEMMA ThreadsInv ==
  ASSUME VerifierInv, Wait \/ Waited \/ Join
  PROVE  VerifierInv'
<1>1. RunKept /\ NoRead /\ UNCHANGED <<open, ready>>
  BY DEF Wait, Waited, Join, RunKept, NoRead, fixed, output
<1>2. Fewer
  BY KillFewer DEF VerifierInv, Wait, Waited, Join
<1>3. pc \in CaptureLabels /\ pc' \in Busy
  BY DEF Wait, Waited, Join, CaptureLabels, Busy
<1>4. {timed_out', leaked', exit_seen'} \subseteq BOOLEAN
  BY DEF Wait, Waited, Join, VerifierInv, OutputTypes
<1>5. ProcessTypes'
  BY <1>1, <1>2 DEF VerifierInv, ProcessTypes, Fewer, NoRead
<1>6. mode = "threads" /\ UNCHANGED mode
  BY <1>1 DEF Wait, Waited, Join, VerifierInv, Placed, RunKept
<1>7. Clean'
  <2> USE <1>1, <1>2, <1>6 DEF VerifierInv, Clean, Fewer, NoRead
  <2>1. CASE Wait
    BY <2>1 DEF Wait
  <2>2. CASE Waited
    BY <2>2 DEF Waited
  <2>3. CASE Join
    BY <2>3 DEF Join
  <2> QED BY <2>1, <2>2, <2>3
<1>8. Placed'
  BY <1>1, <1>6 DEF Wait, Waited, Join, Placed
<1> QED BY <1>1, <1>3, <1>4, <1>5, <1>7, <1>8, RunKeptInv, NoReadFacts DEF VerifierInv

\* A chunk is read by the loop or by a thread.
LEMMA ReadInv == ASSUME VerifierInv, NEW s \in Streams, Read(s) PROVE VerifierInv'
<1>1. RunKept /\ UNCHANGED <<produced, timed_out, leaked, exit_seen>>
  BY DEF Read, RunKept, fixed
<1>2. Fewer
  BY KillFewer DEF VerifierInv, Read
<1>3. pc \in CaptureLabels /\ pc' \in {"overflow", "poll", "read"} /\ pc' \in Busy
  BY DEF Read, NextRead, CaptureLabels, Busy
<1>4. /\ OutputTypes' /\ Conserved' /\ Clean'
      /\ open' \subseteq Streams /\ broken' \subseteq Streams
  BY <1>1, <1>2, ReadFacts DEF Read, RunKept
<1>5. ProcessTypes'
  BY <1>2, <1>4 DEF Read, VerifierInv, ProcessTypes, Fewer
<1>6. Placed'
  BY <1>3 DEF Placed
<1> QED BY <1>1, <1>3, <1>4, <1>5, <1>6, RunKeptInv DEF VerifierInv

LEMMA ReaderInv == ASSUME VerifierInv, NEW s \in Streams, Reader(s) PROVE VerifierInv'
<1>1. RunKept /\ UNCHANGED <<produced, timed_out, leaked, exit_seen, pc, ready>>
  BY DEF Reader, RunKept, fixed, run
<1>2. Fewer
  BY KillFewer DEF VerifierInv, Reader
<1>3. pc \in CaptureLabels /\ pc' \in Busy
  BY <1>1 DEF Reader, Capturing, VerifierInv, RunTypes, CaptureLabels, Busy
<1>4. /\ OutputTypes' /\ Conserved' /\ Clean'
      /\ open' \subseteq Streams /\ broken' \subseteq Streams
  BY <1>1, <1>2, ReadFacts DEF Reader, RunKept
<1>5. ProcessTypes'
  BY <1>1, <1>2, <1>4 DEF VerifierInv, ProcessTypes, Fewer
<1>6. open' \subseteq open
  BY DEF Reader, Take, EndOfStream, ReadFails
<1>7. Placed'
  BY <1>1, <1>6 DEF VerifierInv, Placed, RunKept
<1> QED BY <1>1, <1>3, <1>4, <1>5, <1>7, RunKeptInv DEF VerifierInv

\* A thread ends with a write that failed.
LEMMA ReaderWriteFailsInv ==
  ASSUME VerifierInv, NEW s \in Streams, ReaderWriteFails(s)
  PROVE  VerifierInv'
<1> USE DEF VerifierInv
<1>0. /\ buffer \in [Streams -> Nat] /\ produced \in [Streams -> Nat] /\ written \in [Streams -> Nat]
      /\ remaining \in Nat /\ MaxOutput \in Nat
      /\ {timed_out, leaked, exceeded, exit_seen} \subseteq BOOLEAN
  BY VerifierAssumption DEF OutputTypes
<1>1. /\ RunKept /\ UNCHANGED <<pc, ready, alive, code, holders, produced>>
      /\ UNCHANGED <<timed_out, leaked, exceeded, exit_seen>>
      /\ mode = "threads" /\ broken' = broken \cup {s} /\ open' = open \ {s}
  BY DEF ReaderWriteFails, Fault, RunKept, fixed, run, flags
<1>2. pc \in CaptureLabels /\ pc' \in Busy
  BY <1>1 DEF ReaderWriteFails, Capturing, RunTypes, CaptureLabels, Busy
<1>3. PICK n \in Nat : n = Accepted(buffer[s]) /\ n <= remaining /\ n <= buffer[s]
  BY <1>0 DEF Accepted
<1>4. PICK kept \in 0..n : written' = [written EXCEPT ![s] = written[s] + kept]
  BY <1>3 DEF ReaderWriteFails
<1>5. remaining' = remaining - n /\ buffer' = [buffer EXCEPT ![s] = 0]
  BY <1>3 DEF ReaderWriteFails
<1>6. /\ written'[s] = written[s] + kept /\ buffer'[s] = 0
      /\ \A u \in Streams \ {s} : written'[u] = written[u] /\ buffer'[u] = buffer[u]
      /\ buffer' \in [Streams -> Nat] /\ written' \in [Streams -> Nat] /\ remaining' \in Nat
  BY <1>0, <1>3, <1>4, <1>5
<1>7. ProcessTypes' /\ OutputTypes'
  BY <1>0, <1>1, <1>6 DEF ProcessTypes, OutputTypes, Running
<1>8. Conserved'
  <2>1. Sum(written)' + remaining' <= Sum(written) + remaining
    BY <1>0, <1>3, <1>4, <1>5, <1>6 DEF Sum, Streams
  <2>2. Sum(written)' + remaining' <= MaxOutput
    BY <1>0, <1>6, <2>1 DEF Conserved, Sum, Streams
  <2>3. mode' # "selector"
    BY <1>1 DEF RunKept
  <2>4. ASSUME NEW u \in Streams
        PROVE  /\ written'[u] + buffer'[u] <= produced'[u]
               /\ ~ exceeded' /\ u \notin broken' => written'[u] + buffer'[u] = produced'[u]
    <3>1. /\ written[u] + buffer[u] <= produced[u]
          /\ ~ exceeded /\ u \notin broken => written[u] + buffer[u] = produced[u]
      BY DEF Conserved
    <3>2. CASE u = s
      BY <1>0, <1>1, <1>3, <1>6, <3>1, <3>2
    <3>3. CASE u # s
      BY <1>0, <1>1, <1>6, <3>1, <3>3
    <3> QED BY <3>2, <3>3
  <2> QED BY <2>2, <2>3, <2>4 DEF Conserved
<1>9. Clean'
  BY <1>1, <1>6 DEF Clean, RunKept
<1>10. Placed'
  BY <1>1 DEF Placed, RunKept
<1> QED BY <1>1, <1>2, <1>7, <1>8, <1>9, <1>10, RunKeptInv

\* The processes of a command, while it is captured.
LEMMA ProcessesInv ==
  ASSUME VerifierInv,
         \/ \E p \in Members, s \in Streams : WriteOutput(p, s) \/ ClosePipe(p, s)
         \/ \E p \in {"group", "detached"} : Fork(p)
         \/ \E p \in Members, c \in Codes : Exit(p, c)
  PROVE  VerifierInv'
<1> USE DEF VerifierInv
<1>0. /\ UNCHANGED <<index, before, results, receipt, mode, tree, stray, pc>>
      /\ UNCHANGED <<timed_out, leaked, exceeded, exit_seen, written, open, ready>>
      /\ UNCHANGED <<remaining, broken>>
      /\ pc \in CaptureLabels /\ pc' \in Busy
  BY DEF WriteOutput, ClosePipe, Fork, Exit, run, fixed, capture, output, flags, Capturing, RunTypes,
         CaptureLabels, Busy
<1>1. forks' \in 0..MaxForks
  BY VerifierAssumption DEF WriteOutput, ClosePipe, Fork, Exit, RunTypes
<1>2. RunTypes' /\ Placed' /\ Counted' /\ OneTree'
  BY <1>0, <1>1 DEF RunTypes, Placed, Counted, OneTree, Busy, CaptureLabels
<1>3. ASSUME NEW p \in Members, NEW s \in Streams, WriteOutput(p, s)
      PROVE  ProcessTypes' /\ OutputTypes' /\ Conserved' /\ Clean'
  <2>1. /\ s \in open /\ UNCHANGED <<alive, code, holders>>
        /\ buffer' = [buffer EXCEPT ![s] = buffer[s] + 1]
        /\ produced' = [produced EXCEPT ![s] = produced[s] + 1]
    BY <1>3 DEF WriteOutput
  <2>2. /\ buffer' \in [Streams -> Nat] /\ produced' \in [Streams -> Nat]
        /\ buffer'[s] = buffer[s] + 1 /\ produced'[s] = produced[s] + 1
        /\ \A u \in Streams \ {s} : buffer'[u] = buffer[u] /\ produced'[u] = produced[u]
    BY <2>1 DEF OutputTypes
  <2>3. ProcessTypes' /\ OutputTypes'
    BY <1>0, <2>1, <2>2 DEF ProcessTypes, OutputTypes, Running
  <2>4. Conserved'
    <3>1. /\ buffer \in [Streams -> Nat] /\ produced \in [Streams -> Nat]
          /\ written \in [Streams -> Nat] /\ written' = written
      BY <1>0 DEF OutputTypes
    <3>2. ASSUME NEW u \in Streams
          PROVE  /\ written'[u] + buffer'[u] <= produced'[u]
                 /\ ~ exceeded' /\ u \notin broken' => written'[u] + buffer'[u] = produced'[u]
      <4>1. /\ written[u] + buffer[u] <= produced[u]
            /\ ~ exceeded /\ u \notin broken => written[u] + buffer[u] = produced[u]
        BY DEF Conserved
      <4>2. CASE u = s
        BY <1>0, <2>2, <3>1, <4>1, <4>2
      <4>3. CASE u # s
        BY <1>0, <2>2, <3>1, <4>1, <4>3
      <4> QED BY <4>2, <4>3
    <3>3. Sum(written)' = Sum(written)
      BY <3>1 DEF Sum
    <3> QED BY <1>0, <3>2, <3>3 DEF Conserved
  <2>5. Clean'
    BY <1>0, <2>1, <2>2 DEF Clean
  <2> QED BY <2>3, <2>4, <2>5
<1>4. ASSUME UNCHANGED <<buffer, produced>> PROVE OutputTypes' /\ Conserved'
  BY <1>0, <1>4 DEF OutputTypes, Conserved, Sum
<1>5. ASSUME NEW p \in Members, NEW s \in Streams, ClosePipe(p, s) PROVE ProcessTypes' /\ Clean'
  <2>1. UNCHANGED <<alive, code, buffer>> /\ holders' = [holders EXCEPT ![s] = holders[s] \ {p}]
    BY <1>5 DEF ClosePipe
  <2>2. /\ holders' \in [Streams -> SUBSET Members]
        /\ \A u \in Streams : holders'[u] \subseteq holders[u]
    BY <2>1 DEF ProcessTypes
  <2> QED BY <1>0, <2>1, <2>2 DEF ProcessTypes, Running, Clean
<1>6. ASSUME NEW p \in {"group", "detached"}, Fork(p) PROVE ProcessTypes' /\ Clean'
  <2>1. /\ Running /\ alive' = alive \cup {p} /\ UNCHANGED <<code, buffer>>
        /\ holders' = [s \in Streams |->
                         IF "leader" \in holders[s] THEN holders[s] \cup {p} ELSE holders[s]]
    BY <1>6 DEF Fork
  <2>2. p \in Members
    BY DEF Members
  <2>3. holders' \in [Streams -> SUBSET Members]
    BY <2>1, <2>2 DEF ProcessTypes
  <2>4. ProcessTypes'
    BY <1>0, <2>1, <2>2, <2>3 DEF ProcessTypes, Running
  <2>5. Clean'
    BY <1>0, <2>1 DEF Clean, Running
  <2> QED BY <2>4, <2>5
<1>7. ASSUME NEW p \in Members, NEW c \in Codes, Exit(p, c) PROVE ProcessTypes' /\ Clean'
  <2>1. /\ alive' = alive \ {p} /\ holders' = [s \in Streams |-> holders[s] \ {p}]
        /\ code' = (IF p = "leader" THEN c ELSE code) /\ UNCHANGED buffer
    BY <1>7 DEF Exit
  <2>2. /\ holders' \in [Streams -> SUBSET Members]
        /\ \A u \in Streams : holders'[u] \subseteq holders[u]
    BY <2>1 DEF ProcessTypes
  <2> QED BY <1>0, <2>1, <2>2 DEF ProcessTypes, Running, Clean, Codes
<1> QED BY <1>2, <1>3, <1>4, <1>5, <1>6, <1>7 DEF ClosePipe, Fork, Exit

\* Somebody writes to the workspace.
LEMMA WorldInv ==
  ASSUME VerifierInv, (\E t \in Trees : ChangeTree(t)) \/ UNCHANGED bvars
  PROVE  VerifierInv'
<1> USE DEF VerifierInv
<1>0. /\ UNCHANGED <<index, before, results, receipt, mode, stray, pc, forks>>
      /\ UNCHANGED <<alive, code, holders, open, ready, broken>>
      /\ UNCHANGED <<buffer, produced, written, remaining, timed_out, leaked, exceeded, exit_seen>>
  BY DEF ChangeTree, bvars, run, fixed, world, capture, output, flags
<1>1. ProcessTypes' /\ OutputTypes' /\ Conserved' /\ Clean' /\ Placed' /\ Counted'
  BY <1>0 DEF ProcessTypes, OutputTypes, Conserved, Clean, Placed, Counted, Running, Sum
<1>2. RunTypes' /\ OneTree'
  <2>1. CASE UNCHANGED tree
    BY <1>0, <2>1 DEF RunTypes, OneTree
  <2>2. CASE \E t \in Trees : ChangeTree(t)
    <3>1. tree' \in Trees /\ (alive # {} \/ stray)
      BY <2>2 DEF ChangeTree
    <3>2. stray \/ pc \in Busy
      BY <3>1 DEF Counted
    <3>3. pc \in Busy => pc \notin {"begin", "final"}
      BY DEF Busy, CaptureLabels
    <3>4. RunTypes'
      BY <1>0, <3>1 DEF RunTypes
    <3> QED BY <1>0, <3>2, <3>3, <3>4 DEF OneTree
  <2> QED BY <2>1, <2>2 DEF bvars, world
<1> QED BY <1>1, <1>2

\* The state between two commands.
LEMMA ResetFacts ==
  ASSUME NEW processes \in SUBSET Members, NEW pipes \in SUBSET Streams, Reset(processes, pipes)
  PROVE  /\ ProcessTypes' /\ OutputTypes' /\ Conserved'
         /\ alive' = processes /\ open' = pipes /\ ~ exit_seen'
         /\ processes = {} \/ pipes = Streams => Clean'
<1> USE DEF Reset
<1>1. ProcessTypes'
  BY DEF ProcessTypes, Running
<1>2. OutputTypes'
  BY VerifierAssumption DEF OutputTypes
<1>3. Conserved'
  BY VerifierAssumption DEF Conserved, Streams, Sum
<1>4. processes = {} \/ pipes = Streams => Clean'
  BY DEF Clean
<1> QED BY <1>1, <1>2, <1>3, <1>4

LEMMA StartInv == ASSUME VerifierInv, Start PROVE VerifierInv'
<1> USE DEF VerifierInv
<1>0. /\ pc = "start" /\ pc' \in {"raised", "begin"} /\ receipt' = [receipt EXCEPT !.before = tree]
      /\ UNCHANGED <<index, before, results, mode, tree, stray, forks>>
      /\ UNCHANGED <<alive, code, holders, open, ready, broken>>
      /\ UNCHANGED <<buffer, produced, written, remaining, timed_out, leaked, exceeded, exit_seen>>
  BY DEF Start, fixed, world, capture, output, flags
<1>1. ProcessTypes' /\ OutputTypes' /\ Conserved' /\ Clean'
  BY <1>0 DEF ProcessTypes, OutputTypes, Conserved, Clean, Running, Sum
<1>2. /\ receipt' \in [before : Trees \cup {NULL}, after : Trees \cup {NULL}, passed : BOOLEAN]
      /\ receipt'.before = tree
  BY <1>0 DEF RunTypes
<1>3. RunTypes'
  BY <1>0, <1>2 DEF RunTypes
<1>4. Placed' /\ Counted'
  BY <1>0 DEF Placed, Counted, Busy, CaptureLabels
<1>5. OneTree'
  <2>1. results' = <<>>
    BY <1>0 DEF OneTree
  <2> QED BY <1>0, <1>2, <2>1 DEF OneTree, Busy, CaptureLabels
<1> QED BY <1>1, <1>3, <1>4, <1>5

\* verify raises, in the middle of a capture or around it.
LEMMA RaiseInv ==
  ASSUME VerifierInv, RegisterFails \/ Raises \/ \E s \in Streams : ReadWriteFails(s)
  PROVE  VerifierInv'
<1> USE DEF VerifierInv
<1>0. PICK left : Raise(left)
  BY DEF RegisterFails, Raises, ReadWriteFails
<1>1. /\ pc' = "raised" /\ stray' = (stray \/ left # {}) /\ Reset({}, {}) /\ before' = NULL
      /\ UNCHANGED <<index, results, receipt, mode, tree, forks>>
  BY <1>0 DEF Raise, fixed
<1>2. ProcessTypes' /\ OutputTypes' /\ Conserved' /\ Clean' /\ alive' = {}
  BY <1>1, ResetFacts
<1>3. RunTypes'
  BY <1>1 DEF RunTypes
<1>4. Placed' /\ Counted' /\ OneTree'
  BY <1>1, <1>2 DEF Placed, Counted, OneTree, Busy, CaptureLabels
<1> QED BY <1>2, <1>3, <1>4

LEMMA LaunchInv == ASSUME VerifierInv, Launch PROVE VerifierInv'
<1> USE DEF VerifierInv
<1>0. /\ pc = "begin" /\ before' = tree /\ Reset({"leader"}, Streams)
      /\ pc' = (IF mode = "selector" THEN "poll" ELSE "wait")
      /\ UNCHANGED <<index, results, receipt, mode, tree, stray, forks>>
  BY DEF Launch, fixed
<1>1. ProcessTypes' /\ OutputTypes' /\ Conserved' /\ Clean'
  BY <1>0, ResetFacts DEF Members
<1>2. RunTypes'
  BY <1>0 DEF RunTypes, Busy, CaptureLabels
<1>3. Placed'
  BY <1>0 DEF Placed, RunTypes, Modes
<1>4. Counted'
  BY <1>0 DEF Counted, Busy, CaptureLabels
<1>5. OneTree'
  BY <1>0 DEF OneTree, Busy, CaptureLabels
<1> QED BY <1>1, <1>2, <1>3, <1>4, <1>5

\* A result is recorded and the next command, or the receipt, is next.
LEMMA RecordFacts ==
  ASSUME VerifierInv, pc \in {"begin", "end"},
         NEW r \in [passed : BOOLEAN, before : Trees \cup {NULL}, after : Trees],
         results' = Append(results, r), pc' = AfterCommand, index' = index + 1,
         UNCHANGED <<receipt, mode, tree, forks>>, before' \in Trees \cup {NULL},
         stray' \in BOOLEAN, alive' = {}, stray => stray',
         r.passed /\ ~ stray' => pc = "end" /\ r.before = before /\ r.after = r.before /\ r.after = tree
  PROVE  RunTypes' /\ Placed' /\ Counted' /\ OneTree'
<1> USE DEF VerifierInv
<1>0. pc' \in {"begin", "final"} /\ pc' \notin Busy
  BY DEF AfterCommand, Busy, CaptureLabels
<1>1. RunTypes'
  BY <1>0 DEF RunTypes
<1>2. Placed'
  BY <1>0 DEF Placed
<1>3. index \in 1..NCommands /\ NCommands \in Nat
  BY VerifierAssumption DEF Counted
<1>4. Counted'
  <2>1. Len(results') = Len(results) + 1
    BY DEF RunTypes
  <2>2. pc' = "final" <=> index' = NCommands + 1
    BY <1>3 DEF AfterCommand
  <2> QED BY <1>0, <1>3, <2>1, <2>2 DEF Counted
<1>5. OneTree'
  <2>1. SUFFICES ASSUME ~ stray', \A i \in DOMAIN results' : results'[i].passed
                 PROVE  /\ \A i \in DOMAIN results' :
                             results'[i].before = receipt.before /\ results'[i].after = receipt.before
                        /\ tree = receipt.before
    BY <1>0 DEF OneTree
  <2>2. PICK n : n = Len(results)
    OBVIOUS
  <2>3. /\ n \in Nat /\ DOMAIN results = 1..n /\ DOMAIN results' = 1..(n + 1)
        /\ results'[n + 1] = r /\ \A i \in 1..n : results'[i] = results[i]
    BY <2>2 DEF RunTypes
  <2>4. r.passed /\ \A i \in DOMAIN results : results[i].passed
    BY <2>1, <2>3
  <2>5. pc = "end" /\ r.before = before /\ r.after = r.before /\ r.after = tree /\ ~ stray
    BY <2>1, <2>4
  <2>6. /\ \A i \in DOMAIN results :
             results[i].before = receipt.before /\ results[i].after = receipt.before
        /\ before = receipt.before
    BY <2>4, <2>5 DEF OneTree, Busy
  <2>7. tree = receipt.before /\ r.before = receipt.before /\ r.after = receipt.before
    BY <2>5, <2>6
  <2>8. ASSUME NEW i \in DOMAIN results'
        PROVE  results'[i].before = receipt.before /\ results'[i].after = receipt.before
    <3>1. CASE i \in 1..n
      BY <2>3, <2>6, <3>1
    <3>2. CASE i = n + 1
      BY <2>3, <2>7, <3>2
    <3> QED BY <2>3, <3>1, <3>2
  <2> QED BY <2>7, <2>8
<1> QED BY <1>1, <1>2, <1>4, <1>5

LEMMA LaunchFailsInv == ASSUME VerifierInv, LaunchFails PROVE VerifierInv'
<1> USE DEF VerifierInv
<1>1. PICK r : r = Result(FALSE, tree, tree)
  OBVIOUS
<1>2. /\ pc = "begin" /\ results' = Append(results, r) /\ pc' = AfterCommand /\ index' = index + 1
      /\ UNCHANGED <<before, receipt, mode, tree, stray, forks>>
      /\ UNCHANGED <<alive, code, holders, open, ready, broken>>
      /\ UNCHANGED <<buffer, produced, written, remaining, timed_out, leaked, exceeded, exit_seen>>
  BY <1>1 DEF LaunchFails, fixed, world, capture, output, flags
<1>3. ProcessTypes' /\ OutputTypes' /\ Conserved' /\ Clean'
  BY <1>2 DEF ProcessTypes, OutputTypes, Conserved, Clean, Running, Sum
<1>4. r \in [passed : BOOLEAN, before : Trees \cup {NULL}, after : Trees] /\ r.passed = FALSE
  BY <1>1 DEF Result, RunTypes
<1>5. alive' = {}
  BY <1>2 DEF Counted, Busy, CaptureLabels
<1>6. stray \in BOOLEAN /\ before \in Trees \cup {NULL}
  BY DEF RunTypes
<1>7. RunTypes' /\ Placed' /\ Counted' /\ OneTree'
  BY <1>2, <1>4, <1>5, <1>6, RecordFacts
<1> QED BY <1>3, <1>7

LEMMA EndCommandInv == ASSUME VerifierInv, EndCommand PROVE VerifierInv'
<1> USE DEF VerifierInv
<1>1. PICK r : r = Result(CommandPassed, before, tree)
  OBVIOUS
<1>2. /\ pc = "end" /\ results' = Append(results, r) /\ pc' = AfterCommand /\ index' = index + 1
      /\ stray' = (stray \/ alive # {}) /\ Reset({}, {}) /\ before' = NULL
      /\ UNCHANGED <<receipt, mode, tree, forks>>
  BY <1>1 DEF EndCommand, fixed
<1>3. ProcessTypes' /\ OutputTypes' /\ Conserved' /\ Clean' /\ alive' = {}
  BY <1>2, ResetFacts
<1>4. CommandPassed \in BOOLEAN /\ (CommandPassed => before = tree)
  BY DEF CommandPassed
<1>5. /\ r \in [passed : BOOLEAN, before : Trees \cup {NULL}, after : Trees]
      /\ r.passed = CommandPassed /\ r.before = before /\ r.after = tree
  BY <1>1, <1>4 DEF Result, RunTypes
<1>6. stray' \in BOOLEAN /\ (stray => stray')
  BY <1>2 DEF RunTypes
<1>7. RunTypes' /\ Placed' /\ Counted' /\ OneTree'
  BY <1>2, <1>3, <1>4, <1>5, <1>6, RecordFacts
<1> QED BY <1>3, <1>7

LEMMA FinishInv == ASSUME VerifierInv, Finish PROVE VerifierInv'
<1> USE DEF VerifierInv
<1>1. PICK ok : ok = (receipt.before = tree /\ \A i \in DOMAIN results : results[i].passed)
  OBVIOUS
<1>2. /\ pc = "final" /\ pc' = "done" /\ receipt' = [receipt EXCEPT !.after = tree, !.passed = ok]
      /\ UNCHANGED <<index, before, results, mode, tree, stray, forks>>
      /\ UNCHANGED <<alive, code, holders, open, ready, broken>>
      /\ UNCHANGED <<buffer, produced, written, remaining, timed_out, leaked, exceeded, exit_seen>>
  BY <1>1 DEF Finish, fixed, world, capture, output, flags
<1>3. ProcessTypes' /\ OutputTypes' /\ Conserved' /\ Clean'
  BY <1>2 DEF ProcessTypes, OutputTypes, Conserved, Clean, Running, Sum
<1>4. ok \in BOOLEAN
  BY <1>1
<1>5. /\ receipt' \in [before : Trees \cup {NULL}, after : Trees \cup {NULL}, passed : BOOLEAN]
      /\ receipt'.passed = ok /\ receipt'.before = receipt.before
  BY <1>2, <1>4 DEF RunTypes
<1>6. RunTypes'
  BY <1>2, <1>5 DEF RunTypes
<1>7. Placed' /\ Counted'
  BY <1>2 DEF Placed, Counted, Busy, CaptureLabels
<1>8. OneTree'
  BY <1>1, <1>2, <1>5 DEF OneTree, Busy, CaptureLabels
<1> QED BY <1>3, <1>6, <1>7, <1>8

-----------------------------------------------------------------------------
(* Theorems. *)

\* The verifier and the processes it runs keep the parts of the invariant, whatever
\* fails (BoundedVerifier.verify, _capture_with_selector, _capture_with_threads).
THEOREM VerifierInvariant == BSpec => []VerifierInv
<1>1. BInit => VerifierInv
  <2> SUFFICES ASSUME BInit PROVE VerifierInv
    OBVIOUS
  <2> USE VerifierAssumption DEF BInit
  <2>1. RunTypes
    <3>1. tree \in Trees
      OBVIOUS
    <3>2. results \in Seq([passed : BOOLEAN, before : Trees \cup {NULL}, after : Trees])
      OBVIOUS
    <3>3. receipt \in [before : Trees \cup {NULL}, after : Trees \cup {NULL}, passed : BOOLEAN]
      OBVIOUS
    <3>4. stray \in BOOLEAN /\ mode \in Modes
      OBVIOUS
    <3>5. forks \in 0..MaxForks /\ before = NULL /\ pc = "start"
      OBVIOUS
    <3> QED BY <3>1, <3>2, <3>3, <3>4, <3>5 DEF RunTypes
  <2>2. ProcessTypes /\ OutputTypes
    BY DEF ProcessTypes, OutputTypes, Running
  <2>4. Conserved
    BY DEF Conserved, Streams, Sum
  <2>3. Clean /\ Placed /\ Counted /\ OneTree
    BY DEF Clean, Placed, Counted, OneTree, Busy, CaptureLabels
  <2> QED BY <2>1, <2>2, <2>3, <2>4 DEF VerifierInv
<1>2. VerifierInv /\ [BNext]_bvars => VerifierInv'
  <2> SUFFICES ASSUME VerifierInv, [BNext]_bvars PROVE VerifierInv'
    OBVIOUS
  <2>1. CASE VerifierStep
    BY <2>1, StartInv, LaunchInv, LaunchFailsInv, EndCommandInv, FinishInv, SelectorInv, SelectInv,
       ThreadsInv, ReadInv, ReaderInv, ReaderWriteFailsInv, RaiseInv DEF VerifierStep, CaptureStep
  <2>2. CASE UNCHANGED bvars
    BY <2>2, WorldInv
  <2>3. CASE Processes
    BY <2>3, ProcessesInv, WorldInv DEF Processes
  <2> QED BY <2>1, <2>2, <2>3 DEF BNext
<1> QED BY <1>1, <1>2, PTL DEF BSpec

\* The run, its processes and its capture have their types.
THEOREM VerifierTypeOK == BSpec => []BTypeOK
<1>1. VerifierInv => BTypeOK
  BY DEF VerifierInv, BTypeOK, RunTypes, ProcessTypes, Counted
<1> QED BY <1>1, VerifierInvariant, PTL

\* The artifacts stay within the limit the two streams share, and what is recorded as
\* passed is complete: its group is gone, and on every stream whose reads and writes
\* did not fail all the output is there and the pipe is nobody's; the selector's
\* capture has everything it accepted (_capture_with_selector, _capture_with_threads,
\* _OutputBudget.take).
THEOREM PassedCommandsAreComplete == BSpec => []PassedIsComplete
<1>1. VerifierInv => PassedIsComplete
  <2> SUFFICES ASSUME VerifierInv PROVE PassedIsComplete
    OBVIOUS
  <2> USE DEF VerifierInv
  <2>0. /\ written["stdout"] \in Nat /\ written["stderr"] \in Nat /\ remaining \in Nat
        /\ MaxOutput \in Nat /\ broken \subseteq Streams
    BY VerifierAssumption DEF OutputTypes, ProcessTypes, Streams
  <2>1. Sum(written) <= MaxOutput /\ (mode = "selector" => Sum(written) = MaxOutput - remaining)
    BY <2>0 DEF Conserved, Sum
  <2>2. ASSUME pc = "end", CommandPassed
        PROVE  /\ alive \cap Signalled = {}
               /\ \A s \in Streams \ broken : written[s] = produced[s] /\ holders[s] = {}
               /\ \A s \in broken : written[s] <= produced[s]
    <3>1. ~ timed_out /\ ~ exceeded /\ ~ leaked /\ code = "zero"
      BY <2>2 DEF CommandPassed
    <3>2. open = {} /\ (mode = "selector" => exit_seen)
      BY <2>2, <3>1 DEF Placed
    <3>3. \A s \in Streams \ broken : buffer[s] = 0 /\ holders[s] = {}
      BY <3>1, <3>2 DEF Clean
    <3>4. \A s \in Streams \ broken : written[s] = produced[s]
      BY <3>1, <3>3 DEF Conserved, OutputTypes
    <3>5. \A s \in broken : written[s] <= produced[s]
      <4>1. \A s \in Streams : written[s] \in Nat /\ buffer[s] \in Nat /\ produced[s] \in Nat
        BY DEF OutputTypes
      <4> QED BY <2>0, <4>1 DEF Conserved
    <3>6. "leader" \notin alive
      BY <3>1, VerifierAssumption DEF ProcessTypes, Running, Codes
    <3>7. mode = "selector" => "group" \notin alive
      BY <3>1, <3>2 DEF Clean
    <3> QED BY <3>3, <3>4, <3>5, <3>6, <3>7 DEF Signalled
  <2> QED BY <2>1, <2>2 DEF PassedIsComplete
<1> QED BY <1>1, VerifierInvariant, PTL

\* A receipt that passed is about one state of the workspace, the one every command
\* found and left, for any number of commands (BoundedVerifier.verify).
THEOREM PassedReceiptsAreOneTree == BSpec => []PassedIsOneTree
<1>1. VerifierInv => PassedIsOneTree
  <2> SUFFICES ASSUME VerifierInv, pc = "done", receipt.passed, ~ stray
               PROVE  /\ Len(results) = NCommands
                      /\ \A i \in DOMAIN results :
                           /\ results[i].passed
                           /\ {results[i].before, results[i].after} = {receipt.before}
    BY DEF PassedIsOneTree
  <2>1. Len(results) = NCommands
    BY VerifierAssumption DEF VerifierInv, Counted
  <2>2. \A i \in DOMAIN results : results[i].passed
    BY DEF VerifierInv, OneTree
  <2>3. \A i \in DOMAIN results :
          results[i].before = receipt.before /\ results[i].after = receipt.before
    BY <2>2 DEF VerifierInv, OneTree
  <2> QED BY <2>1, <2>2, <2>3
<1> QED BY <1>1, VerifierInvariant, PTL
=============================================================================
