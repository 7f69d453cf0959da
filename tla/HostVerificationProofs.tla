------------------------ MODULE HostVerificationProofs ------------------------
(***************************************************************************)
(* A passed receipt is about the requested tree, for any number of         *)
(* commands.  The invariant follows what the host knows about the one      *)
(* container it waits for, and what can be known about the others: as long *)
(* as every command passed there are none.                                 *)
(***************************************************************************)
EXTENDS HostVerification, TLAPS

Launched == [tree : Trees, alone : BOOLEAN, assets : BOOLEAN]

\* Where the loop stands.
Progress ==
  /\ pc \in PC \ {"final", "returned", "raised"} => index \in Commands
  /\ pc \in {"final", "returned"} => index = NCommands + 1
  /\ pc = "collect" => capture \in Captures
  /\ pc = "cleanup" => capture \notin {"zero", "nonzero"}
  /\ ~ HasAssets => assets = TRUE
  /\ \A i \in DOMAIN results : results[i].passed = TRUE => results[i].capture = "zero"
  /\ pc = "returned" =>
       /\ receipt \in Receipt /\ receipt.commands = results
       /\ receipt.passed = TRUE =>
            receipt.after = Requested /\ \A i \in DOMAIN results : results[i].passed = TRUE

\* The command c ended with the code its capture says, and started on the tree b.
TrueOf(c, how, b) ==
  /\ c \notin live
  /\ code[c] = IF how = "zero" THEN 0 ELSE 1
  /\ ran[c] \in Launched
  /\ ran[c].alone = TRUE => ran[c].tree = b

Facts ==
  /\ \A c \in DOMAIN results :
       results[c].capture \in {"zero", "nonzero"} =>
         TrueOf(c, results[c].capture, results[c].before)
  /\ pc \in {"probe", "launch"} /\ alone = TRUE => live = {} /\ tree = before
  /\ pc = "run" => /\ ran[index] \in Launched
                   /\ ran[index].alone = TRUE => ran[index].tree = before
                   /\ index \notin live => code[index] \in Codes
  /\ pc = "collect" /\ capture \in {"zero", "nonzero"} => TrueOf(index, capture, before)

AllPassed == \A i \in DOMAIN results : results[i].passed = TRUE

\* The command c was launched on the requested tree, alone, and on the requested
\* assets if they are still there.
CleanLaunch(c) ==
  /\ ran[c] \in Launched
  /\ ran[c].tree = Requested /\ ran[c].alone = TRUE
  /\ assets = TRUE => ran[c].assets = TRUE

CleanRun(c) ==
  /\ ran[c] = [tree |-> Requested, alone |-> TRUE, assets |-> TRUE]
  /\ code[c] = 0

Clean ==
  AllPassed =>
    /\ \A c \in DOMAIN results : CleanRun(c)
    /\ pc \in {"start", "command", "final", "returned"} => live = {} /\ tree = Requested
    /\ pc \in {"probe", "launch"} =>
         live = {} /\ tree = Requested /\ before = Requested /\ alone = TRUE
    /\ pc = "run" => live \subseteq {index} /\ before = Requested /\ CleanLaunch(index)
    /\ pc = "collect" /\ capture = "zero" =>
         live = {} /\ before = Requested /\ CleanLaunch(index)

HInv == HTypeOK /\ Progress /\ Facts /\ Clean

-----------------------------------------------------------------------------
(* Lemmas *)

\* The first state.
LEMMA InitHInv == HInit => HInv
<1> SUFFICES ASSUME HInit PROVE HInv
  OBVIOUS
<1> USE HostAssumption
<1>1. HTypeOK
  <2>1. pc \in PC /\ capture \in Captures \cup Broken /\ tree \in Trees /\ before \in Trees
    BY DEF HInit, PC, Captures
  <2>2. index \in 1..(NCommands + 1) /\ Len(results) = index - 1 /\ live = {}
    BY DEF HInit
  <2>3. results \in Seq(Result) /\ receipt = NULL
    BY DEF HInit
  <2>4. /\ code \in [Commands -> Codes \cup {NULL}]
        /\ ran \in [Commands -> [tree : Trees, alone : BOOLEAN, assets : BOOLEAN] \cup {NULL}]
        /\ assets \in BOOLEAN /\ late \in BOOLEAN /\ alone \in BOOLEAN
    BY DEF HInit
  <2> QED
    BY <2>1, <2>2, <2>3, <2>4 DEF HTypeOK
<1>2. Progress
  BY DEF HInit, Progress, Commands, PC
<1>3. Facts /\ Clean
  BY DEF HInit, Facts, Clean, AllPassed
<1> QED
  BY <1>1, <1>2, <1>3 DEF HInv

\* An exception leaves the loop.
LEMMA RaiseKeeps == HInv /\ Raise => HInv'
<1> SUFFICES ASSUME HInv, Raise PROVE HInv'
  OBVIOUS
<1>1. HTypeOK'
  BY DEF HInv, HTypeOK, Raise, PC
<1>2. Progress'
  BY DEF HInv, Progress, Raise, PC
<1>3. Facts'
  BY DEF HInv, Facts, TrueOf, Raise
<1>4. Clean'
  BY DEF HInv, Clean, AllPassed, CleanRun, Raise
<1> QED
  BY <1>1, <1>2, <1>3, <1>4 DEF HInv

\* A container writes: then it is there, so that nothing is known of the tree.
LEMMA WritesKeeps == ASSUME NEW c \in Commands, HInv, Writes(c) PROVE HInv'
<1>1. HTypeOK'
  BY DEF HInv, HTypeOK, Writes
<1>2. Progress'
  BY DEF HInv, Progress, Writes
<1>3. Facts'
  BY DEF HInv, Facts, TrueOf, Writes
<1>4. Clean'
  BY DEF HInv, Clean, AllPassed, CleanRun, CleanLaunch, Writes
<1> QED
  BY <1>1, <1>2, <1>3, <1>4 DEF HInv

\* A container ends; it is not one whose exit code the host has read.
LEMMA ExitsKeeps == ASSUME NEW c \in Commands, HInv, Exits(c) PROVE HInv'
<1> PICK n \in Codes : code' = [code EXCEPT ![c] = n]
  BY DEF Exits
<1>0. \A d \in Commands : d # c => code'[d] = code[d]
  BY DEF HInv, HTypeOK
<1>1. HTypeOK'
  BY DEF HInv, HTypeOK, Exits
<1>2. Progress'
  BY DEF HInv, Progress, Exits
<1>3. DOMAIN results \subseteq Commands
  BY HostAssumption DEF HInv, HTypeOK, Commands
<1>4. Facts'
  <2>1. \A d \in Commands, how \in {"zero", "nonzero"}, b \in Trees :
          TrueOf(d, how, b) => TrueOf(d, how, b)'
    BY <1>0 DEF TrueOf, Exits
  <2>2. \A d \in DOMAIN results : results[d] \in Result
    BY DEF HInv, HTypeOK
  <2>3. pc = "run" /\ index \notin live' => code'[index] \in Codes
    BY <1>0 DEF HInv, HTypeOK, Facts, Exits, Progress, PC
  <2>4. pc = "collect" => index \in Commands /\ before \in Trees
    BY DEF HInv, HTypeOK, Progress, PC
  <2>5. \A d \in DOMAIN results : results[d].before \in Trees
    BY <2>2 DEF Result
  <2> QED
    BY <1>3, <2>1, <2>3, <2>4, <2>5 DEF HInv, Facts, Exits
<1>5. Clean'
  <2> SUFFICES ASSUME AllPassed' PROVE Clean'
    BY DEF Clean
  <2>1. AllPassed
    BY DEF AllPassed, Exits
  <2>2. \A d \in DOMAIN results : CleanRun(d) /\ d \notin live
    <3> SUFFICES ASSUME NEW d \in DOMAIN results PROVE d \notin live
      BY <2>1 DEF HInv, Clean
    <3> QED
      BY <2>1 DEF HInv, AllPassed, Progress, Facts, TrueOf
  <2>3. \A d \in DOMAIN results : CleanRun(d)'
    BY <1>0, <1>3, <2>2 DEF CleanRun, Exits
  <2>4. live' \subseteq live /\ live # {}
    BY DEF Exits
  <2> QED
    BY <2>1, <2>3, <2>4 DEF HInv, Clean, CleanLaunch, Exits
<1> QED
  BY <1>1, <1>2, <1>4, <1>5 DEF HInv

\* Somebody changes the assets.
LEMMA AssetsChangeKeeps == HInv /\ AssetsChange => HInv'
<1> SUFFICES ASSUME HInv, AssetsChange PROVE HInv'
  OBVIOUS
<1>1. HTypeOK'
  BY DEF HInv, HTypeOK, AssetsChange
<1>2. Progress'
  BY DEF HInv, Progress, AssetsChange
<1>3. Facts'
  BY DEF HInv, Facts, TrueOf, AssetsChange
<1>4. Clean'
  BY DEF HInv, Clean, AllPassed, CleanRun, CleanLaunch, AssetsChange
<1> QED
  BY <1>1, <1>2, <1>3, <1>4 DEF HInv

\* The deadline passes.
LEMMA DeadlineKeeps == HInv /\ DeadlinePasses => HInv'
<1> SUFFICES ASSUME HInv, DeadlinePasses PROVE HInv'
  OBVIOUS
<1>1. HTypeOK'
  BY DEF HInv, HTypeOK, DeadlinePasses
<1>2. Progress'
  BY DEF HInv, Progress, DeadlinePasses
<1>3. Facts'
  BY DEF HInv, Facts, TrueOf, DeadlinePasses
<1>4. Clean'
  BY DEF HInv, Clean, AllPassed, CleanRun, CleanLaunch, DeadlinePasses
<1> QED
  BY <1>1, <1>2, <1>3, <1>4 DEF HInv

\* The checks before the first command.
LEMMA StartKeeps == HInv /\ Start => HInv'
<1> SUFFICES ASSUME HInv, Start PROVE HInv'
  OBVIOUS
<1>1. HTypeOK'
  BY DEF HInv, HTypeOK, Start, PC
<1>2. Progress'
  BY DEF HInv, Progress, Start, PC
<1>3. Facts'
  BY DEF HInv, Facts, TrueOf, Start
<1>4. Clean'
  BY DEF HInv, Clean, AllPassed, CleanRun, Start
<1> QED
  BY <1>1, <1>2, <1>3, <1>4 DEF HInv

\* The hash before a command is of the tree if no container is there.
LEMMA BeginKeeps == HInv /\ BeginCommand => HInv'
<1> SUFFICES ASSUME HInv, BeginCommand PROVE HInv'
  OBVIOUS
<1> PICK h \in Seen \ Unhashable : before' = h
  BY DEF BeginCommand
<1>0. h \in Trees /\ (live = {} => h = tree)
  BY DEF Seen, HInv, HTypeOK
<1>a. \/ pc' = "collect" /\ capture' = "timed_out"
      \/ pc' = "probe" /\ capture' = capture
  BY DEF BeginCommand
<1>1. HTypeOK'
  BY <1>0, <1>a DEF HInv, HTypeOK, BeginCommand, PC, Captures
<1>2. Progress'
  BY <1>a DEF HInv, Progress, BeginCommand, PC, Captures
<1>3. Facts'
  BY <1>0, <1>a DEF HInv, Facts, TrueOf, BeginCommand
<1>4. Clean'
  BY <1>0, <1>a DEF HInv, Clean, AllPassed, CleanRun, BeginCommand
<1> QED
  BY <1>1, <1>2, <1>3, <1>4 DEF HInv

\* The executable is there.
LEMMA ProbeKeeps == HInv /\ ProbeAnswers => HInv'
<1> SUFFICES ASSUME HInv, ProbeAnswers PROVE HInv'
  OBVIOUS
<1>1. HTypeOK'
  BY DEF HInv, HTypeOK, ProbeAnswers, PC
<1>2. Progress'
  BY DEF HInv, Progress, ProbeAnswers, PC
<1>3. Facts'
  BY DEF HInv, Facts, TrueOf, ProbeAnswers
<1>4. Clean'
  BY DEF HInv, Clean, AllPassed, CleanRun, ProbeAnswers
<1> QED
  BY <1>1, <1>2, <1>3, <1>4 DEF HInv

\* There is no executable, or it was not found in time.
LEMMA ProbeFailsKeeps ==
  ASSUME NEW how \in {"timed_out", "launch_error"}, HInv, ProbeFails(how)
  PROVE  HInv'
<1>1. HTypeOK'
  BY DEF HInv, HTypeOK, ProbeFails, PC, Captures
<1>2. Progress'
  BY DEF HInv, Progress, ProbeFails, PC, Captures
<1>3. Facts'
  BY DEF HInv, Facts, TrueOf, ProbeFails
<1>4. Clean'
  BY DEF HInv, Clean, AllPassed, CleanRun, ProbeFails
<1> QED
  BY <1>1, <1>2, <1>3, <1>4 DEF HInv

\* The container starts on the tree that was hashed, unless another one writes.
LEMMA LaunchKeeps == HInv /\ Launch => HInv'
<1> SUFFICES ASSUME HInv, Launch PROVE HInv'
  OBVIOUS
<1>0. index \in Commands /\ index \notin DOMAIN results
  BY DEF HInv, HTypeOK, Progress, Launch, PC, Commands
<1>a. ran' = [ran EXCEPT ![index] = [tree |-> tree, alone |-> alone, assets |-> assets]]
  BY DEF Launch
<1>b. [tree |-> tree, alone |-> alone, assets |-> assets] \in Launched
  BY DEF HInv, HTypeOK, Launched
<1>c. /\ ran' \in [Commands -> Launched \cup {NULL}]
      /\ ran'[index] \in Launched /\ ran'[index].tree = tree /\ ran'[index].alone = alone
      /\ ran'[index].assets = assets
  BY <1>0, <1>a, <1>b DEF HInv, HTypeOK, Launched
<1>d. \A d \in Commands : d # index => ran'[d] = ran[d]
  BY <1>a DEF HInv, HTypeOK
<1>e. DOMAIN results \subseteq Commands
  BY HostAssumption DEF HInv, HTypeOK, Commands
<1>1. HTypeOK'
  <2>1. live' \subseteq 1..index' \cap Commands
    BY <1>0, HostAssumption DEF HInv, HTypeOK, Launch, Commands
  <2> QED
    BY <1>c, <2>1 DEF HInv, HTypeOK, Launch, PC, Launched
<1>2. Progress'
  BY DEF HInv, Progress, Launch, PC
<1>3. Facts'
  <2>1. \A c \in DOMAIN results :
          results[c].capture \in {"zero", "nonzero"} =>
            TrueOf(c, results[c].capture, results[c].before)'
    BY <1>0, <1>d, <1>e DEF HInv, Facts, TrueOf, Launch
  <2>2. ran'[index].alone = TRUE => ran'[index].tree = before
    BY <1>c DEF HInv, Facts, Launch
  <2>3. index \in live'
    BY DEF Launch
  <2> QED
    BY <1>c, <2>1, <2>2, <2>3 DEF Facts, Launch
<1>4. Clean'
  <2> SUFFICES ASSUME AllPassed' PROVE Clean'
    BY DEF Clean
  <2>1. AllPassed
    BY DEF AllPassed, Launch
  <2>2. \A c \in DOMAIN results : CleanRun(c)'
    BY <2>1, <1>0, <1>d, <1>e DEF HInv, Clean, CleanRun, Launch
  <2>3. CleanLaunch(index)'
    BY <2>1, <1>c DEF HInv, Clean, CleanLaunch, Launch
  <2> QED
    BY <2>1, <2>2, <2>3 DEF HInv, Clean, Launch
<1> QED
  BY <1>1, <1>2, <1>3, <1>4 DEF HInv

\* The client returns: the container it waited for has ended, with that code.
LEMMA ReturnsKeeps == HInv /\ ClientReturns => HInv'
<1> SUFFICES ASSUME HInv, ClientReturns PROVE HInv'
  OBVIOUS
<1>0. index \in Commands /\ index \notin live /\ code[index] \in Codes /\ ran[index] \in Launched
  BY DEF HInv, Progress, Facts, ClientReturns, PC
<1>a. \/ code[index] = 0 /\ capture' = "zero" /\ pc' = "collect"
      \/ code[index] = 1 /\ capture' = "nonzero" /\ pc' = "collect"
      \/ code[index] = 127 /\ capture' = "launch_error" /\ pc' = "collect"
      \/ code[index] = 125 /\ capture' = "not_started" /\ pc' = "cleanup"
  BY <1>0 DEF ClientReturns, CaptureOf, Codes, Broken
<1>1. HTypeOK'
  BY <1>a DEF HInv, HTypeOK, ClientReturns, PC, Captures, Broken
<1>2. Progress'
  BY <1>a DEF HInv, Progress, ClientReturns, PC, Captures
<1>3. Facts'
  <2>1. \A c \in DOMAIN results :
          results[c].capture \in {"zero", "nonzero"} =>
            TrueOf(c, results[c].capture, results[c].before)'
    BY DEF HInv, Facts, TrueOf, ClientReturns
  <2>2. (pc = "collect" /\ capture \in {"zero", "nonzero"} => TrueOf(index, capture, before))'
    BY <1>0, <1>a DEF HInv, Facts, TrueOf, ClientReturns
  <2> QED
    BY <1>a, <2>1, <2>2 DEF Facts, ClientReturns
<1>4. Clean'
  <2> SUFFICES ASSUME AllPassed' PROVE Clean'
    BY DEF Clean
  <2>1. AllPassed
    BY DEF AllPassed, ClientReturns
  <2>2. live = {} /\ before = Requested /\ CleanLaunch(index)
    BY <2>1, <1>0 DEF HInv, Clean, ClientReturns
  <2>3. CleanLaunch(index)' /\ \A c \in DOMAIN results : CleanRun(c)'
    BY <2>1, <2>2 DEF HInv, Clean, CleanLaunch, CleanRun, ClientReturns
  <2> QED
    BY <1>a, <2>2, <2>3 DEF Clean, ClientReturns
<1> QED
  BY <1>1, <1>2, <1>3, <1>4 DEF HInv

\* The client is killed: from here on the command has failed.
LEMMA KilledKeeps ==
  ASSUME NEW how \in {"timed_out", "output_limited", "os_error"}, HInv, ClientKilled(how)
  PROVE  HInv'
<1>1. HTypeOK'
  BY DEF HInv, HTypeOK, ClientKilled, PC, Captures, Broken
<1>2. Progress'
  BY DEF HInv, Progress, ClientKilled, PC
<1>3. Facts'
  BY DEF HInv, Facts, TrueOf, ClientKilled
<1>4. Clean'
  BY DEF HInv, Clean, AllPassed, CleanRun, ClientKilled
<1> QED
  BY <1>1, <1>2, <1>3, <1>4 DEF HInv

\* The container is removed, or is not.
LEMMA CleanupKeeps == HInv /\ Cleanup => HInv'
<1> SUFFICES ASSUME HInv, Cleanup PROVE HInv'
  OBVIOUS
<1>0. live' \subseteq live /\ capture' = capture /\ capture \notin {"zero", "nonzero"}
  BY DEF HInv, Progress, Cleanup
<1>a. pc' = "raised" \/ (pc' = "collect" /\ capture \in Captures)
  BY DEF HInv, HTypeOK, Cleanup
<1>1. HTypeOK'
  BY <1>0, <1>a DEF HInv, HTypeOK, Cleanup, PC
<1>2. Progress'
  BY <1>a DEF HInv, Progress, Cleanup, PC
<1>3. Facts'
  <2>1. \A c \in DOMAIN results :
          results[c].capture \in {"zero", "nonzero"} =>
            TrueOf(c, results[c].capture, results[c].before)'
    BY <1>0 DEF HInv, Facts, TrueOf, Cleanup
  <2> QED
    BY <1>0, <1>a, <2>1 DEF Facts, Cleanup
<1>4. Clean'
  BY <1>0, <1>a DEF HInv, Clean, AllPassed, CleanRun, Cleanup
<1> QED
  BY <1>1, <1>2, <1>3, <1>4 DEF HInv

\* What the result of the command in hand says.
LEMMA ResultFacts ==
  ASSUME NEW h \in Trees, HInv, pc = "collect"
  PROVE  /\ CommandResult(h) \in Result
         /\ CommandResult(h).capture = capture /\ CommandResult(h).before = before
         /\ CommandResult(h).passed = TRUE => capture = "zero" /\ before = h
  BY DEF HInv, HTypeOK, Progress, CommandResult, Result, Passed

\* A result is added: if it passed, the tree is still what it was.
LEMMA CollectKeeps == HInv /\ Collect => HInv'
<1> SUFFICES ASSUME HInv, Collect PROVE HInv'
  OBVIOUS
<1> PICK h \in Seen \ Unhashable : results' = Append(results, CommandResult(h))
  BY DEF Collect
<1>0. h \in Trees /\ (live = {} => h = tree)
  BY DEF Seen, HInv, HTypeOK
<1> PICK x : x = CommandResult(h)
  OBVIOUS
<1>a. /\ x \in Result /\ x.capture = capture /\ x.before = before
      /\ x.passed = TRUE => capture = "zero" /\ before = h
  BY <1>0, ResultFacts DEF Collect
<1>b. results \in Seq(Result) /\ Len(results) = index - 1 /\ index \in Commands
  BY DEF HInv, HTypeOK, Progress, Collect, PC
<1>c. /\ results' \in Seq(Result) /\ Len(results') = index
      /\ DOMAIN results' = 1..index /\ DOMAIN results = 1..(index - 1)
      /\ \A c \in 1..(index - 1) : results'[c] = results[c]
      /\ results'[index] = x
  BY <1>a, <1>b DEF Commands
<1>d. \/ pc' = "final" /\ index = NCommands
      \/ pc' = "command" /\ index # NCommands
  BY DEF Collect, AfterCommand
<1>1. HTypeOK'
  <2>1. index' \in 1..(NCommands + 1) /\ Len(results') = index' - 1
    BY <1>b, <1>c, HostAssumption DEF Collect, Commands
  <2>2. live' \subseteq 1..index' \cap Commands
    BY <1>b DEF HInv, HTypeOK, Collect, Commands
  <2>3. pc' \in PC
    BY <1>d DEF PC
  <2> QED
    BY <1>c, <2>1, <2>2, <2>3 DEF HInv, HTypeOK, Collect
<1>2. Progress'
  <2>1. /\ pc' = "command" => index' \in Commands
        /\ pc' = "final" => index' = NCommands + 1
    BY <1>b, <1>d, HostAssumption DEF Collect, Commands
  <2>2. \A i \in DOMAIN results' : results'[i].passed = TRUE => results'[i].capture = "zero"
    <3> SUFFICES ASSUME NEW i \in 1..index, results'[i].passed = TRUE
                 PROVE  results'[i].capture = "zero"
      BY <1>c
    <3>1. CASE i = index
      BY <3>1, <1>a, <1>c
    <3>2. CASE i # index
      <4>1. i \in 1..(index - 1)
        BY <3>2, <1>b DEF Commands
      <4> QED
        BY <4>1, <1>c DEF HInv, Progress
    <3> QED
      BY <3>1, <3>2
  <2>3. ~ HasAssets => assets' = TRUE
    BY DEF HInv, Progress, Collect
  <2> QED
    BY <1>d, <2>1, <2>2, <2>3 DEF Progress, PC
<1>3. Facts'
  <2>1. (\A c \in DOMAIN results :
           results[c].capture \in {"zero", "nonzero"} =>
             TrueOf(c, results[c].capture, results[c].before))'
    <3> SUFFICES ASSUME NEW c \in 1..index, results'[c].capture \in {"zero", "nonzero"}
                 PROVE  TrueOf(c, results[c].capture, results[c].before)'
      BY <1>c
    <3>1. TrueOf(c, results'[c].capture, results'[c].before)
      <4>1. CASE c = index
        BY <4>1, <1>a, <1>c DEF HInv, Facts, Collect
      <4>2. CASE c # index
        <5>1. c \in 1..(index - 1)
          BY <4>2, <1>b DEF Commands
        <5> QED
          BY <5>1, <1>c DEF HInv, Facts
      <4> QED
        BY <4>1, <4>2
    <3> QED
      BY <3>1 DEF TrueOf, Collect
  <2> QED
    BY <1>d, <2>1 DEF Facts
<1>4. Clean'
  <2> SUFFICES ASSUME AllPassed' PROVE Clean'
    BY DEF Clean
  <2>1. AllPassed /\ x.passed = TRUE
    BY <1>b, <1>c DEF AllPassed, Commands
  <2>2. capture = "zero" /\ before = h /\ live = {} /\ before = Requested /\ CleanLaunch(index)
    BY <2>1, <1>a DEF HInv, Clean, Collect
  <2>3. tree = Requested
    BY <2>2, <1>0
  <2>4. assets = TRUE
    BY DEF HInv, HTypeOK, Progress, Collect, AssetCheck, AssetsFine
  <2>5. CleanRun(index)
    <3>1. code[index] = 0
      BY <2>2 DEF HInv, Facts, TrueOf, Collect
    <3>2. ran[index] = [tree |-> Requested, alone |-> TRUE, assets |-> TRUE]
      BY <2>2, <2>4 DEF CleanLaunch, Launched
    <3> QED
      BY <3>1, <3>2 DEF CleanRun
  <2>6. \A c \in 1..index : CleanRun(c)
    <3> SUFFICES ASSUME NEW c \in 1..index, c # index PROVE CleanRun(c)
      BY <2>5
    <3>1. c \in 1..(index - 1)
      BY <1>b DEF Commands
    <3> QED
      BY <3>1, <2>1, <1>c DEF HInv, Clean
  <2>7. \A c \in DOMAIN results' : CleanRun(c)'
    BY <2>6, <1>c DEF CleanRun, Collect
  <2> QED
    BY <1>d, <2>2, <2>3, <2>7 DEF Clean, Collect
<1> QED
  BY <1>1, <1>2, <1>3, <1>4 DEF HInv

\* The receipt is the results the host made.
LEMMA FinishKeeps == HInv /\ Finish => HInv'
<1> SUFFICES ASSUME HInv, Finish PROVE HInv'
  OBVIOUS
<1> PICK h \in Seen \ Unhashable :
      \/ receipt' = ReceiptOf(h) /\ pc' = "returned"
      \/ pc' = "raised" /\ receipt' = receipt
  BY DEF Finish
<1>0. h \in Trees
  BY DEF Seen, HInv, HTypeOK
<1>a. /\ ReceiptOf(h) \in Receipt /\ ReceiptOf(h).commands = results
      /\ ReceiptOf(h).passed = TRUE =>
           ReceiptOf(h).after = Requested /\ \A i \in DOMAIN results : results[i].passed = TRUE
  <2>1. \A i \in DOMAIN results : results[i].passed \in BOOLEAN
    <3>1. \A i \in DOMAIN results : results[i] \in Result
      BY DEF HInv, HTypeOK
    <3> QED
      BY <3>1 DEF Result
  <2> QED
    BY <1>0, <2>1, HostAssumption DEF HInv, HTypeOK, ReceiptOf, Receipt
<1>1. HTypeOK'
  BY <1>a DEF HInv, HTypeOK, Finish, PC
<1>2. Progress'
  BY <1>a DEF HInv, Progress, Finish, PC
<1>3. Facts'
  BY DEF HInv, Facts, TrueOf, Finish
<1>4. Clean'
  BY DEF HInv, Clean, AllPassed, CleanRun, Finish
<1> QED
  BY <1>1, <1>2, <1>3, <1>4 DEF HInv

-----------------------------------------------------------------------------
(* Theorems *)

\* Every step of the host and of the world keeps the invariant.
LEMMA StepKeepsHInv == HInv /\ [HNext]_hvars => HInv'
<1> SUFFICES ASSUME HInv, [HNext]_hvars PROVE HInv'
  OBVIOUS
<1>1. CASE HostStep
  <2>1. CASE Raise
    BY <2>1, RaiseKeeps
  <2>2. CASE ~ Raise
    <3>1. CASE ProbeFails("timed_out") \/ ProbeFails("launch_error")
      BY <3>1, ProbeFailsKeeps
    <3>2. CASE TimesOut \/ OutputTooLong \/ DockerFails
      BY <3>2, KilledKeeps DEF TimesOut, OutputTooLong, DockerFails
    <3>3. CASE ~ (ProbeFails("timed_out") \/ ProbeFails("launch_error"))
               /\ ~ (TimesOut \/ OutputTooLong \/ DockerFails)
      BY <1>1, <2>2, <3>3, StartKeeps, BeginKeeps, ProbeKeeps, LaunchKeeps, ReturnsKeeps,
         CleanupKeeps, CollectKeeps, FinishKeeps
      DEF HostStep, StartRefused, ProbeRaises, AssetsRefused, HashRaises
    <3> QED
      BY <3>1, <3>2, <3>3
  <2> QED
    BY <2>1, <2>2
<1>2. CASE World
  BY <1>2, WritesKeeps, ExitsKeeps, AssetsChangeKeeps, DeadlineKeeps DEF World
<1>3. CASE UNCHANGED hvars
  <2>1. HTypeOK' /\ Progress'
    BY <1>3 DEF hvars, HInv, HTypeOK, Progress
  <2>2. Facts'
    BY <1>3 DEF hvars, HInv, Facts, TrueOf
  <2>3. Clean'
    BY <1>3 DEF hvars, HInv, Clean, AllPassed, CleanRun, CleanLaunch
  <2> QED
    BY <2>1, <2>2, <2>3 DEF HInv
<1> QED
  BY <1>1, <1>2, <1>3 DEF HNext

\* The invariant of the host verifier's loop.
THEOREM HostInvariant == HSpec => []HInv
<1>1. HInit => HInv
  BY InitHInv
<1>2. HInv /\ [HNext]_hvars => HInv'
  BY StepKeepsHInv
<1> QED
  BY <1>1, <1>2, PTL DEF HSpec

\* The host's variables are well formed, for any number of commands.
THEOREM HostTypeCorrect == HSpec => []HTypeOK
<1>1. HInv => HTypeOK
  BY DEF HInv
<1> QED
  BY <1>1, HostInvariant, PTL

\* A passed receipt of execute() is about the requested tree and assets: every
\* command exited 0 on them, alone, and no container is left.
THEOREM PassedReceiptsAreClean == HSpec => []PassedIsClean
<1>1. HInv => PassedIsClean
  <2> SUFFICES ASSUME HInv, pc = "returned", receipt.passed
               PROVE  /\ live = {} /\ tree = Requested
                      /\ \A c \in Commands : CleanRun(c)
    BY DEF PassedIsClean, CleanRun
  <2>1. receipt.passed = TRUE
    BY DEF HInv, Progress, Receipt
  <2>2. AllPassed
    BY <2>1 DEF HInv, Progress, AllPassed
  <2>3. DOMAIN results = Commands
    BY HostAssumption DEF HInv, HTypeOK, Progress, Commands
  <2> QED
    BY <2>2, <2>3 DEF HInv, Clean
<1> QED
  BY <1>1, HostInvariant, PTL

\* What a returned receipt says of a command that exited, the command did.
THEOREM ReceiptsAreTrue == HSpec => []FactsAreTrue
<1>1. HInv => FactsAreTrue
  <2> SUFFICES ASSUME HInv, pc = "returned", NEW c \in Commands,
                      receipt.commands[c].capture \in {"zero", "nonzero"}
               PROVE  /\ code[c] = IF receipt.commands[c].capture = "zero" THEN 0 ELSE 1
                      /\ ran[c].alone => ran[c].tree = receipt.commands[c].before
    BY DEF FactsAreTrue
  <2>1. receipt.commands = results /\ DOMAIN results = Commands
    BY HostAssumption DEF HInv, HTypeOK, Progress, Commands
  <2>2. TrueOf(c, results[c].capture, results[c].before)
    BY <2>1 DEF HInv, Facts
  <2> QED
    BY <2>1, <2>2 DEF TrueOf, Launched
<1> QED
  BY <1>1, HostInvariant, PTL
=============================================================================
