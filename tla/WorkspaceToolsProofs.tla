------------------------- MODULE WorkspaceToolsProofs -------------------------
(* The file tools of WorkspaceTools.tla, for every set of paths and contents *)
(* and every number of calls and of edits by others: the files a model may   *)
(* not write are kept, what a call reports is what Git shows, and no content *)
(* is overwritten whose hash the model was not told.                         *)
EXTENDS WorkspaceTools, TLAPS

Stages == {"idle", "policy", "read", "write", "rename", "unlink", "sync", "done"}

-----------------------------------------------------------------------------
(* The inductive invariant, by parts. *)

Types ==
  /\ files \in [Paths -> Contents \cup {NULL}]
  /\ told \subseteq Contents
  /\ pc \in Stages
  /\ outcome \in {NULL, "kept", "mutated", "error"}
  /\ raced \in BOOLEAN /\ edited \in BOOLEAN /\ io_failed \in BOOLEAN

\* A call leaves at most one temporary file, and none before it writes.
Counted ==
  /\ temps \in Nat /\ calls \in Nat
  /\ temps <= calls
  /\ pc \in {"policy", "read", "write", "unlink"} => temps < calls
  /\ pc = "rename" => temps >= 1

\* The call under way gives no hash but one the model was told.
CallTyped ==
  pc # "idle" =>
    /\ call.tool \in Queries \cup Mutations
    /\ call.path \in Paths
    /\ call.content \in Contents
    /\ call.expected \in told \cup {NULL}

\* A mutation beyond its path check has a path the model may write.
Cleared ==
  /\ pc \in {"read", "write", "rename", "unlink", "sync"} /\ call.tool \in Mutations =>
       call.path \notin Untouchable
  /\ pc \in {"write", "rename", "unlink", "sync"} => call.tool \in Mutations

\* Until others write, the content about to be replaced is the one compared.
Compared ==
  /\ raced => edited
  /\ pc \in {"write", "rename", "unlink"} /\ ~ raced => files[call.path] \in told \cup {NULL}
  /\ pc \in {"write", "rename"} /\ ~ raced => files[call.path] # call.content

\* Until others write, Git shows what it showed at the start, but for the
\* temporary file of a rename under way and the change of one that happened.
Shown ==
  ~ edited =>
    /\ pc \in {"policy", "read", "write", "unlink"} => Visible(files, temps) = start
    /\ pc = "rename" => Visible(files, temps - 1) = start
    /\ pc = "sync" => Visible(files, temps) # start
    /\ pc = "done" =>
         /\ outcome = "mutated" => Visible(files, temps) # start
         /\ outcome = "kept" => Visible(files, temps) = start
         /\ outcome = "error" /\ ~ io_failed => Visible(files, temps) = start

ToolsInv == Types /\ Counted /\ UntouchableKept /\ CallTyped /\ Cleared /\ Compared /\ Shown

-----------------------------------------------------------------------------
(* What Git shows of a workspace. *)

\* Two workspaces with the ignore file in place show the same only if they
\* agree on every path that is not concealed.
LEMMA VisibleDiffers ==
  ASSUME NEW f \in [Paths -> Contents \cup {NULL}], NEW g \in [Paths -> Contents \cup {NULL}],
         f[IgnoreFile] = IgnoreText, g[IgnoreFile] = IgnoreText,
         NEW p \in Paths \ Concealed, f[p] # g[p], NEW m, NEW n
  PROVE  Visible(f, m) # Visible(g, n)
<1>1. Visible(f, m).files[p] = f[p] /\ Visible(g, n).files[p] = g[p]
  BY DEF Visible, Ignored
<1> QED BY <1>1

\* The ignore file is as it was at first.
LEMMA IgnoreFileKept == UntouchableKept => files[IgnoreFile] = IgnoreText
BY DEF UntouchableKept, Untouchable

\* A write outside the untouchable paths keeps those.
LEMMA WriteKeeps ==
  ASSUME Types, UntouchableKept, NEW p \in Paths \ Untouchable, NEW v,
         files' = [files EXCEPT ![p] = v]
  PROVE  UntouchableKept'
BY ToolsAssumption DEF Types, UntouchableKept, Untouchable

-----------------------------------------------------------------------------
\* The workspace of a first call.
LEMMA InitTools == TInit => ToolsInv
<1> SUFFICES ASSUME TInit PROVE ToolsInv
  OBVIOUS
<1>1. Types
  BY ToolsAssumption DEF TInit, Types, Stages
<1>2. Counted /\ CallTyped /\ Cleared /\ Compared /\ Shown
  BY DEF TInit, Counted, CallTyped, Cleared, Compared, Shown
<1>3. UntouchableKept
  BY ToolsAssumption DEF TInit, UntouchableKept, Untouchable
<1> QED BY <1>1, <1>2, <1>3 DEF ToolsInv

\* tools.py execute: a call begins.
LEMMA BeginInv ==
  ASSUME ToolsInv, NEW tool \in Queries \cup Mutations, NEW p \in Paths, NEW v \in Contents,
         NEW e \in told \cup {NULL}, Begin(tool, p, v, e)
  PROVE  ToolsInv'
<1> USE DEF Begin, work
<1>1. Types'
  BY DEF ToolsInv, Types, Stages
<1>2. Counted'
  BY DEF ToolsInv, Counted
<1>3. UntouchableKept'
  BY DEF ToolsInv, UntouchableKept
<1>4. CallTyped'
  BY DEF CallTyped
<1>5. Cleared' /\ Compared'
  BY DEF Cleared, Compared
<1>6. Shown'
  BY DEF Shown
<1> QED BY <1>1, <1>2, <1>3, <1>4, <1>5, <1>6 DEF ToolsInv

\* An argument, a deadline or the text of a file refuses the call.
LEMMA RefuseInv == ASSUME ToolsInv, Refuse PROVE ToolsInv'
<1> USE DEF Refuse, End, work, history
<1>1. Types' /\ Counted'
  BY DEF ToolsInv, Types, Stages, Counted
<1>2. UntouchableKept' /\ CallTyped' /\ Cleared' /\ Compared'
  BY DEF ToolsInv, UntouchableKept, CallTyped, Cleared, Compared
<1>3. Shown'
  BY DEF ToolsInv, Shown, Visible, Ignored
<1> QED BY <1>1, <1>2, <1>3 DEF ToolsInv

\* read_path and write_path.
LEMMA PolicyInv == ASSUME ToolsInv, Policy PROVE ToolsInv'
<1> USE DEF Policy, End, work, history
<1>1. Types' /\ Counted'
  BY DEF ToolsInv, Types, Stages, Counted
<1>2. UntouchableKept' /\ CallTyped' /\ Compared'
  BY DEF ToolsInv, UntouchableKept, CallTyped, Compared
<1>3. Cleared'
  <2>1. Ignored(files) = Concealed
    BY IgnoreFileKept DEF ToolsInv, Ignored
  <2>2. pc' = "read" /\ call.tool \in Mutations => WritePath(call.path)
    BY DEF Queries, Mutations
  <2> QED BY <2>1, <2>2 DEF Cleared, WritePath, Untouchable
<1>4. Shown'
  BY DEF ToolsInv, Shown, Visible, Ignored
<1> QED BY <1>1, <1>2, <1>3, <1>4 DEF ToolsInv

\* list_files, read_file and search_text.
LEMMA QueryInv == ASSUME ToolsInv, Query PROVE ToolsInv'
<1> USE DEF Query, End, work, history
<1>1. Types' /\ Counted'
  BY DEF ToolsInv, Types, Stages, Counted, CallTyped
<1>2. UntouchableKept' /\ CallTyped' /\ Cleared' /\ Compared'
  BY DEF ToolsInv, UntouchableKept, CallTyped, Cleared, Compared
<1>3. Shown'
  BY DEF ToolsInv, Shown, Visible, Ignored
<1> QED BY <1>1, <1>2, <1>3 DEF ToolsInv

\* The content is read and its hash compared with the one the model gave.
LEMMA ReadCurrentInv == ASSUME ToolsInv, ReadCurrent PROVE ToolsInv'
<1> USE DEF ReadCurrent, End, work, history
<1>1. Types' /\ Counted'
  BY DEF ToolsInv, Types, Stages, Counted, CallTyped, Disclosed
<1>2. UntouchableKept' /\ CallTyped' /\ Cleared'
  BY DEF ToolsInv, UntouchableKept, CallTyped, Cleared
<1>3. Compared'
  <2>1. TargetAccepted => files[call.path] \in told \cup {NULL}
    BY DEF ToolsInv, CallTyped, TargetAccepted, HashAccepted, Mutations
  <2>2. TargetAccepted /\ call.tool # "delete_file" => files[call.path] # call.content
    BY ToolsAssumption DEF ToolsInv, CallTyped, TargetAccepted, HashAccepted, Mutations
  <2> QED BY <2>1, <2>2 DEF ToolsInv, Compared
<1>4. Shown'
  BY DEF ToolsInv, Shown, Visible, Ignored
<1> QED BY <1>1, <1>2, <1>3, <1>4 DEF ToolsInv

\* write_text_atomic: the temporary file.
LEMMA WriteTemporaryInv == ASSUME ToolsInv, WriteTemporary PROVE ToolsInv'
<1> USE DEF WriteTemporary, End
<1>t. Types'
  BY DEF ToolsInv, Types, Stages
<1>c. Counted'
  <2>1. temps \in Nat /\ calls \in Nat /\ temps < calls
    BY DEF ToolsInv, Counted
  <2>2. temps' \in {temps, temps + 1} /\ calls' = calls /\ (pc' = "rename" => temps' = temps + 1)
    BY DEF Types
  <2>3. pc' \in {"rename", "done"}
    OBVIOUS
  <2> QED BY <2>1, <2>2, <2>3 DEF Counted
<1>1. Types' /\ Counted'
  BY <1>t, <1>c
<1>2. UntouchableKept' /\ CallTyped' /\ Cleared' /\ Compared'
  BY DEF ToolsInv, UntouchableKept, CallTyped, Cleared, Compared
<1>3. Shown'
  <2>1. (temps + 1) - 1 = temps
    BY DEF ToolsInv, Counted
  <2> QED BY <2>1 DEF ToolsInv, Shown, Visible, Ignored
<1> QED BY <1>1, <1>2, <1>3 DEF ToolsInv

\* os.replace.
LEMMA RenameInv == ASSUME ToolsInv, Rename PROVE ToolsInv'
<1> USE DEF Rename, End
<1>a. call.path \in Paths \ Untouchable /\ call.content \in Contents
  BY DEF ToolsInv, CallTyped, Cleared
<1>t. Types'
  BY <1>a DEF ToolsInv, Types, Stages
<1>c. Counted'
  <2>1. temps \in Nat /\ calls \in Nat /\ temps <= calls /\ temps >= 1
    BY DEF ToolsInv, Counted
  <2>2. temps' = temps - 1 /\ calls' = calls /\ pc' \in {"sync", "done"}
    OBVIOUS
  <2> QED BY <2>1, <2>2 DEF Counted
<1>1. Types' /\ Counted'
  BY <1>t, <1>c
<1>2. UntouchableKept'
  <2>1. CASE files' = files
    BY <2>1 DEF ToolsInv, UntouchableKept
  <2>2. CASE files' = [files EXCEPT ![call.path] = call.content]
    BY <1>a, <2>2, WriteKeeps DEF ToolsInv
  <2> QED BY <2>1, <2>2
<1>3. CallTyped' /\ Cleared' /\ Compared'
  BY DEF ToolsInv, CallTyped, Cleared, Compared
<1>4. Shown'
  <2> SUFFICES ASSUME ~ edited PROVE Shown'
    BY DEF Shown
  <2>1. Visible(files, temps - 1) = start
    BY DEF ToolsInv, Shown
  <2>2. CASE pc' = "sync"
    <3>1. files' = [files EXCEPT ![call.path] = call.content]
      BY <2>2
    <3>2. files[call.path] # call.content /\ files'[call.path] = call.content
      BY <1>a, <3>1 DEF ToolsInv, Compared, Types
    <3>3. files[IgnoreFile] = IgnoreText /\ files'[IgnoreFile] = IgnoreText
      <4>1. files[IgnoreFile] = IgnoreText
        BY IgnoreFileKept DEF ToolsInv
      <4> QED BY <1>a, <3>1, <4>1 DEF ToolsInv, Types, Untouchable
    <3>4. call.path \in Paths \ Concealed
      BY <1>a DEF Untouchable
    <3>5. Visible(files', temps') # Visible(files, temps - 1)
      BY <1>1, <3>2, <3>3, <3>4, VisibleDiffers DEF ToolsInv, Types
    <3>6. Visible(files, temps)' # start
      BY <2>1, <3>5 DEF Visible, Ignored
    <3> QED BY <2>2, <3>6 DEF Shown
  <2>3. CASE pc' = "done"
    BY <2>1, <2>3 DEF Shown, Visible, Ignored
  <2> QED BY <2>2, <2>3
<1> QED BY <1>1, <1>2, <1>3, <1>4 DEF ToolsInv

\* delete_file.
LEMMA UnlinkInv == ASSUME ToolsInv, Unlink PROVE ToolsInv'
<1> USE DEF Unlink, End
<1>a. call.path \in Paths \ Untouchable
  BY DEF ToolsInv, CallTyped, Cleared
<1>1. Types' /\ Counted'
  BY <1>a DEF ToolsInv, Types, Stages, Counted
<1>2. UntouchableKept'
  <2>1. CASE files' = files
    BY <2>1 DEF ToolsInv, UntouchableKept
  <2>2. CASE files' = [files EXCEPT ![call.path] = NULL]
    BY <1>a, <2>2, WriteKeeps DEF ToolsInv
  <2> QED BY <2>1, <2>2
<1>3. CallTyped' /\ Cleared' /\ Compared'
  BY DEF ToolsInv, CallTyped, Cleared, Compared
<1>4. Shown'
  <2> SUFFICES ASSUME ~ edited PROVE Shown'
    BY DEF Shown
  <2>1. Visible(files, temps) = start
    BY DEF ToolsInv, Shown
  <2>2. CASE pc' = "sync"
    <3>1. files' = [files EXCEPT ![call.path] = NULL] /\ files[call.path] # NULL
      BY <2>2
    <3>2. files'[call.path] = NULL /\ files[call.path] # NULL
      BY <1>a, <3>1 DEF ToolsInv, Types
    <3>3. files[IgnoreFile] = IgnoreText /\ files'[IgnoreFile] = IgnoreText
      <4>1. files[IgnoreFile] = IgnoreText
        BY IgnoreFileKept DEF ToolsInv
      <4> QED BY <1>a, <3>1, <4>1 DEF ToolsInv, Types, Untouchable
    <3>4. call.path \in Paths \ Concealed
      BY <1>a DEF Untouchable
    <3>5. Visible(files', temps') # Visible(files, temps)
      BY <1>1, <3>2, <3>3, <3>4, VisibleDiffers DEF ToolsInv, Types
    <3>6. Visible(files, temps)' # start
      BY <2>1, <3>5 DEF Visible, Ignored
    <3> QED BY <2>2, <3>6 DEF Shown
  <2>3. CASE pc' = "done"
    BY <2>1, <2>3 DEF Shown, Visible, Ignored
  <2> QED BY <2>2, <2>3
<1> QED BY <1>1, <1>2, <1>3, <1>4 DEF ToolsInv

\* The directory's fsync, and what the call tells the model.
LEMMA SyncDirectoryInv == ASSUME ToolsInv, SyncDirectory PROVE ToolsInv'
<1> USE DEF SyncDirectory, End, work
<1>1. Types' /\ Counted'
  BY DEF ToolsInv, Types, Stages, Counted, CallTyped
<1>2. UntouchableKept' /\ CallTyped' /\ Cleared' /\ Compared'
  BY DEF ToolsInv, UntouchableKept, CallTyped, Cleared, Compared
<1>3. Shown'
  BY DEF ToolsInv, Shown, Visible, Ignored
<1> QED BY <1>1, <1>2, <1>3 DEF ToolsInv

\* The call hands its outcome to the Agent.
LEMMA ReturnInv == ASSUME ToolsInv, Return PROVE ToolsInv'
<1> USE DEF Return, work
<1>1. Types' /\ Counted'
  BY DEF ToolsInv, Types, Stages, Counted
<1>2. UntouchableKept' /\ CallTyped' /\ Cleared' /\ Compared' /\ Shown'
  BY DEF ToolsInv, UntouchableKept, CallTyped, Cleared, Compared, Shown
<1> QED BY <1>1, <1>2 DEF ToolsInv

\* Somebody else writes a path of the workspace.
LEMMA OutsideInv ==
  ASSUME ToolsInv, NEW p \in Shared, NEW v \in Contents \cup {NULL}, Outside(p, v)
  PROVE  ToolsInv'
<1> USE DEF Outside
<1>a. p \in Paths \ Untouchable
  BY ToolsAssumption DEF Untouchable
<1>1. Types' /\ Counted'
  BY <1>a DEF ToolsInv, Types, Stages, Counted
<1>2. UntouchableKept'
  BY <1>a, WriteKeeps DEF ToolsInv
<1>3. CallTyped' /\ Cleared' /\ Compared'
  BY DEF ToolsInv, CallTyped, Cleared, Compared, Types
<1>4. Shown'
  BY DEF ToolsInv, Shown, Types
<1> QED BY <1>1, <1>2, <1>3, <1>4 DEF ToolsInv

\* No step changes anything the invariant is about.
LEMMA StutterInv == ASSUME ToolsInv, UNCHANGED tvars PROVE ToolsInv'
<1> USE DEF tvars, work, history
<1>1. Types' /\ Counted' /\ UntouchableKept' /\ CallTyped' /\ Cleared' /\ Compared'
  BY DEF ToolsInv, Types, Counted, UntouchableKept, CallTyped, Cleared, Compared
<1>2. Shown'
  BY DEF ToolsInv, Shown, Visible, Ignored
<1> QED BY <1>1, <1>2 DEF ToolsInv

LEMMA NextTools == ToolsInv /\ [TNext]_tvars => ToolsInv'
BY BeginInv, RefuseInv, PolicyInv, QueryInv, ReadCurrentInv, WriteTemporaryInv, RenameInv,
   UnlinkInv, SyncDirectoryInv, ReturnInv, OutsideInv, StutterInv DEF TNext, ToolStep

-----------------------------------------------------------------------------
\* The invariant holds of every behaviour of the tools.
THEOREM ToolsInvariant == TSpec => []ToolsInv
BY InitTools, NextTools, PTL DEF TSpec

\* Types, and a call leaves at most one temporary file in the workspace
\* (workspace_tool_io.py write_text_atomic).
THEOREM ToolsTypeOK == TSpec => []TTypeOK
<1>1. ToolsInv => TTypeOK
  BY DEF ToolsInv, Types, Counted, TTypeOK
<1> QED BY <1>1, ToolsInvariant, PTL

\* Whatever calls a model makes, a path of the authority, a protected, unlisted
\* or linked path, .gitignore and what it conceals are as the run found them.
THEOREM UntouchablePathsKept == TSpec => []UntouchableKept
<1>1. ToolsInv => UntouchableKept
  BY DEF ToolsInv
<1> QED BY <1>1, ToolsInvariant, PTL

\* A call that reports a mutation changed what Git shows, and one that reports
\* none did not, unless others wrote or a file operation failed.
THEOREM OutcomesAreTrue == TSpec => []OutcomeIsTrue
<1>1. ToolsInv => OutcomeIsTrue
  BY DEF ToolsInv, Shown, OutcomeIsTrue
<1> QED BY <1>1, ToolsInvariant, PTL

\* A tool replaces or deletes only a content whose hash the model was told,
\* unless others wrote between the comparison and the rename.
THEOREM NoBlindWrites == TSpec => NoBlindWrite
<1>1. ASSUME ToolsInv, NEW p \in Paths, ToolStep, files'[p] # files[p], files[p] # NULL, ~ raced
      PROVE  files[p] \in told
  <2>1. (Rename \/ Unlink) /\ p = call.path
    <3>1. CASE Rename
      BY <1>1, <3>1 DEF Rename, ToolsInv, Types
    <3>2. CASE Unlink
      BY <1>1, <3>2 DEF Unlink, ToolsInv, Types
    <3>3. CASE Refuse \/ Policy \/ Query \/ ReadCurrent \/ WriteTemporary \/ SyncDirectory \/ Return
      BY <1>1, <3>3 DEF Refuse, Policy, Query, ReadCurrent, WriteTemporary, SyncDirectory, Return, work
    <3> QED BY <1>1, <3>1, <3>2, <3>3 DEF ToolStep
  <2>2. pc \in {"rename", "unlink"}
    BY <2>1 DEF Rename, Unlink
  <2> QED BY <1>1, <2>1, <2>2 DEF ToolsInv, Compared
<1>2. ToolsInv /\ [TNext]_tvars =>
        [\A p \in Paths : ToolStep /\ files'[p] # files[p] /\ files[p] # NULL /\ ~ raced
                            => files[p] \in told]_tvars
  BY <1>1
<1> QED BY <1>2, ToolsInvariant, PTL DEF TSpec, NoBlindWrite
=============================================================================
