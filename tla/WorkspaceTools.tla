---------------------------- MODULE WorkspaceTools ----------------------------
(* The six file tools the model may call (tools.py, workspace_tool_*.py).    *)
(*                                                                           *)
(* A call decodes its arguments, checks the path, reads, checks the hash the *)
(* model gave and then writes by a temporary file and a rename, or unlinks.  *)
(* Between any two of these steps somebody else may edit the workspace, and  *)
(* each file operation may fail.  Contents stand for their SHA-256; `told'   *)
(* is the set of those whose hash the model has seen: it cannot guess one.   *)
EXTENDS Naturals, FiniteSets

CONSTANTS
  NULL,
  Paths,        \* names of the workspace
  Contents,     \* contents of files
  Authority,    \* paths under .git and .sisyphus-harness
  Controls,     \* protected_write_paths: operator files, readable
  Unlisted,     \* paths outside allowed_write_paths
  Links,        \* names that are symbolic links, each to an authority file
  IgnoreFile,   \* .gitignore
  IgnoreText,   \* the content of .gitignore that conceals Concealed
  Concealed,    \* untracked paths that .gitignore hides
  Shared,       \* paths others edit
  MaxCalls,     \* bound: tool calls
  MaxOutside    \* bound: edits by others

ASSUME ToolsAssumption ==
  /\ Authority \cup Controls \cup Unlisted \cup Links \cup Concealed \cup Shared \subseteq Paths
  /\ IgnoreFile \in Paths /\ IgnoreText \in Contents
  /\ Shared \cap (Authority \cup Controls \cup Unlisted \cup Links \cup Concealed \cup {IgnoreFile}) = {}
  /\ NULL \notin Contents
  /\ MaxCalls \in Nat /\ MaxOutside \in Nat

Queries == {"list_files", "read_file", "search_text"}
Mutations == {"write_file", "replace_text", "delete_file"}

VARIABLES
  files, temps,               \* the workspace; temporary files left in it
  pc, call, current, told,    \* the call under way, what it read
  start, outcome,             \* what Git showed when it began; how it ended
  calls, outside,
  edited, raced, io_failed    \* history of the call: others' edits, a failed operation

work == <<files, temps>>
history == <<edited, raced, io_failed>>
tvars == <<work, pc, call, current, told, start, outcome, calls, outside, history>>

\* What git check-ignore hides.
Ignored(f) == IF f[IgnoreFile] = IgnoreText THEN Concealed ELSE {}

\* What snapshot_workspace sees: every path but the ignored, and stray files.
Visible(f, n) == [files |-> [p \in Paths \ Ignored(f) |-> f[p]], temps |-> n]

-----------------------------------------------------------------------------
\* Execution of one tool: the deadline is checked first.
Begin(tool, p, v, e) ==
  /\ pc = "idle" /\ calls < MaxCalls
  /\ calls' = calls + 1
  /\ call' = [tool |-> tool, path |-> p, content |-> v, expected |-> e]
  /\ pc' = "policy"
  /\ start' = Visible(files, temps)
  /\ outcome' = NULL
  /\ edited' = FALSE /\ raced' = FALSE /\ io_failed' = FALSE
  /\ UNCHANGED <<work, current, told, outside>>

End(result) ==
  /\ pc' = "done"
  /\ outcome' = result

\* ToolError: bad arguments, no time left, a file too large, binary or not
\* UTF-8, an old text that does not occur once, a Git command that fails.
Refuse ==
  /\ pc \in {"policy", "read"}
  /\ End("error")
  /\ UNCHANGED <<work, call, current, told, start, calls, outside, history>>

\* read_path: a path of the authority, named or behind a link, is refused.
ReadPath(p) == p \notin Authority \cup Links

\* Mutant: .gitignore may be written like any other file.
WritePathIgnoreFile(p) ==
  /\ p \notin Authority \cup Controls \cup Unlisted \cup Links
  /\ p \notin Ignored(files)

\* write_path and _reject_ignored_write.
WritePath(p) ==
  /\ p \notin Authority
  /\ p # IgnoreFile
  /\ p \notin Controls \cup Unlisted
  /\ p \notin Links
  /\ p \notin Ignored(files)

\* The directories above the path are made, which Git does not see.
Policy ==
  /\ pc = "policy"
  /\ LET allowed == IF call.tool \in Queries THEN ReadPath(call.path) ELSE WritePath(call.path) IN
     \/ /\ allowed
        /\ pc' = "read"
        /\ UNCHANGED outcome
     \/ /\ ~ allowed
        /\ End("error")
  /\ UNCHANGED <<work, call, current, told, start, calls, outside, history>>

\* list_files, read_file, search_text.  read_file tells the hash of the whole
\* file, whichever lines it shows.
Query ==
  /\ pc = "read" /\ call.tool \in Queries
  /\ \/ /\ call.tool = "read_file" /\ files[call.path] # NULL
        /\ told' = told \cup {files[call.path]}
        /\ End("kept")
     \/ /\ call.tool = "read_file" /\ files[call.path] = NULL
        /\ End("error")
        /\ UNCHANGED told
     \/ /\ call.tool # "read_file"
        /\ End("kept")
        /\ UNCHANGED told
  /\ UNCHANGED <<work, call, current, start, calls, outside, history>>

\* Mutant: a write without a hash is let through.
HashAcceptedMissing(content) == call.expected \in {content, NULL}

\* require_expected_hash
HashAccepted(content) == call.expected = content

\* Mutant: writing what is there already is a mutation.
TargetAcceptedSame ==
  LET content == files[call.path] IN
  IF call.tool = "write_file" /\ content = NULL THEN call.expected = NULL
  ELSE content # NULL /\ HashAccepted(content)

\* A new file takes no hash, a file that exists its own, and the content differs.
TargetAccepted ==
  LET content == files[call.path] IN
  CASE call.tool = "write_file" /\ content = NULL -> call.expected = NULL
    [] call.tool = "write_file" /\ content # NULL -> HashAccepted(content) /\ content # call.content
    [] call.tool = "replace_text" -> content # NULL /\ HashAccepted(content) /\ content # call.content
    [] call.tool = "delete_file" -> content # NULL /\ HashAccepted(content)

\* The error of a stale hash names the current one.
Disclosed ==
  IF files[call.path] # NULL /\ call.expected \notin {NULL, files[call.path]}
  THEN {files[call.path]} ELSE {}

\* The current content is read and compared.
ReadCurrent ==
  /\ pc = "read" /\ call.tool \in Mutations
  /\ current' = files[call.path]
  /\ \/ /\ TargetAccepted
        /\ pc' = IF call.tool = "delete_file" THEN "unlink" ELSE "write"
        /\ UNCHANGED <<outcome, told>>
     \/ /\ ~ TargetAccepted
        /\ End("error")
        /\ told' = told \cup Disclosed
  /\ UNCHANGED <<work, call, start, calls, outside, history>>

\* write_text_atomic: the temporary file.  If writing it fails its name is not
\* known yet and it stays; if it could not be made there is nothing to remove.
WriteTemporary ==
  /\ pc = "write"
  /\ \/ /\ temps' = temps + 1
        /\ pc' = "rename"
        /\ UNCHANGED <<outcome, io_failed>>
     \/ /\ temps' \in {temps, temps + 1}
        /\ io_failed' = TRUE
        /\ End("error")
  /\ UNCHANGED <<files, call, current, told, start, calls, outside, edited, raced>>

\* os.replace; the finally clause removes the temporary file of a failed one.
Rename ==
  /\ pc = "rename"
  /\ temps' = temps - 1
  /\ \/ /\ files' = [files EXCEPT ![call.path] = call.content]
        /\ pc' = "sync"
        /\ UNCHANGED <<outcome, io_failed>>
     \/ /\ io_failed' = TRUE
        /\ End("error")
        /\ UNCHANGED files
  /\ UNCHANGED <<call, current, told, start, calls, outside, edited, raced>>

Unlink ==
  /\ pc = "unlink"
  /\ \/ /\ files[call.path] # NULL
        /\ files' = [files EXCEPT ![call.path] = NULL]
        /\ pc' = "sync"
        /\ UNCHANGED <<outcome, io_failed>>
     \/ /\ io_failed' = TRUE
        /\ End("error")
        /\ UNCHANGED files
  /\ UNCHANGED <<temps, call, current, told, start, calls, outside, edited, raced>>

\* fsync of the directory: if it fails the call is an error though the file
\* has changed.
SyncDirectory ==
  /\ pc = "sync"
  /\ \/ /\ End("mutated")
        /\ told' = IF call.tool = "delete_file" THEN told ELSE told \cup {call.content}
        /\ UNCHANGED io_failed
     \/ /\ End("error")
        /\ io_failed' = TRUE
        /\ UNCHANGED told
  /\ UNCHANGED <<work, call, current, start, calls, outside, edited, raced>>

Return ==
  /\ pc = "done"
  /\ pc' = "idle"
  /\ call' = NULL /\ current' = NULL /\ start' = NULL /\ outcome' = NULL
  /\ edited' = FALSE /\ raced' = FALSE /\ io_failed' = FALSE
  /\ UNCHANGED <<work, told, calls, outside>>

\* Somebody else writes a file; it is a race if the call has compared the hash.
Outside(p, v) ==
  /\ outside < MaxOutside
  /\ files[p] # v
  /\ outside' = outside + 1
  /\ files' = [files EXCEPT ![p] = v]
  /\ edited' = (edited \/ pc # "idle")
  /\ raced' = (raced \/ pc \in {"write", "rename", "unlink"})
  /\ UNCHANGED <<temps, pc, call, current, told, start, outcome, calls, io_failed>>

-----------------------------------------------------------------------------
TInit ==
  /\ files = [p \in Paths |-> IF p \in {IgnoreFile} \cup Concealed \cup Controls \cup Links
                              THEN IgnoreText ELSE NULL]
  /\ temps = 0
  /\ pc = "idle" /\ call = NULL /\ current = NULL /\ told = {}
  /\ start = NULL /\ outcome = NULL /\ calls = 0 /\ outside = 0
  /\ edited = FALSE /\ raced = FALSE /\ io_failed = FALSE

ToolStep ==
  \/ Refuse \/ Policy \/ Query \/ ReadCurrent \/ WriteTemporary \/ Rename \/ Unlink
  \/ SyncDirectory \/ Return

TNext ==
  \/ \E tool \in Queries \cup Mutations, p \in Paths, v \in Contents, e \in told \cup {NULL} :
       Begin(tool, p, v, e)
  \/ ToolStep
  \/ \E p \in Shared, v \in Contents \cup {NULL} : Outside(p, v)

TSpec == TInit /\ [][TNext]_tvars

-----------------------------------------------------------------------------
(* Properties. *)

Untouchable == Authority \cup Controls \cup Unlisted \cup Links \cup {IgnoreFile} \cup Concealed

\* Types, and at most one temporary file per call is ever left.
TTypeOK ==
  /\ files \in [Paths -> Contents \cup {NULL}]
  /\ temps \in 0..calls
  /\ told \subseteq Contents
  /\ outcome \in {NULL, "kept", "mutated", "error"}

\* No sequence of calls changes a file the model may not write or one Git does
\* not show; in particular a file cannot be unhidden, changed and hidden again
\* (test_model_cannot_temporarily_unignore_a_hidden_write).
UntouchableKept ==
  \A p \in Untouchable : files[p] = IF p \in {IgnoreFile} \cup Concealed \cup Controls \cup Links
                                    THEN IgnoreText ELSE NULL

\* What a call reports is what Git shows: a mutation changed the workspace, a
\* query and an error did not, unless a file operation failed or others wrote
\* meanwhile.  The Agent ends the run when the two differ
\* (agent_transitions.py: state_changed != outcome.mutated).
OutcomeIsTrue ==
  pc = "done" /\ ~ edited =>
    /\ outcome = "mutated" => Visible(files, temps) # start
    /\ outcome = "kept" => Visible(files, temps) = start
    /\ outcome = "error" /\ ~ io_failed => Visible(files, temps) = start

\* A tool overwrites or deletes only what the model was told the hash of; others'
\* edits are lost only in the window between the comparison and the rename
\* (test_write_requires_hash_for_existing_file_and_preserves_mode,
\* test_replace_and_delete_reject_stale_hash).
NoBlindWrite ==
  [][ \A p \in Paths :
        ToolStep /\ files'[p] # files[p] /\ files[p] # NULL /\ ~ raced => files[p] \in told ]_tvars
=============================================================================
