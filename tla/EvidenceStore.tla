---------------------------- MODULE EvidenceStore ----------------------------
(***************************************************************************)
(* What the store of verification evidence promises its users: a run id is *)
(* written once, and evidence that a caller was told about stays, whatever *)
(* happens to the machine.  ControlOutcome relies on exactly this.         *)
(***************************************************************************)
CONSTANTS RunIds, Evidence, NULL

VARIABLES
  published,     \* the evidence under each run id, or NULL
  confirmed      \* run ids whose evidence was returned to a caller

svars == <<published, confirmed>>

StoreInit == published = [r \in RunIds |-> NULL] /\ confirmed = {}

Publish(r, e) ==
  /\ published[r] = NULL
  /\ published' = [published EXCEPT ![r] = e]
  /\ UNCHANGED confirmed

Confirm(r) ==
  /\ published[r] # NULL
  /\ confirmed' = confirmed \cup {r}
  /\ UNCHANGED published

\* The machine fails: what nobody was told about may be gone.
Lose(rs) ==
  /\ rs \cap confirmed = {}
  /\ published' = [r \in RunIds |-> IF r \in rs THEN NULL ELSE published[r]]
  /\ UNCHANGED confirmed

StoreNext ==
  \/ \E r \in RunIds, e \in Evidence : Publish(r, e)
  \/ \E r \in RunIds : Confirm(r)
  \/ \E rs \in SUBSET RunIds : Lose(rs)

StoreSpec == StoreInit /\ [][StoreNext]_svars
=============================================================================
