------------------------------- MODULE MCStores -------------------------------
(* The two stores share no file: a behaviour is one of the workspace bundle  *)
(* store or one of the verifier asset store.                                 *)
EXTENDS VerifierAssets, TLC

VARIABLE store

MCInit == WInit /\ store \in {"workspace", "assets"}

MCNext ==
  \/ store = "workspace" /\ WNext /\ UNCHANGED store
  \/ store = "assets" /\ VNext /\ UNCHANGED store

MCSpec == MCInit /\ [][MCNext]_<<wvars, store>>
Symmetry == Permutations(Clients)
=============================================================================
