--------------------------- MODULE MCWorkspaceTools ---------------------------
(* One path of each kind the path policy tells apart, and a plain one others *)
(* edit too.                                                                 *)
EXTENDS WorkspaceTools
=============================================================================
