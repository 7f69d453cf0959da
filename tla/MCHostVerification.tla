---- MODULE MCHostVerification ----
(* Two commands over three trees, one of which cannot be hashed. *)
EXTENDS HostVerification
====
