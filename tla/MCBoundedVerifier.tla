-------------------------- MODULE MCBoundedVerifier --------------------------
(* Commands over two trees, with one chunk of output within the limit and    *)
(* one beyond it.                                                            *)
EXTENDS BoundedVerifier
=============================================================================
