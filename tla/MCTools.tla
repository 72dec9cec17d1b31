------------------------------ MODULE MCTools ------------------------------
(***************************************************************************)
(* A small instance of Tools: three servers, so that a broadcast can miss  *)
(* one and mix up the others, and enough calls for an older answer to come *)
(* after a newer one.                                                      *)
(***************************************************************************)
EXTENDS Tools, TLC

CONSTANTS s1, s2, s3

Symmetry == Permutations(Servers)
=============================================================================
