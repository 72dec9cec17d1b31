---------------------------- MODULE MCLifecycle ----------------------------
(***************************************************************************)
(* A small instance of Lifecycle: two windows, the real limit of five      *)
(* units, and everything that users and browsers do.                       *)
(***************************************************************************)
EXTENDS Lifecycle, TLC

Symmetry == Permutations(Windows)
============================================================================
