---------------------------- MODULE MCSSHManager ----------------------------
(***************************************************************************)
(* Small instances of SSHManager.  A connection is free again when it is   *)
(* closed and nobody holds it, so as many connections as there are entries *)
(* and requests together never run out.                                    *)
(***************************************************************************)
EXTENDS SSHManager, TLC

Symmetry == Permutations(Conns) \cup Permutations(Reqs) \cup Permutations(Ids)
=============================================================================
