--------------------------- MODULE MCTerminalTabs ---------------------------
(***************************************************************************)
(* A small instance of TerminalTabs.                                       *)
(***************************************************************************)
EXTENDS TerminalTabs, TLC

Symmetry == Permutations(Servers)
=============================================================================
