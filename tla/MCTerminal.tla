----------------------------- MODULE MCTerminal -----------------------------
(***************************************************************************)
(* Small instances of Terminal: a message is at most two chunks long, and  *)
(* the output at most as long as two reads.                                *)
(***************************************************************************)
EXTENDS Terminal
=============================================================================
