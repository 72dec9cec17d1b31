--------------------------- MODULE MCStatusMonitor ---------------------------
(***************************************************************************)
(* A small instance of StatusMonitor: two entries that move between two    *)
(* hosts.                                                                  *)
(***************************************************************************)
EXTENDS StatusMonitor
=============================================================================
