--------------------------- MODULE MCSFTPExplorer ---------------------------
(***************************************************************************)
(* Small instances of SFTPExplorer: two servers with a file in the login   *)
(* directory, which is not the root, and one in a directory beside it.     *)
(***************************************************************************)
EXTENDS SFTPExplorer, TLC

MCHome == <<"d">>

MCStartTree == {<<"d">>, <<"d", "f">>, <<"e">>, <<"e", "f">>}

Symmetry == Permutations(Servers)
=============================================================================
