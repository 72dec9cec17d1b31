---------------------------- MODULE MCPageLists ----------------------------
(***************************************************************************)
(* A small instance of PageLists: two entries, so that a deletion may      *)
(* leave a table empty or not.  What only the names of the entries tell    *)
(* apart is started from once.                                             *)
(***************************************************************************)
EXTENDS PageLists

CONSTANTS i1, i2

(* Bound: the tables at the start. *)
MCInit ==
    /\ Init
    /\ stored["servers"] \in {NoEntries, [NoEntries EXCEPT ![i1] = "password"],
                              [NoEntries EXCEPT ![i1] = "password", ![i2] = "key"]}
    /\ stored["snippets"] \in {NoEntries, [NoEntries EXCEPT ![i1] = "command"]}

MCSpec == MCInit /\ [][Next]_vars /\ Fairness
=============================================================================
