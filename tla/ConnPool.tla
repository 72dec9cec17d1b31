------------------------------ MODULE ConnPool ------------------------------
(***************************************************************************)
(* What the connection cache of NovaSSH promises, without its lock, its    *)
(* keepalive or its dialling: a server entry has at most one live SSH      *)
(* connection, and a request for an entry works over a connection that was *)
(* live for that very entry when the request took it.                      *)
(***************************************************************************)
CONSTANTS
    Ids,      \* server entries
    Conns,    \* connections
    Reqs,     \* requests
    NoLease   \* the lease of a request that uses no connection

VARIABLES
    live,   \* the pairs of an entry and a connection that is open for it
    lease   \* the pair that each request works with

vars == <<live, lease>>

Links == Ids \X Conns

TypeOK ==
    /\ live \subseteq Links
    /\ lease \in [Reqs -> Links \cup {NoLease}]

Init ==
    /\ live = {}
    /\ lease = [r \in Reqs |-> NoLease]

(* A connection is opened for an entry that has none. *)
Open(i, c) ==
    /\ \A l \in live : l[1] # i /\ l[2] # c
    /\ \A r \in Reqs : lease[r] = NoLease \/ lease[r][2] # c
    /\ live' = live \cup {<<i, c>>}
    /\ UNCHANGED lease

(* A connection is closed, even under the requests that use it. *)
Close(i, c) ==
    /\ <<i, c>> \in live
    /\ live' = live \ {<<i, c>>}
    /\ UNCHANGED lease

Take(r, i, c) ==
    /\ lease[r] = NoLease
    /\ <<i, c>> \in live
    /\ lease' = [lease EXCEPT ![r] = <<i, c>>]
    /\ UNCHANGED live

Release(r) ==
    /\ lease[r] # NoLease
    /\ lease' = [lease EXCEPT ![r] = NoLease]
    /\ UNCHANGED live

Next ==
    \/ \E i \in Ids, c \in Conns : Open(i, c) \/ Close(i, c)
    \/ \E r \in Reqs, i \in Ids, c \in Conns : Take(r, i, c)
    \/ \E r \in Reqs : Release(r)

Spec == Init /\ [][Next]_vars
=============================================================================
