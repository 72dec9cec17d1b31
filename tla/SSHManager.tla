----------------------------- MODULE SSHManager -----------------------------
(***************************************************************************)
(* pkg/sshclient/manager.go and the handlers of main.go that reach it: a   *)
(* cache of SSH connections, one for each server entry, filled by Connect  *)
(* and emptied by CloseConnection under one mutex that Connect keeps while *)
(* it waits for the network.                                               *)
(*                                                                         *)
(* Each request is a goroutine of the HTTP server.  A request that runs a  *)
(* command (or lists a directory, reads statistics, broadcasts...) fetches *)
(* the entry from the storage, connects, and works over the connection     *)
(* after the mutex is released.  A request that deletes an entry closes    *)
(* its cached connection first and forgets the entry then.                 *)
(*                                                                         *)
(* A peer is silent when its host accepts TCP connections and its SSH      *)
(* server does not answer: neither the keepalive nor the handshake has a   *)
(* timeout.                                                                *)
(***************************************************************************)
EXTENDS Naturals, FiniteSets

CONSTANTS
    Ids,       \* ids of server entries
    Cfgs,      \* what an entry says of where and how to connect
    BadKeys,   \* the Cfgs whose private key cannot be read or parsed
    MayStall,  \* the Cfgs whose peer may become silent
    Reqs,      \* the requests in flight
    Conns,     \* connections; a closed one that nobody holds is used again
    NoCfg,     \* registry value of an entry that does not exist
    NoConn,    \* no connection
    NoReq,     \* no request
    NoId       \* no entry

VARIABLES
    registry,  \* storage.Manager.servers: the Cfg of each entry
    clients,   \* Manager.clients: the cached connection of each entry
    lock,      \* the request that holds Manager.mu
    pc,        \* where each request is
    rid,       \* the id that each request names
    srv,       \* the server record that each request fetched
    cl,        \* the client that each request holds
    link,      \* each connection: "closed", "up", or "broken" by the peer
    entry,     \* the entry that each connection was opened for
    target,    \* the Cfg that each connection was dialled with
    silent     \* the Cfgs whose peer is silent

reqVars  == <<pc, rid, srv, cl>>
connVars == <<link, entry, target>>
vars     == <<registry, clients, lock, reqVars, connVars, silent>>

ASSUME ConstantsAssumption ==
    /\ BadKeys \subseteq Cfgs
    /\ MayStall \subseteq Cfgs
    /\ NoCfg \notin Cfgs
    /\ NoConn \notin Conns \cup (Ids \X Conns)
    /\ NoReq \notin Reqs
    /\ NoId \notin Ids

Holding == {"check", "dial", "store"}
Places  == Holding \cup {"idle", "lock", "use", "close", "forget"}

TypeOK ==
    /\ registry \in [Ids -> Cfgs \cup {NoCfg}]
    /\ clients \in [Ids -> Conns \cup {NoConn}]
    /\ lock \in Reqs \cup {NoReq}
    /\ pc \in [Reqs -> Places]
    /\ rid \in [Reqs -> Ids \cup {NoId}]
    /\ srv \in [Reqs -> Cfgs \cup {NoCfg}]
    /\ cl \in [Reqs -> Conns \cup {NoConn}]
    /\ link \in [Conns -> {"closed", "up", "broken"}]
    /\ entry \in [Conns -> Ids \cup {NoId}]
    /\ target \in [Conns -> Cfgs \cup {NoCfg}]
    /\ silent \subseteq MayStall
    /\ \A p \in Reqs : pc[p] # "idle" => rid[p] \in Ids
    /\ \A p \in Reqs : pc[p] \in Holding \cup {"lock", "use"} => srv[p] \in Cfgs

Init ==
    /\ registry \in [Ids -> Cfgs \cup {NoCfg}]
    /\ clients = [i \in Ids |-> NoConn]
    /\ lock = NoReq
    /\ pc = [p \in Reqs |-> "idle"]
    /\ rid = [p \in Reqs |-> NoId]
    /\ srv = [p \in Reqs |-> NoCfg]
    /\ cl = [p \in Reqs |-> NoConn]
    /\ link = [c \in Conns |-> "closed"]
    /\ entry = [c \in Conns |-> NoId]
    /\ target = [c \in Conns |-> NoCfg]
    /\ silent = {}

-----------------------------------------------------------------------------
(* Helpers. *)

Goto(p, place) == pc' = [pc EXCEPT ![p] = place]

Live(c) == link[c] # "closed"

(* Nobody holds the connection, and it is not open. *)
Free(c) ==
    /\ ~Live(c)
    /\ \A p \in Reqs : cl[p] # c
    /\ \A i \in Ids : clients[i] # c

(* The request is over: its handler returns. *)
Return(p) ==
    /\ Goto(p, "idle")
    /\ rid' = [rid EXCEPT ![p] = NoId]
    /\ srv' = [srv EXCEPT ![p] = NoCfg]
    /\ cl' = [cl EXCEPT ![p] = NoConn]

-----------------------------------------------------------------------------
(* The storage, as the requests see it: a record is replaced, never changed. *)

SaveServer(i, cfg) ==
    /\ registry' = [registry EXCEPT ![i] = cfg]
    /\ UNCHANGED <<clients, lock, reqVars, connVars, silent>>

(* Mutant: a request that names no entry goes on with a nil record. *)
Mut_GetServerIgnoresMissing(p, i) ==
    /\ pc[p] = "idle"
    /\ Goto(p, "lock")
    /\ rid' = [rid EXCEPT ![p] = i]
    /\ srv' = [srv EXCEPT ![p] = registry[i]]
    /\ UNCHANGED <<registry, clients, lock, cl, connVars, silent>>

(* GetServer: a request that names no entry is answered with an error. *)
GetServer(p, i) ==
    /\ pc[p] = "idle"
    /\ registry[i] # NoCfg
    /\ Goto(p, "lock")
    /\ rid' = [rid EXCEPT ![p] = i]
    /\ srv' = [srv EXCEPT ![p] = registry[i]]
    /\ UNCHANGED <<registry, clients, lock, cl, connVars, silent>>

-----------------------------------------------------------------------------
(* Connect. *)

(* Mutant: Connect takes the mutex for reading, together with others. *)
Mut_LockShared(p) ==
    /\ pc[p] = "lock"
    /\ lock' = p
    /\ Goto(p, "check")
    /\ UNCHANGED <<registry, clients, rid, srv, cl, connVars, silent>>

Lock(p) ==
    /\ pc[p] = "lock"
    /\ lock = NoReq
    /\ lock' = p
    /\ Goto(p, "check")
    /\ UNCHANGED <<registry, clients, rid, srv, cl, connVars, silent>>

NotCached(p) ==
    /\ pc[p] = "check"
    /\ clients[rid[p]] = NoConn
    /\ Goto(p, "dial")
    /\ UNCHANGED <<registry, clients, lock, rid, srv, cl, connVars, silent>>

(* Mutant: the cache is searched for the address instead of the entry. *)
Mut_KeepaliveAnsweredByAddress(p) ==
    /\ pc[p] = "check"
    /\ \E i \in Ids : LET c == clients[i] IN
       /\ c # NoConn
       /\ link[c] = "up"
       /\ target[c] = srv[p]
       /\ target[c] \notin silent
       /\ cl' = [cl EXCEPT ![p] = c]
    /\ lock' = NoReq
    /\ Goto(p, "use")
    /\ UNCHANGED <<registry, clients, rid, srv, connVars, silent>>

(* The keepalive of the cached client is answered: Connect returns it. *)
KeepaliveAnswered(p) ==
    /\ pc[p] = "check"
    /\ LET c == clients[rid[p]] IN
       /\ c # NoConn
       /\ link[c] = "up"
       /\ target[c] \notin silent
       /\ cl' = [cl EXCEPT ![p] = c]
    /\ lock' = NoReq
    /\ Goto(p, "use")
    /\ UNCHANGED <<registry, clients, rid, srv, connVars, silent>>

(* Mutant: the client leaves the cache and is not closed. *)
Mut_KeepaliveFailsLeavesOpen(p) ==
    /\ pc[p] = "check"
    /\ LET c == clients[rid[p]] IN c # NoConn /\ link[c] = "broken"
    /\ clients' = [clients EXCEPT ![rid[p]] = NoConn]
    /\ Goto(p, "dial")
    /\ UNCHANGED <<registry, lock, rid, srv, cl, connVars, silent>>

(* Mutant: a keepalive that takes long counts as failed. *)
Mut_KeepaliveFailsOnTimeout(p) ==
    /\ pc[p] = "check"
    /\ LET c == clients[rid[p]] IN
       /\ c # NoConn
       /\ link[c] = "broken" \/ target[c] \in silent
       /\ link' = [link EXCEPT ![c] = "closed"]
    /\ clients' = [clients EXCEPT ![rid[p]] = NoConn]
    /\ Goto(p, "dial")
    /\ UNCHANGED <<registry, lock, rid, srv, cl, entry, target, silent>>

(* The keepalive fails: the client is closed and leaves the cache. *)
KeepaliveFails(p) ==
    /\ pc[p] = "check"
    /\ LET c == clients[rid[p]] IN
       /\ c # NoConn
       /\ link[c] = "broken"
       /\ link' = [link EXCEPT ![c] = "closed"]
    /\ clients' = [clients EXCEPT ![rid[p]] = NoConn]
    /\ Goto(p, "dial")
    /\ UNCHANGED <<registry, lock, rid, srv, cl, entry, target, silent>>

(* Mutant: the error return forgets to unlock. *)
Mut_BuildConfigFailsLocked(p) ==
    /\ pc[p] = "dial"
    /\ srv[p] \in BadKeys
    /\ Return(p)
    /\ UNCHANGED <<registry, clients, lock, connVars, silent>>

(* BuildClientConfig returns an error, before anything is dialled. *)
BuildConfigFails(p) ==
    /\ pc[p] = "dial"
    /\ srv[p] \in BadKeys
    /\ lock' = NoReq
    /\ Return(p)
    /\ UNCHANGED <<registry, clients, connVars, silent>>

(* ssh.Dial returns: with a client, or with an error. *)
DialSucceeds(p, c) ==
    /\ pc[p] = "dial"
    /\ srv[p] \notin BadKeys \cup silent
    /\ Free(c)
    /\ link' = [link EXCEPT ![c] = "up"]
    /\ entry' = [entry EXCEPT ![c] = rid[p]]
    /\ target' = [target EXCEPT ![c] = srv[p]]
    /\ cl' = [cl EXCEPT ![p] = c]
    /\ Goto(p, "store")
    /\ UNCHANGED <<registry, clients, lock, rid, srv, silent>>

DialFails(p) ==
    /\ pc[p] = "dial"
    /\ srv[p] \notin BadKeys \cup silent
    /\ lock' = NoReq
    /\ Return(p)
    /\ UNCHANGED <<registry, clients, connVars, silent>>

(* Mutant: the client does not enter the cache. *)
Mut_StoreForgets(p) ==
    /\ pc[p] = "store"
    /\ lock' = NoReq
    /\ Goto(p, "use")
    /\ UNCHANGED <<registry, clients, rid, srv, cl, connVars, silent>>

(* The client enters the cache, the mutex is released, Connect returns. *)
Store(p) ==
    /\ pc[p] = "store"
    /\ clients' = [clients EXCEPT ![rid[p]] = cl[p]]
    /\ lock' = NoReq
    /\ Goto(p, "use")
    /\ UNCHANGED <<registry, rid, srv, cl, connVars, silent>>

(* The work over the client is over, or fails: nothing is closed. *)
Use(p) ==
    /\ pc[p] = "use"
    /\ Return(p)
    /\ UNCHANGED <<registry, clients, lock, connVars, silent>>

-----------------------------------------------------------------------------
(* DELETE /api/servers. *)

Delete(p, i) ==
    /\ pc[p] = "idle"
    /\ Goto(p, "close")
    /\ rid' = [rid EXCEPT ![p] = i]
    /\ UNCHANGED <<registry, clients, lock, srv, cl, connVars, silent>>

(* The whole of CloseConnection, which waits for nothing but the mutex. *)
CloseConnection(p) ==
    /\ pc[p] = "close"
    /\ lock = NoReq
    /\ LET c == clients[rid[p]] IN
       link' = [d \in Conns |-> IF d = c THEN "closed" ELSE link[d]]
    /\ clients' = [clients EXCEPT ![rid[p]] = NoConn]
    /\ Goto(p, "forget")
    /\ UNCHANGED <<registry, lock, rid, srv, cl, entry, target, silent>>

DeleteServer(p) ==
    /\ pc[p] = "forget"
    /\ registry' = [registry EXCEPT ![rid[p]] = NoCfg]
    /\ Return(p)
    /\ UNCHANGED <<clients, lock, connVars, silent>>

-----------------------------------------------------------------------------
(* The network. *)

Break(c) ==
    /\ link[c] = "up"
    /\ link' = [link EXCEPT ![c] = "broken"]
    /\ UNCHANGED <<registry, clients, lock, reqVars, entry, target, silent>>

Stall(cfg) ==
    /\ silent' = silent \cup {cfg}
    /\ UNCHANGED <<registry, clients, lock, reqVars, connVars>>

Recover(cfg) ==
    /\ silent' = silent \ {cfg}
    /\ UNCHANGED <<registry, clients, lock, reqVars, connVars>>

-----------------------------------------------------------------------------
Connect(p) ==
    \/ NotCached(p)
    \/ KeepaliveAnswered(p)
    \/ KeepaliveFails(p)
    \/ BuildConfigFails(p)
    \/ \E c \in Conns : DialSucceeds(p, c)
    \/ DialFails(p)
    \/ Store(p)

Request(p) ==
    \/ \E i \in Ids : GetServer(p, i) \/ Delete(p, i)
    \/ Lock(p)
    \/ Connect(p)
    \/ Use(p)
    \/ CloseConnection(p)
    \/ DeleteServer(p)

Network ==
    \/ \E c \in Conns : Break(c)
    \/ \E cfg \in MayStall : Stall(cfg) \/ Recover(cfg)

Next ==
    \/ \E p \in Reqs : Request(p)
    \/ \E i \in Ids, cfg \in Cfgs : SaveServer(i, cfg)
    \/ Network

Spec == Init /\ [][Next]_vars

(* The mutex of Go hands itself to a waiter that has waited too long, so no
   request waits for it for ever while others come and go.  What Connect sends
   waits in the buffers of a silent peer, which answers it when it recovers,
   even if it becomes silent again later. *)
Scheduling ==
    \A p \in Reqs :
        /\ SF_vars(Lock(p))
        /\ SF_vars(CloseConnection(p))
        /\ SF_vars(Connect(p))

FairSpec == Spec /\ Scheduling

(* An assumption on the network: no peer stays silent for ever. *)
PeersRecover == \A cfg \in MayStall : WF_vars(cfg \in silent /\ Recover(cfg))

RecoveringSpec == FairSpec /\ PeersRecover

-----------------------------------------------------------------------------
(* Properties. *)

(* A live connection is in the cache, or in the hands of the one request that
   is about to store it: Connect never drops one that it does not close, so no
   connection is out of the reach of CloseConnection. *)
NoLeakedConnection ==
    \A c \in Conns : Live(c) =>
        \/ \E i \in Ids : clients[i] = c
        \/ \E p \in Reqs : lock = p /\ pc[p] = "store" /\ cl[p] = c

(* Two requests that connect to the same entry at the same time share one
   connection. *)
OneConnectionPerEntry ==
    \A c, d \in Conns : Live(c) /\ Live(d) /\ entry[c] = entry[d] => c = d

(* A command runs over a connection that was opened for the entry it names,
   whatever was closed, stored and opened since the request took it. *)
RunsOnOwnEntry ==
    \A p \in Reqs : pc[p] = "use" => entry[cl[p]] = rid[p]

(* A request loses a healthy connection only to the deletion of its entry:
   another request's keepalive never takes it away. *)
HealthyLostOnlyToDelete ==
    [][\A p \in Reqs :
           pc[p] = "use" /\ link[cl[p]] = "up" /\ link'[cl[p]] = "closed" =>
               \E q \in Reqs : pc[q] = "close" /\ rid[q] = rid[p]]_vars

(* Every request for a connection and every deletion gets past the mutex, if
   peers that fall silent recover. *)
Waiting == Holding \cup {"lock", "close"}

EveryRequestGetsPast ==
    \A p \in Reqs : pc[p] \in Waiting ~> pc[p] \notin Waiting

(* RunCommand "executes a single command on the server" it is given: over a
   connection to the host, and as the user, of the record it was given. *)
RunsWhereConfigured ==
    \A p \in Reqs : pc[p] = "use" => target[cl[p]] = srv[p]

(* The cache keeps the promise of ConnPool. *)
LiveLinks == {<<entry[c], c>> : c \in {d \in Conns : Live(d)}}

Leases == [p \in Reqs |-> IF pc[p] = "use" THEN <<rid[p], cl[p]>> ELSE NoConn]

Pool == INSTANCE ConnPool WITH live <- LiveLinks, lease <- Leases, NoLease <- NoConn

ImplementsConnPool == Pool!Spec
=============================================================================
