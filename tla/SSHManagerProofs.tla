-------------------------- MODULE SSHManagerProofs --------------------------
(***************************************************************************)
(* Proofs about SSHManager, for every number of entries, requests and      *)
(* connections, and every choice of peers that may fall silent.            *)
(***************************************************************************)
EXTENDS SSHManager, TLAPS

(* A returning request leaves the variables of the requests in their types. *)
LEMMA ReturnType ==
    ASSUME TypeOK, NEW p \in Reqs, Return(p)
    PROVE  /\ pc' \in [Reqs -> Places]
           /\ rid' \in [Reqs -> Ids \cup {NoId}]
           /\ srv' \in [Reqs -> Cfgs \cup {NoCfg}]
           /\ cl' \in [Reqs -> Conns \cup {NoConn}]
           /\ pc'[p] = "idle"
           /\ \A q \in Reqs \ {p} : /\ pc'[q] = pc[q] /\ rid'[q] = rid[q]
                                    /\ srv'[q] = srv[q] /\ cl'[q] = cl[q]
    BY DEF TypeOK, Return, Goto, Places

(* Type correctness: no request goes on without the record of its entry. *)
THEOREM TypeCorrect == Spec => []TypeOK
<1>1. Init => TypeOK
    BY ConstantsAssumption DEF Init, TypeOK, Places, Holding
<1>2. TypeOK /\ [Next]_vars => TypeOK'
  <2> SUFFICES ASSUME TypeOK, [Next]_vars PROVE TypeOK'
      OBVIOUS
  <2> USE DEF TypeOK, Goto, Places, Holding, reqVars, connVars
  <2>1. ASSUME NEW p \in Reqs, NEW i \in Ids, GetServer(p, i) PROVE TypeOK'
      BY <2>1 DEF GetServer
  <2>2. ASSUME NEW p \in Reqs, NEW i \in Ids, Delete(p, i) PROVE TypeOK'
      BY <2>2 DEF Delete
  <2>3. ASSUME NEW p \in Reqs, Lock(p) PROVE TypeOK'
      BY <2>3 DEF Lock
  <2>4. ASSUME NEW p \in Reqs, NotCached(p) PROVE TypeOK'
      BY <2>4 DEF NotCached
  <2>5. ASSUME NEW p \in Reqs, KeepaliveAnswered(p) PROVE TypeOK'
    <3>1. clients[rid[p]] \in Conns \cup {NoConn}
        BY <2>5 DEF KeepaliveAnswered
    <3> QED BY <2>5, <3>1 DEF KeepaliveAnswered
  <2>6. ASSUME NEW p \in Reqs, KeepaliveFails(p) PROVE TypeOK'
      BY <2>6 DEF KeepaliveFails
  <2>7. ASSUME NEW p \in Reqs, BuildConfigFails(p) \/ DialFails(p) \/ Use(p) PROVE TypeOK'
      BY <2>7, ReturnType DEF BuildConfigFails, DialFails, Use
  <2>8. ASSUME NEW p \in Reqs, NEW c \in Conns, DialSucceeds(p, c) PROVE TypeOK'
    <3>1. rid[p] \in Ids /\ srv[p] \in Cfgs
        BY <2>8 DEF DialSucceeds
    <3> QED BY <2>8, <3>1 DEF DialSucceeds
  <2>9. ASSUME NEW p \in Reqs, Store(p) PROVE TypeOK'
      BY <2>9 DEF Store
  <2>10. ASSUME NEW p \in Reqs, CloseConnection(p) PROVE TypeOK'
      BY <2>10 DEF CloseConnection
  <2>11. ASSUME NEW p \in Reqs, DeleteServer(p) PROVE TypeOK'
      BY <2>11, ReturnType DEF DeleteServer
  <2>12. ASSUME NEW i \in Ids, NEW cfg \in Cfgs, SaveServer(i, cfg) PROVE TypeOK'
      BY <2>12 DEF SaveServer
  <2>13. CASE Network
      BY <2>13 DEF Network, Break, Stall, Recover
  <2>14. CASE UNCHANGED vars
      BY <2>14 DEF vars
  <2> QED BY <2>1, <2>2, <2>3, <2>4, <2>5, <2>6, <2>7, <2>8, <2>9, <2>10, <2>11,
             <2>12, <2>13, <2>14 DEF Next, Request, Connect
<1> QED BY <1>1, <1>2, PTL DEF Spec

-----------------------------------------------------------------------------
(* The inductive invariant.  The mutex is held exactly inside Connect; what is
   cached is live and was opened for its entry; what is live is cached or about
   to be; and a request inside Connect knows that its entry has no connection
   from the moment it dials until it stores the new one. *)
LockInv == \A p \in Reqs : pc[p] \in Holding <=> lock = p

CacheInv ==
    \A i \in Ids : clients[i] # NoConn =>
        Live(clients[i]) /\ entry[clients[i]] = i

LiveInv ==
    \A c \in Conns : Live(c) =>
        /\ entry[c] \in Ids
        /\ \/ clients[entry[c]] = c
           \/ \E p \in Reqs : pc[p] = "store" /\ cl[p] = c

ConnectInv ==
    \A p \in Reqs :
        /\ pc[p] = "dial" => clients[rid[p]] = NoConn
        /\ pc[p] = "store" => /\ clients[rid[p]] = NoConn
                              /\ Live(cl[p])
        /\ pc[p] \in {"store", "use"} => /\ cl[p] \in Conns
                                         /\ entry[cl[p]] = rid[p]

Inv == LockInv /\ CacheInv /\ LiveInv /\ ConnectInv

LEMMA InvInit == Init => Inv
    BY ConstantsAssumption
    DEF Init, Inv, LockInv, CacheInv, LiveInv, ConnectInv, Holding, Live

(* Only Connect and CloseConnection touch the cache, one at a time. *)
LEMMA InvNext ==
    ASSUME TypeOK, TypeOK', Inv, [Next]_vars
    PROVE  Inv'
<1> USE ConstantsAssumption
        DEF TypeOK, Inv, LockInv, CacheInv, LiveInv, ConnectInv, Goto, Places,
            Holding, Live, reqVars, connVars
<1>1. ASSUME NEW p \in Reqs, NEW i \in Ids, GetServer(p, i) \/ Delete(p, i) PROVE Inv'
    BY <1>1 DEF GetServer, Delete
<1>2. ASSUME NEW p \in Reqs, Lock(p) PROVE Inv'
    BY <1>2 DEF Lock
<1>3. ASSUME NEW p \in Reqs, NotCached(p) PROVE Inv'
    BY <1>3 DEF NotCached
<1>4. ASSUME NEW p \in Reqs, KeepaliveAnswered(p) PROVE Inv'
    BY <1>4 DEF KeepaliveAnswered
<1>5. ASSUME NEW p \in Reqs, KeepaliveFails(p) PROVE Inv'
    BY <1>5 DEF KeepaliveFails
<1>6. ASSUME NEW p \in Reqs, BuildConfigFails(p) \/ DialFails(p) PROVE Inv'
    BY <1>6, ReturnType DEF BuildConfigFails, DialFails
<1>7. ASSUME NEW p \in Reqs, Use(p) \/ DeleteServer(p) PROVE Inv'
    BY <1>7, ReturnType DEF Use, DeleteServer
<1>8. ASSUME NEW p \in Reqs, NEW c \in Conns, DialSucceeds(p, c) PROVE Inv'
    BY <1>8 DEF DialSucceeds, Free
<1>9. ASSUME NEW p \in Reqs, Store(p) PROVE Inv'
    BY <1>9 DEF Store
<1>10. ASSUME NEW p \in Reqs, CloseConnection(p) PROVE Inv'
    BY <1>10 DEF CloseConnection
<1>11. ASSUME NEW i \in Ids, NEW cfg \in Cfgs, SaveServer(i, cfg) PROVE Inv'
    BY <1>11 DEF SaveServer
<1>12. CASE Network
    BY <1>12 DEF Network, Break, Stall, Recover
<1>13. CASE UNCHANGED vars
    BY <1>13 DEF vars
<1> QED BY <1>1, <1>2, <1>3, <1>4, <1>5, <1>6, <1>7, <1>8, <1>9, <1>10, <1>11,
           <1>12, <1>13 DEF Next, Request, Connect

THEOREM Invariance == Spec => []Inv
<1>1. TypeOK /\ TypeOK' /\ Inv /\ [Next]_vars => Inv'
    BY InvNext
<1> QED BY <1>1, InvInit, TypeCorrect, PTL DEF Spec

-----------------------------------------------------------------------------
(* No live connection is out of the reach of the cache. *)
THEOREM NoLeak == Spec => []NoLeakedConnection
<1>1. TypeOK /\ Inv => NoLeakedConnection
    BY DEF TypeOK, Inv, LiveInv, LockInv, Holding, NoLeakedConnection
<1> QED BY <1>1, Invariance, TypeCorrect, PTL

(* Requests that connect to one entry at the same time share a connection:
   a connection that is about to be stored finds its place empty. *)
THEOREM OneConnection == Spec => []OneConnectionPerEntry
<1>1. Inv => OneConnectionPerEntry
  <2> SUFFICES ASSUME Inv, NEW c \in Conns, NEW d \in Conns, Live(c), Live(d),
                      entry[c] = entry[d]
               PROVE  c = d
      BY DEF OneConnectionPerEntry
  <2> USE DEF Inv, LiveInv, ConnectInv, LockInv, Holding
  <2>1. CASE clients[entry[c]] = c /\ clients[entry[d]] = d
      BY <2>1
  <2>2. CASE \E p \in Reqs : pc[p] = "store" /\ cl[p] = c
      BY <2>2, ConstantsAssumption
  <2>3. CASE \E p \in Reqs : pc[p] = "store" /\ cl[p] = d
      BY <2>3, ConstantsAssumption
  <2> QED BY <2>1, <2>2, <2>3
<1> QED BY <1>1, Invariance, PTL

(* A command runs over a connection opened for the entry that it names. *)
THEOREM OwnEntry == Spec => []RunsOnOwnEntry
<1>1. Inv => RunsOnOwnEntry
    BY DEF Inv, ConnectInv, RunsOnOwnEntry
<1> QED BY <1>1, Invariance, PTL

(* A healthy connection is taken from a request only by a deletion. *)
THEOREM LostToDelete == Spec => HealthyLostOnlyToDelete
<1> DEFINE Step == \A p \in Reqs :
               pc[p] = "use" /\ link[cl[p]] = "up" /\ link'[cl[p]] = "closed" =>
                   \E q \in Reqs : pc[q] = "close" /\ rid[q] = rid[p]
<1>1. TypeOK /\ Inv /\ [Next]_vars => [Step]_vars
  <2> SUFFICES ASSUME TypeOK, Inv, Next, NEW p \in Reqs, pc[p] = "use",
                      link[cl[p]] = "up", link'[cl[p]] = "closed"
               PROVE  \E q \in Reqs : pc[q] = "close" /\ rid[q] = rid[p]
      OBVIOUS
  <2>1. cl[p] \in Conns /\ entry[cl[p]] = rid[p]
      BY DEF Inv, ConnectInv
  <2>2. PICK q \in Reqs : \/ KeepaliveFails(q)
                          \/ CloseConnection(q)
                          \/ \E c \in Conns : DialSucceeds(q, c)
    <3>1. UNCHANGED link => FALSE
        BY <2>1
    <3>2. CASE Network
        BY <3>1, <3>2, <2>1 DEF Network, Break, Stall, Recover, connVars, TypeOK
    <3>3. CASE \E i \in Ids, cfg \in Cfgs : SaveServer(i, cfg)
        BY <3>1, <3>3 DEF SaveServer, connVars
    <3> QED BY <3>1, <3>2, <3>3
            DEF Next, Request, Connect, GetServer, Delete, Lock, NotCached,
                KeepaliveAnswered, BuildConfigFails, DialFails, Store, Use,
                DeleteServer, connVars
  <2>3. CASE KeepaliveFails(q)
      BY <2>1, <2>3 DEF KeepaliveFails, TypeOK
  <2>4. CASE CloseConnection(q)
    <3>1. cl[p] = clients[rid[q]]
        BY <2>1, <2>4 DEF CloseConnection, TypeOK
    <3>2. entry[clients[rid[q]]] = rid[q]
        BY <2>1, <2>4, <3>1, ConstantsAssumption
        DEF CloseConnection, TypeOK, Inv, CacheInv
    <3> QED BY <2>1, <2>4, <3>1, <3>2 DEF CloseConnection
  <2>5. CASE \E c \in Conns : DialSucceeds(q, c)
      BY <2>1, <2>5 DEF DialSucceeds, TypeOK
  <2> QED BY <2>2, <2>3, <2>4, <2>5
<1>2. Spec => [][Step]_vars
    BY <1>1, Invariance, TypeCorrect, PTL DEF Spec
<1> QED BY <1>2 DEF HealthyLostOnlyToDelete

-----------------------------------------------------------------------------
(* The peer that Connect waits for: of the cached connection during the
   keepalive, of the record during the dial. *)
WaitsForSilence(p) ==
    \/ pc[p] = "check" /\ clients[rid[p]] # NoConn /\ target[clients[rid[p]]] \in silent
    \/ pc[p] = "dial" /\ srv[p] \in silent

(* The guards of the steps of Connect. *)
GoesOn(p) ==
    \/ pc[p] = "check" /\ clients[rid[p]] = NoConn                           \* NotCached
    \/ /\ pc[p] = "check" /\ clients[rid[p]] # NoConn
       /\ \/ link[clients[rid[p]]] = "broken"                               \* KeepaliveFails
          \/ /\ link[clients[rid[p]]] = "up"                               \* KeepaliveAnswered
             /\ target[clients[rid[p]]] \notin silent
    \/ pc[p] = "dial" /\ srv[p] \in BadKeys                                 \* BuildConfigFails
    \/ pc[p] = "dial" /\ srv[p] \notin BadKeys \cup silent                  \* DialFails
    \/ pc[p] = "store"                                                      \* Store

OnlySilenceStops ==
    \A p \in Reqs : lock = p => GoesOn(p) \/ WaitsForSilence(p)

(* Nothing but a silent peer stops the request that holds the mutex: no return
   of Connect keeps the mutex, and no keepalive is asked of a closed client.
   It is the safe half of EveryRequestGetsPast. *)
THEOREM HolderGoesOn == Spec => []OnlySilenceStops
<1>1. ASSUME TypeOK, Inv PROVE OnlySilenceStops
  <2> SUFFICES ASSUME NEW p \in Reqs, lock = p PROVE GoesOn(p) \/ WaitsForSilence(p)
      BY DEF OnlySilenceStops
  <2>1. pc[p] \in {"check", "dial", "store"} /\ rid[p] \in Ids
      BY <1>1 DEF TypeOK, Inv, LockInv, Holding
  <2>2. CASE pc[p] = "check"
    <3>1. CASE clients[rid[p]] = NoConn
        BY <2>2, <3>1 DEF GoesOn
    <3>2. CASE clients[rid[p]] # NoConn
      <4>1. link[clients[rid[p]]] \in {"up", "broken"}
          BY <1>1, <2>1, <3>2 DEF TypeOK, Inv, CacheInv, Live
      <4> QED BY <2>2, <3>2, <4>1 DEF GoesOn, WaitsForSilence
    <3> QED BY <3>1, <3>2
  <2>3. CASE pc[p] = "dial"
      BY <2>3 DEF GoesOn, WaitsForSilence
  <2>4. CASE pc[p] = "store"
      BY <2>4 DEF GoesOn
  <2> QED BY <2>1, <2>2, <2>3, <2>4
<1> QED BY <1>1, Invariance, TypeCorrect, PTL

-----------------------------------------------------------------------------
LEMMA PairLeases ==
    \A i \in Ids, c \in Conns : <<i, c>> # NoConn
    BY ConstantsAssumption

LEMMA PoolInit == Init => Pool!Init
<1> SUFFICES ASSUME Init PROVE Pool!Init
    OBVIOUS
<1>1. LiveLinks = {}
    BY DEF Init, LiveLinks, Live
<1>2. Leases = [p \in Reqs |-> NoConn]
    BY DEF Init, Leases
<1> QED BY <1>1, <1>2 DEF Pool!Init

(* Every step of the manager is a step of ConnPool, or none. *)
LEMMA PoolStep ==
    ASSUME TypeOK, TypeOK', Inv, [Next]_vars
    PROVE  [Pool!Next]_(Pool!vars)
<1> USE DEF TypeOK, Inv, Goto, Places, Holding, reqVars, connVars, Pool!vars
<1>1. ASSUME NEW p \in Reqs,
             \/ \E i \in Ids : GetServer(p, i) \/ Delete(p, i)
             \/ Lock(p) \/ NotCached(p)
      PROVE  UNCHANGED <<LiveLinks, Leases>>
    BY <1>1 DEF GetServer, Delete, Lock, NotCached, LiveLinks, Leases, Live
<1>2. ASSUME NEW p \in Reqs, BuildConfigFails(p) \/ DialFails(p) \/ DeleteServer(p)
      PROVE  UNCHANGED <<LiveLinks, Leases>>
    BY <1>2, ReturnType DEF BuildConfigFails, DialFails, DeleteServer, LiveLinks,
                            Leases, Live
<1>3. ASSUME NEW p \in Reqs, KeepaliveAnswered(p) \/ Store(p)
      PROVE  Pool!Next
    <2>1. /\ cl'[p] \in Conns
          /\ <<rid[p], cl'[p]>> \in LiveLinks
          /\ rid[p] \in Ids
        BY <1>3, ConstantsAssumption
        DEF KeepaliveAnswered, Store, LiveLinks, CacheInv, ConnectInv
    <2>2. UNCHANGED LiveLinks
        BY <1>3 DEF KeepaliveAnswered, Store, LiveLinks, Live
    <2>3. Leases[p] = NoConn
        BY <1>3 DEF KeepaliveAnswered, Store, Leases
    <2>4. Leases' = [Leases EXCEPT ![p] = <<rid[p], cl'[p]>>]
        BY <1>3 DEF KeepaliveAnswered, Store, Leases
    <2>5. Pool!Take(p, rid[p], cl'[p])
        BY <2>1, <2>2, <2>3, <2>4 DEF Pool!Take
    <2> QED BY <2>1, <2>5 DEF Pool!Next
<1>4. ASSUME NEW p \in Reqs, NEW c \in Conns, NEW d \in Conns, Live(c),
             \A q \in Reqs : pc[q] = "use" <=> pc'[q] = "use",
             UNCHANGED <<rid, cl, entry>>,
             link' = [link EXCEPT ![c] = "closed"]
      PROVE  Pool!Next
    <2>1. entry[c] \in Ids /\ <<entry[c], c>> \in LiveLinks
        BY <1>4 DEF LiveInv, LiveLinks
    <2>2. LiveLinks' = LiveLinks \ {<<entry[c], c>>}
        BY <1>4 DEF LiveLinks, Live
    <2>3. UNCHANGED Leases
        BY <1>4 DEF Leases
    <2>4. Pool!Close(entry[c], c)
        BY <2>1, <2>2, <2>3 DEF Pool!Close
    <2> QED BY <2>1, <2>4 DEF Pool!Next
<1>5. ASSUME NEW p \in Reqs, KeepaliveFails(p) PROVE Pool!Next
    <2>1. clients[rid[p]] \in Conns
        BY <1>5 DEF KeepaliveFails
    <2> QED BY <1>4, <1>5, <2>1 DEF KeepaliveFails, Live
<1>6. ASSUME NEW p \in Reqs, CloseConnection(p) PROVE [Pool!Next]_(Pool!vars)
    <2>1. CASE clients[rid[p]] = NoConn
      <3>1. link' = link
          BY <1>6, <2>1, ConstantsAssumption DEF CloseConnection
      <3> QED BY <1>6, <3>1 DEF CloseConnection, LiveLinks, Leases, Live
    <2>2. CASE clients[rid[p]] # NoConn
      <3>1. clients[rid[p]] \in Conns /\ Live(clients[rid[p]])
          BY <1>6, <2>2 DEF CloseConnection, CacheInv
      <3>2. link' = [link EXCEPT ![clients[rid[p]]] = "closed"]
          BY <1>6, <3>1 DEF CloseConnection
      <3> QED BY <1>4, <1>6, <3>1, <3>2 DEF CloseConnection
    <2> QED BY <2>1, <2>2
<1>7. ASSUME NEW p \in Reqs, NEW c \in Conns, DialSucceeds(p, c) PROVE Pool!Next
    <2>1. rid[p] \in Ids
        BY <1>7 DEF DialSucceeds
    <2>2. \A l \in LiveLinks : l[1] # rid[p] /\ l[2] # c
        BY <1>7, ConstantsAssumption
        DEF DialSucceeds, LiveLinks, LiveInv, ConnectInv, LockInv, Free
    <2>3. \A r \in Reqs : Leases[r] = NoConn \/ Leases[r][2] # c
        BY <1>7 DEF DialSucceeds, Free, Leases
    <2>4. LiveLinks' = LiveLinks \cup {<<rid[p], c>>}
        BY <1>7 DEF DialSucceeds, LiveLinks, Live, Free
    <2>5. UNCHANGED Leases
        BY <1>7 DEF DialSucceeds, Leases
    <2>6. Pool!Open(rid[p], c)
        BY <2>2, <2>3, <2>4, <2>5 DEF Pool!Open
    <2> QED BY <2>1, <2>6 DEF Pool!Next
<1>8. ASSUME NEW p \in Reqs, Use(p) PROVE Pool!Next
    <2>1. Leases[p] # NoConn
        BY <1>8, PairLeases DEF Use, Leases, ConnectInv
    <2>2. Leases' = [Leases EXCEPT ![p] = NoConn]
        BY <1>8, ReturnType DEF Use, Leases
    <2>3. UNCHANGED LiveLinks
        BY <1>8 DEF Use, LiveLinks, Live
    <2>4. Pool!Release(p)
        BY <2>1, <2>2, <2>3 DEF Pool!Release
    <2> QED BY <2>4 DEF Pool!Next
<1>9. ASSUME \/ \E i \in Ids, cfg \in Cfgs : SaveServer(i, cfg)
             \/ Network
             \/ UNCHANGED vars
      PROVE  UNCHANGED <<LiveLinks, Leases>>
    BY <1>9 DEF SaveServer, Network, Break, Stall, Recover, vars, LiveLinks, Leases, Live
<1> QED BY <1>1, <1>2, <1>3, <1>5, <1>6, <1>7, <1>8, <1>9 DEF Next, Request, Connect

(* The connection cache implements ConnPool. *)
THEOREM Refinement == Spec => ImplementsConnPool
<1>1. TypeOK /\ TypeOK' /\ Inv /\ [Next]_vars => [Pool!Next]_(Pool!vars)
    BY PoolStep
<1> QED BY <1>1, PoolInit, Invariance, TypeCorrect, PTL
        DEF Spec, ImplementsConnPool, Pool!Spec

=============================================================================
