---------------------------- MODULE StatusMonitor ----------------------------
(***************************************************************************)
(* The health monitor of main.go and the two handlers that ping on demand: *)
(* each takes the records of the storage, pings them at the same time in   *)
(* goroutines without any mutex, and stores what they report under the     *)
(* ids, while users edit and delete the records.                           *)
(*                                                                         *)
(* A ping is a TCP connection with a timeout of three seconds, so it ends  *)
(* whatever the host does.  The files that every stored status is saved to *)
(* are the matter of Storage.                                              *)
(***************************************************************************)
EXTENDS Naturals

CONSTANTS
    Ids,        \* ids of server entries
    Hosts,      \* addresses that an entry may have
    None,       \* the record of an id that is not in the table
    MaxChanges  \* bound: edits, deletions and hosts that go up or down

VARIABLES
    table,     \* storage.Manager.servers
    up,        \* the hosts that accept connections
    busy,      \* whether each caller has pings under way
    left,      \* the ids whose answer each caller has not stored yet
    pings,     \* the goroutines
    changes,   \* number of changes so far
    settled    \* history: the callers that have started since the last
               \* change, when no goroutine from before it was left

callVars == <<busy, left>>
vars == <<table, up, callVars, pings, changes, settled>>

(* The background round, a request to ping all and a request to ping one. *)
Callers == {"monitor", "all", "one"}

Statuses == {"unknown", "online", "offline"}

Records == [host : Hosts, status : Statuses]

ASSUME ConstantsAssumption ==
    /\ None \notin Records
    /\ MaxChanges \in Nat

Pings ==
    [by : Callers, id : Ids, host : Hosts,
     state : {"dial", "online", "offline"}]

(* A goroutine belongs to a caller that waits for it and lacks its answer. *)
TypeOK ==
    /\ table \in [Ids -> Records \cup {None}]
    /\ up \subseteq Hosts
    /\ busy \in [Callers -> BOOLEAN]
    /\ left \in [Callers -> SUBSET Ids]
    /\ pings \subseteq Pings
    /\ \A p \in pings : busy[p.by] /\ p.id \in left[p.by]
    /\ changes \in 0..MaxChanges
    /\ settled \subseteq Callers

Present == {i \in Ids : table[i] # None}

Init ==
    /\ table \in [Ids -> Records \cup {None}]
    /\ up \in SUBSET Hosts
    /\ busy = [c \in Callers |-> FALSE]
    /\ left = [c \in Callers |-> {}]
    /\ pings = {}
    /\ changes = 0
    /\ settled = {}

-----------------------------------------------------------------------------
(* The callers. *)

Ping(c, i) == [by |-> c, id |-> i, host |-> table[i].host, state |-> "dial"]

Settle(c) ==
    settled' = IF \A p \in pings : p.by \in settled THEN settled \cup {c} ELSE settled

(* Mutant: the goroutines share the variable of the loop. *)
Mut_StartSharesVariable(c, ids) ==
    /\ ~busy[c]
    /\ busy' = [busy EXCEPT ![c] = TRUE]
    /\ left' = [left EXCEPT ![c] = ids]
    /\ \/ ids = {} /\ pings' = pings
       \/ \E last \in ids : pings' = pings \cup {Ping(c, last)}
    /\ Settle(c)
    /\ UNCHANGED <<table, up, changes>>

Start(c, ids) ==
    /\ ~busy[c]
    /\ busy' = [busy EXCEPT ![c] = TRUE]
    /\ left' = [left EXCEPT ![c] = ids]
    /\ pings' = pings \cup {Ping(c, i) : i \in ids}
    /\ Settle(c)
    /\ UNCHANGED <<table, up, changes>>

(* The ticker of 45 seconds. *)
Monitor == Start("monitor", Present)

HandlePingAll == Start("all", Present)

HandlePingServer(i) == i \in Present /\ Start("one", {i})

(* Mutant: the caller does not wait for its goroutines. *)
Mut_FinishAtOnce(c) ==
    /\ busy[c]
    /\ busy' = [busy EXCEPT ![c] = FALSE]
    /\ UNCHANGED <<table, up, left, pings, changes, settled>>

(* The wait group is empty: the round is over, or the request answered. *)
Finish(c) ==
    /\ busy[c]
    /\ \A p \in pings : p.by # c
    /\ busy' = [busy EXCEPT ![c] = FALSE]
    /\ UNCHANGED <<table, up, left, pings, changes, settled>>

-----------------------------------------------------------------------------
(* The goroutines. *)

(* Mutant: the error of the connection is not looked at. *)
Mut_PingServerErrorDropped(p) ==
    /\ p.state = "dial"
    /\ pings' = (pings \ {p}) \cup {[p EXCEPT !.state = "online"]}
    /\ UNCHANGED <<table, up, callVars, changes, settled>>

PingServer(p) ==
    /\ p.state = "dial"
    /\ pings' = (pings \ {p}) \cup
           {[p EXCEPT !.state = IF p.host \in up THEN "online" ELSE "offline"]}
    /\ UNCHANGED <<table, up, callVars, changes, settled>>

Answer(p) ==
    /\ p.state # "dial"
    /\ pings' = pings \ {p}
    /\ left' = [left EXCEPT ![p.by] = @ \ {p.id}]
    /\ UNCHANGED <<up, busy, changes, settled>>

(* Mutant: a host that is down is not reported. *)
Mut_UpdateOnlineOnly(p) ==
    /\ Answer(p)
    /\ table' = IF p.id \in Present /\ p.state = "online"
                THEN [table EXCEPT ![p.id].status = p.state] ELSE table

UpdateServerStatus(p) ==
    /\ Answer(p)
    /\ table' = IF p.id \in Present
                THEN [table EXCEPT ![p.id].status = p.state] ELSE table

-----------------------------------------------------------------------------
(* Users and hosts. *)

Change ==
    /\ changes < MaxChanges
    /\ changes' = changes + 1
    /\ settled' = {}
    /\ UNCHANGED <<callVars, pings>>

SaveServer(i, h) ==
    /\ Change
    /\ table' = [table EXCEPT ![i] = [host |-> h, status |-> "unknown"]]
    /\ UNCHANGED up

DeleteServer(i) ==
    /\ Change
    /\ i \in Present
    /\ table' = [table EXCEPT ![i] = None]
    /\ UNCHANGED up

HostGoesUp(h) ==
    /\ Change
    /\ h \notin up
    /\ up' = up \cup {h}
    /\ UNCHANGED table

HostGoesDown(h) ==
    /\ Change
    /\ h \in up
    /\ up' = up \ {h}
    /\ UNCHANGED table

-----------------------------------------------------------------------------
Next ==
    \/ Monitor \/ HandlePingAll
    \/ \E i \in Ids : HandlePingServer(i) \/ DeleteServer(i)
    \/ \E c \in Callers : Finish(c)
    \/ \E p \in pings : PingServer(p) \/ UpdateServerStatus(p)
    \/ \E i \in Ids, h \in Hosts : SaveServer(i, h)
    \/ \E h \in Hosts : HostGoesUp(h) \/ HostGoesDown(h)

Spec == Init /\ [][Next]_vars

(* The ticker ticks, Go runs every goroutine, and a ping ends by its timeout.
   Nothing is assumed of users and hosts. *)
Scheduling ==
    /\ WF_vars(Monitor)
    /\ \A c \in Callers : WF_vars(Finish(c))
    /\ \A c \in Callers, i \in Ids :
          WF_vars(\E p \in pings : /\ p.by = c /\ p.id = i
                                   /\ PingServer(p) \/ UpdateServerStatus(p))

FairSpec == Spec /\ Scheduling

-----------------------------------------------------------------------------
(* Properties. *)

(* A round, or a request, is over only when every entry that was there at its
   start has its answer. *)
EveryEntryAnswered == \A c \in Callers : ~busy[c] => left[c] = {}

Truth(i) == IF table[i].host \in up THEN "online" ELSE "offline"

(* startBackgroundMonitor, handlePingAll: once a round has started after the
   last change, when nobody was still pinging from before it, every answer that
   it has stored is true and stays so, whichever other rounds and requests ping
   the same entries beside it and in whatever order the goroutines store what
   they found. *)
RoundTellsTruth ==
    \A c \in settled \cap {"monitor", "all"} :
        \A i \in Present \ left[c] : table[i].status = Truth(i)

(* When nothing changes any more, the table comes to tell the truth and keeps
   telling it: answers that were on their way when an entry was edited, or a
   host went down, are overtaken by a later round. *)
StatusConverges == <>[](\A i \in Present : table[i].status = Truth(i))
=============================================================================
