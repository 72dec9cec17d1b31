--------------------------- MODULE MonitorsProofs ---------------------------
(***************************************************************************)
(* Proofs about the two goroutines that main starts: the status monitor,   *)
(* for every set of ids and of hosts, and the lifecycle monitor, for every *)
(* number of windows and every limit.                                      *)
(*                                                                         *)
(* MonitorInv ties the goroutines of the status monitor to the answers     *)
(* that are missing: each caller has one goroutine for every id that is    *)
(* left, and no other one.  TypeOK alone is not inductive: a second        *)
(* goroutine for one id would outlive the answer of the first.             *)
(*                                                                         *)
(* RoundInv is what RoundTellsTruth needs beside it: once some round is    *)
(* settled, every goroutine belongs to a settled one, so it pings the host *)
(* of the record as it is now, and what it has found is true.              *)
(***************************************************************************)
EXTENDS StatusMonitor, Lifecycle, TLAPS

(* No two goroutines of a caller ping the same id. *)
OneEach ==
    \A p, q \in pings : p.by = q.by /\ p.id = q.id => p = q

(* An answer that is missing has a goroutine, and a caller that waits. *)
LeftIsPinged ==
    \A c \in Callers : \A i \in left[c] :
        busy[c] /\ \E p \in pings : p.by = c /\ p.id = i

MonitorInv == TypeOK /\ OneEach /\ LeftIsPinged

(* No goroutine is older than the last change. *)
SettledPings == settled # {} => \A p \in pings : p.by \in settled

(* What such a goroutine pings is there, and it reports the truth. *)
PingTrue(p) ==
    /\ p.id \in Present
    /\ p.host = table[p.id].host
    /\ p.state # "dial" => p.state = Truth(p.id)

PingsTrue == \A p \in pings : p.by \in settled => PingTrue(p)

RoundInv == SettledPings /\ PingsTrue /\ RoundTellsTruth

LEMMA MonitorInit == Init => MonitorInv /\ RoundInv
<1>1. Init => MonitorInv
    BY ConstantsAssumption
       DEF Init, MonitorInv, TypeOK, OneEach, LeftIsPinged, Records, Statuses,
           ConstantsAssumption
<1>2. Init => RoundInv
    BY DEF Init, RoundInv, SettledPings, PingsTrue, RoundTellsTruth
<1> QED BY <1>1, <1>2

LEMMA StartKeeps ==
    ASSUME MonitorInv, RoundInv, NEW c \in Callers, NEW ids,
           ids \subseteq Present, c # "one" => ids = Present, Start(c, ids)
    PROVE  MonitorInv' /\ RoundInv'
<1> DEFINE new == {Ping(c, i) : i \in ids}
<1>1. /\ ~busy[c]
      /\ busy' = [busy EXCEPT ![c] = TRUE]
      /\ left' = [left EXCEPT ![c] = ids]
      /\ pings' = pings \cup new
      /\ UNCHANGED <<table, up, changes>>
    BY DEF Start
<1>2. \A p \in pings : p.by # c
    BY <1>1 DEF MonitorInv, TypeOK
<1>3. ids \subseteq Ids /\ \A i \in ids : table[i] \in Records
    BY DEF Present, MonitorInv, TypeOK
<1>4. \A p \in new : /\ p \in Pings /\ p.by = c /\ p.id \in ids /\ p = Ping(c, p.id)
                     /\ p.host = table[p.id].host /\ p.state = "dial"
    BY <1>3 DEF Ping, Pings, Records
<1>5. \A i \in ids : Ping(c, i) \in new /\ Ping(c, i).by = c /\ Ping(c, i).id = i
    BY DEF Ping
<1> HIDE DEF new
<1>6. settled' = IF \A p \in pings : p.by \in settled THEN settled \cup {c} ELSE settled
    BY DEF Start, Settle
<1>7. settled' \subseteq Callers
    BY <1>6 DEF MonitorInv, TypeOK
<1>8. TypeOK'
    BY <1>1, <1>2, <1>3, <1>4, <1>7 DEF MonitorInv, TypeOK, Pings
<1>9. OneEach'
    BY <1>1, <1>2, <1>4 DEF MonitorInv, OneEach
<1>10. LeftIsPinged'
    BY <1>1, <1>5 DEF MonitorInv, TypeOK, LeftIsPinged
<1>11. SettledPings'
  <2>1. CASE \A p \in pings : p.by \in settled
      BY <1>1, <1>4, <1>6, <2>1 DEF SettledPings
  <2>2. CASE ~\A p \in pings : p.by \in settled
      BY <1>6, <2>2 DEF RoundInv, SettledPings
  <2> QED BY <2>1, <2>2
<1>12. PingsTrue'
  <2> SUFFICES ASSUME NEW p \in pings', p.by \in settled' PROVE PingTrue(p)'
      BY DEF PingsTrue
  <2>1. CASE p \in new
      BY <1>1, <1>4, <2>1 DEF PingTrue, Present
  <2>2. CASE p \in pings
    <3>1. p.by \in settled
        BY <1>2, <1>6, <2>2
    <3>2. PingTrue(p)
        BY <2>2, <3>1 DEF RoundInv, PingsTrue
    <3> QED BY <1>1, <3>2 DEF PingTrue, Present, Truth
  <2> QED BY <1>1, <2>1, <2>2
<1>13. RoundTellsTruth'
  <2> SUFFICES ASSUME NEW d \in settled' \cap {"monitor", "all"},
                      NEW i \in Present \ left'[d]
               PROVE  table[i].status = Truth(i)
      BY <1>1 DEF RoundTellsTruth, Present, Truth
  <2>1. d # c
      BY <1>1 DEF MonitorInv, TypeOK, Callers
  <2>2. d \in settled /\ left'[d] = left[d]
      BY <1>1, <1>6, <2>1 DEF MonitorInv, TypeOK
  <2> QED BY <2>2 DEF RoundInv, RoundTellsTruth
<1> QED BY <1>8, <1>9, <1>10, <1>11, <1>12, <1>13 DEF MonitorInv, RoundInv

LEMMA PingServerKeeps ==
    ASSUME MonitorInv, RoundInv, NEW p \in pings, PingServer(p)
    PROVE  MonitorInv' /\ RoundInv'
<1> DEFINE new == [p EXCEPT !.state = IF p.host \in up THEN "online" ELSE "offline"]
<1>1. /\ pings' = (pings \ {p}) \cup {new}
      /\ UNCHANGED <<table, up, callVars, changes, settled>>
    BY DEF PingServer
<1>2. /\ new \in Pings /\ new.by = p.by /\ new.id = p.id /\ new.host = p.host
      /\ new.state = IF p.host \in up THEN "online" ELSE "offline"
    BY DEF MonitorInv, TypeOK, Pings
<1> HIDE DEF new
<1>3. TypeOK'
    BY <1>1, <1>2 DEF MonitorInv, TypeOK, callVars
<1>4. OneEach'
    BY <1>1, <1>2 DEF MonitorInv, OneEach
<1>5. LeftIsPinged'
    BY <1>1, <1>2 DEF MonitorInv, LeftIsPinged, callVars
<1>6. SettledPings'
    BY <1>1, <1>2 DEF RoundInv, SettledPings
<1>7. PingsTrue'
  <2> SUFFICES ASSUME NEW q \in pings', q.by \in settled PROVE PingTrue(q)'
      BY <1>1 DEF PingsTrue
  <2>1. CASE q = new
    <3>1. PingTrue(p)
        BY <1>2, <2>1 DEF RoundInv, PingsTrue
    <3> QED BY <1>1, <1>2, <2>1, <3>1 DEF PingTrue, Present, Truth
  <2>2. CASE q \in pings
    <3>1. PingTrue(q)
        BY <2>2 DEF RoundInv, PingsTrue
    <3> QED BY <1>1, <3>1 DEF PingTrue, Present, Truth
  <2> QED BY <1>1, <2>1, <2>2
<1>8. RoundTellsTruth'
    BY <1>1 DEF RoundInv, RoundTellsTruth, Present, Truth, callVars
<1> QED BY <1>3, <1>4, <1>5, <1>6, <1>7, <1>8 DEF MonitorInv, RoundInv

LEMMA UpdateKeeps ==
    ASSUME MonitorInv, RoundInv, NEW p \in pings, UpdateServerStatus(p)
    PROVE  MonitorInv' /\ RoundInv'
<1>1. /\ p.state # "dial"
      /\ pings' = pings \ {p}
      /\ left' = [left EXCEPT ![p.by] = @ \ {p.id}]
      /\ UNCHANGED <<up, busy, changes, settled>>
      /\ table' = IF p.id \in Present
                  THEN [table EXCEPT ![p.id].status = p.state] ELSE table
    BY DEF UpdateServerStatus, Answer
<1>2. /\ p.by \in Callers /\ p.id \in Ids /\ p.state \in {"online", "offline"}
    BY <1>1 DEF MonitorInv, TypeOK, Pings
(* The record changes in its status only, and only if it is there. *)
<1>3. /\ table' \in [Ids -> Records \cup {None}]
      /\ \A i \in Ids : i # p.id => table'[i] = table[i]
      /\ p.id \notin Present => table'[p.id] = table[p.id]
      /\ p.id \in Present => /\ table'[p.id] \in Records
                             /\ table'[p.id].host = table[p.id].host
                             /\ table'[p.id].status = p.state
  <2>1. CASE p.id \in Present
    <3>1. table[p.id] \in Records
        BY <2>1, <1>2 DEF Present, MonitorInv, TypeOK
    <3>2. PICK r : r = [table[p.id] EXCEPT !.status = p.state]
        OBVIOUS
    <3>3. r \in Records /\ r.host = table[p.id].host /\ r.status = p.state
        BY <3>1, <3>2, <1>2 DEF Records, Statuses
    <3>4. table' = [table EXCEPT ![p.id] = r]
        BY <1>1, <2>1, <3>2 DEF MonitorInv, TypeOK
    <3> QED BY <1>2, <2>1, <3>3, <3>4 DEF MonitorInv, TypeOK
  <2>2. CASE p.id \notin Present
      BY <1>1, <2>2 DEF MonitorInv, TypeOK
  <2> QED BY <2>1, <2>2
<1>4. \A q \in pings' : busy'[q.by] /\ q.id \in left'[q.by]
    BY <1>1, <1>2 DEF MonitorInv, TypeOK, OneEach, Pings
<1>5. TypeOK'
    BY <1>1, <1>2, <1>3, <1>4 DEF MonitorInv, TypeOK
<1>6. OneEach'
    BY <1>1 DEF MonitorInv, OneEach
<1>7. LeftIsPinged'
    BY <1>1, <1>2 DEF MonitorInv, TypeOK, LeftIsPinged
<1>8. Present' = Present
    BY <1>3, ConstantsAssumption DEF Present, ConstantsAssumption
<1>9. \A i \in Present : Truth(i)' = Truth(i) /\ table'[i].host = table[i].host
    BY <1>1, <1>3 DEF Truth, Present
<1>10. SettledPings'
    BY <1>1 DEF RoundInv, SettledPings
<1>11. PingsTrue'
  <2> SUFFICES ASSUME NEW q \in pings', q.by \in settled PROVE PingTrue(q)'
      BY <1>1 DEF PingsTrue
  <2>1. PingTrue(q)
      BY <1>1 DEF RoundInv, PingsTrue
  <2> QED BY <1>8, <1>9, <2>1 DEF PingTrue
<1>12. RoundTellsTruth'
  <2> SUFFICES ASSUME NEW c \in settled \cap {"monitor", "all"},
                      NEW i \in Present \ left'[c]
               PROVE  table'[i].status = Truth(i)
      BY <1>1, <1>8, <1>9 DEF RoundTellsTruth
  <2>1. CASE i = p.id
    <3>1. PingTrue(p)
        BY DEF RoundInv, SettledPings, PingsTrue
    <3> QED BY <1>1, <1>3, <2>1, <3>1 DEF PingTrue
  <2>2. CASE i # p.id
    <3>1. i \in Ids /\ i \in Present \ left[c]
        BY <1>1, <2>2 DEF MonitorInv, TypeOK, Present
    <3> QED BY <1>3, <2>2, <3>1 DEF RoundInv, RoundTellsTruth
  <2> QED BY <2>1, <2>2
<1> QED BY <1>5, <1>6, <1>7, <1>10, <1>11, <1>12 DEF MonitorInv, RoundInv

LEMMA FinishKeeps ==
    ASSUME MonitorInv, RoundInv, NEW c \in Callers, Finish(c)
    PROVE  MonitorInv' /\ RoundInv'
<1>1. /\ \A p \in pings : p.by # c
      /\ busy' = [busy EXCEPT ![c] = FALSE]
      /\ UNCHANGED <<table, up, left, pings, changes, settled>>
    BY DEF Finish
<1>2. TypeOK' /\ OneEach'
    BY <1>1 DEF MonitorInv, TypeOK, OneEach, Pings
<1>3. LeftIsPinged'
    BY <1>1 DEF MonitorInv, TypeOK, LeftIsPinged
<1>4. SettledPings' /\ RoundTellsTruth'
    BY <1>1 DEF RoundInv, SettledPings, RoundTellsTruth, Present, Truth
<1>5. PingsTrue'
    BY <1>1 DEF RoundInv, PingsTrue, PingTrue, Present, Truth
<1> QED BY <1>2, <1>3, <1>4, <1>5 DEF MonitorInv, RoundInv

(* Users and hosts leave the callers and the goroutines alone, and no round is
   settled after them. *)
LEMMA ChangeKeeps ==
    ASSUME MonitorInv, Change, table' \in [Ids -> Records \cup {None}],
           up' \subseteq Hosts
    PROVE  MonitorInv' /\ RoundInv'
<1>1. changes' \in 0..MaxChanges
    BY ConstantsAssumption DEF Change, MonitorInv, TypeOK, ConstantsAssumption
<1>2. TypeOK'
    BY <1>1 DEF Change, MonitorInv, TypeOK, callVars
<1>3. OneEach' /\ LeftIsPinged'
    BY DEF Change, MonitorInv, OneEach, LeftIsPinged, callVars
<1>4. RoundInv'
    BY DEF Change, RoundInv, SettledPings, PingsTrue, RoundTellsTruth
<1> QED BY <1>2, <1>3, <1>4 DEF MonitorInv

LEMMA MonitorNext ==
    ASSUME MonitorInv, RoundInv, [Next]_vars
    PROVE  MonitorInv' /\ RoundInv'
<1>1. CASE Monitor \/ HandlePingAll
    BY <1>1, StartKeeps DEF Monitor, HandlePingAll, Callers
<1>2. ASSUME NEW i \in Ids, HandlePingServer(i) PROVE MonitorInv' /\ RoundInv'
    BY <1>2, StartKeeps DEF HandlePingServer, Callers
<1>3. ASSUME NEW c \in Callers, Finish(c) PROVE MonitorInv' /\ RoundInv'
    BY <1>3, FinishKeeps
<1>4. ASSUME NEW p \in pings, PingServer(p) \/ UpdateServerStatus(p)
      PROVE  MonitorInv' /\ RoundInv'
    BY <1>4, PingServerKeeps, UpdateKeeps
<1>5. ASSUME NEW i \in Ids, NEW h \in Hosts, SaveServer(i, h)
      PROVE  MonitorInv' /\ RoundInv'
  <2>1. [host |-> h, status |-> "unknown"] \in Records
      BY DEF Records, Statuses
  <2> QED BY <1>5, <2>1, ChangeKeeps DEF SaveServer, MonitorInv, TypeOK
<1>6. ASSUME NEW i \in Ids, DeleteServer(i) PROVE MonitorInv' /\ RoundInv'
    BY <1>6, ChangeKeeps DEF DeleteServer, MonitorInv, TypeOK
<1>7. ASSUME NEW h \in Hosts, HostGoesUp(h) \/ HostGoesDown(h)
      PROVE  MonitorInv' /\ RoundInv'
    BY <1>7, ChangeKeeps DEF HostGoesUp, HostGoesDown, MonitorInv, TypeOK
<1>8. CASE UNCHANGED vars
  <2>1. MonitorInv'
      BY <1>8 DEF vars, callVars, MonitorInv, TypeOK, OneEach, LeftIsPinged
  <2>2. RoundInv'
      BY <1>8 DEF vars, callVars, RoundInv, SettledPings, PingsTrue, PingTrue,
                  RoundTellsTruth, Present, Truth
  <2> QED BY <2>1, <2>2
<1> QED BY <1>1, <1>2, <1>3, <1>4, <1>5, <1>6, <1>7, <1>8 DEF Next

-----------------------------------------------------------------------------
LEMMA MonitorAlways == Spec => [](MonitorInv /\ RoundInv)
<1>1. MonitorInv /\ RoundInv /\ [Next]_vars => MonitorInv' /\ RoundInv'
    BY MonitorNext
<1> QED BY <1>1, MonitorInit, PTL DEF Spec

(* Every goroutine belongs to a caller that waits for it and lacks its answer,
   and the table holds records only. *)
THEOREM TypeCorrect == Spec => []TypeOK
<1>1. MonitorInv => TypeOK
    BY DEF MonitorInv
<1> QED BY <1>1, MonitorAlways, PTL

(* A round, or a request, is over only when all its answers are stored. *)
THEOREM Answered == Spec => []EveryEntryAnswered
<1>1. MonitorInv => EveryEntryAnswered
    BY DEF MonitorInv, TypeOK, LeftIsPinged, EveryEntryAnswered
<1> QED BY <1>1, MonitorAlways, PTL

(* What a round has stored is true, if it started after the last change and
   after all that was pinged before it, whatever pings beside it. *)
THEOREM TellsTruth == Spec => []RoundTellsTruth
<1>1. RoundInv => RoundTellsTruth
    BY DEF RoundInv
<1> QED BY <1>1, MonitorAlways, PTL

-----------------------------------------------------------------------------
(* The lifecycle monitor. *)

(* The types of Lifecycle: the age stays within one unit of the limit. *)
THEOREM LifecycleTypes == LCSpec => []LCTypeOK
<1>0. Limit \in Nat \ {0} /\ MaxOpening \in Nat
    BY LCAssumption
<1>1. LCInit => LCTypeOK
  <2>1. LCInit =>
            /\ page \in [Windows -> Alive \cup {"none", "error"}]
            /\ beat \in [Windows -> {"sent", "due", "new"}]
      BY DEF LCInit
  <2>2. LCInit =>
            /\ age \in Nat /\ age <= Limit + 1
            /\ opening \in Nat /\ opening <= MaxOpening
      BY <1>0 DEF LCInit
  <2> QED BY <2>1, <2>2 DEF LCInit, LCTypeOK
<1>2. LCTypeOK /\ [LCNext]_LCVars => LCTypeOK'
  <2> SUFFICES ASSUME LCTypeOK, [LCNext]_LCVars PROVE LCTypeOK'
      OBVIOUS
  <2> USE <1>0 DEF LCTypeOK, Alive, Load, Shutdown
  <2>1. CASE LaunchServer \/ LaunchWindow
    <3>1. /\ age' \in Nat /\ age' <= Limit + 1
          /\ opening' \in Nat /\ opening' <= MaxOpening
        BY <2>1 DEF LaunchServer, LaunchWindow
    <3>2. UNCHANGED <<page, beat>>
        BY <2>1 DEF LaunchServer, LaunchWindow
    <3>3. /\ server' \in {"down", "up", "exiting"}
          /\ connected' \in BOOLEAN /\ polled' \in BOOLEAN
        BY <2>1 DEF LaunchServer, LaunchWindow
    <3> QED BY <3>1, <3>2, <3>3
  <2>2. CASE ShutdownExits \/ MonitorPolls \/ MonitorExits
      BY <2>2 DEF ShutdownExits, MonitorPolls, MonitorExits
  <2>3. CASE Tick
    <3>1. beat' \in [Windows -> {"sent", "due", "new"}]
        BY <2>3 DEF Tick
    <3>2. age' \in Nat /\ age' <= Limit + 1
        BY <2>3 DEF Tick
    <3> QED BY <2>3, <3>1, <3>2 DEF Tick
  <2>4. ASSUME NEW w \in Windows, Heartbeat(w) PROVE LCTypeOK'
    <3>1. beat' \in [Windows -> {"sent", "due", "new"}]
        BY <2>4 DEF Heartbeat
    <3>2. CASE Listening
      <4>1. age' = 0 /\ connected' = TRUE /\ UNCHANGED <<server, polled, opening, page>>
          BY <2>4, <3>2 DEF Heartbeat
      <4> QED BY <3>1, <4>1
    <3>3. CASE ~Listening
      <4>1. UNCHANGED <<age, connected, server, polled, opening, page>>
          BY <2>4, <3>3 DEF Heartbeat
      <4> QED BY <3>1, <4>1
    <3> QED BY <3>2, <3>3
  <2>5. ASSUME NEW w \in Windows, WindowOpens(w) \/ Browse(w) PROVE LCTypeOK'
    <3>1. /\ page' \in [Windows -> Alive \cup {"none", "error"}]
          /\ beat' \in [Windows -> {"sent", "due", "new"}]
        BY <2>5 DEF WindowOpens, Browse
    <3>2. opening' \in Nat /\ opening' <= MaxOpening
        BY <2>5 DEF WindowOpens, Browse
    <3> QED BY <2>5, <3>1, <3>2 DEF WindowOpens, Browse
  <2>6. ASSUME NEW w \in Windows, Close(w) \/ Vanish(w) PROVE LCTypeOK'
      BY <2>6 DEF Close, Vanish
  <2>7. ASSUME NEW w \in Windows, Reload(w) \/ Export(w) PROVE LCTypeOK'
      BY <2>7 DEF Reload, Export
  <2>8. ASSUME NEW w \in Windows,
               Hide(w) \/ Show(w) \/ OpenDialog(w) \/ CloseDialog(w)
        PROVE  LCTypeOK'
      BY <2>8 DEF Hide, Show, OpenDialog, CloseDialog
  <2>9. CASE UNCHANGED LCVars
      BY <2>9 DEF LCVars
  <2> QED BY <2>1, <2>2, <2>3, <2>4, <2>5, <2>6, <2>7, <2>8, <2>9 DEF LCNext, Window
<1> QED BY <1>1, <1>2, PTL DEF LCSpec

-----------------------------------------------------------------------------
(* A visible page whose heartbeat of this unit was sent has just set the age to
   zero; one that still owes it sent one in the unit before. *)
BeatInv ==
    Listening => \A w \in Windows : page[w] = "visible" =>
        /\ beat[w] = "sent" => age = 0
        /\ beat[w] = "due" => age <= 1

LEMMA BeatNext ==
    ASSUME LCTypeOK, LCTypeOK', BeatInv, [LCNext]_LCVars
    PROVE  BeatInv'
<1> USE LCAssumption DEF LCTypeOK, BeatInv, Listening, Alive, Load, Shutdown
<1>1. CASE LaunchServer \/ LaunchWindow
    BY <1>1 DEF LaunchServer, LaunchWindow
<1>2. CASE ShutdownExits \/ MonitorPolls \/ MonitorExits
    BY <1>2 DEF ShutdownExits, MonitorPolls, MonitorExits
<1>3. CASE Tick
    BY <1>3 DEF Tick
<1>4. ASSUME NEW w \in Windows, Heartbeat(w) PROVE BeatInv'
    BY <1>4 DEF Heartbeat
<1>5. ASSUME NEW w \in Windows, WindowOpens(w) \/ Browse(w) PROVE BeatInv'
    BY <1>5 DEF WindowOpens, Browse
<1>6. ASSUME NEW w \in Windows, Close(w) \/ Vanish(w) PROVE BeatInv'
    BY <1>6 DEF Close, Vanish
<1>7. ASSUME NEW w \in Windows, Reload(w) \/ Export(w) PROVE BeatInv'
    BY <1>7 DEF Reload, Export
<1>8. ASSUME NEW w \in Windows,
             Hide(w) \/ Show(w) \/ OpenDialog(w) \/ CloseDialog(w)
      PROVE  BeatInv'
    BY <1>8 DEF Hide, Show, OpenDialog, CloseDialog
<1>9. CASE UNCHANGED LCVars
    BY <1>9 DEF LCVars
<1> QED BY <1>1, <1>2, <1>3, <1>4, <1>5, <1>6, <1>7, <1>8, <1>9 DEF LCNext, Window

(* The monitor never ends the process under a window that was visible for a
   whole unit: a limit of one unit would do, the code's is five. *)
THEOREM SparesVisible == LCSpec => MonitorSparesVisible
<1> DEFINE Step == MonitorExits => \A w \in Windows : page[w] = "visible" => beat[w] = "new"
<1>1. LCInit => BeatInv
    BY DEF LCInit, BeatInv, Listening
<1>2. LCTypeOK /\ LCTypeOK' /\ BeatInv /\ [LCNext]_LCVars => BeatInv'
    BY BeatNext
<1>3. LCTypeOK /\ BeatInv => Step
    BY LCAssumption DEF LCTypeOK, BeatInv, MonitorExits
<1>4. LCSpec => [][Step]_LCVars
    BY <1>1, <1>2, <1>3, LifecycleTypes, PTL DEF LCSpec
<1> QED BY <1>4 DEF MonitorSparesVisible
=============================================================================
