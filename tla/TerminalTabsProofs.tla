------------------------- MODULE TerminalTabsProofs -------------------------
(***************************************************************************)
(* Proofs about TerminalTabs, for every number of entries, WebSockets,     *)
(* pastes and blocks.                                                      *)
(*                                                                         *)
(* TabInv says what holds of the tabs between two handlers; it needs that  *)
(* a tab's WebSocket has been made, so that a new one is nobody's.         *)
(* PasteInv says how far each paste has come: as long as its WebSocket is  *)
(* open, every block before the next one has been sent, and a WebSocket    *)
(* that is not open any more never opens again.                            *)
(***************************************************************************)
EXTENDS TerminalTabs, SequenceTheorems, TLAPS

TabTypes ==
    /\ listed \subseteq Servers
    /\ socket \in
           [Sockets -> {"unused", "connecting", "open", "closing", "closed"}]
    /\ tab \in [Servers -> 0..MaxSockets]
    /\ active \in Servers \cup {NoServer}
    /\ shown \subseteq Servers
    /\ title \in Servers \cup {NoServer}
    /\ bar \in [marked : Servers \cup {NoServer},
                dots : [Servers -> {"none", "online", "offline"}]]

TabsAreMade == \A s \in Servers : tab[s] # 0 => socket[tab[s]] # "unused"

TabInv == TabTypes /\ TabsAreMade /\ EveryConnectionHasItsTab /\ BarTellsTruth

LEMMA TabInit == Init => TabInv
  BY ConstantsAssumption
     DEF Init, TabInv, TabTypes, TabsAreMade, EveryConnectionHasItsTab,
         BarTellsTruth, Tabs, NoDots, ConstantsAssumption, Sockets

(* The bar after it is drawn, whatever the handler has done before. *)
LEMMA BarDrawn ==
    ASSUME TabTypes, UpdateSSHTabsBar, active' \in Servers \cup {NoServer}
    PROVE  /\ bar' \in [marked : Servers \cup {NoServer},
                        dots : [Servers -> {"none", "online", "offline"}]]
           /\ bar'.marked = active'
           /\ \A s \in Servers :
                  /\ bar'.dots[s] = "none" <=> tab'[s] = 0
                  /\ bar'.dots[s] = "offline" => socket'[tab'[s]] # "open"
                  /\ bar'.dots[s] = "online" => socket'[tab'[s]] = "open"
<1>1. \A s \in Servers : bar'.dots[s] = IF tab'[s] = 0 THEN "none" ELSE Dot(tab'[s])
    BY DEF UpdateSSHTabsBar
<1> QED BY <1>1 DEF UpdateSSHTabsBar, Dot

(* A handler that ends by drawing the bar keeps TabInv if the tabs it leaves
   are in order. *)
LEMMA DrawnKeeps ==
    ASSUME TabInv, UpdateSSHTabsBar,
           listed' \subseteq Servers,
           socket' \in
               [Sockets -> {"unused", "connecting", "open", "closing", "closed"}],
           tab' \in [Servers -> 0..MaxSockets],
           active' \in Servers \cup {NoServer},
           active' = NoServer <=> Tabs(tab') = {},
           active' # NoServer => tab'[active'] # 0,
           shown' = {active'} \ {NoServer},
           title' = active',
           TabsAreMade', EveryConnectionHasItsTab'
    PROVE  TabInv'
<1>1. TabTypes /\ shown' \subseteq Servers
    BY DEF TabInv
<1>2. TabTypes'
    BY <1>1, BarDrawn DEF TabTypes
<1>3. BarTellsTruth'
    BY <1>1, BarDrawn DEF BarTellsTruth
<1> QED BY <1>2, <1>3 DEF TabInv

LEMMA SwitchKeeps ==
    ASSUME TabInv, NEW s \in Servers, SwitchSSHTab(s)
    PROVE  TabInv'
<1>1. /\ tab[s] # 0
      /\ UNCHANGED <<socket, tab, listed>>
      /\ active' = s /\ shown' = {s} /\ title' = s
      /\ UpdateSSHTabsBar
    BY DEF SwitchSSHTab, Activate
<1>2. TabsAreMade' /\ EveryConnectionHasItsTab'
    BY <1>1 DEF TabInv, TabsAreMade, EveryConnectionHasItsTab
<1> QED BY <1>1, <1>2, DrawnKeeps, ConstantsAssumption
        DEF TabInv, TabTypes, Tabs, ConstantsAssumption

(* A new WebSocket is nobody's, and a tab that had another one has closed
   it. *)
LEMMA NewTabKeeps ==
    ASSUME TabInv, NEW s \in Servers, NEW w \in Sockets, NEW so,
           socket[w] = "unused",
           so \in
               [Sockets -> {"unused", "connecting", "open", "closing", "closed"}],
           \A v \in Sockets : so[v] = "unused" <=> socket[v] = "unused",
           \A v \in Sockets :
               so[v] \in {"connecting", "open"} =>
                   socket[v] \in {"connecting", "open"} /\ v # tab[s],
           socket' = NewSocket(so, w),
           tab' = [tab EXCEPT ![s] = w],
           listed' = listed, Activate(s), UpdateSSHTabsBar
    PROVE  TabInv'
<1>1. /\ active' = s /\ shown' = {s} /\ title' = s
      /\ s # NoServer /\ w # 0
    BY ConstantsAssumption DEF Activate, ConstantsAssumption, Sockets
<1>2. /\ socket' = [so EXCEPT ![w] = "connecting"]
      /\ tab' \in [Servers -> 0..MaxSockets]
      /\ socket' \in
             [Sockets -> {"unused", "connecting", "open", "closing", "closed"}]
    BY DEF NewSocket, TabInv, TabTypes, Sockets
<1>3. \A r \in Servers : tab[r] # w
    BY DEF TabInv, TabsAreMade, TabTypes, Sockets
<1>4. TabsAreMade'
  <2> SUFFICES ASSUME NEW r \in Servers, tab'[r] # 0
               PROVE  socket'[tab'[r]] # "unused"
      BY DEF TabsAreMade
  <2>1. CASE r = s
      BY <2>1, <1>2 DEF TabInv, TabTypes
  <2>2. CASE r # s
      BY <2>2, <1>2, <1>3 DEF TabInv, TabTypes, TabsAreMade, Sockets
  <2> QED BY <2>1, <2>2
<1>5. EveryConnectionHasItsTab'
  <2> SUFFICES ASSUME NEW v \in Sockets
               PROVE  /\ socket'[v] \in {"connecting", "open"} =>
                             \E r \in Servers : tab'[r] = v
                      /\ \A r, q \in Servers : tab'[r] = v /\ tab'[q] = v => r = q
      BY DEF EveryConnectionHasItsTab
  <2>1. CASE v = w
      BY <2>1, <1>2, <1>3 DEF TabInv, TabTypes
  <2>2. CASE v # w
    <3>1. socket'[v] = so[v] /\ \A r \in Servers : tab'[r] = v <=> tab[r] = v /\ r # s
        BY <2>2, <1>2 DEF TabInv, TabTypes
    <3> QED BY <3>1 DEF TabInv, EveryConnectionHasItsTab
  <2> QED BY <2>1, <2>2
<1>6. Tabs(tab') # {} /\ tab'[s] # 0
    BY <1>1, <1>2 DEF Tabs, TabInv, TabTypes
<1>7. /\ active' \in Servers \cup {NoServer} /\ active' # NoServer
      /\ shown' = {active'} \ {NoServer}
      /\ title' = active' /\ listed' \subseteq Servers
    BY <1>1 DEF TabInv, TabTypes
<1> QED BY <1>1, <1>2, <1>4, <1>5, <1>6, <1>7, DrawnKeeps

LEMMA OpenKeeps ==
    ASSUME TabInv, NEW s \in Servers, OpenNewSSHConnection(s)
    PROVE  TabInv'
<1>1. PICK w \in Sockets : /\ socket[w] = "unused"
                           /\ socket' = NewSocket(socket, w)
                           /\ tab' = [tab EXCEPT ![s] = w]
    BY DEF OpenNewSSHConnection, Fresh
<1>2. tab[s] = 0 /\ listed' = listed /\ Activate(s) /\ UpdateSSHTabsBar
    BY DEF OpenNewSSHConnection
<1>3. \A v \in Sockets : v # tab[s]
    BY <1>2 DEF Sockets
<1> QED BY <1>1, <1>2, <1>3, NewTabKeeps DEF TabInv, TabTypes

LEMMA SocketClosed ==
    ASSUME TabInv, NEW w \in Sockets, socket[w] # "unused"
    PROVE  LET so == CloseSocket(socket, w) IN
           /\ so \in
                  [Sockets -> {"unused", "connecting", "open", "closing", "closed"}]
           /\ \A v \in Sockets : so[v] = "unused" <=> socket[v] = "unused"
           /\ \A v \in Sockets : v # w => so[v] = socket[v]
           /\ so[w] \in {"closing", "closed"}
<1>1. CloseSocket(socket, w) =
          [v \in Sockets |-> IF v # w THEN socket[v]
                             ELSE IF socket[w] = "closed" THEN "closed" ELSE "closing"]
    BY DEF CloseSocket, TabInv, TabTypes
<1> QED BY <1>1 DEF TabInv, TabTypes

LEMMA CloseKeeps ==
    ASSUME TabInv, NEW s \in Servers, CloseSSHSession(s)
    PROVE  TabInv'
<1>1. /\ tab[s] # 0 /\ tab[s] \in Sockets /\ socket[tab[s]] # "unused"
      /\ socket' = CloseSocket(socket, tab[s])
      /\ tab' = [tab EXCEPT ![s] = 0]
      /\ listed' = listed /\ UpdateSSHTabsBar
    BY DEF CloseSSHSession, TabInv, TabTypes, TabsAreMade, Sockets
<1>2. /\ tab' \in [Servers -> 0..MaxSockets]
      /\ \A r \in Servers : tab'[r] = IF r = s THEN 0 ELSE tab[r]
    BY <1>1, ConstantsAssumption DEF TabInv, TabTypes, ConstantsAssumption
<1>3. TabsAreMade' /\ EveryConnectionHasItsTab'
  <2>1. TabsAreMade'
      BY <1>1, <1>2, SocketClosed DEF TabInv, TabTypes, TabsAreMade, Sockets
  <2>2. \A r \in Servers, v \in Sockets : tab'[r] = v <=> tab[r] = v /\ r # s
      BY <1>2 DEF Sockets
  <2>3. \A v \in Sockets :
            socket'[v] \in {"connecting", "open"} => v # tab[s] /\ socket'[v] = socket[v]
      BY <1>1, SocketClosed
  <2>4. EveryConnectionHasItsTab'
      BY <2>2, <2>3 DEF TabInv, EveryConnectionHasItsTab
  <2> QED BY <2>1, <2>4
<1>4. /\ active' \in Servers \cup {NoServer}
      /\ active' = NoServer <=> Tabs(tab') = {}
      /\ active' # NoServer => tab'[active'] # 0
      /\ shown' = {active'} \ {NoServer}
      /\ title' = active'
  <2>1. CASE active # s
    <3>1. shown' = shown \ {s} /\ active' = active /\ title' = title
        BY <2>1 DEF CloseSSHSession
    <3>2. active # NoServer
        BY <1>1 DEF TabInv, BarTellsTruth, Tabs
    <3> QED BY <3>1, <3>2, <2>1, <1>2 DEF TabInv, TabTypes, BarTellsTruth, Tabs
  <2>2. CASE active = s /\ Tabs(tab') = {}
    <3>1. NoneActive
        BY <2>2 DEF CloseSSHSession
    <3> QED BY <3>1, <2>2 DEF NoneActive
  <2>3. CASE active = s /\ Tabs(tab') # {}
    <3>1. PICK r \in Tabs(tab') : Activate(r)
        BY <2>3 DEF CloseSSHSession
    <3> QED BY <3>1, ConstantsAssumption DEF Activate, Tabs, ConstantsAssumption
  <2> QED BY <2>1, <2>2, <2>3
<1> QED BY <1>1, <1>2, <1>3, <1>4, SocketClosed, DrawnKeeps DEF TabInv, TabTypes

LEMMA ReconnectKeeps ==
    ASSUME TabInv, NEW s \in Servers, ReconnectActiveSSH(s)
    PROVE  TabInv'
<1>1. CASE s \notin listed
    BY <1>1, CloseKeeps DEF ReconnectActiveSSH
<1>2. CASE s \in listed
  <2>1. PICK w \in Sockets :
            /\ socket[w] = "unused"
            /\ socket' = NewSocket(CloseSocket(socket, tab[s]), w)
            /\ tab' = [tab EXCEPT ![s] = w]
      BY <1>2 DEF ReconnectActiveSSH, Fresh
  <2>2. listed' = listed /\ Activate(s) /\ UpdateSSHTabsBar
      BY <1>2 DEF ReconnectActiveSSH
  <2>3. tab[s] \in Sockets /\ socket[tab[s]] # "unused"
      BY ConstantsAssumption
         DEF ReconnectActiveSSH, TabInv, TabTypes, TabsAreMade, BarTellsTruth,
             ConstantsAssumption, Sockets
  <2> DEFINE so == CloseSocket(socket, tab[s])
  <2>4. /\ so \in
               [Sockets -> {"unused", "connecting", "open", "closing", "closed"}]
        /\ \A v \in Sockets : so[v] = "unused" <=> socket[v] = "unused"
        /\ \A v \in Sockets : v # tab[s] => so[v] = socket[v]
        /\ so[tab[s]] \in {"closing", "closed"}
      BY <2>3, SocketClosed
  <2>5. socket' = NewSocket(so, w)
      BY <2>1
  <2> HIDE DEF so
  <2>6. \A v \in Sockets :
            so[v] \in {"connecting", "open"} =>
                socket[v] \in {"connecting", "open"} /\ v # tab[s]
      BY <2>4
  <2> QED BY <2>1, <2>2, <2>4, <2>5, <2>6, NewTabKeeps
<1> QED BY <1>1, <1>2

(* What happens to a WebSocket that has been made. *)
LEMMA SocketEventKeeps ==
    ASSUME TabInv, NEW w \in Sockets, OnOpen(w) \/ PeerCloses(w) \/ OnClose(w)
    PROVE  TabInv'
<1>1. UNCHANGED <<listed, tab, active, shown, title>>
    BY DEF OnOpen, PeerCloses, OnClose
<1>2. PICK x \in {"open", "closing", "closed"} :
          /\ socket' = [socket EXCEPT ![w] = x]
          /\ x = "open" => socket[w] = "connecting"
          /\ socket[w] \in {"connecting", "open", "closing"}
    BY DEF OnOpen, PeerCloses, OnClose
<1>3. /\ socket' \in
             [Sockets -> {"unused", "connecting", "open", "closing", "closed"}]
      /\ TabsAreMade' /\ EveryConnectionHasItsTab'
    BY <1>1, <1>2 DEF TabInv, TabTypes, TabsAreMade, EveryConnectionHasItsTab
<1>4. CASE UpdateSSHTabsBar
    BY <1>1, <1>3, <1>4, DrawnKeeps, ConstantsAssumption
       DEF TabInv, TabTypes, BarTellsTruth, Tabs, ConstantsAssumption
<1>5. CASE PeerCloses(w)
  <2>1. /\ socket' = [socket EXCEPT ![w] = "closing"] /\ bar' = bar
        /\ socket[w] = "open"
      BY <1>5 DEF PeerCloses
  <2>2. BarTellsTruth'
      BY <1>1, <2>1, ConstantsAssumption
         DEF TabInv, TabTypes, BarTellsTruth, Tabs, Sockets, ConstantsAssumption
  <2> QED BY <1>1, <1>3, <2>1, <2>2 DEF TabInv, TabTypes
<1> QED BY <1>4, <1>5 DEF OnOpen, OnClose

(* The rest of the steps leaves the tabs alone. *)
LEMMA OthersLeaveTabs ==
    ASSUME TabInv, listed' \subseteq Servers, UNCHANGED tabVars
    PROVE  TabInv'
  BY DEF tabVars, TabInv, TabTypes, TabsAreMade, EveryConnectionHasItsTab,
         BarTellsTruth, Tabs

-----------------------------------------------------------------------------

PasteTypes ==
    /\ paste \in
           [1..MaxPastes ->
               [state : {"unused", "reading", "sending", "done"},
                ws : 0..MaxSockets, blocks : 0..MaxBlocks, next : 1..MaxBlocks + 1]]
    /\ sent \in [Sockets -> Seq(Input)]

(* Where a paste stands, and that its WebSocket has been open. *)
Progress ==
    \A p \in 1..MaxPastes :
        /\ paste[p].state # "unused" =>
               /\ paste[p].ws \in Sockets
               /\ socket[paste[p].ws] \in {"open", "closing", "closed"}
        /\ paste[p].state \in {"unused", "reading"} => paste[p].next = 1
        /\ paste[p].state = "sending" =>
               paste[p].next \in 2..paste[p].blocks

SentBefore ==
    \A p \in 1..MaxPastes, k \in 1..MaxBlocks, w \in Sockets :
        \A i \in 1..Len(sent[w]) :
            sent[w][i] = <<p, k>> =>
                /\ w = paste[p].ws /\ k < paste[p].next
                /\ paste[p].state # "unused"

LastIsSent ==
    \A p \in 1..MaxPastes :
        paste[p].state = "sending" /\ socket[paste[p].ws] = "open" =>
            \E i \in 1..Len(sent[paste[p].ws]) :
                sent[paste[p].ws][i] = <<p, paste[p].next - 1>>

PasteInv ==
    PasteTypes /\ Progress /\ SentBefore /\ LastIsSent /\ PasteStaysTogether

LEMMA PasteInit == Init => PasteInv
  BY ConstantsAssumption, EmptySeq
     DEF Init, PasteInv, PasteTypes, Progress, SentBefore, LastIsSent,
         PasteStaysTogether, ConstantsAssumption

NeverOpensAgain ==
    \A w \in Sockets :
        socket[w] \in {"open", "closing", "closed"} =>
            /\ socket'[w] \in {"open", "closing", "closed"}
            /\ socket'[w] = "open" => socket[w] = "open"

LEMMA TabStepsNeverReopen ==
    ASSUME TabInv, NEW s \in Servers,
           \/ SwitchSSHTab(s) \/ OpenNewSSHConnection(s)
           \/ CloseSSHSession(s) \/ ReconnectActiveSSH(s)
    PROVE  NeverOpensAgain /\ UNCHANGED <<paste, sent>>
<1>1. CASE SwitchSSHTab(s)
    BY <1>1 DEF SwitchSSHTab, NeverOpensAgain
<1>2. CASE OpenNewSSHConnection(s)
    BY <1>2 DEF OpenNewSSHConnection, Fresh, NewSocket, NeverOpensAgain, TabInv, TabTypes
<1>3. ASSUME CloseSSHSession(s) PROVE NeverOpensAgain /\ UNCHANGED <<paste, sent>>
  <2>1. tab[s] \in Sockets /\ socket[tab[s]] # "unused"
      BY <1>3 DEF CloseSSHSession, TabInv, TabTypes, TabsAreMade, Sockets
  <2>2. socket' = CloseSocket(socket, tab[s]) /\ UNCHANGED <<paste, sent>>
      BY <1>3 DEF CloseSSHSession
  <2> QED BY <2>1, <2>2, SocketClosed DEF NeverOpensAgain
<1>4. CASE ReconnectActiveSSH(s) /\ s \in listed
  <2>1. PICK w \in Sockets :
            /\ socket[w] = "unused"
            /\ socket' = NewSocket(CloseSocket(socket, tab[s]), w)
            /\ UNCHANGED <<paste, sent>>
      BY <1>4 DEF ReconnectActiveSSH, Fresh
  <2>2. tab[s] \in Sockets /\ socket[tab[s]] # "unused"
      BY <1>4, ConstantsAssumption
         DEF ReconnectActiveSSH, TabInv, TabTypes, TabsAreMade, BarTellsTruth,
             ConstantsAssumption, Sockets
  <2>3. \A v \in Sockets :
            v # w => socket'[v] = CloseSocket(socket, tab[s])[v]
      BY <2>1, <2>2, SocketClosed DEF NewSocket
  <2> QED BY <2>1, <2>2, <2>3, SocketClosed DEF NeverOpensAgain
<1> QED BY <1>1, <1>2, <1>3, <1>4 DEF ReconnectActiveSSH

LEMMA SocketEventsNeverReopen ==
    ASSUME TabInv, NEW w \in Sockets, OnOpen(w) \/ PeerCloses(w) \/ OnClose(w)
    PROVE  NeverOpensAgain /\ UNCHANGED <<paste, sent>>
  BY DEF OnOpen, PeerCloses, OnClose, NeverOpensAgain, TabInv, TabTypes

LEMMA NothingSent ==
    ASSUME PasteInv, sent' = sent, \A q \in 1..MaxPastes : paste'[q].ws = paste[q].ws
    PROVE  PasteStaysTogether'
<1> SUFFICES ASSUME NEW p \in 1..MaxPastes, NEW k \in 1..MaxBlocks,
                    NEW w \in Sockets, NEW i \in 1..Len(sent[w]),
                    sent[w][i] = <<p, k>>
             PROVE  InPlace(p, k, w, i)'
    BY DEF PasteStaysTogether
<1>1. InPlace(p, k, w, i)
    BY DEF PasteInv, PasteStaysTogether
<1> QED BY <1>1 DEF InPlace

LEMMA OthersLeavePastes ==
    ASSUME PasteInv, NeverOpensAgain, UNCHANGED <<paste, sent>>
    PROVE  PasteInv'
<1>0. paste' = paste /\ sent' = sent
    OBVIOUS
<1>1. PasteTypes'
    BY <1>0 DEF PasteInv, PasteTypes
<1>2. SentBefore'
    BY <1>0 DEF PasteInv, SentBefore
<1>3. PasteStaysTogether'
    BY <1>0, NothingSent
<1>4. Progress'
    BY <1>0 DEF PasteInv, Progress, NeverOpensAgain
<1>5. LastIsSent'
  <2> SUFFICES ASSUME NEW p \in 1..MaxPastes,
                      paste[p].state = "sending", socket'[paste[p].ws] = "open"
               PROVE  \E i \in 1..Len(sent[paste[p].ws]) :
                          sent[paste[p].ws][i] = <<p, paste[p].next - 1>>
      BY <1>0 DEF LastIsSent
  <2>1. socket[paste[p].ws] = "open"
      BY DEF PasteInv, Progress, NeverOpensAgain
  <2> QED BY <2>1 DEF PasteInv, LastIsSent
<1> QED BY <1>1, <1>2, <1>3, <1>4, <1>5 DEF PasteInv

LEMMA KeyKeepsPastes ==
    ASSUME TabInv, PasteInv, TypeKey
    PROVE  PasteInv'
<1> DEFINE a == tab[active]
<1>1. /\ a \in Sockets
      /\ sent' = [sent EXCEPT ![a] = Append(@, Key)]
      /\ UNCHANGED <<paste, socket>>
    BY ConstantsAssumption
       DEF TypeKey, tabVars, TabInv, TabTypes, BarTellsTruth, Sockets
<1> HIDE DEF a
<1>2. sent[a] \in Seq(Input) /\ Key \in Input
    BY <1>1, ConstantsAssumption DEF PasteInv, PasteTypes, Input, Key, ConstantsAssumption
<1>3. /\ \A w \in Sockets \ {a} : sent'[w] = sent[w]
      /\ Len(sent'[a]) = Len(sent[a]) + 1
      /\ \A i \in 1..Len(sent[a]) : sent'[a][i] = sent[a][i]
      /\ sent'[a][Len(sent[a]) + 1] = Key
      /\ sent' \in [Sockets -> Seq(Input)]
    BY <1>1, <1>2 DEF PasteInv, PasteTypes
<1>4. \A w \in Sockets : Len(sent[w]) \in Nat
    BY DEF PasteInv, PasteTypes
<1>5. \A w \in Sockets, p \in 1..MaxPastes, k \in 1..MaxBlocks :
          \A i \in 1..Len(sent'[w]) :
              sent'[w][i] = <<p, k>> => i \in 1..Len(sent[w]) /\ sent[w][i] = <<p, k>>
    BY <1>3, <1>4 DEF Key
<1>6. \A w \in Sockets : \A i \in 1..Len(sent[w]) :
          i \in 1..Len(sent'[w]) /\ sent'[w][i] = sent[w][i]
    BY <1>3, <1>4
<1>7. PasteTypes' /\ Progress'
    BY <1>1, <1>3 DEF PasteInv, PasteTypes, Progress
<1>8. SentBefore'
    BY <1>1, <1>5 DEF PasteInv, SentBefore
<1>9. LastIsSent'
  <2> SUFFICES ASSUME NEW p \in 1..MaxPastes,
                      paste[p].state = "sending", socket[paste[p].ws] = "open"
               PROVE  \E i \in 1..Len(sent'[paste[p].ws]) :
                          sent'[paste[p].ws][i] = <<p, paste[p].next - 1>>
      BY <1>1 DEF LastIsSent
  <2>1. PICK i \in 1..Len(sent[paste[p].ws]) :
            sent[paste[p].ws][i] = <<p, paste[p].next - 1>>
      BY DEF PasteInv, LastIsSent
  <2> QED BY <2>1, <1>6 DEF PasteInv, Progress
<1>10. PasteStaysTogether'
  <2> SUFFICES ASSUME NEW p \in 1..MaxPastes, NEW k \in 1..MaxBlocks,
                      NEW w \in Sockets, NEW i \in 1..Len(sent'[w]),
                      sent'[w][i] = <<p, k>>
               PROVE  InPlace(p, k, w, i)'
      BY DEF PasteStaysTogether
  <2>1. i \in 1..Len(sent[w]) /\ sent[w][i] = <<p, k>>
      BY <1>5
  <2>2. InPlace(p, k, w, i)
      BY <2>1 DEF PasteInv, PasteStaysTogether
  <2>3. \A j \in 1..(i - 1) : j \in 1..Len(sent[w])
      BY <2>1, <1>4
  <2> QED BY <1>1, <1>5, <1>6, <2>2, <2>3 DEF InPlace
<1> QED BY <1>7, <1>8, <1>9, <1>10 DEF PasteInv

(* What a paste sends comes after what was sent before. *)
LEMMA BlockSent ==
    ASSUME PasteInv, NEW p \in 1..MaxPastes, NEW n \in 1..MaxBlocks,
           paste[p].state \in {"reading", "sending"},
           paste[p].next \in 1..n,
           SendBlock(p, paste[p].next, n)
    PROVE  PasteInv'
<1> DEFINE k == paste[p].next
           a == paste[p].ws
<1>1. /\ k \in 1..MaxBlocks /\ k <= n
      /\ a \in Sockets
      /\ socket' = socket
      /\ sent' = IF socket[a] = "open"
                 THEN [sent EXCEPT ![a] = Append(@, <<p, k>>)] ELSE sent
      /\ paste' = [paste EXCEPT ![p].state = IF k = n THEN "done" ELSE "sending",
                                ![p].blocks = n, ![p].next = k + 1]
  <2>1. /\ socket' = socket
        /\ sent' = IF socket[a] = "open"
                   THEN [sent EXCEPT ![a] = Append(@, <<p, k>>)] ELSE sent
        /\ paste' = [paste EXCEPT ![p].state = IF k = n THEN "done" ELSE "sending",
                                  ![p].blocks = n, ![p].next = k + 1]
      BY DEF SendBlock, Target, IsLast, tabVars
  <2>2. k \in 1..MaxBlocks /\ k <= n
      BY ConstantsAssumption DEF ConstantsAssumption
  <2>3. a \in Sockets
      BY DEF PasteInv, Progress
  <2> QED BY <2>1, <2>2, <2>3
<1>2. /\ \A q \in 1..MaxPastes : q # p => paste'[q] = paste[q]
      /\ paste'[p].ws = a /\ paste'[p].next = k + 1 /\ paste'[p].blocks = n
      /\ paste'[p].state = IF k = n THEN "done" ELSE "sending"
    BY <1>1 DEF PasteInv, PasteTypes
<1>3. \A i \in 1..Len(sent[a]) : sent[a][i] # <<p, k>>
    BY <1>1 DEF PasteInv, SentBefore
<1>4. paste[p].state = "sending" => k > 1
    BY DEF PasteInv, Progress
<1>5. paste[p].state = "reading" => k = 1
    BY DEF PasteInv, Progress
<1> HIDE DEF k, a
<1>6. sent[a] \in Seq(Input) /\ <<p, k>> \in Input
    BY <1>1, ConstantsAssumption DEF PasteInv, PasteTypes, Input, ConstantsAssumption
<1>7. \A w \in Sockets : Len(sent[w]) \in Nat
    BY DEF PasteInv, PasteTypes
<1>8. PasteTypes'
  <2>1. paste'[p] \in [state : {"unused", "reading", "sending", "done"},
                       ws : 0..MaxSockets, blocks : 0..MaxBlocks,
                       next : 1..MaxBlocks + 1]
    <3>1. /\ paste[p] \in [state : {"unused", "reading", "sending", "done"},
                           ws : 0..MaxSockets, blocks : 0..MaxBlocks,
                           next : 1..MaxBlocks + 1]
          /\ k + 1 \in 1..MaxBlocks + 1 /\ n \in 0..MaxBlocks
        BY <1>1, ConstantsAssumption DEF PasteInv, PasteTypes, ConstantsAssumption
    <3>2. paste'[p] = [paste[p] EXCEPT !.state = IF k = n THEN "done" ELSE "sending",
                                       !.blocks = n, !.next = k + 1]
        BY <1>1 DEF PasteInv, PasteTypes
    <3> QED BY <3>1, <3>2
  <2>2. paste' \in [1..MaxPastes -> [state : {"unused", "reading", "sending", "done"},
                       ws : 0..MaxSockets, blocks : 0..MaxBlocks,
                       next : 1..MaxBlocks + 1]]
      BY <1>1, <2>1 DEF PasteInv, PasteTypes
  <2>3. sent' \in [Sockets -> Seq(Input)]
      BY <1>1, <1>6 DEF PasteInv, PasteTypes
  <2> QED BY <2>2, <2>3 DEF PasteTypes
<1>9. Progress'
  <2> SUFFICES ASSUME NEW q \in 1..MaxPastes
               PROVE  /\ paste'[q].state # "unused" =>
                             /\ paste'[q].ws \in Sockets
                             /\ socket[paste'[q].ws] \in {"open", "closing", "closed"}
                      /\ paste'[q].state \in {"unused", "reading"} => paste'[q].next = 1
                      /\ paste'[q].state = "sending" =>
                             paste'[q].next \in 2..paste'[q].blocks
      BY <1>1 DEF Progress
  <2>1. CASE q = p
    <3>1. socket[a] \in {"open", "closing", "closed"}
        BY DEF PasteInv, Progress, a
    <3>2. k # n => k + 1 \in 2..n
        BY <1>1
    <3> QED BY <2>1, <3>1, <3>2, <1>1, <1>2
  <2>2. CASE q # p
      BY <2>2, <1>2 DEF PasteInv, Progress
  <2> QED BY <2>1, <2>2
<1>10. CASE socket[a] # "open"
  <2>1. sent' = sent
      BY <1>1, <1>10
  <2>2. SentBefore'
    <3>1. \A m \in 1..MaxBlocks : m < k => m < k + 1
        BY <1>1
    <3>2. \A q \in 1..MaxPastes :
              /\ paste'[q].ws = paste[q].ws
              /\ \A m \in 1..MaxBlocks : m < paste[q].next => m < paste'[q].next
              /\ paste[q].state # "unused" => paste'[q].state # "unused"
        BY <3>1, <1>2 DEF a, k
    <3> QED BY <3>2, <2>1 DEF PasteInv, SentBefore
  <2>3. LastIsSent'
      BY <1>1, <1>2, <1>10, <2>1 DEF PasteInv, LastIsSent
  <2>4. PasteStaysTogether'
    <3>1. \A q \in 1..MaxPastes : paste'[q].ws = paste[q].ws
        BY <1>2 DEF a
    <3> QED BY <3>1, <2>1, NothingSent
  <2> QED BY <1>8, <1>9, <2>2, <2>3, <2>4 DEF PasteInv
<1>11. CASE socket[a] = "open"
  <2>1. /\ \A w \in Sockets \ {a} : sent'[w] = sent[w]
        /\ Len(sent'[a]) = Len(sent[a]) + 1
        /\ \A i \in 1..Len(sent[a]) : sent'[a][i] = sent[a][i]
        /\ sent'[a][Len(sent[a]) + 1] = <<p, k>>
      BY <1>1, <1>6, <1>11 DEF PasteInv, PasteTypes
  <2>2. \A w \in Sockets, q \in 1..MaxPastes, m \in 1..MaxBlocks :
            \A i \in 1..Len(sent'[w]) :
                sent'[w][i] = <<q, m>> =>
                    \/ i \in 1..Len(sent[w]) /\ sent[w][i] = <<q, m>>
                    \/ w = a /\ i = Len(sent[w]) + 1 /\ q = p /\ m = k
    <3> SUFFICES ASSUME NEW w \in Sockets, NEW q \in 1..MaxPastes, NEW m \in 1..MaxBlocks,
                        NEW i \in 1..Len(sent'[w]), sent'[w][i] = <<q, m>>
                 PROVE  \/ i \in 1..Len(sent[w]) /\ sent[w][i] = <<q, m>>
                        \/ w = a /\ i = Len(sent[w]) + 1 /\ q = p /\ m = k
        OBVIOUS
    <3>1. CASE w # a
        BY <3>1, <2>1
    <3>2. CASE w = a /\ i \in 1..Len(sent[a])
        BY <3>2, <2>1
    <3>3. CASE w = a /\ i = Len(sent[a]) + 1
      <4>1. <<p, k>> = <<q, m>>
          BY <3>3, <2>1
      <4> QED BY <4>1, <3>3
    <3>4. w = a => Len(sent[a]) \in Nat /\ i \in 1..Len(sent[a]) + 1
        BY <2>1, <1>7
    <3>5. w = a => i \in 1..Len(sent[a]) \/ i = Len(sent[a]) + 1
        BY <3>4
    <3> QED BY <3>1, <3>2, <3>3, <3>5
  <2>3. \A w \in Sockets : \A i \in 1..Len(sent[w]) :
            i \in 1..Len(sent'[w]) /\ sent'[w][i] = sent[w][i]
      BY <2>1, <1>7
  <2>4. SentBefore'
    <3> SUFFICES ASSUME NEW q \in 1..MaxPastes, NEW m \in 1..MaxBlocks,
                        NEW w \in Sockets, NEW i \in 1..Len(sent'[w]),
                        sent'[w][i] = <<q, m>>
                 PROVE  /\ w = paste'[q].ws /\ m < paste'[q].next
                        /\ paste'[q].state # "unused"
        BY DEF SentBefore
    <3>1. CASE i \in 1..Len(sent[w]) /\ sent[w][i] = <<q, m>>
      <4>1. w = paste[q].ws /\ m < paste[q].next /\ paste[q].state # "unused"
          BY <3>1 DEF PasteInv, SentBefore
      <4>2. CASE q = p
          BY <4>1, <4>2, <1>1, <1>2 DEF k, a
      <4> QED BY <4>1, <4>2, <1>2
    <3>2. CASE w = a /\ q = p /\ m = k
        BY <3>2, <1>1, <1>2
    <3> QED BY <2>2, <3>1, <3>2
  <2>5. LastIsSent'
    <3> SUFFICES ASSUME NEW q \in 1..MaxPastes,
                        paste'[q].state = "sending", socket[paste'[q].ws] = "open"
                 PROVE  \E i \in 1..Len(sent'[paste'[q].ws]) :
                            sent'[paste'[q].ws][i] = <<q, paste'[q].next - 1>>
        BY <1>1 DEF LastIsSent
    <3>1. CASE q = p
      <4>1. Len(sent[a]) + 1 \in 1..Len(sent'[a])
          BY <2>1, <1>1, <1>7
      <4>2. paste'[p].next - 1 = k
          BY <1>1, <1>2
      <4> QED BY <3>1, <4>1, <4>2, <2>1, <1>2
    <3>2. CASE q # p
      <4>1. PICK i \in 1..Len(sent[paste[q].ws]) :
                sent[paste[q].ws][i] = <<q, paste[q].next - 1>>
          BY <3>2, <1>2 DEF PasteInv, LastIsSent
      <4>2. paste[q].ws \in Sockets
          BY <3>2, <1>2 DEF PasteInv, Progress
      <4> QED BY <3>2, <4>1, <4>2, <2>3, <1>2
    <3> QED BY <3>1, <3>2
  <2>6. PasteStaysTogether'
    <3> SUFFICES ASSUME NEW q \in 1..MaxPastes, NEW m \in 1..MaxBlocks,
                        NEW w \in Sockets, NEW i \in 1..Len(sent'[w]),
                        sent'[w][i] = <<q, m>>
                 PROVE  InPlace(q, m, w, i)'
        BY DEF PasteStaysTogether
    <3>1. CASE i \in 1..Len(sent[w]) /\ sent[w][i] = <<q, m>>
      <4>0. InPlace(q, m, w, i)
          BY <3>1 DEF PasteInv, PasteStaysTogether
      <4>1. /\ w = paste[q].ws
            /\ \A j \in 1..Len(sent[w]) : sent[w][j] = <<q, m>> => j = i
            /\ m > 1 => \E j \in 1..(i - 1) : sent[w][j] = <<q, m - 1>>
          BY <4>0 DEF InPlace
      <4>2. \A j \in 1..(i - 1) : j \in 1..Len(sent[w])
          BY <3>1, <1>7
      <4>3. ~(w = a /\ q = p /\ m = k)
          BY <3>1, <1>3
      <4>4. w = paste'[q].ws
          BY <4>1, <1>2 DEF a
      <4>5. \A j \in 1..Len(sent'[w]) : sent'[w][j] = <<q, m>> => j = i
          BY <4>1, <4>3, <2>2
      <4>6. ASSUME m > 1 PROVE \E j \in 1..(i - 1) : sent'[w][j] = <<q, m - 1>>
        <5>1. PICK j \in 1..(i - 1) : sent[w][j] = <<q, m - 1>>
            BY <4>1, <4>6
        <5> QED BY <5>1, <4>2, <2>3
      <4> QED BY <4>4, <4>5, <4>6 DEF InPlace
    <3>2. CASE w = a /\ i = Len(sent[w]) + 1 /\ q = p /\ m = k
      <4>1. \A j \in 1..Len(sent'[w]) : sent'[w][j] = <<q, m>> => j = i
          BY <3>2, <2>2, <1>3
      <4>2. ASSUME m > 1 PROVE \E j \in 1..(i - 1) : sent'[w][j] = <<q, m - 1>>
        <5>1. paste[p].state = "sending"
            BY <4>2, <3>2, <1>5
        <5>2. PICK j \in 1..Len(sent[a]) : sent[a][j] = <<p, k - 1>>
            BY <5>1, <1>11 DEF PasteInv, LastIsSent, k, a
        <5> QED BY <5>2, <3>2, <2>3, <1>7
      <4> QED BY <4>1, <4>2, <3>2, <1>2 DEF InPlace
    <3> QED BY <2>2, <3>1, <3>2
  <2> QED BY <1>8, <1>9, <2>4, <2>5, <2>6 DEF PasteInv
<1> QED BY <1>10, <1>11

LEMMA PasteStepKeeps ==
    ASSUME TabInv, PasteInv, NEW p \in 1..MaxPastes,
           TerminalPaste(p) \/ ReadText(p) \/ ReadNothing(p) \/ TimerEnds(p)
    PROVE  PasteInv' /\ TabInv'
<1>1. UNCHANGED tabVars /\ listed' = listed
    BY DEF TerminalPaste, ReadText, ReadNothing, TimerEnds, SendBlock
<1>2. TabInv'
    BY <1>1, OthersLeaveTabs DEF TabInv, TabTypes
<1>3. CASE ReadText(p)
  <2>1. PICK n \in 1..MaxBlocks : SendBlock(p, 1, n)
      BY <1>3 DEF ReadText
  <2>2. paste[p].state = "reading" /\ paste[p].next = 1
      BY <1>3 DEF ReadText, PasteInv, Progress
  <2>3. SendBlock(p, paste[p].next, n) /\ paste[p].next \in 1..n
      BY <2>1, <2>2
  <2> QED BY <2>2, <2>3, BlockSent, <1>2
<1>4. CASE TimerEnds(p)
  <2>1. /\ paste[p].state = "sending"
        /\ paste[p].next \in 2..paste[p].blocks
        /\ paste[p].blocks \in 0..MaxBlocks
      BY <1>4 DEF TimerEnds, PasteInv, Progress, PasteTypes
  <2>2. paste[p].blocks \in 1..MaxBlocks /\ paste[p].next \in 1..paste[p].blocks
      BY <2>1, ConstantsAssumption DEF ConstantsAssumption
  <2>3. PICK n \in 1..MaxBlocks : n = paste[p].blocks
      BY <2>2
  <2>4. SendBlock(p, paste[p].next, n) /\ paste[p].next \in 1..n
      BY <1>4, <2>2, <2>3 DEF TimerEnds
  <2> QED BY <1>2, <2>1, <2>4, BlockSent
<1>5. ASSUME TerminalPaste(p) \/ ReadNothing(p) PROVE PasteInv'
  <2>1. sent' = sent /\ socket' = socket
      BY <1>1, <1>5 DEF TerminalPaste, ReadNothing, tabVars
  <2>2. PICK x \in [state : {"reading", "done"}, ws : 0..MaxSockets,
                    blocks : 0..MaxBlocks, next : 1..MaxBlocks + 1] :
            /\ paste' = [paste EXCEPT ![p] = x]
            /\ x.ws \in Sockets /\ socket[x.ws] \in {"open", "closing", "closed"}
            /\ x.next = paste[p].next /\ paste[p].next = 1
            /\ paste[p].state # "unused" => x.ws = paste[p].ws
    <3>1. CASE ReadNothing(p)
      <4>1. paste' = [paste EXCEPT ![p] = [@ EXCEPT !.state = "done"]]
          BY <3>1 DEF ReadNothing
      <4>2. [paste[p] EXCEPT !.state = "done"] \in
                [state : {"reading", "done"}, ws : 0..MaxSockets,
                 blocks : 0..MaxBlocks, next : 1..MaxBlocks + 1]
          BY DEF PasteInv, PasteTypes
      <4> QED BY <3>1, <4>1, <4>2 DEF ReadNothing, PasteInv, PasteTypes, Progress
    <3>2. CASE TerminalPaste(p)
      <4>1. tab[active] \in Sockets /\ socket[tab[active]] = "open"
          BY <3>2, ConstantsAssumption
             DEF TerminalPaste, TabInv, TabTypes, BarTellsTruth, Sockets
      <4>2. paste' = [paste EXCEPT ![p] = [@ EXCEPT !.state = "reading", !.ws = tab[active]]]
          BY <3>2 DEF TerminalPaste, PasteInv, PasteTypes
      <4>3. [paste[p] EXCEPT !.state = "reading", !.ws = tab[active]] \in
                [state : {"reading", "done"}, ws : 0..MaxSockets,
                 blocks : 0..MaxBlocks, next : 1..MaxBlocks + 1]
        <5>1. /\ paste[p] \in [state : {"unused", "reading", "sending", "done"},
                               ws : 0..MaxSockets, blocks : 0..MaxBlocks,
                               next : 1..MaxBlocks + 1]
              /\ tab[active] \in 0..MaxSockets
            BY <4>1, ConstantsAssumption
               DEF PasteInv, PasteTypes, Sockets, ConstantsAssumption
        <5> QED BY <5>1
      <4> QED BY <3>2, <4>1, <4>2, <4>3
              DEF TerminalPaste, PasteInv, PasteTypes, Progress
    <3> QED BY <1>5, <3>1, <3>2
  <2>3. /\ paste'[p] = x
        /\ \A q \in 1..MaxPastes : q # p => paste'[q] = paste[q]
      BY <2>2 DEF PasteInv, PasteTypes
  <2>4. PasteTypes'
      BY <2>1, <2>2 DEF PasteInv, PasteTypes
  <2>5. Progress'
      BY <2>1, <2>2, <2>3 DEF PasteInv, Progress
  <2>6. \A k \in 1..MaxBlocks, w \in Sockets : \A i \in 1..Len(sent[w]) :
            sent[w][i] # <<p, k>>
      BY <2>2 DEF PasteInv, SentBefore
  <2>7. SentBefore'
      BY <2>1, <2>3, <2>6 DEF PasteInv, SentBefore
  <2>8. LastIsSent'
    <3> SUFFICES ASSUME NEW q \in 1..MaxPastes,
                        paste'[q].state = "sending", socket[paste'[q].ws] = "open"
                 PROVE  \E i \in 1..Len(sent[paste'[q].ws]) :
                            sent[paste'[q].ws][i] = <<q, paste'[q].next - 1>>
        BY <2>1 DEF LastIsSent
    <3>1. q # p
        BY <2>2, <2>3
    <3> QED BY <2>3, <3>1 DEF PasteInv, LastIsSent
  <2>9. PasteStaysTogether'
    <3> SUFFICES ASSUME NEW q \in 1..MaxPastes, NEW m \in 1..MaxBlocks,
                        NEW w \in Sockets, NEW i \in 1..Len(sent[w]),
                        sent[w][i] = <<q, m>>
                 PROVE  InPlace(q, m, w, i)'
        BY <2>1 DEF PasteStaysTogether
    <3>1. InPlace(q, m, w, i) /\ q # p
        BY <2>6 DEF PasteInv, PasteStaysTogether
    <3> QED BY <3>1, <2>1, <2>3 DEF InPlace
  <2> QED BY <2>4, <2>5, <2>7, <2>8, <2>9 DEF PasteInv
<1> QED BY <1>2, <1>3, <1>4, <1>5

LEMMA Kept == TabInv /\ PasteInv /\ [Next]_vars => TabInv' /\ PasteInv'
<1> SUFFICES ASSUME TabInv, PasteInv, [Next]_vars
             PROVE  TabInv' /\ PasteInv'
    OBVIOUS
<1>1. CASE UNCHANGED vars \/ LoadServers
  <2>1. UNCHANGED tabVars /\ listed' \subseteq Servers /\ UNCHANGED <<paste, sent>>
      BY <1>1 DEF vars, tabVars, LoadServers, TabInv, TabTypes
  <2>2. NeverOpensAgain
      BY <2>1 DEF tabVars, NeverOpensAgain
  <2> QED BY <2>1, <2>2, OthersLeaveTabs, OthersLeavePastes
<1>2. ASSUME NEW s \in Servers,
             \/ SwitchSSHTab(s) \/ OpenNewSSHConnection(s)
             \/ CloseSSHSession(s) \/ ReconnectActiveSSH(s)
      PROVE  TabInv' /\ PasteInv'
  <2>1. TabInv'
      BY <1>2, SwitchKeeps, OpenKeeps, CloseKeeps, ReconnectKeeps
  <2> QED BY <1>2, <2>1, TabStepsNeverReopen, OthersLeavePastes
<1>3. CASE TypeKey
  <2>1. UNCHANGED tabVars /\ listed' = listed
      BY <1>3 DEF TypeKey
  <2> QED BY <1>3, <2>1, KeyKeepsPastes, OthersLeaveTabs DEF TabInv, TabTypes
<1>4. ASSUME NEW p \in 1..MaxPastes,
             TerminalPaste(p) \/ ReadText(p) \/ ReadNothing(p) \/ TimerEnds(p)
      PROVE  TabInv' /\ PasteInv'
    BY <1>4, PasteStepKeeps
<1>5. ASSUME NEW w \in Sockets, OnOpen(w) \/ PeerCloses(w) \/ OnClose(w)
      PROVE  TabInv' /\ PasteInv'
    BY <1>5, SocketEventKeeps, SocketEventsNeverReopen, OthersLeavePastes
<1> QED BY <1>1, <1>2, <1>3, <1>4, <1>5 DEF Next

(* The variables always have their types. *)
THEOREM TypeCorrect == Spec => []TypeOK
<1>1. TabInv /\ PasteInv => TypeOK
    BY DEF TabInv, TabTypes, PasteInv, PasteTypes, TypeOK
<1> QED BY <1>1, TabInit, PasteInit, Kept, PTL DEF Spec

(* Every connection that is made or open belongs to exactly one tab. *)
THEOREM ConnectionsHaveTabs == Spec => []EveryConnectionHasItsTab
<1>1. TabInv => EveryConnectionHasItsTab
    BY DEF TabInv
<1> QED BY <1>1, TabInit, PasteInit, Kept, PTL DEF Spec

(* The bar, the header, the viewport and the variable agree at all times. *)
THEOREM BarTrue == Spec => []BarTellsTruth
<1>1. TabInv => BarTellsTruth
    BY DEF TabInv
<1> QED BY <1>1, TabInit, PasteInit, Kept, PTL DEF Spec

(* What arrives of a paste is a beginning of it, in the session it was made
   in. *)
THEOREM PastesTogether == Spec => []PasteStaysTogether
<1>1. PasteInv => PasteStaysTogether
    BY DEF PasteInv
<1> QED BY <1>1, TabInit, PasteInit, Kept, PTL DEF Spec
=============================================================================
