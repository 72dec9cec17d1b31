---------------------------- MODULE TerminalTabs ----------------------------
(***************************************************************************)
(* The terminal tabs of the page (web/static/js/app.js): the map of        *)
(* sessions with a WebSocket each, the bar of tabs above them, and pastes, *)
(* which are sent in blocks with waits in between.                         *)
(*                                                                         *)
(* A handler of the page runs to its end before the next one starts, so it *)
(* is one step here; what comes between them are the events of the         *)
(* WebSockets, the clipboard, the timers and the user.  WebSockets are     *)
(* numbered as they are made, so the order of the map is the order of the  *)
(* numbers in it.  What a terminal shows is in Terminal, which models one  *)
(* session end to end.                                                     *)
(***************************************************************************)
EXTENDS Integers, FiniteSets, SequencesExt

CONSTANTS
    Servers,     \* entries
    NoServer,    \* null: no session is active
    MaxSockets,  \* bound: WebSockets made
    MaxPastes,   \* bound: pastes
    MaxBlocks,   \* bound: blocks of a paste
    MaxKeys      \* bound: keys sent to one WebSocket

VARIABLES
    listed,  \* servers: the entries that the page knows
    socket,  \* readyState of each WebSocket
    tab,     \* terminalSessions: the WebSocket of each entry's tab, or 0
    active,  \* activeSSHSessionId
    shown,   \* the entries whose viewport is displayed
    title,   \* the name in the header of the terminal
    bar,     \* what ssh-tabs-bar displays
    paste,   \* calls of terminalPaste
    sent     \* history: what was sent to each WebSocket

vars == <<listed, socket, tab, active, shown, title, bar, paste, sent>>

tabVars == <<socket, tab, active, shown, title, bar>>

Sockets == 1..MaxSockets

ASSUME ConstantsAssumption ==
    /\ NoServer \notin Servers
    /\ MaxSockets \in Nat
    /\ MaxPastes \in Nat
    /\ MaxBlocks \in Nat \ {0}
    /\ MaxKeys \in Nat

Tabs(t) == {s \in Servers : t[s] # 0}

(* What is sent: the paste and its block, or a key. *)
Input == (0..MaxPastes) \X (0..MaxBlocks)

Key == <<0, 0>>

TypeOK ==
    /\ listed \subseteq Servers
    /\ socket \in
           [Sockets -> {"unused", "connecting", "open", "closing", "closed"}]
    /\ tab \in [Servers -> 0..MaxSockets]
    /\ active \in Servers \cup {NoServer}
    /\ shown \subseteq Servers
    /\ title \in Servers \cup {NoServer}
    /\ bar \in [marked : Servers \cup {NoServer},
                dots : [Servers -> {"none", "online", "offline"}]]
    /\ paste \in
           [1..MaxPastes ->
               [state : {"unused", "reading", "sending", "done"},
                ws : 0..MaxSockets, blocks : 0..MaxBlocks, next : 1..MaxBlocks + 1]]
    /\ sent \in [Sockets -> Seq(Input)]

NoDots == [s \in Servers |-> "none"]

Init ==
    /\ listed \in SUBSET Servers
    /\ socket = [w \in Sockets |-> "unused"]
    /\ tab = [s \in Servers |-> 0]
    /\ active = NoServer
    /\ shown = {}
    /\ title = NoServer
    /\ bar = [marked |-> NoServer, dots |-> NoDots]
    /\ paste = [p \in 1..MaxPastes |->
                   [state |-> "unused", ws |-> 0, blocks |-> 0, next |-> 1]]
    /\ sent = [w \in Sockets |-> <<>>]

-----------------------------------------------------------------------------
(* Parts of the handlers, each over what the handler has changed already. *)

Dot(w) == IF socket'[w] = "open" THEN "online" ELSE "offline"

UpdateSSHTabsBar ==
    bar' = [marked |-> active',
            dots |-> [s \in Servers |-> IF tab'[s] = 0 THEN "none" ELSE Dot(tab'[s])]]

Activate(s) ==
    /\ active' = s
    /\ shown' = {s}
    /\ title' = s

NoneActive ==
    /\ active' = NoServer
    /\ shown' = {}
    /\ title' = NoServer

(* Mutant: the tab goes away and its WebSocket stays. *)
Mut_CloseSocketForgotten(so, w) == so

CloseSocket(so, w) ==
    [so EXCEPT ![w] = IF @ = "closed" THEN @ ELSE "closing"]

NewSocket(so, w) == [so EXCEPT ![w] = "connecting"]

Fresh(w) ==
    /\ socket[w] = "unused"
    /\ \A v \in 1..(w - 1) : socket[v] # "unused"

-----------------------------------------------------------------------------
(* The user. *)

(* loadServers brings another list. *)
LoadServers ==
    /\ listed' \in SUBSET Servers
    /\ listed' # listed
    /\ UNCHANGED <<tabVars, paste, sent>>

SwitchSSHTab(s) ==
    /\ tab[s] # 0
    /\ UNCHANGED <<socket, tab>>
    /\ Activate(s)
    /\ UpdateSSHTabsBar
    /\ UNCHANGED <<listed, paste, sent>>

(* An entry without a tab gets one, in front; the other case of the code, a
   tab that is there, is SwitchSSHTab. *)
OpenNewSSHConnection(s) ==
    /\ s \in listed
    /\ tab[s] = 0
    /\ \E w \in Sockets :
           /\ Fresh(w)
           /\ socket' = NewSocket(socket, w)
           /\ tab' = [tab EXCEPT ![s] = w]
    /\ Activate(s)
    /\ UpdateSSHTabsBar
    /\ UNCHANGED <<listed, paste, sent>>

(* If the tab was in front, the newest of the others comes to the front. *)
CloseSSHSession(s) ==
    /\ tab[s] # 0
    /\ socket' = CloseSocket(socket, tab[s])
    /\ tab' = [tab EXCEPT ![s] = 0]
    /\ \/ /\ active # s
          /\ shown' = shown \ {s}
          /\ UNCHANGED <<active, title>>
       \/ /\ active = s
          /\ \E r \in Tabs(tab') :
                 /\ \A q \in Tabs(tab') : tab[q] <= tab[r]
                 /\ Activate(r)
       \/ /\ active = s
          /\ Tabs(tab') = {}
          /\ NoneActive
    /\ UpdateSSHTabsBar
    /\ UNCHANGED <<listed, paste, sent>>

(* The tab is closed and opened in one handler; an entry that is no longer
   listed is only closed, with an alert. *)
ReconnectActiveSSH(s) ==
    /\ s = active
    /\ \/ /\ s \notin listed
          /\ CloseSSHSession(s)
       \/ /\ s \in listed
          /\ \E w \in Sockets :
                 /\ Fresh(w)
                 /\ socket' = NewSocket(CloseSocket(socket, tab[s]), w)
                 /\ tab' = [tab EXCEPT ![s] = w]
          /\ Activate(s)
          /\ UpdateSSHTabsBar
          /\ UNCHANGED <<listed, paste, sent>>

(* onData of the terminal in front: a key is sent if its WebSocket is open. *)
TypeKey ==
    /\ active # NoServer
    /\ socket[tab[active]] = "open"
    /\ Len(SelectSeq(sent[tab[active]], LAMBDA i : i = Key)) < MaxKeys
    /\ sent' = [sent EXCEPT ![tab[active]] = Append(@, Key)]
    /\ UNCHANGED <<listed, tabVars, paste>>

-----------------------------------------------------------------------------
(* terminalPaste. *)

(* The session is looked up before the clipboard is read; without an open
   WebSocket there is only an alert. *)
TerminalPaste(p) ==
    /\ paste[p].state = "unused"
    /\ active # NoServer
    /\ socket[tab[active]] = "open"
    /\ paste' = [paste EXCEPT ![p].state = "reading", ![p].ws = tab[active]]
    /\ UNCHANGED <<listed, tabVars, sent>>

(* Mutant: each block goes to the tab that is in front by then. *)
Mut_TargetInFront(p) == IF active = NoServer THEN paste[p].ws ELSE tab[active]

Target(p) == paste[p].ws

(* Mutant: the loop goes round once too often. *)
Mut_IsLastMissed(k, n) == k > n

IsLast(k, n) == k = n

(* The block is sent if the WebSocket is still open; after the last one the
   call ends, after another it waits 2 ms. *)
SendBlock(p, k, n) ==
    LET w == Target(p) IN
    /\ sent' = IF socket[w] = "open"
               THEN [sent EXCEPT ![w] = Append(@, <<p, k>>)]
               ELSE sent
    /\ paste' = [paste EXCEPT ![p].state = IF IsLast(k, n) THEN "done" ELSE "sending",
                              ![p].blocks = n,
                              ![p].next = k + 1]
    /\ UNCHANGED <<listed, tabVars>>

ReadText(p) ==
    /\ paste[p].state = "reading"
    /\ \E n \in 1..MaxBlocks : SendBlock(p, 1, n)

(* The clipboard is empty or may not be read. *)
ReadNothing(p) ==
    /\ paste[p].state = "reading"
    /\ paste' = [paste EXCEPT ![p].state = "done"]
    /\ UNCHANGED <<listed, tabVars, sent>>

TimerEnds(p) ==
    /\ paste[p].state = "sending"
    /\ SendBlock(p, paste[p].next, paste[p].blocks)

-----------------------------------------------------------------------------
(* The WebSockets. *)

OnOpen(w) ==
    /\ socket[w] = "connecting"
    /\ socket' = [socket EXCEPT ![w] = "open"]
    /\ UNCHANGED <<tab, active, shown, title>>
    /\ UpdateSSHTabsBar
    /\ UNCHANGED <<listed, paste, sent>>

(* The server starts to close; no handler of the page runs. *)
PeerCloses(w) ==
    /\ socket[w] = "open"
    /\ socket' = [socket EXCEPT ![w] = "closing"]
    /\ UNCHANGED <<tab, active, shown, title, bar, listed, paste, sent>>

(* Mutant: the end of a connection is written, and the bar stays. *)
Mut_OnCloseKeepsBar(w) ==
    /\ socket[w] \in {"connecting", "open", "closing"}
    /\ socket' = [socket EXCEPT ![w] = "closed"]
    /\ UNCHANGED <<tab, active, shown, title, bar, listed, paste, sent>>

(* The connection is closed, lost or was never made. *)
OnClose(w) ==
    /\ socket[w] \in {"connecting", "open", "closing"}
    /\ socket' = [socket EXCEPT ![w] = "closed"]
    /\ UNCHANGED <<tab, active, shown, title>>
    /\ UpdateSSHTabsBar
    /\ UNCHANGED <<listed, paste, sent>>

Next ==
    \/ LoadServers
    \/ \E s \in Servers :
           \/ SwitchSSHTab(s)
           \/ OpenNewSSHConnection(s)
           \/ CloseSSHSession(s)
           \/ ReconnectActiveSSH(s)
    \/ TypeKey
    \/ \E p \in 1..MaxPastes :
           TerminalPaste(p) \/ ReadText(p) \/ ReadNothing(p) \/ TimerEnds(p)
    \/ \E w \in Sockets : OnOpen(w) \/ PeerCloses(w) \/ OnClose(w)

Spec == Init /\ [][Next]_vars

-----------------------------------------------------------------------------
(* Properties. *)

(* openNewSSHConnection, closeSSHSession, reconnectActiveSSH: a WebSocket
   that connects or is open belongs to exactly one tab, so no connection to a
   server goes on that the user has no way to close, and no two tabs share
   one.  A reconnect that forgets to close, or an open that forgets to look
   for a tab, would leave one. *)
EveryConnectionHasItsTab ==
    \A w \in Sockets :
        /\ socket[w] \in {"connecting", "open"} => \E s \in Servers : tab[s] = w
        /\ \A r, s \in Servers : tab[r] = w /\ tab[s] = w => r = s

(* switchSSHTab, closeSSHSession, updateSSHTabsBar: between two handlers the
   variable, the viewport, the header and the bar agree on the tab in front;
   there is one if and only if there are tabs; and the bar, which is drawn
   anew by some handlers and events only, has the tabs that are there and
   calls one online unless its connection is not open, and offline only if it
   is not. *)
BarTellsTruth ==
    /\ active = NoServer <=> Tabs(tab) = {}
    /\ active # NoServer => tab[active] # 0
    /\ shown = {active} \ {NoServer}
    /\ title = active
    /\ bar.marked = active
    /\ \A s \in Servers :
           /\ bar.dots[s] = "none" <=> tab[s] = 0
           /\ bar.dots[s] = "offline" => socket[tab[s]] # "open"
           /\ bar.dots[s] = "online" => socket[tab[s]] \in {"open", "closing"}

(* Input i of w, block k of paste p, is where it belongs: in its own session,
   there once, and after the block before it. *)
InPlace(p, k, w, i) ==
    /\ w = paste[p].ws
    /\ \A j \in 1..Len(sent[w]) : sent[w][j] = <<p, k>> => j = i
    /\ k > 1 => \E j \in 1..(i - 1) : sent[w][j] = <<p, k - 1>>

(* terminalPaste: whatever tabs are switched, closed or reconnected while it
   waits, the blocks of a paste go to the session it was made in and to no
   other, each once, and each after the one before it: what arrives is the
   beginning of the text.  (Keys and other pastes may come between them.) *)
PasteStaysTogether ==
    \A p \in 1..MaxPastes, k \in 1..MaxBlocks, w \in Sockets :
        \A i \in 1..Len(sent[w]) :
            sent[w][i] = <<p, k>> => InPlace(p, k, w, i)
=============================================================================
