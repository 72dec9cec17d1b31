------------------------------ MODULE Lifecycle ------------------------------
(***************************************************************************)
(* The life of the server process of NovaSSH and of the windows of the     *)
(* browser (external) that show its pages: main, the heartbeat and the     *)
(* shutdown handler and the lifecycle monitor of main.go, OpenWindow of    *)
(* pkg/desktop, and the page's heartbeat and its shutdown beacon in        *)
(* web/static/js/app.js.                                                   *)
(*                                                                         *)
(* Time passes in units of three seconds, the period of the heartbeat and  *)
(* of the monitor.  What takes less than a unit (a window that opens after *)
(* 300ms, an exit after 200ms) happens before the unit ends.  A page whose *)
(* timers run, one that is visible and has no dialog open, sends a         *)
(* heartbeat in every unit.  A browser may hold back those of a hidden     *)
(* page for a minute, and alert, confirm and prompt suspend a page's       *)
(* timers until the user answers.                                          *)
(*                                                                         *)
(* The names that every specification has begin with LC here, so that a    *)
(* module can extend this one beside another.                              *)
(***************************************************************************)
EXTENDS Integers, FiniteSets

CONSTANTS
    Windows,     \* windows of the browser
    Desktop,     \* the -desktop flag
    Limit,       \* units without a heartbeat that the monitor tolerates (5)
    MaxOpening,  \* bound: windows that are being opened at the same time
    Behaviours   \* what users and browsers do in an instance

VARIABLES
    server,     \* the process: "down", "up", or "exiting" after a beacon
    connected,  \* App.hasConnected
    age,        \* units since App.lastHeartbeat, at most Limit + 1
    polled,     \* whether the monitor has looked in this unit
    opening,    \* windows that OpenWindow is about to open
    page,       \* what each window shows: nothing, a page, or an error
    beat        \* the heartbeat of each page in this unit

LCVars == <<server, connected, age, polled, opening, page, beat>>

ASSUME LCAssumption ==
    /\ Desktop \in BOOLEAN
    /\ Limit \in Nat \ {0}
    /\ MaxOpening \in Nat

(* "dialog": visible, under an alert, a confirm or a prompt. *)
Alive == {"visible", "hidden", "dialog"}

LCTypeOK ==
    /\ server \in {"down", "up", "exiting"}
    /\ connected \in BOOLEAN
    /\ age \in Nat /\ age <= Limit + 1
    /\ polled \in BOOLEAN
    /\ opening \in Nat /\ opening <= MaxOpening
    /\ page \in [Windows -> Alive \cup {"none", "error"}]
    /\ beat \in [Windows -> {"sent", "due", "new"}]

LCInit ==
    /\ server = "down"
    /\ connected = FALSE
    /\ age = 0
    /\ polled = FALSE
    /\ opening = 0
    /\ page = [w \in Windows |-> "none"]
    /\ beat = [w \in Windows |-> "new"]

Listening == server \in {"up", "exiting"}

-----------------------------------------------------------------------------
(* The process. *)

(* A launch that finds the port free becomes the server. *)
LaunchServer ==
    /\ server = "down"
    /\ Desktop => opening < MaxOpening
    /\ server' = "up"
    /\ connected' = FALSE
    /\ age' = 0
    /\ polled' = FALSE
    /\ opening' = IF Desktop THEN opening + 1 ELSE opening
    /\ UNCHANGED <<page, beat>>

(* A launch that finds the port busy opens a window and exits. *)
LaunchWindow ==
    /\ Listening
    /\ Desktop
    /\ opening < MaxOpening
    /\ opening' = opening + 1
    /\ UNCHANGED <<server, connected, age, polled, page, beat>>

(* Mutant: the handler does not record the time. *)
Mut_HeartbeatForgotten(w) ==
    /\ page[w] \in {"visible", "hidden"}
    /\ beat[w] # "sent"
    /\ beat' = [beat EXCEPT ![w] = "sent"]
    /\ connected' = (connected \/ Listening)
    /\ UNCHANGED <<server, age, polled, opening, page>>

(* handleHeartbeat, or a request that finds no server. *)
Heartbeat(w) ==
    /\ page[w] \in {"visible", "hidden"}
    /\ beat[w] # "sent"
    /\ beat' = [beat EXCEPT ![w] = "sent"]
    /\ IF Listening
       THEN age' = 0 /\ connected' = TRUE
       ELSE UNCHANGED <<age, connected>>
    /\ UNCHANGED <<server, polled, opening, page>>

(* handleShutdown: the process exits 200ms after the beacon. *)
Shutdown == server' = IF server = "up" THEN "exiting" ELSE server

ShutdownExits ==
    /\ server = "exiting"
    /\ server' = "down"
    /\ UNCHANGED <<connected, age, polled, opening, page, beat>>

(* The ticker of the lifecycle monitor. *)
MonitorPolls ==
    /\ Desktop
    /\ Listening
    /\ ~polled
    /\ ~(connected /\ age > Limit)
    /\ polled' = TRUE
    /\ UNCHANGED <<server, connected, age, opening, page, beat>>

(* Mutant: the monitor reports that the window was closed and goes on. *)
Mut_MonitorOnlyLogs ==
    /\ Desktop
    /\ Listening
    /\ ~polled
    /\ connected /\ age > Limit
    /\ polled' = TRUE
    /\ UNCHANGED <<server, connected, age, opening, page, beat>>

MonitorExits ==
    /\ Desktop
    /\ Listening
    /\ ~polled
    /\ connected /\ age > Limit
    /\ server' = "down"
    /\ UNCHANGED <<connected, age, polled, opening, page, beat>>

-----------------------------------------------------------------------------
(* The windows. *)

Load(w) ==
    /\ page' = [page EXCEPT ![w] = IF Listening THEN "visible" ELSE "error"]
    /\ beat' = [beat EXCEPT ![w] = "new"]

(* Mutant: the fallback opens a second window after the first. *)
Mut_WindowOpensTwice(w) ==
    /\ page[w] = "none"
    /\ opening' = opening - 1
    /\ Load(w)
    /\ UNCHANGED <<server, connected, age, polled>>

(* OpenWindow, 300ms after it was called. *)
WindowOpens(w) ==
    /\ opening > 0
    /\ page[w] = "none"
    /\ opening' = opening - 1
    /\ Load(w)
    /\ UNCHANGED <<server, connected, age, polled>>

(* A user opens the address in a browser. *)
Browse(w) ==
    /\ "browse" \in Behaviours
    /\ page[w] = "none"
    /\ Listening
    /\ Load(w)
    /\ UNCHANGED <<server, connected, age, polled, opening>>

(* The window is closed: beforeunload sends the beacon. *)
Close(w) ==
    /\ "close" \in Behaviours
    /\ page[w] \in Alive
    /\ page' = [page EXCEPT ![w] = "none"]
    /\ Shutdown
    /\ UNCHANGED <<connected, age, polled, opening, beat>>

(* The window shows an error, or its browser is killed: no beacon. *)
Vanish(w) ==
    /\ page[w] = "error" \/ ("kill" \in Behaviours /\ page[w] \in Alive)
    /\ page' = [page EXCEPT ![w] = "none"]
    /\ UNCHANGED <<server, connected, age, polled, opening, beat>>

(* The page is loaded again: beforeunload, then a request for the page, which
   the process answers if it has not ended by then. *)
Reload(w) ==
    /\ "reload" \in Behaviours
    /\ page[w] = "visible"
    /\ Shutdown
    /\ Load(w) \/ (page' = [page EXCEPT ![w] = "error"] /\ UNCHANGED beat)
    /\ UNCHANGED <<connected, age, polled, opening>>

(* exportBackup navigates to a download: beforeunload, and the page stays. *)
Export(w) ==
    /\ "export" \in Behaviours
    /\ page[w] = "visible"
    /\ Shutdown
    /\ page' = IF Listening THEN page ELSE [page EXCEPT ![w] = "error"]
    /\ UNCHANGED <<connected, age, polled, opening, beat>>

Hide(w) ==
    /\ "hide" \in Behaviours
    /\ page[w] = "visible"
    /\ page' = [page EXCEPT ![w] = "hidden"]
    /\ UNCHANGED <<server, connected, age, polled, opening, beat>>

Show(w) ==
    /\ page[w] = "hidden"
    /\ page' = [page EXCEPT ![w] = "visible"]
    /\ beat' = [beat EXCEPT ![w] = "new"]
    /\ UNCHANGED <<server, connected, age, polled, opening>>

(* A modal dialog stops the timers of the page. *)
OpenDialog(w) ==
    /\ "dialog" \in Behaviours
    /\ page[w] = "visible"
    /\ page' = [page EXCEPT ![w] = "dialog"]
    /\ UNCHANGED <<server, connected, age, polled, opening, beat>>

CloseDialog(w) ==
    /\ page[w] = "dialog"
    /\ page' = [page EXCEPT ![w] = "visible"]
    /\ beat' = [beat EXCEPT ![w] = "new"]
    /\ UNCHANGED <<server, connected, age, polled, opening>>

-----------------------------------------------------------------------------
(* A unit of time ends, when everything that is quicker has happened: among
   it the heartbeat of each page whose timers run. *)
Tick ==
    /\ server # "exiting"
    /\ Desktop /\ server = "up" => polled
    /\ opening > 0 => \A w \in Windows : page[w] # "none"
    /\ \A w \in Windows : page[w] = "visible" => beat[w] = "sent"
    /\ age' = IF age > Limit THEN age ELSE age + 1
    /\ polled' = FALSE
    /\ beat' = [w \in Windows |-> IF page[w] = "visible" THEN "due" ELSE "new"]
    /\ UNCHANGED <<server, connected, opening, page>>

Window(w) ==
    \/ Heartbeat(w) \/ WindowOpens(w) \/ Browse(w) \/ Close(w) \/ Vanish(w)
    \/ Reload(w) \/ Export(w) \/ Hide(w) \/ Show(w)
    \/ OpenDialog(w) \/ CloseDialog(w)

LCNext ==
    \/ LaunchServer \/ LaunchWindow
    \/ ShutdownExits \/ MonitorPolls \/ MonitorExits
    \/ \E w \in Windows : Window(w)
    \/ Tick

LCSpec == LCInit /\ [][LCNext]_LCVars

(* Time passes, and what the process does by itself it does in time. *)
LCFairSpec ==
    /\ LCSpec
    /\ WF_LCVars(ShutdownExits)
    /\ WF_LCVars(MonitorPolls \/ MonitorExits)
    /\ WF_LCVars(Tick)

-----------------------------------------------------------------------------
(* Properties. *)

Pages == {w \in Windows : page[w] \in Alive}

(* startLifecycleMonitor and the interval of sendHeartbeat: the monitor does
   not end the process under a window that has been visible, with no dialog
   open, for a whole unit, whatever other windows, launches, beacons and
   dialogs do.  (It does end the process under a window that is hidden, or
   has a dialog open, for longer than the limit, if no other one beats.) *)
MonitorSparesVisible ==
    [][MonitorExits => \A w \in Windows : page[w] = "visible" => beat[w] = "new"]_LCVars

(* When the last page is gone, without a beacon too, the server ends: the
   monitor shuts it down once a page had sent a heartbeat. *)
AbandonedServerEnds ==
    Desktop /\ server = "up" /\ connected /\ Pages = {} /\ opening = 0
        ~> server = "down" \/ Pages # {} \/ opening > 0
=============================================================================
