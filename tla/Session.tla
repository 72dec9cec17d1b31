------------------------------ MODULE Session ------------------------------
(***************************************************************************)
(* What a terminal session of NovaSSH promises, without its goroutines,    *)
(* its buffers or its messages.  The shell receives a beginning of what    *)
(* the user typed, the page shows a beginning of what the shell printed,   *)
(* and the output is not given up while the page is there, before the      *)
(* shell has exited and the page has shown everything.  When the session   *)
(* is over, neither the page nor the shell is left, and nothing happens    *)
(* any more.                                                               *)
(***************************************************************************)
EXTENDS Naturals, Sequences

VARIABLES
    page,      \* whether the page is there
    shell,     \* the remote shell: "none", "up", "exited"
    typed,     \* how many bytes the user has typed
    received,  \* the bytes that the shell has received, by their number
    printed,   \* how many bytes the shell has printed
    shown,     \* how many bytes the page has displayed
    output,    \* whether the output is brought to the page: "none", "flowing", "ended"
    over       \* whether the session is over

vars == <<page, shell, typed, received, printed, shown, output, over>>

(* The first k bytes that the user has typed. *)
FirstKeys(k) == [i \in 1 .. k |-> i]

Init ==
    /\ page = TRUE
    /\ shell = "none"
    /\ typed = 0 /\ received = FirstKeys(0)
    /\ printed = 0 /\ shown = 0
    /\ output = "none"
    /\ over = FALSE

(* The shell is there, even when the page has left in the meantime. *)
Open ==
    /\ ~over
    /\ shell = "none" /\ shell' = "up"
    /\ output' = "flowing"
    /\ UNCHANGED <<page, typed, received, printed, shown, over>>

Type ==
    /\ page
    /\ typed' > typed
    /\ UNCHANGED <<page, shell, received, printed, shown, output, over>>

(* The shell receives the next keys. *)
Deliver ==
    /\ shell = "up"
    /\ \E k \in Len(received) .. typed : received' = FirstKeys(k)
    /\ UNCHANGED <<page, shell, typed, printed, shown, output, over>>

ShellPrints ==
    /\ shell = "up"
    /\ printed' > printed
    /\ UNCHANGED <<page, shell, typed, received, shown, output, over>>

(* The page displays what the shell printed next. *)
Show ==
    /\ page
    /\ output = "flowing"
    /\ shown' \in shown .. printed
    /\ UNCHANGED <<page, shell, typed, received, printed, output, over>>

EndOutput ==
    /\ output = "flowing"
    /\ page => shell = "exited" /\ shown = printed
    /\ output' = "ended"
    /\ UNCHANGED <<page, shell, typed, received, printed, shown, over>>

ShellExits ==
    /\ shell = "up"
    /\ shell' = "exited"
    /\ UNCHANGED <<page, typed, received, printed, shown, output, over>>

(* The tab is closed, or its WebSocket fails. *)
Leave ==
    /\ page
    /\ page' = FALSE
    /\ UNCHANGED <<shell, typed, received, printed, shown, output, over>>

(* The session ends: nothing of it is left open. *)
Finish ==
    /\ ~over
    /\ over' = TRUE
    /\ page' = FALSE
    /\ shell' \in {shell, "exited"} \ {"up"}
    /\ output' \in {output, "ended"} \ {"flowing"}
    /\ UNCHANGED <<typed, received, printed, shown>>

Next ==
    \/ Open \/ Type \/ Deliver \/ ShellPrints \/ Show \/ EndOutput \/ ShellExits
    \/ Leave \/ Finish

Spec == Init /\ [][Next]_vars
=============================================================================
