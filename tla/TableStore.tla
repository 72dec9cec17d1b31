----------------------------- MODULE TableStore -----------------------------
(***************************************************************************)
(* What the storage package of NovaSSH promises to the rest of the         *)
(* program, without files: a store of two tables (server profiles and      *)
(* command snippets) that is changed one operation at a time.  An          *)
(* operation ends settled, when a restart would find it, or lossy, when    *)
(* the disk failed and a restart would find less.                          *)
(*                                                                         *)
(* A process that stops between two operations finds exactly what is saved *)
(* when it starts again.  After a lossy operation, or one that the process *)
(* did not finish, that is for each table on its own the value saved       *)
(* before the operation, the value the operation was writing, or nothing   *)
(* at all.                                                                 *)
(***************************************************************************)
CONSTANTS
    ServerTables,   \* every server table
    SnippetTables,  \* every snippet table
    NoServers,      \* the empty server table
    NoSnippets,     \* the empty snippet table
    Seeded          \* what a process makes of the snippet table it loads

VARIABLES
    memory,  \* the tables held in memory (by the last process, when none runs)
    saved,   \* the tables that a restart would find after the last operation
    phase    \* where the operation is, or how the last process ended

vars == <<memory, saved, phase>>

Stores == [servers : ServerTables, snippets : SnippetTables]

Phases == {"unsettled", "settled", "lossy", "stopped", "interrupted"}

TypeOK ==
    /\ memory \in Stores
    /\ saved \in Stores
    /\ phase \in Phases

Init ==
    /\ saved \in Stores
    /\ memory = saved
    /\ phase = "stopped"

-----------------------------------------------------------------------------
(* An operation changes the tables in memory and is now being written. *)
Apply ==
    /\ phase \in {"settled", "lossy"}
    /\ memory' \in Stores
    /\ phase' = "unsettled"
    /\ UNCHANGED saved

(* The operation is written: from now on a restart finds it. *)
Settle ==
    /\ phase = "unsettled"
    /\ saved' = memory
    /\ phase' = "settled"
    /\ UNCHANGED memory

(* What may be left of an operation that is not written as a whole. *)
Remains ==
    [servers  : {saved.servers, memory.servers, NoServers},
     snippets : {saved.snippets, memory.snippets, NoSnippets}]

(* The operation ends, and the disk has failed. *)
Lose ==
    /\ phase = "unsettled"
    /\ saved' \in Remains
    /\ phase' = "lossy"
    /\ UNCHANGED memory

Stop ==
    /\ phase \in {"unsettled", "settled", "lossy"}
    /\ phase' = IF phase = "unsettled" THEN "interrupted" ELSE "stopped"
    /\ UNCHANGED <<memory, saved>>

(* The stores that a new process can find. *)
Survivors == IF phase = "stopped" THEN {saved} ELSE Remains

Recover ==
    /\ phase \in {"stopped", "interrupted"}
    /\ saved' \in Survivors
    /\ memory' = [servers  |-> saved'.servers,
                  snippets |-> Seeded[saved'.snippets]]
    /\ phase' = "unsettled"

Next == Apply \/ Settle \/ Lose \/ Stop \/ Recover

Spec == Init /\ [][Next]_vars
=============================================================================
