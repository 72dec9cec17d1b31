----------------------------- MODULE MCStorage -----------------------------
(***************************************************************************)
(* Small instances of Storage: one server and one snippet that no clock    *)
(* stamped, at most MaxSecond stamped ones of each.                        *)
(***************************************************************************)
EXTENDS Storage

CONSTANTS demo, health, none, gone, torn, web, df

MCShippedServers ==
    [i \in ServerIds |->
        IF i = demo THEN [profile |-> web, status |-> "offline"] ELSE none]

MCShippedSnippets == [i \in SnippetIds |-> IF i = health THEN df ELSE none]

(* A backup that brings the shipped server with another status. *)
MCBackups ==
    {[servers  |-> [NoServers EXCEPT ![demo] = [profile |-> web, status |-> "online"]],
      snippets |-> MCShippedSnippets]}
============================================================================
