------------------------------- MODULE Storage -------------------------------
(***************************************************************************)
(* pkg/storage/storage.go and the handlers of main.go that call it: two    *)
(* tables held in memory under one mutex, rewritten to servers.json and    *)
(* snippets.json, in that order, by every operation that changes either.   *)
(*                                                                         *)
(* os.WriteFile truncates a file and then fills it, and the process may    *)
(* leave at any point between two system calls (os.Exit in the shutdown    *)
(* handler and in the lifecycle monitor), so a save is four steps.  The    *)
(* mutex is held from the change in memory to the end of the save: pc is   *)
(* the place of its holder, "idle" when it is free.                        *)
(***************************************************************************)
EXTENDS Integers, FiniteSets

CONSTANTS
    MaxSecond,          \* bound: the last second of the wall clock
    ForeignServerIds,   \* server ids that no clock stamped (shipped, imported)
    ForeignSnippetIds,  \* snippet ids that no clock stamped (seeded, imported)
    Blank,              \* the empty id
    Absent,             \* the entry of an id that is not in a table
    Missing,            \* a file that does not exist
    Torn,               \* a file that was truncated and not filled
    Profiles,           \* everything a server record holds but its status
    Texts,              \* everything a snippet holds but its id
    PingStatuses,       \* bound: the statuses that a ping may report
    ShippedServers,     \* data/servers.json of the repository
    ShippedSnippets,    \* data/snippets.json of the repository
    DefaultSnippets,    \* the snippets that seedDefaults installs
    Backups,            \* bound: the backups that may be imported
    DiskFaults          \* whether a write to the disk may fail

VARIABLES
    pc,            \* where the holder of the mutex is, or how the process ended
    servers,       \* Manager.servers
    snippets,      \* Manager.snippets
    serversFile,   \* servers.json
    snippetsFile,  \* snippets.json
    now,           \* the wall clock, to the second
    failed,        \* a write of the current save returned an error, ignored
    saved          \* history: what a restart would find after the last save

vars == <<pc, servers, snippets, serversFile, snippetsFile, now, failed, saved>>

-----------------------------------------------------------------------------
(* Types.  An id stamped during second t is t itself. *)

Seconds    == 1 .. MaxSecond
ServerIds  == Seconds \cup ForeignServerIds
SnippetIds == Seconds \cup ForeignSnippetIds

Statuses == {"unknown", "online", "offline"}
Server   == [profile : Profiles, status : Statuses]

ServerTables  == [ServerIds -> Server \cup {Absent}]
SnippetTables == [SnippetIds -> Texts \cup {Absent}]
NoServers     == [i \in ServerIds |-> Absent]
NoSnippets    == [i \in SnippetIds |-> Absent]

Saving  == {"openServers", "fillServers", "openSnippets", "fillSnippets"}
Running == Saving \cup {"idle"}
Down    == {"stopped", "interrupted"}

ASSUME ConstantsAssumption ==
    /\ MaxSecond \in Nat \ {0}
    /\ PingStatuses \subseteq Statuses
    /\ DiskFaults \in BOOLEAN
    /\ Absent \notin Server \cup Texts
    /\ Missing \notin ServerTables \cup SnippetTables
    /\ Torn \notin ServerTables \cup SnippetTables \cup {Missing}
    /\ ShippedServers \in ServerTables
    /\ ShippedSnippets \in SnippetTables
    /\ DefaultSnippets \in SnippetTables
    /\ Backups \subseteq [servers : ServerTables, snippets : SnippetTables]

TypeOK ==
    /\ pc \in Running \cup Down
    /\ servers \in ServerTables
    /\ snippets \in SnippetTables
    /\ serversFile \in ServerTables \cup {Missing, Torn}
    /\ snippetsFile \in SnippetTables \cup {Missing, Torn}
    /\ now \in Seconds
    /\ failed \in BOOLEAN
    /\ saved \in [servers : ServerTables, snippets : SnippetTables]

-----------------------------------------------------------------------------
(* Helpers. *)

(* What load makes of a file: a file that is missing or does not parse is
   ignored, and its table stays empty. *)
LoadedServers(file)  == IF file \in {Missing, Torn} THEN NoServers ELSE file
LoadedSnippets(file) == IF file \in {Missing, Torn} THEN NoSnippets ELSE file

(* seedDefaults installs the default snippets in an empty table. *)
Seeded == [t \in SnippetTables |-> IF t = NoSnippets THEN DefaultSnippets ELSE t]

(* An import overwrites what it names and keeps the rest. *)
Merged(table, news) ==
    [i \in DOMAIN table |-> IF news[i] = Absent THEN table[i] ELSE news[i]]

(* The key of a record that is saved: a blank one is stamped with the clock. *)
StampedId(i) == IF i = Blank THEN now ELSE i

(* Ids that a page may name: handed out before, or from elsewhere. *)
Known(foreign) == (1 .. now) \cup foreign

InMemory == [servers |-> servers, snippets |-> snippets]

OnDisk == [servers  |-> LoadedServers(serversFile),
           snippets |-> LoadedSnippets(snippetsFile)]

(* An operation holds the mutex, has changed the tables and starts to save. *)
BeginSave ==
    /\ pc = "idle"
    /\ pc' = "openServers"
    /\ failed' = FALSE
    /\ UNCHANGED <<serversFile, snippetsFile, now, saved>>

-----------------------------------------------------------------------------
(* The process starts and ends. *)

Init ==
    /\ pc = "stopped"
    /\ \/ serversFile = Missing /\ snippetsFile = Missing
       \/ serversFile = ShippedServers /\ snippetsFile = ShippedSnippets
    /\ servers = LoadedServers(serversFile)
    /\ snippets = LoadedSnippets(snippetsFile)
    /\ now = 1
    /\ failed = FALSE
    /\ saved = InMemory

(* Mutant: seedDefaults is not called. *)
Mut_NewManagerSeedsNothing ==
    /\ pc \in Down
    /\ servers' = LoadedServers(serversFile)
    /\ snippets' = LoadedSnippets(snippetsFile)
    /\ saved' = OnDisk
    /\ pc' = "openServers"
    /\ failed' = FALSE
    /\ UNCHANGED <<serversFile, snippetsFile, now>>

(* NewManager: load, seedDefaults, save. *)
NewManager ==
    /\ pc \in Down
    /\ servers' = LoadedServers(serversFile)
    /\ snippets' = Seeded[LoadedSnippets(snippetsFile)]
    /\ saved' = OnDisk
    /\ pc' = "openServers"
    /\ failed' = FALSE
    /\ UNCHANGED <<serversFile, snippetsFile, now>>

(* os.Exit waits for nobody: the process ends wherever the save is. *)
Exit ==
    /\ pc \in Running
    /\ pc' = IF pc = "idle" THEN "stopped" ELSE "interrupted"
    /\ UNCHANGED <<servers, snippets, serversFile, snippetsFile, now, failed, saved>>

Tick ==
    /\ now < MaxSecond
    /\ now' = now + 1
    /\ UNCHANGED <<pc, servers, snippets, serversFile, snippetsFile, failed, saved>>

-----------------------------------------------------------------------------
(* Operations. *)

(* Mutant: the handler keeps the status that the page sent. *)
Mut_SaveServerKeepsStatus(i, p) ==
    /\ BeginSave
    /\ servers' = [servers EXCEPT ![StampedId(i)] = [profile |-> p, status |-> ""]]
    /\ UNCHANGED snippets

(* POST /api/servers: a new record has a blank id. *)
SaveServer(i, p) ==
    /\ BeginSave
    /\ servers' = [servers EXCEPT ![StampedId(i)] =
                       [profile |-> p, status |-> "unknown"]]
    /\ UNCHANGED snippets

(* DELETE /api/servers refuses a blank id. *)
DeleteServer(i) ==
    /\ i # Blank
    /\ BeginSave
    /\ servers' = [servers EXCEPT ![i] = Absent]
    /\ UNCHANGED snippets

(* The answer of a ping, for a server that is still there. *)
UpdateServerStatus(i, status) ==
    /\ servers[i] # Absent
    /\ BeginSave
    /\ servers' = [servers EXCEPT ![i] =
                       [profile |-> servers[i].profile, status |-> status]]
    /\ UNCHANGED snippets

SaveSnippet(i, text) ==
    /\ BeginSave
    /\ snippets' = [snippets EXCEPT ![StampedId(i)] = text]
    /\ UNCHANGED servers

DeleteSnippet(i) ==
    /\ BeginSave
    /\ snippets' = [snippets EXCEPT ![i] = Absent]
    /\ UNCHANGED servers

ImportData(b) ==
    /\ BeginSave
    /\ servers' = Merged(servers, b.servers)
    /\ snippets' = Merged(snippets, b.snippets)

-----------------------------------------------------------------------------
(* save: truncate and fill servers.json, then snippets.json. *)

OpenServers ==
    /\ pc = "openServers"
    /\ serversFile' = Torn
    /\ pc' = "fillServers"
    /\ UNCHANGED <<servers, snippets, snippetsFile, now, failed, saved>>

(* Mutant: only the server table is written. *)
Mut_FillServersEndsSave ==
    /\ pc = "fillServers"
    /\ serversFile' = servers
    /\ pc' = "idle"
    /\ UNCHANGED <<servers, snippets, snippetsFile, now, failed>>
    /\ saved' = OnDisk'

FillServers ==
    /\ pc = "fillServers"
    /\ serversFile' = servers
    /\ pc' = "openSnippets"
    /\ UNCHANGED <<servers, snippets, snippetsFile, now, failed, saved>>

OpenSnippets ==
    /\ pc = "openSnippets"
    /\ snippetsFile' = Torn
    /\ pc' = "fillSnippets"
    /\ UNCHANGED <<servers, snippets, serversFile, now, failed, saved>>

(* The last write ends the save, which releases the mutex and answers. *)
FillSnippets ==
    /\ pc = "fillSnippets"
    /\ snippetsFile' = snippets
    /\ pc' = "idle"
    /\ UNCHANGED <<servers, snippets, serversFile, now, failed>>
    /\ saved' = OnDisk'

(* save ignores the error of a write and goes on, and reports success: a file
   that cannot be opened stays as it is, one that cannot be filled stays torn. *)
WriteServersFails ==
    /\ DiskFaults
    /\ pc \in {"openServers", "fillServers"}
    /\ pc' = "openSnippets"
    /\ failed' = TRUE
    /\ UNCHANGED <<servers, snippets, serversFile, snippetsFile, now, saved>>

WriteSnippetsFails ==
    /\ DiskFaults
    /\ pc \in {"openSnippets", "fillSnippets"}
    /\ pc' = "idle"
    /\ saved' = OnDisk
    /\ failed' = TRUE
    /\ UNCHANGED <<servers, snippets, serversFile, snippetsFile, now>>

-----------------------------------------------------------------------------
Operation ==
    \/ \E i \in Known(ForeignServerIds) \cup {Blank} :
           \E p \in Profiles : SaveServer(i, p)
    \/ \E i \in Known(ForeignServerIds) : DeleteServer(i)
    \/ \E i \in Known(ForeignServerIds), s \in PingStatuses : UpdateServerStatus(i, s)
    \/ \E i \in Known(ForeignSnippetIds) \cup {Blank} :
           \E text \in Texts : SaveSnippet(i, text)
    \/ \E i \in Known(ForeignSnippetIds) : DeleteSnippet(i)
    \/ \E b \in Backups : ImportData(b)

Save == OpenServers \/ FillServers \/ OpenSnippets \/ FillSnippets

Next ==
    \/ NewManager \/ Exit \/ Tick
    \/ Operation
    \/ Save
    \/ WriteServersFails \/ WriteSnippetsFails

Spec == Init /\ [][Next]_vars

-----------------------------------------------------------------------------
(* Properties. *)

(* When the mutex is free, both files hold the tables in memory: every
   operation wrote everything it changed before it answered.  Each save
   rewrites both tables, so one save without an error repairs what earlier
   saves failed to write. *)
QuiescentAgreement ==
    pc = "idle" /\ ~failed => serversFile = servers /\ snippetsFile = snippets

(* The storage keeps the promise of TableStore: a restart finds what was saved,
   and after a save that was interrupted, or that met an error, for each table
   the old value, the new value or nothing.  A save without an error finds the
   tables whole again, whatever was lost before. *)
Phase ==
    CASE pc = "idle"    -> IF failed THEN "lossy" ELSE "settled"
      [] pc \in Saving -> "unsettled"
      [] OTHER          -> pc

Table == INSTANCE TableStore WITH memory <- InMemory, phase <- Phase

ImplementsTableStore == Table!Spec
=============================================================================
