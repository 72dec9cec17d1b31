---------------------------- MODULE StorageProofs ----------------------------
(***************************************************************************)
(* Proofs about Storage, for every clock bound, every set of ids, profiles *)
(* and backups, and whether or not the disk fails.                         *)
(***************************************************************************)
EXTENDS Storage, TLAPS

(* Merging a table of a type with another of that type stays in the type. *)
LEMMA MergedType ==
    ASSUME NEW I, NEW V, NEW t \in [I -> V], NEW u \in [I -> V]
    PROVE  Merged(t, u) \in [I -> V]
<1>1. DOMAIN t = I
    OBVIOUS
<1>2. \A i \in I : (IF u[i] = Absent THEN t[i] ELSE u[i]) \in V
    OBVIOUS
<1> QED BY <1>1, <1>2 DEF Merged

LEMMA EmptyTables == NoServers \in ServerTables /\ NoSnippets \in SnippetTables
    BY DEF NoServers, NoSnippets, ServerTables, SnippetTables

(* Whatever is in a file, load yields a table, and so does seedDefaults. *)
LEMMA LoadedType ==
    /\ \A f \in ServerTables \cup {Missing, Torn} : LoadedServers(f) \in ServerTables
    /\ \A f \in SnippetTables \cup {Missing, Torn} : LoadedSnippets(f) \in SnippetTables
    BY EmptyTables DEF LoadedServers, LoadedSnippets

LEMMA SeededType == \A t \in SnippetTables : Seeded[t] \in SnippetTables
    BY ConstantsAssumption DEF Seeded

(* An operation leaves both tables in their types. *)
LEMMA OperationType ==
    ASSUME TypeOK, Operation
    PROVE  servers' \in ServerTables /\ snippets' \in SnippetTables
<1> USE DEF TypeOK
<1>0. now \in ServerIds \cap SnippetIds
    BY DEF ServerIds, SnippetIds
<1>1. \A i \in Known(ForeignServerIds) \cup {Blank} :
          i # Blank => i \in ServerIds
    BY ConstantsAssumption DEF Known, ServerIds, Seconds
<1>2. \A i \in Known(ForeignSnippetIds) \cup {Blank} :
          i # Blank => i \in SnippetIds
    BY ConstantsAssumption DEF Known, SnippetIds, Seconds
<1>3. CASE \E i \in Known(ForeignServerIds) \cup {Blank} :
               \E p \in Profiles : SaveServer(i, p)
  <2>1. PICK i \in Known(ForeignServerIds) \cup {Blank}, p \in Profiles : SaveServer(i, p)
      BY <1>3
  <2>2. StampedId(i) \in ServerIds
      BY <1>0, <1>1 DEF StampedId
  <2>3. [profile |-> p, status |-> "unknown"] \in Server
      BY DEF Server, Statuses
  <2> QED BY <2>1, <2>2, <2>3 DEF SaveServer, ServerTables
<1>4. CASE \E i \in Known(ForeignServerIds) : DeleteServer(i)
    BY <1>4, <1>1 DEF DeleteServer, ServerTables
<1>5. CASE \E i \in Known(ForeignServerIds), s \in PingStatuses : UpdateServerStatus(i, s)
  <2>1. PICK i \in Known(ForeignServerIds), s \in PingStatuses : UpdateServerStatus(i, s)
      BY <1>5
  <2>2. i \in ServerIds
      BY ConstantsAssumption DEF Known, ServerIds, Seconds
  <2>3. servers[i] \in Server
      BY <2>1, <2>2 DEF UpdateServerStatus, ServerTables
  <2>4. [profile |-> servers[i].profile, status |-> s] \in Server
      BY <2>3, ConstantsAssumption DEF Server
  <2> QED BY <2>1, <2>4 DEF UpdateServerStatus, ServerTables
<1>6. CASE \E i \in Known(ForeignSnippetIds) \cup {Blank} :
               \E text \in Texts : SaveSnippet(i, text)
  <2>1. PICK i \in Known(ForeignSnippetIds) \cup {Blank}, text \in Texts : SaveSnippet(i, text)
      BY <1>6
  <2> QED BY <2>1, <1>0, <1>2 DEF StampedId, SaveSnippet, SnippetTables
<1>7. CASE \E i \in Known(ForeignSnippetIds) : DeleteSnippet(i)
    BY <1>7 DEF DeleteSnippet, SnippetTables
<1>8. CASE \E b \in Backups : ImportData(b)
  <2>1. PICK b \in Backups : ImportData(b)
      BY <1>8
  <2>2. b.servers \in ServerTables /\ b.snippets \in SnippetTables
      BY ConstantsAssumption
  <2> QED BY <2>1, <2>2, MergedType DEF ImportData, ServerTables, SnippetTables
<1> QED BY <1>3, <1>4, <1>5, <1>6, <1>7, <1>8 DEF Operation

(* What else an operation does: it takes the mutex and starts a save. *)
LEMMA OperationBegins ==
    ASSUME Operation
    PROVE  BeginSave
    BY DEF Operation, SaveServer, DeleteServer, UpdateServerStatus, SaveSnippet,
           DeleteSnippet, ImportData

-----------------------------------------------------------------------------
(* Type correctness: whatever is stored, imported, torn or loaded, memory
   holds tables and every file holds a table or nothing that parses. *)
THEOREM TypeCorrect == Spec => []TypeOK
<1>1. Init => TypeOK
  <2> SUFFICES ASSUME Init PROVE TypeOK
      OBVIOUS
  <2>1. /\ serversFile \in ServerTables \cup {Missing, Torn}
        /\ snippetsFile \in SnippetTables \cup {Missing, Torn}
      BY ConstantsAssumption DEF Init
  <2>2. servers \in ServerTables /\ snippets \in SnippetTables
      BY <2>1, LoadedType DEF Init
  <2>3. now \in Seconds
      BY ConstantsAssumption DEF Init, Seconds
  <2>4. saved \in [servers : ServerTables, snippets : SnippetTables]
      BY <2>2 DEF Init, InMemory
  <2> QED BY <2>1, <2>2, <2>3, <2>4 DEF Init, TypeOK, Running, Down
<1>2. TypeOK /\ [Next]_vars => TypeOK'
  <2> SUFFICES ASSUME TypeOK, [Next]_vars PROVE TypeOK'
      OBVIOUS
  <2> USE DEF TypeOK, Running, Saving, Down
  <2>1. CASE NewManager
    <3>1. /\ LoadedServers(serversFile) \in ServerTables
          /\ LoadedSnippets(snippetsFile) \in SnippetTables
        BY LoadedType
    <3>2. Seeded[LoadedSnippets(snippetsFile)] \in SnippetTables
        BY <3>1, SeededType
    <3> QED BY <2>1, <3>1, <3>2 DEF NewManager, OnDisk
  <2>2. CASE Exit
      BY <2>2 DEF Exit
  <2>3. CASE Tick
      BY <2>3, ConstantsAssumption DEF Tick, Seconds
  <2>4. CASE Operation
      BY <2>4, OperationType, OperationBegins DEF BeginSave
  <2>5. CASE Save
    <3>1. CASE FillSnippets
      <4>1. OnDisk' \in [servers : ServerTables, snippets : SnippetTables]
          BY <3>1, LoadedType DEF FillSnippets, OnDisk, LoadedServers, LoadedSnippets
      <4> QED BY <3>1, <4>1 DEF FillSnippets
    <3>2. CASE OpenServers \/ FillServers \/ OpenSnippets
        BY <3>2 DEF OpenServers, FillServers, OpenSnippets
    <3> QED BY <2>5, <3>1, <3>2 DEF Save
  <2>6. CASE WriteServersFails
      BY <2>6 DEF WriteServersFails
  <2>7. CASE WriteSnippetsFails
      BY <2>7, LoadedType DEF WriteSnippetsFails, OnDisk
  <2>8. CASE UNCHANGED vars
      BY <2>8 DEF vars
  <2> QED BY <2>1, <2>2, <2>3, <2>4, <2>5, <2>6, <2>7, <2>8 DEF Next
<1> QED BY <1>1, <1>2, PTL DEF Spec

-----------------------------------------------------------------------------
(* The invariant that a save keeps from its first write to its last: what it
   has written so far is in the files, unless a write of it failed. *)
WrittenSoFar ==
    ~failed =>
        /\ pc \in {"openSnippets", "fillSnippets", "idle"} => serversFile = servers
        /\ pc = "idle" => snippetsFile = snippets

LEMMA WrittenInit == Init => WrittenSoFar
    BY DEF Init, WrittenSoFar

LEMMA WrittenNext == WrittenSoFar /\ [Next]_vars => WrittenSoFar'
<1> SUFFICES ASSUME WrittenSoFar, [Next]_vars PROVE WrittenSoFar'
    OBVIOUS
<1> USE DEF WrittenSoFar
<1>1. CASE NewManager
    BY <1>1 DEF NewManager
<1>2. CASE Exit
    BY <1>2 DEF Exit
<1>3. CASE Tick
    BY <1>3 DEF Tick
<1>4. CASE Operation
    BY <1>4, OperationBegins DEF BeginSave
<1>5. CASE Save
    BY <1>5 DEF Save, OpenServers, FillServers, OpenSnippets, FillSnippets
<1>6. CASE WriteServersFails
    BY <1>6 DEF WriteServersFails
<1>7. CASE WriteSnippetsFails
    BY <1>7 DEF WriteSnippetsFails
<1>8. CASE UNCHANGED vars
    BY <1>8 DEF vars
<1> QED BY <1>1, <1>2, <1>3, <1>4, <1>5, <1>6, <1>7, <1>8 DEF Next

(* When the mutex is free and no write failed, both files hold the tables. *)
THEOREM Agreement == Spec => []QuiescentAgreement
<1>1. WrittenSoFar => QuiescentAgreement
    BY DEF WrittenSoFar, QuiescentAgreement
<1> QED BY <1>1, WrittenInit, WrittenNext, PTL DEF Spec

-----------------------------------------------------------------------------
(* What a restart would find in the files, at each step of a save.  A write
   that fails leaves its file as it was, or torn; an interrupted save may have
   torn one file, and the save of the next start may be interrupted at the
   other: only for each file on its own can be said what it holds. *)
OldServers  == LoadedServers(serversFile) = saved.servers
OldSnippets == LoadedSnippets(snippetsFile) = saved.snippets

LeftServers  == LoadedServers(serversFile) \in {saved.servers, servers, NoServers}
LeftSnippets == LoadedSnippets(snippetsFile) \in {saved.snippets, snippets, NoSnippets}

Durable ==
    /\ pc \in {"idle", "stopped", "openServers"} => OldServers /\ OldSnippets
    /\ pc = "fillServers" => serversFile = Torn /\ OldSnippets
    /\ pc = "openSnippets" => LeftServers /\ OldSnippets
    /\ pc = "fillSnippets" => LeftServers /\ snippetsFile = Torn
    /\ pc = "interrupted" => LeftServers /\ LeftSnippets

LEMMA LoadedTable ==
    /\ \A t \in ServerTables : LoadedServers(t) = t
    /\ \A t \in SnippetTables : LoadedSnippets(t) = t
    /\ LoadedServers(Torn) = NoServers
    /\ LoadedSnippets(Torn) = NoSnippets
    BY ConstantsAssumption DEF LoadedServers, LoadedSnippets

LEMMA DurableInit == Init => Durable
    BY DEF Init, Durable, OldServers, OldSnippets, InMemory

LEMMA DurableNext ==
    ASSUME TypeOK, Durable, [Next]_vars
    PROVE  Durable'
<1> USE DEF TypeOK, Durable, OldServers, OldSnippets, LeftServers, LeftSnippets
<1>1. CASE NewManager
    BY <1>1 DEF NewManager, OnDisk
<1>2. CASE Exit
  <2>1. CASE pc = "idle"
      BY <1>2, <2>1 DEF Exit
  <2>2. CASE pc # "idle"
    <3>1. pc' = "interrupted" /\ pc \in Saving
        BY <1>2, <2>2 DEF Exit, Running
    <3>2. LeftServers /\ LeftSnippets
        BY <3>1, LoadedTable DEF Saving
    <3> QED BY <1>2, <3>1, <3>2 DEF Exit
  <2> QED BY <2>1, <2>2
<1>3. CASE Tick
    BY <1>3 DEF Tick
<1>4. CASE Operation
    BY <1>4, OperationBegins DEF BeginSave
<1>5. CASE Save
  <2>1. CASE OpenServers
      BY <2>1 DEF OpenServers
  <2>2. CASE FillServers
      BY <2>2, LoadedTable DEF FillServers
  <2>3. CASE OpenSnippets
      BY <2>3 DEF OpenSnippets
  <2>4. CASE FillSnippets
    <3>1. pc' = "idle" /\ saved' = OnDisk'
        BY <2>4 DEF FillSnippets
    <3> QED BY <3>1 DEF OnDisk
  <2> QED BY <1>5, <2>1, <2>2, <2>3, <2>4 DEF Save
<1>6. CASE WriteServersFails
    BY <1>6, LoadedTable DEF WriteServersFails
<1>7. CASE WriteSnippetsFails
    BY <1>7 DEF WriteSnippetsFails, OnDisk
<1>8. CASE UNCHANGED vars
    BY <1>8 DEF vars
<1> QED BY <1>1, <1>2, <1>3, <1>4, <1>5, <1>6, <1>7, <1>8 DEF Next

(* Every step of the storage is a step of TableStore, or none. *)
LEMMA TableStep ==
    ASSUME TypeOK, TypeOK', Durable, WrittenSoFar, [Next]_vars
    PROVE  [Table!Next]_(Table!vars)
<1> USE DEF Table!vars, Table!Next
<1>1. CASE NewManager
  <2>1. Phase = pc /\ Phase' = "unsettled"
      BY <1>1 DEF NewManager, Phase, Down, Saving
  <2>2. saved' = OnDisk
      BY <1>1 DEF NewManager
  <2>3. InMemory' = [servers |-> saved'.servers, snippets |-> Seeded[saved'.snippets]]
      BY <1>1, <2>2 DEF NewManager, InMemory, OnDisk
  <2>4. saved' \in Table!Survivors
    <3>1. CASE pc = "stopped"
      <4>1. saved = [servers |-> saved.servers, snippets |-> saved.snippets]
          BY DEF TypeOK
      <4> QED BY <2>1, <2>2, <3>1, <4>1
              DEF Table!Survivors, Durable, OldServers, OldSnippets, OnDisk
    <3>2. CASE pc = "interrupted"
        BY <2>1, <2>2, <3>2 DEF Table!Survivors, Table!Remains, Durable, LeftServers,
                                LeftSnippets, InMemory, OnDisk
    <3> QED BY <1>1, <3>1, <3>2 DEF NewManager, Down
  <2>5. Table!Recover
      BY <1>1, <2>1, <2>3, <2>4 DEF Table!Recover, NewManager, Down
  <2> QED BY <2>5
<1>2. CASE Exit
  <2>1. UNCHANGED <<InMemory, saved>>
      BY <1>2 DEF Exit, InMemory
  <2>2. Phase \in {"unsettled", "settled", "lossy"}
      BY <1>2 DEF Exit, Phase, Running
  <2>3. Phase' = IF Phase = "unsettled" THEN "interrupted" ELSE "stopped"
    <3>1. CASE pc = "idle"
        BY <1>2, <3>1 DEF Exit, Phase, Running, Saving
    <3>2. CASE pc \in Saving
        BY <1>2, <3>2 DEF Exit, Phase, Running, Saving
    <3> QED BY <1>2, <3>1, <3>2 DEF Exit, Running
  <2> QED BY <2>1, <2>2, <2>3 DEF Table!Stop
<1>3. CASE Tick
    BY <1>3 DEF Tick, InMemory, Phase
<1>4. CASE Operation
  <2>1. BeginSave
      BY <1>4, OperationBegins
  <2>2. Phase \in {"settled", "lossy"} /\ Phase' = "unsettled" /\ saved' = saved
      BY <2>1 DEF BeginSave, Phase, Saving
  <2>3. InMemory' \in Table!Stores
      BY DEF TypeOK, InMemory, Table!Stores
  <2> QED BY <2>2, <2>3 DEF Table!Apply
<1>5. CASE OpenServers \/ FillServers \/ OpenSnippets \/ WriteServersFails
    BY <1>5 DEF OpenServers, FillServers, OpenSnippets, WriteServersFails, InMemory, Phase,
                Saving
<1>6. CASE FillSnippets
  <2>1. Phase = "unsettled" /\ InMemory' = InMemory /\ saved' = OnDisk'
      BY <1>6 DEF FillSnippets, Phase, Saving, InMemory
  <2>2. snippetsFile' = snippets /\ serversFile' = serversFile
      BY <1>6 DEF FillSnippets
  <2>3. CASE failed
    <3>1. Phase' = "lossy"
        BY <1>6, <2>3 DEF FillSnippets, Phase, Saving
    <3>2. LeftServers
        BY <1>6 DEF FillSnippets, Durable
    <3>3. OnDisk' = [servers |-> LoadedServers(serversFile), snippets |-> snippets]
        BY <2>2, LoadedTable DEF OnDisk, TypeOK
    <3>4. saved' \in Table!Remains
        BY <2>1, <3>2, <3>3 DEF Table!Remains, LeftServers, InMemory
    <3> QED BY <2>1, <3>1, <3>4 DEF Table!Lose
  <2>4. CASE ~failed
    <3>1. Phase' = "settled"
        BY <1>6, <2>4 DEF FillSnippets, Phase, Saving
    <3>2. serversFile = servers
        BY <1>6, <2>4 DEF FillSnippets, WrittenSoFar
    <3>3. OnDisk' = InMemory
        BY <2>2, <3>2, LoadedTable DEF OnDisk, TypeOK, InMemory
    <3> QED BY <2>1, <3>1, <3>3 DEF Table!Settle
  <2> QED BY <2>3, <2>4
<1>7. CASE WriteSnippetsFails
  <2>1. Phase = "unsettled" /\ Phase' = "lossy" /\ InMemory' = InMemory /\ saved' = OnDisk
      BY <1>7 DEF WriteSnippetsFails, Phase, Saving, InMemory
  <2>2. LeftServers /\ LeftSnippets
      BY <1>7, LoadedTable DEF WriteSnippetsFails, Durable, OldSnippets, LeftServers,
                               LeftSnippets
  <2>3. saved' \in Table!Remains
      BY <2>1, <2>2 DEF Table!Remains, LeftServers, LeftSnippets, InMemory, OnDisk
  <2> QED BY <2>1, <2>3 DEF Table!Lose
<1>8. CASE UNCHANGED vars
    BY <1>8 DEF vars, InMemory, Phase
<1> QED BY <1>1, <1>2, <1>3, <1>4, <1>5, <1>6, <1>7, <1>8 DEF Next, Save

(* The storage implements TableStore: a restart finds what was saved, or what
   an interrupted save or a failing disk leaves of each table. *)
THEOREM Refinement == Spec => ImplementsTableStore
<1>1. Init => Table!Init
  <2> SUFFICES ASSUME Init PROVE Table!Init
      OBVIOUS
  <2>1. /\ serversFile \in ServerTables \cup {Missing, Torn}
        /\ snippetsFile \in SnippetTables \cup {Missing, Torn}
      BY ConstantsAssumption DEF Init
  <2>2. InMemory \in Table!Stores
      BY <2>1, LoadedType DEF Init, InMemory, Table!Stores
  <2>3. Phase = "stopped"
      BY DEF Init, Phase, Saving
  <2> QED BY <2>2, <2>3 DEF Init, Table!Init
<1>2. TypeOK /\ Durable /\ [Next]_vars => Durable'
    BY DurableNext
<1>3. TypeOK /\ TypeOK' /\ Durable /\ WrittenSoFar /\ [Next]_vars
          => [Table!Next]_(Table!vars)
    BY TableStep
<1> QED BY <1>1, <1>2, <1>3, DurableInit, WrittenInit, WrittenNext, TypeCorrect, PTL
        DEF Spec, ImplementsTableStore, Table!Spec

=============================================================================
