---------------------------- MODULE ToolsProofs ----------------------------
(***************************************************************************)
(* Proofs about Tools, for every set of servers, every number of calls and *)
(* of broadcasts that are under way at once, and each of the tabs.         *)
(*                                                                         *)
(* The state is in three groups: what the user chooses from (MenuInv), the *)
(* calls of a tab with what it displays (CallTypes, RowsInv), and the      *)
(* broadcasts with their cards (RunTypes, RunInv).                         *)
(***************************************************************************)
EXTENDS Tools, TLAPS

Call ==
    [op : {"none", "list", "action", "logs", "add"},
     server : Servers \cup {None}, age : {"newest", "older"},
     state : {"free", "sent", "rows", "nothing", "error", "done"}]

Run ==
    [state : {"free", "sent", "running", "done"}, asked : SUBSET Servers,
     targets : SUBSET Servers, results : [Servers -> Servers \cup {None}]]

(* What is selected or checked is offered; boxes are checked in the tab of the
   broadcast only, which has no select. *)
MenuInv ==
    /\ stored \subseteq Servers /\ listed \subseteq Servers
    /\ tab \in Tabs
    /\ options \subseteq Servers
    /\ selected \in options \cup {None}
    /\ checked \subseteq options
    /\ tab # "cluster" => checked = {}
    /\ tab = "cluster" => selected = None

CallTypes ==
    /\ shown \in [state : {"start", "loading", "rows", "error"}, of : Servers \cup {None}]
    /\ fresh \in BOOLEAN
    /\ calls \in [Calls -> Call]

RunTypes ==
    /\ runs \in [Runs -> Run]
    /\ grid \in [state : {"start", "broadcasting", "cards", "error"}, asked : SUBSET Servers,
                 cards : [Servers -> Servers \cup {None}]]

(* The newest call for a list is for the server that is selected, and so are
   the rows that it has brought. *)
RowsInv ==
    tab \in SelectTabs /\ selected # None =>
        /\ \A n \in Calls :
               calls[n].op = "list" /\ calls[n].age = "newest" => calls[n].server = selected
        /\ fresh /\ shown.state = "rows" => shown.of = selected

(* The tab of the broadcast has no other calls. *)
QuietInv == tab = "cluster" => \A n \in Calls : calls[n] = FreeCall

(* A broadcast leaves out none of its servers that is still stored; a result is
   that of its own server; when the wait is over, each has one. *)
RunInv ==
    \A n \in Runs :
        /\ \A t \in Servers : runs[n].results[t] \in {t, None}
        /\ runs[n].state \in {"running", "done"} => runs[n].asked \cap stored \subseteq runs[n].targets
        /\ runs[n].state = "done" => \A t \in runs[n].targets : runs[n].results[t] # None

ToolsInv ==
    /\ MenuInv
    /\ CallTypes /\ RowsInv /\ QuietInv
    /\ RunTypes /\ RunInv /\ EveryTargetReported

LEMMA ToolsInit == Init => ToolsInv
<1> SUFFICES ASSUME Init PROVE ToolsInv
    OBVIOUS
<1>1. FreeCall \in Call
    BY DEF FreeCall, Call
<1>2. NoOutput \in [Servers -> Servers \cup {None}] /\ \A t \in Servers : NoOutput[t] = None
    BY DEF NoOutput
<1>3. FreeRun \in Run /\ FreeRun.state = "free" /\ FreeRun.results = NoOutput
    BY <1>2 DEF FreeRun, Run
<1>4. MenuInv
    BY DEF Init, MenuInv
<1>5. CallTypes
    BY <1>1 DEF Init, CallTypes
<1>6. RunTypes
    BY <1>2, <1>3 DEF Init, RunTypes
<1>7. RowsInv
    BY DEF Init, RowsInv
<1>8. RunInv
    BY <1>2, <1>3 DEF Init, RunInv
<1>9. EveryTargetReported
    BY DEF Init, EveryTargetReported
<1>10. QuietInv
    BY DEF Init, QuietInv
<1> QED BY <1>4, <1>5, <1>6, <1>7, <1>8, <1>9, <1>10 DEF ToolsInv

-----------------------------------------------------------------------------
(* What each group of actions leaves alone. *)

Asking ==
    \/ LoadServices \/ LoadContainers \/ LoadPorts \/ LoadAuthorizedKeys \/ LoadServerStats
    \/ \E s \in Servers \cup {None} : Select(s)
    \/ \E s \in Servers : OpenMonitorForServer(s)
    \/ ExecuteSnippet
    \/ \E n \in Calls : ActionEnds(n)

Acting ==
    \/ ServiceAction \/ (\E op \in {"action", "logs"} : ContainerAction(op))
    \/ AddRemoteAuthorizedKey

Answering ==
    \E n \in Calls : Serve(n) \/ CallFails(n)
        \/ ShowServices(n) \/ ShowContainers(n) \/ ShowPorts(n)
        \/ ShowKeys(n) \/ ShowStats(n) \/ ShowOutput(n)

Choosing ==
    \/ UpdateServerDropdowns \/ RenderSnippets
    \/ (\E s \in Servers : SelectForSnippet(s))
    \/ RenderClusterCheckboxes \/ (\E s \in Servers : Toggle(s)) \/ SelectAllServersCluster

Broadcasting ==
    \E n \in Runs :
        \/ RunClusterCommand(n) \/ HandleClusterExec(n)
        \/ (\E t \in Servers : CommandEnds(n, t))
        \/ BroadcastCommand(n) \/ ShowCards(n) \/ BroadcastFails(n)

LEMMA NextIs ==
    Next => \/ \E s \in Servers : Delete(s)
            \/ Asking \/ Acting \/ Answering \/ Choosing \/ Broadcasting
BY DEF Next, Asking, Acting, Answering, Choosing, Broadcasting

LEMMA AnsweringStays ==
    Acting \/ Answering => UNCHANGED <<stored, listed, tab, options, selected, clusterVars>>
BY DEF Acting, Answering, ServiceAction, ContainerAction, AddRemoteAuthorizedKey, Act, Serve,
       CallFails, ShowServices, ShowContainers, ShowPorts, ShowKeys, ShowStats, ShowOutput,
       ShowAnswer

LEMMA AskingStays == Asking => UNCHANGED <<stored, listed, tab, options, clusterVars>>
BY DEF Asking, LoadServices, LoadContainers, LoadPorts, LoadAuthorizedKeys, LoadServerStats,
       Reload, Select, OpenMonitorForServer, ExecuteSnippet, ActionEnds

LEMMA ChoosingStays == Choosing => UNCHANGED <<stored, tab, shown, fresh, calls, runs, grid>>
BY DEF Choosing, UpdateServerDropdowns, RenderSnippets, SelectForSnippet,
       RenderClusterCheckboxes, Toggle, SelectAllServersCluster, clusterVars, tabVars

LEMMA BroadcastingStays ==
    Broadcasting => UNCHANGED <<stored, listed, tab, options, tabVars, checked>>
BY DEF Broadcasting, RunClusterCommand, HandleClusterExec, CommandEnds, BroadcastCommand,
       ShowCards, BroadcastFails

-----------------------------------------------------------------------------
(* What the user chooses from. *)

LEMMA MenuNext ==
    ASSUME MenuInv, [Next]_vars
    PROVE  MenuInv'
<1> USE DEF MenuInv
<1>1. ASSUME NEW s \in Servers, Delete(s) PROVE MenuInv'
    BY <1>1 DEF Delete, tabVars, clusterVars
<1>2. CASE Acting \/ Answering
    BY <1>2, AnsweringStays DEF clusterVars
<1>3. CASE Asking
  <2>1. UNCHANGED <<stored, listed, tab, options, checked>>
      BY <1>3, AskingStays DEF clusterVars
  <2>2. /\ selected' \in options \cup {None}
        /\ selected' # selected => tab # "cluster"
    <3>1. ASSUME NEW s \in Servers \cup {None}, Select(s)
          PROVE  selected' \in options \cup {None} /\ tab # "cluster"
        BY <3>1 DEF Select, SelectTabs, Tables
    <3>2. ASSUME NEW s \in Servers, OpenMonitorForServer(s)
          PROVE  selected' \in options \cup {None} /\ tab # "cluster"
        BY <3>2 DEF OpenMonitorForServer, SelectTabs
    <3>3. \/ selected' = selected
          \/ \E s \in Servers \cup {None} : Select(s)
          \/ \E s \in Servers : OpenMonitorForServer(s)
        BY <1>3 DEF Asking, LoadServices, LoadContainers, LoadPorts, LoadAuthorizedKeys,
                    LoadServerStats, Reload, ExecuteSnippet, ActionEnds
    <3> QED BY <3>1, <3>2, <3>3
  <2> QED BY <2>1, <2>2
<1>4. CASE UpdateServerDropdowns
    BY <1>4 DEF UpdateServerDropdowns, ValueKept, clusterVars, SelectTabs, Tables
<1>5. CASE RenderSnippets \/ \E s \in Servers : SelectForSnippet(s)
    BY <1>5 DEF RenderSnippets, SelectForSnippet, clusterVars, SelectTabs, Tables
<1>6. CASE RenderClusterCheckboxes \/ SelectAllServersCluster
    BY <1>6 DEF RenderClusterCheckboxes, SelectAllServersCluster, tabVars, SelectTabs, Tables
<1>7. ASSUME NEW s \in Servers, Toggle(s) PROVE MenuInv'
    BY <1>7 DEF Toggle, tabVars
<1>8. CASE Broadcasting
    BY <1>8, BroadcastingStays DEF tabVars
<1>9. CASE UNCHANGED vars
    BY <1>9 DEF vars, tabVars, clusterVars
<1> QED
    BY <1>1, <1>2, <1>3, <1>4, <1>5, <1>6, <1>7, <1>8, <1>9, NextIs DEF Choosing

-----------------------------------------------------------------------------
(* The calls. *)

(* A new call takes a free place and leaves the other calls as they are. *)
LEMMA AddedIs ==
    ASSUME NEW cs \in [Calls -> Call], NEW new \in Call, NEW c \in Added(cs, new)
    PROVE  /\ c \in [Calls -> Call]
           /\ \E n \in Calls : c = [cs EXCEPT ![n] = new]
BY DEF Added

LEMMA NewCallIs ==
    ASSUME NEW op \in {"list", "action", "logs", "add"}, NEW s \in Servers
    PROVE  /\ NewCall(op, s) \in Call
           /\ NewCall(op, s).op = op /\ NewCall(op, s).server = s
BY DEF NewCall, Call

LEMMA FreeCallIs == FreeCall \in Call /\ FreeCall.op = "none"
BY DEF FreeCall, Call

LEMMA OlderIs ==
    ASSUME NEW cs \in [Calls -> Call]
    PROVE  Older(cs) \in [Calls -> Call] /\ \A n \in Calls : Older(cs)[n].age = "older"
<1>1. \A c \in Call : [c EXCEPT !.age = "older"] \in Call
                      /\ [c EXCEPT !.age = "older"].age = "older"
    BY DEF Call
<1> QED BY <1>1 DEF Older

LEMMA DisplayIs ==
    ASSUME CallTypes, NEW st \in {"loading", "error"}
    PROVE  /\ Display(st) \in [state : {"start", "loading", "rows", "error"},
                               of : Servers \cup {None}]
           /\ Display(st).state = st
BY DEF CallTypes, Display

(* Whatever a list is asked for, it is the newest call afterwards, and what was
   displayed before is no longer said to be new. *)
LEMMA LoadIs ==
    ASSUME CallTypes, NEW cs \in [Calls -> Call], NEW s \in Servers \cup {None}, Load(cs, s)
    PROVE  /\ CallTypes'
           /\ s # None =>
                  /\ fresh' = FALSE
                  /\ \A n \in Calls : calls'[n].age = "newest" => calls'[n].server = s
<1>1. CASE s = None
    BY <1>1 DEF Load, CallTypes
<1>2. CASE s # None
  <2>1. /\ calls' \in Added(Older(cs), NewCall("list", s))
        /\ shown' = Display("loading") /\ fresh' = FALSE
      BY <1>2 DEF Load
  <2>2. NewCall("list", s) \in Call /\ NewCall("list", s).server = s
      BY <1>2, NewCallIs
  <2>3. /\ calls' \in [Calls -> Call]
        /\ \E n \in Calls : calls' = [Older(cs) EXCEPT ![n] = NewCall("list", s)]
      BY <2>1, <2>2, OlderIs, AddedIs
  <2>4. \A n \in Calls : calls'[n].age = "newest" => calls'[n].server = s
    <3>1. \A n \in Calls : calls'[n] = NewCall("list", s) \/ calls'[n] = Older(cs)[n]
        BY <2>3, OlderIs
    <3> QED BY <2>2, <3>1, OlderIs
  <2>5. CallTypes'
      BY <2>1, <2>3, DisplayIs DEF CallTypes
  <2> QED BY <2>1, <2>4, <2>5
<1> QED BY <1>1, <1>2

(* What asks for a list asks for that of the server which is selected then. *)
LEMMA AskingIs ==
    ASSUME CallTypes, Asking
    PROVE  \/ \E cs \in [Calls -> Call] : Load(cs, selected')
           \/ /\ UNCHANGED <<selected, shown, fresh>>
              /\ \E n \in Calls : calls' = [calls EXCEPT ![n] = FreeCall]
<1>1. calls \in [Calls -> Call]
    BY DEF CallTypes
<1>2. ASSUME NEW n \in Calls PROVE [calls EXCEPT ![n] = FreeCall] \in [Calls -> Call]
    BY <1>1, FreeCallIs
<1>3. CASE \/ LoadServices \/ LoadContainers \/ LoadPorts \/ LoadAuthorizedKeys
           \/ LoadServerStats \/ ExecuteSnippet
    BY <1>1, <1>3 DEF LoadServices, LoadContainers, LoadPorts, LoadAuthorizedKeys,
        LoadServerStats, ExecuteSnippet, Reload
<1>4. CASE \/ \E s \in Servers \cup {None} : Select(s)
           \/ \E s \in Servers : OpenMonitorForServer(s)
    BY <1>1, <1>4 DEF Select, OpenMonitorForServer
<1>5. ASSUME NEW n \in Calls, ActionEnds(n)
      PROVE  \/ \E cs \in [Calls -> Call] : Load(cs, selected')
             \/ /\ UNCHANGED <<selected, shown, fresh>>
                /\ \E m \in Calls : calls' = [calls EXCEPT ![m] = FreeCall]
    BY <1>2, <1>5 DEF ActionEnds
<1> QED BY <1>3, <1>4, <1>5 DEF Asking

(* A call that ends, or is answered, is no other call than before. *)
LEMMA RowsOfFewer ==
    ASSUME MenuInv, CallTypes, RowsInv, UNCHANGED <<tab, selected>>,
           \A n \in Calls : calls'[n].op = "list" /\ calls'[n].age = "newest" =>
               /\ calls[n].op = "list" /\ calls[n].age = "newest"
               /\ calls'[n].server = calls[n].server,
           fresh' /\ shown'.state = "rows" =>
               \/ UNCHANGED <<shown, fresh>>
               \/ \E n \in Calls : /\ calls[n].op = "list" /\ calls[n].age = "newest"
                                   /\ shown'.of = calls[n].server
    PROVE  RowsInv'
BY DEF RowsInv

LEMMA FreedIs ==
    ASSUME CallTypes, NEW n \in Calls, calls' = [calls EXCEPT ![n] = FreeCall]
    PROVE  /\ calls' \in [Calls -> Call]
           /\ \A m \in Calls : calls'[m].op = "list" => calls'[m] = calls[m]
BY FreeCallIs DEF CallTypes

LEMMA QuietNext ==
    ASSUME CallTypes, QuietInv, [Next]_vars
    PROVE  QuietInv'
<1>1. FreeCall.op = "none" /\ FreeCall.state = "free"
    BY DEF FreeCall
<1>2. CASE UNCHANGED <<tab, calls>>
    BY <1>2 DEF QuietInv
<1>3. CASE Acting
    BY <1>3, AnsweringStays
       DEF Acting, ServiceAction, ContainerAction, AddRemoteAuthorizedKey, QuietInv
<1>4. CASE Answering
  <2>1. tab # "cluster"
      BY <1>1, <1>4 DEF Answering, Serve, CallFails, ShowServices, ShowContainers, ShowPorts,
                        ShowKeys, ShowStats, ShowOutput, QuietInv
  <2> QED BY <1>4, <2>1, AnsweringStays DEF QuietInv
<1>5. CASE Asking
  <2>1. tab # "cluster"
    <3>1. ASSUME NEW n \in Calls, ActionEnds(n) PROVE calls[n].op # "none"
        BY <3>1 DEF ActionEnds
    <3> QED BY <1>1, <1>5, <3>1
            DEF Asking, LoadServices, LoadContainers, LoadPorts, LoadAuthorizedKeys,
                LoadServerStats, ExecuteSnippet, Select, OpenMonitorForServer, SelectTabs,
                Tables, QuietInv
  <2> QED BY <1>5, <2>1, AskingStays DEF QuietInv
<1>6. \/ \E s \in Servers : Delete(s)
      \/ Choosing \/ Broadcasting \/ UNCHANGED vars
      => UNCHANGED <<tab, calls>>
    BY ChoosingStays, BroadcastingStays DEF Delete, tabVars, vars
<1> QED BY <1>2, <1>3, <1>4, <1>5, <1>6, NextIs

LEMMA AnswersAre ==
    ASSUME NEW op \in {"none", "list", "action", "logs", "add"},
           op = "list" => tab \in Tabs \ {"cluster"}
    PROVE  Answers(op) \subseteq {"done", "rows", "nothing", "error"}
<1>1. CASE op # "list"
    BY <1>1 DEF Answers
<1>2. CASE op = "list" /\ tab \in Tables
    BY <1>2 DEF Answers, Tables
<1>3. CASE op = "list" /\ tab \in {"keys", "stats"}
    BY <1>3 DEF Answers, Tables
<1>4. CASE op = "list" /\ tab = "snippets"
  <2>1. tab \notin Tables /\ tab \notin {"keys", "stats"}
      BY <1>4 DEF Tables
  <2>2. Answers(op) = {"rows"}
      BY <1>4, <2>1 DEF Answers
  <2> QED BY <2>2
<1> QED BY <1>1, <1>2, <1>3, <1>4 DEF Tabs, SelectTabs

LEMMA CallNext ==
    ASSUME MenuInv, MenuInv', CallTypes, RowsInv, QuietInv, [Next]_vars
    PROVE  CallTypes' /\ RowsInv'
<1>1. CASE Asking
  <2>1. UNCHANGED <<tab, options>>
      BY <1>1, AskingStays
  <2>2. selected' \in Servers \cup {None}
      BY DEF MenuInv
  <2>3. ASSUME NEW cs \in [Calls -> Call], Load(cs, selected') PROVE CallTypes' /\ RowsInv'
    <3>1. CallTypes'
        BY <2>2, <2>3, LoadIs
    <3>2. selected' # None =>
              /\ fresh' = FALSE
              /\ \A n \in Calls : calls'[n].age = "newest" => calls'[n].server = selected'
        BY <2>2, <2>3, LoadIs
    <3> QED BY <3>1, <3>2 DEF RowsInv
  <2>4. ASSUME UNCHANGED <<selected, shown, fresh>>,
               NEW n \in Calls, calls' = [calls EXCEPT ![n] = FreeCall]
        PROVE  CallTypes' /\ RowsInv'
    <3>1. /\ calls' \in [Calls -> Call]
          /\ \A m \in Calls : calls'[m].op = "list" => calls'[m] = calls[m]
        BY <2>4, FreedIs
    <3>2. CallTypes'
        BY <2>4, <3>1 DEF CallTypes
    <3>3. RowsInv'
        BY <2>1, <2>4, <3>1, RowsOfFewer
    <3> QED BY <3>2, <3>3
  <2> QED BY <1>1, <2>3, <2>4, AskingIs
<1>2. ASSUME NEW op \in {"action", "logs", "add"}, NEW s \in Servers \cup {None}, Act(op, s)
      PROVE  CallTypes' /\ RowsInv'
  <2>1. /\ s \in Servers /\ calls' \in Added(calls, NewCall(op, s))
        /\ UNCHANGED <<tab, selected, shown, fresh>>
      BY <1>2 DEF Act
  <2>2. NewCall(op, s) \in Call /\ NewCall(op, s).op # "list"
      BY <2>1, NewCallIs
  <2>3. /\ calls' \in [Calls -> Call]
        /\ \E n \in Calls : calls' = [calls EXCEPT ![n] = NewCall(op, s)]
      BY <2>1, <2>2, AddedIs DEF CallTypes
  <2>4. \A m \in Calls : calls'[m].op = "list" => calls'[m] = calls[m]
      BY <2>2, <2>3 DEF CallTypes
  <2>5. CallTypes'
      BY <2>1, <2>3 DEF CallTypes
  <2>6. RowsInv'
      BY <2>1, <2>4, RowsOfFewer
  <2> QED BY <2>5, <2>6
<1>3. CASE Acting
  <2>1. selected \in Servers \cup {None} /\ shown.of \in Servers \cup {None}
      BY DEF MenuInv, CallTypes
  <2> QED BY <1>2, <1>3, <2>1
          DEF Acting, ServiceAction, ContainerAction, AddRemoteAuthorizedKey
<1>4. ASSUME NEW n \in Calls, Serve(n) PROVE CallTypes' /\ RowsInv'
  <2>1. calls[n] \in Call /\ calls[n].op \in {"none", "list", "action", "logs", "add"}
      BY DEF CallTypes, Call
  <2>2. tab \in Tabs /\ (calls[n].op = "list" => tab # "cluster")
      BY DEF MenuInv, QuietInv, FreeCall
  <2>3. PICK answer \in {"done", "rows", "nothing", "error"} :
            calls' = [calls EXCEPT ![n].state = answer]
      BY <1>4, <2>1, <2>2, AnswersAre DEF Serve
  <2>4. /\ [calls[n] EXCEPT !.state = answer] \in Call
        /\ [calls[n] EXCEPT !.state = answer].op = calls[n].op
        /\ [calls[n] EXCEPT !.state = answer].age = calls[n].age
        /\ [calls[n] EXCEPT !.state = answer].server = calls[n].server
      BY <2>1 DEF Call
  <2>5. /\ calls' \in [Calls -> Call]
        /\ \A m \in Calls : /\ calls'[m].op = calls[m].op /\ calls'[m].age = calls[m].age
                            /\ calls'[m].server = calls[m].server
    <3>1. calls' = [calls EXCEPT ![n] = [calls[n] EXCEPT !.state = answer]]
        BY <2>3
    <3> QED BY <2>4, <3>1 DEF CallTypes
  <2>6. UNCHANGED <<tab, selected, shown, fresh>>
      BY <1>4 DEF Serve
  <2>7. CallTypes'
      BY <2>5, <2>6 DEF CallTypes
  <2>8. RowsInv'
      BY <2>5, <2>6, RowsOfFewer
  <2> QED BY <2>7, <2>8
<1>5. ASSUME NEW n \in Calls, ShowAnswer(n) PROVE CallTypes' /\ RowsInv'
  <2>1. /\ calls' = [calls EXCEPT ![n] = FreeCall] /\ UNCHANGED <<tab, selected>>
        /\ calls[n].op = "list" /\ fresh' = (calls[n].age = "newest")
        /\ shown' = IF calls[n].state = "rows"
                    THEN [state |-> "rows", of |-> calls[n].server] ELSE Display("error")
      BY <1>5 DEF ShowAnswer
  <2>2. /\ calls' \in [Calls -> Call]
        /\ \A m \in Calls : calls'[m].op = "list" => calls'[m] = calls[m]
      BY <2>1, FreedIs
  <2>3. calls[n].server \in Servers \cup {None}
      BY DEF CallTypes, Call
  <2>4. CallTypes'
      BY <2>1, <2>2, <2>3, DisplayIs DEF CallTypes
  <2>5. shown'.state = "rows" => shown'.of = calls[n].server
      BY <2>1, DisplayIs
  <2>6. RowsInv'
      BY <2>1, <2>2, <2>5, RowsOfFewer
  <2> QED BY <2>4, <2>6
<1>6. ASSUME NEW n \in Calls, CallFails(n) PROVE CallTypes' /\ RowsInv'
  <2>1. /\ calls' = [calls EXCEPT ![n] = FreeCall] /\ UNCHANGED <<tab, selected>>
        /\ \/ shown' = Display("error") /\ fresh' = (calls[n].age = "newest")
           \/ UNCHANGED <<shown, fresh>>
      BY <1>6 DEF CallFails
  <2>2. /\ calls' \in [Calls -> Call]
        /\ \A m \in Calls : calls'[m].op = "list" => calls'[m] = calls[m]
      BY <2>1, FreedIs
  <2>3. CallTypes'
      BY <2>1, <2>2, DisplayIs DEF CallTypes
  <2>4. RowsInv'
      BY <2>1, <2>2, DisplayIs, RowsOfFewer
  <2> QED BY <2>3, <2>4
<1>7. CASE Answering
    BY <1>4, <1>5, <1>6, <1>7 DEF Answering, ShowServices, ShowContainers, ShowPorts,
        ShowKeys, ShowStats, ShowOutput
<1>8. CASE UpdateServerDropdowns
  <2>1. /\ UNCHANGED <<tab, shown, fresh, calls>>
        /\ selected' \in {selected, None}
      BY <1>8 DEF UpdateServerDropdowns, ValueKept
  <2> QED BY <2>1 DEF CallTypes, RowsInv
<1>9. CASE RenderSnippets \/ \E s \in Servers : SelectForSnippet(s)
  <2>1. UNCHANGED <<tab, shown, fresh, calls>> /\ tab \notin SelectTabs
      BY <1>9 DEF RenderSnippets, SelectForSnippet, SelectTabs, Tables
  <2> QED BY <2>1 DEF CallTypes, RowsInv
<1>10. UNCHANGED <<tab, selected, shown, fresh, calls>> => CallTypes' /\ RowsInv'
    BY DEF CallTypes, RowsInv
<1>11. CASE \/ \E s \in Servers : Delete(s)
            \/ RenderClusterCheckboxes \/ (\E s \in Servers : Toggle(s))
            \/ SelectAllServersCluster
    BY <1>10, <1>11 DEF Delete, RenderClusterCheckboxes, Toggle, SelectAllServersCluster, tabVars
<1>12. CASE Broadcasting \/ UNCHANGED vars
    BY <1>10, <1>12, BroadcastingStays DEF vars, tabVars
<1> QED
    BY <1>1, <1>3, <1>7, <1>8, <1>9, <1>11, <1>12, NextIs DEF Choosing

-----------------------------------------------------------------------------
(* The broadcasts. *)

LEMMA RunNext ==
    ASSUME MenuInv, RunTypes, RunInv, EveryTargetReported, [Next]_vars
    PROVE  RunTypes' /\ RunInv' /\ EveryTargetReported'
<1> DEFINE Good == RunTypes /\ RunInv /\ EveryTargetReported
<1>1. /\ NoOutput \in [Servers -> Servers \cup {None}] /\ \A t \in Servers : NoOutput[t] = None
      /\ FreeRun \in Run /\ FreeRun.state = "free" /\ FreeRun.results = NoOutput
    BY DEF NoOutput, FreeRun, Run
<1>2. CASE stored' \subseteq stored /\ UNCHANGED <<runs, grid>>
    BY <1>2 DEF RunTypes, RunInv, EveryTargetReported
<1>3. ASSUME NEW n \in Runs, NEW r \in Run, runs' = [runs EXCEPT ![n] = r], UNCHANGED stored,
             \A t \in Servers : r.results[t] \in {t, None},
             r.state \in {"running", "done"} => r.asked \cap stored \subseteq r.targets,
             r.state = "done" => \A t \in r.targets : r.results[t] # None
      PROVE  runs' \in [Runs -> Run] /\ RunInv'
    BY <1>3 DEF RunTypes, RunInv
<1>4. ASSUME NEW n \in Runs, RunClusterCommand(n) PROVE Good'
  <2>1. PICK r : r = [FreeRun EXCEPT !.state = "sent", !.asked = checked]
      OBVIOUS
  <2>2. r \in Run /\ r.state = "sent" /\ r.results = NoOutput
      BY <1>1, <2>1 DEF FreeRun, Run, MenuInv
  <2>3. runs' = [runs EXCEPT ![n] = r] /\ UNCHANGED stored
        /\ grid' = [grid EXCEPT !.state = "broadcasting", !.asked = {}, !.cards = NoOutput]
      BY <1>4, <2>1 DEF RunClusterCommand
  <2>4. runs' \in [Runs -> Run] /\ RunInv'
      BY <1>1, <1>3, <2>2, <2>3
  <2>5. RunTypes' /\ grid'.state = "broadcasting"
      BY <1>1, <2>3, <2>4 DEF RunTypes
  <2> QED BY <2>4, <2>5 DEF EveryTargetReported
<1>5. ASSUME NEW n \in Runs, NEW r \in Run, runs' = [runs EXCEPT ![n] = r],
             UNCHANGED <<stored, grid>>,
             \A t \in Servers : r.results[t] \in {t, None},
             r.state \in {"running", "done"} => r.asked \cap stored \subseteq r.targets,
             r.state = "done" => \A t \in r.targets : r.results[t] # None
      PROVE  Good'
    BY <1>3, <1>5 DEF RunTypes, EveryTargetReported
<1>6. ASSUME NEW n \in Runs, HandleClusterExec(n) PROVE Good'
  <2>0. PICK q \in Run : q = runs[n]
      BY DEF RunTypes
  <2>1. PICK r : r = [q EXCEPT !.state = "running", !.targets = q.asked \cap stored]
      OBVIOUS
  <2>2. /\ r \in Run /\ r.state = "running" /\ r.results = q.results
        /\ r.asked = q.asked /\ r.targets = q.asked \cap stored
      BY <2>1 DEF Run
  <2>3. runs' = [runs EXCEPT ![n] = r] /\ UNCHANGED <<stored, grid>>
      BY <1>6, <2>0, <2>1 DEF HandleClusterExec
  <2> QED BY <1>5, <2>0, <2>2, <2>3 DEF RunInv
<1>7. ASSUME NEW n \in Runs, NEW t \in Servers, CommandEnds(n, t) PROVE Good'
  <2>0. PICK q \in Run : q = runs[n]
      BY DEF RunTypes
  <2>1. PICK r : r = [q EXCEPT !.results[t] = t]
      OBVIOUS
  <2>2. /\ r \in Run /\ r.state = q.state /\ r.asked = q.asked
        /\ r.targets = q.targets /\ r.results = [q.results EXCEPT ![t] = t]
      BY <2>1 DEF Run
  <2>3. runs' = [runs EXCEPT ![n] = r] /\ UNCHANGED <<stored, grid>> /\ r.state = "running"
      BY <1>7, <2>0, <2>1, <2>2 DEF CommandEnds
  <2>4. \A u \in Servers : r.results[u] \in {u, None}
      BY <2>0, <2>2 DEF RunInv, Run
  <2> QED BY <1>5, <2>0, <2>2, <2>3, <2>4 DEF RunInv
<1>8. ASSUME NEW n \in Runs, BroadcastCommand(n) PROVE Good'
  <2>0. PICK q \in Run : q = runs[n]
      BY DEF RunTypes
  <2>1. PICK r : r = [q EXCEPT !.state = "done"]
      OBVIOUS
  <2>2. /\ r \in Run /\ r.asked = q.asked /\ r.targets = q.targets /\ r.results = q.results
      BY <2>1 DEF Run
  <2>3. /\ runs' = [runs EXCEPT ![n] = r] /\ UNCHANGED <<stored, grid>>
        /\ runs[n].state = "running" /\ \A t \in r.targets : r.results[t] # None
      BY <1>8, <2>0, <2>1, <2>2 DEF BroadcastCommand
  <2> QED BY <1>5, <2>0, <2>2, <2>3 DEF RunInv
<1>9. ASSUME NEW n \in Runs, ShowCards(n) \/ BroadcastFails(n),
             grid' \in [state : {"start", "broadcasting", "cards", "error"},
                        asked : SUBSET Servers, cards : [Servers -> Servers \cup {None}]],
             EveryTargetReported'
      PROVE  Good'
  <2>1. runs' = [runs EXCEPT ![n] = FreeRun] /\ UNCHANGED stored
      BY <1>9 DEF ShowCards, BroadcastFails
  <2> QED BY <1>1, <1>3, <1>9, <2>1 DEF RunTypes
<1>10. ASSUME NEW n \in Runs, ShowCards(n) PROVE Good'
  <2>1. /\ grid' = [state |-> "cards", asked |-> runs[n].asked, cards |-> runs[n].results]
        /\ runs[n].state = "done" /\ UNCHANGED stored
      BY <1>10 DEF ShowCards
  <2>2. runs[n] \in Run
      BY DEF RunTypes
  <2>3. EveryTargetReported'
      BY <2>1, <2>2 DEF EveryTargetReported, RunInv, Run
  <2>4. grid' \in [state : {"start", "broadcasting", "cards", "error"},
                   asked : SUBSET Servers, cards : [Servers -> Servers \cup {None}]]
      BY <2>1, <2>2 DEF Run
  <2> QED BY <1>9, <1>10, <2>3, <2>4
<1>11. ASSUME NEW n \in Runs, BroadcastFails(n) PROVE Good'
  <2>1. grid' = [state |-> "error", asked |-> {}, cards |-> NoOutput]
      BY <1>11 DEF BroadcastFails
  <2> QED BY <1>1, <1>9, <1>11, <2>1 DEF EveryTargetReported
<1>12. CASE Broadcasting
    BY <1>4, <1>6, <1>7, <1>8, <1>10, <1>11, <1>12 DEF Broadcasting
<1>13. CASE \E s \in Servers : Delete(s)
    BY <1>2, <1>13 DEF Delete, clusterVars
<1>14. CASE Acting \/ Answering \/ Asking \/ Choosing \/ UNCHANGED vars
    BY <1>2, <1>14, AnsweringStays, AskingStays, ChoosingStays DEF vars, clusterVars
<1> QED BY <1>12, <1>13, <1>14, NextIs

-----------------------------------------------------------------------------
LEMMA ToolsNext ==
    ASSUME ToolsInv, [Next]_vars
    PROVE  ToolsInv'
<1>1. MenuInv'
    BY MenuNext DEF ToolsInv
<1>2. CallTypes' /\ RowsInv'
    BY <1>1, CallNext DEF ToolsInv
<1>3. RunTypes' /\ RunInv' /\ EveryTargetReported'
    BY RunNext DEF ToolsInv
<1>4. QuietInv'
    BY QuietNext DEF ToolsInv
<1> QED BY <1>1, <1>2, <1>3, <1>4 DEF ToolsInv

(* The menus, the calls and the broadcasts keep their types: in particular a
   select never names a server that it does not offer, whatever list was
   fetched, and no box is checked that is not there. *)
THEOREM TypeCorrect == Spec => []TypeOK
<1>1. ToolsInv => TypeOK
    BY DEF ToolsInv, MenuInv, CallTypes, RunTypes, Call, Run, TypeOK
<1> QED BY <1>1, ToolsInit, ToolsNext, PTL DEF Spec

(* Rows that the newest call has brought are those of the server that the
   select names, whatever was selected, deleted, listed anew or answered in
   between. *)
THEOREM NewestRows == Spec => []NewestRowsOfSelected
<1>1. ToolsInv => NewestRowsOfSelected
    BY DEF ToolsInv, RowsInv, NewestRowsOfSelected
<1> QED BY <1>1, ToolsInit, ToolsNext, PTL DEF Spec

(* The cards are those of one broadcast: none of its servers that is still
   stored is missing, and each card has the output of its own server. *)
THEOREM TargetsReported == Spec => []EveryTargetReported
<1>1. ToolsInv => EveryTargetReported
    BY DEF ToolsInv
<1> QED BY <1>1, ToolsInit, ToolsNext, PTL DEF Spec

=============================================================================
