------------------------------- MODULE Tools -------------------------------
(***************************************************************************)
(* The tool tabs of the page (web/static/js/app.js): systemd services,     *)
(* containers, ports, authorized keys, statistics, the output of a         *)
(* snippet, and the broadcast of a command, with the goroutines of         *)
(* BroadcastCommand (pkg/sshclient/features.go) behind the last.           *)
(*                                                                         *)
(* The tabs have nothing in common but the list of servers, so a behaviour *)
(* is that of one of them.  In all but the broadcast the user selects a    *)
(* server, the tab says that it is waiting, and whatever answer comes last *)
(* is what it shows: no call is withdrawn.                                 *)
(***************************************************************************)
EXTENDS Integers, FiniteSets

CONSTANTS
    Servers,  \* ids of servers
    None,     \* no server
    MaxCalls, \* bound: calls of a tab that are under way at once
    MaxRuns   \* bound: broadcasts that are under way at once

VARIABLES
    stored,    \* the servers in the storage
    listed,    \* servers: those that the page has fetched
    tab,       \* the tab that is looked at
    options,   \* the servers that its select, or its check boxes, offer
    selected,  \* the value of its select
    shown,     \* what it displays, and of which server
    fresh,     \* history: the answer to its newest call is displayed
    calls,     \* its calls that are under way
    checked,   \* the boxes that are checked
    runs,      \* broadcasts that are under way
    grid       \* what the tab of the broadcast displays

tabVars == <<selected, shown, fresh, calls>>
clusterVars == <<checked, runs, grid>>
vars == <<stored, listed, tab, options, tabVars, clusterVars>>

ASSUME ConstantsAssumption ==
    /\ None \notin Servers
    /\ MaxCalls \in Nat \ {0}
    /\ MaxRuns \in Nat \ {0}

Tables == {"services", "docker", "ports"}

(* Tabs whose select asks for an answer as soon as it changes. *)
SelectTabs == Tables \cup {"keys", "stats"}

Tabs == SelectTabs \cup {"snippets", "cluster"}

Calls == 1..MaxCalls

FreeCall == [op |-> "none", server |-> None, age |-> "older", state |-> "free"]

NewCall(op, s) ==
    [op |-> op, server |-> s, age |-> IF op = "list" THEN "newest" ELSE "older",
     state |-> "sent"]

Runs == 1..MaxRuns

NoOutput == [t \in Servers |-> None]

FreeRun == [state |-> "free", asked |-> {}, targets |-> {}, results |-> NoOutput]

TypeOK ==
    /\ stored \subseteq Servers /\ listed \subseteq Servers
    /\ tab \in Tabs
    /\ options \subseteq Servers
    /\ selected \in options \cup {None}
    /\ shown \in [state : {"start", "loading", "rows", "error"}, of : Servers \cup {None}]
    /\ fresh \in BOOLEAN
    /\ calls \in
           [Calls ->
               [op : {"none", "list", "action", "logs", "add"},
                server : Servers \cup {None}, age : {"newest", "older"},
                state : {"free", "sent", "rows", "nothing", "error", "done"}]]
    /\ checked \subseteq options
    /\ runs \in
           [Runs ->
               [state : {"free", "sent", "running", "done"}, asked : SUBSET Servers,
                targets : SUBSET Servers, results : [Servers -> Servers \cup {None}]]]
    /\ grid \in
           [state : {"start", "broadcasting", "cards", "error"}, asked : SUBSET Servers,
            cards : [Servers -> Servers \cup {None}]]

Init ==
    /\ stored \in SUBSET Servers
    /\ listed = {}
    /\ tab \in Tabs
    /\ options = {}
    /\ selected = None
    /\ shown = [state |-> "start", of |-> None]
    /\ fresh = FALSE
    /\ calls = [n \in Calls |-> FreeCall]
    /\ checked = {}
    /\ runs = [n \in Runs |-> FreeRun]
    /\ grid = [state |-> "start", asked |-> {}, cards |-> NoOutput]

-----------------------------------------------------------------------------
(* The list of servers. *)

Delete(s) ==
    /\ s \in stored
    /\ stored' = stored \ {s}
    /\ UNCHANGED <<listed, tab, options, tabVars, clusterVars>>

(* Mutant: the select keeps the place of its value, and so gets another. *)
Mut_SelectKeepsPlace(offered) ==
    IF selected \in offered THEN selected
    ELSE IF selected = None \/ offered = {} THEN None
    ELSE CHOOSE s \in offered : TRUE

(* A select that is given a value it does not offer has none. *)
ValueKept(offered) == IF selected \in offered THEN selected ELSE None

(* loadServers, which PageLists has in full.  Neither the selects of the
   snippets nor the check boxes are among the ids, and the answer for an empty
   table is null, over which renderServers throws before the selects are made
   anew. *)
UpdateServerDropdowns ==
    /\ listed' = stored
    /\ IF tab \in SelectTabs /\ stored # {}
       THEN options' = stored /\ selected' = ValueKept(stored)
       ELSE UNCHANGED <<options, selected>>
    /\ UNCHANGED <<stored, tab, shown, fresh, calls, clusterVars>>

-----------------------------------------------------------------------------
(* The calls of a tab. *)

(* The first that is free takes the new call. *)
Added(cs, new) ==
    {[cs EXCEPT ![n] = new] : n \in
        {n \in Calls : cs[n] = FreeCall /\ \A m \in 1..(n - 1) : cs[m] # FreeCall}}

Older(cs) == [n \in Calls |-> [cs[n] EXCEPT !.age = "older"]]

(* Statistics that are displayed stay until others replace them, and only
   the text beside them tells of the call or of the error. *)
Display(state) ==
    [state |-> state, of |-> IF tab = "stats" THEN shown.of ELSE None]

(* Without a server the function returns at once. *)
Load(cs, s) ==
    IF s = None
    THEN calls' = cs /\ UNCHANGED <<shown, fresh>>
    ELSE /\ calls' \in Added(Older(cs), NewCall("list", s))
         /\ shown' = Display("loading")
         /\ fresh' = FALSE

Select(s) ==
    /\ tab \in SelectTabs
    /\ s \in (options \cup {None}) \ {selected}
    /\ selected' = s
    /\ Load(calls, s)
    /\ UNCHANGED <<stored, listed, tab, options, clusterVars>>

OpenMonitorForServer(s) ==
    /\ tab = "stats"
    /\ s \in options
    /\ selected' = s
    /\ Load(calls, s)
    /\ UNCHANGED <<stored, listed, tab, options, clusterVars>>

Reload ==
    /\ selected # None
    /\ Load(calls, selected)
    /\ UNCHANGED <<stored, listed, tab, options, selected, clusterVars>>

LoadServices == tab = "services" /\ Reload

LoadContainers == tab = "docker" /\ Reload

LoadPorts == tab = "ports" /\ Reload

LoadAuthorizedKeys == tab = "keys" /\ Reload

LoadServerStats == tab = "stats" /\ Reload

(* The selects of the snippets are made anew with the list of snippets.  This
   throws when servers is null, like all that reads it: a list without servers
   is null, or the page's own at its start, and then there is nothing to make. *)
RenderSnippets ==
    /\ tab = "snippets"
    /\ listed # {}
    /\ options' = listed
    /\ selected' = None
    /\ UNCHANGED <<stored, listed, tab, shown, fresh, calls, clusterVars>>

SelectForSnippet(s) ==
    /\ tab = "snippets"
    /\ s \in options
    /\ selected' = s
    /\ UNCHANGED <<stored, listed, tab, options, shown, fresh, calls, clusterVars>>

ExecuteSnippet == tab = "snippets" /\ listed # {} /\ Reload

-----------------------------------------------------------------------------
(* What acts on a server. *)

Act(op, s) ==
    /\ s # None
    /\ calls' \in Added(calls, NewCall(op, s))
    /\ UNCHANGED <<stored, listed, tab, options, selected, shown, fresh, clusterVars>>

(* The button of a row carries the server that the row came from. *)
ServiceAction == tab = "services" /\ shown.state = "rows" /\ Act("action", shown.of)

ContainerAction(op) == tab = "docker" /\ shown.state = "rows" /\ Act(op, shown.of)

AddRemoteAuthorizedKey == tab = "keys" /\ Act("add", selected)

-----------------------------------------------------------------------------
(* The server, and the answers. *)

(* A list without entries is null.  A command that fails is an error of the
   lists and of the statistics, and part of the output of a snippet. *)
Answers(op) ==
    CASE op # "list" -> {"done"}
      [] op = "list" /\ tab \in Tables -> {"rows", "nothing", "error"}
      [] op = "list" /\ tab \in {"keys", "stats"} -> {"rows", "error"}
      [] op = "list" /\ tab = "snippets" -> {"rows"}

Serve(n) ==
    /\ calls[n].state = "sent"
    /\ \E answer \in IF calls[n].server \in stored THEN Answers(calls[n].op) ELSE {"error"} :
           calls' = [calls EXCEPT ![n].state = answer]
    /\ UNCHANGED <<stored, listed, tab, options, selected, shown, fresh, clusterVars>>

(* What is not a list, null included, ends in the catch of the function. *)
ShowAnswer(n) ==
    /\ calls[n].op = "list"
    /\ calls[n].state \in {"rows", "nothing", "error"}
    /\ shown' = IF calls[n].state = "rows"
                THEN [state |-> "rows", of |-> calls[n].server]
                ELSE Display("error")
    /\ fresh' = (calls[n].age = "newest")
    /\ calls' = [calls EXCEPT ![n] = FreeCall]
    /\ UNCHANGED <<stored, listed, tab, options, selected, clusterVars>>

ShowServices(n) == tab = "services" /\ ShowAnswer(n)

ShowContainers(n) == tab = "docker" /\ ShowAnswer(n)

ShowPorts(n) == tab = "ports" /\ ShowAnswer(n)

ShowKeys(n) == tab = "keys" /\ ShowAnswer(n)

ShowStats(n) == tab = "stats" /\ ShowAnswer(n)

ShowOutput(n) == tab = "snippets" /\ ShowAnswer(n)

(* serviceAction and containerAction look at the text of the answer only,
   and ask for the rows of the server that is selected by then. *)
ActionEnds(n) ==
    LET freed == [calls EXCEPT ![n] = FreeCall] IN
    /\ calls[n].op \in {"action", "logs", "add"}
    /\ calls[n].state \in {"done", "error"}
    /\ IF calls[n].op = "logs" \/ (calls[n].op = "add" /\ calls[n].state = "error")
       THEN calls' = freed /\ UNCHANGED <<shown, fresh>>
       ELSE Load(freed, selected)
    /\ UNCHANGED <<stored, listed, tab, options, selected, clusterVars>>

(* No answer. *)
CallFails(n) ==
    /\ calls[n] # FreeCall
    /\ calls' = [calls EXCEPT ![n] = FreeCall]
    /\ IF calls[n].op = "list"
       THEN shown' = Display("error") /\ fresh' = (calls[n].age = "newest")
       ELSE UNCHANGED <<shown, fresh>>
    /\ UNCHANGED <<stored, listed, tab, options, selected, clusterVars>>

-----------------------------------------------------------------------------
(* The broadcast. *)

(* Mutant: boxes that are checked stay so. *)
Mut_RenderKeepsChecks ==
    /\ tab = "cluster"
    /\ listed # {}
    /\ options' = listed
    /\ UNCHANGED <<stored, listed, tab, tabVars, clusterVars>>

(* switchTab: every box is checked again whenever the tab is entered. *)
RenderClusterCheckboxes ==
    /\ tab = "cluster"
    /\ listed # {}
    /\ options' = listed
    /\ checked' = listed
    /\ UNCHANGED <<stored, listed, tab, tabVars, runs, grid>>

Toggle(s) ==
    /\ tab = "cluster"
    /\ s \in options
    /\ checked' = IF s \in checked THEN checked \ {s} ELSE checked \cup {s}
    /\ UNCHANGED <<stored, listed, tab, options, tabVars, runs, grid>>

SelectAllServersCluster ==
    /\ tab = "cluster"
    /\ checked' = options
    /\ UNCHANGED <<stored, listed, tab, options, tabVars, runs, grid>>

RunClusterCommand(n) ==
    /\ tab = "cluster"
    /\ checked # {}
    /\ runs[n] = FreeRun /\ \A m \in 1..(n - 1) : runs[m] # FreeRun
    /\ runs' = [runs EXCEPT ![n] = [FreeRun EXCEPT !.state = "sent", !.asked = checked]]
    /\ grid' = [grid EXCEPT !.state = "broadcasting", !.asked = {}, !.cards = NoOutput]
    /\ UNCHANGED <<stored, listed, tab, options, tabVars, checked>>

(* Servers that are no longer stored are passed over. *)
HandleClusterExec(n) ==
    /\ runs[n].state = "sent"
    /\ runs' = [runs EXCEPT ![n].state = "running", ![n].targets = runs[n].asked \cap stored]
    /\ UNCHANGED <<stored, listed, tab, options, tabVars, checked, grid>>

(* Mutant: the goroutines share the variable of the loop. *)
Mut_CommandEndsShared(n, t) ==
    /\ runs[n].state = "running"
    /\ t \in runs[n].targets
    /\ runs[n].results[t] = None
    /\ \E u \in runs[n].targets : runs' = [runs EXCEPT ![n].results[t] = u]
    /\ UNCHANGED <<stored, listed, tab, options, tabVars, checked, grid>>

(* Each goroutine has its own server, and its own place in the results.  A
   command that fails has a result as well. *)
CommandEnds(n, t) ==
    /\ runs[n].state = "running"
    /\ t \in runs[n].targets
    /\ runs[n].results[t] = None
    /\ runs' = [runs EXCEPT ![n].results[t] = t]
    /\ UNCHANGED <<stored, listed, tab, options, tabVars, checked, grid>>

(* wg.Wait *)
BroadcastCommand(n) ==
    /\ runs[n].state = "running"
    /\ \A t \in runs[n].targets : runs[n].results[t] # None
    /\ runs' = [runs EXCEPT ![n].state = "done"]
    /\ UNCHANGED <<stored, listed, tab, options, tabVars, checked, grid>>

ShowCards(n) ==
    /\ runs[n].state = "done"
    /\ grid' = [state |-> "cards", asked |-> runs[n].asked, cards |-> runs[n].results]
    /\ runs' = [runs EXCEPT ![n] = FreeRun]
    /\ UNCHANGED <<stored, listed, tab, options, tabVars, checked>>

(* No answer; what becomes of the goroutines is not displayed. *)
BroadcastFails(n) ==
    /\ runs[n] # FreeRun
    /\ grid' = [state |-> "error", asked |-> {}, cards |-> NoOutput]
    /\ runs' = [runs EXCEPT ![n] = FreeRun]
    /\ UNCHANGED <<stored, listed, tab, options, tabVars, checked>>

Next ==
    \/ \E s \in Servers : Delete(s)
    \/ UpdateServerDropdowns
    \/ LoadServices
    \/ LoadContainers
    \/ LoadPorts
    \/ LoadAuthorizedKeys
    \/ LoadServerStats
    \/ \E s \in Servers \cup {None} : Select(s)
    \/ \E s \in Servers : OpenMonitorForServer(s) \/ SelectForSnippet(s)
    \/ RenderSnippets
    \/ ExecuteSnippet
    \/ ServiceAction
    \/ \E op \in {"action", "logs"} : ContainerAction(op)
    \/ AddRemoteAuthorizedKey
    \/ \E n \in Calls :
           \/ Serve(n)
           \/ ShowServices(n)
           \/ ShowContainers(n)
           \/ ShowPorts(n)
           \/ ShowKeys(n)
           \/ ShowStats(n)
           \/ ShowOutput(n)
           \/ ActionEnds(n)
           \/ CallFails(n)
    \/ RenderClusterCheckboxes
    \/ \E s \in Servers : Toggle(s)
    \/ SelectAllServersCluster
    \/ \E n \in Runs :
           \/ RunClusterCommand(n)
           \/ HandleClusterExec(n)
           \/ \E t \in Servers : CommandEnds(n, t)
           \/ BroadcastCommand(n)
           \/ ShowCards(n)
           \/ BroadcastFails(n)

Spec == Init /\ [][Next]_vars

-----------------------------------------------------------------------------
(* Properties. *)

(* updateServerDropdowns, the selects and the calls after an action: rows or
   figures that the newest call has brought are those of the server that the
   select names, whatever was deleted, listed anew or answered meanwhile.
   (An older answer that comes last may be of another server.) *)
NewestRowsOfSelected ==
    tab \in SelectTabs /\ fresh /\ shown.state = "rows" /\ selected # None
        => shown.of = selected

(* runClusterCommand, handleClusterExec and BroadcastCommand: the cards that
   are displayed are those of one broadcast, with one for every server that
   it was meant for and that still exists, and each has the output of its own
   server, in whatever order the goroutines end. *)
EveryTargetReported ==
    grid.state = "cards" =>
        /\ \A t \in grid.asked \cap stored : grid.cards[t] # None
        /\ \A t \in Servers : grid.cards[t] \in {t, None}
=============================================================================
