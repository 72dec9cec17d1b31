----------------------------- MODULE PageLists -----------------------------
(***************************************************************************)
(* The lists of servers and of snippets that the page holds, and the forms *)
(* that change them (web/static/js/app.js), against the tables of the      *)
(* storage (pkg/storage/storage.go) behind the handlers of main.go.        *)
(*                                                                         *)
(* The page asks for a list at the start, after a change of its own and,   *)
(* for the servers, every 30 seconds.  No call waits for another one, so   *)
(* answers arrive in any order.  A record of a server is known by the way  *)
(* it authenticates, which the form treats apart; status, group, search    *)
(* and the other fields are only displayed.                                *)
(***************************************************************************)
EXTENDS Integers, FiniteSets

CONSTANTS
    Ids,       \* ids of entries
    None,      \* no entry, no id
    MaxLoads,  \* bound: calls for a list that are under way at once
    MaxWrites  \* bound: calls that change a list

VARIABLES
    stored,     \* the tables of the storage
    page,       \* the tables that the page displays, by list
    noServers,  \* servers is null: the last answer with servers had none
    fresh,      \* history: lists whose newest call is the one displayed
    loads,      \* calls for a list
    writes,     \* calls that change a list
    unsure,     \* history: lists changed without an answer and no call since
    form        \* the form that is open, and the fields of that of a server

listVars == <<stored, page, noServers, fresh, loads, unsure>>
vars == <<listVars, writes, form>>

ASSUME ConstantsAssumption ==
    /\ None \notin Ids
    /\ MaxLoads \in Nat
    /\ MaxWrites \in Nat

Lists == {"servers", "snippets"}

AuthTypes == {"password", "key"}

Records(l) == IF l = "servers" THEN AuthTypes ELSE {"command"}

Tables(l) == [Ids -> Records(l) \cup {None}]

NoEntries == [i \in Ids |-> None]

Listed(t) == {i \in Ids : t[i] # None}

Slots == 1..MaxLoads

FreeSlot == [list |-> "none", age |-> "older", state |-> "free", table |-> NoEntries]

Sent(l) == [list |-> l, age |-> "newest", state |-> "sent", table |-> NoEntries]

Writes == 1..MaxWrites

NoWrite ==
    [op |-> "none", lists |-> {}, id |-> None, auth |-> "password", state |-> "unused"]

Over == [NoWrite EXCEPT !.state = "over"]

LoadCalls(l) ==
    [list : {l}, age : {"newest", "older"}, state : {"sent", "served"}, table : Tables(l)]

TypeOK ==
    /\ stored \in [Lists -> Tables("servers") \cup Tables("snippets")]
    /\ page \in [Lists -> Tables("servers") \cup Tables("snippets")]
    /\ \A l \in Lists : stored[l] \in Tables(l) /\ page[l] \in Tables(l)
    /\ noServers \in BOOLEAN
    /\ fresh \subseteq Lists
    /\ loads \in
           [Slots -> {FreeSlot} \cup LoadCalls("servers") \cup LoadCalls("snippets")]
    /\ writes \in
           [Writes ->
               [op : {"none", "save", "delete", "import"}, lists : SUBSET Lists,
                id : Ids \cup {None}, auth : AuthTypes,
                state : {"unused", "sent", "lost", "done", "error", "over"}]]
    /\ unsure \subseteq Lists
    /\ form \in
           [open : {"none", "server", "snippet"}, id : Ids \cup {None},
            auth : AuthTypes, field : AuthTypes]

-----------------------------------------------------------------------------
(* Calls for a list. *)

Free(ld) == {n \in Slots : ld[n] = FreeSlot}

(* Older calls for the list are no longer the newest. *)
Ask(ld, l) ==
    LET new == CHOOSE n \in Free(ld) : TRUE IN
    [n \in Slots |->
        IF n = new THEN Sent(l)
        ELSE IF ld[n].list = l THEN [ld[n] EXCEPT !.age = "older"] ELSE ld[n]]

Asked(ls) ==
    LET ld == IF "servers" \in ls THEN Ask(loads, "servers") ELSE loads IN
    /\ "servers" \in ls => Free(loads) # {}
    /\ "snippets" \in ls => Free(ld) # {}
    /\ loads' = IF "snippets" \in ls THEN Ask(ld, "snippets") ELSE ld
    /\ fresh' = fresh \ ls
    /\ unsure' = unsure \ ls

Init ==
    /\ \E t \in Tables("servers"), u \in Tables("snippets") :
           stored = [servers |-> t, snippets |-> u]
    /\ page = [l \in Lists |-> NoEntries]
    /\ noServers = FALSE
    /\ fresh = {}
    /\ loads = [n \in Slots |-> IF n = 1 THEN Sent("servers")
                                ELSE IF n = 2 THEN Sent("snippets") ELSE FreeSlot]
    /\ writes = [n \in Writes |-> NoWrite]
    /\ unsure = {}
    /\ form = [open |-> "none", id |-> None, auth |-> "password", field |-> "password"]

(* loadServers of the interval, and of the answer to a ping of all. *)
LoadServers ==
    /\ Asked({"servers"})
    /\ UNCHANGED <<stored, page, noServers, writes, form>>

(* GetServers, GetSnippets. *)
ServeLoad(n) ==
    /\ loads[n].state = "sent"
    /\ loads' = [loads EXCEPT ![n].state = "served", ![n].table = stored[loads[n].list]]
    /\ UNCHANGED <<stored, page, noServers, fresh, writes, unsure, form>>

(* A table without entries is encoded as null, and the page throws while it
   renders that: what is displayed stays.  Snippets are not rendered either
   while servers is null. *)
Rendered(l, t) == Listed(t) # {} /\ (l = "snippets" => ~noServers)

(* Mutant: an answer that is not the newest is thrown away. *)
Mut_ShowLoadNewestOnly(n) ==
    LET l == loads[n].list
        shown == loads[n].age = "newest" /\ Rendered(l, loads[n].table)
    IN
    /\ loads[n].state = "served"
    /\ loads' = [loads EXCEPT ![n] = FreeSlot]
    /\ noServers' = IF l = "servers" THEN Listed(loads[n].table) = {} ELSE noServers
    /\ page' = IF shown THEN [page EXCEPT ![l] = loads[n].table] ELSE page
    /\ fresh' = IF shown THEN fresh \cup {l} ELSE fresh
    /\ UNCHANGED <<stored, writes, unsure, form>>

(* The answer replaces the list of the page, whatever is there. *)
ShowLoad(n) ==
    LET l == loads[n].list
        shown == Rendered(l, loads[n].table)
    IN
    /\ loads[n].state = "served"
    /\ loads' = [loads EXCEPT ![n] = FreeSlot]
    /\ noServers' = IF l = "servers" THEN Listed(loads[n].table) = {} ELSE noServers
    /\ page' = IF shown THEN [page EXCEPT ![l] = loads[n].table] ELSE page
    /\ fresh' = IF shown /\ loads[n].age = "newest" THEN fresh \cup {l} ELSE fresh \ {l}
    /\ UNCHANGED <<stored, writes, unsure, form>>

(* renderServers: the group and the search text only hide some. *)
ShowServers(n) == loads[n].list = "servers" /\ ShowLoad(n)

(* renderSnippets *)
ShowSnippets(n) == loads[n].list = "snippets" /\ ShowLoad(n)

(* An error, or no answer: the page keeps what it has. *)
LoadFails(n) ==
    /\ loads[n] # FreeSlot
    /\ loads' = [loads EXCEPT ![n] = FreeSlot]
    /\ UNCHANGED <<stored, page, noServers, fresh, writes, unsure, form>>

-----------------------------------------------------------------------------
(* The forms.  One that is open covers the page: nothing else can be
   clicked. *)

(* Two fields are left as they were: the group and the way to
   authenticate. *)
OpenServerModal ==
    /\ form.open = "none"
    /\ form' = [form EXCEPT !.open = "server", !.id = None]
    /\ UNCHANGED <<listVars, writes>>

(* Mutant: the fields are not displayed anew. *)
Mut_EditServerFieldsLeft(i) ==
    /\ form.open = "none"
    /\ ~noServers
    /\ i \in Listed(page["servers"])
    /\ form' = [form EXCEPT !.open = "server", !.id = i, !.auth = page["servers"][i]]
    /\ UNCHANGED <<listVars, writes>>

(* A card that is left from before throws while servers is null. *)
EditServer(i) ==
    /\ form.open = "none"
    /\ ~noServers
    /\ i \in Listed(page["servers"])
    /\ form' = [open |-> "server", id |-> i, auth |-> page["servers"][i],
                field |-> page["servers"][i]]
    /\ UNCHANGED <<listVars, writes>>

(* The user chooses, and the field for it is displayed. *)
ToggleAuthFields(a) ==
    /\ form.open = "server"
    /\ form' = [form EXCEPT !.auth = a, !.field = a]
    /\ UNCHANGED <<listVars, writes>>

OpenSnippetModal ==
    /\ form.open = "none"
    /\ form' = [form EXCEPT !.open = "snippet"]
    /\ UNCHANGED <<listVars, writes>>

(* closeServerModal, closeSnippetModal. *)
CloseModal ==
    /\ form.open # "none"
    /\ form' = [form EXCEPT !.open = "none"]
    /\ UNCHANGED <<listVars, writes>>

-----------------------------------------------------------------------------
(* Calls that change a list. *)

Send(n, op, ls, i, a) ==
    /\ writes[n] = NoWrite
    /\ \A m \in 1..(n - 1) : writes[m] # NoWrite
    /\ writes' = [writes EXCEPT ![n] =
           [op |-> op, lists |-> ls, id |-> i, auth |-> a, state |-> "sent"]]
    /\ UNCHANGED <<listVars, form>>

(* The form stays open until the answer. *)
SaveServerForm(n) ==
    /\ form.open = "server"
    /\ Send(n, "save", {"servers"}, form.id, form.auth)

DeleteServer(n, i) ==
    /\ form.open = "none"
    /\ i \in Listed(page["servers"])
    /\ Send(n, "delete", {"servers"}, i, "password")

SaveSnippetForm(n) ==
    /\ form.open = "snippet"
    /\ Send(n, "save", {"snippets"}, None, "password")

DeleteSnippet(n, i) ==
    /\ form.open = "none"
    /\ i \in Listed(page["snippets"])
    /\ Send(n, "delete", {"snippets"}, i, "password")

(* A file with one entry of each list. *)
ImportBackup(n, i, a) == form.open = "none" /\ Send(n, "import", Lists, i, a)

(* Mutant: every entry of a file goes to the table of the servers. *)
Mut_WrittenToServers(w, i) ==
    [stored EXCEPT !["servers"][i] = IF w.op = "delete" THEN None
                                     ELSE IF w.lists = {"servers"} THEN w.auth
                                     ELSE "command"]

Written(w, i) ==
    [l \in Lists |->
        IF l \notin w.lists THEN stored[l]
        ELSE [stored[l] EXCEPT ![i] =
                 CASE w.op = "delete" -> None
                   [] w.op # "delete" /\ l = "servers" -> w.auth
                   [] w.op # "delete" /\ l = "snippets" -> "command"]]

(* A save without an id gets a new one.  save reports no error, so the
   answer is always that it was done.  The page no longer waits for that of
   a write that is lost. *)
ServeWrite(n) ==
    LET w == writes[n] IN
    /\ w.state \in {"sent", "lost"}
    /\ \E i \in Ids :
           /\ IF w.id # None THEN i = w.id
                             ELSE \A l \in w.lists : stored[l][i] = None
           /\ stored' = Written(w, i)
    /\ writes' = [writes EXCEPT ![n] =
           IF w.state = "sent" THEN [w EXCEPT !.state = "done"] ELSE Over]
    /\ unsure' = IF w.state = "lost" THEN unsure \cup w.lists ELSE unsure
    /\ UNCHANGED <<page, noServers, fresh, loads, form>>

(* The request is refused, or does not arrive, and changes nothing. *)
RefuseWrite(n) ==
    LET w == writes[n] IN
    /\ w.state \in {"sent", "lost"}
    /\ writes' = [writes EXCEPT ![n] =
           IF w.state = "sent" THEN [w EXCEPT !.state = "error"] ELSE Over]
    /\ UNCHANGED <<listVars, form>>

(* Mutant: a delete is not followed by a call for the list. *)
Mut_ReloadsAfterSave(w) == w.state = "done" /\ w.op # "delete"

(* deleteServer and deleteSnippet do not look at the answer. *)
Reloads(w) == w.state = "done" \/ w.op = "delete"

(* The list that the open form belongs to. *)
FormList ==
    CASE form.open = "server" -> "servers"
      [] form.open = "snippet" -> "snippets"
      [] form.open = "none" -> "none"

AnswerWrite(n) ==
    LET w == writes[n] IN
    /\ w.state \in {"done", "error"}
    /\ writes' = [writes EXCEPT ![n] = Over]
    /\ IF Reloads(w) THEN Asked(w.lists) ELSE UNCHANGED <<fresh, loads, unsure>>
    /\ form' = IF w.op = "save" /\ w.state = "done" /\ w.lists = {FormList}
               THEN [form EXCEPT !.open = "none"] ELSE form
    /\ UNCHANGED <<stored, page, noServers>>

(* The connection breaks: an alert, and no list.  The server may still run a
   request that it has not answered. *)
LoseWrite(n) ==
    LET w == writes[n] IN
    /\ w.state \in {"sent", "done", "error"}
    /\ writes' = [writes EXCEPT ![n] =
           IF w.state = "sent" THEN [w EXCEPT !.state = "lost"] ELSE Over]
    /\ unsure' = IF w.state = "done" THEN unsure \cup w.lists ELSE unsure
    /\ UNCHANGED <<stored, page, noServers, fresh, loads, form>>

Next ==
    \/ LoadServers
    \/ \E n \in Slots :
           ServeLoad(n) \/ ShowServers(n) \/ ShowSnippets(n) \/ LoadFails(n)
    \/ OpenServerModal
    \/ OpenSnippetModal
    \/ CloseModal
    \/ \E i \in Ids : EditServer(i)
    \/ \E a \in AuthTypes : ToggleAuthFields(a)
    \/ \E n \in Writes :
           \/ SaveServerForm(n)
           \/ SaveSnippetForm(n)
           \/ \E i \in Ids :
                  \/ DeleteServer(n, i)
                  \/ DeleteSnippet(n, i)
                  \/ \E a \in AuthTypes : ImportBackup(n, i, a)
           \/ ServeWrite(n)
           \/ RefuseWrite(n)
           \/ AnswerWrite(n)
           \/ LoseWrite(n)

(* The interval fires, and not every call fails. *)
Fairness ==
    /\ WF_vars(LoadServers)
    /\ \A n \in Slots : SF_vars(ServeLoad(n)) /\ SF_vars(ShowLoad(n))

Spec == Init /\ [][Next]_vars /\ Fairness

-----------------------------------------------------------------------------
(* Properties. *)

(* Every change that was made of the list has been answered, and the list
   asked for since. *)
Settled(l) ==
    /\ l \notin unsure
    /\ \A n \in Writes : writes[n].state = "done" => l \notin writes[n].lists

(* loadServers, loadSnippets and the calls of them after a change: as soon as
   the newest call for a list is displayed, the page shows the table of the
   storage, however the calls and changes before it crossed, unless a change
   has been made since that the page was not told of.  (An older answer that
   comes after the newest one does replace it; the list is then not fresh.
   Nor is it when the page throws at the newest answer, which has no entries
   or comes while servers is null.) *)
NewestListIsFresh ==
    \A l \in fresh : Settled(l) => page[l] = stored[l]

(* openServerModal, editServer, toggleAuthFields, saveServerForm: whatever
   entries were added and edited before, the form displays the credential
   that belongs to the way to authenticate that it will save. *)
FormShowsItsCredential ==
    form.open = "server" => form.field = form.auth

(* The interval of loadServers: once changes stop, the page comes to show the
   servers that are stored, and stays so, although answers may be lost, late
   or out of order, unless none is stored: what was displayed last then stays,
   for the page throws at null.  (Snippets have no interval.) *)
ServersConverge ==
    <>[](Listed(stored["servers"]) # {} => page["servers"] = stored["servers"])
=============================================================================
