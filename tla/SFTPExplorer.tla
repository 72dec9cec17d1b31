---------------------------- MODULE SFTPExplorer ----------------------------
(***************************************************************************)
(* The SFTP pane and the text editor of the page (web/static/js/app.js),   *)
(* the handlers that it calls (main.go), and what they do to the tree of   *)
(* files of a server (pkg/sftpclient/sftp.go).                             *)
(*                                                                         *)
(* Every call of the page is a fetch that it does not wait for before the  *)
(* user may go on; the server serves the calls in any order and their      *)
(* answers arrive in any order.  A path is the sequence of its names from  *)
(* the root; the last name tells a file from a directory.  The contents of *)
(* files are left out: a text is known by the file it was read from.       *)
(*                                                                         *)
(* A name without a directory is resolved by the server in the login       *)
(* directory.  The page sends such names from "/", for new directories and *)
(* files and for renames, but not for uploads.                             *)
(***************************************************************************)
EXTENDS Integers, FiniteSets, SequencesExt

CONSTANTS
    Servers,     \* entries that the pane may show
    NoServer,    \* the pane before one is chosen
    DirNames,    \* names of directories
    FileNames,   \* names of files
    Depth,       \* bound: levels of directories
    Home,        \* the login directory, that "." stands for
    StartTree,   \* the files of every server at first
    MaxAsks,     \* bound: calls for a list, and operations that end in one
    MaxCalls,    \* bound: operations
    MaxOpens     \* bound: files opened in the editor

VARIABLES
    tree,     \* the paths that exist on each server
    pane,     \* currentSFTPServerId
    session,  \* sftpSessions: the directory of each server, at first "."
    rows,     \* the body of the table
    asks,     \* number of calls for a list so far
    lists,    \* calls for a list that are under way
    calls,    \* number of operations so far
    ops,      \* calls that change files and are under way
    unsure,   \* history: servers with a failed operation and no list since
    editor,   \* the editor: whether it is open, its path and its text
    opens,    \* number of files opened so far
    reads     \* calls for a text that are under way

paneVars == <<pane, session, rows, asks, lists, unsure>>
editVars == <<editor, opens, reads>>
opVars == <<calls, ops>>
vars == <<tree, opVars, paneVars, editVars>>

Dirs == UNION {[1..n -> DirNames] : n \in 0..Depth}

Files == {d \o <<f>> : d \in Dirs, f \in FileNames}

Paths == (Dirs \ {<<>>}) \cup Files

(* The parent of every path is a directory that exists. *)
Closed(t) == \A p \in t : Front(p) \in t \cup {<<>>}

Exists(d, t) == d = <<>> \/ d \in t

ASSUME ConstantsAssumption ==
    /\ NoServer \notin Servers
    /\ DirNames \cap FileNames = {}
    /\ Depth \in Nat
    /\ Home \in Dirs
    /\ StartTree \subseteq Paths /\ Closed(StartTree) /\ Exists(Home, StartTree)
    /\ MaxAsks \in Nat
    /\ MaxCalls \in Nat
    /\ MaxOpens \in Nat

Children(d, t) == {p \in t : Front(p) = d}

Below(p) == {q \in Paths : IsPrefix(p, q)}

UpTo(p) == {q \in Paths : IsPrefix(q, p)}

-----------------------------------------------------------------------------
(* What the page holds. *)

Blank(kind) == [kind |-> kind]

Listing(l) ==
    [kind |-> "list", ask |-> l.ask, server |-> l.server, dir |-> l.dir,
     names |-> l.names]

ListCalls ==
    [ask : 1..MaxAsks, server : Servers, dir : Dirs,
     state : {"sent", "read"}, names : SUBSET Paths]

(* An operation: what it names, and what the user saw when asking for it:
   the directory of the session, the row that was clicked, or the file whose
   text is saved. *)
Places == [server : Servers \cup {NoServer}, path : Paths \cup {<<>>}]

Ops ==
    [kind : {"upload", "mkdir", "touch", "delete", "rename", "write"},
     server : Servers, path : Paths, to : Paths, seen : Places,
     state : {"sent", "done", "failed"}]

Texts ==
    {Blank(k) : k \in {"none", "loading", "error"}}
        \cup [kind : {"text"}, of : Places]

TypeOK ==
    /\ tree \in [Servers -> SUBSET Paths]
    /\ \A s \in Servers : Closed(tree[s])
    /\ pane \in Servers \cup {NoServer}
    /\ session \in [Servers -> Dirs]
    /\ \/ rows \in {Blank(k) : k \in {"none", "loading", "error"}}
       \/ /\ rows.kind = "list"
          /\ rows.ask \in 1..asks /\ rows.server \in Servers /\ rows.dir \in Dirs
          /\ rows.names \subseteq Paths
    /\ asks \in 0..MaxAsks
    /\ lists \subseteq ListCalls
    /\ calls \in 0..MaxCalls
    /\ ops \subseteq Ops
    /\ asks + Cardinality(ops) <= MaxAsks
    /\ unsure \subseteq Servers
    /\ editor \in [open : BOOLEAN, path : Paths \cup {<<>>}, text : Texts]
    /\ opens \in 0..MaxOpens
    /\ reads \subseteq [open : 1..MaxOpens, server : Servers, path : Paths]

Init ==
    /\ tree = [s \in Servers |-> StartTree]
    /\ pane = NoServer
    /\ session = [s \in Servers |-> Home]
    /\ rows = Blank("none")
    /\ asks = 0
    /\ lists = {}
    /\ calls = 0
    /\ ops = {}
    /\ unsure = {}
    /\ editor = [open |-> FALSE, path |-> <<>>, text |-> Blank("none")]
    /\ opens = 0
    /\ reads = {}

-----------------------------------------------------------------------------
(* The lists. *)

(* An operation that is under way has its refresh to come. *)
MayAsk == asks + Cardinality(ops) < MaxAsks

(* The pane is under the editor while that is open. *)
PaneFree == pane # NoServer /\ ~editor.open

Load(s, d) ==
    /\ asks' = asks + 1
    /\ lists' = lists \cup
           {[ask |-> asks + 1, server |-> s, dir |-> d, state |-> "sent",
             names |-> {}]}
    /\ rows' = Blank("loading")
    /\ unsure' = unsure \ {s}

Switch(s) ==
    /\ ~editor.open
    /\ MayAsk
    /\ pane' = s
    /\ Load(s, session[s])
    /\ UNCHANGED <<tree, session, opVars, editVars>>

(* A row, the parent, home or root, a crumb, the address bar, the refresh. *)
Browse(d) ==
    /\ PaneFree
    /\ MayAsk
    /\ Load(pane, d)
    /\ UNCHANGED <<tree, pane, session, opVars, editVars>>

(* The server reads the directory. *)
ListFiles(l) ==
    /\ l.state = "sent"
    /\ Exists(l.dir, tree[l.server])
    /\ lists' = (lists \ {l}) \cup
           {[ask |-> l.ask, server |-> l.server, dir |-> l.dir,
             state |-> "read", names |-> Children(l.dir, tree[l.server])]}
    /\ UNCHANGED <<tree, pane, session, rows, asks, opVars, unsure, editVars>>

(* Mutant: the directory is kept for the server that the pane shows by now. *)
Mut_ShowListOfPane(l) ==
    /\ l.state = "read"
    /\ lists' = lists \ {l}
    /\ session' = [session EXCEPT ![pane] = l.dir]
    /\ rows' = Listing(l)
    /\ UNCHANGED <<tree, pane, asks, opVars, unsure, editVars>>

ShowList(l) ==
    /\ l.state = "read"
    /\ lists' = lists \ {l}
    /\ session' = [session EXCEPT ![l.server] = l.dir]
    /\ rows' = Listing(l)
    /\ UNCHANGED <<tree, pane, asks, opVars, unsure, editVars>>

(* Mutant: a failed list is not reported. *)
Mut_ListErrorSilent(l) ==
    /\ lists' = lists \ {l}
    /\ UNCHANGED <<tree, pane, session, rows, asks, opVars, unsure, editVars>>

(* The directory is not there, the connection fails or the answer is lost. *)
ListError(l) ==
    /\ lists' = lists \ {l}
    /\ rows' = Blank("error")
    /\ UNCHANGED <<tree, pane, session, asks, opVars, unsure, editVars>>

-----------------------------------------------------------------------------
(* The operations, as the page asks for them. *)

Here == session[pane]

Call(kind, p, q, seen) ==
    /\ MayAsk
    /\ calls < MaxCalls
    /\ calls' = calls + 1
    /\ p \in Paths /\ q \in Paths
    /\ ops' = ops \cup
           {[kind |-> kind, server |-> pane, path |-> p, to |-> q,
             seen |-> seen, state |-> "sent"]}
    /\ UNCHANGED <<tree, paneVars, editVars>>

(* From "/", the path of a new directory or file is its name alone. *)
Target(kind) == IF Here = <<>> /\ kind \in {"mkdir", "touch"} THEN Home ELSE Here

(* In the directory of the session: an upload, a new directory or file. *)
CallHere(kind, x) ==
    LET p == Target(kind) \o <<x>>
    IN  PaneFree /\ Call(kind, p, p, [server |-> pane, path |-> Here])

Upload(f) == CallHere("upload", f)

PromptMkdir(x) == CallHere("mkdir", x)

PromptTouch(f) == CallHere("touch", f)

(* On a row of the table. *)
CallOnRow(kind, p, q) ==
    /\ PaneFree
    /\ rows.kind = "list"
    /\ p \in rows.names
    /\ Call(kind, p, q, [server |-> rows.server, path |-> p])

(* Bound: the login directory and those above it stay. *)
LoginStays(p) == ~IsPrefix(p, Home)

DeleteSFTP(p) == LoginStays(p) /\ CallOnRow("delete", p, p)

SameKind(p, x) == (Last(p) \in DirNames) <=> (x \in DirNames)

(* In the same directory, but for an entry of "/": its new path is the name
   alone. *)
NewPath(p, x) == (IF Front(p) = <<>> THEN Home ELSE Front(p)) \o <<x>>

RenameSFTP(p, x) ==
    /\ LoginStays(p)
    /\ x # Last(p)
    /\ SameKind(p, x)
    /\ CallOnRow("rename", p, NewPath(p, x))

-----------------------------------------------------------------------------
(* The operations, as the server performs them. *)

Moved(t, p, q) ==
    (t \ Below(p)) \cup
        {q \o SubSeq(x, Len(p) + 1, Len(x)) : x \in t \cap Below(p)}

(* A rename goes to a directory that is there, not over another entry and not
   into the entry itself, and (the bound Depth) not too deep. *)
Renamable(p, q, t) ==
    /\ p \in t /\ q \notin t
    /\ Exists(Front(q), t)
    /\ ~IsPrefix(p, q)
    /\ Moved(t, p, q) \subseteq Paths

Possible(r, t) ==
    CASE r.kind \in {"upload", "mkdir"} -> TRUE
      [] r.kind \in {"touch", "write"}  -> Exists(Front(r.path), t)
      [] r.kind = "delete"              -> r.path \in t
      [] r.kind = "rename"              -> Renamable(r.path, r.to, t)

(* Mutant: a directory is removed, and what is in it is not. *)
Mut_ResultRemovesOne(r, t) ==
    CASE r.kind \in {"upload", "mkdir"} -> t \cup UpTo(r.path)
      [] r.kind \in {"touch", "write"}  -> t \cup {r.path}
      [] r.kind = "delete"              -> t \ {r.path}
      [] r.kind = "rename"              -> Moved(t, r.path, r.to)

Result(r, t) ==
    CASE r.kind \in {"upload", "mkdir"} -> t \cup UpTo(r.path)
      [] r.kind \in {"touch", "write"}  -> t \cup {r.path}
      [] r.kind = "delete"              -> t \ Below(r.path)
      [] r.kind = "rename"              -> Moved(t, r.path, r.to)

(* What an operation that reports an error may leave: nothing done, some of
   its directories made or files removed, or all done and the answer lost. *)
Remains(r, t) ==
    LET new == Result(r, t)
    IN  IF ~Possible(r, t) THEN {t}
        ELSE IF r.kind = "rename" THEN {t, new}
        ELSE {x \in SUBSET (t \cup new) : t \cap new \subseteq x /\ Closed(x)}

Ends(r, state, t) ==
    /\ r.state = "sent"
    /\ tree' = [tree EXCEPT ![r.server] = t]
    /\ ops' = (ops \ {r}) \cup {[r EXCEPT !.state = state]}
    /\ UNCHANGED <<calls, paneVars, editVars>>

Perform(r) ==
    /\ Possible(r, tree[r.server])
    /\ Ends(r, "done", Result(r, tree[r.server]))

Fail(r) == \E t \in Remains(r, tree[r.server]) : Ends(r, "failed", t)

(* Mutant: the page does not refresh after an operation. *)
Mut_AnswerNoRefresh(r) ==
    /\ r.state = "done"
    /\ ops' = ops \ {r}
    /\ editor' = [editor EXCEPT !.open = @ /\ r.kind # "write"]
    /\ UNCHANGED <<tree, calls, paneVars, opens, reads>>

(* The page has its answer: it refreshes whatever the pane shows by now, and
   a saved text closes the editor. *)
Answer(r) ==
    /\ r.state = "done"
    /\ ops' = ops \ {r}
    /\ Load(pane, Here)
    /\ editor' = [editor EXCEPT !.open = @ /\ r.kind # "write"]
    /\ UNCHANGED <<tree, calls, pane, session, opens, reads>>

(* An alert, and no refresh. *)
AnswerError(r) ==
    /\ r.state = "failed"
    /\ ops' = ops \ {r}
    /\ unsure' = unsure \cup {r.server}
    /\ UNCHANGED <<tree, calls, pane, session, rows, asks, lists, editVars>>

-----------------------------------------------------------------------------
(* The editor. *)

OpenCodeModal(p) ==
    /\ PaneFree
    /\ opens < MaxOpens
    /\ rows.kind = "list"
    /\ p \in rows.names \cap Files
    /\ opens' = opens + 1
    /\ reads' = reads \cup {[open |-> opens + 1, server |-> pane, path |-> p]}
    /\ editor' = [open |-> TRUE, path |-> p, text |-> Blank("loading")]
    /\ UNCHANGED <<tree, opVars, paneVars>>

(* A text, or the message of an error, becomes the text of the editor. *)
ShowText(r) ==
    /\ \E text \in {[kind |-> "text",
                     of |-> [server |-> r.server, path |-> r.path]],
                    Blank("error")} :
           editor' = [editor EXCEPT !.text = text]
    /\ reads' = reads \ {r}
    /\ UNCHANGED <<tree, opVars, paneVars, opens>>

CloseCodeModal ==
    /\ editor.open
    /\ editor' = [editor EXCEPT !.open = FALSE]
    /\ UNCHANGED <<tree, opVars, paneVars, opens, reads>>

Seen(text) ==
    IF text.kind = "text" THEN text.of ELSE [server |-> NoServer, path |-> <<>>]

SaveCodeEditor ==
    /\ editor.open
    /\ Call("write", editor.path, editor.path, Seen(editor.text))

-----------------------------------------------------------------------------
Next ==
    \/ \E s \in Servers : Switch(s)
    \/ \E d \in Dirs : Browse(d)
    \/ \E l \in lists : ListFiles(l) \/ ShowList(l) \/ ListError(l)
    \/ \E f \in FileNames : Upload(f) \/ PromptTouch(f)
    \/ \E x \in DirNames : PromptMkdir(x)
    \/ \E p \in Paths : DeleteSFTP(p) \/ OpenCodeModal(p)
    \/ \E p \in Paths, x \in DirNames \cup FileNames : RenameSFTP(p, x)
    \/ \E r \in ops : Perform(r) \/ Fail(r) \/ Answer(r) \/ AnswerError(r)
    \/ \E r \in reads : ShowText(r)
    \/ CloseCodeModal
    \/ SaveCodeEditor

Spec == Init /\ [][Next]_vars

-----------------------------------------------------------------------------
(* Properties. *)

(* The newest list is on the table only under its own server, and uploads, new
   directories and new files go to the directory that the table shows of that
   server, although answers of other lists arrive in between.  ("/" is the
   exception of Target: only uploads go there.) *)
ShownIsWorkedIn ==
    rows.kind = "list" =>
        /\ session[rows.server] = rows.dir
        /\ rows.ask = asks =>
              /\ rows.server = pane
              /\ Target("upload") = rows.dir
              /\ rows.dir # <<>> =>
                    Target("mkdir") = rows.dir /\ Target("touch") = rows.dir

(* The newest list shows the directory as it is, unless an operation on its
   server is under way or has failed since: every operation that went well is
   followed by a list that was asked for after it, whatever the pane showed
   in between. *)
NewestListIsFresh ==
    /\ rows.kind = "list" /\ rows.ask = asks
    /\ \A r \in ops : r.server # rows.server
    /\ rows.server \notin unsure
    => rows.names = Children(rows.dir, tree[rows.server])

(* "Loading" is shown only as long as an answer is to come: an answer that
   comes first for another call does not leave it on the screen. *)
LoadingHasCall ==
    /\ rows.kind = "loading" => lists # {}
    /\ editor.text.kind = "loading" => reads # {}

(* What is deleted, renamed or written is what the user saw when asking for
   it: the row of the table that was clicked, the file whose text was in the
   editor. *)
ActsOnWhatIsSeen ==
    \A r \in ops :
        r.kind \in {"delete", "rename", "write"} =>
            r.seen = [server |-> r.server, path |-> r.path]
=============================================================================
