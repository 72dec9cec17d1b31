------------------------- MODULE SFTPExplorerProofs -------------------------
(***************************************************************************)
(* Proofs about SFTPExplorer, for every set of servers, names and bounds.  *)
(*                                                                         *)
(* ShownInv follows the newest list from the call to the table: the newest *)
(* call is for the server that the pane shows, and once the server has     *)
(* read the directory, no operation that went well can have changed it     *)
(* without a newer call being made.                                        *)
(***************************************************************************)
EXTENDS SFTPExplorer, SequenceTheorems, FiniteSetTheorems, TLAPS

(* The fields of the calls that are under way. *)
CallShapes ==
    /\ \A l \in lists :
          l = [ask |-> l.ask, server |-> l.server, dir |-> l.dir,
               state |-> l.state, names |-> l.names]
    /\ \A r \in ops :
          r = [kind |-> r.kind, server |-> r.server, path |-> r.path,
               to |-> r.to, seen |-> r.seen, state |-> r.state]

PaneInv ==
    /\ asks \in Nat
    /\ pane \in Servers \cup {NoServer}
    /\ session \in [Servers -> Dirs]
    /\ tree = [s \in Servers |-> tree[s]]
    /\ ops # {} \/ editor.open => pane \in Servers
    /\ editor = [open |-> editor.open, path |-> editor.path, text |-> editor.text]

ListInv ==
    /\ \A l \in lists :
          /\ l.ask \in Nat /\ l.ask <= asks
          /\ l.server \in Servers
          /\ l.dir \in Dirs
          /\ l.ask = asks => l.server = pane
    /\ rows.kind = "list" =>
          /\ rows.server \in Servers
          /\ rows.ask \in Nat /\ rows.ask <= asks
          /\ session[rows.server] = rows.dir
          /\ rows.ask = asks => rows.server = pane

(* No operation has left its trace on the server s since the newest call. *)
Quiet(s) == s \notin unsure /\ \A r \in ops : r.server # s

FreshInv ==
    /\ \A l \in lists :
          l.state = "read" /\ l.ask = asks /\ Quiet(l.server)
              => l.names = Children(l.dir, tree[l.server])
    /\ rows.kind = "list" /\ rows.ask = asks /\ Quiet(rows.server)
          => rows.names = Children(rows.dir, tree[rows.server])

ShownInv == CallShapes /\ PaneInv /\ ListInv /\ FreshInv

LEMMA ShownInit == Init => ShownInv
  BY ConstantsAssumption
     DEF Init, ShownInv, CallShapes, PaneInv, ListInv, FreshInv, Blank,
         ConstantsAssumption

(* A new call is the newest one, and the table waits for it. *)
LEMMA LoadKeeps ==
    ASSUME ShownInv, NEW s \in Servers, NEW d \in Dirs, Load(s, d),
           pane' = s, UNCHANGED <<tree, session>>,
           \A r \in ops' : r \in ops,
           editor'.open => editor.open,
           editor' = [open |-> editor'.open, path |-> editor'.path,
                      text |-> editor'.text]
    PROVE  ShownInv'
<1>1. CallShapes'
    BY DEF ShownInv, CallShapes, Load
<1>2. PaneInv'
    BY DEF ShownInv, PaneInv, Load
<1>3. ListInv'
    BY DEF ShownInv, PaneInv, ListInv, Load, Blank
<1>4. \A l \in lists' : l.ask = asks' => l.state = "sent"
    BY DEF ShownInv, PaneInv, ListInv, Load
<1>5. FreshInv'
    BY <1>4 DEF FreshInv, Load, Blank
<1> QED BY <1>1, <1>2, <1>3, <1>5 DEF ShownInv

(* A call for an operation changes no list, and only makes the server of the
   pane less quiet. *)
LEMMA CallKeeps ==
    ASSUME ShownInv, NEW kind, NEW p, NEW q, NEW seen, pane \in Servers,
           Call(kind, p, q, seen)
    PROVE  ShownInv'
<1> DEFINE new == [kind |-> kind, server |-> pane, path |-> p, to |-> q,
                   seen |-> seen, state |-> "sent"]
<1>1. ops' = ops \cup {new} /\ UNCHANGED <<tree, paneVars, editVars>>
    BY DEF Call
<1>2. CallShapes'
    BY <1>1 DEF ShownInv, CallShapes, paneVars
<1>3. PaneInv' /\ ListInv'
    BY <1>1 DEF ShownInv, PaneInv, ListInv, paneVars, editVars
<1>4. \A s \in Servers : Quiet(s)' => Quiet(s)
    BY <1>1 DEF Quiet, paneVars
<1>5. FreshInv'
    BY <1>1, <1>4 DEF ShownInv, ListInv, FreshInv, paneVars
<1> QED BY <1>2, <1>3, <1>5 DEF ShownInv

(* The end of an operation changes the tree of its own server, which is not
   quiet as long as the page has no answer. *)
LEMMA EndsKeeps ==
    ASSUME ShownInv, NEW r \in ops, NEW state, NEW t, Ends(r, state, t)
    PROVE  ShownInv'
<1> DEFINE ended == [r EXCEPT !.state = state]
<1>1. /\ ops' = (ops \ {r}) \cup {ended}
      /\ tree' = [tree EXCEPT ![r.server] = t]
      /\ UNCHANGED <<paneVars, editVars>>
    BY DEF Ends
<1>2. /\ ended = [kind |-> r.kind, server |-> r.server, path |-> r.path,
                  to |-> r.to, seen |-> r.seen, state |-> state]
    BY DEF ShownInv, CallShapes
<1>3. CallShapes'
    BY <1>1, <1>2 DEF ShownInv, CallShapes, paneVars
<1>4. PaneInv' /\ ListInv'
    BY <1>1 DEF ShownInv, PaneInv, ListInv, paneVars, editVars
<1>5. \A s \in Servers : Quiet(s)' => Quiet(s) /\ s # r.server
    BY <1>1, <1>2 DEF Quiet, paneVars
<1>6. \A s \in Servers : s # r.server => tree'[s] = tree[s]
    BY <1>1 DEF ShownInv, PaneInv
<1>7. FreshInv'
    BY <1>1, <1>5, <1>6 DEF ShownInv, ListInv, FreshInv, paneVars
<1> QED BY <1>3, <1>4, <1>7 DEF ShownInv

(* The editor alone changes. *)
LEMMA EditorKeeps ==
    ASSUME ShownInv, UNCHANGED <<tree, opVars, paneVars>>,
           editor'.open => pane \in Servers,
           editor' = [open |-> editor'.open, path |-> editor'.path,
                      text |-> editor'.text]
    PROVE  ShownInv'
  BY DEF ShownInv, CallShapes, PaneInv, ListInv, FreshInv, Quiet, opVars, paneVars

LEMMA ListFilesKeeps ==
    ASSUME ShownInv, NEW l \in lists, ListFiles(l)
    PROVE  ShownInv'
<1> DEFINE new == [ask |-> l.ask, server |-> l.server, dir |-> l.dir,
                   state |-> "read", names |-> Children(l.dir, tree[l.server])]
<1>1. /\ lists' = (lists \ {l}) \cup {new}
      /\ UNCHANGED <<tree, pane, session, rows, asks, opVars, unsure, editVars>>
    BY DEF ListFiles
<1>2. /\ new.ask = l.ask /\ new.server = l.server /\ new.dir = l.dir
      /\ new.names = Children(l.dir, tree[l.server])
      /\ new = [ask |-> new.ask, server |-> new.server, dir |-> new.dir,
                state |-> new.state, names |-> new.names]
    OBVIOUS
<1> HIDE DEF new
<1>3. CallShapes'
    BY <1>1, <1>2 DEF ShownInv, CallShapes, opVars
<1>4. PaneInv' /\ ListInv'
    BY <1>1, <1>2 DEF ShownInv, PaneInv, ListInv, opVars, editVars
<1>5. new.names = Children(new.dir, tree[new.server])
    BY <1>2
<1>6. FreshInv'
    BY <1>1, <1>5 DEF ShownInv, FreshInv, Quiet, Children, opVars
<1> QED BY <1>3, <1>4, <1>6 DEF ShownInv

LEMMA ShowListKeeps ==
    ASSUME ShownInv, NEW l \in lists, ShowList(l)
    PROVE  ShownInv'
<1>1. /\ l.state = "read"
      /\ lists' = lists \ {l}
      /\ session' = [session EXCEPT ![l.server] = l.dir]
      /\ rows' = [kind |-> "list", ask |-> l.ask, server |-> l.server,
                  dir |-> l.dir, names |-> l.names]
      /\ UNCHANGED <<tree, pane, asks, opVars, unsure, editVars>>
    BY DEF ShowList, Listing
<1>2. l.server \in Servers /\ l.dir \in Dirs
    BY DEF ShownInv, ListInv
<1>3. CallShapes'
    BY <1>1 DEF ShownInv, CallShapes, opVars
<1>4. PaneInv'
    BY <1>1, <1>2 DEF ShownInv, PaneInv, opVars, editVars
<1>5. ListInv'
    BY <1>1, <1>2 DEF ShownInv, PaneInv, ListInv
<1>6. FreshInv'
    BY <1>1 DEF ShownInv, FreshInv, Quiet, Children, opVars
<1> QED BY <1>3, <1>4, <1>5, <1>6 DEF ShownInv

LEMMA ListErrorKeeps ==
    ASSUME ShownInv, NEW l \in lists, ListError(l)
    PROVE  ShownInv'
<1>1. CallShapes' /\ PaneInv' /\ ListInv'
    BY DEF ShownInv, CallShapes, PaneInv, ListInv, ListError, Blank, opVars, editVars
<1>2. FreshInv'
    BY DEF ShownInv, FreshInv, Quiet, Children, ListError, Blank, opVars
<1> QED BY <1>1, <1>2 DEF ShownInv

LEMMA AnswerErrorKeeps ==
    ASSUME ShownInv, NEW r \in ops, AnswerError(r)
    PROVE  ShownInv'
<1>1. /\ ops' = ops \ {r}
      /\ unsure' = unsure \cup {r.server}
      /\ UNCHANGED <<tree, pane, session, rows, asks, lists, editVars>>
    BY DEF AnswerError
<1>2. CallShapes' /\ PaneInv' /\ ListInv'
    BY <1>1 DEF ShownInv, CallShapes, PaneInv, ListInv, editVars
<1>3. \A s : Quiet(s)' => Quiet(s)
    BY <1>1 DEF Quiet
<1>4. FreshInv'
    BY <1>1, <1>3 DEF ShownInv, FreshInv, Children
<1> QED BY <1>2, <1>4 DEF ShownInv

LEMMA ShownNext == ShownInv /\ [Next]_vars => ShownInv'
<1> SUFFICES ASSUME ShownInv, [Next]_vars PROVE ShownInv'
    OBVIOUS
<1>0. /\ PaneFree => pane \in Servers
      /\ pane \in Servers => Here \in Dirs
    BY DEF ShownInv, PaneInv, PaneFree, Here
<1>1. ASSUME NEW s \in Servers, Switch(s) PROVE ShownInv'
    BY <1>1, LoadKeeps DEF Switch, ShownInv, PaneInv, opVars, editVars
<1>2. ASSUME NEW d \in Dirs, Browse(d) PROVE ShownInv'
    BY <1>0, <1>2, LoadKeeps DEF Browse, ShownInv, PaneInv, opVars, editVars
<1>3. ASSUME NEW l \in lists, ListFiles(l) \/ ShowList(l) \/ ListError(l)
      PROVE  ShownInv'
    BY <1>3, ListFilesKeeps, ShowListKeeps, ListErrorKeeps
<1>4. ASSUME NEW kind, NEW x, CallHere(kind, x) PROVE ShownInv'
    BY <1>0, <1>4, CallKeeps DEF CallHere
<1>5. ASSUME NEW kind, NEW p, NEW q, CallOnRow(kind, p, q) PROVE ShownInv'
    BY <1>0, <1>5, CallKeeps DEF CallOnRow
<1>6. ASSUME NEW p \in Paths, OpenCodeModal(p) PROVE ShownInv'
    BY <1>0, <1>6, EditorKeeps DEF OpenCodeModal, opVars
<1>7. ASSUME NEW r \in ops, Perform(r) PROVE ShownInv'
    BY <1>7, EndsKeeps DEF Perform
<1>8. ASSUME NEW r \in ops, Fail(r) PROVE ShownInv'
    BY <1>8, EndsKeeps DEF Fail
<1>9. ASSUME NEW r \in ops, Answer(r) PROVE ShownInv'
  <2>1. pane \in Servers
      BY DEF ShownInv, PaneInv
  <2>2. /\ Load(pane, Here)
        /\ ops' = ops \ {r}
        /\ editor' = [editor EXCEPT !.open = @ /\ r.kind # "write"]
        /\ UNCHANGED <<tree, pane, session>>
      BY <1>9 DEF Answer
  <2>3. /\ editor' = [open |-> editor.open /\ r.kind # "write",
                      path |-> editor.path, text |-> editor.text]
      BY <2>2 DEF ShownInv, PaneInv
  <2>4. editor'.open => editor.open
      BY <2>3
  <2> QED BY <1>0, <2>1, <2>2, <2>3, <2>4, LoadKeeps
<1>10. ASSUME NEW r \in ops, AnswerError(r) PROVE ShownInv'
    BY <1>10, AnswerErrorKeeps
<1>11. ASSUME NEW r \in reads, ShowText(r) PROVE ShownInv'
    BY <1>11, EditorKeeps DEF ShowText, ShownInv, PaneInv, opVars
<1>12. CASE CloseCodeModal
    BY <1>12, EditorKeeps DEF CloseCodeModal, ShownInv, PaneInv, opVars
<1>13. CASE SaveCodeEditor
    BY <1>13, CallKeeps DEF SaveCodeEditor, ShownInv, PaneInv
<1>14. CASE UNCHANGED vars
    BY <1>14, EditorKeeps DEF vars, editVars, ShownInv, PaneInv
<1> QED
    BY <1>1, <1>2, <1>3, <1>4, <1>5, <1>6, <1>7, <1>8, <1>9, <1>10, <1>11,
       <1>12, <1>13, <1>14
       DEF Next, Upload, PromptMkdir, PromptTouch, DeleteSFTP, RenameSFTP

-----------------------------------------------------------------------------
(* The newest list stands under its own server, and uploads go to the
   directory that the table shows. *)
THEOREM ShownDirectory == Spec => []ShownIsWorkedIn
<1>1. ShownInv => ShownIsWorkedIn
    BY DEF ShownInv, ListInv, ShownIsWorkedIn, Target, Here
<1> QED BY <1>1, ShownInit, ShownNext, PTL DEF Spec

(* The newest list shows the directory as it is, as long as no operation on
   its server is under way or has failed since. *)
THEOREM NewestFresh == Spec => []NewestListIsFresh
<1>1. ShownInv => NewestListIsFresh
    BY DEF ShownInv, FreshInv, Quiet, NewestListIsFresh
<1> QED BY <1>1, ShownInit, ShownNext, PTL DEF Spec

-----------------------------------------------------------------------------
(* "Loading" is shown only as long as an answer is to come. *)
THEOREM LoadingEnds == Spec => []LoadingHasCall
<1>1. Init => LoadingHasCall
    BY DEF Init, LoadingHasCall, Blank
<1>2. ASSUME LoadingHasCall, [Next]_vars PROVE LoadingHasCall'
  <2> USE DEF LoadingHasCall
  <2>1. ASSUME NEW s, NEW d, Load(s, d) PROVE lists' # {}
      BY <2>1 DEF Load
  <2>2. ASSUME NEW s \in Servers, Switch(s) PROVE LoadingHasCall'
      BY <1>2, <2>1, <2>2 DEF Switch, editVars
  <2>3. ASSUME NEW d \in Dirs, Browse(d) PROVE LoadingHasCall'
      BY <1>2, <2>1, <2>3 DEF Browse, editVars
  <2>4. ASSUME NEW l \in lists, ListFiles(l) PROVE LoadingHasCall'
      BY <1>2, <2>4 DEF ListFiles, editVars
  <2>5. ASSUME NEW l \in lists, ShowList(l) \/ ListError(l) PROVE LoadingHasCall'
      BY <1>2, <2>5 DEF ShowList, ListError, Listing, Blank, editVars
  <2>6. ASSUME NEW kind, NEW p, NEW q, NEW seen, Call(kind, p, q, seen)
        PROVE  LoadingHasCall'
      BY <1>2, <2>6 DEF Call, paneVars, editVars
  <2>7. ASSUME NEW r, NEW state, NEW t, Ends(r, state, t) PROVE LoadingHasCall'
      BY <1>2, <2>7 DEF Ends, paneVars, editVars
  <2>8. ASSUME NEW r \in ops, Answer(r) PROVE LoadingHasCall'
    <3>1. lists' # {} /\ UNCHANGED reads
        BY <2>1, <2>8 DEF Answer
    <3>2. editor' = [editor EXCEPT !.open = @ /\ r.kind # "write"]
        BY <2>8 DEF Answer
    <3>3. editor'.text = editor.text
        BY <3>2
    <3> QED BY <1>2, <3>1, <3>3
  <2>9. ASSUME NEW r \in ops, AnswerError(r) PROVE LoadingHasCall'
      BY <1>2, <2>9 DEF AnswerError, editVars
  <2>10. ASSUME NEW p \in Paths, OpenCodeModal(p) PROVE LoadingHasCall'
      BY <1>2, <2>10 DEF OpenCodeModal, paneVars
  <2>11. ASSUME NEW r \in reads, ShowText(r) PROVE LoadingHasCall'
      BY <1>2, <2>11 DEF ShowText, paneVars, Blank
  <2>12. CASE CloseCodeModal
      BY <1>2, <2>12 DEF CloseCodeModal, paneVars
  <2>13. CASE UNCHANGED vars
      BY <1>2, <2>13 DEF vars, paneVars, editVars
  <2> QED
      BY <1>2, <2>2, <2>3, <2>4, <2>5, <2>6, <2>7, <2>8, <2>9, <2>10, <2>11, <2>12, <2>13
         DEF Next, Upload, PromptMkdir, PromptTouch, DeleteSFTP, RenameSFTP, CallHere,
             CallOnRow, SaveCodeEditor, Perform, Fail
<1> QED BY <1>1, <1>2, PTL DEF Spec

-----------------------------------------------------------------------------
(* What a path is, by its names: directories all the way, and at its end the
   name of a directory or, one level deeper, that of a file. *)

Names == DirNames \cup FileNames

Shape(p) ==
    /\ p \in Seq(Names)
    /\ Len(p) \in 1..(Depth + 1)
    /\ \A i \in 1..(Len(p) - 1) : p[i] \in DirNames
    /\ p[Len(p)] \in DirNames => Len(p) <= Depth

LEMMA DirShape == \A d : d \in Dirs <=> d \in Seq(DirNames) /\ Len(d) <= Depth
<1>1. ASSUME NEW d \in Dirs PROVE d \in Seq(DirNames) /\ Len(d) <= Depth
  <2>1. PICK n \in 0..Depth : d \in [1..n -> DirNames]
      BY DEF Dirs
  <2> QED BY <2>1, ConstantsAssumption DEF ConstantsAssumption
<1>2. ASSUME NEW d \in Seq(DirNames), Len(d) <= Depth PROVE d \in Dirs
  <2>1. Len(d) \in 0..Depth /\ d \in [1..Len(d) -> DirNames]
      BY <1>2, LenProperties, ConstantsAssumption DEF ConstantsAssumption
  <2> QED BY <2>1 DEF Dirs
<1> QED BY <1>1, <1>2

LEMMA FrontOf ==
    ASSUME NEW S, NEW p \in Seq(S), Len(p) >= 1
    PROVE  /\ Front(p) \in Seq(S) /\ Len(Front(p)) = Len(p) - 1
           /\ \A i \in 1..(Len(p) - 1) : Front(p)[i] = p[i]
<1>1. /\ Len(p) \in Nat
      /\ \A i \in 1..(Len(p) - 1) : p[i] \in S
    BY ElementOfSeq, LenProperties
<1> DEFINE n == Len(p) - 1
<1>2. /\ n \in Nat /\ n - 1 + 1 = n
      /\ (IF 1 <= n THEN n - 1 + 1 ELSE 0) = n
      /\ \A i \in 1..n : 1 + i - 1 = i
  <2>1. n \in Nat
      BY <1>1
  <2> HIDE DEF n
  <2> QED BY <2>1
<1>3. Front(p) = SubSeq(p, 1, n)
    BY DEF Front
<1> HIDE DEF n
<1>4. /\ SubSeq(p, 1, n) \in Seq(S) /\ Len(SubSeq(p, 1, n)) = n
      /\ \A i \in 1..n : SubSeq(p, 1, n)[i] = p[1 + i - 1]
  <2>1. \A i \in 1..n : p[i] \in S
      BY <1>1 DEF n
  <2> QED BY <1>2, <2>1, SubSeqProperties
<1>5. Front(p) \in Seq(S) /\ Len(Front(p)) = n /\ \A i \in 1..n : Front(p)[i] = p[i]
    BY <1>2, <1>3, <1>4
<1> QED BY <1>5 DEF n

LEMMA FilesOf ==
    ASSUME NEW x \in Files
    PROVE  \E d \in Dirs, f \in FileNames : x = d \o <<f>>
BY Z3 DEF Files

LEMMA PathShape == \A p : p \in Paths <=> Shape(p)
<1> USE ConstantsAssumption DEF ConstantsAssumption
<1>1. ASSUME NEW p \in Dirs \ {<<>>} PROVE Shape(p)
  <2>1. p \in Seq(DirNames) /\ Len(p) \in 1..Depth
      BY <1>1, DirShape, EmptySeq, LenProperties
  <2>2. \A i \in 1..Len(p) : p[i] \in DirNames
      BY <2>1, ElementOfSeq
  <2>3. p \in Seq(Names)
      BY <2>1, SeqMonotonic DEF Names
  <2> QED BY <2>1, <2>2, <2>3 DEF Shape
<1>2. ASSUME NEW p \in Files PROVE Shape(p)
  <2>1. PICK d \in Dirs, f \in FileNames : p = d \o <<f>>
      BY FilesOf
  <2>2. d \in Seq(DirNames) /\ Len(d) <= Depth
      BY DirShape
  <2>3. d \in Seq(Names) /\ <<f>> \in Seq(Names) /\ Len(<<f>>) = 1 /\ <<f>>[1] = f
      BY <2>2, SeqMonotonic DEF Names
  <2>4. /\ p \in Seq(Names) /\ Len(p) = Len(d) + 1 /\ Len(d) \in Nat
        /\ \A i \in 1..Len(p) : p[i] = IF i <= Len(d) THEN d[i] ELSE f
      BY <2>1, <2>3, ConcatProperties, LenProperties
  <2>5. \A i \in 1..Len(d) : d[i] \in DirNames
      BY <2>2, ElementOfSeq
  <2>6. p[Len(p)] = f
      BY <2>4
  <2> QED BY <2>2, <2>4, <2>5, <2>6 DEF Shape
<1>3. ASSUME NEW p, Shape(p), p[Len(p)] \in DirNames PROVE p \in Dirs \ {<<>>}
  <2>1. Len(p) \in 1..Depth /\ p \in Seq(Names)
      BY <1>3 DEF Shape
  <2>2. \A i \in 1..Len(p) : p[i] \in DirNames
      BY <1>3, <2>1 DEF Shape
  <2>3. p \in [1..Len(p) -> DirNames]
      BY <2>1, <2>2, LenProperties
  <2>4. p # <<>>
      BY <2>1, EmptySeq
  <2> QED BY <2>1, <2>3, <2>4 DEF Dirs
<1>4. ASSUME NEW p, Shape(p), p[Len(p)] \notin DirNames PROVE p \in Files
  <2>1. p \in Seq(Names) /\ Len(p) \in 1..(Depth + 1)
      BY <1>4 DEF Shape
  <2>2. /\ Front(p) \in Seq(Names) /\ Len(Front(p)) = Len(p) - 1
        /\ \A i \in 1..(Len(p) - 1) : Front(p)[i] = p[i]
      BY <2>1, FrontOf
  <2>3. \A i \in 1..Len(Front(p)) : Front(p)[i] \in DirNames
      BY <1>4, <2>1, <2>2 DEF Shape
  <2>4. Front(p) \in [1..(Len(p) - 1) -> DirNames]
      BY <2>1, <2>2, <2>3, LenProperties
  <2>5. Front(p) \in Dirs
    <3>1. Len(p) - 1 \in 0..Depth
        BY <2>1
    <3> QED BY <2>4, <3>1, Zenon DEF Dirs
  <2>6. p[Len(p)] \in FileNames
      BY <1>4, <2>1, ElementOfSeq DEF Names
  <2> DEFINE f == p[Len(p)]
             q == Front(p) \o <<f>>
  <2>7. <<f>> \in Seq(Names) /\ Len(<<f>>) = 1 /\ <<f>>[1] = f
      BY <2>6 DEF Names
  <2>8. /\ q \in Seq(Names) /\ Len(q) = Len(p)
        /\ \A i \in 1..Len(q) : q[i] = IF i <= Len(p) - 1 THEN Front(p)[i] ELSE f
      BY <2>1, <2>2, <2>7, ConcatProperties
  <2>9. \A i \in 1..Len(p) : q[i] = p[i]
      BY <2>1, <2>2, <2>8
  <2>10. p = q
      BY <2>1, <2>8, <2>9, SeqEqual
  <2> QED BY <2>5, <2>6, <2>10 DEF Files
<1> QED BY <1>1, <1>2, <1>3, <1>4 DEF Paths

(* The parent of a path is a path, or the root. *)
LEMMA ParentIsPath ==
    ASSUME NEW p \in Paths
    PROVE  /\ Front(p) \in Paths \cup {<<>>}
           /\ Front(p) \in Seq(Names) /\ Len(Front(p)) = Len(p) - 1
           /\ \A i \in 1..(Len(p) - 1) : Front(p)[i] = p[i]
<1>1. Shape(p) /\ p \in Seq(Names) /\ Len(p) \in 1..(Depth + 1)
    BY PathShape DEF Shape
<1>2. /\ Front(p) \in Seq(Names) /\ Len(Front(p)) = Len(p) - 1
      /\ \A i \in 1..(Len(p) - 1) : Front(p)[i] = p[i]
    BY <1>1, FrontOf
<1>3. CASE Len(p) = 1
    BY <1>2, <1>3, EmptySeq
<1>4. CASE Len(p) # 1
  <2>0. Depth \in Nat
      BY ConstantsAssumption DEF ConstantsAssumption
  <2>1. Len(p) - 1 \in 1..Depth
    <3> DEFINE n == Len(p)
    <3>1. n \in 1..(Depth + 1) /\ n # 1
        BY <1>1, <1>4
    <3> HIDE DEF n
    <3>2. n - 1 \in 1..Depth
        BY <2>0, <3>1
    <3> QED BY <3>2 DEF n
  <2>2. \A i \in 1..(Len(p) - 1) : Front(p)[i] \in DirNames
      BY <1>1, <1>2 DEF Shape
  <2>3. Shape(Front(p))
      BY <1>2, <2>0, <2>1, <2>2 DEF Shape
  <2> QED BY <1>2, <2>3, PathShape
<1> QED BY <1>2, <1>3, <1>4

(* One path is below another when it begins with the same names. *)
LEMMA PrefixByNames ==
    ASSUME NEW p \in Seq(Names), NEW q \in Seq(Names)
    PROVE  IsPrefix(p, q) <=>
               Len(p) <= Len(q) /\ \A i \in 1..Len(p) : p[i] = q[i]
<1>1. Len(p) \in Nat /\ Len(q) \in Nat
    BY LenProperties
<1>2. SubSeq(p, 1, Len(p)) = p
    BY SubSeqFull
<1> SUFFICES ASSUME Len(p) <= Len(q)
             PROVE  SubSeq(q, 1, Len(p)) = p <=> \A i \in 1..Len(p) : p[i] = q[i]
    BY <1>2 DEF IsPrefix
<1> DEFINE n == Len(p)
           c == SubSeq(q, 1, n)
<1>3. \A i \in 1..n : q[i] \in Names
    BY <1>1, ElementOfSeq
<1>4. c \in Seq(Names) /\ Len(c) = n /\ \A i \in 1..n : c[i] = q[i]
  <2>1. /\ n \in Nat /\ n - 1 + 1 = n
        /\ (IF 1 <= n THEN n - 1 + 1 ELSE 0) = n
        /\ \A i \in 1..n : 1 + i - 1 = i
    <3>1. n \in Nat
        BY <1>1
    <3> HIDE DEF n
    <3> QED BY <3>1
  <2> HIDE DEF n
  <2>2. /\ c \in Seq(Names) /\ Len(c) = n
        /\ \A i \in 1..n : c[i] = q[1 + i - 1]
      BY <1>3, <2>1, SubSeqProperties
  <2> QED BY <2>1, <2>2
<1> HIDE DEF c
<1>5. c = p <=> \A i \in 1..Len(p) : p[i] = c[i]
    BY <1>4, SeqEqual
<1> QED BY <1>4, <1>5 DEF c

LEMMA PathPrefix ==
    ASSUME NEW p \in Paths, NEW q \in Paths
    PROVE  IsPrefix(p, q) <=>
               Len(p) <= Len(q) /\ \A i \in 1..Len(p) : p[i] = q[i]
BY PathShape, PrefixByNames DEF Shape

(* What is below the parent of a path is, with the path, below it as well. *)
LEMMA PrefixOfParent ==
    ASSUME NEW p \in Paths, NEW q \in Paths, Front(q) # <<>>
    PROVE  /\ IsPrefix(p, Front(q)) => IsPrefix(p, q)
           /\ IsPrefix(q, p) => IsPrefix(Front(q), p)
<1>1. Front(q) \in Paths
    BY ParentIsPath
<1>2. /\ Len(Front(q)) = Len(q) - 1
      /\ \A i \in 1..(Len(q) - 1) : Front(q)[i] = q[i]
    BY ParentIsPath
<1>3. Len(p) \in Nat /\ Len(q) \in Nat
    BY PathShape DEF Shape
<1> QED BY <1>1, <1>2, <1>3, PathPrefix

(* The operations keep a tree of files a tree. *)
LEMMA MakingKeepsTree ==
    ASSUME NEW t \in SUBSET Paths, Closed(t), NEW p \in Paths
    PROVE  UpTo(p) \subseteq Paths /\ Closed(t \cup UpTo(p))
<1>1. ASSUME NEW q \in UpTo(p) PROVE Front(q) \in UpTo(p) \cup {<<>>}
    BY <1>1, ParentIsPath, PrefixOfParent DEF UpTo
<1> QED BY <1>1 DEF UpTo, Closed

LEMMA AddingKeepsTree ==
    ASSUME NEW t \in SUBSET Paths, Closed(t), NEW p \in Paths, Exists(Front(p), t)
    PROVE  Closed(t \cup {p})
BY DEF Closed, Exists

LEMMA RemovingKeepsTree ==
    ASSUME NEW t \in SUBSET Paths, Closed(t), NEW p \in Paths
    PROVE  Closed(t \ Below(p))
<1>1. ASSUME NEW q \in t \ Below(p) PROVE Front(q) \in (t \ Below(p)) \cup {<<>>}
    BY <1>1, PrefixOfParent DEF Below, Closed
<1> QED BY <1>1 DEF Closed

(* Where a path below p goes when p is moved to q. *)
To(p, q, x) == q \o SubSeq(x, Len(p) + 1, Len(x))

LEMMA ToByNames ==
    ASSUME NEW p \in Paths, NEW q \in Paths, NEW x \in Below(p)
    PROVE  /\ To(p, q, x) \in Seq(Names)
           /\ Len(To(p, q, x)) = Len(q) + Len(x) - Len(p)
           /\ \A i \in 1..(Len(q) + Len(x) - Len(p)) :
                  To(p, q, x)[i] = IF i <= Len(q) THEN q[i]
                                   ELSE x[i - Len(q) + Len(p)]
           /\ Len(p) \in 1..Len(x)
<1> DEFINE n == Len(p)
           m == Len(x)
           k == Len(q)
           c == SubSeq(x, n + 1, m)
<1>1. /\ x \in Paths /\ n <= m
      /\ \A i \in 1..n : p[i] = x[i]
    BY PathPrefix DEF Below
<1>2. /\ x \in Seq(Names) /\ q \in Seq(Names)
      /\ n \in Nat \ {0} /\ m \in Nat /\ n \in 1..m /\ k \in Nat
    BY <1>1, PathShape DEF Shape
<1>3. \A i \in 1..m : x[i] \in Names
    BY <1>2, ElementOfSeq
<1>4. /\ c \in Seq(Names) /\ Len(c) = m - n
      /\ \A i \in 1..(m - n) : c[i] = x[n + i]
  <2>1. /\ n + 1 \in Int /\ m \in Int /\ m - (n + 1) + 1 = m - n
        /\ (IF n + 1 <= m THEN m - (n + 1) + 1 ELSE 0) = m - n
        /\ \A i \in 1..(m - n) : n + 1 + i - 1 = n + i
    <3>1. n \in Nat /\ m \in Nat /\ n <= m
        BY <1>2
    <3> HIDE DEF n, m
    <3> QED BY <3>1
  <2>2. \A i \in (n + 1)..m : x[i] \in Names
      BY <1>2, <1>3
  <2> HIDE DEF n, m
  <2>3. /\ c \in Seq(Names) /\ Len(c) = m - n
        /\ \A i \in 1..(m - n) : c[i] = x[n + 1 + i - 1]
      BY <2>1, <2>2, SubSeqProperties
  <2> QED BY <2>1, <2>3
<1> HIDE DEF c
<1>5. /\ q \o c \in Seq(Names) /\ Len(q \o c) = k + m - n
      /\ \A i \in 1..(k + m - n) : (q \o c)[i] = IF i <= k THEN q[i] ELSE c[i - k]
  <2>1. /\ q \o c \in Seq(Names) /\ Len(q \o c) = Len(q) + Len(c)
        /\ \A i \in 1..(Len(q) + Len(c)) :
               (q \o c)[i] = IF i <= Len(q) THEN q[i] ELSE c[i - Len(q)]
      BY <1>2, <1>4, ConcatProperties
  <2>2. Len(q) + Len(c) = k + m - n
      BY <1>2, <1>4
  <2> QED BY <2>1, <2>2
<1>6. \A i \in 1..(k + m - n) :
          (q \o c)[i] = IF i <= k THEN q[i] ELSE x[i - k + n]
  <2>1. \A i \in 1..(k + m - n) :
            ~(i <= k) => i - k \in 1..(m - n) /\ n + (i - k) = i - k + n
    <3>1. n \in Nat /\ m \in Nat /\ n <= m /\ k \in Nat
        BY <1>2
    <3> HIDE DEF n, m, k
    <3> QED BY <3>1
  <2> HIDE DEF n, m, k
  <2> QED BY <1>4, <1>5, <2>1
<1>7. To(p, q, x) = q \o c
    BY DEF To, c
<1> QED BY <1>2, <1>5, <1>6, <1>7

(* What is moved with a directory keeps its parent, which is moved with it. *)
LEMMA ToParent ==
    ASSUME NEW p \in Paths, NEW q \in Paths, NEW x \in Below(p),
           To(p, q, x) \in Paths
    PROVE  IF x = p THEN To(p, q, x) = q
           ELSE Front(x) \in Below(p) /\ Front(To(p, q, x)) = To(p, q, Front(x))
<1> DEFINE y == To(p, q, x)
           n == Len(p)
           m == Len(x)
           k == Len(q)
<1>1. /\ y \in Seq(Names) /\ Len(y) = k + m - n
      /\ \A i \in 1..(k + m - n) : y[i] = IF i <= k THEN q[i] ELSE x[i - k + n]
      /\ n \in 1..m
    BY ToByNames
<1>2. /\ x \in Paths /\ x \in Seq(Names) /\ p \in Seq(Names) /\ q \in Seq(Names)
      /\ m \in Nat /\ n \in Nat /\ k \in Nat
      /\ \A i \in 1..n : p[i] = x[i]
    BY PathPrefix, PathShape DEF Below, Shape
<1>3. CASE m = n
  <2>1. x = p
      BY <1>2, <1>3, SeqEqual
  <2>2. k + m - n = k
      BY <1>2, <1>3
  <2>3. y = q
      BY <1>1, <1>2, <2>2, SeqEqual
  <2> QED BY <2>1, <2>3
<1>4. CASE m # n
  <2>1. n <= m - 1 /\ x # p /\ m - 1 \in Nat
    <3>1. x # p
        BY <1>4
    <3>2. n <= m - 1 /\ m - 1 \in Nat
        BY <1>1, <1>2, <1>4
    <3> QED BY <3>1, <3>2
  <2>2. /\ Front(x) \in Seq(Names) /\ Len(Front(x)) = m - 1
        /\ \A i \in 1..(m - 1) : Front(x)[i] = x[i]
        /\ Front(x) \in Paths \cup {<<>>}
      BY <1>2, ParentIsPath
  <2>3. Front(x) \in Paths
      BY <1>1, <2>1, <2>2, EmptySeq
  <2>4. Front(x) \in Below(p)
    <3>1. \A i \in 1..n : p[i] = Front(x)[i]
        BY <1>2, <2>1, <2>2
    <3> QED BY <2>1, <2>2, <2>3, <3>1, PathPrefix DEF Below
  <2>5. /\ Front(y) \in Seq(Names) /\ Len(Front(y)) = k + m - n - 1
        /\ \A i \in 1..(k + m - n - 1) : Front(y)[i] = y[i]
    <3>1. /\ Front(y) \in Seq(Names) /\ Len(Front(y)) = Len(y) - 1
          /\ \A i \in 1..(Len(y) - 1) : Front(y)[i] = y[i]
        BY ParentIsPath
    <3>2. Len(y) - 1 = k + m - n - 1
        BY <1>1
    <3> HIDE DEF y, n, m, k
    <3> QED BY <3>1, <3>2
  <2> DEFINE z == To(p, q, Front(x))
  <2>6. /\ z \in Seq(Names) /\ Len(z) = k + (m - 1) - n
        /\ \A i \in 1..(k + (m - 1) - n) :
               z[i] = IF i <= k THEN q[i] ELSE Front(x)[i - k + n]
      BY <2>2, <2>4, ToByNames
  <2> HIDE DEF z, y
  <2>7. \A i \in 1..(k + m - n - 1) : ~(i <= k) => i - k + n \in 1..(m - 1)
    <3> HIDE DEF n, m, k
    <3> QED BY <1>1, <1>2
  <2>8. k + (m - 1) - n = k + m - n - 1 /\ 1..(k + m - n - 1) \subseteq 1..(k + m - n)
    <3> HIDE DEF n, m, k
    <3> QED BY <1>1, <1>2
  <2>9. \A i \in 1..(k + m - n - 1) : Front(y)[i] = z[i]
    <3> HIDE DEF n, m, k
    <3> QED BY <1>1, <2>2, <2>5, <2>6, <2>7, <2>8
  <2>10. Front(y) = z
      BY <2>5, <2>6, <2>8, <2>9, SeqEqual
  <2> QED BY <2>1, <2>4, <2>10 DEF y, z
<1> QED BY <1>3, <1>4

(* A move to a directory that stays where it is. *)
LEMMA MovingKeepsTree ==
    ASSUME NEW t \in SUBSET Paths, Closed(t), NEW p \in t, NEW q \in Paths,
           Exists(Front(q), t), ~IsPrefix(p, q), Moved(t, p, q) \subseteq Paths
    PROVE  Closed(Moved(t, p, q))
<1>1. Moved(t, p, q) = (t \ Below(p)) \cup {To(p, q, x) : x \in t \cap Below(p)}
    BY DEF Moved, To
<1>2. ASSUME NEW y \in t \ Below(p) PROVE Front(y) \in (t \ Below(p)) \cup {<<>>}
    BY <1>2, RemovingKeepsTree DEF Closed
<1>3. ASSUME NEW x \in t \cap Below(p)
      PROVE  Front(To(p, q, x)) \in Moved(t, p, q) \cup {<<>>}
  <2>1. /\ To(p, q, x) \in Paths
        /\ IF x = p THEN To(p, q, x) = q
           ELSE Front(x) \in Below(p) /\ Front(To(p, q, x)) = To(p, q, Front(x))
      BY <1>1, ToParent
  <2>2. CASE x = p
    <3>1. Front(q) \in t \cup {<<>>}
        BY DEF Exists
    <3>2. Front(q) \notin Below(p) \/ Front(q) = <<>>
        BY PrefixOfParent DEF Below
    <3> QED BY <1>1, <2>1, <2>2, <3>1, <3>2
  <2>3. CASE x # p
    <3>1. Front(x) # <<>>
        BY <2>1, <2>3, PathShape, EmptySeq DEF Below, Shape
    <3>2. Front(x) \in t
        BY <3>1 DEF Closed
    <3> QED BY <1>1, <2>1, <2>3, <3>2
  <2> QED BY <2>2, <2>3
<1> QED BY <1>1, <1>2, <1>3 DEF Closed

-----------------------------------------------------------------------------
(* The types, by the part of the state that they are about.  Every call under way
   has its list to come within the bound. *)

TreeTypes ==
    /\ tree \in [Servers -> SUBSET Paths]
    /\ \A s \in Servers : Closed(tree[s])

RowTypes ==
    \/ rows \in {Blank(k) : k \in {"none", "loading", "error"}}
    \/ /\ rows.kind = "list"
       /\ rows.ask \in 1..asks /\ rows.server \in Servers /\ rows.dir \in Dirs
       /\ rows.names \subseteq Paths

CallTypes ==
    /\ lists \subseteq ListCalls
    /\ \A l \in lists : l.ask <= asks
    /\ ops \subseteq Ops

BoundTypes ==
    /\ asks \in Nat /\ IsFiniteSet(ops)
    /\ asks + Cardinality(ops) <= MaxAsks
    /\ calls \in 0..MaxCalls
    /\ unsure \subseteq Servers

EditorTypes ==
    /\ editor \in [open : BOOLEAN, path : Paths \cup {<<>>}, text : Texts]
    /\ opens \in 0..MaxOpens
    /\ reads \subseteq [open : 1..MaxOpens, server : Servers, path : Paths]

TypeInv == TreeTypes /\ RowTypes /\ CallTypes /\ BoundTypes /\ EditorTypes

LEMMA TypeInit == Init => TypeInv
<1> SUFFICES ASSUME Init PROVE TypeInv
    OBVIOUS
<1>1. TreeTypes /\ RowTypes /\ CallTypes
    BY ConstantsAssumption DEF Init, TreeTypes, RowTypes, CallTypes, ConstantsAssumption
<1>2. BoundTypes
    BY FS_EmptySet, ConstantsAssumption DEF Init, BoundTypes, ConstantsAssumption
<1>3. EditorTypes
    BY ConstantsAssumption DEF Init, EditorTypes, Texts, Blank, ConstantsAssumption
<1> QED BY <1>1, <1>2, <1>3 DEF TypeInv

LEMMA ResultKeepsTree ==
    ASSUME NEW t \in SUBSET Paths, Closed(t), NEW r \in Ops, Possible(r, t)
    PROVE  Result(r, t) \subseteq Paths /\ Closed(Result(r, t))
<1>0. r.path \in Paths /\ r.to \in Paths
    BY DEF Ops
<1>1. CASE r.kind \in {"upload", "mkdir"}
    BY <1>0, <1>1, MakingKeepsTree DEF Result
<1>2. CASE r.kind \in {"touch", "write"}
    BY <1>0, <1>2, AddingKeepsTree DEF Result, Possible
<1>3. CASE r.kind = "delete"
    BY <1>0, <1>3, RemovingKeepsTree DEF Result
<1>4. CASE r.kind = "rename"
    BY <1>0, <1>4, MovingKeepsTree DEF Result, Possible, Renamable
<1> QED BY <1>1, <1>2, <1>3, <1>4 DEF Ops

LEMMA RemainsAreTrees ==
    ASSUME NEW t \in SUBSET Paths, Closed(t), NEW r \in Ops,
           NEW x \in Remains(r, t)
    PROVE  x \subseteq Paths /\ Closed(x)
<1>1. CASE ~Possible(r, t)
    BY <1>1 DEF Remains
<1>2. CASE Possible(r, t) /\ r.kind = "rename"
    BY <1>2, ResultKeepsTree DEF Remains
<1>3. CASE Possible(r, t) /\ r.kind # "rename"
    BY <1>3, ResultKeepsTree DEF Remains
<1> QED BY <1>1, <1>2, <1>3

(* A new call for a list takes one of the calls that the bound allows. *)
LEMMA LoadTypes ==
    ASSUME TypeInv, NEW s \in Servers, NEW d \in Dirs, Load(s, d),
           asks + 1 + Cardinality(ops') <= MaxAsks, IsFiniteSet(ops'), ops' \subseteq ops,
           UNCHANGED <<tree, calls>>
    PROVE  TreeTypes' /\ RowTypes' /\ CallTypes' /\ BoundTypes'
<1>1. Cardinality(ops') \in Nat
    BY FS_CardinalityType
<1>2. asks \in Nat /\ asks + 1 \in 1..MaxAsks
    BY <1>1, ConstantsAssumption DEF TypeInv, BoundTypes, ConstantsAssumption
<1>3. TreeTypes' /\ RowTypes'
    BY DEF TypeInv, TreeTypes, RowTypes, Load, Blank
<1>4. BoundTypes'
    BY <1>2 DEF TypeInv, BoundTypes, Load
<1>5. CallTypes'
  <2> DEFINE new == [ask |-> asks + 1, server |-> s, dir |-> d, state |-> "sent",
                     names |-> {}]
  <2>1. lists' = lists \cup {new} /\ asks' = asks + 1
      BY DEF Load
  <2>2. new \in ListCalls /\ new.ask = asks + 1
      BY <1>2 DEF ListCalls
  <2> HIDE DEF new
  <2>3. \A l \in lists : l.ask \in Nat /\ l.ask <= asks
      BY DEF TypeInv, CallTypes, ListCalls
  <2> QED BY <1>2, <2>1, <2>2, <2>3 DEF TypeInv, CallTypes
<1> QED BY <1>3, <1>4, <1>5

(* So does a new operation, and it names paths. *)
LEMMA CallTypesKept ==
    ASSUME TypeInv, NEW kind, NEW p, NEW q, NEW seen \in Places, pane \in Servers,
           kind \in {"upload", "mkdir", "touch", "delete", "rename", "write"},
           Call(kind, p, q, seen)
    PROVE  TypeInv'
<1> DEFINE new == [kind |-> kind, server |-> pane, path |-> p, to |-> q,
                   seen |-> seen, state |-> "sent"]
<1>1. /\ ops' = ops \cup {new} /\ calls' = calls + 1 /\ calls < MaxCalls
      /\ asks + Cardinality(ops) < MaxAsks
      /\ p \in Paths /\ q \in Paths
      /\ UNCHANGED <<tree, paneVars, editVars>>
    BY DEF Call, MayAsk
<1>2. new \in Ops
    BY <1>1 DEF Ops
<1> HIDE DEF new
<1>3. TreeTypes' /\ RowTypes' /\ CallTypes' /\ EditorTypes'
    BY <1>1, <1>2 DEF TypeInv, TreeTypes, RowTypes, CallTypes, EditorTypes, paneVars,
                      editVars
<1>4. /\ IsFiniteSet(ops') /\ Cardinality(ops') \in Nat /\ Cardinality(ops) \in Nat
      /\ Cardinality(ops') <= Cardinality(ops) + 1
  <2>1. IsFiniteSet(ops)
      BY DEF TypeInv, BoundTypes
  <2>2. Cardinality(ops) \in Nat
      BY <2>1, FS_CardinalityType
  <2>3. /\ IsFiniteSet(ops \cup {new})
        /\ Cardinality(ops \cup {new}) \in {Cardinality(ops), Cardinality(ops) + 1}
      BY <2>1, FS_AddElement
  <2> QED BY <1>1, <2>2, <2>3
<1>5. BoundTypes'
    BY <1>1, <1>4, ConstantsAssumption
       DEF TypeInv, BoundTypes, paneVars, ConstantsAssumption
<1> QED BY <1>3, <1>5 DEF TypeInv

(* The end of an operation leaves a tree. *)
LEMMA EndsTypes ==
    ASSUME TypeInv, NEW r \in ops, NEW state \in {"done", "failed"},
           NEW t \in SUBSET Paths, Closed(t), Ends(r, state, t)
    PROVE  TypeInv'
<1> DEFINE ended == [r EXCEPT !.state = state]
<1>1. /\ ops' = (ops \ {r}) \cup {ended}
      /\ tree' = [tree EXCEPT ![r.server] = t]
      /\ UNCHANGED <<calls, paneVars, editVars>>
    BY DEF Ends
<1>2. r \in Ops /\ ended \in Ops
    BY DEF TypeInv, CallTypes, Ops
<1> HIDE DEF ended
<1>3. TreeTypes'
    BY <1>1 DEF TypeInv, TreeTypes
<1>4. RowTypes' /\ CallTypes' /\ EditorTypes'
    BY <1>1, <1>2 DEF TypeInv, RowTypes, CallTypes, EditorTypes, paneVars, editVars
<1>5. /\ IsFiniteSet(ops') /\ Cardinality(ops') \in Nat /\ Cardinality(ops) \in Nat
      /\ Cardinality(ops') <= Cardinality(ops)
  <2>1. IsFiniteSet(ops)
      BY DEF TypeInv, BoundTypes
  <2>2. IsFiniteSet(ops \ {r}) /\ Cardinality(ops \ {r}) = Cardinality(ops) - 1
      BY <2>1, FS_RemoveElement
  <2>3. Cardinality(ops) \in Nat /\ Cardinality(ops \ {r}) \in Nat
      BY <2>1, <2>2, FS_CardinalityType
  <2> DEFINE rest == ops \ {r}
  <2>4. /\ IsFiniteSet(rest \cup {ended})
        /\ Cardinality(rest \cup {ended}) \in {Cardinality(rest), Cardinality(rest) + 1}
    <3>1. IsFiniteSet(rest)
        BY <2>2
    <3> HIDE DEF rest
    <3> QED BY <3>1, FS_AddElement
  <2> QED BY <1>1, <2>2, <2>3, <2>4
<1>6. BoundTypes'
    BY <1>1, <1>5, ConstantsAssumption
       DEF TypeInv, BoundTypes, paneVars, ConstantsAssumption
<1> QED BY <1>3, <1>4, <1>6 DEF TypeInv

(* The answer to an operation leaves one operation less. *)
LEMMA Answered ==
    ASSUME TypeInv, NEW r \in ops, ops' = ops \ {r}
    PROVE  /\ IsFiniteSet(ops') /\ ops' \subseteq ops
           /\ Cardinality(ops) \in Nat /\ Cardinality(ops') = Cardinality(ops) - 1
<1>1. IsFiniteSet(ops)
    BY DEF TypeInv, BoundTypes
<1> QED BY <1>1, FS_RemoveElement, FS_CardinalityType

LEMMA ListTypes ==
    ASSUME TypeInv, NEW l \in lists, ListFiles(l) \/ ShowList(l) \/ ListError(l)
    PROVE  TypeInv'
<1>1. l \in ListCalls /\ l.ask <= asks
    BY DEF TypeInv, CallTypes
<1>2. l.ask \in 1..MaxAsks /\ l.server \in Servers /\ l.dir \in Dirs /\ l.names \subseteq Paths
    BY <1>1 DEF ListCalls
<1>3. l.ask \in 1..asks
    BY <1>1, <1>2 DEF TypeInv, BoundTypes
<1>4. CASE ListFiles(l)
  <2> DEFINE new == [ask |-> l.ask, server |-> l.server, dir |-> l.dir,
                     state |-> "read", names |-> Children(l.dir, tree[l.server])]
  <2>1. /\ lists' = (lists \ {l}) \cup {new}
        /\ UNCHANGED <<tree, pane, session, rows, asks, opVars, unsure, editVars>>
      BY <1>4 DEF ListFiles
  <2>2. Children(l.dir, tree[l.server]) \subseteq Paths
      BY <1>2 DEF Children, TypeInv, TreeTypes
  <2>3. new \in ListCalls /\ new.ask = l.ask
      BY <1>2, <2>2 DEF ListCalls
  <2> HIDE DEF new
  <2> QED BY <1>1, <2>1, <2>3
          DEF TypeInv, TreeTypes, RowTypes, CallTypes, BoundTypes, EditorTypes, opVars,
              editVars
<1>5. CASE ShowList(l)
    BY <1>2, <1>3, <1>5 DEF ShowList, Listing, TypeInv, TreeTypes, RowTypes, CallTypes,
                     BoundTypes, EditorTypes, opVars, editVars
<1>6. CASE ListError(l)
    BY <1>6 DEF ListError, TypeInv, TreeTypes, RowTypes, CallTypes, BoundTypes,
                EditorTypes, opVars, editVars
<1> QED BY <1>4, <1>5, <1>6

LEMMA TypeNext == TypeInv /\ ShownInv /\ [Next]_vars => TypeInv'
<1> SUFFICES ASSUME TypeInv, ShownInv, [Next]_vars PROVE TypeInv'
    OBVIOUS
<1>0. /\ PaneFree => pane \in Servers
      /\ pane \in Servers => Here \in Dirs
      /\ \A s \in Servers : session[s] \in Dirs
      /\ MayAsk => asks + 1 + Cardinality(ops) <= MaxAsks
      /\ IsFiniteSet(ops) /\ asks \in Nat /\ Cardinality(ops) \in Nat
      /\ \A r \in ops : r.server \in Servers /\ r \in Ops
  <2>1. IsFiniteSet(ops)
      BY DEF TypeInv, BoundTypes
  <2>2. Cardinality(ops) \in Nat /\ asks \in Nat
      BY <2>1, FS_CardinalityType DEF TypeInv, BoundTypes
  <2>3. MayAsk => asks + 1 + Cardinality(ops) <= MaxAsks
      BY <2>2, ConstantsAssumption DEF MayAsk, ConstantsAssumption
  <2>4. \A r \in ops : r.server \in Servers /\ r \in Ops
      BY DEF TypeInv, CallTypes, Ops
  <2> QED BY <2>1, <2>2, <2>3, <2>4 DEF ShownInv, PaneInv, PaneFree, Here
<1>1. ASSUME NEW s \in Servers, Switch(s) PROVE TypeInv'
    BY <1>0, <1>1, LoadTypes DEF Switch, TypeInv, EditorTypes, opVars, editVars
<1>2. ASSUME NEW d \in Dirs, Browse(d) PROVE TypeInv'
    BY <1>0, <1>2, LoadTypes DEF Browse, TypeInv, EditorTypes, opVars, editVars
<1>3. ASSUME NEW l \in lists, ListFiles(l) \/ ShowList(l) \/ ListError(l)
      PROVE  TypeInv'
    BY <1>3, ListTypes
<1>4. ASSUME NEW kind \in {"upload", "mkdir", "touch"}, NEW x, CallHere(kind, x)
      PROVE  TypeInv'
  <2> DEFINE p == Target(kind) \o <<x>>
             seen == [server |-> pane, path |-> Here]
  <2>1. pane \in Servers /\ Call(kind, p, p, seen) /\ p \in Paths
      BY <1>0, <1>4 DEF CallHere, Call
  <2>2. seen \in Places
      BY <1>0, <2>1 DEF Places, Paths
  <2> HIDE DEF p, seen
  <2> QED BY <2>1, <2>2, CallTypesKept
<1>5. ASSUME NEW kind \in {"delete", "rename"}, NEW p \in Paths, NEW q,
             CallOnRow(kind, p, q)
      PROVE  TypeInv'
  <2>1. /\ pane \in Servers /\ Call(kind, p, q, [server |-> rows.server, path |-> p])
        /\ rows.kind = "list"
      BY <1>0, <1>5 DEF CallOnRow
  <2>2. rows.server \in Servers
      BY <2>1 DEF ShownInv, ListInv
  <2>3. [server |-> rows.server, path |-> p] \in Places
      BY <2>2 DEF Places
  <2> QED BY <1>5, <2>1, <2>3, CallTypesKept
<1>6. ASSUME NEW p \in Paths, NEW x \in DirNames \cup FileNames, RenameSFTP(p, x)
      PROVE  TypeInv'
    BY <1>5, <1>6 DEF RenameSFTP
<1>7. ASSUME NEW p \in Paths, OpenCodeModal(p) PROVE TypeInv'
  <2>1. EditorTypes'
    <3>1. /\ opens < MaxOpens /\ opens' = opens + 1
          /\ reads' = reads \cup {[open |-> opens + 1, server |-> pane, path |-> p]}
          /\ editor' = [open |-> TRUE, path |-> p, text |-> Blank("loading")]
        BY <1>7 DEF OpenCodeModal
    <3>2. opens + 1 \in 1..MaxOpens /\ pane \in Servers
        BY <1>0, <1>7, <3>1, ConstantsAssumption
           DEF OpenCodeModal, TypeInv, EditorTypes, ConstantsAssumption
    <3>3. Blank("loading") \in Texts
        BY DEF Texts
    <3> QED BY <3>1, <3>2, <3>3 DEF TypeInv, EditorTypes
  <2> QED BY <1>7, <2>1 DEF OpenCodeModal, TypeInv, TreeTypes, RowTypes, CallTypes,
                            BoundTypes, opVars, paneVars
<1>8. ASSUME NEW r \in ops, Perform(r) PROVE TypeInv'
  <2>1. /\ tree[r.server] \in SUBSET Paths /\ Closed(tree[r.server])
      BY <1>0 DEF TypeInv, TreeTypes, CallTypes
  <2> QED BY <1>0, <1>8, <2>1, ResultKeepsTree, EndsTypes DEF Perform
<1>9. ASSUME NEW r \in ops, Fail(r) PROVE TypeInv'
  <2>1. /\ tree[r.server] \in SUBSET Paths /\ Closed(tree[r.server])
      BY <1>0 DEF TypeInv, TreeTypes, CallTypes
  <2>2. PICK t \in Remains(r, tree[r.server]) : Ends(r, "failed", t)
      BY <1>9 DEF Fail
  <2> QED BY <1>0, <2>1, <2>2, RemainsAreTrees, EndsTypes
<1>10. ASSUME NEW r \in ops, Answer(r) PROVE TypeInv'
  <2>1. /\ pane \in Servers /\ Here \in Dirs /\ Load(pane, Here)
        /\ ops' = ops \ {r} /\ UNCHANGED <<tree, calls>>
      BY <1>0, <1>10 DEF Answer, ShownInv, PaneInv
  <2>2. asks + 1 + Cardinality(ops') <= MaxAsks
    <3>1. Cardinality(ops) \in Nat /\ Cardinality(ops') = Cardinality(ops) - 1
        BY <2>1, Answered
    <3>2. asks \in Nat /\ asks + Cardinality(ops) <= MaxAsks
        BY DEF TypeInv, BoundTypes
    <3> QED BY <3>1, <3>2, ConstantsAssumption DEF ConstantsAssumption
  <2>3. EditorTypes'
    <3>1. /\ editor' = [editor EXCEPT !.open = @ /\ r.kind # "write"]
          /\ UNCHANGED <<opens, reads>>
        BY <1>10 DEF Answer
    <3> QED BY <3>1 DEF TypeInv, EditorTypes
  <2> QED BY <2>1, <2>2, <2>3, Answered, LoadTypes DEF TypeInv
<1>11. ASSUME NEW r \in ops, AnswerError(r) PROVE TypeInv'
  <2>1. /\ ops' = ops \ {r} /\ unsure' = unsure \cup {r.server}
        /\ UNCHANGED <<tree, calls, pane, session, rows, asks, lists, editVars>>
      BY <1>11 DEF AnswerError
  <2>2. BoundTypes'
    <3>1. /\ IsFiniteSet(ops') /\ Cardinality(ops) \in Nat
          /\ Cardinality(ops') = Cardinality(ops) - 1
        BY <2>1, Answered
    <3>2. asks \in Nat /\ asks + Cardinality(ops) <= MaxAsks
        BY DEF TypeInv, BoundTypes
    <3>3. asks' + Cardinality(ops') <= MaxAsks
        BY <2>1, <3>1, <3>2, ConstantsAssumption DEF ConstantsAssumption
    <3> QED BY <1>0, <2>1, <3>1, <3>2, <3>3 DEF TypeInv, BoundTypes
  <2> QED BY <2>1, <2>2 DEF TypeInv, TreeTypes, RowTypes, CallTypes, EditorTypes, editVars
<1>12. ASSUME NEW r \in reads, ShowText(r) PROVE TypeInv'
  <2>1. r.server \in Servers /\ r.path \in Paths
      BY DEF TypeInv, EditorTypes
  <2>2. /\ [kind |-> "text", of |-> [server |-> r.server, path |-> r.path]] \in Texts
        /\ Blank("error") \in Texts
      BY <2>1 DEF Texts, Places
  <2>3. EditorTypes'
      BY <1>12, <2>2 DEF ShowText, TypeInv, EditorTypes
  <2> QED BY <1>12, <2>3 DEF ShowText, TypeInv, TreeTypes, RowTypes, CallTypes,
                             BoundTypes, opVars, paneVars
<1>13. CASE CloseCodeModal
    BY <1>13 DEF CloseCodeModal, TypeInv, TreeTypes, RowTypes, CallTypes, BoundTypes,
                 EditorTypes, opVars, paneVars
<1>14. CASE SaveCodeEditor
  <2>1. Seen(editor.text) \in Places
      BY DEF Seen, Places, TypeInv, EditorTypes, Texts, Blank
  <2>2. pane \in Servers /\ Call("write", editor.path, editor.path, Seen(editor.text))
      BY <1>14 DEF SaveCodeEditor, ShownInv, PaneInv
  <2> QED BY <2>1, <2>2, CallTypesKept
<1>15. CASE UNCHANGED vars
    BY <1>15 DEF vars, TypeInv, TreeTypes, RowTypes, CallTypes, BoundTypes, EditorTypes,
                 opVars, paneVars, editVars
<1>16. ASSUME NEW p \in Paths, DeleteSFTP(p) PROVE TypeInv'
    BY <1>5, <1>16 DEF DeleteSFTP
<1> QED
    BY <1>1, <1>2, <1>3, <1>4, <1>6, <1>7, <1>8, <1>9, <1>10, <1>11, <1>12, <1>13,
       <1>14, <1>15, <1>16 DEF Next, Upload, PromptMkdir, PromptTouch

(* The types hold, and with them that the parent of every path is a directory
   that exists: whatever operations end, fail half way or overlap, the files of
   a server stay a tree.  The calls stay within the bound. *)
THEOREM TypeCorrect == Spec => []TypeOK
<1>1. TypeInv /\ ShownInv => TypeOK
  <2> SUFFICES ASSUME TypeInv, ShownInv PROVE TypeOK
      OBVIOUS
  <2>1. asks \in 0..MaxAsks
      BY FS_CardinalityType, ConstantsAssumption
         DEF TypeInv, BoundTypes, ConstantsAssumption
  <2> QED BY <2>1 DEF TypeInv, TreeTypes, RowTypes, CallTypes, BoundTypes, EditorTypes,
                      ShownInv, PaneInv, TypeOK
<1> QED BY <1>1, TypeInit, TypeNext, ShownInit, ShownNext, PTL DEF Spec

=============================================================================
