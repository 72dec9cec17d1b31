-------------------------- MODULE PageListsProofs --------------------------
(***************************************************************************)
(* Proofs about PageLists, for every set of ids and every number of calls. *)
(*                                                                         *)
(* NewestListIsFresh is not inductive: what the newest call brings was     *)
(* read before it is shown.  NewestIsTrue says the same of an answer that  *)
(* is on its way; it holds because a change that the answer may miss makes *)
(* its list unsettled until another call becomes the newest.               *)
(***************************************************************************)
EXTENDS PageLists, TLAPS

(* A list has at most one newest call, and none once it has been shown. *)
OneNewest ==
    /\ \A m, n \in Slots :
           loads[m].age = "newest" /\ loads[n].age = "newest" /\ loads[m].list = loads[n].list
               => m = n
    /\ \A n \in Slots : loads[n].age = "newest" => loads[n].list \notin fresh

NewestIsTrue ==
    \A n \in Slots :
        loads[n].age = "newest" /\ loads[n].state = "served" /\ Settled(loads[n].list)
            => loads[n].table = stored[loads[n].list]

ListInv == TypeOK /\ OneNewest /\ NewestIsTrue /\ NewestListIsFresh

LoadStates == {FreeSlot} \cup LoadCalls("servers") \cup LoadCalls("snippets")

LEMMA LoadFields ==
    ASSUME NEW ld \in LoadStates
    PROVE  /\ ld = FreeSlot \/ ld.list \in Lists
           /\ ld.list \in Lists \cup {"none"}
           /\ ld.list \in Lists =>
                  ld \in LoadCalls(ld.list) /\ ld.table \in Tables(ld.list)
           /\ ld.age \in {"newest", "older"}
           /\ ld.age = "newest" => ld.list \in Lists
<1>1. CASE ld = FreeSlot
    BY <1>1 DEF FreeSlot, Lists
<1>2. ASSUME NEW l \in Lists, ld \in LoadCalls(l)
      PROVE  ld.list = l /\ ld.age \in {"newest", "older"} /\ ld.table \in Tables(l)
    BY <1>2 DEF LoadCalls
<1>3. ld = FreeSlot \/ \E l \in Lists : ld \in LoadCalls(l)
    BY DEF LoadStates, Lists
<1> QED BY <1>1, <1>2, <1>3

LEMMA SentIsCall ==
    ASSUME NEW l \in Lists
    PROVE  /\ Sent(l) \in LoadStates
           /\ Sent(l).list = l /\ Sent(l).age = "newest" /\ Sent(l).state = "sent"
  BY DEF Sent, LoadStates, LoadCalls, NoEntries, Tables, Lists

LEMMA OlderIsCall ==
    ASSUME NEW ld \in LoadStates, ld.list \in Lists
    PROVE  LET old == [ld EXCEPT !.age = "older"] IN
           old \in LoadStates /\ old.age = "older" /\ old.list = ld.list
<1>1. PICK l \in Lists : ld \in LoadCalls(l)
    BY LoadFields
<1>2. [ld EXCEPT !.age = "older"] \in LoadCalls(l)
    BY <1>1 DEF LoadCalls
<1>3. [ld EXCEPT !.age = "older"].age = "older" /\ [ld EXCEPT !.age = "older"].list = ld.list
    BY <1>1 DEF LoadCalls
<1> QED BY <1>2, <1>3 DEF LoadStates, Lists

LEMMA AskEffect ==
    ASSUME NEW ld \in [Slots -> LoadStates], NEW l \in Lists, Free(ld) # {}
    PROVE  /\ Ask(ld, l) \in [Slots -> LoadStates]
           /\ \A n \in Slots :
                  Ask(ld, l)[n].list = l /\ Ask(ld, l)[n].age = "newest"
                      => Ask(ld, l)[n].state = "sent"
           /\ \A m, n \in {k \in Slots : Ask(ld, l)[k].list = l /\ Ask(ld, l)[k].age = "newest"} :
                  m = n
           /\ \A n \in Slots : Ask(ld, l)[n].list \in Lists \ {l} => Ask(ld, l)[n] = ld[n]
<1>1. PICK new \in Free(ld) :
          Ask(ld, l) = [n \in Slots |->
              IF n = new THEN Sent(l)
              ELSE IF ld[n].list = l THEN [ld[n] EXCEPT !.age = "older"] ELSE ld[n]]
    BY DEF Ask
<1>2. \A n \in Slots :
          /\ n = new => Ask(ld, l)[n] = Sent(l)
          /\ n # new /\ ld[n].list = l =>
                 /\ Ask(ld, l)[n] \in LoadStates
                 /\ Ask(ld, l)[n].age = "older" /\ Ask(ld, l)[n].list = l
          /\ n # new /\ ld[n].list # l => Ask(ld, l)[n] = ld[n]
    BY <1>1, OlderIsCall
<1>3. Ask(ld, l) \in [Slots -> LoadStates]
  <2>1. \A n \in Slots : Ask(ld, l)[n] \in LoadStates
      BY <1>2, SentIsCall
  <2> QED BY <1>1, <2>1
<1>4. /\ Sent(l).list = l /\ Sent(l).state = "sent"
      /\ new \in Slots
    BY SentIsCall DEF Free
<1>5. \A n \in Slots :
          Ask(ld, l)[n].list = l /\ Ask(ld, l)[n].age = "newest" => n = new
    BY <1>2
<1>6. \A n \in Slots : Ask(ld, l)[n].list # l => Ask(ld, l)[n] = ld[n]
    BY <1>2, <1>4
<1>7. Ask(ld, l)[new].state = "sent"
    BY <1>2, <1>4
<1>8. \A n \in Slots :
          Ask(ld, l)[n].list = l /\ Ask(ld, l)[n].age = "newest" => Ask(ld, l)[n].state = "sent"
    BY <1>5, <1>7
<1>9. \A n \in Slots : Ask(ld, l)[n].list \in Lists \ {l} => Ask(ld, l)[n] = ld[n]
    BY <1>6
<1>10. \A m, n \in {k \in Slots : Ask(ld, l)[k].list = l /\ Ask(ld, l)[k].age = "newest"} :
           m = n
    BY <1>5
<1> QED BY <1>3, <1>8, <1>9, <1>10

LEMMA AskedEffect ==
    ASSUME ListInv, NEW ls \in SUBSET Lists, Asked(ls)
    PROVE  /\ loads' \in [Slots -> LoadStates]
           /\ \A n \in Slots :
                  loads'[n].list \in ls /\ loads'[n].age = "newest" => loads'[n].state = "sent"
           /\ \A m, n \in Slots :
                  loads'[m].age = "newest" /\ loads'[n].age = "newest" /\ loads'[m].list = loads'[n].list
                      => m = n
           /\ \A n \in Slots : loads'[n].list \in Lists \ ls => loads'[n] = loads[n]
           /\ fresh' = fresh \ ls /\ unsure' = unsure \ ls
<1> DEFINE mid == IF "servers" \in ls THEN Ask(loads, "servers") ELSE loads
<1>1. /\ "servers" \in ls => Free(loads) # {}
      /\ "snippets" \in ls => Free(mid) # {}
      /\ loads' = IF "snippets" \in ls THEN Ask(mid, "snippets") ELSE mid
      /\ fresh' = fresh \ ls /\ unsure' = unsure \ ls
    BY DEF Asked
<1>2. loads \in [Slots -> LoadStates]
    BY DEF ListInv, TypeOK, LoadStates
<1>3. \A m, n \in Slots :
          loads[m].age = "newest" /\ loads[n].age = "newest" /\ loads[m].list = loads[n].list => m = n
    BY DEF ListInv, OneNewest
<1>4. /\ mid \in [Slots -> LoadStates]
      /\ "servers" \in ls =>
             \A n \in Slots :
                 mid[n].list = "servers" /\ mid[n].age = "newest" => mid[n].state = "sent"
      /\ \A m, n \in Slots :
             mid[m].age = "newest" /\ mid[n].age = "newest" /\ mid[m].list = mid[n].list => m = n
      /\ \A n \in Slots : mid[n].list \in Lists \ (ls \cap {"servers"}) => mid[n] = loads[n]
  <2>1. CASE "servers" \in ls
    <3>1. "servers" \in Lists
        BY DEF Lists
    <3> QED BY <1>1, <1>2, <1>3, <2>1, <3>1, AskEffect, LoadFields
  <2>2. CASE "servers" \notin ls
      BY <1>2, <1>3, <2>2
  <2> QED BY <2>1, <2>2
<1> HIDE DEF mid
<1>5. CASE "snippets" \in ls
  <2>1. "snippets" \in Lists /\ "servers" # "snippets"
      BY DEF Lists
  <2>2. loads' = Ask(mid, "snippets") /\ Free(mid) # {}
      BY <1>1, <1>5
  <2>3. /\ loads' \in [Slots -> LoadStates]
        /\ \A n \in Slots :
               loads'[n].list = "snippets" /\ loads'[n].age = "newest" => loads'[n].state = "sent"
        /\ \A m, n \in {k \in Slots : loads'[k].list = "snippets" /\ loads'[k].age = "newest"} :
               m = n
        /\ \A n \in Slots : loads'[n].list \in Lists \ {"snippets"} => loads'[n] = mid[n]
      BY <1>4, <2>1, <2>2, AskEffect
  <2>4. \A n \in Slots :
            loads'[n].age = "newest" => loads'[n].list \in {"servers", "snippets"}
      BY <2>3, LoadFields DEF Lists
  <2>5. \A l \in ls : l = "servers" \/ l = "snippets"
      BY DEF Lists
  <2>6. \A n \in Slots :
            loads'[n].list \in ls /\ loads'[n].age = "newest" => loads'[n].state = "sent"
    <3> SUFFICES ASSUME NEW n \in Slots, loads'[n].list \in ls, loads'[n].age = "newest"
                 PROVE  loads'[n].state = "sent"
        OBVIOUS
    <3>1. CASE loads'[n].list = "snippets"
        BY <3>1, <2>3
    <3>2. CASE loads'[n].list = "servers" /\ "servers" \in ls
      <4>1. loads'[n] = mid[n]
          BY <3>2, <2>1, <2>3 DEF Lists
      <4> QED BY <3>2, <4>1, <1>4
    <3> QED BY <3>1, <3>2, <2>5
  <2>7. \A m, n \in Slots :
            loads'[m].age = "newest" /\ loads'[n].age = "newest"
                /\ loads'[m].list = loads'[n].list => m = n
    <3> SUFFICES ASSUME NEW m \in Slots, NEW n \in Slots,
                        loads'[m].age = "newest", loads'[n].age = "newest",
                        loads'[m].list = loads'[n].list
                 PROVE  m = n
        OBVIOUS
    <3>1. CASE loads'[m].list = "snippets"
        BY <3>1, <2>3
    <3>2. CASE loads'[m].list = "servers"
      <4>1. loads'[n] = mid[n] /\ loads'[m] = mid[m]
          BY <3>2, <2>1, <2>3 DEF Lists
      <4> QED BY <3>2, <4>1, <1>4
    <3> QED BY <3>1, <3>2, <2>4
  <2>8. \A n \in Slots : loads'[n].list \in Lists \ ls => loads'[n] = loads[n]
    <3> SUFFICES ASSUME NEW n \in Slots, loads'[n].list \in Lists \ ls
                 PROVE  loads'[n] = loads[n]
        OBVIOUS
    <3>1. loads'[n] = mid[n]
        BY <1>5, <2>3
    <3> QED BY <3>1, <1>4
  <2> QED BY <1>1, <2>3, <2>6, <2>7, <2>8
<1>6. CASE "snippets" \notin ls
  <2>1. loads' = mid /\ ls \subseteq {"servers"}
      BY <1>1, <1>6 DEF Lists
  <2> QED BY <1>1, <1>4, <2>1
<1> QED BY <1>5, <1>6

-----------------------------------------------------------------------------
(* How the lists fare in a step, by what happens to them. *)

ListsTrue == OneNewest /\ NewestIsTrue /\ NewestListIsFresh

(* Nothing happens to the page, and no table changes that is settled then. *)
LEMMA ListsStay ==
    ASSUME ListInv, UNCHANGED <<page, fresh, loads>>,
           \A l \in Lists : Settled(l)' => Settled(l) /\ stored'[l] = stored[l]
    PROVE  ListsTrue'
<1>1. /\ page' = page /\ fresh' = fresh /\ loads' = loads
      /\ fresh \subseteq Lists
    BY DEF ListInv, TypeOK
<1>2. OneNewest'
    BY <1>1 DEF ListInv, OneNewest
<1>3. NewestListIsFresh'
    BY <1>1 DEF ListInv, NewestListIsFresh
<1>4. NewestIsTrue'
  <2> SUFFICES ASSUME NEW n \in Slots, loads[n].age = "newest",
                      loads[n].state = "served", Settled(loads[n].list)'
               PROVE  loads[n].table = stored'[loads[n].list]
      BY <1>1 DEF NewestIsTrue, Settled
  <2>1. loads[n].list \in Lists
      BY LoadFields DEF ListInv, TypeOK, LoadStates
  <2> QED BY <2>1 DEF ListInv, NewestIsTrue
<1> QED BY <1>2, <1>3, <1>4 DEF ListsTrue

(* Lists are asked for. *)
LEMMA ListsAsked ==
    ASSUME ListInv, NEW ls \in SUBSET Lists, Asked(ls), UNCHANGED <<stored, page>>,
           \A l \in Lists \ ls : Settled(l)' => Settled(l)
    PROVE  ListsTrue' /\ loads' \in [Slots -> LoadStates]
                      /\ fresh' \subseteq Lists /\ unsure' \subseteq Lists
<1>1. /\ loads' \in [Slots -> LoadStates]
      /\ \A n \in Slots :
             loads'[n].list \in ls /\ loads'[n].age = "newest" => loads'[n].state = "sent"
      /\ \A m, n \in Slots :
             loads'[m].age = "newest" /\ loads'[n].age = "newest"
                 /\ loads'[m].list = loads'[n].list => m = n
      /\ \A n \in Slots : loads'[n].list \in Lists \ ls => loads'[n] = loads[n]
      /\ fresh' = fresh \ ls /\ unsure' = unsure \ ls
    BY AskedEffect
<1>2. \A n \in Slots : loads'[n].age = "newest" => loads'[n].list \in Lists
    BY <1>1, LoadFields
<1>3. fresh' \subseteq Lists /\ unsure' \subseteq Lists
    BY <1>1 DEF ListInv, TypeOK
<1>4. OneNewest'
    BY <1>1, <1>2 DEF ListInv, OneNewest
<1>5. NewestListIsFresh'
    BY <1>1, <1>3 DEF ListInv, NewestListIsFresh
<1>6. NewestIsTrue'
  <2> SUFFICES ASSUME NEW n \in Slots, (loads[n].age = "newest")',
                      (loads[n].state = "served")', Settled(loads[n].list)'
               PROVE  (loads[n].table = stored[loads[n].list])'
      BY DEF NewestIsTrue
  <2>1. loads'[n].list \in Lists \ ls /\ loads'[n] = loads[n]
      BY <1>1, <1>2
  <2>2. PICK k \in Lists \ ls : k = loads'[n].list
      BY <2>1
  <2>3. Settled(k)'
      BY <2>2 DEF Settled
  <2>4. Settled(k)
      BY <2>2, <2>3
  <2> QED BY <2>1, <2>2, <2>4 DEF ListInv, NewestIsTrue
<1> QED BY <1>1, <1>3, <1>4, <1>5, <1>6 DEF ListsTrue

LEMMA ServeLoadKeeps ==
    ASSUME ListInv, NEW n \in Slots, ServeLoad(n)
    PROVE  ListInv'
<1> DEFINE l == loads[n].list
<1>1. /\ loads[n].state = "sent"
      /\ loads' = [loads EXCEPT ![n].state = "served", ![n].table = stored[l]]
      /\ UNCHANGED <<stored, page, noServers, fresh, writes, unsure, form>>
    BY DEF ServeLoad
<1>2. l \in Lists /\ loads[n] \in LoadCalls(l)
    BY <1>1, LoadFields DEF ListInv, TypeOK, LoadStates, FreeSlot
<1>3. loads'[n] = [loads[n] EXCEPT !.state = "served", !.table = stored[l]]
    BY <1>1 DEF ListInv, TypeOK
<1>4. /\ loads'[n] \in LoadCalls(l) /\ loads'[n].list = l
      /\ loads'[n].age = loads[n].age /\ loads'[n].table = stored[l]
    BY <1>2, <1>3 DEF LoadCalls, ListInv, TypeOK
<1>5. \A m \in Slots : m # n => loads'[m] = loads[m]
    BY <1>1 DEF ListInv, TypeOK
<1>6. loads' \in [Slots -> LoadStates]
  <2>1. loads'[n] \in LoadStates
      BY <1>2, <1>4 DEF LoadStates, Lists
  <2> QED BY <1>1, <1>5, <2>1 DEF ListInv, TypeOK, LoadStates
<1>7. OneNewest'
  <2>1. \A m \in Slots : loads'[m].age = loads[m].age /\ loads'[m].list = loads[m].list
      BY <1>4, <1>5
  <2>2. fresh' = fresh
      BY <1>1
  <2>3. \A m, k \in Slots :
            loads'[m].age = "newest" /\ loads'[k].age = "newest"
                /\ loads'[m].list = loads'[k].list => m = k
    <3> SUFFICES ASSUME NEW m \in Slots, NEW k \in Slots,
                        loads'[m].age = "newest", loads'[k].age = "newest",
                        loads'[m].list = loads'[k].list
                 PROVE  m = k
        OBVIOUS
    <3> QED BY <2>1 DEF ListInv, OneNewest
  <2>4. \A m \in Slots : loads'[m].age = "newest" => loads'[m].list \notin fresh'
      BY <2>1, <2>2 DEF ListInv, OneNewest
  <2> QED BY <2>3, <2>4 DEF OneNewest
<1>8. NewestListIsFresh'
    BY <1>1 DEF ListInv, NewestListIsFresh, Settled
<1>9. NewestIsTrue'
  <2> SUFFICES ASSUME NEW m \in Slots, (loads[m].age = "newest")',
                      (loads[m].state = "served")', Settled(loads[m].list)'
               PROVE  (loads[m].table = stored[loads[m].list])'
      BY DEF NewestIsTrue
  <2>1. CASE m = n
      BY <2>1, <1>1, <1>4
  <2>2. CASE m # n
    <3>1. loads'[m] = loads[m]
        BY <2>2, <1>5
    <3>2. Settled(loads[m].list)
        BY <3>1, <1>1 DEF Settled
    <3> QED BY <3>1, <3>2, <1>1 DEF ListInv, NewestIsTrue
  <2> QED BY <2>1, <2>2
<1>10. TypeOK'
    BY <1>1, <1>6 DEF ListInv, TypeOK, LoadStates
<1> QED BY <1>7, <1>8, <1>9, <1>10 DEF ListInv

LEMMA SlotFreedKeeps ==
    ASSUME ListInv, NEW n \in Slots, ShowLoad(n) \/ LoadFails(n)
    PROVE  ListInv'
<1> DEFINE l == loads[n].list
<1>1. /\ loads[n] # FreeSlot
      /\ loads' = [loads EXCEPT ![n] = FreeSlot]
      /\ UNCHANGED <<stored, writes, unsure, form>>
      /\ noServers' \in BOOLEAN
  <2>1. noServers \in BOOLEAN
      BY DEF ListInv, TypeOK
  <2>2. noServers' \in BOOLEAN
    <3>1. CASE ShowLoad(n)
      <4>1. noServers' = IF l = "servers" THEN Listed(loads[n].table) = {} ELSE noServers
          BY <3>1 DEF ShowLoad
      <4> QED BY <2>1, <4>1
    <3>2. CASE LoadFails(n)
        BY <2>1, <3>2 DEF LoadFails
    <3> QED BY <3>1, <3>2
  <2> QED BY <2>2 DEF ShowLoad, LoadFails, FreeSlot
<1>2. l \in Lists /\ loads[n] \in LoadCalls(l) /\ loads[n].table \in Tables(l)
    BY <1>1, LoadFields DEF ListInv, TypeOK, LoadStates
<1>3. /\ loads'[n] = FreeSlot
      /\ \A m \in Slots : m # n => loads'[m] = loads[m]
      /\ loads' \in [Slots -> LoadStates]
    BY <1>1 DEF ListInv, TypeOK, LoadStates
<1>4. FreeSlot.age # "newest"
    BY DEF FreeSlot
<1>5. NewestIsTrue'
    BY <1>1, <1>3, <1>4 DEF ListInv, NewestIsTrue, Settled
<1>6. CASE LoadFails(n)
  <2>1. page' = page /\ fresh' = fresh
      BY <1>6 DEF LoadFails
  <2>2. OneNewest' /\ NewestListIsFresh'
      BY <1>1, <1>3, <1>4, <2>1
         DEF ListInv, OneNewest, NewestListIsFresh, Settled
  <2>3. TypeOK'
      BY <1>1, <1>3, <2>1 DEF ListInv, TypeOK, LoadStates
  <2> QED BY <1>5, <2>2, <2>3 DEF ListInv
<1>7. CASE ShowLoad(n)
  <2>1. PICK shown \in BOOLEAN :
            /\ page' = IF shown THEN [page EXCEPT ![l] = loads[n].table] ELSE page
            /\ fresh' = IF shown /\ loads[n].age = "newest" THEN fresh \cup {l} ELSE fresh \ {l}
      BY <1>7 DEF ShowLoad, Rendered
  <2>2. loads[n].state = "served"
      BY <1>7 DEF ShowLoad
  <2>3. /\ shown => page'[l] = loads[n].table
        /\ \A k \in Lists : k # l => page'[k] = page[k]
        /\ \A k \in Lists : page'[k] \in Tables(k)
        /\ page' \in [Lists -> Tables("servers") \cup Tables("snippets")]
        /\ fresh' \subseteq Lists
    <3>1. CASE shown
        BY <1>2, <2>1, <3>1 DEF ListInv, TypeOK, Lists
    <3>2. CASE ~shown
        BY <1>2, <2>1, <3>2 DEF ListInv, TypeOK
    <3> QED BY <3>1, <3>2
  <2>4. TypeOK'
      BY <1>1, <1>3, <2>3 DEF ListInv, TypeOK, LoadStates
  <2>5. l \in fresh' => shown /\ loads[n].age = "newest"
      BY <2>1
  <2>6. fresh' \subseteq fresh \cup {l}
      BY <2>1
  <2>7. OneNewest'
      BY <1>3, <1>4, <2>5, <2>6 DEF ListInv, OneNewest
  <2>8. NewestListIsFresh'
    <3> SUFFICES ASSUME NEW k \in fresh', Settled(k)
                 PROVE  page'[k] = stored[k]
        BY <1>1 DEF NewestListIsFresh, Settled
    <3>1. CASE k = l
        BY <3>1, <2>2, <2>3, <2>5 DEF ListInv, NewestIsTrue
    <3>2. CASE k # l
        BY <3>2, <2>3, <2>6 DEF ListInv, TypeOK, NewestListIsFresh
    <3> QED BY <3>1, <3>2
  <2> QED BY <1>5, <2>4, <2>7, <2>8 DEF ListInv
<1> QED BY <1>6, <1>7

LEMMA LoadServersKeeps ==
    ASSUME ListInv, LoadServers
    PROVE  ListInv'
<1>1. Asked({"servers"}) /\ UNCHANGED <<stored, page, noServers, writes, form>>
    BY DEF LoadServers
<1>2. {"servers"} \in SUBSET Lists
    BY DEF Lists
<1>3. unsure' = unsure \ {"servers"}
    BY <1>1, <1>2, AskedEffect
<1>4. \A l \in Lists \ {"servers"} : Settled(l)' => Settled(l)
    BY <1>1, <1>3 DEF Settled
<1>5. /\ ListsTrue' /\ loads' \in [Slots -> LoadStates]
      /\ fresh' \subseteq Lists /\ unsure' \subseteq Lists
    BY <1>1, <1>2, <1>4, ListsAsked
<1>6. TypeOK'
    BY <1>1, <1>5 DEF ListInv, TypeOK, LoadStates
<1> QED BY <1>5, <1>6 DEF ListInv, ListsTrue

LEMMA FormStepKeeps ==
    ASSUME ListInv, UNCHANGED <<listVars, writes>>,
           form' \in [open : {"none", "server", "snippet"}, id : Ids \cup {None},
                      auth : AuthTypes, field : AuthTypes]
    PROVE  ListInv'
<1>1. TypeOK'
    BY DEF listVars, ListInv, TypeOK
<1>2. ListsTrue'
  <2>1. \A l \in Lists : Settled(l)' => Settled(l) /\ stored'[l] = stored[l]
      BY DEF listVars, Settled
  <2> QED BY <2>1, ListsStay DEF listVars
<1> QED BY <1>1, <1>2 DEF ListInv, ListsTrue

WriteRecords ==
    [op : {"none", "save", "delete", "import"}, lists : SUBSET Lists,
     id : Ids \cup {None}, auth : AuthTypes,
     state : {"unused", "sent", "lost", "done", "error", "over"}]

LEMMA WriteRecordsFit ==
    /\ NoWrite \in WriteRecords /\ Over \in WriteRecords
    /\ NoWrite.state = "unused" /\ Over.state = "over"
  BY DEF NoWrite, Over, WriteRecords, AuthTypes

LEMMA SendKeeps ==
    ASSUME ListInv, NEW n \in Writes, NEW op \in {"save", "delete", "import"},
           NEW ls \in SUBSET Lists, NEW i \in Ids \cup {None}, NEW a \in AuthTypes,
           Send(n, op, ls, i, a)
    PROVE  ListInv'
<1> DEFINE w == [op |-> op, lists |-> ls, id |-> i, auth |-> a, state |-> "sent"]
<1>1. /\ writes[n] = NoWrite
      /\ writes' = [writes EXCEPT ![n] = w]
      /\ UNCHANGED <<stored, page, noServers, fresh, loads, unsure, form>>
    BY DEF Send, listVars
<1>2. w \in WriteRecords /\ w.state = "sent"
    BY DEF WriteRecords
<1> HIDE DEF w
<1>3. TypeOK'
    BY <1>1, <1>2 DEF ListInv, TypeOK, WriteRecords
<1>4. writes'[n].state = "sent" /\ \A m \in Writes : m # n => writes'[m] = writes[m]
    BY <1>1, <1>2 DEF ListInv, TypeOK
<1>5. \A l \in Lists : Settled(l)' => Settled(l) /\ stored'[l] = stored[l]
    BY <1>1, <1>4, WriteRecordsFit DEF Settled
<1> QED BY <1>1, <1>3, <1>5, ListsStay DEF ListInv, ListsTrue

(* What the server does to a table stays within its type, and its list is
   not settled before the page has the answer. *)
LEMMA ServerKeeps ==
    ASSUME ListInv, NEW n \in Writes, ServeWrite(n) \/ RefuseWrite(n)
    PROVE  ListInv'
<1> DEFINE done == [writes[n] EXCEPT !.state = "done"]
           ls == writes[n].lists
<1>1. writes[n] \in WriteRecords /\ writes[n].state \in {"sent", "lost"}
    BY DEF ListInv, TypeOK, WriteRecords, ServeWrite, RefuseWrite
<1>2. \A x \in {"done", "error"} :
          LET w == [writes[n] EXCEPT !.state = x] IN
          w \in WriteRecords /\ w.state = x /\ w.lists = ls
    BY <1>1 DEF WriteRecords
<1>3. PICK x \in WriteRecords :
          /\ writes' = [writes EXCEPT ![n] = x]
          /\ x.state = "done" => x.lists = ls
          /\ unsure' = unsure \/ unsure' = unsure \cup ls
          /\ UNCHANGED <<page, noServers, fresh, loads, form>>
          /\ \/ stored' = stored
             \/ /\ ServeWrite(n)
                /\ unsure' = unsure \cup ls \/ (x.state = "done" /\ x.lists = ls)
  <2>1. CASE ServeWrite(n) /\ writes[n].state = "sent"
    <3>1. PICK x : x = done
        OBVIOUS
    <3>2. /\ writes' = [writes EXCEPT ![n] = x]
          /\ unsure' = unsure
          /\ UNCHANGED <<page, noServers, fresh, loads, form>>
        BY <2>1, <3>1 DEF ServeWrite
    <3> QED BY <1>2, <2>1, <3>1, <3>2
  <2>2. CASE ServeWrite(n) /\ writes[n].state = "lost"
    <3>1. PICK x : x = Over
        OBVIOUS
    <3>2. /\ writes' = [writes EXCEPT ![n] = x]
          /\ unsure' = unsure \cup ls
          /\ UNCHANGED <<page, noServers, fresh, loads, form>>
        BY <2>2, <3>1 DEF ServeWrite
    <3>3. x \in WriteRecords /\ x.state # "done"
        BY <3>1, WriteRecordsFit
    <3> QED BY <2>2, <3>2, <3>3
  <2>3. CASE RefuseWrite(n)
    <3>1. PICK x : x = [writes[n] EXCEPT !.state = "error"]
        OBVIOUS
    <3>2. /\ writes' = [writes EXCEPT ![n] = x] \/ writes' = [writes EXCEPT ![n] = Over]
          /\ UNCHANGED <<stored, unsure, page, noServers, fresh, loads, form>>
        BY <2>3, <3>1 DEF RefuseWrite, listVars
    <3> QED BY <1>2, <3>1, <3>2, WriteRecordsFit
  <2> QED BY <1>1, <2>1, <2>2, <2>3
<1>4. /\ writes'[n] = x
      /\ \A m \in Writes : m # n => writes'[m] = writes[m]
      /\ writes' \in [Writes -> WriteRecords]
    BY <1>1, <1>3 DEF ListInv, TypeOK, WriteRecords
<1>5. /\ stored' \in [Lists -> Tables("servers") \cup Tables("snippets")]
      /\ \A l \in Lists :
             /\ stored'[l] \in Tables(l)
             /\ l \notin writes[n].lists => stored'[l] = stored[l]
  <2>1. CASE stored' = stored
      BY <2>1 DEF ListInv, TypeOK
  <2>2. CASE ServeWrite(n)
    <3>1. PICK i \in Ids : stored' = Written(writes[n], i)
        BY <2>2 DEF ServeWrite
    <3>2. writes[n].auth \in AuthTypes
        BY <1>1 DEF WriteRecords
    <3>3. \A l \in Lists :
              stored'[l] = IF l \notin writes[n].lists THEN stored[l]
                           ELSE [stored[l] EXCEPT ![i] =
                                    CASE writes[n].op = "delete" -> None
                                      [] writes[n].op # "delete" /\ l = "servers" ->
                                             writes[n].auth
                                      [] writes[n].op # "delete" /\ l = "snippets" ->
                                             "command"]
        BY <3>1 DEF Written
    <3>4. \A l \in Lists : stored[l] \in Tables(l) /\ (l = "servers" \/ l = "snippets")
        BY DEF ListInv, TypeOK, Lists
    <3>5. \A l \in Lists : stored'[l] \in Tables(l)
      <4> SUFFICES ASSUME NEW l \in Lists PROVE stored'[l] \in Tables(l)
          OBVIOUS
      <4>1. CASE l \notin writes[n].lists
          BY <4>1, <3>3, <3>4
      <4>2. CASE l \in writes[n].lists
        <5>1. PICK r \in Records(l) \cup {None} : stored'[l] = [stored[l] EXCEPT ![i] = r]
          <6>1. CASE writes[n].op = "delete"
              BY <6>1, <4>2, <3>3
          <6>2. CASE writes[n].op # "delete" /\ l = "servers"
              BY <6>2, <4>2, <3>3, <3>2 DEF Records
          <6>3. CASE writes[n].op # "delete" /\ l = "snippets"
              BY <6>3, <4>2, <3>3 DEF Records
          <6> QED BY <6>1, <6>2, <6>3, <3>4
        <5> QED BY <5>1, <3>4 DEF Tables
      <4> QED BY <4>1, <4>2
    <3>6. stored' \in [Lists -> Tables("servers") \cup Tables("snippets")]
      <4>1. \A l \in Lists : stored'[l] \in Tables("servers") \cup Tables("snippets")
          BY <3>4, <3>5
      <4> QED BY <3>1, <4>1 DEF Written
    <3> QED BY <3>3, <3>5, <3>6
  <2> QED BY <1>3, <2>1, <2>2
<1>6. unsure' \subseteq Lists
    BY <1>1, <1>3 DEF ListInv, TypeOK, WriteRecords
<1>7. TypeOK'
    BY <1>3, <1>4, <1>5, <1>6 DEF ListInv, TypeOK, WriteRecords
<1>8. \A l \in Lists : Settled(l)' => Settled(l)
    BY <1>1, <1>3, <1>4 DEF Settled
<1>9. \A l \in Lists : Settled(l)' => stored'[l] = stored[l]
    BY <1>3, <1>4, <1>5 DEF Settled
<1> QED BY <1>3, <1>7, <1>8, <1>9, ListsStay DEF ListInv, ListsTrue

(* The page gets an answer, or gives up waiting for it. *)
LEMMA AnswerKeeps ==
    ASSUME ListInv, NEW n \in Writes, AnswerWrite(n) \/ LoseWrite(n)
    PROVE  ListInv'
<1> DEFINE ls == writes[n].lists
<1>1. writes[n] \in WriteRecords /\ ls \in SUBSET Lists
    BY DEF ListInv, TypeOK, WriteRecords
<1>2. PICK x \in WriteRecords :
          /\ writes' = [writes EXCEPT ![n] = x]
          /\ x.state # "done"
          /\ UNCHANGED <<stored, page, noServers>>
          /\ form' = form \/ form' = [form EXCEPT !.open = "none"]
          /\ \/ Asked(ls)
             \/ /\ UNCHANGED <<fresh, loads>>
                /\ \/ unsure' = unsure \cup ls
                   \/ unsure' = unsure /\ writes[n].state # "done"
  <2>1. CASE AnswerWrite(n)
      BY <2>1, WriteRecordsFit DEF AnswerWrite, Reloads
  <2>2. CASE LoseWrite(n)
    <3>1. PICK x : x = [writes[n] EXCEPT !.state = "lost"]
        OBVIOUS
    <3>2. x \in WriteRecords /\ x.state = "lost"
        BY <1>1, <3>1 DEF WriteRecords
    <3>3. /\ writes' = [writes EXCEPT ![n] = x] \/ writes' = [writes EXCEPT ![n] = Over]
          /\ UNCHANGED <<stored, page, noServers, form, fresh, loads>>
          /\ unsure' = IF writes[n].state = "done" THEN unsure \cup ls ELSE unsure
        BY <2>2, <3>1 DEF LoseWrite
    <3> QED BY <3>2, <3>3, WriteRecordsFit
  <2> QED BY <2>1, <2>2
<1>3. /\ \A m \in Writes : m # n => writes'[m] = writes[m]
      /\ writes'[n] = x
      /\ writes' \in [Writes -> WriteRecords]
    BY <1>2 DEF ListInv, TypeOK, WriteRecords
<1>4. form' \in [open : {"none", "server", "snippet"}, id : Ids \cup {None},
                 auth : AuthTypes, field : AuthTypes]
    BY <1>2 DEF ListInv, TypeOK
<1> HIDE DEF ls
<1>5. CASE Asked(ls)
  <2>1. unsure' = unsure \ ls
      BY <1>1, <1>5, AskedEffect
  <2>2. \A l \in Lists \ ls : Settled(l)' => Settled(l)
      BY <1>3, <2>1 DEF Settled, ls
  <2>3. /\ ListsTrue' /\ loads' \in [Slots -> LoadStates]
        /\ fresh' \subseteq Lists /\ unsure' \subseteq Lists
      BY <1>1, <1>2, <1>5, <2>2, ListsAsked
  <2>4. TypeOK'
      BY <1>2, <1>3, <1>4, <2>3 DEF ListInv, TypeOK, LoadStates, WriteRecords
  <2> QED BY <2>3, <2>4 DEF ListInv, ListsTrue
<1>6. CASE /\ UNCHANGED <<fresh, loads>>
           /\ \/ unsure' = unsure \cup ls
              \/ unsure' = unsure /\ writes[n].state # "done"
  <2>1. TypeOK'
      BY <1>1, <1>2, <1>3, <1>4, <1>6 DEF ListInv, TypeOK, WriteRecords
  <2>2. \A l \in Lists : Settled(l)' => Settled(l) /\ stored'[l] = stored[l]
      BY <1>2, <1>3, <1>6 DEF Settled, ls
  <2>3. ListsTrue'
      BY <1>2, <1>6, <2>2, ListsStay
  <2> QED BY <2>1, <2>3 DEF ListInv, ListsTrue
<1> QED BY <1>2, <1>5, <1>6 DEF ls
-----------------------------------------------------------------------------
(* The theorems. *)

LEMMA ListInit == Init => ListInv
<1> SUFFICES ASSUME Init PROVE ListInv
    OBVIOUS
<1>1. /\ \A l \in Lists : stored[l] \in Tables(l)
      /\ stored \in [Lists -> Tables("servers") \cup Tables("snippets")]
  <2>1. PICK t \in Tables("servers"), u \in Tables("snippets") :
            stored = [servers |-> t, snippets |-> u]
      BY DEF Init
  <2> QED BY <2>1 DEF Lists
<1>2. /\ \A l \in Lists : page[l] = NoEntries /\ NoEntries \in Tables(l)
      /\ page = [l \in Lists |-> NoEntries]
    BY DEF Init, NoEntries, Tables
<1>3. page \in [Lists -> Tables("servers") \cup Tables("snippets")]
    BY <1>2 DEF Lists
<1>4. \A l \in Lists : Sent(l) \in LoadStates /\ Sent(l).state = "sent" /\ Sent(l).list = l
    BY SentIsCall
<1>5. FreeSlot \in LoadStates /\ FreeSlot.age = "older"
    BY DEF FreeSlot, LoadStates
<1>6. \A n \in Slots :
          loads[n] = IF n = 1 THEN Sent("servers")
                     ELSE IF n = 2 THEN Sent("snippets") ELSE FreeSlot
    BY DEF Init
<1>7. "servers" \in Lists /\ "snippets" \in Lists
    BY DEF Lists
<1>8. loads \in [Slots -> LoadStates]
  <2>1. \A n \in Slots : loads[n] \in LoadStates
      BY <1>4, <1>5, <1>6, <1>7
  <2> QED BY <2>1 DEF Init
<1>9. TypeOK
  <2>1. writes \in [Writes -> WriteRecords]
      BY WriteRecordsFit DEF Init
  <2>2. form \in [open : {"none", "server", "snippet"}, id : Ids \cup {None},
                   auth : AuthTypes, field : AuthTypes]
      BY DEF Init, AuthTypes
  <2>3. fresh \subseteq Lists /\ unsure \subseteq Lists /\ noServers \in BOOLEAN
      BY DEF Init
  <2> QED BY <1>1, <1>2, <1>3, <1>8, <2>1, <2>2, <2>3 DEF TypeOK, WriteRecords, LoadStates
<1>10. OneNewest
  <2>1. \A m, n \in Slots : loads[m].age = "newest" /\ loads[n].age = "newest"
                                 /\ loads[m].list = loads[n].list => m = n
      BY <1>4, <1>5, <1>6, <1>7
  <2> QED BY <2>1 DEF OneNewest, Init
<1>11. NewestIsTrue
    BY <1>4, <1>5, <1>6, <1>7 DEF NewestIsTrue
<1>12. NewestListIsFresh
    BY DEF Init, NewestListIsFresh
<1> QED BY <1>9, <1>10, <1>11, <1>12 DEF ListInv

LEMMA FormSteps ==
    ASSUME ListInv,
           \/ OpenServerModal
           \/ OpenSnippetModal
           \/ CloseModal
           \/ \E i \in Ids : EditServer(i)
           \/ \E a \in AuthTypes : ToggleAuthFields(a)
    PROVE  ListInv'
<1> DEFINE Forms == [open : {"none", "server", "snippet"}, id : Ids \cup {None},
                     auth : AuthTypes, field : AuthTypes]
<1>1. form \in Forms
    BY DEF ListInv, TypeOK
<1>2. CASE OpenServerModal
    BY <1>1, <1>2, FormStepKeeps DEF OpenServerModal
<1>3. CASE OpenSnippetModal
    BY <1>1, <1>3, FormStepKeeps DEF OpenSnippetModal
<1>4. CASE CloseModal
    BY <1>1, <1>4, FormStepKeeps DEF CloseModal
<1>5. ASSUME NEW i \in Ids, EditServer(i) PROVE ListInv'
  <2>1. page["servers"][i] \in AuthTypes
      BY <1>5 DEF EditServer, Listed, ListInv, TypeOK, Lists, Tables, Records
  <2> QED BY <1>5, <2>1, FormStepKeeps DEF EditServer
<1>6. ASSUME NEW a \in AuthTypes, ToggleAuthFields(a) PROVE ListInv'
    BY <1>1, <1>6, FormStepKeeps DEF ToggleAuthFields
<1> QED BY <1>2, <1>3, <1>4, <1>5, <1>6

LEMMA SendSteps ==
    ASSUME ListInv, NEW n \in Writes,
           \/ SaveServerForm(n)
           \/ SaveSnippetForm(n)
           \/ \E i \in Ids :
                  \/ DeleteServer(n, i)
                  \/ DeleteSnippet(n, i)
                  \/ \E a \in AuthTypes : ImportBackup(n, i, a)
    PROVE  ListInv'
<1>1. /\ form.id \in Ids \cup {None} /\ form.auth \in AuthTypes
      /\ "password" \in AuthTypes
      /\ {"servers"} \in SUBSET Lists /\ {"snippets"} \in SUBSET Lists /\ Lists \in SUBSET Lists
    BY DEF ListInv, TypeOK, AuthTypes, Lists
<1>2. CASE SaveServerForm(n)
    BY <1>1, <1>2, SendKeeps DEF SaveServerForm
<1>3. CASE SaveSnippetForm(n)
    BY <1>1, <1>3, SendKeeps DEF SaveSnippetForm
<1>4. ASSUME NEW i \in Ids, DeleteServer(n, i) PROVE ListInv'
    BY <1>1, <1>4, SendKeeps DEF DeleteServer
<1>5. ASSUME NEW i \in Ids, DeleteSnippet(n, i) PROVE ListInv'
    BY <1>1, <1>5, SendKeeps DEF DeleteSnippet
<1>6. ASSUME NEW i \in Ids, NEW a \in AuthTypes, ImportBackup(n, i, a) PROVE ListInv'
    BY <1>1, <1>6, SendKeeps DEF ImportBackup
<1> QED BY <1>2, <1>3, <1>4, <1>5, <1>6

LEMMA ListStep == ListInv /\ [Next]_vars => ListInv'
<1> SUFFICES ASSUME ListInv, [Next]_vars PROVE ListInv'
    OBVIOUS
<1>1. CASE LoadServers
    BY <1>1, LoadServersKeeps
<1>2. ASSUME NEW n \in Slots,
             ServeLoad(n) \/ ShowServers(n) \/ ShowSnippets(n) \/ LoadFails(n)
      PROVE  ListInv'
    BY <1>2, ServeLoadKeeps, SlotFreedKeeps DEF ShowServers, ShowSnippets
<1>3. ASSUME NEW n \in Writes,
             ServeWrite(n) \/ RefuseWrite(n) \/ AnswerWrite(n) \/ LoseWrite(n)
      PROVE  ListInv'
    BY <1>3, ServerKeeps, AnswerKeeps
<1>4. CASE UNCHANGED vars
  <2>1. UNCHANGED <<listVars, writes>> /\ form' = form
      BY <1>4 DEF vars
  <2> QED BY <2>1, FormStepKeeps DEF ListInv, TypeOK
<1> QED BY <1>1, <1>2, <1>3, <1>4, FormSteps, SendSteps DEF Next

(* Every variable keeps its type, whatever calls are under way. *)
THEOREM TypeCorrect == Spec => []TypeOK
<1>1. ListInv => TypeOK
    BY DEF ListInv
<1> QED BY <1>1, ListInit, ListStep, PTL DEF Spec

(* loadServers, loadSnippets: once the newest call for a list is shown and no
   change is under way or has failed, the page shows what is stored. *)
THEOREM NewestFresh == Spec => []NewestListIsFresh
<1>1. ListInv => NewestListIsFresh
    BY DEF ListInv
<1> QED BY <1>1, ListInit, ListStep, PTL DEF Spec

(* editServer, openServerModal, toggleAuthFields: the form displays the
   credential for the way to authenticate that it will save. *)
THEOREM FormCredential == Spec => []FormShowsItsCredential
<1> DEFINE Inv == TypeOK /\ form.field = form.auth
<1>1. Init => Inv
  <2>1. Init => form.field = form.auth
      BY DEF Init
  <2> QED BY <2>1, ListInit DEF ListInv
<1>2. Inv /\ TypeOK' /\ [Next]_vars => Inv'
  <2> SUFFICES ASSUME Inv, [Next]_vars PROVE (form.field = form.auth)'
      OBVIOUS
  <2>1. ASSUME NEW x, form' = [form EXCEPT !.open = x] \/ form' = [form EXCEPT !.open = x, !.id = None]
        PROVE  form'.field = form'.auth
      BY <2>1 DEF TypeOK
  <2>2. CASE OpenServerModal \/ OpenSnippetModal \/ CloseModal
      BY <2>1, <2>2 DEF OpenServerModal, OpenSnippetModal, CloseModal
  <2>3. ASSUME NEW i \in Ids, EditServer(i) PROVE form'.field = form'.auth
      BY <2>3 DEF EditServer
  <2>4. ASSUME NEW a \in AuthTypes, ToggleAuthFields(a) PROVE form'.field = form'.auth
      BY <2>4 DEF ToggleAuthFields, TypeOK
  <2>5. ASSUME NEW n \in Writes, AnswerWrite(n) PROVE form'.field = form'.auth
      BY <2>1, <2>5 DEF AnswerWrite
  <2>6. CASE UNCHANGED form
      BY <2>6
  <2>7. ASSUME NEW n \in Writes,
               SaveServerForm(n) \/ SaveSnippetForm(n) \/
                   \E i \in Ids : DeleteServer(n, i) \/ DeleteSnippet(n, i) \/
                                  \E a \in AuthTypes : ImportBackup(n, i, a)
        PROVE  UNCHANGED form
      BY <2>7 DEF SaveServerForm, SaveSnippetForm, DeleteServer, DeleteSnippet,
                  ImportBackup, Send
  <2>8. CASE LoadServers
      BY <2>8 DEF LoadServers
  <2>9. ASSUME NEW n \in Slots,
               ServeLoad(n) \/ ShowServers(n) \/ ShowSnippets(n) \/ LoadFails(n)
        PROVE  UNCHANGED form
      BY <2>9 DEF ServeLoad, ShowServers, ShowSnippets, ShowLoad, LoadFails
  <2>10. ASSUME NEW n \in Writes, ServeWrite(n) \/ RefuseWrite(n) \/ LoseWrite(n)
         PROVE  UNCHANGED form
      BY <2>10 DEF ServeWrite, RefuseWrite, LoseWrite
  <2> QED BY <2>2, <2>3, <2>4, <2>5, <2>6, <2>7, <2>8, <2>9, <2>10 DEF Next, vars
<1>3. Inv => FormShowsItsCredential
    BY DEF FormShowsItsCredential
<1> QED BY <1>1, <1>2, <1>3, TypeCorrect, PTL DEF Spec
=============================================================================
