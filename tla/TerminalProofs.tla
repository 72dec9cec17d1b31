--------------------------- MODULE TerminalProofs ---------------------------
(***************************************************************************)
(* Proofs about Terminal, for every amount of output and input, every size *)
(* of a chunk and of the buffer, and every window.  They follow the places *)
(* of the handler and of the goroutines; what the messages hold does not   *)
(* matter.                                                                 *)
(***************************************************************************)
EXTENDS Terminal, FiniteSetTheorems, SequenceTheorems, TLAPS

(* Where the handler is tells what is open and which goroutines run. *)
TeardownInv ==
    /\ handler \in Handler
    /\ out \in Pump /\ in \in Pump
    /\ handler = "setup" => ~client /\ out = "none" /\ in = "none" /\ shell = "none"
    /\ handler \in {"flush", "last"} => out = "done" /\ in = "done"
    /\ handler \in {"done", "panic"} =>
           /\ ~client /\ ws # "open"
           /\ out \in {"none", "done"} /\ in \in {"none", "done"}
    /\ in \in {"read", "write"} => shell # "none"

(* While the page is there, the stdout goroutine has shown what it has read,
   except for what it is writing, and it ends only when all is read. *)
OutputInv ==
    /\ ws = "open" /\ out # "write" => shown = read
    /\ ws = "open" /\ out = "done" => read = printed /\ shell = "exited"

Places == <<handler, client, ws, shell, out, in>>

(* The actions that leave every place alone. *)
LEMMA PlacesStay ==
    ASSUME \/ ReadStderr \/ StderrEnds \/ WriteStderr \/ ReadResize
           \/ Opened \/ (\E n \in 1 .. Burst : Type(n)) \/ StderrOutput
           \/ (\E size \in Sizes : ResizeWindow(size) \/ Refit(size))
    PROVE  UNCHANGED Places /\ UNCHANGED <<printed, read, shown>>
BY DEF ReadStderr, StderrEnds, WriteStderr, ReadResize, Opened, Type, StderrOutput,
       ResizeWindow, Refit, Places, outVars, errVars, inVars

LEMMA InputPlaces ==
    ASSUME ReadInput \/ InputEnds \/ WriteChunk
    PROVE  /\ UNCHANGED <<handler, client, ws, shell, out, printed, read, shown>>
           /\ in \in {"read", "write"}
           /\ in' \in Pump
BY DEF ReadInput, InputEnds, WriteChunk, outVars, Pump

LEMMA InvInit == Init => TeardownInv /\ OutputInv
BY DEF Init, TeardownInv, OutputInv, Handler, Pump

LEMMA InvNext ==
    ASSUME TeardownInv, OutputInv, [Next]_vars
    PROVE  TeardownInv' /\ OutputInv'
<1> USE DEF TeardownInv, OutputInv, Handler, Pump
<1>1. CASE SetupFails \/ SetupSucceeds
    BY <1>1 DEF SetupFails, SetupSucceeds, outVars, inVars
<1>2. CASE WaitReturns \/ FlushEnds
    BY <1>2 DEF WaitReturns, FlushEnds, outVars, inVars
<1>3. CASE HandlerReturns
    BY <1>3 DEF HandlerReturns, outVars, inVars
<1>4. ASSUME NEW n \in 1 .. BufSize, ReadStdout(n) PROVE TeardownInv' /\ OutputInv'
    BY <1>4 DEF ReadStdout, inVars
<1>5. CASE StdoutEnds
    BY <1>5 DEF StdoutEnds, inVars
<1>6. CASE WriteStdout
    BY <1>6 DEF WriteStdout, inVars
<1>7. CASE WritersCollide
    BY <1>7 DEF WritersCollide
<1>8. CASE ReadInput \/ InputEnds \/ WriteChunk
    BY <1>8, InputPlaces
<1>9. CASE CloseTab
    BY <1>9 DEF CloseTab, outVars, inVars
<1>10. CASE StdoutOutput
    BY <1>10 DEF StdoutOutput, inVars
<1>11. CASE ShellExits
    BY <1>11 DEF ShellExits, outVars, inVars
<1>12. CASE UNCHANGED Places /\ UNCHANGED <<printed, read, shown>>
    BY <1>12 DEF Places
<1>13. CASE UNCHANGED vars
    BY <1>13 DEF vars, outVars, inVars
<1> QED
    BY <1>1, <1>2, <1>3, <1>4, <1>5, <1>6, <1>7, <1>8, <1>9, <1>10, <1>11, <1>12, <1>13,
       PlacesStay DEF Next, Server, Page, Remote

-----------------------------------------------------------------------------
(* When the handler has returned, it holds no SSH connection and no WebSocket,
   and the two goroutines it waits for are over. *)
THEOREM ReturnReleases == Spec => []ReturnReleasesAll
<1>1. TeardownInv => ReturnReleasesAll
    BY DEF TeardownInv, ReturnReleasesAll
<1> QED BY <1>1, InvInit, InvNext, PTL DEF Spec

(* Two goroutines write to the WebSocket at once only if one of them copies
   stderr: the handler starts its last message when the stdout goroutine is
   over. *)
THEOREM StderrCollides == Spec => []OnlyStderrCollides
<1>1. ASSUME TeardownInv PROVE OnlyStderrCollides
  <2>1. CASE err = "write"
      BY <2>1 DEF OnlyStderrCollides
  <2>2. CASE err # "write" /\ handler = "last"
    <3>1. out = "done"
        BY <1>1, <2>2 DEF TeardownInv
    <3>2. \A w : w \in Writers <=> w = "handler"
        BY <2>2, <3>1 DEF Writers
    <3>3. Writers = {"handler"}
        BY <3>2
    <3>4. Cardinality(Writers) = 1
        BY <3>3, FS_Singleton
    <3> QED BY <3>4 DEF OnlyStderrCollides
  <2>3. CASE err # "write" /\ handler # "last" /\ out = "write"
    <3>1. Writers = {"out"}
        BY <2>3 DEF Writers
    <3>4. Cardinality(Writers) = 1
        BY <3>1, FS_Singleton
    <3> QED BY <3>4 DEF OnlyStderrCollides
  <2>4. CASE err # "write" /\ handler # "last" /\ out # "write"
    <3>1. Writers = {}
        BY <2>4 DEF Writers
    <3> QED BY <3>1, FS_EmptySet DEF OnlyStderrCollides
  <2> QED BY <2>1, <2>2, <2>3, <2>4
<1> QED BY <1>1, InvInit, InvNext, PTL DEF Spec

(* When the stdout goroutine ends under an open page, the page has shown all
   that the shell printed: whatever the sizes of the reads were. *)
THEOREM OutputShown == Spec => []AllOutputShown
<1>1. OutputInv => AllOutputShown
    BY DEF OutputInv, AllOutputShown
<1> QED BY <1>1, InvInit, InvNext, PTL DEF Spec

-----------------------------------------------------------------------------
(* The types, in three groups: what the shell prints, what the user types and
   the sizes.  Each is disturbed by the actions of its own goroutine. *)

OutTypes ==
    /\ printed \in Nat /\ read \in Nat /\ shown \in Nat
    /\ shown <= read /\ read <= printed
    /\ errs \in Nat /\ errRead \in Nat /\ errRead <= errs

InTypes ==
    /\ typed \in 0 .. MaxIn
    /\ inbox \in Seq(Input \cup Resize)
    /\ pending \in Keys
    /\ stdin \in Keys
    /\ view \in Sizes /\ window \in Sizes /\ pty \in Sizes

PlaceTypes ==
    /\ handler \in Handler
    /\ client \in BOOLEAN
    /\ ws \in {"open", "closed", "failed"}
    /\ shell \in {"none", "up", "exited"}
    /\ out \in Pump /\ err \in Pump /\ in \in Pump
    /\ fitted \in BOOLEAN
    /\ noticed \in BOOLEAN

TypeInv == OutTypes /\ InTypes /\ PlaceTypes

LEMMA TypeInit == Init => TypeInv
<1> SUFFICES ASSUME Init PROVE TypeInv
    OBVIOUS
<1>1. OutTypes
    BY DEF Init, OutTypes
<1>4. PlaceTypes
    BY DEF Init, PlaceTypes, Handler, Pump
<1>2. \A S : <<>> \in Seq(S)
    OBVIOUS
<1>3. InTypes
    BY <1>2, ConstantsAssumption DEF Init, InTypes, Keys, ConstantsAssumption
<1> QED BY <1>1, <1>3, <1>4 DEF TypeInv

LEMMA OutTypesKept == OutTypes /\ [Next]_vars => OutTypes'
<1> SUFFICES ASSUME OutTypes, [Next]_vars PROVE OutTypes'
    OBVIOUS
<1> USE DEF OutTypes
<1>1. CASE UNCHANGED <<printed, read, shown, errs, errRead>>
    BY <1>1
<1>2. ASSUME NEW n \in 1 .. BufSize, ReadStdout(n) PROVE OutTypes'
    BY <1>2, ConstantsAssumption DEF ReadStdout, errVars, ConstantsAssumption
<1>3. CASE WriteStdout
    BY <1>3 DEF WriteStdout, errVars
<1>4. CASE ReadStderr
    BY <1>4 DEF ReadStderr, outVars
<1>5. CASE StdoutOutput
    BY <1>5 DEF StdoutOutput, errVars, Width
<1>6. CASE StderrOutput
    BY <1>6 DEF StderrOutput, outVars
<1>7. SetupFails \/ SetupSucceeds \/ WaitReturns \/ FlushEnds \/ HandlerReturns
      \/ StdoutEnds \/ StderrEnds \/ WriteStderr \/ WritersCollide
      => UNCHANGED <<printed, read, shown, errs, errRead>>
    BY DEF SetupFails, SetupSucceeds, WaitReturns, FlushEnds, HandlerReturns, StdoutEnds,
           StderrEnds, WriteStderr, WritersCollide, outVars, errVars
<1>8. ReadInput \/ ReadResize \/ InputEnds \/ WriteChunk
      => UNCHANGED <<printed, read, shown, errs, errRead>>
    BY DEF ReadInput, ReadResize, InputEnds, WriteChunk, outVars, errVars
<1>9. Page \/ ShellExits => UNCHANGED <<printed, read, shown, errs, errRead>>
    BY DEF Page, Type, Opened, CloseTab, ResizeWindow, Refit, ShellExits, outVars, errVars
<1>10. CASE UNCHANGED vars
    BY <1>10 DEF vars, outVars, errVars
<1> QED
    BY <1>1, <1>2, <1>3, <1>4, <1>5, <1>6, <1>7, <1>8, <1>9, <1>10 DEF Next, Server, Remote

(* What is taken from the inbox is a message, and what stays are messages. *)
LEMMA InboxTaken ==
    ASSUME InTypes, inbox # <<>>
    PROVE  /\ Head(inbox) \in Input \cup Resize
           /\ Tail(inbox) \in Seq(Input \cup Resize)
           /\ Head(inbox).kind = "input" => Head(inbox).data \in Keys
           /\ Head(inbox).kind = "resize" => Head(inbox).size \in Sizes
<1>1. Head(inbox) \in Input \cup Resize /\ Tail(inbox) \in Seq(Input \cup Resize)
    BY DEF InTypes
<1>2. \A m \in Input \cup Resize :
          /\ m.kind = "input" => m.data \in Keys
          /\ m.kind = "resize" => m.size \in Sizes
    BY DEF Input, Resize
<1> QED BY <1>1, <1>2

LEMMA SentTyped ==
    ASSUME InTypes, NEW n \in 1 .. Burst, typed + n <= MaxIn
    PROVE  [kind |-> "input", data |-> [i \in 1 .. n |-> typed + i]] \in Input
<1>1. n \in Nat
    OBVIOUS
<1>2. \A i \in 1 .. n : typed + i \in 1 .. MaxIn
    BY ConstantsAssumption DEF InTypes, ConstantsAssumption
<1>3. [i \in 1 .. n |-> typed + i] \in Seq(1 .. MaxIn)
    BY <1>1, <1>2
<1> QED BY <1>3 DEF Input, Keys

(* A message is taken apart into chunks, whatever the size of one. *)
LEMMA ChunkTypes ==
    ASSUME InTypes, WriteChunk
    PROVE  pending' \in Keys /\ stdin' \in Keys
<1> DEFINE n == IF Len(pending) > Chunk THEN Chunk ELSE Len(pending)
           front == SubSeq(pending, 1, n)
           rest == SubSeq(pending, n + 1, Len(pending))
<1>1. Len(pending) \in Nat /\ n \in Nat /\ n <= Len(pending)
    BY ConstantsAssumption DEF InTypes, Keys, ConstantsAssumption
<1>2. \A i \in 1 .. Len(pending) : pending[i] \in 1 .. MaxIn
  <2>1. pending \in Seq(1 .. MaxIn)
      BY DEF InTypes, Keys
  <2> HIDE DEF n
  <2> QED BY <2>1, ElementOfSeq
<1>3. front \in Seq(1 .. MaxIn)
  <2>1. \A i \in 1 .. n : pending[i] \in 1 .. MaxIn
      BY <1>1, <1>2
  <2> HIDE DEF n
  <2> QED BY <1>1, <2>1, SubSeqProperties
<1>4. rest \in Seq(1 .. MaxIn)
  <2>1. /\ \A i \in n + 1 .. Len(pending) : pending[i] \in 1 .. MaxIn
        /\ n + 1 \in Int /\ Len(pending) \in Int
      BY <1>1, <1>2
  <2> HIDE DEF n
  <2> QED BY <2>1, SubSeqProperties
<1>5. stdin \o front \in Seq(1 .. MaxIn)
    BY <1>3 DEF InTypes, Keys
<1>6. /\ stdin' \in {stdin, stdin \o front}
      /\ pending' \in {rest, <<>>}
    BY DEF WriteChunk
<1>7. <<>> \in Seq(1 .. MaxIn)
    OBVIOUS
<1> HIDE DEF front, rest
<1> QED BY <1>4, <1>5, <1>6, <1>7 DEF InTypes, Keys

Typing == <<typed, inbox, pending, stdin, view, window, pty>>

LEMMA TypingStays ==
    ASSUME \/ SetupFails \/ SetupSucceeds \/ WaitReturns \/ FlushEnds \/ HandlerReturns
           \/ (\E n \in 1 .. BufSize : ReadStdout(n))
           \/ StdoutEnds \/ WriteStdout
           \/ ReadStderr \/ StderrEnds \/ WriteStderr \/ WritersCollide
           \/ InputEnds \/ CloseTab \/ Remote \/ UNCHANGED vars
    PROVE  UNCHANGED Typing
BY DEF SetupFails, SetupSucceeds, WaitReturns, FlushEnds, HandlerReturns, ReadStdout,
       StdoutEnds, WriteStdout, ReadStderr, StderrEnds, WriteStderr, WritersCollide,
       InputEnds, CloseTab, Remote, StdoutOutput, StderrOutput, ShellExits, vars,
       inVars, sizeVars, Typing

LEMMA InTypesKept == InTypes /\ [Next]_vars => InTypes'
<1> SUFFICES ASSUME InTypes, [Next]_vars PROVE InTypes'
    OBVIOUS
<1>1. CASE UNCHANGED Typing
    BY <1>1 DEF InTypes, Typing
<1>2. CASE ReadInput
    BY <1>2, InboxTaken DEF ReadInput, InTypes, sizeVars
<1>3. CASE ReadResize
    BY <1>3, InboxTaken DEF ReadResize, InTypes
<1>4. CASE WriteChunk
    BY <1>4, ChunkTypes DEF WriteChunk, InTypes, sizeVars
<1>5. ASSUME NEW n \in 1 .. Burst, Type(n) PROVE InTypes'
  <2>1. typed' \in 0 .. MaxIn
      BY <1>5, ConstantsAssumption DEF Type, InTypes, ConstantsAssumption
  <2>2. PICK m \in Input : inbox' = Append(inbox, m)
      BY <1>5, SentTyped DEF Type
  <2>3. inbox' \in Seq(Input \cup Resize)
      BY <2>2 DEF InTypes
  <2> QED BY <1>5, <2>1, <2>3 DEF Type, InTypes, sizeVars
<1>6. ASSUME NEW size \in Sizes, Send(size)
      PROVE  window' \in Sizes /\ inbox' \in Seq(Input \cup Resize)
  <2>1. [kind |-> "resize", size |-> size] \in Resize
      BY DEF Resize
  <2> QED BY <1>6, <2>1 DEF Send, InTypes
<1>7. CASE Opened
    BY <1>6, <1>7 DEF Opened, InTypes
<1>8. ASSUME NEW size \in Sizes, ResizeWindow(size) PROVE InTypes'
    BY <1>6, <1>8 DEF ResizeWindow, InTypes
<1>9. ASSUME NEW size \in Sizes, Refit(size) PROVE InTypes'
    BY <1>9 DEF Refit, InTypes
<1> QED
    BY <1>1, <1>2, <1>3, <1>4, <1>5, <1>7, <1>8, <1>9, TypingStays DEF Next, Server, Page

LEMMA PlaceTypesKept == PlaceTypes /\ [Next]_vars => PlaceTypes'
<1> SUFFICES ASSUME PlaceTypes, [Next]_vars PROVE PlaceTypes'
    OBVIOUS
<1> USE DEF PlaceTypes, Handler, Pump
<1>1. CASE SetupFails \/ SetupSucceeds \/ WaitReturns \/ FlushEnds
    BY <1>1 DEF SetupFails, SetupSucceeds, WaitReturns, FlushEnds, outVars, errVars,
                inVars, sizeVars
<1>2. CASE HandlerReturns \/ WritersCollide
    BY <1>2 DEF HandlerReturns, WritersCollide, outVars, errVars, inVars, sizeVars
<1>3. ASSUME NEW n \in 1 .. BufSize, ReadStdout(n) PROVE PlaceTypes'
    BY <1>3 DEF ReadStdout, errVars, inVars, sizeVars
<1>4. CASE StdoutEnds \/ WriteStdout
    BY <1>4 DEF StdoutEnds, WriteStdout, errVars, inVars, sizeVars
<1>5. CASE ReadStderr \/ StderrEnds \/ WriteStderr
    BY <1>5 DEF ReadStderr, StderrEnds, WriteStderr, outVars, inVars, sizeVars
<1>6. CASE ReadInput \/ ReadResize \/ InputEnds \/ WriteChunk
    BY <1>6 DEF ReadInput, ReadResize, InputEnds, WriteChunk, outVars, errVars, sizeVars
<1>7. CASE Page
    BY <1>7 DEF Page, Type, Opened, CloseTab, ResizeWindow, Refit, outVars, errVars,
                inVars, sizeVars
<1>8. CASE Remote
    BY <1>8 DEF Remote, StdoutOutput, StderrOutput, ShellExits, outVars, errVars, inVars,
                sizeVars
<1>9. CASE UNCHANGED vars
    BY <1>9 DEF vars, outVars, errVars, inVars, sizeVars
<1> QED
    BY <1>1, <1>2, <1>3, <1>4, <1>5, <1>6, <1>7, <1>8, <1>9 DEF Next, Server

LEMMA TypesKept == TypeInv /\ [Next]_vars => TypeInv'
BY OutTypesKept, InTypesKept, PlaceTypesKept DEF TypeInv

(* The counters, the messages and the sizes stay what they are: in particular
   the page never shows more than was read, nor the server reads more than was
   printed. *)
THEOREM TypeCorrect == Spec => []TypeOK
<1>1. TypeInv => TypeOK
    BY DEF TypeInv, OutTypes, InTypes, PlaceTypes, TypeOK
<1> QED BY <1>1, TypeInit, TypesKept, PTL DEF Spec

-----------------------------------------------------------------------------
(* Before the shell has ended, the size that the page sent last is the one of
   the last resize that waits in the WebSocket, or, when none waits, the one
   that the pseudo terminal has. *)
SizeInv ==
    shell # "exited" =>
        \/ pty = window /\ \A i \in 1 .. Len(inbox) : inbox[i].kind # "resize"
        \/ \E i \in 1 .. Len(inbox) :
               /\ inbox[i].kind = "resize" /\ inbox[i].size = window
               /\ \A j \in (i + 1) .. Len(inbox) : inbox[j].kind # "resize"

(* A message that is no resize is taken from the front or put at the end. *)
LEMMA KeysKeepSize ==
    ASSUME InTypes, SizeInv, UNCHANGED <<pty, window>>, shell' # "exited" => shell # "exited",
           \/ inbox' = inbox
           \/ inbox # <<>> /\ Head(inbox).kind = "input" /\ inbox' = Tail(inbox)
           \/ \E d : inbox' = Append(inbox, [kind |-> "input", data |-> d])
    PROVE  SizeInv'
<1>1. CASE inbox' = inbox
    BY <1>1 DEF SizeInv
<1>2. CASE inbox # <<>> /\ Head(inbox).kind = "input" /\ inbox' = Tail(inbox)
  <2>1. /\ Len(inbox) \in Nat /\ Len(inbox') = Len(inbox) - 1
        /\ \A i \in 1 .. Len(inbox') : inbox'[i] = inbox[i + 1]
        /\ inbox[1].kind = "input"
      BY <1>2 DEF InTypes
  <2> SUFFICES ASSUME shell # "exited" PROVE SizeInv'
      BY DEF SizeInv
  <2>2. CASE pty = window /\ \A i \in 1 .. Len(inbox) : inbox[i].kind # "resize"
      BY <2>1, <2>2 DEF SizeInv
  <2>3. ASSUME NEW i \in 1 .. Len(inbox),
               inbox[i].kind = "resize", inbox[i].size = window,
               \A j \in (i + 1) .. Len(inbox) : inbox[j].kind # "resize"
        PROVE  SizeInv'
    <3>1. i - 1 \in 1 .. Len(inbox') /\ inbox'[i - 1] = inbox[i]
        BY <2>1, <2>3
    <3>2. \A j \in (i - 1 + 1) .. Len(inbox') : inbox'[j].kind # "resize"
        BY <2>1, <2>3
    <3> QED BY <2>3, <3>1, <3>2 DEF SizeInv
  <2> QED BY <2>2, <2>3 DEF SizeInv
<1>3. ASSUME NEW d, inbox' = Append(inbox, [kind |-> "input", data |-> d])
      PROVE  SizeInv'
  <2>1. /\ Len(inbox) \in Nat /\ Len(inbox') = Len(inbox) + 1
        /\ \A i \in 1 .. Len(inbox) : inbox'[i] = inbox[i]
        /\ inbox'[Len(inbox) + 1].kind = "input"
      BY <1>3 DEF InTypes
  <2> QED BY <2>1 DEF SizeInv
<1> QED BY <1>1, <1>2, <1>3

LEMMA SendKeepsSize ==
    ASSUME InTypes, NEW size, Send(size)
    PROVE  SizeInv'
<1>1. /\ Len(inbox) \in Nat /\ Len(inbox') = Len(inbox) + 1
      /\ inbox'[Len(inbox) + 1].kind = "resize"
      /\ inbox'[Len(inbox) + 1].size = size
      /\ window' = size
    BY DEF Send, InTypes
<1> QED BY <1>1 DEF SizeInv

(* The resize that is taken is the last one, and the pseudo terminal has its
   size then, or another one follows.  Without a shell the message would be
   lost: the goroutine does not run before there is one. *)
LEMMA ResizeKeepsSize ==
    ASSUME InTypes, PlaceTypes, TeardownInv, SizeInv, ReadResize
    PROVE  SizeInv'
<1>1. /\ Len(inbox) \in Nat /\ Len(inbox') = Len(inbox) - 1
      /\ \A i \in 1 .. Len(inbox') : inbox'[i] = inbox[i + 1]
      /\ inbox[1] = Head(inbox) /\ inbox[1].kind = "resize"
      /\ pty' = IF shell = "up" THEN Head(inbox).size ELSE pty
      /\ UNCHANGED <<window, shell>>
    BY DEF ReadResize, InTypes
<1> SUFFICES ASSUME shell # "exited" PROVE SizeInv'
    BY <1>1 DEF SizeInv
<1>2. PICK i \in 1 .. Len(inbox) :
          /\ inbox[i].kind = "resize" /\ inbox[i].size = window
          /\ \A j \in (i + 1) .. Len(inbox) : inbox[j].kind # "resize"
    BY <1>1 DEF SizeInv
<1>3. CASE i = 1
  <2>1. shell = "up"
      BY DEF ReadResize, PlaceTypes, TeardownInv
  <2>2. pty' = window'
      BY <1>1, <1>2, <1>3, <2>1
  <2>3. \A j \in 1 .. Len(inbox') : inbox'[j].kind # "resize"
      BY <1>1, <1>2, <1>3
  <2> QED BY <2>2, <2>3 DEF SizeInv
<1>4. CASE i # 1
  <2>1. i - 1 \in 1 .. Len(inbox') /\ inbox'[i - 1] = inbox[i]
      BY <1>1, <1>4
  <2>2. \A j \in (i - 1 + 1) .. Len(inbox') : inbox'[j].kind # "resize"
      BY <1>1, <1>2
  <2> QED BY <1>1, <1>2, <2>1, <2>2 DEF SizeInv
<1> QED BY <1>3, <1>4

LEMMA SizeInit == Init => SizeInv
BY DEF Init, SizeInv

LEMMA SizeNext ==
    ASSUME TypeInv, TeardownInv, SizeInv, [Next]_vars
    PROVE  SizeInv'
<1> USE DEF TypeInv
<1>1. CASE \/ SetupFails \/ SetupSucceeds \/ WaitReturns \/ FlushEnds \/ HandlerReturns
           \/ (\E n \in 1 .. BufSize : ReadStdout(n))
           \/ StdoutEnds \/ WriteStdout
           \/ ReadStderr \/ StderrEnds \/ WriteStderr \/ WritersCollide
           \/ InputEnds \/ CloseTab \/ Remote \/ UNCHANGED vars
  <2>1. UNCHANGED Typing
      BY <1>1, TypingStays
  <2>2. shell' # "exited" => shell # "exited"
      BY <1>1 DEF SetupFails, SetupSucceeds, WaitReturns, FlushEnds, HandlerReturns,
          ReadStdout, StdoutEnds, WriteStdout, ReadStderr, StderrEnds, WriteStderr,
          WritersCollide, InputEnds, CloseTab, Remote, StdoutOutput, StderrOutput,
          ShellExits, vars, TeardownInv
  <2> QED BY <2>1, <2>2, KeysKeepSize DEF Typing
<1>2. CASE ReadInput
    BY <1>2, KeysKeepSize DEF ReadInput, sizeVars
<1>3. CASE ReadResize
    BY <1>3, ResizeKeepsSize
<1>4. CASE WriteChunk
    BY <1>4, KeysKeepSize DEF WriteChunk, sizeVars
<1>5. ASSUME NEW n \in 1 .. Burst, Type(n) PROVE SizeInv'
    BY <1>5, KeysKeepSize DEF Type, sizeVars
<1>6. CASE Opened \/ \E size \in Sizes : ResizeWindow(size)
    BY <1>6, SendKeepsSize DEF Opened, ResizeWindow
<1>7. ASSUME NEW size \in Sizes, Refit(size) PROVE SizeInv'
    BY <1>7, KeysKeepSize DEF Refit
<1> QED
    BY <1>1, <1>2, <1>3, <1>4, <1>5, <1>6, <1>7 DEF Next, Server, Page

(* When the messages of the page are read and the shell runs, the pseudo
   terminal has the size that the page sent last, whatever was typed between
   two changes of the window. *)
THEOREM PtyFollows == Spec => []PtyFollowsWindow
<1>1. TypeInv /\ SizeInv => PtyFollowsWindow
    BY DEF TypeInv, InTypes, SizeInv, PtyFollowsWindow
<1> QED BY <1>1, TypeInit, TypesKept, InvInit, InvNext, SizeInit, SizeNext, PTL DEF Spec

-----------------------------------------------------------------------------
(* How the keys that wait are cut.  The first cut is where the shell is, the
   last one where the user is. *)
IsCut(cut) ==
    /\ cut \in [1 .. Len(inbox) + 1 -> 0 .. typed]
    /\ stdin \o pending = Bytes(0, cut[1])
    /\ \A i \in 1 .. Len(inbox) :
           cut[i] <= cut[i + 1] /\ Data(inbox[i]) = Bytes(cut[i], cut[i + 1])
    /\ cut[Len(inbox) + 1] = typed

Running == shell # "exited" /\ in # "done"

(* While nothing is written in chunks, nothing is left of a message. *)
KeysInv == Running => (in # "write" => pending = <<>>) /\ \E cut : IsCut(cut)

(* A shell that has ended, and the input goroutine, do not start again. *)
LEMMA RunningEnds ==
    ASSUME PlaceTypes, TeardownInv, [Next]_vars, Running'
    PROVE  Running
<1> USE DEF Running
<1>1. CASE SetupFails \/ SetupSucceeds
    BY <1>1 DEF SetupFails, SetupSucceeds, TeardownInv, inVars
<1>2. CASE WaitReturns \/ FlushEnds \/ HandlerReturns \/ WritersCollide
    BY <1>2 DEF WaitReturns, FlushEnds, HandlerReturns, WritersCollide, inVars
<1>3. CASE (\E n \in 1 .. BufSize : ReadStdout(n)) \/ StdoutEnds \/ WriteStdout
           \/ ReadStderr \/ StderrEnds \/ WriteStderr
    BY <1>3 DEF ReadStdout, StdoutEnds, WriteStdout, ReadStderr, StderrEnds, WriteStderr,
                inVars
<1>4. CASE ReadInput \/ ReadResize \/ InputEnds \/ WriteChunk
    BY <1>4 DEF ReadInput, ReadResize, InputEnds, WriteChunk
<1>5. CASE Page
    BY <1>5 DEF Page, Type, Opened, CloseTab, ResizeWindow, Refit, inVars
<1>6. CASE Remote
    BY <1>6 DEF Remote, StdoutOutput, StderrOutput, ShellExits, inVars
<1>7. CASE UNCHANGED vars
    BY <1>7 DEF vars, inVars
<1> QED BY <1>1, <1>2, <1>3, <1>4, <1>5, <1>6, <1>7 DEF Next, Server

LEMMA KeysInit == Init => KeysInv
<1> SUFFICES ASSUME Init PROVE KeysInv
    OBVIOUS
<1> DEFINE cut == [i \in 1 .. 1 |-> 0]
<1>1. /\ inbox = <<>> /\ Len(inbox) = 0 /\ typed = 0 /\ pending = <<>> /\ stdin = <<>>
      /\ in = "none"
    BY DEF Init
<1>2. <<>> \o <<>> = Bytes(0, 0)
  <2>1. Bytes(0, 0) = <<>>
      BY DEF Bytes
  <2> QED BY <2>1
<1>3. cut \in [1 .. Len(inbox) + 1 -> 0 .. typed] /\ cut[1] = 0
    BY <1>1
<1> HIDE DEF cut
<1>4. IsCut(cut)
    BY <1>1, <1>2, <1>3 DEF IsCut
<1> QED BY <1>1, <1>4 DEF KeysInv

(* Bytes that follow one another. *)
LEMMA BytesConcat ==
    ASSUME NEW a \in Nat, NEW b \in Nat, NEW d \in Nat, a <= b, b <= d
    PROVE  Bytes(a, b) \o Bytes(b, d) = Bytes(a, d)
<1>1. \A x, y \in Nat : x <= y =>
          /\ Bytes(x, y) \in Seq(Nat) /\ Len(Bytes(x, y)) = y - x
          /\ \A i \in 1 .. y - x : Bytes(x, y)[i] = x + i
    BY DEF Bytes
<1>0. PICK s, t, u : s = Bytes(a, b) /\ t = Bytes(b, d) /\ u = Bytes(a, d)
    OBVIOUS
<1>9. a <= d
    OBVIOUS
<1>2. /\ s \in Seq(Nat) /\ Len(s) = b - a /\ \A i \in 1 .. b - a : s[i] = a + i
      /\ t \in Seq(Nat) /\ Len(t) = d - b /\ \A i \in 1 .. d - b : t[i] = b + i
      /\ u \in Seq(Nat) /\ Len(u) = d - a /\ \A i \in 1 .. d - a : u[i] = a + i
    BY <1>0, <1>1, <1>9
<1>3. /\ s \o t \in Seq(Nat) /\ Len(s \o t) = Len(s) + Len(t)
      /\ \A i \in 1 .. Len(s) + Len(t) :
             (s \o t)[i] = IF i <= Len(s) THEN s[i] ELSE t[i - Len(s)]
    BY <1>2, ConcatProperties
<1>4. Len(s \o t) = d - a
    BY <1>2, <1>3
<1>5. ASSUME NEW i \in 1 .. d - a PROVE (s \o t)[i] = u[i]
  <2>1. CASE i <= b - a
    <3>1. i \in 1 .. b - a /\ i \in 1 .. Len(s) + Len(t)
        BY <1>2, <2>1
    <3> QED BY <1>2, <1>3, <2>1, <3>1
  <2>2. CASE ~(i <= b - a)
    <3>1. i - (b - a) \in 1 .. d - b /\ i \in 1 .. Len(s) + Len(t)
          /\ b + (i - (b - a)) = a + i
        BY <1>2, <2>2
    <3> QED BY <1>2, <1>3, <2>2, <3>1
  <2> QED BY <2>1, <2>2
<1>6. s \o t = u
    BY <1>2, <1>3, <1>4, <1>5, SeqEqual
<1> QED BY <1>0, <1>6

(* What is no message with keys leaves the cut as it is. *)
LEMMA CutStays ==
    ASSUME KeysInv, Running' => Running, UNCHANGED <<typed, inbox, pending, stdin>>,
           Running' /\ in' # "write" => in # "write"
    PROVE  KeysInv'
<1>1. \A cut : IsCut(cut) => IsCut(cut)'
    BY DEF IsCut
<1> QED BY <1>1 DEF KeysInv

(* A message at the end of the inbox has one more cut. *)
LEMMA SentCut ==
    ASSUME InTypes, KeysInv, Running' => Running, UNCHANGED <<pending, stdin, in>>,
           NEW m, inbox' = Append(inbox, m), typed' \in Nat, typed <= typed',
           Data(m) = Bytes(typed, typed')
    PROVE  KeysInv'
<1> SUFFICES ASSUME Running, NEW cut, IsCut(cut) PROVE \E c : IsCut(c)'
    BY DEF KeysInv
<1> DEFINE n == Len(inbox)
<1>1. /\ n \in Nat /\ Len(inbox') = n + 1 /\ inbox'[n + 1] = m
      /\ \A i \in 1 .. n : inbox'[i] = inbox[i]
      /\ typed \in Nat
    BY ConstantsAssumption DEF InTypes, ConstantsAssumption
<1> HIDE DEF n
<1>2. /\ \A i \in 1 .. n + 1 : cut[i] \in 0 .. typed
      /\ cut[n + 1] = typed /\ stdin \o pending = Bytes(0, cut[1])
      /\ \A i \in 1 .. n : cut[i] <= cut[i + 1] /\ Data(inbox[i]) = Bytes(cut[i], cut[i + 1])
    BY DEF IsCut, n
<1>0. PICK c : c = [i \in 1 .. n + 2 |-> IF i = n + 2 THEN typed' ELSE cut[i]]
    OBVIOUS
<1>3. /\ c \in [1 .. n + 2 -> 0 .. typed']
      /\ \A i \in 1 .. n + 1 : c[i] = cut[i]
      /\ c[n + 2] = typed'
  <2>1. \A i \in 1 .. n + 2 : (IF i = n + 2 THEN typed' ELSE cut[i]) \in 0 .. typed'
    <3>1. \A i \in 1 .. n + 2 : i # n + 2 => i \in 1 .. n + 1
        BY <1>1
    <3>2. \A k \in 0 .. typed : k \in 0 .. typed'
        BY <1>1
    <3> QED BY <1>1, <1>2, <3>1, <3>2
  <2>2. \A i \in 1 .. n + 1 : i \in 1 .. n + 2 /\ i # n + 2
      BY <1>1
  <2>3. n + 2 \in 1 .. n + 2
      BY <1>1
  <2> QED BY <1>0, <2>1, <2>2, <2>3
<1>4. c[1] = cut[1]
    BY <1>1, <1>3
<1>5. ASSUME NEW i \in 1 .. n + 1
      PROVE  c[i] <= c[i + 1] /\ Data(inbox'[i]) = Bytes(c[i], c[i + 1])
  <2>1. CASE i \in 1 .. n
    <3>1. i + 1 \in 1 .. n + 1
        BY <1>1, <2>1
    <3> QED BY <1>1, <1>2, <1>3, <2>1, <3>1
  <2>2. CASE i = n + 1
    <3>1. c[i] = typed /\ c[i + 1] = typed'
        BY <1>1, <1>2, <1>3, <2>2
    <3> QED BY <1>1, <2>2, <3>1
  <2> QED BY <1>1, <2>1, <2>2
<1>6. IsCut(c)'
  <2>1. Len(inbox') + 1 = n + 2
      BY <1>1
  <2> QED BY <1>1, <1>2, <1>3, <1>4, <1>5, <2>1 DEF IsCut
<1> QED BY <1>6

(* A message that is taken from the front is written from now on. *)
LEMMA TakenCut ==
    ASSUME InTypes, KeysInv, Running' => Running, UNCHANGED <<typed, stdin>>,
           in # "write", inbox # <<>>, inbox' = Tail(inbox),
           pending' = Data(Head(inbox)), in' # "write" => pending' = <<>>
    PROVE  KeysInv'
<1> SUFFICES ASSUME Running, pending = <<>>, NEW cut, IsCut(cut) PROVE \E c : IsCut(c)'
    BY DEF KeysInv
<1> DEFINE n == Len(inbox)
<1>1. /\ n \in Nat /\ n >= 1 /\ Len(inbox') = n - 1 /\ inbox[1] = Head(inbox)
      /\ \A i \in 1 .. n - 1 : inbox'[i] = inbox[i + 1]
    BY DEF InTypes
<1> HIDE DEF n
<1>2. /\ \A i \in 1 .. n + 1 : cut[i] \in 0 .. typed
      /\ cut[n + 1] = typed /\ stdin \o pending = Bytes(0, cut[1])
      /\ \A i \in 1 .. n : cut[i] <= cut[i + 1] /\ Data(inbox[i]) = Bytes(cut[i], cut[i + 1])
    BY DEF IsCut, n
<1>0. PICK c : c = [i \in 1 .. n |-> cut[i + 1]]
    OBVIOUS
<1>3. /\ c \in [1 .. n -> 0 .. typed]
      /\ \A i \in 1 .. n : c[i] = cut[i + 1]
  <2>1. \A i \in 1 .. n : i + 1 \in 1 .. n + 1
      BY <1>1
  <2> QED BY <1>0, <1>2, <2>1
<1>4. stdin' \o pending' = Bytes(0, c[1])
  <2>1. stdin = Bytes(0, cut[1])
      BY <1>2, ConcatEmptySeq DEF InTypes, Keys
  <2>2. pending' = Bytes(cut[1], cut[2]) /\ cut[1] <= cut[2] /\ c[1] = cut[2]
      BY <1>1, <1>2, <1>3
  <2>3. cut[1] \in Nat /\ cut[2] \in Nat
      BY <1>1, <1>2
  <2>4. 0 \in Nat /\ 0 <= cut[1]
      BY <2>3
  <2>5. Bytes(0, cut[1]) \o Bytes(cut[1], cut[2]) = Bytes(0, cut[2])
      BY <2>2, <2>3, <2>4, BytesConcat
  <2> QED BY <2>1, <2>2, <2>5
<1>5. \A i \in 1 .. n - 1 :
          c[i] <= c[i + 1] /\ Data(inbox'[i]) = Bytes(c[i], c[i + 1])
  <2>1. \A i \in 1 .. n - 1 : i \in 1 .. n /\ i + 1 \in 1 .. n
      BY <1>1
  <2> QED BY <1>1, <1>2, <1>3, <2>1
<1>6. c[n] = typed
    BY <1>1, <1>2, <1>3
<1>7. IsCut(c)'
  <2>1. Len(inbox') + 1 = n
      BY <1>1
  <2> QED BY <1>1, <1>3, <1>4, <1>5, <1>6, <2>1 DEF IsCut
<1> QED BY <1>7

(* A sequence is its front and its rest. *)
LEMMA FrontAndRest ==
    ASSUME NEW S, NEW p \in Seq(S), NEW n \in Nat, n <= Len(p)
    PROVE  SubSeq(p, 1, n) \o SubSeq(p, n + 1, Len(p)) = p
<1>0. PICK f, r : f = SubSeq(p, 1, n) /\ r = SubSeq(p, n + 1, Len(p))
    OBVIOUS
<1>1. \A i \in 1 .. Len(p) : p[i] \in S
    BY ElementOfSeq
<1>2. f \in Seq(S) /\ Len(f) = n /\ \A i \in 1 .. n : f[i] = p[i]
  <2>1. \A i \in 1 .. n : p[i] \in S
      BY <1>1
  <2>2. (IF 1 <= n THEN n - 1 + 1 ELSE 0) = n
      OBVIOUS
  <2>3. /\ SubSeq(p, 1, n) \in Seq(S)
        /\ Len(SubSeq(p, 1, n)) = IF 1 <= n THEN n - 1 + 1 ELSE 0
        /\ \A i \in 1 .. (n - 1 + 1) : SubSeq(p, 1, n)[i] = p[1 + i - 1]
      BY <2>1, SubSeqProperties
  <2>4. n - 1 + 1 = n /\ \A i \in 1 .. n : 1 + i - 1 = i
      OBVIOUS
  <2> QED BY <1>0, <2>2, <2>3, <2>4
<1>3. /\ r \in Seq(S) /\ Len(r) = Len(p) - n
      /\ \A i \in 1 .. Len(p) - n : r[i] = p[n + i]
  <2>1. /\ \A i \in n + 1 .. Len(p) : p[i] \in S
        /\ n + 1 \in Int /\ Len(p) \in Int
      BY <1>1
  <2>2. (IF n + 1 <= Len(p) THEN Len(p) - (n + 1) + 1 ELSE 0) = Len(p) - n
      OBVIOUS
  <2>3. /\ SubSeq(p, n + 1, Len(p)) \in Seq(S)
        /\ Len(SubSeq(p, n + 1, Len(p)))
           = IF n + 1 <= Len(p) THEN Len(p) - (n + 1) + 1 ELSE 0
        /\ \A i \in 1 .. (Len(p) - (n + 1) + 1) :
               SubSeq(p, n + 1, Len(p))[i] = p[(n + 1) + i - 1]
      BY <2>1, SubSeqProperties
  <2>4. /\ Len(p) - (n + 1) + 1 = Len(p) - n
        /\ \A i \in 1 .. Len(p) - n : (n + 1) + i - 1 = n + i
      OBVIOUS
  <2> QED BY <1>0, <2>2, <2>3, <2>4
<1>4. /\ f \o r \in Seq(S) /\ Len(f \o r) = Len(p)
      /\ \A i \in 1 .. Len(p) : (f \o r)[i] = IF i <= n THEN f[i] ELSE r[i - n]
  <2>1. n + (Len(p) - n) = Len(p)
      OBVIOUS
  <2>2. f \in Seq(S) /\ r \in Seq(S)
      BY <1>2, <1>3
  <2>3. /\ f \o r \in Seq(S) /\ Len(f \o r) = Len(f) + Len(r)
        /\ \A i \in 1 .. Len(f) + Len(r) :
               (f \o r)[i] = IF i <= Len(f) THEN f[i] ELSE r[i - Len(f)]
      BY <2>2, ConcatProperties
  <2> QED BY <1>2, <1>3, <2>1, <2>3
<1>5. ASSUME NEW i \in 1 .. Len(p) PROVE (f \o r)[i] = p[i]
  <2>1. CASE i <= n
      BY <1>2, <1>4, <2>1
  <2>2. CASE ~(i <= n)
    <3>1. i - n \in 1 .. Len(p) - n /\ n + (i - n) = i
        BY <2>2
    <3> QED BY <1>3, <1>4, <2>2, <3>1
  <2> QED BY <2>1, <2>2
<1> QED BY <1>0, <1>4, <1>5, SeqEqual

(* A chunk goes from what is pending to what the shell has received. *)
LEMMA WrittenCut ==
    ASSUME TypeInv, TeardownInv, KeysInv, WriteChunk
    PROVE  KeysInv'
<1> SUFFICES ASSUME Running' PROVE KeysInv'
    BY DEF KeysInv
<1> DEFINE n == IF Len(pending) > Chunk THEN Chunk ELSE Len(pending)
           front == SubSeq(pending, 1, n)
           rest == SubSeq(pending, n + 1, Len(pending))
<1>1. shell = "up" /\ shell' = shell /\ Running
    BY DEF WriteChunk, Running, TypeInv, PlaceTypes, TeardownInv
<1>2. stdin' = stdin \o front /\ pending' = rest /\ (in' # "write" => pending' = <<>>)
    BY <1>1 DEF WriteChunk
<1>3. /\ pending \in Seq(1 .. MaxIn) /\ stdin \in Seq(1 .. MaxIn)
      /\ n \in Nat /\ n <= Len(pending)
    BY ConstantsAssumption DEF TypeInv, InTypes, Keys, ConstantsAssumption
<1>4. front \o rest = pending
  <2> HIDE DEF n
  <2> QED BY <1>3, FrontAndRest
<1>5. front \in Seq(1 .. MaxIn) /\ rest \in Seq(1 .. MaxIn)
  <2>1. /\ \A i \in 1 .. n : pending[i] \in 1 .. MaxIn
        /\ \A i \in n + 1 .. Len(pending) : pending[i] \in 1 .. MaxIn
    <3> HIDE DEF n
    <3>1. \A i \in 1 .. Len(pending) : pending[i] \in 1 .. MaxIn
        BY <1>3, ElementOfSeq
    <3>2. /\ \A i \in 1 .. n : i \in 1 .. Len(pending)
          /\ \A i \in n + 1 .. Len(pending) : i \in 1 .. Len(pending)
        BY <1>3
    <3> QED BY <3>1, <3>2
  <2>2. n + 1 \in Int /\ Len(pending) \in Int /\ n \in Int /\ 1 \in Int
      BY <1>3
  <2> HIDE DEF n
  <2> QED BY <2>1, <2>2, SubSeqProperties
<1> HIDE DEF front, rest
<1>6. stdin' \o pending' = stdin \o pending
  <2>1. (stdin \o front) \o rest = stdin \o (front \o rest)
      BY <1>3, <1>5, ConcatAssociative
  <2> QED BY <1>2, <1>4, <2>1
<1>7. ASSUME NEW cut, IsCut(cut) PROVE IsCut(cut)'
  <2>1. UNCHANGED <<typed, inbox>>
      BY DEF WriteChunk
  <2> QED BY <1>6, <1>7, <2>1 DEF IsCut
<1> QED BY <1>1, <1>2, <1>7 DEF KeysInv

LEMMA KeysNext ==
    ASSUME TypeInv, TeardownInv, KeysInv, [Next]_vars
    PROVE  KeysInv'
<1>1. Running' => Running
    BY RunningEnds DEF TypeInv
<1>2. CASE \/ SetupFails \/ SetupSucceeds \/ WaitReturns \/ FlushEnds \/ HandlerReturns
           \/ (\E n \in 1 .. BufSize : ReadStdout(n))
           \/ StdoutEnds \/ WriteStdout
           \/ ReadStderr \/ StderrEnds \/ WriteStderr \/ WritersCollide
           \/ InputEnds \/ CloseTab \/ Remote \/ UNCHANGED vars
  <2>1. UNCHANGED <<typed, inbox, pending, stdin>>
      BY <1>2, TypingStays DEF Typing
  <2>2. Running' /\ in' # "write" => in # "write"
      BY <1>2 DEF SetupFails, SetupSucceeds, WaitReturns, FlushEnds, HandlerReturns,
          ReadStdout, StdoutEnds, WriteStdout, ReadStderr, StderrEnds, WriteStderr,
          WritersCollide, InputEnds, CloseTab, Remote, StdoutOutput, StderrOutput,
          ShellExits, vars, inVars, TeardownInv, Running
  <2> QED BY <1>1, <2>1, <2>2, CutStays
<1>3. CASE ReadInput
  <2>1. /\ UNCHANGED <<typed, stdin>> /\ in # "write" /\ inbox # <<>> /\ inbox' = Tail(inbox)
        /\ pending' = Data(Head(inbox)) /\ in' = "write"
      BY <1>3 DEF ReadInput, Data
  <2> QED BY <1>1, <2>1, TakenCut DEF TypeInv
<1>4. CASE ReadResize
  <2> SUFFICES ASSUME Running' PROVE KeysInv'
      BY DEF KeysInv
  <2>1. /\ UNCHANGED <<typed, stdin, pending>> /\ in # "write" /\ inbox # <<>>
        /\ inbox' = Tail(inbox) /\ Data(Head(inbox)) = <<>>
      BY <1>4 DEF ReadResize, Data
  <2>2. pending = <<>>
      BY <1>1, <2>1 DEF KeysInv
  <2> QED BY <1>1, <2>1, <2>2, TakenCut DEF TypeInv
<1>5. CASE WriteChunk
    BY <1>5, WrittenCut
<1>6. ASSUME NEW n \in 1 .. Burst, Type(n) PROVE KeysInv'
  <2>1. typed \in Nat /\ n \in Nat /\ typed' = typed + n /\ typed' - typed = n
        /\ typed' \in Nat /\ typed <= typed'
      BY <1>6, ConstantsAssumption DEF Type, TypeInv, InTypes, ConstantsAssumption
  <2>2. PICK m : /\ m = [kind |-> "input", data |-> [i \in 1 .. n |-> typed + i]]
                 /\ inbox' = Append(inbox, m)
      BY <1>6 DEF Type
  <2>3. Data(m) = Bytes(typed, typed')
      BY <2>1, <2>2 DEF Data, Bytes
  <2>4. UNCHANGED <<pending, stdin, in>>
      BY <1>6 DEF Type
  <2> QED BY <1>1, <2>1, <2>2, <2>3, <2>4, SentCut DEF TypeInv
<1>7. ASSUME NEW size, Send(size), UNCHANGED <<typed, in, pending, stdin>> PROVE KeysInv'
  <2>1. PICK m : /\ m = [kind |-> "resize", size |-> size] /\ inbox' = Append(inbox, m)
      BY <1>7 DEF Send
  <2>2. typed' \in Nat /\ typed <= typed' /\ typed' - typed = 0
      BY <1>7, ConstantsAssumption DEF TypeInv, InTypes, ConstantsAssumption
  <2>3. Data(m) = <<>>
      BY <2>1 DEF Data
  <2>4. Bytes(typed, typed') = <<>>
    <3>1. 1 .. typed' - typed = {}
        BY <2>2
    <3> QED BY <3>1 DEF Bytes
  <2> QED BY <1>1, <1>7, <2>1, <2>2, <2>3, <2>4, SentCut DEF TypeInv
<1>8. CASE Opened \/ \E size \in Sizes : ResizeWindow(size)
    BY <1>7, <1>8 DEF Opened, ResizeWindow
<1>9. ASSUME NEW size \in Sizes, Refit(size) PROVE KeysInv'
    BY <1>1, <1>9, CutStays DEF Refit
<1> QED
    BY <1>2, <1>3, <1>4, <1>5, <1>6, <1>8, <1>9 DEF Next, Server, Page

(* While the shell runs, what it has received, what is left of the message that
   is being written, and the messages that wait are, in this order, what the
   user typed: whatever the chunks, and whatever resizes are between the
   messages. *)
THEOREM KeysOrdered == Spec => []KeysInOrder
<1>1. KeysInv => KeysInOrder
    BY DEF KeysInv, Running, IsCut, KeysInOrder
<1> QED BY <1>1, TypeInit, TypesKept, InvInit, InvNext, KeysInit, KeysNext, PTL DEF Spec

-----------------------------------------------------------------------------
(* What the shell has received is at any time a beginning of what the user
   typed: while it runs that follows from the cuts, and when it has ended it
   receives nothing any more. *)
PrefixInv == \E k \in 0 .. typed : stdin = Bytes(0, k)

LEMMA PrefixInit == Init => PrefixInv
<1> SUFFICES ASSUME Init PROVE PrefixInv
    OBVIOUS
<1>1. stdin = <<>> /\ typed = 0 /\ Bytes(0, 0) = <<>>
    BY DEF Init, Bytes
<1> QED BY <1>1 DEF PrefixInv

(* The bytes are counted by their length. *)
LEMMA BytesLen ==
    ASSUME NEW k \in Nat
    PROVE  Len(Bytes(0, k)) = k /\ Bytes(0, k) = Abstract!FirstKeys(k)
<1>1. k - 0 = k /\ \A i \in 1 .. k : 0 + i = i
    OBVIOUS
<1>2. Bytes(0, k) = [i \in 1 .. k |-> i]
    BY <1>1 DEF Bytes
<1>3. [i \in 1 .. k |-> i] \in Seq(Nat) /\ Len([i \in 1 .. k |-> i]) = k
    OBVIOUS
<1> QED BY <1>2, <1>3 DEF Abstract!FirstKeys

(* When one sequence is the beginning of bytes, it is their first bytes. *)
LEMMA BytesFront ==
    ASSUME NEW S, NEW s \in Seq(S), NEW t \in Seq(S), NEW k \in Nat, s \o t = Bytes(0, k)
    PROVE  Len(s) \in 0 .. k /\ s = Bytes(0, Len(s))
<1>0. PICK n : n = Len(s)
    OBVIOUS
<1>1. /\ n \in Nat /\ Len(t) \in Nat /\ n + Len(t) = k
      /\ \A i \in 1 .. n : s[i] = (s \o t)[i]
  <2>1. n \in Nat /\ Len(t) \in Nat
      BY <1>0
  <2>2. /\ Len(s \o t) = Len(s) + Len(t)
        /\ \A i \in 1 .. Len(s) + Len(t) :
               (s \o t)[i] = IF i <= Len(s) THEN s[i] ELSE t[i - Len(s)]
      BY ConcatProperties
  <2>3. Len(s \o t) = k
      BY BytesLen
  <2> QED BY <1>0, <2>1, <2>2, <2>3
<1>2. \A i \in 1 .. n : i \in 1 .. k - 0 /\ 0 + i = i
    BY <1>1
<1>3. \A i \in 1 .. n : s[i] = i
    BY <1>1, <1>2 DEF Bytes
<1>4. n - 0 = n /\ n \in 0 .. k
    BY <1>1
<1>5. s = [i \in 1 .. n |-> s[i]]
    BY <1>0
<1>6. [i \in 1 .. n |-> s[i]] = [i \in 1 .. n |-> 0 + i]
    BY <1>2, <1>3
<1> QED BY <1>0, <1>4, <1>5, <1>6 DEF Bytes

(* A chunk makes the beginning longer. *)
LEMMA ChunkDelivers ==
    ASSUME TypeInv, TypeInv', TeardownInv, KeysInv, KeysInv', WriteChunk, shell = "up"
    PROVE  /\ Len(stdin') \in Len(stdin) .. typed
           /\ stdin' = Bytes(0, Len(stdin'))
<1>1. Running /\ Running' /\ typed' = typed
    BY DEF WriteChunk, Running
<1>2. PICK cut : IsCut(cut)'
    BY <1>1 DEF KeysInv
<1>3. 1 \in 1 .. Len(inbox') + 1
    BY DEF TypeInv, InTypes
<1>4. /\ cut[1] \in 0 .. typed /\ typed \in Nat
      /\ stdin' \o pending' = Bytes(0, cut[1])
    BY <1>1, <1>2, <1>3, ConstantsAssumption
    DEF IsCut, TypeInv, InTypes, ConstantsAssumption
<1>5. stdin' \in Seq(1 .. MaxIn) /\ pending' \in Seq(1 .. MaxIn)
    BY DEF TypeInv, InTypes, Keys
<1>6. Len(stdin') \in 0 .. cut[1] /\ stdin' = Bytes(0, Len(stdin'))
  <2>1. cut[1] \in Nat
      BY <1>4
  <2> QED BY <1>4, <1>5, <2>1, BytesFront
<1>7. Len(stdin) \in Nat /\ Len(stdin') >= Len(stdin)
  <2>1. /\ pending \in Seq(1 .. MaxIn) /\ stdin \in Seq(1 .. MaxIn)
      BY DEF TypeInv, InTypes, Keys
  <2>2. PICK n : /\ n = IF Len(pending) > Chunk THEN Chunk ELSE Len(pending)
                 /\ stdin' = stdin \o SubSeq(pending, 1, n)
      BY DEF WriteChunk
  <2>3. n \in Nat /\ n <= Len(pending)
      BY <2>1, <2>2, ConstantsAssumption DEF ConstantsAssumption
  <2>4. \A i \in 1 .. n : pending[i] \in 1 .. MaxIn
    <3>1. \A i \in 1 .. Len(pending) : pending[i] \in 1 .. MaxIn
        BY <2>1, ElementOfSeq
    <3> QED BY <2>1, <2>3, <3>1
  <2>5. SubSeq(pending, 1, n) \in Seq(1 .. MaxIn)
      BY <2>3, <2>4, SubSeqProperties
  <2>6. /\ Len(stdin') = Len(stdin) + Len(SubSeq(pending, 1, n))
      BY <2>1, <2>2, <2>5, ConcatProperties
  <2> QED BY <2>1, <2>5, <2>6
<1> QED BY <1>4, <1>6, <1>7

LEMMA PrefixNext ==
    ASSUME TypeInv, TypeInv', TeardownInv, KeysInv, KeysInv', PrefixInv, [Next]_vars
    PROVE  PrefixInv'
<1>1. typed \in Nat /\ typed' \in Nat
    BY ConstantsAssumption DEF TypeInv, InTypes, ConstantsAssumption
<1>2. CASE stdin' = stdin /\ typed' >= typed
    BY <1>1, <1>2 DEF PrefixInv
<1>3. CASE WriteChunk /\ shell = "up"
  <2>1. Len(stdin) \in Nat
      BY DEF TypeInv, InTypes, Keys
  <2>2. Len(stdin') \in Len(stdin) .. typed /\ stdin' = Bytes(0, Len(stdin'))
      BY <1>3, ChunkDelivers
  <2>3. typed' = typed
      BY <1>3 DEF WriteChunk
  <2>4. Len(stdin') \in 0 .. typed'
      BY <1>1, <2>1, <2>2, <2>3
  <2> QED BY <2>2, <2>4 DEF PrefixInv
<1>4. CASE WriteChunk /\ shell # "up"
    BY <1>1, <1>2, <1>4 DEF WriteChunk
<1>5. UNCHANGED Typing => stdin' = stdin /\ typed' >= typed
    BY <1>1 DEF Typing
<1>6. ReadInput \/ ReadResize => stdin' = stdin /\ typed' >= typed
    BY <1>1 DEF ReadInput, ReadResize
<1>7. Page => stdin' = stdin /\ typed' >= typed
  <2>1. \A n \in 1 .. Burst : Type(n) => stdin' = stdin /\ typed' >= typed
      BY <1>1 DEF Type
  <2>2. Opened \/ CloseTab => stdin' = stdin /\ typed' >= typed
      BY <1>1 DEF Opened, CloseTab, inVars
  <2>3. \A size \in Sizes : ResizeWindow(size) \/ Refit(size)
                            => stdin' = stdin /\ typed' >= typed
      BY <1>1 DEF ResizeWindow, Refit
  <2> QED BY <2>1, <2>2, <2>3 DEF Page
<1> QED BY <1>2, <1>3, <1>4, <1>5, <1>6, <1>7, TypingStays DEF Next, Server

-----------------------------------------------------------------------------
(* Terminal implements Session. *)

SessionInv == TypeInv /\ TeardownInv /\ OutputInv /\ KeysInv /\ PrefixInv

LEMMA SessionInit == Init => Abstract!Init
<1> SUFFICES ASSUME Init PROVE Abstract!Init
    OBVIOUS
<1>1. stdin = Abstract!FirstKeys(0)
  <2>1. Abstract!FirstKeys(0) = <<>>
      BY DEF Abstract!FirstKeys
  <2> QED BY <2>1 DEF Init
<1> QED BY <1>1 DEF Init, Abstract!Init

(* Two goroutines meet only before the session is over: afterwards only the one
   that copies stderr is left. *)
LEMMA CollideBeforeEnd ==
    ASSUME TeardownInv, Cardinality(Writers) > 1
    PROVE  handler \notin {"done", "panic"}
<1> SUFFICES ASSUME handler \in {"done", "panic"} PROVE FALSE
    OBVIOUS
<1>1. out # "write" /\ handler # "last"
    BY DEF TeardownInv
<1>2. Writers = {} \/ Writers = {"err"}
  <2>1. CASE err = "write"
    <3>1. \A w : w \in Writers <=> w = "err"
        BY <1>1, <2>1 DEF Writers
    <3>2. Writers = {"err"}
        BY <3>1
    <3> QED BY <3>2
  <2>2. CASE err # "write"
      BY <1>1, <2>2 DEF Writers
  <2> QED BY <2>1, <2>2
<1>3. Cardinality(Writers) \in {0, 1}
    BY <1>2, FS_EmptySet, FS_Singleton
<1> QED BY <1>3

(* The steps that do not show: what is read, queued or resized. *)
LEMMA StepsHidden ==
    ASSUME \/ WaitReturns \/ FlushEnds \/ (\E n \in 1 .. BufSize : ReadStdout(n))
           \/ ReadStderr \/ StderrEnds \/ WriteStderr \/ ReadInput \/ ReadResize \/ InputEnds
           \/ Opened \/ (\E size \in Sizes : ResizeWindow(size) \/ Refit(size))
           \/ StderrOutput \/ UNCHANGED vars
    PROVE  UNCHANGED Abstract!vars
<1> USE DEF Abstract!vars
<1>1. CASE WaitReturns \/ FlushEnds
    BY <1>1 DEF WaitReturns, FlushEnds, outVars, inVars
<1>2. ASSUME NEW n \in 1 .. BufSize, ReadStdout(n) PROVE UNCHANGED Abstract!vars
    BY <1>2 DEF ReadStdout, inVars
<1>3. CASE ReadStderr \/ StderrEnds \/ WriteStderr
    BY <1>3 DEF ReadStderr, StderrEnds, WriteStderr, outVars, inVars
<1>4. CASE ReadInput \/ ReadResize \/ InputEnds
    BY <1>4 DEF ReadInput, ReadResize, InputEnds, outVars
<1>5. CASE Opened \/ (\E size \in Sizes : ResizeWindow(size) \/ Refit(size))
    BY <1>5 DEF Opened, ResizeWindow, Refit, outVars
<1>6. CASE StderrOutput
    BY <1>6 DEF StderrOutput, outVars, inVars
<1>7. CASE UNCHANGED vars
    BY <1>7 DEF vars, outVars, inVars
<1> QED BY <1>1, <1>2, <1>3, <1>4, <1>5, <1>6, <1>7

LEMMA SessionNext ==
    ASSUME SessionInv, SessionInv', [Next]_vars
    PROVE  [Abstract!Next]_(Abstract!vars)
<1> USE DEF Abstract!vars
<1>1. CASE SetupFails
  <2>1. Abstract!Finish
      BY <1>1 DEF SetupFails, Abstract!Finish, outVars, inVars, SessionInv, TeardownInv
  <2> QED BY <2>1 DEF Abstract!Next
<1>2. CASE SetupSucceeds
  <2>1. Abstract!Open
      BY <1>2 DEF SetupSucceeds, Abstract!Open, SessionInv, TeardownInv
  <2> QED BY <2>1 DEF Abstract!Next
<1>3. CASE HandlerReturns
  <2>1. Abstract!Finish
      BY <1>3 DEF HandlerReturns, Abstract!Finish, outVars, inVars, SessionInv, TeardownInv
  <2> QED BY <2>1 DEF Abstract!Next
<1>4. CASE WritersCollide
  <2>1. handler \notin {"done", "panic"}
      BY <1>4, CollideBeforeEnd DEF WritersCollide, SessionInv
  <2>2. Abstract!Finish
      BY <1>4, <2>1 DEF WritersCollide, Abstract!Finish
  <2> QED BY <2>2 DEF Abstract!Next
<1>5. CASE StdoutEnds
  <2>1. Abstract!EndOutput
      BY <1>5 DEF StdoutEnds, Abstract!EndOutput, inVars, SessionInv, OutputInv
  <2> QED BY <2>1 DEF Abstract!Next
<1>6. CASE WriteStdout /\ ws = "open" /\ SplitsCharacter
  <2>1. Abstract!Leave
      BY <1>6 DEF WriteStdout, Abstract!Leave, inVars
  <2> QED BY <2>1 DEF Abstract!Next
<1>7. CASE WriteStdout /\ ws = "open" /\ ~SplitsCharacter
  <2>1. read \in shown .. printed
      BY DEF SessionInv, TypeInv, OutTypes
  <2>2. Abstract!Show
      BY <1>7, <2>1 DEF WriteStdout, Abstract!Show, inVars
  <2> QED BY <2>2 DEF Abstract!Next
<1>8. CASE WriteStdout /\ ws # "open"
  <2>1. CASE out' = "done"
    <3>1. Abstract!EndOutput
        BY <1>8, <2>1 DEF WriteStdout, Abstract!EndOutput, inVars
    <3> QED BY <3>1 DEF Abstract!Next
  <2>2. CASE out' = "read"
      BY <1>8, <2>2 DEF WriteStdout, inVars
  <2> QED BY <1>8, <2>1, <2>2 DEF WriteStdout
<1>9. CASE WriteChunk /\ shell = "up"
  <2>1. Len(stdin') \in Len(stdin) .. typed /\ stdin' = Bytes(0, Len(stdin'))
      BY <1>9, ChunkDelivers DEF SessionInv
  <2>2. Len(stdin') \in Nat
      BY DEF SessionInv, TypeInv, InTypes, Keys
  <2>3. stdin' = Abstract!FirstKeys(Len(stdin'))
      BY <2>1, <2>2, BytesLen
  <2>4. Abstract!Deliver
      BY <1>9, <2>1, <2>3 DEF WriteChunk, Abstract!Deliver, outVars
  <2> QED BY <2>4 DEF Abstract!Next
<1>10. CASE WriteChunk /\ shell # "up"
    BY <1>10 DEF WriteChunk, outVars
<1>11. ASSUME NEW n \in 1 .. Burst, Type(n) PROVE Abstract!Next
  <2>1. typed' > typed
      BY <1>11, ConstantsAssumption
      DEF Type, SessionInv, TypeInv, InTypes, ConstantsAssumption
  <2>2. Abstract!Type
      BY <1>11, <2>1 DEF Type, Abstract!Type, outVars
  <2> QED BY <2>2 DEF Abstract!Next
<1>12. CASE CloseTab
  <2>1. Abstract!Leave
      BY <1>12 DEF CloseTab, Abstract!Leave, outVars, inVars
  <2> QED BY <2>1 DEF Abstract!Next
<1>13. CASE StdoutOutput
  <2>1. printed' > printed
      BY <1>13 DEF StdoutOutput, Width, SessionInv, TypeInv, OutTypes
  <2>2. Abstract!ShellPrints
      BY <1>13, <2>1 DEF StdoutOutput, Abstract!ShellPrints, inVars
  <2> QED BY <2>2 DEF Abstract!Next
<1>14. CASE ShellExits
  <2>1. Abstract!ShellExits
      BY <1>14 DEF ShellExits, Abstract!ShellExits, outVars, inVars
  <2> QED BY <2>1 DEF Abstract!Next
<1> QED
    BY <1>1, <1>2, <1>3, <1>4, <1>5, <1>6, <1>7, <1>8, <1>9, <1>10, <1>11, <1>12, <1>13,
       <1>14, StepsHidden DEF Next, Server, Page, Remote

(* The session keeps the promise of Session: every step is a step of it or
   none, the end of the process by a panic included. *)
THEOREM Refinement == Spec => ImplementsSession
<1>1. Init => SessionInv /\ Abstract!Init
    BY TypeInit, InvInit, KeysInit, PrefixInit, SessionInit DEF SessionInv
<1>2. SessionInv /\ [Next]_vars => SessionInv'
    BY TypesKept, InvNext, KeysNext, PrefixNext DEF SessionInv
<1>3. SessionInv /\ SessionInv' /\ [Next]_vars => [Abstract!Next]_(Abstract!vars)
    BY SessionNext
<1> QED BY <1>1, <1>2, <1>3, PTL DEF Spec, ImplementsSession, Abstract!Spec

=============================================================================
