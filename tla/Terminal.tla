------------------------------ MODULE Terminal ------------------------------
(***************************************************************************)
(* pkg/sshclient/terminal.go: one terminal session, a WebSocket bridged to *)
(* an SSH shell by a handler and three goroutines.                         *)
(*                                                                         *)
(*   out   copies the shell's stdout to the WebSocket                      *)
(*   err   copies the shell's stderr to the WebSocket                      *)
(*   in    copies the page's messages to the shell's stdin, or resizes it  *)
(*                                                                         *)
(* The handler waits for out and in, not for err, then writes a last       *)
(* message and closes everything with its deferred calls.  A WebSocket     *)
(* connection of the library (external) takes one writer at a time and     *)
(* panics when it finds another one; the panic ends the process.           *)
(*                                                                         *)
(* What the user types is numbered byte by byte, and what the shell prints *)
(* is counted.  With Wide, every character of the output is two bytes.     *)
(***************************************************************************)
EXTENDS Naturals, SequencesExt

CONSTANTS
    MaxOut,    \* bound: characters the shell prints to stdout
    MaxErr,    \* bound: blocks the shell prints to stderr
    MaxIn,     \* bound: bytes the user types
    MaxInbox,  \* bound: messages that wait when the window is resized
    Burst,     \* bound: bytes in one message of the page
    Chunk,     \* bytes in one write to stdin (1024)
    BufSize,   \* bytes in one read from stdout (16384)
    Sizes,     \* sizes of the terminal on the page
    Default,   \* the size that the pseudo terminal is requested with (80x24)
    Wide       \* whether a character of the output is two bytes, or one

VARIABLES
    handler,   \* where HandleTerminalWebSocket is
    client,    \* whether its SSH connection is open
    ws,        \* the WebSocket: "open", "closed", or "failed" by the browser
    shell,     \* the remote shell: "none", "up", "exited"
    printed,   \* bytes the shell has printed
    out, read, \* the stdout goroutine, and the bytes it has read
    shown,     \* bytes that the page has displayed
    errs,      \* blocks the shell has printed to stderr
    err, errRead,  \* the stderr goroutine, and the blocks it has read
    typed,     \* bytes the user has typed
    inbox,     \* messages of the page that wait in the WebSocket
    in,        \* the input goroutine
    pending,   \* what is left of the message that it writes in chunks
    stdin,     \* what the shell has received
    view,      \* the size of the terminal on the page
    fitted,    \* whether the page has sent the size with which it opened
    window,    \* the size that the page sent last
    pty,       \* the size of the pseudo terminal
    noticed    \* whether the page was told that the session ended

outVars == <<printed, out, read, shown>>
errVars == <<errs, err, errRead>>
sizeVars == <<view, fitted, window, pty>>
inVars  == <<typed, inbox, in, pending, stdin, sizeVars>>
vars    == <<handler, client, ws, shell, outVars, errVars, inVars, noticed>>

Width == IF Wide THEN 2 ELSE 1

ASSUME ConstantsAssumption ==
    /\ {MaxOut, MaxErr, MaxIn, MaxInbox} \subseteq Nat
    /\ {Burst, Chunk, BufSize} \subseteq Nat \ {0}
    /\ Wide \in BOOLEAN
    /\ Default \in Sizes

Keys   == Seq(1 .. MaxIn)
Input  == [kind : {"input"}, data : Keys]
Resize == [kind : {"resize"}, size : Sizes]

Handler == {"setup", "wait", "flush", "last", "done", "panic"}
Pump    == {"none", "read", "write", "done"}

TypeOK ==
    /\ handler \in Handler
    /\ client \in BOOLEAN
    /\ ws \in {"open", "closed", "failed"}
    /\ shell \in {"none", "up", "exited"}
    /\ out \in Pump /\ err \in Pump /\ in \in Pump
    /\ {printed, read, shown, errs, errRead, typed} \subseteq Nat
    /\ shown <= read /\ read <= printed /\ errRead <= errs /\ typed <= MaxIn
    /\ inbox \in Seq(Input \cup Resize)
    /\ pending \in Keys
    /\ stdin \in Keys
    /\ {view, window, pty} \subseteq Sizes
    /\ fitted \in BOOLEAN
    /\ noticed \in BOOLEAN

Init ==
    /\ handler = "setup"
    /\ client = FALSE
    /\ ws = "open"
    /\ shell = "none"
    /\ out = "none" /\ err = "none" /\ in = "none"
    /\ printed = 0 /\ read = 0 /\ shown = 0
    /\ errs = 0 /\ errRead = 0
    /\ typed = 0
    /\ inbox = <<>>
    /\ pending = <<>>
    /\ stdin = <<>>
    /\ view \in Sizes
    /\ fitted = FALSE
    /\ window = Default
    /\ pty = Default
    /\ noticed = FALSE

(* The goroutines that are inside WriteMessage. *)
Writers ==
    {w \in {"out", "err", "handler"} :
        \/ w = "out" /\ out = "write"
        \/ w = "err" /\ err = "write"
        \/ w = "handler" /\ handler = "last"}

-----------------------------------------------------------------------------
(* The handler. *)

(* The keys, the dial, the session, the terminal, the pipes and the shell: the
   first that fails is reported to the page, and the deferred calls close what
   was opened. *)
SetupFails ==
    /\ handler = "setup"
    /\ handler' = "done"
    /\ ws' = IF ws = "open" THEN "closed" ELSE ws
    /\ UNCHANGED <<client, shell, outVars, errVars, inVars, noticed>>

(* The shell runs, the welcome is written and the goroutines start. *)
SetupSucceeds ==
    /\ handler = "setup"
    /\ handler' = "wait"
    /\ client' = TRUE
    /\ shell' = "up"
    /\ out' = "read" /\ err' = "read" /\ in' = "read"
    /\ UNCHANGED <<ws, printed, read, shown, errs, errRead, typed, inbox, pending,
                   stdin, sizeVars, noticed>>

(* Mutant: the wait group counts the output goroutine alone. *)
Mut_WaitReturnsAfterOutput ==
    /\ handler = "wait"
    /\ out = "done"
    /\ handler' = "flush"
    /\ UNCHANGED <<client, ws, shell, outVars, errVars, inVars, noticed>>

(* Mutant: the wait group counts the input goroutine alone. *)
Mut_WaitReturnsAfterInput ==
    /\ handler = "wait"
    /\ in = "done"
    /\ handler' = "flush"
    /\ UNCHANGED <<client, ws, shell, outVars, errVars, inVars, noticed>>

(* wg.Wait returns when both counted goroutines are done. *)
WaitReturns ==
    /\ handler = "wait"
    /\ out = "done" /\ in = "done"
    /\ handler' = "flush"
    /\ UNCHANGED <<client, ws, shell, outVars, errVars, inVars, noticed>>

(* The sleep is over: the handler starts to write its last message. *)
FlushEnds ==
    /\ handler = "flush"
    /\ handler' = "last"
    /\ UNCHANGED <<client, ws, shell, outVars, errVars, inVars, noticed>>

(* The last message is written and the handler returns: the deferred calls
   close the session, the SSH connection, which ends the shell, and the
   WebSocket. *)
HandlerReturns ==
    /\ handler = "last"
    /\ handler' = "done"
    /\ noticed' = (ws = "open")
    /\ client' = FALSE
    /\ ws' = IF ws = "open" THEN "closed" ELSE ws
    /\ shell' = "exited"
    /\ UNCHANGED <<outVars, errVars, inVars>>

-----------------------------------------------------------------------------
(* Goroutine 1: stdout to the WebSocket. *)

(* Mutant: the whole buffer is written, not the part that was read. *)
Mut_ReadStdoutWholeBuffer(n) ==
    /\ out = "read"
    /\ read < printed
    /\ read' = read + BufSize
    /\ out' = "write"
    /\ UNCHANGED <<handler, client, ws, shell, printed, shown, errVars, inVars, noticed>>

ReadStdout(n) ==
    /\ out = "read"
    /\ read + n <= printed
    /\ read' = read + n
    /\ out' = "write"
    /\ UNCHANGED <<handler, client, ws, shell, printed, shown, errVars, inVars, noticed>>

(* Mutant: the goroutine ends with the shell, whatever is left in the pipe. *)
Mut_StdoutEndsUnread ==
    /\ out = "read"
    /\ shell = "exited"
    /\ out' = "done"
    /\ UNCHANGED <<handler, client, ws, shell, printed, read, shown, errVars, inVars, noticed>>

(* Mutant: the loop goes on after the end of the pipe. *)
Mut_StdoutEndsRetries ==
    /\ out = "read"
    /\ shell = "exited"
    /\ read = printed
    /\ UNCHANGED vars

(* The pipe ends when the shell is gone and what it printed is read. *)
StdoutEnds ==
    /\ out = "read"
    /\ shell = "exited"
    /\ read = printed
    /\ out' = "done"
    /\ UNCHANGED <<handler, client, ws, shell, printed, read, shown, errVars, inVars, noticed>>

(* A write fails once the closing frame of the page was read; until then it may
   go to a connection that nobody reads.  A text frame must hold whole
   characters: the browser (external) fails the connection on one that does
   not. *)
SplitsCharacter == shown % Width # 0 \/ read % Width # 0

WriteStdout ==
    /\ out = "write"
    /\ IF ws = "open"
       THEN /\ out' = "read"
            /\ IF SplitsCharacter
               THEN ws' = "failed" /\ UNCHANGED shown
               ELSE shown' = read /\ UNCHANGED ws
       ELSE /\ out' \in IF in = "done" THEN {"done"} ELSE {"read", "done"}
            /\ UNCHANGED <<ws, shown>>
    /\ UNCHANGED <<handler, client, shell, printed, read, errVars, inVars, noticed>>

-----------------------------------------------------------------------------
(* Goroutine 2: stderr to the WebSocket.  An error of the write is ignored. *)

ReadStderr ==
    /\ err = "read"
    /\ errRead < errs
    /\ errRead' = errRead + 1
    /\ err' = "write"
    /\ UNCHANGED <<handler, client, ws, shell, outVars, errs, inVars, noticed>>

(* Mutant: the loop goes on after an error of the read. *)
Mut_StderrEndsRetries ==
    /\ err = "read"
    /\ errRead = errs
    /\ shell = "exited" \/ ~client
    /\ UNCHANGED vars

StderrEnds ==
    /\ err = "read"
    /\ errRead = errs
    /\ shell = "exited" \/ ~client
    /\ err' = "done"
    /\ UNCHANGED <<handler, client, ws, shell, outVars, errs, errRead, inVars, noticed>>

WriteStderr ==
    /\ err = "write"
    /\ err' = "read"
    /\ UNCHANGED <<handler, client, ws, shell, outVars, errs, errRead, inVars, noticed>>

(* Two writers meet in the WebSocket library: the process panics, when the one
   notices the other. *)
WritersCollide ==
    /\ Cardinality(Writers) > 1
    /\ handler' = "panic"
    /\ client' = FALSE
    /\ ws' = IF ws = "open" THEN "closed" ELSE ws
    /\ shell' = "exited"
    /\ out' = "done" /\ err' = "done" /\ in' = "done"
    /\ UNCHANGED <<printed, read, shown, errs, errRead, typed, inbox, pending, stdin,
                   sizeVars, noticed>>

-----------------------------------------------------------------------------
(* Goroutine 3: the WebSocket to stdin. *)

ReadInput ==
    /\ in = "read"
    /\ inbox # <<>>
    /\ Head(inbox).kind = "input"
    /\ pending' = Head(inbox).data
    /\ inbox' = Tail(inbox)
    /\ in' = "write"
    /\ UNCHANGED <<handler, client, ws, shell, outVars, errVars, typed, stdin, sizeVars,
                   noticed>>

(* Mutant: a resize is taken from the WebSocket and forgotten. *)
Mut_ReadResizeIgnored ==
    /\ in = "read"
    /\ inbox # <<>>
    /\ Head(inbox).kind = "resize"
    /\ inbox' = Tail(inbox)
    /\ UNCHANGED <<handler, client, ws, shell, outVars, errVars, typed, in, pending, stdin,
                   sizeVars, noticed>>

ReadResize ==
    /\ in = "read"
    /\ inbox # <<>>
    /\ Head(inbox).kind = "resize"
    /\ pty' = IF shell = "up" THEN Head(inbox).size ELSE pty
    /\ inbox' = Tail(inbox)
    /\ UNCHANGED <<handler, client, ws, shell, outVars, errVars, typed, in, pending, stdin,
                   view, fitted, window, noticed>>

(* ReadMessage returns an error once everything that was sent is read. *)
InputEnds ==
    /\ in = "read"
    /\ inbox = <<>>
    /\ ws # "open"
    /\ in' = "done"
    /\ UNCHANGED <<handler, client, ws, shell, outVars, errVars, typed, inbox, pending,
                   stdin, sizeVars, noticed>>

(* Mutant: only the first chunk of a message is written. *)
Mut_WriteChunkOnce ==
    /\ in = "write"
    /\ LET n == IF Len(pending) > Chunk THEN Chunk ELSE Len(pending)
       IN stdin' = IF shell = "up" THEN stdin \o SubSeq(pending, 1, n) ELSE stdin
    /\ pending' = <<>>
    /\ in' = "read"
    /\ UNCHANGED <<handler, client, ws, shell, outVars, errVars, typed, inbox, sizeVars,
                   noticed>>

(* writeStdinChunked: one chunk, or the end of the message when the shell is
   gone and the write fails. *)
WriteChunk ==
    /\ in = "write"
    /\ LET n == IF Len(pending) > Chunk THEN Chunk ELSE Len(pending)
           rest == IF shell = "up" THEN SubSeq(pending, n + 1, Len(pending)) ELSE <<>>
       IN /\ stdin' = IF shell = "up" THEN stdin \o SubSeq(pending, 1, n) ELSE stdin
          /\ pending' = rest
          /\ in' = IF rest = <<>> THEN "read" ELSE "write"
    /\ UNCHANGED <<handler, client, ws, shell, outVars, errVars, typed, inbox, sizeVars,
                   noticed>>

-----------------------------------------------------------------------------
(* The page (external to the server) and the shell. *)

Type(n) ==
    /\ ws = "open"
    /\ typed + n <= MaxIn
    /\ typed' = typed + n
    /\ inbox' = Append(inbox, [kind |-> "input", data |-> [i \in 1 .. n |-> typed + i]])
    /\ UNCHANGED <<handler, client, ws, shell, outVars, errVars, in, pending, stdin, sizeVars,
                   noticed>>

Send(size) ==
    /\ window' = size
    /\ inbox' = Append(inbox, [kind |-> "resize", size |-> size])

(* 50ms after the WebSocket has opened, the page sends its size. *)
Opened ==
    /\ ws = "open"
    /\ ~fitted
    /\ fitted' = TRUE
    /\ Send(view)
    /\ UNCHANGED <<handler, client, ws, shell, outVars, errVars, typed, in, pending, stdin,
                   view, pty, noticed>>

(* The window is resized while the tab of this session is the active one. *)
ResizeWindow(size) ==
    /\ ws = "open"
    /\ size # view
    /\ Len(inbox) < MaxInbox
    /\ view' = size
    /\ Send(size)
    /\ UNCHANGED <<handler, client, ws, shell, outVars, errVars, typed, in, pending, stdin,
                   fitted, pty, noticed>>

(* The terminal is fitted to its place and nothing is sent: after a change of
   the font, to or from the full screen, or when its tab becomes active again
   in a window that was resized in the meantime. *)
Refit(size) ==
    /\ size # view
    /\ view' = size
    /\ UNCHANGED <<handler, client, ws, shell, outVars, errVars, typed, inbox, in, pending,
                   stdin, fitted, window, pty, noticed>>

CloseTab ==
    /\ ws = "open"
    /\ ws' = "closed"
    /\ UNCHANGED <<handler, client, shell, outVars, errVars, inVars, noticed>>

StdoutOutput ==
    /\ shell = "up"
    /\ printed < MaxOut * Width
    /\ printed' = printed + Width
    /\ UNCHANGED <<handler, client, ws, shell, out, read, shown, errVars, inVars, noticed>>

StderrOutput ==
    /\ shell = "up"
    /\ errs < MaxErr
    /\ errs' = errs + 1
    /\ UNCHANGED <<handler, client, ws, shell, outVars, err, errRead, inVars, noticed>>

(* The shell exits, or its connection is lost: the pipes end either way. *)
ShellExits ==
    /\ shell = "up"
    /\ shell' = "exited"
    /\ UNCHANGED <<handler, client, ws, outVars, errVars, inVars, noticed>>

-----------------------------------------------------------------------------
Server ==
    \/ SetupFails \/ SetupSucceeds \/ WaitReturns \/ FlushEnds \/ HandlerReturns
    \/ \E n \in 1 .. BufSize : ReadStdout(n)
    \/ StdoutEnds \/ WriteStdout
    \/ ReadStderr \/ StderrEnds \/ WriteStderr \/ WritersCollide
    \/ ReadInput \/ ReadResize \/ InputEnds \/ WriteChunk

Page ==
    \/ (\E n \in 1 .. Burst : Type(n))
    \/ Opened \/ CloseTab
    \/ (\E size \in Sizes : ResizeWindow(size) \/ Refit(size))

Remote == StdoutOutput \/ StderrOutput \/ ShellExits

Next == Server \/ Remote \/ Page

Spec == Init /\ [][Next]_vars

(* Go schedules every goroutine that can run, and the sleep ends.  Nothing is
   assumed of the setup, which waits for the SSH server without a timeout. *)
Scheduling ==
    /\ WF_vars(WaitReturns \/ FlushEnds \/ HandlerReturns)
    /\ WF_vars((\E n \in 1 .. BufSize : ReadStdout(n)) \/ StdoutEnds \/ WriteStdout)
    /\ WF_vars(ReadStderr \/ StderrEnds \/ WriteStderr)
    /\ WF_vars(ReadInput \/ ReadResize \/ InputEnds \/ WriteChunk)

FairSpec == Spec /\ Scheduling

-----------------------------------------------------------------------------
(* Properties. *)

Data(m) == IF m.kind = "input" THEN m.data ELSE <<>>

(* The bytes a + 1, ..., b of what the user typed. *)
Bytes(a, b) == [i \in 1 .. b - a |-> a + i]

(* While the shell runs, what the user typed is cut, in this order, into what
   the shell has received together with what is being written in chunks, and
   what each message holds that waits in the WebSocket: nothing is lost,
   doubled or reordered. *)
KeysInOrder ==
    shell # "exited" /\ in # "done" =>
        \E cut \in [1 .. Len(inbox) + 1 -> 0 .. typed] :
            /\ stdin \o pending = Bytes(0, cut[1])
            /\ \A i \in 1 .. Len(inbox) :
                   cut[i] <= cut[i + 1] /\ Data(inbox[i]) = Bytes(cut[i], cut[i + 1])
            /\ cut[Len(inbox) + 1] = typed

(* When all messages are read, the pseudo terminal has the size that was sent
   last: no resize is lost among the keys. *)
PtyFollowsWindow == shell = "up" /\ in = "read" /\ inbox = <<>> => pty = window

(* When the stdout goroutine ends under an open page, the page has shown all
   that the shell printed.  ImplementsSession says it as well, of the step. *)
AllOutputShown == out = "done" /\ ws = "open" => shown = printed

(* When the handler has returned, nothing of the session is open and the
   goroutines that it waits for are over. *)
ReturnReleasesAll ==
    handler = "done" =>
        ~client /\ ws # "open" /\ out \in {"none", "done"} /\ in \in {"none", "done"}

(* Only the stderr goroutine, which nobody waits for, can meet another writer in
   the WebSocket: the last message of the handler never meets the output. *)
OnlyStderrCollides == Cardinality(Writers) > 1 => err = "write"

(* The session keeps the promise of Session: the goroutines, the chunks and the
   buffers do not show, and the output is not given up under an open page. *)
Abstract == INSTANCE Session WITH
    page <- ws = "open",
    received <- stdin,
    output <- IF out \in {"read", "write"} THEN "flowing"
              ELSE IF out = "done" THEN "ended" ELSE "none",
    over <- handler \in {"done", "panic"}

ImplementsSession == Abstract!Spec

(* A session whose page and shell are both gone ends. *)
SessionEnds == shell = "exited" /\ ws # "open" ~> handler \in {"done", "panic"}

(* The goroutine that the handler does not wait for does not outlive it for
   ever: closing the SSH connection ends its read. *)
NoGoroutineStays == handler = "done" ~> err \in {"none", "done"}
=============================================================================
