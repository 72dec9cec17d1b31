# Verification of NovaSSH

NovaSSH is a Go program that serves a page to a browser and connects it, over
SSH, to the servers that its user manages: terminals, a file explorer, tools,
monitoring.  This directory holds TLA+ models of it, configurations that
model-check them with TLC, and theorems about them that TLAPS proves.

Contents:
1. the system: components, state, interaction, what is hard
2. the modules and how they correspond to the code
3. the runs: what each one asks and shows, bounds, fairness
4. the proofs
5. what the models show beyond the runs
6. what is not modelled, and the plan

## 1. The system

One process, started by `src/main.go`, serves HTTP.  A desktop launch also opens
a browser window on itself.  Every HTTP request is a goroutine; they share the
storage and the SSH manager, each with its own mutex.

| component | source | state | operations |
|---|---|---|---|
| storage | `pkg/storage/storage.go` | tables `servers`, `snippets`; two JSON files | load, seed, save; get, save, delete of both tables; status; import, export |
| SSH manager | `pkg/sshclient/manager.go` | `clients`: one cached connection per entry, `mu` | Connect, CloseConnection, RunCommand, PingServer |
| terminal session | `pkg/sshclient/terminal.go` | per WebSocket: an SSH connection of its own, a shell, three goroutines | the handler and its deferred calls; `writeStdinChunked` |
| SFTP client | `pkg/sftpclient/sftp.go` | none of its own; the files of the servers | list, upload, download, mkdir, touch, delete, rename, read, write |
| health monitor | `main.go` `startBackgroundMonitor`, ping handlers | statuses in the storage | one goroutine per server and round |
| lifecycle | `main.go`, `pkg/desktop/desktop.go` | `lastHeartbeat`, `hasConnected`; the port | launch, port check, heartbeat, shutdown beacon, lifecycle monitor, OpenWindow |
| cluster broadcast | `features.go` `BroadcastCommand` | per request: a slice of results with a place for each target, a wait group | fan-out of RunCommand |
| tools and statistics | `features.go`, `monitor.go` | none | one remote command each, parsed |
| page: servers, snippets | `web/static/js/app.js` | `servers`, `snippets`, the forms | load, save, delete, import, export |
| page: tool tabs | `app.js` | per tab a select, a table or a text; check boxes and cards | load, act on a row, run a snippet, broadcast |
| page: terminal tabs | `app.js` | `terminalSessions`, `activeSSHSessionId`, the bar | open, switch, close, reconnect, paste, resize |
| page: SFTP pane, editor | `app.js` | `currentSFTPServerId`, `sftpSessions`, table, editor | switch, browse, operations, open, save |

How they interact:

- handlers fetch a record from the storage and pass it to the SSH manager, the
  SFTP client or the terminal; the storage's mutex is long free by then, so the
  record may be edited or deleted while it is used;
- the SFTP client and RunCommand share the cached connection of an entry; a
  terminal dials its own;
- the page calls the handlers with `fetch` and does not wait before it lets the
  user go on; the terminal is a WebSocket with messages both ways;
- the process ends by `os.Exit`, in the middle of whatever the others are
  doing, when a page's beacon or the lifecycle monitor says so.

What is hard, and what makes each component correct:

| component | hard behaviour | what must hold |
|---|---|---|
| storage | an exit or a failed write between any two of the four system calls of a save | the files agree with the memory when the mutex is free; a restart finds one of few known states |
| SSH manager | requests that connect to, use and delete one entry; peers that break, refuse or stall | no connection lost, doubled, mixed up or taken away; everybody gets past the mutex |
| terminal | two sides that end at any time, a goroutine that nobody waits for, one WebSocket with several writers | order, no loss, release of everything |
| lifecycle | windows that close, crash, reload; relaunches; heartbeats that come late or, under a dialog, not at all | the server outlives the pages that send heartbeats and does not outlive the last page for ever |
| SFTP pane | answers that arrive after the pane has moved; names without a directory | the table shows, and the buttons act on, one and the same place |
| terminal tabs | events of WebSockets that were closed; handlers that change the map, the WebSocket, the header and the bar one after the other; a paste with waits in it | no connection without a tab, a bar that tells the truth, a paste that stays together |
| lists and forms | calls that cross, are lost, or are answered late; a table without entries, at which the page throws; one form for many entries | the list comes to be the stored one; the form saves what it shows |
| tool tabs, broadcast | answers for a server that is no longer selected, selects made anew; goroutines that share a slice | rows of the server that is selected; a card for every target |

`PROJECT.json` lists the components with their status, and every hazard with its
line and the properties that cover it.

## 2. The modules

Every module is self-contained but for the refinements: `Storage` instantiates
`TableStore`, `SSHManager` instantiates `ConnPool`, and `Terminal` instantiates `Session`.
`MC*` modules only name instances.  `*Proofs` modules extend the module they are about;
MonitorsProofs extends StatusMonitor and Lifecycle, whose `LCInit`, `LCNext` and so on
are prefixed for it.

**TableStore / Storage.**  `TableStore` is the promise of the storage: two tables
changed one operation at a time; a process that stops between two operations
finds what was saved; one that stops within an operation, or whose disk failed,
finds for each table on its own the old value, the new one, or nothing.
`Storage` is the code: every operation of `storage.Manager` changes the table and
begins a save with the mutex held (`BeginSave`), and a save is `OpenServers`
(truncate), `FillServers`, `OpenSnippets`, `FillSnippets`, with `Exit` possible
between any two, and with `WriteServersFails` / `WriteSnippetsFails` where the
code drops an error.  `NewManager` loads, ignores what does not parse, seeds and
saves.  Ids stamped from the clock are the second they were stamped in.

**ConnPool / SSHManager.**  `ConnPool` promises at most one live connection per
entry, and that a request takes one that is live for its entry.  `SSHManager` is
the code: `GetServer`, then `Connect` step by step under the mutex (`Lock`, the
keepalive of a cached client, `BuildConfigFails`, `DialSucceeds`, `DialFails`,
`Store`), then `Use` without the mutex; `Delete`, `CloseConnection`,
`DeleteServer` are the steps of the handler that deletes an entry.  `Break`,
`Stall` and `Recover` are the network.

**Session / Terminal.**  `Session` is the promise of a terminal session: the shell receives
a beginning of what was typed, the page shows a beginning of what was printed,
the output is given up under an open page only when everything is shown, and
nothing is left when the session is over.  `Terminal` is the code,
`HandleTerminalWebSocket`: `SetupFails` / `SetupSucceeds`, the
three goroutines (a read and a write step each, `writeStdinChunked` one step per
chunk), `WaitReturns`, `FlushEnds`, and `HandlerReturns` with the deferred calls.
The page types, resizes, refits and closes the tab; the shell prints and exits.
The WebSocket library (external) panics on two concurrent writers.

**Lifecycle.**  `main`'s port check and launch, the heartbeat, the beacon, the
monitor, `OpenWindow`, and windows that are opened, browsed to, closed, killed,
reloaded, hidden, navigated and held up by dialogs.  Time passes in units of three
seconds, the period of both the heartbeat and the monitor, so the 15 seconds are
five units.  A page sends a heartbeat in every unit while its timers run: not when
it is hidden (a browser may hold them back) and not while an `alert`, a `confirm` or
a `prompt` is open (`OpenDialog`, `CloseDialog`), which suspends them.

**SFTPExplorer.**  The pane (`Switch`, `Browse`), its operations (`Upload`,
`PromptMkdir`, `PromptTouch`, `DeleteSFTP`, `RenameSFTP`, `SaveCodeEditor`), the
editor (`OpenCodeModal`, `ShowText`, `CloseCodeModal`), and the server's part of
each call (`ListFiles`, `Perform`, `Fail`).  A call is a record in a set: any of
them may be served next, and any answer may arrive next.  An operation that
fails may have done part of its work: some of the directories made, some of the
files of a tree removed, or everything with the answer lost (`Remains`).  The
editor covers the pane, so the pane does not move while it is open.  From "/" the
page sends the path of a new directory or file, and the new path of a renamed
entry, as a name alone (`app.js:815`, `:839`, `:872`), which the server resolves in
the login directory: `Target` and `NewPath` say where.  An upload goes to the root
itself, since `main.go:665` joins the two with `filepath.Join`; the model has this
join as it is on systems with "/", while on Windows it would put a backslash into
the path.  A rename is that of a server, which refuses a target that exists, one in
a directory that does not, and one inside the entry itself (`Renamable`).

**StatusMonitor.**  The round of the monitor and the two ping handlers are three
callers (`Monitor`, `HandlePingAll`, `HandlePingServer`) that start a goroutine
for each entry and wait for all of them (`Finish`).  A goroutine dials the host of
the record that it was started with (`PingServer`), and stores its answer under
the id (`UpdateServerStatus`), where another record, or none, may be by then:
`SaveServer` replaces a record, `DeleteServer` removes it, and hosts go up and
down.  Each of the two handlers has one request at a time in the model.  `settled`
is history: the callers that have started since the last change, when no goroutine
from before it was left.

**TerminalTabs.**  The page's map of sessions (`tab`: the WebSocket of each entry's
tab), the one in front (`active`), and the three places that display it: the
viewport (`shown`), the header (`title`) and the bar.  `OpenNewSSHConnection`,
`SwitchSSHTab`, `CloseSSHSession` and `ReconnectActiveSSH` are the handlers as a
whole; `OnOpen` and `OnClose` are the events, which a WebSocket that was closed, and
whose tab is gone or belongs to another WebSocket by then, still gets.  The bar
is a picture: it keeps what it was drawn with until a handler draws it again.
`terminalPaste` is `TerminalPaste` (up to the wait for the clipboard), then
`ReadText` and `TimerEnds`, one for each block.

**PageLists.**  The two lists of the page against the tables of the storage.  A call
for a list is sent, read by the server (`ServeLoad`) and shown (`ShowServers`,
`ShowSnippets`), or fails; a call that changes a list is sent by a form, a Delete or
an import, carried out or refused by the server, and answered or lost.  The
change may be made although the answer is an error, since the storage changes
its memory before it writes.  `form` is what the forms hold: the entry, its way
to authenticate, and which of the two credential fields is displayed.  Of an
entry only its presence and its way to authenticate are kept.  `fresh`, `age`
and `unsure` are history.  A table without entries is sent as `null`
(`storage.go:138`), and the page throws while it renders that (`app.js:152`, `:1264`):
what is displayed stays (`Rendered`).  While the servers are null (`noServers`), no
snippets are rendered either (`:1269`) and a card that is left cannot be edited
(`:1437`).  A call that changes a list may be given up by the page and run by the
server afterwards (`LoseWrite`, and `ServeWrite` of a write that is lost).

**Tools.**  The tabs for services, containers, ports, keys, statistics, snippets
and the broadcast.  They share only the list of servers, so a behaviour is that
of one tab, chosen in `Init`: this keeps the sum of their states instead of the
product.  `Load` is the part that the functions `load...` have in common,
`ShowAnswer` the other; each tab has its own actions for them, and differs in
what it keeps while it waits (`Display`) and in which answers there are
(`Answers`).  The broadcast has the page's check boxes and cards and, for each
request, the targets, a goroutine for each (`CommandEnds`) and the wait for all
(`BroadcastCommand`).  When the list of servers is null, the selects, the check
boxes and the snippets stay as they were, and no snippet runs: each of them throws.

| module | state | code |
|---|---|---|
| Storage | `servers`, `snippets`, files, `pc` (holder of the mutex), `now`, `failed`, `saved` (history) | `Manager.servers`, `.snippets`, `servers.json`, `snippets.json`, `mu` |
| SSHManager | `clients`, `lock`, `registry`, per request `pc`, `rid`, `srv`, `cl`, per connection `link`, `entry`, `target` | `Manager.clients`, `.mu`, the storage's records, locals of the handlers |
| Terminal | `handler`, `out`, `err`, `in`, `pending`, `inbox`, `stdin`, sizes | the handler, its goroutines, the WebSocket, the pty |
| Lifecycle | `server`, `connected`, `age`, `polled`, per window `page`, `beat` | `App.hasConnected`, `.lastHeartbeat`, the tickers |
| SFTPExplorer | `pane`, `session`, `rows`, `editor`, calls under way, `tree` | `currentSFTPServerId`, `sftpSessions`, the DOM, the remote files |
| TerminalTabs | `socket`, `tab`, `active`, `shown`, `title`, `bar`, `paste` | `readyState`, `terminalSessions`, `activeSSHSessionId`, the DOM, calls of `terminalPaste` |
| PageLists | `stored`, `page`, `loads`, `writes`, `form` | the storage, `servers`, `snippets`, calls of `fetch`, the forms |
| Tools | `listed`, `options`, `selected`, `shown`, `calls`, `checked`, `runs`, `grid` | `servers`, the selects, tables and texts, `fetch`, the check boxes, `results`, the cards |
| StatusMonitor | `table`, `up`, per caller `busy`, `left`, the goroutines `pings` | `Manager.servers`, the wait groups and goroutines of `main.go` |

## 3. The runs

| run | expects | asks |
|---|---|---|
| MCStorage | pass | do the files agree with the memory when the mutex is free; does the storage implement `TableStore`, with exits and failed writes |
| MCSSHManager | pass | are connections kept, single, unmixed and undisturbed; is `ConnPool` implemented |
| MCSSHManagerLive | pass | does every request get past the mutex |
| MCSSHManagerEdited | violation | does a command run on the host that its entry names |
| MCTerminal | pass | order of keys, sizes, release of everything, who may collide, ends; is `Session` implemented |
| MCLifecycle | pass | does the monitor spare windows that are visible and have no dialog open, and end abandoned servers |
| MCSFTPExplorer | pass | do the files stay a tree, does the pane work in the directory it shows, and is its newest list up to date |
| MCSFTPExplorerSeen | violation | does an operation act on what the user saw |
| MCStatusMonitor | pass | is every entry answered, are the answers of a round after the last change true and stay so, do the statuses come to be true |
| MCTerminalTabs | pass | has every connection its tab, does the bar tell the truth, does a paste stay together |
| MCPageLists | pass | is the newest list the stored one, does a form show the credential it saves, do the servers converge |
| MCTools | pass | are the newest rows those of the selected server, has every target of a broadcast its card |

**Violations.**  Each states what a comment or the README of the repository says:

- *RunsWhereConfigured*: the cache is keyed by the id alone, and an edit closes
  nothing, so a command goes to the old host.
- *ActsOnWhatIsSeen*: a list that arrives after the pane has moved shows the files
  of the old server, and Delete and Rename send the new one.

**Bounds.**

- Storage: two seconds of the clock, one foreign id per table, one profile.  Two
  seconds are enough for a record that is stamped, kept and stamped over; a
  second profile would only rename the first.
- SSHManager: two requests, two entries, two configurations (one with a key that
  does not parse, one whose peer may stall), four connections.  A closed
  connection that nobody holds is used again, so as many as entries and requests
  together never run out.  The liveness run has one entry, where all the
  contention is, and no symmetry.
- Terminal: two characters of output of two bytes each against a read of at most
  three, so reads split characters; one block of stderr; two bytes of input in
  chunks of one, so a message needs two writes with anything in between; two
  sizes.
- Lifecycle: two windows, one window being opened at a time, and the real limit of
  five units.  `Behaviours` names what users do; hidden pages are left out of the run,
  as they send no heartbeat for the same reason as those with a dialog.
- SFTPExplorer: two servers, a login directory with a file, and a directory with a
  file beside it, so that names sent from the root and renames of its entries go
  elsewhere; two levels of directories (`Depth`: a move that would go deeper fails);
  three lists, two operations, one opened file.  Three lists let two operations be
  under way at once, and let the pane leave a server during an operation and return
  to it.  The login directory and those above it are neither deleted nor renamed
  (`LoginStays`): where "." and bare names go afterwards is up to the server.
- StatusMonitor: two entries, two hosts, one change.  One change (an edit, a deletion
  or a host that flips) at any point of three overlapping rounds leaves answers of
  every age under way; two hosts let an entry move from one that is up to one
  that is down.  Every table and every state of the hosts is initial, so one
  change is all that is needed to make an answer stale.

- TerminalTabs: three servers, three WebSockets (so two tabs and a reconnect, or
  three tabs of which two are left when one is closed), one paste of up to two
  blocks, a key in each WebSocket.  Two blocks have one wait between them, and the
  tabs may do anything during it.
- PageLists: two entries, two calls for lists and one that changes a list.  Two
  entries are what it takes for a deletion to leave a table empty or not; a run may
  start with none, one or both servers (`MCInit` drops starts that differ in the
  names of the entries only).  Two calls are what it takes for an older answer to
  come last.  A handler that would make a third call waits for one of the two to end.
- Tools: three servers, two calls or two broadcasts.  Three let a broadcast lose
  one target to a deletion and mix up the others.

Deadlock is checked except in Terminal, SFTPExplorer and TerminalTabs, where the
session really ends, the user may really stop, or the WebSockets are used up.

**Fairness.**

- Terminal: Go runs every goroutine that can run.  Nothing is assumed of the setup,
  which waits for the SSH server without a timeout, of the page or of the shell.
  Writes to stdin and to the WebSocket are steps that end: with a peer that stops
  to read they could block for ever, as no deadline is set.
- SSHManager: Go's mutex hands itself to a waiter that starves, so `Lock` is
  strongly fair.  The network steps of Connect end only if silent peers recover,
  which `PeersRecover` states as an assumption of its own: without it the property
  is false, since neither the keepalive nor the handshake has a timeout.
- StatusMonitor: the ticker ticks, Go runs every goroutine, and a ping ends because
  `net.DialTimeout` gives up after three seconds.  Nothing is assumed of users,
  of hosts or of the ping handlers.  `StatusConverges` speaks of the time after
  the last change: an answer that was measured before it may be stored after it,
  and a later round of the monitor overtakes it.
- Lifecycle: the tickers and the sleep before the exit, and time itself.
- PageLists: the interval of 30 seconds fires (weak fairness of `LoadServers`), and
  of the calls that are made again and again not every one fails (strong
  fairness of `ServeLoad` and `ShowLoad`).  Nothing is assumed of users, of the
  forms or of changes.  Snippets have no interval, so nothing is claimed of them.

## 4. The proofs

Each is for every value of the constants under the named assumptions of its module.

- **StorageProofs.**  `TypeCorrect`; `Agreement` (with the mutex free and no failed
  write, both files hold the tables); `Refinement` (the storage implements
  `TableStore`).  The inductive invariant says, for each place in a save, what
  each file may hold: before the truncation what a restart would have found,
  between truncation and fill nothing, after it the table in memory.  The
  refinement maps each step to a step of `TableStore` or to a stutter.
- **SSHManagerProofs.**  `TypeCorrect`, `NoLeak`, `OneConnection`, `OwnEntry`,
  `LostToDelete`, `Refinement`, and `HolderGoesOn`: the request that holds the mutex has a step
  unless its peer is silent, stated with the guards of the steps, as ENABLED is out of the
  prover's reach.  The invariant ties the cache to the connections
  (a live connection is the cached one of its entry, or the one just dialled by
  the holder of the mutex) and the mutex to the places of the requests.  It is
  needed because `NoLeakedConnection` alone says nothing of the step from
  dialling to storing.
- **TerminalProofs.**  `TypeCorrect`; `ReturnReleases`, `OutputShown`, `StderrCollides`, from
  what the wait group implies: behind `WaitReturns` both goroutines are over;
  `PtyFollows`; `KeysOrdered`; and `Refinement`.  `PtyFollowsWindow` speaks of an empty inbox only,
  so `SizeInv` says where the size that was sent last is before: in the last resize
  that waits, or, when none waits, in the pseudo terminal.  `KeysInOrder` names
  the cuts between the messages instead of joining them, so that no step needs
  induction over the inbox: a message that is sent adds a cut at the end
  (`SentCut`), one that is taken drops the first (`TakenCut`), and a chunk moves
  bytes across a concatenation (`WrittenCut`).  What it lacks to be inductive is
  in `KeysInv`: nothing is left of a message while none is written.
  `Refinement` (the session implements `Session`) also needs `PrefixInv`, which speaks of
  shells that have ended: while one runs, a chunk continues the beginning that it has
  received by the cuts (`ChunkDelivers`), and afterwards nothing is received.
  `CollideBeforeEnd` shows that the panic cannot follow the return of the handler.
- **MonitorsProofs**, about both goroutines that `main` starts.
  The status monitor: `TypeCorrect`, `Answered`, `TellsTruth`.  `MonitorInv`
  says that each caller has exactly one goroutine for every answer that it lacks.
  The types alone are not inductive: a second goroutine for one id would outlive
  the answer of the first and belong to a caller that has gone on.  `TellsTruth` needs
  `RoundInv`: as soon as one round is settled, every goroutine belongs to a settled
  caller (`SettledPings`), so it pings the host that its record has now and reports
  the truth (`PingsTrue`); a change empties `settled`.
  The lifecycle monitor: `LifecycleTypes`, and
  `SparesVisible`: the age of the last heartbeat is bounded by what the visible
  windows have sent since (`BeatInv`).
- **SFTPExplorerProofs.**  `TypeCorrect`, `LoadingEnds`, `ShownDirectory`, `NewestFresh`.  The type
  invariant holds that the files of a server are a tree; a path is described by
  its names (`PathShape`).  A rename is the only operation that moves others, and
  from the root to anywhere in the tree: what it moves is described by its names too
  (`ToByNames`), each keeps its parent, which moves with it (`ToParent`), and the
  directory that the entry goes to stays, as it is not within the entry
  (`MovingKeepsTree`).  `ShownInv` follows the newest
  list: its call is for the server of the pane, and once the server has read the
  directory no operation that went well changes it without a newer call.  The
  property alone is not inductive, since the list is fixed when the server reads
  it and shown later.
- **TerminalTabsProofs.**  `TypeCorrect`, `ConnectionsHaveTabs`, `BarTrue`, `PastesTogether`.  `TabInv`
  says that a WebSocket of a tab was used, that a used one without a tab is
  closing or closed, and what each place of the display was drawn with.
  `PasteInv` says how far each paste is: its blocks up to `next` and no later
  ones are where they belong.  `PasteStaysTogether` alone does not say that the
  block to come is not there yet.
- **PageListsProofs.**  `TypeCorrect`, `NewestFresh`, `FormCredential`.  `NewestIsTrue` is what
  `NewestListIsFresh` lacks: an answer that is on its way, of the newest call and
  for a settled list, is the stored table already.  A change unsettles its list when
  the server carries it out, whether or not the page still waits for it, and what
  settles the list again makes another call the newest.
- **ToolsProofs.**  `TypeCorrect`, `NewestRows`, `TargetsReported`.  The types are
  inductive only with `MenuInv`: what is selected or checked is offered, and boxes
  are checked in the tab of the broadcast only, which selects nothing; and
  with `QuietInv`, since the answer to a list in the tab of the broadcast would be
  none.  `RowsInv` adds to the rows that are displayed the calls that are under
  way; `RunInv` follows a broadcast from the servers that were checked, over the
  wait, to the cards, while servers are deleted.

Model-checked only: the liveness properties (`EveryRequestGetsPast`, `SessionEnds`,
`NoGoroutineStays`, `AbandonedServerEnds`, `StatusConverges`, `ServersConverge`), which are out of the
prover's reach.  Every invariant and every action property of a run is stated by a
theorem.

## 5. What the models show beyond the runs

The models have these behaviours, and no run is spent on them.

On the server:

- `save` truncates `servers.json` before it fills it (`storage.go:114-121`), and the
  process leaves with `os.Exit` at any point (`Exit`): a restart may read an empty
  file, ignore the error, and save an empty table over it.  `TableStore` allows
  for it (a table that was being saved may be lost), and `README.md:71` does not;
- when the page closes its WebSocket only the input goroutine ends: the stdout
  goroutine stays in a read of an idle shell, so the SSH connection, the shell
  and the handler stay for ever (`terminal.go:180`).  `SessionEnds` is therefore
  about shells that exit;
- the beacon of any page ends the process, also while another window is open
  (`main.go:196`; `app.js:59` speaks of keeping the server alive while a window
  is);
- the handlers for an action on a service or container, and for an added key,
  answer 200 with a field `error` that the page does not read: it reports
  success (`main.go:432`, `app.js:987`, `:1142`);
- a list without entries is `null`, so a server without containers shows
  "Connection error", and the text for it (`app.js:1008`) is never shown;
- an operation of the storage answers with success when both writes failed
  (`storage.go:120`, `:131`); two records saved in one second get one id (`:156`);
- a request that fetched an entry before its deletion may cache a connection
  after it, which nothing closes (`main.go:284`);
- one silent peer keeps the mutex, and every request for every server waits
  (`manager.go:77`);
- the stderr goroutine meets another writer on the WebSocket, the library panics
  and the process ends (`WritersCollide`); *OnlyStderrCollides* shows that this is
  the only way;
- a read that ends within a character becomes a frame that a browser refuses;
- the notice that a session has ended is written when the page has already gone;
- the font size and the full screen change the terminal and not the pty (`Refit`);
- reloading a page or exporting a backup sends the beacon and ends the server;
- `app.js:59` means the heartbeat to keep the server alive "while app window is open".
  A window that is hidden, or has an `alert`, a `confirm` or a `prompt` open
  (`app.js:573`, `:793`, `:810`, `:854` and others) for more than 15 seconds, loses its
  server (`main.go:181`) unless another window beats: `Hide` and `OpenDialog` lead
  there, and `MonitorSparesVisible` excepts both.

On the page:

- an older answer that comes last replaces a newer list, for the servers until
  the next interval, for the snippets until the next change; it also shows the rows of a
  tool for a server that is no longer selected, while their buttons act on the
  server the rows came from;
- once the last server, or the last snippet, is deleted, its card stays, for the
  answer is `null` and the page throws at it; with null servers the snippets are not
  rendered, the selects keep their options, no card can be edited, no terminal
  opened and no snippet run, until a server is there again.  `NewestListIsFresh` and
  `ServersConverge` say what is left: a list that was rendered is the stored one, and
  the servers converge unless there are none;
- from "/" a new directory or file is made in the login directory, and a renamed
  entry moved there; `ShownIsWorkedIn` holds of the root for uploads only;
- a change whose connection broke may be made after the next list was shown;
- an error of the statistics leaves the figures of the server before it;
- the answer to a save closes the form, also one that was opened meanwhile; a
  second click before the answer saves twice; a save of an entry that was
  deleted meanwhile creates it again;
- the form for a new entry keeps the group and the way to authenticate of the
  last use (`OpenServerModal`);
- a reconnect of an entry that is no longer listed closes the tab and opens
  none; opening the tab of an entry whose connection has ended only shows it;
- keys, and other pastes, come between the blocks of a paste;
- the dot in the header is drawn by `switchSSHTab` only and may be out of date;
- every box of the broadcast is checked again whenever its tab is entered.

## 6. Not modelled, and the plan

Not modelled: the localisation, markup and style, which are data; the vendored
terminal emulator; the result types of the tools; the remote commands of the
tools and of the statistics and the parsing of their text; key generation, which
is library code.  On the page, the search, the groups, themes, and the copy,
clear and colours of a terminal change nothing that another part reads.  The
contents of remote files are left out of SFTPExplorer, and so are downloads.
Tools takes the list of servers as fetched in one step; PageLists has the calls.

Planned, in this order:

1. **RemoteText**: the contents of files under SFTPExplorer: the truncation before
   a write, two saves at once, the limit of the preview.
2. **Startup** over Lifecycle and Storage: two launches and one data directory.
3. **StatsParse**: the parsing of the statistics as operators, checked against a
   reference over bounded inputs.
