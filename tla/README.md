# Yerelkeşif: a model of its network, its transfers, its page and its life

Yerelkeşif (repository *Yerelnetwork*) is a Windows program that finds other
copies of itself on the local network, connects to them, and exchanges chat
messages and files. This directory holds TLA+ modules that model the program, the
TLC runs that check them on small instances, and TLAPS proofs of what the runs
check, for instances of every size.

All source lines below are under `src/`. Every module translates the code; where the
code and one of its own comments differ, the model follows the code and a run shows
the difference.

## 1. The system

### Threads

The program has two threads. The **UI thread** runs the window, the WebView2 page
and the bridge. The **io thread** runs one `asio::io_context`: every socket, timer
and the controller's tables. They share nothing but two queues: `asio::post` from
the UI to io (`AppController.cpp:81,95,106`) and `webview::dispatch` from io to the UI
(`UiBridge.cpp:181`). A handler on either thread runs to its end, so the grain of the
models is the handler. What makes the program hard is what happens *between* handlers:
completions that arrive after the object was closed, two devices connecting to each
other at the same time, a TCP stream cut anywhere, and a page that acts on what the
controller was a while ago. Only the start and the end of the program, and the log, whose
mutex both threads lock, are of a finer grain.

### Components

| Component | State | Operations | Talks to |
|---|---|---|---|
| `ClientSocket` | two sockets, connect state, `m_connected`, `m_messages`, `m_files`, `m_current` | connect, close, sendMessage, sendFiles and five completion handlers | owned by the controller; TCP to a `PeerConnection` |
| `PeerConnection` | two sockets, two buffers, file being received, `m_lost` | two read loops, two parsers, begin/finish/abort a file, handleLost | created by `ServerSocket`; tells the controller that it was lost |
| `ServerSocket` | two acceptors, `m_pending` (address to half-made `PeerConnection`) | acceptLoop | hands sockets to `PeerConnection` |
| `FinderServer`, `FinderClient` | UDP sockets, local addresses, timer | Find every 3 s, Probe, Match, handleDatagram | tells the controller who answered |
| `AppController` | `m_devices`, `m_clients`, `m_running`, the io thread | onMatch, connectTo, onPeerClosed, addDevice, sendMessage, sendFiles, start, stop | everything |
| Page (`ui/ArayuzHtml.h`) | `state`: devices, selected, files, chats, sending | clicks, drops, dialogs, and a handler for each event | the bridge |
| `UiBridge` | the two queues' ends | bindFunctions, bindEvents, post | page, controller |
| `Text` | none | JsonQuote, ParseJsonStringArray, UTF-8/UTF-16 | page and bridge |
| `MainWindow` | the window's state, the page's place in it | the window procedure, show, minimize, toggleMaximize, close | bridge |
| `NativeFiles` | none | file dialog, drops | bridge |
| `main` | none | WinMain: makes and destroys the others | everything |
| `Logger` | file, mutex, flag | init, writeLog | everybody |

A device holds up to two connections with another: the one it made (its
`ClientSocket`, the other's `PeerConnection`) and the one made to it. Messages and
files of a direction use the connection of that direction. Each connection is two TCP
connections, one for messages (port 9999) and one for files (9998); the accepting
side pairs them by address alone.

### What makes each component correct

* **ClientSocket**: `onReady` once; one operation per socket at a time; messages
  in order and none lost while the connection is up; one end of batch per batch, last;
  no event after the controller has let go; no handler left over for ever.
* **PeerConnection**: a received file is the sent file; a reply answers the file that
  waits for it; a file that ended stays as it is, and no file takes another's path; messages
  independent of how reads cut the stream.
* **Discovery, controller, pairing**: tables agree; no connection open and forgotten;
  devices that can reach each other end up connected both ways.
* **Page and bridge**: the send button is unlocked exactly by the end of the batch that
  locked it; the panel stays with its device; the list of devices follows the controller's;
  a text is the same on both pages; a notice about a device does not contradict the list.
* **Window**: every point the page leaves free resizes the window on that side; the title
  bar shows what the window is.
* **Start, stop and log**: the io thread ends before what it posts to; a start that fails
  halfway is reported and undone; closing the window ends the program; the log
  makes a thread wait for ever at most while its file cannot be opened.

## 2. The modules

| Module | Models | Shape |
|---|---|---|
| `TransferContract` | what a connection promises its owner about batches | abstract specification |
| `ClientSocket` | `ClientSocket.cpp`, and how the controller lets go of it | one action per call and completion handler |
| `ClientSocketProofs` | theorems about it | TLAPS |
| `PeerConnection` | the file half of `PeerConnection.cpp` | actions used by `FileTransfer` |
| `FileTransfer` (`MCFileTransfer`) | sender, TCP and receiver | composes `ClientSocket` (EXTENDS) and `PeerConnection` (INSTANCE) |
| `ParserProofs` | what the receiver's operations and `parseFile()` do, and the parser's invariant | TLAPS |
| `FileTransferProofs` | theorems about the transfer of files, on top of `ParserProofs` and `ClientSocketProofs` | TLAPS |
| `Network` (`MCNetwork`) | discovery, the controller's tables, connections, pairing, on every device | one action per handler and device |
| `NetworkProofs`, `PeerProofs` | theorems about it | TLAPS |
| `Page` | page, both queues, controller, and connections as far as `TransferContract` describes them | one action per click, event and handler |
| `PageProofs` | theorems about it | TLAPS |
| `Text` | quoting and parsing in `Text.cpp` | operators |
| `Chat` (`MCChat`) | a message from page to page, with `parseMain` | pipeline of queues and a byte stream |
| `ChatProofs` | theorems about it, and about the operators of `Text` | TLAPS |
| `Window` | `MainWindow`'s window procedure: states, rectangles, edges | operators and one step (`Sized`) |
| `Application` (`MCApplication`) | the life of a program: `main`, the bridge's construction and destruction, `start`, `stop`, the io thread, the log | one action per stretch of code between two points where the other thread may step in; EXTENDS `Window` |
| `ApplicationProofs` | theorems about it | TLAPS |

Definitions marked `MUTANT` are plausible bugs in the definition after them. No
specification uses them; they are there to show that each property can fail.

### How state and actions correspond to the code

**ClientSocket.** Variables are the members and the `State` that `connect()` shares
with its handlers, and `writes`, `fileOps`, `connecting`: the operations asio has in
flight. `close()` removes none of these, since asio still runs the handlers; a
completion may report success although the socket is closed, because it may have been
queued before. A message or file is its number, which stands for the pointer that
the code compares. `startNextFile()` calls itself for files that cannot be opened; the
model takes the whole recursion in one step (`StartNextFile`, `skip`). The controller
appears as `owned`, `SendMessage`, `SendFiles`, `OnPeerClosed`, `Replace`. History:
`ready`, `wire`, `out`, `notice`.

**PeerConnection / FileTransfer.** TCP is a sequence; a read takes any number of its
parts. A request is two parts so that a read can end inside it; data is counted in
chunks. `parseFile()` is a recursive function over the parts. The path of a file is its
name, a sequence, with the first number appended that makes it free (`UniquePath`); which
paths are taken is read when the file is created, so a file that is removed frees its path.
`DiskFails` names what the disk may fail at: creating a file, writing, or flushing when it
is closed. `main` and
`file` read loops are separate, and after `handleLost()` a read that had completed
before is still handled. A message on the main socket is left to `Chat`. `ReplyCut`, which
only `CutSpec` has, is a read that returns the first bytes of a reply: the code takes that for a
refusal, and what is left of the reply for the next one.

**Network.** `datagrams` only grows: what was sent may arrive any number of times, at
any later time, or never. A link is a `ClientSocket`, reduced to its sockets and
`m_connected`. `Establish` (TCP), `Accept` (the acceptor's handler) and `ConnectDone`
(the connecting side's handler) are separate, per socket. Since the client never reads,
it notices a dead connection only when it writes (`SendFails`). Two faults are counted
together: a program that ends (`Crash`; the system closes its sockets) and a network
that breaks a connection. Numbers of dead links are used again as soon as nothing refers to
them (`Forget`, which goes before other steps: a mere saving of states).

**Page.** `link` is `none` (no entry in `m_clients`), `offline` (entry, not connected),
`idle` or `busy`. A batch on a busy link produces one report per file, the last marked,
which is what `TransferContract` allows; `ConnectionFails` and `OnPeerClosed` report the
remaining batch once, as `close()` does. `TimerExpires` is the five-second timer of
`addDevice()`: the user may have added any device, so it may expire for any, and its guard
is the handler's look into `m_devices`. A notice is an event in the same queue as the list.

**Chat and Text.** Here bytes are modelled, since the properties are about conversions.
JavaScript's own side (`JSON.stringify`, evaluation of a literal) is marked external.
`Bytes` is what a text is made of, and has at least the syntax around it; a byte is a string, `'`
stands for the double quote, and the control characters with a `\u` escape are three, two
of which JavaScript escapes in a shorter way. A half of a surrogate pair, which nobody can
type, is not among them. A loop of the code is a function of the turns it has taken, defined
by recursion on their number, and what one turn does is an operator of its own (`ReadOnce`,
`ItemOnce`, `ParseMainOnce`). As a turn takes a byte at least, there are as many as bytes.

**Window and Application.** `window` and `child` are what Windows keeps; `Outline`,
`Client`, `FitChild` and `HitTest` are the four handlers that must agree about it, each of
which computes its rectangle by itself. A coordinate reaches `HitTest` as the 16-bit word it
is in the message. `ui` is the place the UI thread has reached from `WinMain` to its end:
`construct`, `loop`, inside `start()` (`starting`, `bound`, `listed`, `started`, `failed`), inside `stop()`
(`join`), and in the destructors (`unhook`, `leave`). `io` is that of the io thread; its
handlers are what the other modules are about, and here only fill tables, post, log and may throw.
`opened` is the log's flag. `Relock` says what `std::mutex` does to a thread that locks it
twice, which C++ leaves undefined: one build hangs, another goes on or throws.

## 3. What the runs check

| Run | Properties | Instance | Result |
|---|---|---|---|
| `client_socket` | `TypeOK`, `OnReadyOnce`, `OneOperationPerSocket`, `MessagesInOrder`, `WorkOnlyWhileConnected`, `SilentWhenReleased`, `ImplementsContract`, `ReadyEventually`, `DrainsWhenClosed` | 3 messages, 3 files in batches of 1 or 2, 2 chunks | hold; 1803 states |
| `file_transfer` | `TransferTypeOK`, `ReceivedWhole`, `InStep`, `ReplyIsForCurrent`, `AcceptedInOrder`, `EndsOnce`, `PathsApart`, `EndedIsFinal`, `AnsweredUnlessAborted`, `DoneIsReceived` | files of 2, 0 and 1 chunks, names that collide; creating and writing may fail | hold; 7473 states |
| `network` | `NetworkTypeOK`, `ListedHaveClients`, `OpenLinksAreHeld`, `OneLivePeer` | 2 devices, 2 links at a time, 2 faults | hold; about 55,000 states |
| `network_meet` | `Meet` | 2 devices, 3 links, no faults, calm environment | holds; about 30,000 states |
| `page` | `PageTypeOK`, `LockedByOneBatch`, `PanelShowsTarget`, `ListsAgree`, `UnlockedEventually` | 2 devices, 2 files, 2 events | hold; about 72,000 states |
| `chat` | `ChatTypeOK`, `ShownAsAccepted`, `AcceptedAsTyped`, `ShownOrTold` | 7 texts, 2 typed, any cut | hold; 24,218 states |
| `application` | `ApplicationTypeOK`, `NetworkStopsFirst`, `WaitsOnlyWithoutLog`, `TitleBarAgrees`, `EdgesResize`, `ServedOrTold`, `ClosedEnds` | 3 events, a border of 1, a window partly left of the screen, both outcomes of a second lock | hold; 12,893 states |
| `request_unanswered` | `RequestAnswered` | writing to disk may fail | **violated** |
| `half_file` | `NoHalfFile` | no disk failures | **violated** |
| `flush_unnoticed` | `ReceivedWhole` | flushing may fail | **violated** |
| `reply_cut` | `InStep` | nothing fails; a reply may come in two pieces | **violated** |
| `deaf_connection` | `HeardOrRetried` | 2 devices, 2 links, no faults | **violated** |

### The five disagreements

1. **A request without an answer** (`request_unanswered`). A disk error in the middle of a
   file drops that file at the receiver, which has no way to say so; the sender streams
   on. Whatever data comes next "is no request", and the parser clears the buffer
   (`PeerConnection.cpp:156-157`) including the next file's request if it arrived in the
   same read. The sender waits for its reply without time limit (`ClientSocket.cpp:165`). Its
   batch never ends, and the page's send button stays locked. `AnsweredUnlessAborted`
   in `file_transfer` shows that every request is answered as long as no file has been given up.
2. **A half file is left** (`half_file`). After the main socket's error has been
   handled, a file read that had completed before is parsed all the same and may begin
   a file; the error of the next read returns early (`m_lost`), so nothing removes it,
   although `PeerConnection.cpp:213` says that none is left behind.
3. **A truncated file is reported as received** (`flush_unnoticed`).
   `finishReceive()` closes the stream without asking whether its buffer could be
   written (`PeerConnection.cpp:204`).
4. **A connection that nobody listens to** (`deaf_connection`). A second answer while a
   connection is being made closes it and starts another. The other side may keep
   the first attempt's main socket in `m_pending`, pair it with the second attempt's file
   socket, see the end at once and drop both; the second main socket then waits for a
   partner for ever. The connecting side has two established connections, takes itself
   for connected, and is never retried (`AppController.cpp:135-138`).
5. **An acceptance taken for a refusal** (`reply_cut`). The sender reads the reply with
   one `async_read_some` (`ClientSocket.cpp:167`) and takes what does not begin with all of
   `FILE_ACK` for a refusal (line 174). If TCP delivers its first bytes alone, the sender reports the
   file as failed and sends the next file's request, which the receiver, waiting for the
   accepted file's data, writes into that file. `InStep` holds as long as replies come whole
   (`file_transfer`); eight bytes hardly ever come otherwise on a local network, but nothing
   promises it.

### Bounds, and why they are enough

* `client_socket`: two batches in one connection need three files (one being sent,
  one queued, one handed over meanwhile); three messages give a head, a middle and a
  tail of the queue; two chunks give a first and a further one.
* `file_transfer`: an empty file (finished as soon as it begins), one of one chunk and one
  of two cover the boundaries of `expected`; three in a row let every kind of file have one
  before and one behind it in the same read. Two files are called `a`, the third `a (1)`, and an
  `a` is there beforehand: the number the second `a` gets depends on what became of the first,
  and the third one's own name may be a number given away.
* `network`: two links are an old and a new connection of one direction, or one of each.
  Two faults allow a program to end again after having been started again. The same
  instance with three links (3.5 million states) was explored once without an error; it takes
  too long to be kept.
* `network_meet`: both directions need a link each, and a third is a link being replaced
  before its predecessor has been forgotten.
* `page`: one handler posts two events at most (`OnPeerClosed`), so the queue needs room for
  two. Two devices are needed for events that are not about the selected one.
* `application`: the queue holds a report of the window, one of its successor, and an event
  of the network between or behind them. The screen is a few pixels wide, but has negative
  coordinates, and the window has every corner and edge; `ApplicationProofs` lifts both bounds.
* `chat`: the texts contain quotes, backslashes before letters, line ends, both kinds
  of control characters, brackets, commas, a frame's own prefix, a two-byte character,
  the longest text that fits (with a length of two digits) and one that does not.
  Reads of 1 to 8 bytes cut two frames anywhere.

Deadlock is checked in `network`, `network_meet` and `page`. The other runs end by
design: a closed connection, two messages delivered, or a program that has ended leave
nothing to do. (A program may also hang, in its log: `application` accepts that where
`WaitsOnlyWithoutLog` explains it.)

### Fairness, and why the code justifies it

* `ClientSocket.FairSpec`: a connect completes in the end (TCP gives up), and operations
  on a *closed* socket complete (asio cancels them). Nothing is assumed of an open
  connection: a device may never read or answer.
* `FileTransfer.FairTransfer`: while the connection is up TCP delivers; once one end has
  closed it the other sees an error. The reply that was never sent is not assumed.
* `Network.FairSpec` (used to refute): each thread handles what is ready.
* `Network.MeetSpec` (used for `Meet`) is an assumption about the environment more than
  about the code: `Find` repeats (its timer), datagrams repeated for ever get through once in a
  while, and so do attempts to connect; and `Calm`: the two connects of an attempt
  succeed or fail together and no further answer interferes in between. Without `Calm`
  the property fails, which is what `deaf_connection` shows.
* `Page.Fairness`: both threads work off their queues. `SF` on `SendFiles` and
  `FileEnds`, because they wait for room in a bounded queue of events, which the
  real one is not. That `FileEnds` comes, or the connection closes, is an assumption about
  the other device; `request_unanswered` shows a way it can fail.
* `Application.FairSpec`: a thread that does not hang goes on, both of them, and message boxes are
  answered. Nobody is assumed to close the window, nor a handler to begin.
* `Chat.FairSpec`: queues are worked off, and what is written is read.

## 4. What is proved

`ClientSocketProofs` proves, for all bounds (`BoundsAssumption`: they are natural
numbers, nothing else):

| Theorem | States |
|---|---|
| `TypeCorrect` | `Spec => []TypeOK` |
| `ReadyOnce` | `Spec => []OnReadyOnce` |
| `SerialOperations` | `Spec => []OneOperationPerSocket` |
| `MessageOrder` | `Spec => []MessagesInOrder` |
| `LiveWork` | `Spec => []WorkOnlyWhileConnected` |
| `Silence` | `Spec => SilentWhenReleased` |
| `Implementation` | `Spec => ImplementsContract` (refinement of `TransferContract`) |

All rest on one inductive invariant,
`Inv == TypeOK /\ ConnectionInv /\ MessageInv /\ FileInv`. The properties are not
inductive by themselves. `ConnectionInv` ties `pending`, `failed`, `ready` and
`connecting` together: `onReady` is called once only because `pending` counts exactly the
connects that are still to succeed. It also says that a connection that is closed while the controller
still holds it has failed or has both connects behind it; without that, a late success could
make a closed connection count as connected (after the controller has let go, it can).
`MessageInv` says which packet each write in flight carries: that the handler may tell by
the head of the queue whether it is stale (`ClientSocket.cpp:91`) holds because message
numbers grow along `wire` and the queue. `FileInv` says that a current file has exactly one
operation in flight and no file has two; that is what keeps a stale handler from going on
with another file.

The proof is by actions: lemmas give the effect of `Close`, `StartNextFile`,
`FinishFile`, `SendChunk` and `WriteNextMessage` on each part of `Inv`; one step lemma
per action (`ConnectDoneStep`, `SendMessageStep`, and so on) combines them; `NextStep` and
`InvStep` collect these; the theorems follow by temporal logic. The refinement shows that
`Init` maps to `Init` of the contract and every step, with `Inv`, to one of its
actions or a stutter.

`ParserProofs` and `FileTransferProofs` prove, for any number, size and name of files, any paths in
use beforehand, any way the stream is cut, and any `DiskFails` (`SizeAssumption`, `DiskAssumption`,
`NameAssumption`):

| Theorem | States |
|---|---|
| `TransferTypeCorrect` | `TransferSpec => []TransferTypeOK` |
| `WholeFiles` | `TransferSpec => []ReceivedWhole`, if `"flush"` is not in `DiskFails` |
| `Agreement` | `TransferSpec => []InStep` |
| `RepliesAnswer` | `TransferSpec => []ReplyIsForCurrent` |
| `Order` | `TransferSpec => []AcceptedInOrder` |
| `OneEnd` | `TransferSpec => []EndsOnce` |
| `Paths` | `TransferSpec => []PathsApart` |
| `EndedStays` | `TransferSpec => EndedIsFinal` |
| `TransferImplementation` | `TransferSpec => ImplementsContract` |

The hypothesis of `WholeFiles` is the one the run `flush_unnoticed` shows to be necessary; all the
others hold whatever the disk fails at.

The inductive invariant is `TransferInv`: the sender's own `Inv`, the types, `ParserInv` for the
parser (`AtRest`) and what it has in front of it (`Coming`, the buffer and the stream), `Queue` (files
wait in the order of their numbers), and that what has been reported as done exists. None of
the properties is inductive, for they speak of one end. `ParserInv(p, w)` has these parts:

* `Shape(w)`: a request is the last thing on its way, whole or its second half. So
  nothing can stand behind a request that is thrown away, and nothing is taken for one.
* `Agreed(p, w)`: what has been written of the file being received is its beginning, and `w` starts with
  its continuation, no longer than what is missing, unless it is exactly that and the
  next request. This is what `storeData()` relies on when it decides by a count alone where the file ends.
* `Tie(p, w)`: what the sender is doing (nothing, waiting for a reply, streaming) and what may be on
  its way then. It knows three cases: at rest, no reply and no request is on its way, and the receiver
  lacks exactly the data that is; waiting, either the request is on its way, or its one reply, or
  neither (it was thrown away: the disagreement `request_unanswered`); streaming, the file written is
  the current one or none. It holds only while the sender is up: one that has closed
  leaves what it sent behind.
* `Ordered(p, w)`: files and events come in increasing order, a request is for a file not yet
  seen, only the last file is being written, and every other one has its event, which says what became
  of it. `Bounded` says that the receiver knows no file beyond the sender's current one; that keeps the
  next request new.
* `Whole`, `Apart`: kept files are complete; paths are different.

`parseFile()` is a loop, in the model a recursive function of the turns left. That a turn
(`ParserTurn`) keeps `ParserInv` is proved by the four ways a turn can go (`ParseOnceEffect`: discard
what is no request, wait for the rest of one, answer it, store data); that the loop does, by the
least turn after which it would not hold (`LeastNumber`, from the library's theorem that `<` is
well-founded on numbers). The library's induction rule, which takes an operator, is not needed. The
same lemma gives the least free number in `uniquePath()`. A free number exists because the
paths in use are finitely many and numbered names are all different (`UniquePathFree`).

In `FileTransferProofs` every step of the sender falls under one of five lemmas: a completion that is stale
(`StaleCompletion`) or failed (`FailedCompletion`), a file finished (`SenderFinishes`), the next one
requested (`SenderStarts`), a chunk sent (`SenderStreams`). What they put on the wire keeps the
receiver's part of the invariant by `RequestOnWire` and `ChunkOnWire`. `PeerReadsKeeps` and
`PeerLosesKeeps` are the receiver's steps. `EndedIsFinal` follows from `Grown`, which every turn and so every step keeps.

`NetworkProofs` proves, for any finite set of devices and any natural bounds on links and
faults (`NetworkAssumption`):

| Theorem | States |
|---|---|
| `NetworkTypeCorrect` | `Spec => []NetworkTypeOK` |
| `ListedAgree` | `Spec => []ListedHaveClients` |
| `NoForgottenLink` | `Spec => []OpenLinksAreHeld` |

The inductive invariant is `WorldType /\ Tables /\ Sockets`. `Tables` adds `ClientsMatch` to
the two properties: the client listed for a device is a link to that device, without
which `onPeerClosed()` could close one link and forget another. `Sockets` adds
`SocketsMatch`, the same for the queues of the acceptors, `m_pending` and the
PeerConnections: `Over` looks for a link's sockets only at the device it leads to, so a
link may be forgotten only if no socket is filed elsewhere. `Closed`, `ConnectTo` and
`OnPeerClosed` have lemmas about the tables (`ClosedEffect`, `ReplaceStep`,
`OnPeerClosedStep`); steps that leave the tables or the accepted sockets alone share
`TablesFrame` and `SocketsFrame`; `InvStep` has one step per action.

`PeerProofs` goes on from there to

| Theorem | States |
|---|---|
| `OnePeerAlive` | `Spec => []OneLivePeer` |

`OpenLinksAreHeld` already says that two devices have one open link per direction. That two
`PeerConnection`s with one address are not both alive needs in addition that no socket is in two
of them. `Places` says so, on top of `Inv`: a main socket is in one place only, be it the
acceptor's queue, `m_pending` or a `PeerConnection` (`OnePlace`); one that TCP has yet to establish
is in none (`MadeOnce`); and a `PeerConnection` has the address its main socket comes from
(`PeerAddress`). Four lemmas say what happens to a queue, a table and a set of pairs when a
socket joins, leaves, takes a partner's place or is paired; `AcceptMoves` is the step that moves
one through all three.

`PageProofs` proves, for any devices, finitely many files and any bound on events
(`PageAssumption`):

| Theorem | States |
|---|---|
| `PageTypeCorrect` | `Spec => []PageTypeOK` |
| `ButtonLocked` | `Spec => []LockedByOneBatch` |
| `PanelStays` | `Spec => []PanelShowsTarget` |
| `ListsFollow` | `Spec => []ListsAgree` |

`LockedByOneBatch` needs `LeftWhileBusy`: a connection is busy exactly while files are left to
report, or the last report could come without its mark. It also bounds `left`, since at most one
call is under way. For `ListsAgree` the page's list after `n` events (`After`) is followed
through what can happen to a queue: one event is appended (`AfterNext`), the first is
removed; the notice of a timer is appended only behind a queue that ends with the device not listed.

`ApplicationProofs` proves, for any rectangles and border of `WindowAssumption`, any outcome of a
second lock and any bound on events (`ApplicationAssumption`):

| Theorem | States |
|---|---|
| `ApplicationTypeCorrect` | `Spec => []ApplicationTypeOK` |
| `NetworkIsFirst` | `Spec => []NetworkStopsFirst` |
| `LogIsSafeOnceOpened` | `Spec => []WaitsOnlyWithoutLog` |
| `TitleBarFollows` | `Spec => []TitleBarAgrees` |
| `EdgesAlwaysResize` | `Spec => []EdgesResize` |

The invariant adds `ThreadsInStep` (what the io thread, the ports and the tables may be at each
place of the UI thread) and `PageFits` (the page lies where `FitChild()` would put it now,
although it is placed only when the state changes). `EdgesResize` then is arithmetic over the
four rectangles, with the lemma `ShortWord` that a 16-bit word is read back as it was.

`ChatProofs` proves, for any set of texts over any set of bytes that has the syntax
(`SyntaxAssumption`), any address, any limits (`ChatAssumption`) that leave room for the header
of every message the sender accepts (`HeaderAssumption`; 1 MB and 1024 bytes in
`Protocol.h:28-29`), and any number of messages:

| Theorem | States |
|---|---|
| `ChatTypes` | `Spec => []ChatTypeOK` |
| `ChatShown` | `Spec => []ShownAsAccepted` |
| `ChatAccepted` | `Spec => []AcceptedAsTyped` |

Here the properties speak of what loops compute, so most of the proof is about the loops. All
follow one scheme: what the loop has after `k` turns is stated, and holds for all `k` because
there is no least turn at which it fails (`Upward`, again from the well-foundedness of `<`; from a
step-by-step account of the turns, `TurnsExist` and `LastTurn` give the function and its last value).

* *Quoting.* `Undone(e, c)`: wherever the bytes `e` stand, one turn of `ReadJsonString` reads
  `c` and moves behind them. It holds of what `JsonQuote` makes of each byte and of what JavaScript does
  (`EscapeUndone`, `JsEscapeUndone`). Laid one after the other and closed by a quote, such pieces are read back as
  the text (`ArgumentsRead`, `EvaluatedIs`); none has an end of line in it, which a literal must not have.
* *Numbers.* `DecimalRead`: `ParseNumber` reads what `std::to_string` writes, by the least
  number for which it would not.
* *Frames.* `FrameTaken` and `FrameAwaited` say what a turn of `parseMain` does with a buffer that starts with
  a whole frame, or with a part of one: takes exactly it, or leaves everything. The colon
  that ends the length is the first behind the prefix since a number has none; a text may have as many
  as it likes. `ParseFinds` goes from there to any number of frames cut anywhere: if `view` is
  what has arrived of the frames of some texts, `ParseMain(view)` gives the texts that have arrived
  as a whole and leaves the beginning of the next frame.

The inductive invariant `ChatInv` says where the messages are. There are `posted`
(in calls for the page), `ahead` (not parsed yet) and `lost` such that what is accepted is what is shown, then
`posted`, then `ahead`; and the bytes in the buffer, in the stream and in the queue, then those
`lost`, are the frames of `ahead`. Only a closed connection has lost any. In the same way what is accepted and a `rest`
are what was typed and fits. `ShownAsAccepted` is not inductive: it only says which
messages the parser would find if it were given everything at once, from which nothing follows about the bytes that
are left when it is given less. In `ChatInv` a read just moves the border
between `posted` and `ahead`, and a close moves bytes into `lost`. `ParseFinds` is used twice: for the
step `ReadMain`, and to show that the invariant implies the property.

What is not proved: liveness (`ReadyEventually`, `DrainsWhenClosed`, `DoneIsReceived`,
`AnsweredUnlessAborted`, `Meet`, `UnlockedEventually`, `ShownOrTold`, `ServedOrTold`, `ClosedEnds`), for the prover has neither fairness nor `ENABLED`; TLC checks it.
Every invariant of a run that is expected to pass is a theorem. Not a theorem either: that the instances of the
violated runs are the smallest.

## 5. What is not modelled, and why

* Painting, colours, shadows, the browser's settings (`configureBrowser`), and moving or resizing
  the window once Windows has been told which edge: calls of Windows and WebView2. `Window`
  has the outline and the inset of a maximized window as the handlers compute them, and claims
  nothing about what Windows makes of them on several monitors.
* `NativeFiles`: what comes of a dialog or a drop is an input of `Page`. A selection that does not
  fit into the dialog's buffer yields an empty list, which is one of these inputs.
* The page's dialog for addresses, its ticker, progress bars and wording. Names of devices.
  `SafeFileName` (which characters a name loses).
* That the last file's result decides for the whole batch (`ArayuzHtml.h:673`) is in
  `TransferReported`; no document says otherwise, so no property does.
* The end of the io thread after an exception: it is in `Application` (`HandlerThrows`), and nobody
  but the log is told. The page goes on as if the network were there; the code promises nothing else.
* A second copy of the program on the same machine: whether its ports can be opened is a
  nondeterministic choice of `OpenPorts` and `StartFails`. `Crash` and `Restart` in `Network` are the
  view other devices have of a program's end.
* Files that change while they are sent, and a device's datagrams to itself (`m_localIps`), taken to
  be filtered: see the notes of the hazards in `PROJECT.json`.
* UTF-8/UTF-16 conversion: system calls.

## 6. What is left

1. `FileTransfer` composed with `Page` in place of the abstract link, so that a request without
   an answer is seen to lock the button. The product of the two state spaces is too large for a
   run as it is; `ImplementsContract` and `Page`'s use of the same contract stand in for it.
2. `Network` with a third device (three links were explored once), and a device that takes its own
   datagrams for another's after an address change.
