----------------------------- MODULE ClientSocket -----------------------------
(***************************************************************************)
(* One outgoing connection (ClientSocket.cpp): two TCP sockets to the same *)
(* device, a queue of chat messages written one at a time on the main      *)
(* socket, and a queue of files sent one at a time on the file socket      *)
(* (request, reply, data).                                                 *)
(*                                                                         *)
(* Every action is one handler that the io thread runs to its end: a call  *)
(* the controller posts, or the completion of an asynchronous operation.   *)
(* close() cancels the operations in flight, but their handlers still run, *)
(* later, with an error or, when the operation had already completed, with *)
(* success; so a completion here may succeed whatever the socket's state.  *)
(*                                                                         *)
(* Messages and files are numbered in the order they are handed over; the  *)
(* number stands for the object (the code compares shared_ptr identities). *)
(* A file's data is a number of chunks.  A definition marked MUTANT is a   *)
(* plausible bug in the definition after it; nothing uses it.              *)
(***************************************************************************)
EXTENDS Integers, Sequences, FiniteSets

CONSTANTS
  MaxMessages,  \* bound: messages the controller queues
  MaxFiles,     \* bound: files the controller hands over
  MaxBatch,     \* bound: files in one call of sendFiles
  MaxChunks     \* bound: chunks read from one file

ASSUME BoundsAssumption ==
  /\ MaxMessages \in Nat
  /\ MaxFiles \in Nat
  /\ MaxBatch \in Nat
  /\ MaxChunks \in Nat

VARIABLES
  open,         \* m_main and m_file are open (they open and close together)
  connecting,   \* the sockets whose async_connect has not completed
  pending,      \* State::pending: connects still to succeed
  failed,       \* State::failed: one of them failed
  ready,        \* history: the arguments of the calls of onReady
  connected,    \* m_connected
  owned,        \* AppController::m_clients still holds this object
  messages,     \* m_messages: the head is being written
  wire,         \* history: the message of each async_write on m_main, in order
  writes,       \* those in flight, as positions in wire
  lastMessage,  \* number of messages queued so far
  files,        \* m_files
  current,      \* m_current, 0 if none
  sent,         \* chunks of the current file whose write completed
  fileOps,      \* operations in flight on m_file
  lastFile,     \* number of files handed over so far
  out,          \* the transfer events the last handler reported, in order
  notice        \* the last handler reported a notice

connectVars == <<connecting, pending, failed, ready>>
messageVars == <<messages, wire, writes, lastMessage>>
fileVars    == <<files, current, sent, fileOps, lastFile>>
vars == <<open, connecting, pending, failed, ready, connected, owned,
          messages, wire, writes, lastMessage,
          files, current, sent, fileOps, lastFile, out, notice>>

Sockets == {"main", "file"}
Messages == 1..MaxMessages
Files == 1..MaxFiles
OpKinds == {"request", "reply", "chunk"}
Op(kind, f) == [kind |-> kind, file |-> f]
Ops == [kind : OpKinds, file : Files]
Events == [stage : {"progress", "done", "failed"}, file : Files, end : BOOLEAN]
Event(stage, f, end) == [stage |-> stage, file |-> f, end |-> end]

ConnectionType ==
  /\ open \in BOOLEAN
  /\ connecting \in SUBSET Sockets
  /\ pending \in 0..2
  /\ failed \in BOOLEAN
  /\ ready \in Seq(BOOLEAN)
  /\ connected \in BOOLEAN
  /\ owned \in BOOLEAN

MessageType ==
  /\ messages \in Seq(Messages)
  /\ wire \in Seq(Messages)
  /\ writes \in SUBSET (1..Len(wire))
  /\ lastMessage \in 0..MaxMessages

FileType ==
  /\ files \in Seq(Files)
  /\ current \in 0..MaxFiles
  /\ sent \in 0..MaxChunks
  /\ fileOps \in SUBSET Ops
  /\ lastFile \in 0..MaxFiles

ReportType ==
  /\ out \in Seq(Events)
  /\ notice \in BOOLEAN

\* The type invariant.
TypeOK == ConnectionType /\ MessageType /\ FileType /\ ReportType

\* connectTo creates the object and calls connect() in the same handler.
Init ==
  /\ open = TRUE
  /\ connecting = Sockets
  /\ pending = 2
  /\ failed = FALSE
  /\ ready = <<>>
  /\ connected = FALSE
  /\ owned = TRUE
  /\ messages = <<>> /\ wire = <<>> /\ writes = {} /\ lastMessage = 0
  /\ files = <<>> /\ current = 0 /\ sent = 0 /\ fileOps = {} /\ lastFile = 0
  /\ out = <<>> /\ notice = FALSE

-----------------------------------------------------------------------------
\* MUTANT: the current file is reported without asking whether there is one.
ClosedUnchecked(file, events) == Append(events, Event("failed", file, TRUE))

\* MUTANT: m_files is cleared after the report and not before it.
ClosedClearsLate(file, events) ==
  IF file = 0 THEN events ELSE Append(events, Event("failed", file, files = <<>>))

\* What close() reports after `events`: `file`, if there is one, has failed, and
\* the queue behind it is empty by now.
ReportClosed(file, events) ==
  IF file = 0 THEN events ELSE Append(events, Event("failed", file, TRUE))

\* MUTANT: the sockets stay open.
LeaveSockets == UNCHANGED open

CloseSockets == open' = FALSE

\* close() with `file` in m_current, called by a handler that has reported
\* `events` before it.  What is queued is dropped; operations in flight remain.
Close(file, events) ==
  /\ out' = ReportClosed(file, events)
  /\ files' = <<>> /\ current' = 0 /\ sent' = 0
  /\ messages' = <<>>
  /\ connected' = FALSE
  /\ CloseSockets

\* A handler that reports nothing.
Quiet == out' = <<>> /\ notice' = FALSE

\* MUTANT: onOne does not ask.
NeverGaveUp == FALSE

\* MUTANT: onOne also returns when the connection has been closed meanwhile.
GaveUpWhenClosed == failed \/ ~open

\* The other connect has failed already.
GaveUp == failed

\* A connect completes: onOne.
ConnectDone(s, ok) ==
  /\ s \in connecting
  /\ connecting' = connecting \ {s}
  /\ notice' = FALSE
  /\ UNCHANGED <<owned, wire, writes, lastMessage, fileOps, lastFile>>
  /\ \/ /\ GaveUp
        /\ out' = <<>>
        /\ UNCHANGED <<open, pending, failed, ready, connected,
                       messages, files, current, sent>>
     \/ /\ ~GaveUp /\ ~ok
        /\ failed' = TRUE
        /\ Close(current, <<>>)
        /\ ready' = Append(ready, FALSE)
        /\ UNCHANGED pending
     \/ /\ ~GaveUp /\ ok
        /\ pending' = pending - 1
        /\ connected' = (connected \/ pending = 1)
        /\ ready' = IF pending = 1 THEN Append(ready, TRUE) ELSE ready
        /\ out' = <<>>
        /\ UNCHANGED <<open, failed, messages, files, current, sent>>

-----------------------------------------------------------------------------
\* Chat messages.

\* MUTANT: back() instead of front().
WriteLastMessage(q, inFlight) ==
  IF q = <<>> THEN writes' = inFlight /\ UNCHANGED wire
              ELSE /\ wire' = Append(wire, q[Len(q)])
                   /\ writes' = inFlight \cup {Len(wire')}

\* writeNextMessage() on queue q, with `inFlight` the other writes in flight.
WriteNextMessage(q, inFlight) ==
  IF q = <<>> THEN writes' = inFlight /\ UNCHANGED wire
              ELSE /\ wire' = Append(wire, Head(q))
                   /\ writes' = inFlight \cup {Len(wire')}

\* MUTANT: every message starts a write.
AlwaysIdle == TRUE

\* No write is in flight: the queue was empty before this message.
Idle == messages = <<>>

SendMessage(tooLong) ==
  /\ owned
  /\ out' = <<>>
  /\ UNCHANGED <<open, connecting, pending, failed, ready, connected, owned>>
  /\ UNCHANGED fileVars
  /\ \/ /\ ~connected \/ tooLong
        /\ notice' = TRUE
        /\ UNCHANGED messageVars
     \/ /\ connected /\ ~tooLong
        /\ lastMessage < MaxMessages
        /\ lastMessage' = lastMessage + 1
        /\ messages' = Append(messages, lastMessage + 1)
        /\ IF Idle THEN WriteNextMessage(messages', writes)
                   ELSE UNCHANGED <<writes, wire>>
        /\ notice' = FALSE

\* The packet written is no longer the head of the queue: closed in the meantime.
StaleMessage(w) == ~(messages # <<>> /\ Head(messages) = wire[w])

\* The write at position w of wire completes.
MessageWritten(w, ok) ==
  /\ w \in writes
  /\ UNCHANGED <<connecting, pending, failed, ready, owned, lastMessage, fileOps, lastFile>>
  /\ \/ /\ StaleMessage(w)
        /\ writes' = writes \ {w}
        /\ Quiet
        /\ UNCHANGED <<open, connected, messages, wire, files, current, sent>>
     \/ /\ ~StaleMessage(w) /\ ~ok
        /\ writes' = writes \ {w}
        /\ notice' = TRUE
        /\ Close(current, <<>>)
        /\ UNCHANGED wire
     \/ /\ ~StaleMessage(w) /\ ok
        /\ messages' = Tail(messages)
        /\ WriteNextMessage(messages', writes \ {w})
        /\ Quiet
        /\ UNCHANGED <<open, connected, files, current, sent>>

-----------------------------------------------------------------------------
\* Files.

\* The events of the first n files of the queue when none of them can be opened.
Skipped(queue, n) == [i \in 1..n |-> Event("failed", queue[i], i = Len(queue))]

\* startNextFile(), called with `queue` in m_files, `ops` in flight and `events`
\* reported before it.  The files in front that cannot be opened are reported
\* and skipped; `skip` is how many.
StartNextFile(queue, ops, events) ==
  \E skip \in 0..Len(queue) :
    /\ out' = events \o Skipped(queue, skip)
    /\ sent' = 0
    /\ \/ /\ skip = Len(queue)
          /\ files' = <<>> /\ current' = 0 /\ fileOps' = ops
       \/ /\ skip < Len(queue)
          /\ files' = SubSeq(queue, skip + 2, Len(queue))
          /\ current' = queue[skip + 1]
          /\ fileOps' = ops \cup {Op("request", queue[skip + 1])}

SendFiles(n) ==
  /\ owned
  /\ lastFile + n <= MaxFiles
  /\ lastFile' = lastFile + n
  /\ notice' = FALSE
  /\ UNCHANGED <<open, connecting, pending, failed, ready, connected, owned>>
  /\ UNCHANGED messageVars
  /\ LET batch == [i \in 1..n |-> lastFile + i] IN
     \/ /\ ~connected
        /\ out' = <<Event("failed", Head(batch), TRUE)>>
        /\ UNCHANGED <<files, current, sent, fileOps>>
     \/ /\ connected /\ current # 0
        /\ files' = files \o batch
        /\ out' = <<>>
        /\ UNCHANGED <<current, sent, fileOps>>
     \/ /\ connected /\ current = 0
        /\ StartNextFile(files \o batch, fileOps, <<>>)

\* MUTANT: the next file is not started.
FinishWithoutNext(f, ok, ops, events) ==
  /\ out' = Append(events, Event(IF ok THEN "done" ELSE "failed", f, files = <<>>))
  /\ current' = 0 /\ sent' = 0 /\ fileOps' = ops
  /\ UNCHANGED files

\* The last event of file f, then the next file.
FinishFile(f, ok, ops, events) ==
  StartNextFile(files, ops,
    Append(events, Event(IF ok THEN "done" ELSE "failed", f, files = <<>>)))

\* failBatch(): reports the file as the end of the batch, then calls close().
FailBatch(f) == Close(0, <<Event("failed", f, TRUE)>>)

\* sendChunk() with n chunks sent: `more` is whether the read returned data.
SendChunk(f, n, more, ops, events) ==
  \/ /\ more /\ n < MaxChunks
     /\ sent' = n
     /\ fileOps' = ops \cup {Op("chunk", f)}
     /\ out' = events
     /\ UNCHANGED <<files, current>>
  \/ /\ ~more
     /\ FinishFile(f, TRUE, ops, events)

\* MUTANT: a handler never asks whether its file is still current.
NeverStale(f) == FALSE

\* Another file is current, or none: closed in the meantime.
StaleFile(f) == current # f

\* What the three file handlers share: the operation is over, and a handler
\* whose file is not current any more does nothing else.
FileOpOver(op) ==
  /\ op \in fileOps
  /\ notice' = FALSE
  /\ UNCHANGED <<connecting, pending, failed, ready, owned, wire, writes, lastMessage, lastFile>>

IgnoreFileOp(op) ==
  /\ StaleFile(op.file)
  /\ fileOps' = fileOps \ {op}
  /\ out' = <<>>
  /\ UNCHANGED <<open, connected, messages, files, current, sent>>

FailFileOp(op) ==
  /\ ~StaleFile(op.file)
  /\ fileOps' = fileOps \ {op}
  /\ FailBatch(op.file)

RequestWritten(f, ok) ==
  LET op == Op("request", f) IN
  /\ FileOpOver(op)
  /\ \/ IgnoreFileOp(op)
     \/ ~ok /\ FailFileOp(op)
     \/ /\ ok /\ ~StaleFile(f)
        /\ fileOps' = (fileOps \ {op}) \cup {Op("reply", f)}
        /\ out' = <<>>
        /\ UNCHANGED <<open, connected, messages, files, current, sent>>

\* reply: "ack" if the bytes read start with FILE_ACK, "other" for any other
\* bytes, "error" if the read failed.
ReplyRead(f, reply, more) ==
  LET op == Op("reply", f) IN
  /\ FileOpOver(op)
  /\ \/ IgnoreFileOp(op)
     \/ reply = "error" /\ FailFileOp(op)
     \/ /\ reply = "ack" /\ ~StaleFile(f)
        /\ SendChunk(f, 0, more, fileOps \ {op}, <<>>)
        /\ UNCHANGED <<open, connected, messages>>
     \/ /\ reply = "other" /\ ~StaleFile(f)
        /\ FinishFile(f, FALSE, fileOps \ {op}, <<>>)
        /\ UNCHANGED <<open, connected, messages>>

ChunkWritten(f, ok, more) ==
  LET op == Op("chunk", f) IN
  /\ FileOpOver(op)
  /\ \/ IgnoreFileOp(op)
     \/ ~ok /\ FailFileOp(op)
     \/ /\ ok /\ ~StaleFile(f)
        /\ SendChunk(f, sent + 1, more, fileOps \ {op}, <<Event("progress", f, FALSE)>>)
        /\ UNCHANGED <<open, connected, messages>>

-----------------------------------------------------------------------------
\* What the controller does with the connection besides sending.

\* AppController::onPeerClosed: the device's incoming connection was lost.
\* AppController::connectTo: a client that is not connected makes way for a new
\* one.  Either way the object is closed and forgotten; only its handlers keep
\* it alive.
Release ==
  /\ owned
  /\ owned' = FALSE
  /\ Close(current, <<>>)
  /\ notice' = FALSE
  /\ UNCHANGED connectVars
  /\ UNCHANGED <<wire, writes, lastMessage, fileOps, lastFile>>

OnPeerClosed == Release
Replace == ~connected /\ Release

Completion ==
  \/ \E s \in Sockets, ok \in BOOLEAN : ConnectDone(s, ok)
  \/ \E w \in writes, ok \in BOOLEAN : MessageWritten(w, ok)
  \/ \E f \in Files, ok \in BOOLEAN : RequestWritten(f, ok)
  \/ \E f \in Files, reply \in {"ack", "other", "error"}, more \in BOOLEAN :
        ReplyRead(f, reply, more)
  \/ \E f \in Files, ok \in BOOLEAN, more \in BOOLEAN : ChunkWritten(f, ok, more)

Next ==
  \/ Completion
  \/ \E tooLong \in BOOLEAN : SendMessage(tooLong)
  \/ \E n \in 1..MaxBatch : SendFiles(n)
  \/ OnPeerClosed
  \/ Replace

Spec == Init /\ [][Next]_vars

\* A connect succeeds or fails in the end (TCP gives up), and the operations on
\* a closed socket are aborted.  Nothing is assumed of an open one: a device may
\* never read what it is sent, nor answer.
Fairness ==
  /\ WF_vars(\E s \in Sockets, ok \in BOOLEAN : ConnectDone(s, ok))
  /\ WF_vars(~open /\ Completion)

FairSpec == Spec /\ Fairness

-----------------------------------------------------------------------------
\* What the code promises.

\* onReady is called at most once, and exactly once when both connects are over:
\* with true if both sockets connected (ClientSocket.h:23).  A close() between
\* the two completions must not lose the call nor repeat it.
OnReadyOnce ==
  /\ Len(ready) <= 1
  /\ connecting = {} => Len(ready) = 1
  /\ ready = <<TRUE>> <=> pending = 0 /\ ~failed
  /\ ready = <<FALSE>> <=> failed

\* Two writes never overlap on the message socket (ClientSocket.cpp:84), and the
\* file socket has one operation at a time: a second writer would interleave its
\* bytes with the first one's.
OneOperationPerSocket ==
  /\ Cardinality(writes) <= 1
  /\ Cardinality(fileOps) <= 1

\* The messages are written in the order they were queued, each once, none
\* skipped; the queue holds those after the last completed one, so a connection
\* that is still up has written or is about to write every message it accepted.
MessagesInOrder ==
  /\ \A i \in 1..Len(wire) : wire[i] = i
  /\ \A j \in 1..Len(messages) : messages[j] = Len(wire) + j - 1
  /\ connected =>
       lastMessage = IF messages = <<>> THEN Len(wire) ELSE messages[Len(messages)]

\* A connection the controller holds and believes connected has open sockets,
\* and only such a connection has work queued; a file waits only behind another,
\* and a file being sent has an operation in flight that will move it on.
WorkOnlyWhileConnected ==
  /\ owned /\ connected => open
  /\ messages # <<>> => connected /\ open /\ writes # {}
  /\ current # 0 => connected /\ open /\ \E kind \in OpKinds : Op(kind, current) \in fileOps
  /\ files # <<>> => current # 0

\* Once the controller has let go of a connection, none of its handlers that are
\* still to run reports anything: the page would take the event for one of the
\* connection that replaced it, since events carry only the device's address.
SilentWhenReleased == [][~owned => out' = <<>> /\ ~notice']_vars

\* Every busy period of the file queue ends with exactly one batchEnd event.
Contract == INSTANCE TransferContract WITH busy <- current # 0, dropped <- ~owned
ImplementsContract == Contract!Spec

\* onReady is called in the end, whatever happens to the connection meanwhile.
ReadyEventually == <>(ready # <<>>)

\* A connection that is closed or released runs out of operations in flight, and
\* with the last of them goes the last reference that keeps the object alive.
DrainsWhenClosed ==
  []<>((open /\ owned) \/ (connecting = {} /\ writes = {} /\ fileOps = {}))
=============================================================================
