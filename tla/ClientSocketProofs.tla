-------------------------- MODULE ClientSocketProofs --------------------------
(***************************************************************************)
(* ClientSocket for every bound: the safety properties that the runs check *)
(* on a small instance follow from the inductive invariant Inv below, and  *)
(* every step implements a step of TransferContract or changes none of its *)
(* variables.                                                              *)
(***************************************************************************)
EXTENDS ClientSocket, SequenceTheorems, FiniteSetTheorems, TLAPS

\* The two connects and the state they leave: while none has failed, `pending`
\* counts those in flight, and a connection nobody closed is still open.
ConnectionInv ==
  /\ ~failed => \/ pending = 2 /\ connecting = Sockets
                \/ pending = 1 /\ connecting \in {{"main"}, {"file"}}
                \/ pending = 0 /\ connecting = {}
  /\ ready = IF failed THEN <<FALSE>> ELSE IF pending = 0 THEN <<TRUE>> ELSE <<>>
  /\ connected => pending = 0 /\ ~failed
  /\ open => owned
  /\ owned /\ ~open => ~connected /\ (failed \/ pending = 0)

\* The queue continues what was written, and its head is the one write in flight.
MessageInv ==
  /\ \A i \in 1..Len(wire) : wire[i] = i
  /\ \A j \in 1..Len(messages) : messages[j] = Len(wire) + j - 1
  /\ messages # <<>> => connected /\ open /\ Len(wire) > 0 /\ writes = {Len(wire)}
  /\ open /\ messages = <<>> => writes = {}
  /\ \A v, w \in writes : v = w
  /\ connected => lastMessage = IF messages = <<>> THEN Len(wire)
                                ELSE Len(wire) + Len(messages) - 1
  /\ pending # 0 => wire = <<>> /\ lastMessage = 0

\* A current file has the one operation in flight; files wait only behind it.
FileInv ==
  /\ current # 0 => /\ connected /\ open
                    /\ \E kind \in OpKinds : fileOps = {Op(kind, current)}
  /\ current = 0 => files = <<>>
  /\ open /\ current = 0 => fileOps = {}
  /\ \A a, b \in fileOps : a = b

Inv == TypeOK /\ ConnectionInv /\ MessageInv /\ FileInv

\* The initial state satisfies the invariant.
LEMMA InitInv == Init => Inv
  <1>. SUFFICES ASSUME Init PROVE Inv
    OBVIOUS
  <1>. USE BoundsAssumption DEF Init
  <1>1. TypeOK
    <2>1. ConnectionType
      <3>1. open \in BOOLEAN /\ failed \in BOOLEAN /\ connected \in BOOLEAN /\ owned \in BOOLEAN
        OBVIOUS
      <3>2. connecting \in SUBSET Sockets /\ pending \in 0..2 /\ ready \in Seq(BOOLEAN)
        OBVIOUS
      <3>. QED BY <3>1, <3>2 DEF ConnectionType
    <2>2. MessageType
      BY DEF MessageType, BoundsAssumption
    <2>3. FileType
      BY DEF FileType, BoundsAssumption
    <2>4. ReportType
      <3>1. out \in Seq(Events)
        OBVIOUS
      <3>2. notice \in BOOLEAN
        OBVIOUS
      <3>. QED BY <3>1, <3>2 DEF ReportType
    <2>. QED BY <2>1, <2>2, <2>3, <2>4 DEF TypeOK
  <1>2. ConnectionInv
    BY DEF ConnectionInv
  <1>3. MessageInv
    BY DEF MessageInv
  <1>4. FileInv
    BY DEF FileInv
  <1>. QED BY <1>1, <1>2, <1>3, <1>4 DEF Inv

-----------------------------------------------------------------------------
\* What close() leaves: nothing queued, nothing current, disconnected; and it
\* reports at most one event, about the file that was current.
LEMMA CloseEffect ==
  ASSUME NEW file \in 0..MaxFiles, Close(file, <<>>)
  PROVE  /\ files' = <<>> /\ current' = 0 /\ sent' = 0 /\ messages' = <<>>
         /\ connected' = FALSE /\ open' = FALSE
         /\ file = 0 => out' = <<>>
         /\ file # 0 => out' = <<Event("failed", file, TRUE)>>
         /\ out' \in Seq(Events)
  <1>. DEFINE e == Event("failed", file, TRUE)
  <1>0. out' = IF file = 0 THEN <<>> ELSE Append(<<>>, e)
    BY DEF Close, ReportClosed
  <1>. HIDE DEF e
  <1>1. file = 0 => out' = <<>>
    BY <1>0
  <1>2. file # 0 => out' = <<e>>
    BY <1>0
  <1>. USE DEF e
  <1>3. out' \in Seq(Events)
    <2>1. CASE file = 0
      BY <1>1, <2>1
    <2>2. CASE file # 0
      <3>1. file \in Files
        BY <2>2, BoundsAssumption DEF Files, BoundsAssumption
      <3>2. <<Event("failed", file, TRUE)>> \in Seq(Events)
        BY <3>1 DEF Event, Events
      <3>3. out' = <<Event("failed", file, TRUE)>>
        BY <1>2, <2>2
      <3>. QED BY <3>2, <3>3 DEF Event
    <2>. QED BY <2>1, <2>2
  <1>4. files' = <<>> /\ current' = 0 /\ sent' = 0 /\ messages' = <<>>
    BY DEF Close
  <1>5. connected' = FALSE /\ open' = FALSE
    BY DEF Close, CloseSockets
  <1>. QED BY <1>1, <1>2, <1>3, <1>4, <1>5

\* The same of failBatch().
LEMMA FailBatchEffect ==
  ASSUME NEW f \in Files, FailBatch(f)
  PROVE  /\ files' = <<>> /\ current' = 0 /\ sent' = 0 /\ messages' = <<>>
         /\ connected' = FALSE /\ open' = FALSE
         /\ out' = <<Event("failed", f, TRUE)>>
         /\ out' \in Seq(Events)
  <1>1. out' = <<Event("failed", f, TRUE)>>
    BY DEF FailBatch, Close, ReportClosed
  <1>2. out' \in Seq(Events)
    BY <1>1 DEF Event, Events
  <1>3. files' = <<>> /\ current' = 0 /\ sent' = 0 /\ messages' = <<>>
    BY DEF FailBatch, Close
  <1>4. connected' = FALSE /\ open' = FALSE
    BY DEF FailBatch, Close, CloseSockets
  <1>. QED BY <1>1, <1>2, <1>3, <1>4

\* The events of skipped files: one per file, an end only with the queue's last.
LEMMA SkippedEffect ==
  ASSUME NEW queue \in Seq(Files), NEW n \in 0..Len(queue)
  PROVE  /\ Skipped(queue, n) \in Seq(Events)
         /\ Len(Skipped(queue, n)) = n
         /\ \A i \in 1..n : Skipped(queue, n)[i].end <=> i = Len(queue)
         /\ \A i \in 1..n : Skipped(queue, n)[i].stage = "failed"
  <1>1. \A i \in 1..n : queue[i] \in Files
    OBVIOUS
  <1>2. \A i \in 1..n : Event("failed", queue[i], i = Len(queue)) \in Events
    BY <1>1 DEF Event, Events
  <1>3. Skipped(queue, n) \in Seq(Events)
    BY <1>1 DEF Skipped, Event, Events
  <1>4. Len(Skipped(queue, n)) = n
    BY DEF Skipped
  <1>5. ASSUME NEW i \in 1..n
        PROVE  /\ Skipped(queue, n)[i].end <=> i = Len(queue)
               /\ Skipped(queue, n)[i].stage = "failed"
    BY DEF Skipped, Event
  <1>. QED BY <1>3, <1>4, <1>5

\* startNextFile() with nothing in flight on the file socket: what it leaves and
\* what it reports.  If a file is current afterwards no event ends the batch; if
\* the queue has been used up, the event of its last file does.
LEMMA StartNextFileEffect ==
  ASSUME NEW queue \in Seq(Files), NEW events \in Seq(Events),
         StartNextFile(queue, {}, events)
  PROVE  /\ files' \in Seq(Files) /\ current' \in 0..MaxFiles /\ sent' = 0
         /\ out' \in Seq(Events)
         /\ current' = 0 => files' = <<>> /\ fileOps' = {}
         /\ current' # 0 => current' \in Files /\ fileOps' = {Op("request", current')}
         /\ queue = <<>> => current' = 0 /\ out' = events
         /\ queue # <<>> /\ Contract!NoEnd(events) /\ current' # 0 => Contract!NoEnd(out')
         /\ queue # <<>> /\ Contract!NoEnd(events) /\ current' = 0 => Contract!OneEnd(out')
  <1>1. PICK skip \in 0..Len(queue) :
          /\ out' = events \o Skipped(queue, skip)
          /\ sent' = 0
          /\ \/ /\ skip = Len(queue)
                /\ files' = <<>> /\ current' = 0 /\ fileOps' = {}
             \/ /\ skip < Len(queue)
                /\ files' = SubSeq(queue, skip + 2, Len(queue))
                /\ current' = queue[skip + 1]
                /\ fileOps' = {} \cup {Op("request", queue[skip + 1])}
    BY DEF StartNextFile
  <1>2. /\ Skipped(queue, skip) \in Seq(Events)
        /\ Len(Skipped(queue, skip)) = skip
        /\ \A i \in 1..skip : Skipped(queue, skip)[i].end <=> i = Len(queue)
        /\ \A i \in 1..skip : Skipped(queue, skip)[i].stage = "failed"
    BY SkippedEffect
  <1>3. /\ out' \in Seq(Events)
        /\ Len(out') = Len(events) + skip
        /\ \A i \in 1..Len(events) + skip :
             out'[i] = IF i <= Len(events) THEN events[i]
                       ELSE Skipped(queue, skip)[i - Len(events)]
    <2>. DEFINE extra == Skipped(queue, skip)
    <2>1. out' = events \o extra /\ extra \in Seq(Events) /\ Len(extra) = skip
      BY <1>1, <1>2
    <2>. HIDE DEF extra
    <2>2. /\ out' \in Seq(Events)
          /\ Len(out') = Len(events) + skip
          /\ \A i \in 1..Len(events) + skip :
               out'[i] = IF i <= Len(events) THEN events[i] ELSE extra[i - Len(events)]
      BY <2>1, ConcatProperties
    <2>. USE DEF extra
    <2>. QED BY <2>2
  <1>4. CASE skip = Len(queue)
    <2>1. files' = <<>> /\ current' = 0 /\ fileOps' = {}
      BY <1>1, <1>4
    <2>2. queue = <<>> => out' = events
      BY <1>1, <1>2, <1>4, ConcatEmptySeq
    <2>3. ASSUME queue # <<>>, Contract!NoEnd(events)
          PROVE  Contract!OneEnd(out')
      <3>1. Len(queue) > 0 /\ Len(out') = Len(events) + Len(queue)
        BY <1>3, <1>4, <2>3, EmptySeq
      <3>2. out'[Len(out')] = Skipped(queue, skip)[Len(queue)]
        BY <1>3, <1>4, <3>1
      <3>3. out'[Len(out')].end /\ out'[Len(out')].stage = "failed"
        BY <1>2, <1>4, <3>1, <3>2
      <3>4. ASSUME NEW i \in 1..Len(out') - 1 PROVE ~out'[i].end
        <4>1. CASE i <= Len(events)
          <5>1. i \in 1..Len(events) /\ i \in 1..Len(events) + skip
            BY <1>4, <3>1, <4>1
          <5>2. out'[i] = events[i]
            BY <1>3, <5>1
          <5>3. ~events[i].end
            BY <2>3, <5>1 DEF Contract!NoEnd
          <5>. QED BY <5>2, <5>3
        <4>2. CASE i > Len(events)
          <5>1. i - Len(events) \in 1..skip /\ i - Len(events) # Len(queue)
            BY <1>4, <3>1, <4>2
          <5>. QED BY <1>2, <1>3, <3>1, <4>2, <5>1
        <4>. QED BY <4>1, <4>2
      <3>. QED BY <3>1, <3>3, <3>4 DEF Contract!OneEnd
    <2>. QED BY <1>1, <1>3, <2>1, <2>2, <2>3, BoundsAssumption DEF BoundsAssumption
  <1>5. CASE skip < Len(queue)
    <2>1. /\ files' = SubSeq(queue, skip + 2, Len(queue))
          /\ current' = queue[skip + 1]
          /\ fileOps' = {Op("request", queue[skip + 1])}
      BY <1>1, <1>5
    <2>2. files' \in Seq(Files)
      BY <2>1, SubSeqProperties
    <2>3. current' \in Files
      BY <1>5, <2>1
    <2>4. current' \in 0..MaxFiles /\ current' # 0
      BY <2>3, BoundsAssumption DEF Files, BoundsAssumption
    <2>5. queue # <<>>
      BY <1>5
    <2>6. ASSUME Contract!NoEnd(events)
          PROVE  Contract!NoEnd(out')
      <3>1. ASSUME NEW i \in 1..Len(out') PROVE ~out'[i].end
        <4>1. CASE i <= Len(events)
          BY <1>3, <2>6, <4>1 DEF Contract!NoEnd
        <4>2. CASE i > Len(events)
          <5>1. i - Len(events) \in 1..skip /\ i - Len(events) # Len(queue)
            BY <1>3, <1>5, <4>2
          <5>2. out'[i] = Skipped(queue, skip)[i - Len(events)]
            BY <1>3, <4>2
          <5>. QED BY <1>2, <5>1, <5>2
        <4>. QED BY <4>1, <4>2
      <3>. QED BY <3>1 DEF Contract!NoEnd
    <2>. QED BY <1>1, <1>3, <2>1, <2>2, <2>3, <2>4, <2>5, <2>6
  <1>. QED BY <1>4, <1>5

\* finishFile() with no other operation in flight: either the next file is
\* current and the batch goes on, or nothing is left and the batch has ended.
LEMMA FinishFileEffect ==
  ASSUME files \in Seq(Files), NEW f \in Files, NEW ok \in BOOLEAN,
         NEW events \in Seq(Events), Contract!NoEnd(events),
         FinishFile(f, ok, {}, events)
  PROVE  /\ files' \in Seq(Files) /\ current' \in 0..MaxFiles /\ sent' = 0
         /\ out' \in Seq(Events)
         /\ current' = 0 => files' = <<>> /\ fileOps' = {} /\ Contract!OneEnd(out')
         /\ current' # 0 => /\ current' \in Files /\ fileOps' = {Op("request", current')}
                            /\ Contract!NoEnd(out')
  <1>. DEFINE e == Event(IF ok THEN "done" ELSE "failed", f, files = <<>>)
              done == Append(events, e)
  <1>1. e \in Events
    BY DEF Event, Events
  <1>2. /\ e.end <=> files = <<>>
        /\ e.stage \in {"done", "failed"}
    BY DEF Event
  <1>3. StartNextFile(files, {}, done)
    BY DEF FinishFile
  <1>. HIDE DEF e
  <1>4. /\ done \in Seq(Events)
        /\ Len(done) = Len(events) + 1
        /\ \A i \in 1..Len(events) : done[i] = events[i]
        /\ done[Len(events) + 1] = e
    BY <1>1
  <1>. HIDE DEF done
  <1>5. files = <<>> => Contract!OneEnd(done)
    BY <1>2, <1>4 DEF Contract!OneEnd, Contract!NoEnd
  <1>6. files # <<>> => Contract!NoEnd(done)
    BY <1>2, <1>4 DEF Contract!NoEnd
  <1>. QED BY <1>3, <1>4, <1>5, <1>6, StartNextFileEffect

\* sendChunk() with no other operation in flight, for the current file.
LEMMA SendChunkEffect ==
  ASSUME files \in Seq(Files), NEW f \in Files, current = f, NEW n \in Nat,
         NEW more \in BOOLEAN, NEW events \in Seq(Events), Contract!NoEnd(events),
         SendChunk(f, n, more, {}, events)
  PROVE  /\ files' \in Seq(Files) /\ current' \in 0..MaxFiles /\ sent' \in 0..MaxChunks
         /\ out' \in Seq(Events)
         /\ current' = 0 => files' = <<>> /\ fileOps' = {} /\ Contract!OneEnd(out')
         /\ current' # 0 => /\ current' \in Files
                            /\ \E kind \in OpKinds : fileOps' = {Op(kind, current')}
                            /\ Contract!NoEnd(out')
  <1>. USE BoundsAssumption DEF BoundsAssumption
  <1>1. CASE more /\ n < MaxChunks /\ sent' = n /\ fileOps' = {} \cup {Op("chunk", f)}
             /\ out' = events /\ UNCHANGED <<files, current>>
    <2>1. fileOps' = {Op("chunk", current')} /\ "chunk" \in OpKinds
      BY <1>1 DEF OpKinds
    <2>2. current' \in Files /\ current' # 0 /\ current' \in 0..MaxFiles
      BY <1>1 DEF Files
    <2>3. sent' \in 0..MaxChunks
      BY <1>1
    <2>. QED BY <1>1, <2>1, <2>2, <2>3
  <1>2. CASE FinishFile(f, TRUE, {}, events)
    <2>1. "request" \in OpKinds
      BY DEF OpKinds
    <2>2. sent' = 0 => sent' \in 0..MaxChunks
      OBVIOUS
    <2>. QED BY <1>2, <2>1, <2>2, FinishFileEffect
  <1>. QED BY <1>1, <1>2 DEF SendChunk

-----------------------------------------------------------------------------
\* What every step of Next must give: the invariant again, a step of the contract,
\* and silence once the connection has been released.
Preserved == Inv' /\ Contract!Next /\ (~owned => out' = <<>> /\ ~notice')

\* An operation of the current file is the only one, on an open connection.
LEMMA CurrentOp ==
  ASSUME Inv, NEW op \in Ops, op \in fileOps, ~StaleFile(op.file)
  PROVE  /\ current = op.file /\ current # 0 /\ current \in Files
         /\ connected /\ open /\ owned
         /\ fileOps = {op} /\ fileOps \ {op} = {}
  <1>1. current = op.file /\ op.file \in Files
    BY DEF StaleFile, Ops
  <1>2. current # 0
    BY <1>1, BoundsAssumption DEF Files, BoundsAssumption
  <1>3. connected /\ open /\ owned
    BY <1>2 DEF Inv, FileInv, ConnectionInv
  <1>4. \A a, b \in fileOps : a = b
    BY DEF Inv, FileInv
  <1>5. fileOps = {op}
    BY <1>4
  <1>. QED BY <1>1, <1>2, <1>3, <1>5

\* A step that leaves the connection and message variables alone keeps what is
\* said of them.
LEMMA ConnectionFrame ==
  ASSUME Inv, UNCHANGED <<open, connecting, pending, failed, ready, connected, owned>>
  PROVE  ConnectionType' /\ ConnectionInv'
  BY DEF Inv, TypeOK, ConnectionType, ConnectionInv

LEMMA MessageFrame ==
  ASSUME Inv, UNCHANGED <<open, pending, connected>>, UNCHANGED messageVars
  PROVE  MessageType' /\ MessageInv'
  BY DEF Inv, TypeOK, MessageType, MessageInv, messageVars

LEMMA FileFrame ==
  ASSUME Inv, UNCHANGED <<open, connected>>, UNCHANGED fileVars
  PROVE  FileType' /\ FileInv'
  BY DEF Inv, TypeOK, FileType, FileInv, fileVars

\* A connection that is up may be closed: nothing said of it is disturbed.
LEMMA ConnectionClosed ==
  ASSUME Inv, connected, connected' = FALSE, open' = FALSE,
         UNCHANGED <<connecting, pending, failed, ready, owned>>
  PROVE  ConnectionType' /\ ConnectionInv'
  <1>1. ConnectionType'
    <2>1. open' \in BOOLEAN /\ connected' \in BOOLEAN
      OBVIOUS
    <2>2. /\ connecting' \in SUBSET Sockets /\ pending' \in 0..2 /\ failed' \in BOOLEAN
          /\ ready' \in Seq(BOOLEAN) /\ owned' \in BOOLEAN
      BY DEF Inv, TypeOK, ConnectionType
    <2>. QED BY <2>1, <2>2 DEF ConnectionType
  <1>2. ConnectionInv'
    BY DEF Inv, ConnectionInv
  <1>. QED BY <1>1, <1>2

\* Closing drops the message queue; what is in flight and what has been written
\* stay.
LEMMA MessagesDropped ==
  ASSUME Inv, messages' = <<>>, connected' = FALSE, open' = FALSE,
         writes' \subseteq writes, UNCHANGED <<wire, lastMessage>>,
         pending' # 0 => pending # 0
  PROVE  MessageType' /\ MessageInv'
  <1>1. MessageType'
    BY DEF Inv, TypeOK, MessageType
  <1>2. MessageInv'
    BY DEF Inv, TypeOK, MessageType, MessageInv
  <1>. QED BY <1>1, <1>2

\* Closing drops the file queue and the current file.
LEMMA FilesDropped ==
  ASSUME Inv, files' = <<>>, current' = 0, sent' = 0, open' = FALSE,
         fileOps' \subseteq fileOps, UNCHANGED lastFile
  PROVE  FileType' /\ FileInv'
  <1>1. FileType'
    BY BoundsAssumption DEF Inv, TypeOK, FileType, BoundsAssumption
  <1>2. FileInv'
    BY DEF Inv, FileInv
  <1>. QED BY <1>1, <1>2

-----------------------------------------------------------------------------
\* The handlers of the file socket.

\* A handler that finds its file gone.
LEMMA IgnoreFileOpStep ==
  ASSUME Inv, NEW op \in Ops, FileOpOver(op), IgnoreFileOp(op)
  PROVE  Preserved
  <1>. USE DEF FileOpOver, IgnoreFileOp
  <1>1. ConnectionType' /\ ConnectionInv'
    BY ConnectionFrame
  <1>2. MessageType' /\ MessageInv'
    BY MessageFrame DEF messageVars
  <1>3. FileType'
    BY DEF Inv, TypeOK, FileType
  <1>4. FileInv'
    <2>1. current # 0 => fileOps' = fileOps \ {op} /\ fileOps' = fileOps
      BY DEF Inv, FileInv, StaleFile, Op
    <2>. QED BY <2>1 DEF Inv, FileInv
  <1>5. ReportType'
    <2>1. out' \in Seq(Events)
      OBVIOUS
    <2>2. notice' \in BOOLEAN
      OBVIOUS
    <2>. QED BY <2>1, <2>2 DEF ReportType
  <1>6. Contract!Next
    BY DEF Contract!Next, Contract!Work, Contract!Rest, Contract!NoEnd
  <1>. QED BY <1>1, <1>2, <1>3, <1>4, <1>5, <1>6 DEF Preserved, Inv, TypeOK

\* A handler that fails the batch and closes the connection.
LEMMA FailFileOpStep ==
  ASSUME Inv, NEW op \in Ops, FileOpOver(op), FailFileOp(op)
  PROVE  Preserved
  <1>. USE DEF FileOpOver, FailFileOp
  <1>1. /\ current = op.file /\ current # 0 /\ current \in Files
        /\ connected /\ open /\ owned
    BY CurrentOp
  <1>2. /\ files' = <<>> /\ current' = 0 /\ sent' = 0 /\ messages' = <<>>
        /\ connected' = FALSE /\ open' = FALSE
        /\ out' = <<Event("failed", current, TRUE)>>
        /\ out' \in Seq(Events)
    BY <1>1, FailBatchEffect
  <1>3. ConnectionType' /\ ConnectionInv'
    BY <1>1, <1>2, ConnectionClosed
  <1>4. MessageType' /\ MessageInv'
    BY <1>2, MessagesDropped
  <1>5. FileType' /\ FileInv'
    BY <1>2, FilesDropped
  <1>6. ReportType'
    <2>1. notice' \in BOOLEAN
      OBVIOUS
    <2>. QED BY <1>2, <2>1 DEF ReportType
  <1>7. Contract!OneEnd(out')
    BY <1>2 DEF Contract!OneEnd, Event
  <1>8. Contract!Next
    BY <1>1, <1>2, <1>7 DEF Contract!Next, Contract!Finish
  <1>. QED BY <1>1, <1>3, <1>4, <1>5, <1>6, <1>8 DEF Preserved, Inv, TypeOK

\* A handler that goes on to the next operation, of its file or of the next one,
\* or ends the batch.
LEMMA AdvanceStep ==
  ASSUME Inv, NEW op \in Ops, FileOpOver(op), ~StaleFile(op.file),
         UNCHANGED <<open, connected, messages>>,
         files' \in Seq(Files), current' \in 0..MaxFiles, sent' \in 0..MaxChunks,
         out' \in Seq(Events),
         current' = 0 => files' = <<>> /\ fileOps' = {} /\ Contract!OneEnd(out'),
         current' # 0 => /\ current' \in Files
                         /\ \E kind \in OpKinds : fileOps' = {Op(kind, current')}
                         /\ Contract!NoEnd(out')
  PROVE  Preserved
  <1>. USE DEF FileOpOver
  <1>1. current # 0 /\ connected /\ open /\ owned
    BY CurrentOp
  <1>2. ConnectionType' /\ ConnectionInv'
    BY ConnectionFrame
  <1>3. MessageType' /\ MessageInv'
    BY MessageFrame DEF messageVars
  <1>4. FileType'
    <2>1. fileOps' \in SUBSET Ops
      BY DEF Ops, Op
    <2>. QED BY <2>1 DEF Inv, TypeOK, FileType
  <1>5. FileInv'
    <2>1. current' # 0 => connected' /\ open' /\ \E kind \in OpKinds : fileOps' = {Op(kind, current')}
      BY <1>1
    <2>2. \A a, b \in fileOps' : a = b
      OBVIOUS
    <2>. QED BY <2>1, <2>2 DEF FileInv
  <1>6. ReportType'
    <2>1. notice' \in BOOLEAN
      OBVIOUS
    <2>. QED BY <2>1 DEF ReportType
  <1>7. Contract!Next
    BY <1>1 DEF Contract!Next, Contract!Work, Contract!Finish
  <1>. QED BY <1>1, <1>2, <1>3, <1>4, <1>5, <1>6, <1>7 DEF Preserved, Inv, TypeOK

\* The request has been written.
LEMMA RequestWrittenStep ==
  ASSUME Inv, NEW f \in Files, NEW ok \in BOOLEAN, RequestWritten(f, ok)
  PROVE  Preserved
  <1>. DEFINE op == Op("request", f)
  <1>1. op \in Ops /\ op.file = f /\ FileOpOver(op)
    BY DEF Ops, Op, OpKinds, RequestWritten
  <1>2. CASE IgnoreFileOp(op)
    BY <1>1, <1>2, IgnoreFileOpStep
  <1>3. CASE FailFileOp(op)
    BY <1>1, <1>3, FailFileOpStep
  <1>4. CASE /\ ok /\ ~StaleFile(f)
             /\ fileOps' = (fileOps \ {op}) \cup {Op("reply", f)}
             /\ out' = <<>>
             /\ UNCHANGED <<open, connected, messages, files, current, sent>>
    <2>1. op \in fileOps /\ ~StaleFile(op.file)
      BY <1>1, <1>4 DEF FileOpOver
    <2>2. current = f /\ current # 0 /\ fileOps \ {op} = {}
      BY <1>1, <2>1, CurrentOp
    <2>3. "reply" \in OpKinds /\ fileOps' = {Op("reply", current')}
      BY <1>4, <2>2 DEF OpKinds
    <2>4. files' \in Seq(Files) /\ current' \in 0..MaxFiles /\ sent' \in 0..MaxChunks
      BY <1>4 DEF Inv, TypeOK, FileType
    <2>5. out' \in Seq(Events) /\ Contract!NoEnd(out')
      BY <1>4 DEF Contract!NoEnd
    <2>. QED BY <1>1, <1>4, <2>1, <2>2, <2>3, <2>4, <2>5, AdvanceStep
  <1>. QED BY <1>2, <1>3, <1>4 DEF RequestWritten

\* A reply has been read.
LEMMA ReplyReadStep ==
  ASSUME Inv, NEW f \in Files, NEW reply \in {"ack", "other", "error"},
         NEW more \in BOOLEAN, ReplyRead(f, reply, more)
  PROVE  Preserved
  <1>. DEFINE op == Op("reply", f)
  <1>1. op \in Ops /\ op.file = f /\ FileOpOver(op)
    BY DEF Ops, Op, OpKinds, ReplyRead
  <1>2. CASE IgnoreFileOp(op)
    BY <1>1, <1>2, IgnoreFileOpStep
  <1>3. CASE FailFileOp(op)
    BY <1>1, <1>3, FailFileOpStep
  <1>4. files \in Seq(Files) /\ <<>> \in Seq(Events) /\ Contract!NoEnd(<<>>)
    BY DEF Inv, TypeOK, FileType, Contract!NoEnd
  <1>5. ASSUME ~StaleFile(f)
        PROVE  /\ op \in fileOps /\ ~StaleFile(op.file)
               /\ current = f /\ current # 0 /\ fileOps \ {op} = {}
    <2>1. op \in fileOps /\ ~StaleFile(op.file)
      BY <1>1, <1>5 DEF FileOpOver
    <2>. QED BY <1>1, <2>1, CurrentOp
  <1>6. CASE /\ reply = "ack" /\ ~StaleFile(f)
             /\ SendChunk(f, 0, more, fileOps \ {op}, <<>>)
             /\ UNCHANGED <<open, connected, messages>>
    <2>1. SendChunk(f, 0, more, {}, <<>>)
      BY <1>5, <1>6
    <2>. QED BY <1>1, <1>4, <1>5, <1>6, <2>1, SendChunkEffect, AdvanceStep
  <1>7. CASE /\ reply = "other" /\ ~StaleFile(f)
             /\ FinishFile(f, FALSE, fileOps \ {op}, <<>>)
             /\ UNCHANGED <<open, connected, messages>>
    <2>1. FinishFile(f, FALSE, {}, <<>>)
      BY <1>5, <1>7
    <2>2. "request" \in OpKinds /\ 0 \in 0..MaxChunks
      BY BoundsAssumption DEF OpKinds, BoundsAssumption
    <2>. QED BY <1>1, <1>4, <1>5, <1>7, <2>1, <2>2, FinishFileEffect, AdvanceStep
  <1>. QED BY <1>2, <1>3, <1>6, <1>7 DEF ReplyRead

\* A chunk has been written.
LEMMA ChunkWrittenStep ==
  ASSUME Inv, NEW f \in Files, NEW ok \in BOOLEAN, NEW more \in BOOLEAN,
         ChunkWritten(f, ok, more)
  PROVE  Preserved
  <1>. DEFINE op == Op("chunk", f)
              progress == Event("progress", f, FALSE)
  <1>1. op \in Ops /\ op.file = f /\ FileOpOver(op)
    BY DEF Ops, Op, OpKinds, ChunkWritten
  <1>2. CASE IgnoreFileOp(op)
    BY <1>1, <1>2, IgnoreFileOpStep
  <1>3. CASE FailFileOp(op)
    BY <1>1, <1>3, FailFileOpStep
  <1>4. CASE /\ ok /\ ~StaleFile(f)
             /\ SendChunk(f, sent + 1, more, fileOps \ {op}, <<progress>>)
             /\ UNCHANGED <<open, connected, messages>>
    <2>1. op \in fileOps /\ ~StaleFile(op.file)
      BY <1>1, <1>4 DEF FileOpOver
    <2>2. current = f /\ current # 0 /\ fileOps \ {op} = {}
      BY <1>1, <2>1, CurrentOp
    <2>3. files \in Seq(Files) /\ sent + 1 \in Nat
      BY DEF Inv, TypeOK, FileType
    <2>4. <<progress>> \in Seq(Events) /\ Contract!NoEnd(<<progress>>)
      BY DEF Event, Events, Contract!NoEnd
    <2>5. SendChunk(f, sent + 1, more, {}, <<progress>>)
      BY <1>4, <2>2
    <2>. HIDE DEF progress
    <2>. QED BY <1>1, <1>4, <2>1, <2>2, <2>3, <2>4, <2>5, SendChunkEffect, AdvanceStep
  <1>. QED BY <1>2, <1>3, <1>4 DEF ChunkWritten

-----------------------------------------------------------------------------
\* The other handlers.

\* A connect completes.
LEMMA ConnectDoneStep ==
  ASSUME Inv, NEW s \in Sockets, NEW ok \in BOOLEAN, ConnectDone(s, ok)
  PROVE  Preserved
  <1>1. /\ s \in connecting /\ connecting' = connecting \ {s}
        /\ notice' = FALSE
        /\ UNCHANGED <<owned, writes, wire, lastMessage, fileOps, lastFile>>
    BY DEF ConnectDone
  <1>2. notice' \in BOOLEAN /\ connecting' \in SUBSET Sockets
    BY <1>1 DEF Inv, TypeOK, ConnectionType
  <1>3. CASE /\ failed
             /\ out' = <<>>
             /\ UNCHANGED <<open, pending, failed, ready, connected, messages, files, current, sent>>
    <2>1. ConnectionType' /\ ConnectionInv'
      BY <1>1, <1>2, <1>3 DEF Inv, TypeOK, ConnectionType, ConnectionInv
    <2>2. MessageType' /\ MessageInv' /\ FileType' /\ FileInv'
      BY <1>1, <1>3, MessageFrame, FileFrame DEF messageVars, fileVars
    <2>3. ReportType'
      BY <1>2, <1>3 DEF ReportType
    <2>4. Contract!Next
      BY <1>1, <1>3 DEF Contract!Next, Contract!Work, Contract!Rest, Contract!NoEnd
    <2>. QED BY <1>1, <1>3, <2>1, <2>2, <2>3, <2>4 DEF Preserved, Inv, TypeOK
  <1>4. ~failed => pending \in {1, 2} /\ ~connected /\ current = 0 /\ messages = <<>>
    BY <1>1 DEF Inv, ConnectionInv, FileInv, MessageInv
  <1>5. CASE /\ ~failed /\ ~ok /\ failed' = TRUE
             /\ Close(current, <<>>)
             /\ ready' = Append(ready, FALSE)
             /\ UNCHANGED pending
    <2>1. /\ files' = <<>> /\ current' = 0 /\ sent' = 0 /\ messages' = <<>>
          /\ connected' = FALSE /\ open' = FALSE
          /\ out' = <<>>
      <3>1. current \in 0..MaxFiles
        BY DEF Inv, TypeOK, FileType
      <3>. QED BY <1>4, <1>5, <3>1, CloseEffect
    <2>2. ready = <<>>
      BY <1>4, <1>5 DEF Inv, ConnectionInv
    <2>3. ready' = <<FALSE>>
      BY <1>5, <2>2
    <2>4. ConnectionType'
      <3>1. open' \in BOOLEAN /\ failed' \in BOOLEAN /\ connected' \in BOOLEAN /\ owned' \in BOOLEAN
        BY <1>1, <1>5, <2>1 DEF Inv, TypeOK, ConnectionType
      <3>2. ready' \in Seq(BOOLEAN)
        BY <2>3
      <3>3. pending' \in 0..2
        BY <1>5 DEF Inv, TypeOK, ConnectionType
      <3>. QED BY <1>2, <3>1, <3>2, <3>3 DEF ConnectionType
    <2>5. ConnectionInv'
      BY <1>1, <1>4, <1>5, <2>1, <2>3 DEF ConnectionInv
    <2>6. MessageType' /\ MessageInv'
      BY <1>1, <1>5, <2>1, MessagesDropped
    <2>7. FileType' /\ FileInv'
      BY <1>1, <2>1, FilesDropped
    <2>8. ReportType'
      BY <1>2, <2>1 DEF ReportType
    <2>9. Contract!Next
      BY <1>1, <1>4, <1>5, <2>1 DEF Contract!Next, Contract!Rest
    <2>. QED BY <1>1, <2>1, <2>4, <2>5, <2>6, <2>7, <2>8, <2>9 DEF Preserved, Inv, TypeOK
  <1>6. CASE /\ ~failed /\ ok
             /\ pending' = pending - 1
             /\ connected' = (connected \/ pending = 1)
             /\ ready' = IF pending = 1 THEN Append(ready, TRUE) ELSE ready
             /\ out' = <<>>
             /\ UNCHANGED <<open, failed, messages, files, current, sent>>
    <2>1. ready = <<>>
      BY <1>4, <1>6 DEF Inv, ConnectionInv
    <2>2. /\ pending = 1 => ready' = <<TRUE>>
          /\ pending = 2 => ready' = <<>>
      <3>1. CASE pending = 1
        <4>1. ready' = Append(ready, TRUE)
          BY <1>6, <3>1
        <4>. QED BY <2>1, <3>1, <4>1
      <3>2. CASE pending = 2
        BY <1>6, <2>1, <3>2
      <3>. QED BY <1>4, <1>6, <3>1, <3>2
    <2>3. connected' <=> pending = 1
      BY <1>4, <1>6
    <2>4. ConnectionType'
      <3>1. open' \in BOOLEAN /\ failed' \in BOOLEAN /\ owned' \in BOOLEAN
        BY <1>1, <1>6 DEF Inv, TypeOK, ConnectionType
      <3>2. connected' \in BOOLEAN
        BY <1>4, <1>6
      <3>3. pending' \in 0..2
        BY <1>4, <1>6
      <3>4. ready' \in Seq(BOOLEAN)
        <4>1. CASE pending = 1
          <5>1. ready' = <<TRUE>>
            BY <2>2, <4>1
          <5>. QED BY <5>1
        <4>2. CASE pending = 2
          BY <2>2, <4>2
        <4>. QED BY <1>4, <1>6, <4>1, <4>2
      <3>. QED BY <1>2, <3>1, <3>2, <3>3, <3>4 DEF ConnectionType
    <2>5. ConnectionInv'
      <3>1. ~failed' => \/ pending' = 2 /\ connecting' = Sockets
                        \/ pending' = 1 /\ connecting' \in {{"main"}, {"file"}}
                        \/ pending' = 0 /\ connecting' = {}
        BY <1>1, <1>4, <1>6 DEF Inv, ConnectionInv, Sockets
      <3>2. ready' = IF failed' THEN <<FALSE>> ELSE IF pending' = 0 THEN <<TRUE>> ELSE <<>>
        <4>1. CASE pending = 1
          <5>1. ready' = <<TRUE>>
            BY <2>2, <4>1
          <5>2. ~failed' /\ pending' = 0
            BY <1>6, <4>1
          <5>. QED BY <5>1, <5>2
        <4>2. CASE pending = 2
          BY <1>6, <2>2, <4>2
        <4>. QED BY <1>4, <1>6, <4>1, <4>2
      <3>3. connected' => pending' = 0 /\ ~failed'
        BY <1>4, <1>6, <2>3
      <3>4. open' => owned'
        BY <1>1, <1>6 DEF Inv, ConnectionInv
      <3>5. owned' /\ ~open' => ~connected' /\ (failed' \/ pending' = 0)
        BY <1>1, <1>4, <1>6, <2>3 DEF Inv, ConnectionInv
      <3>. QED BY <3>1, <3>2, <3>3, <3>4, <3>5 DEF ConnectionInv
    <2>6. MessageType'
      BY <1>1, <1>6 DEF Inv, TypeOK, MessageType
    <2>7. MessageInv'
      <3>1. wire = <<>> /\ lastMessage = 0 /\ Len(wire) = 0
        BY <1>4, <1>6 DEF Inv, MessageInv
      <3>2. UNCHANGED <<wire, lastMessage, messages, writes, open>>
        BY <1>1, <1>6
      <3>. QED BY <1>4, <1>6, <3>1, <3>2 DEF Inv, MessageInv
    <2>8. FileType' /\ FileInv'
      <3>1. FileType'
        BY <1>1, <1>6 DEF Inv, TypeOK, FileType
      <3>2. FileInv'
        BY <1>1, <1>4, <1>6 DEF Inv, FileInv
      <3>. QED BY <3>1, <3>2
    <2>9. ReportType'
      BY <1>2, <1>6 DEF ReportType
    <2>10. Contract!Next
      BY <1>1, <1>4, <1>6 DEF Contract!Next, Contract!Rest
    <2>. QED BY <1>1, <1>6, <2>4, <2>5, <2>6, <2>7, <2>8, <2>9, <2>10 DEF Preserved, Inv, TypeOK
  <1>. QED BY <1>3, <1>5, <1>6 DEF ConnectDone, GaveUp

\* The controller lets go of the connection.
LEMMA ReleaseStep ==
  ASSUME Inv, Release
  PROVE  Preserved
  <1>. USE DEF Release
  <1>1. current \in 0..MaxFiles
    BY DEF Inv, TypeOK, FileType
  <1>2. /\ files' = <<>> /\ current' = 0 /\ sent' = 0 /\ messages' = <<>>
        /\ connected' = FALSE /\ open' = FALSE
        /\ current = 0 => out' = <<>>
        /\ current # 0 => out' = <<Event("failed", current, TRUE)>>
        /\ out' \in Seq(Events)
    BY <1>1, CloseEffect
  <1>3. ConnectionType'
    <2>1. open' \in BOOLEAN /\ connected' \in BOOLEAN /\ owned' \in BOOLEAN
      BY <1>2
    <2>2. UNCHANGED <<connecting, pending, failed, ready>>
      BY DEF connectVars
    <2>. QED BY <2>1, <2>2 DEF Inv, TypeOK, ConnectionType
  <1>4. ConnectionInv'
    BY <1>2 DEF Inv, ConnectionInv, connectVars
  <1>5. MessageType' /\ MessageInv'
    BY <1>2, MessagesDropped DEF connectVars
  <1>6. FileType' /\ FileInv'
    BY <1>2, FilesDropped
  <1>7. ReportType'
    <2>1. notice' \in BOOLEAN
      OBVIOUS
    <2>. QED BY <1>2, <2>1 DEF ReportType
  <1>8. ASSUME current # 0 PROVE Contract!OneEnd(out')
    <2>1. out' = <<Event("failed", current, TRUE)>>
      BY <1>2, <1>8
    <2>. QED BY <2>1 DEF Contract!OneEnd, Event
  <1>9. Contract!Next
    BY <1>2, <1>8 DEF Contract!Next, Contract!Finish, Contract!Rest
  <1>. QED BY <1>3, <1>4, <1>5, <1>6, <1>7, <1>9 DEF Preserved, Inv, TypeOK

\* writeNextMessage() with no other write in flight, when the queue continues what
\* has been written: the head, if any, becomes the last message written.
LEMMA WriteNextMessageEffect ==
  ASSUME wire \in Seq(Messages), \A i \in 1..Len(wire) : wire[i] = i,
         NEW q \in Seq(Messages), \A j \in 1..Len(q) : q[j] = Len(wire) + j,
         WriteNextMessage(q, {})
  PROVE  /\ wire' \in Seq(Messages) /\ writes' \in SUBSET (1..Len(wire'))
         /\ \A i \in 1..Len(wire') : wire'[i] = i
         /\ \A j \in 1..Len(q) : q[j] = Len(wire') + j - 1
         /\ q = <<>> => writes' = {} /\ wire' = wire
         /\ q # <<>> => writes' = {Len(wire')} /\ Len(wire') = Len(wire) + 1
         /\ \A v, w \in writes' : v = w
  <1>1. CASE q = <<>>
    BY <1>1 DEF WriteNextMessage
  <1>2. CASE q # <<>>
    <2>1. wire' = Append(wire, Head(q)) /\ writes' = {} \cup {Len(wire')}
      BY <1>2 DEF WriteNextMessage
    <2>2. Head(q) \in Messages /\ Len(q) >= 1 /\ Head(q) = q[1]
      BY <1>2
    <2>3. Head(q) = Len(wire) + 1
      BY <2>2
    <2>4. wire' \in Seq(Messages) /\ Len(wire') = Len(wire) + 1
      BY <2>1, <2>2
    <2>5. \A i \in 1..Len(wire') : wire'[i] = i
      BY <2>1, <2>2, <2>3, <2>4
    <2>. QED BY <1>2, <2>1, <2>4, <2>5
  <1>. QED BY <1>1, <1>2

\* A message is handed over.
LEMMA SendMessageStep ==
  ASSUME Inv, NEW tooLong \in BOOLEAN, SendMessage(tooLong)
  PROVE  Preserved
  <1>1. /\ owned /\ out' = <<>>
        /\ UNCHANGED <<open, connecting, pending, failed, ready, connected, owned>>
        /\ UNCHANGED fileVars
    BY DEF SendMessage
  <1>2. ConnectionType' /\ ConnectionInv' /\ FileType' /\ FileInv'
    BY <1>1, ConnectionFrame, FileFrame
  <1>3. Contract!Next
    BY <1>1 DEF Contract!Next, Contract!Work, Contract!Rest, Contract!NoEnd, fileVars
  <1>4. MessageType' /\ MessageInv' /\ notice' \in BOOLEAN
    <2>1. CASE notice' = TRUE /\ UNCHANGED messageVars
      <3>1. notice' \in BOOLEAN
        BY <2>1
      <3>. QED BY <1>1, <2>1, <3>1, MessageFrame
    <2>2. CASE /\ connected /\ lastMessage < MaxMessages
               /\ lastMessage' = lastMessage + 1
               /\ messages' = Append(messages, lastMessage + 1)
               /\ IF Idle THEN WriteNextMessage(messages', writes) ELSE UNCHANGED <<writes, wire>>
               /\ notice' = FALSE
      <3>. USE <2>2
      <3>1. open /\ pending = 0
        BY <1>1 DEF Inv, ConnectionInv
      <3>2. lastMessage + 1 \in Messages /\ lastMessage' \in 0..MaxMessages
        BY BoundsAssumption DEF Inv, TypeOK, MessageType, Messages, BoundsAssumption
      <3>3. /\ messages' \in Seq(Messages) /\ Len(messages') = Len(messages) + 1
            /\ \A j \in 1..Len(messages) : messages'[j] = messages[j]
            /\ messages'[Len(messages) + 1] = lastMessage + 1
            /\ wire \in Seq(Messages) /\ messages \in Seq(Messages) /\ lastMessage \in Nat
            /\ messages' # <<>>
        BY <3>2 DEF Inv, TypeOK, MessageType
      <3>4. notice' \in BOOLEAN
        OBVIOUS
      <3>5. CASE Idle
        <4>1. messages = <<>> /\ writes = {} /\ lastMessage = Len(wire) /\ Len(messages) = 0
          BY <3>1, <3>5 DEF Inv, MessageInv, Idle
        <4>2. WriteNextMessage(messages', {})
          BY <3>5, <4>1
        <4>3. \A i \in 1..Len(wire) : wire[i] = i
          BY DEF Inv, MessageInv
        <4>4. \A j \in 1..Len(messages') : messages'[j] = Len(wire) + j
          BY <3>3, <4>1
        <4>5. /\ wire' \in Seq(Messages) /\ writes' \in SUBSET (1..Len(wire'))
              /\ \A i \in 1..Len(wire') : wire'[i] = i
              /\ \A j \in 1..Len(messages') : messages'[j] = Len(wire') + j - 1
              /\ writes' = {Len(wire')} /\ Len(wire') = Len(wire) + 1
              /\ \A v, w \in writes' : v = w
          BY <3>3, <4>2, <4>3, <4>4, WriteNextMessageEffect
        <4>6. MessageType'
          BY <3>2, <3>3, <4>5 DEF MessageType
        <4>7. MessageInv'
          BY <1>1, <3>1, <3>3, <4>1, <4>5 DEF MessageInv
        <4>. QED BY <3>4, <4>6, <4>7
      <3>6. CASE ~Idle
        <4>1. UNCHANGED <<writes, wire>> /\ messages # <<>>
          BY <3>6 DEF Idle
        <4>2. MessageType'
          BY <3>2, <3>3, <4>1 DEF Inv, TypeOK, MessageType
        <4>3. lastMessage = Len(wire) + Len(messages) - 1
          BY <4>1 DEF Inv, MessageInv
        <4>4. ASSUME NEW j \in 1..Len(messages')
              PROVE  messages'[j] = Len(wire') + j - 1
          <5>1. \A k \in 1..Len(messages) : messages[k] = Len(wire) + k - 1
            BY DEF Inv, MessageInv
          <5>2. Len(messages) \in Nat /\ Len(wire) \in Nat /\ wire' = wire
            BY <3>3, <4>1
          <5>3. CASE j = Len(messages) + 1
            <6>1. messages'[j] = lastMessage + 1
              BY <3>3, <5>3
            <6>. QED BY <4>3, <5>2, <5>3, <6>1
          <5>4. CASE j \in 1..Len(messages)
            <6>1. messages'[j] = messages[j]
              BY <3>3, <5>4
            <6>. QED BY <5>1, <5>2, <5>4, <6>1
          <5>. QED BY <3>3, <5>2, <5>3, <5>4
        <4>5. MessageInv'
          BY <1>1, <3>1, <3>3, <4>1, <4>3, <4>4 DEF Inv, MessageInv
        <4>. QED BY <3>4, <4>2, <4>5
      <3>. QED BY <3>5, <3>6
    <2>. QED BY <2>1, <2>2 DEF SendMessage
  <1>5. ReportType'
    BY <1>1, <1>4 DEF ReportType
  <1>. QED BY <1>1, <1>2, <1>3, <1>4, <1>5 DEF Preserved, Inv, TypeOK

\* A message has been written.
LEMMA MessageWrittenStep ==
  ASSUME Inv, NEW w \in writes, NEW ok \in BOOLEAN, MessageWritten(w, ok)
  PROVE  Preserved
  <1>1. UNCHANGED <<connecting, pending, failed, ready, owned, lastMessage, fileOps, lastFile>>
    BY DEF MessageWritten
  <1>2. CASE /\ StaleMessage(w) /\ writes' = writes \ {w} /\ out' = <<>> /\ notice' = FALSE
             /\ UNCHANGED <<open, connected, messages, wire, files, current, sent>>
    <2>1. messages = <<>>
      BY <1>2 DEF StaleMessage, Inv, TypeOK, MessageType, MessageInv
    <2>2. ConnectionType' /\ ConnectionInv' /\ FileType' /\ FileInv'
      BY <1>1, <1>2, ConnectionFrame, FileFrame DEF fileVars
    <2>3. MessageType' /\ MessageInv'
      <3>1. MessageType'
        BY <1>1, <1>2 DEF Inv, TypeOK, MessageType
      <3>2. MessageInv'
        BY <1>1, <1>2, <2>1 DEF Inv, MessageInv
      <3>. QED BY <3>1, <3>2
    <2>4. ReportType'
      <3>1. notice' \in BOOLEAN
        BY <1>2
      <3>. QED BY <1>2, <3>1 DEF ReportType
    <2>5. Contract!Next
      BY <1>1, <1>2 DEF Contract!Next, Contract!Work, Contract!Rest, Contract!NoEnd
    <2>. QED BY <1>2, <2>2, <2>3, <2>4, <2>5 DEF Preserved, Inv, TypeOK
  <1>3. ~StaleMessage(w) =>
          /\ messages # <<>> /\ connected /\ open /\ owned /\ pending = 0
          /\ writes = {Len(wire)} /\ writes \ {w} = {}
    BY DEF StaleMessage, Inv, MessageInv, ConnectionInv
  <1>4. CASE /\ ~StaleMessage(w) /\ writes' = writes \ {w} /\ notice' = TRUE
             /\ Close(current, <<>>) /\ UNCHANGED wire
    <2>1. current \in 0..MaxFiles
      BY DEF Inv, TypeOK, FileType
    <2>2. /\ files' = <<>> /\ current' = 0 /\ sent' = 0 /\ messages' = <<>>
          /\ connected' = FALSE /\ open' = FALSE
          /\ current = 0 => out' = <<>>
          /\ current # 0 => out' = <<Event("failed", current, TRUE)>>
          /\ out' \in Seq(Events)
      BY <1>4, <2>1, CloseEffect
    <2>3. ConnectionType' /\ ConnectionInv'
      BY <1>1, <1>3, <1>4, <2>2, ConnectionClosed
    <2>4. MessageType' /\ MessageInv'
      BY <1>1, <1>4, <2>2, MessagesDropped
    <2>5. FileType' /\ FileInv'
      BY <1>1, <2>2, FilesDropped
    <2>6. ReportType'
      <3>1. notice' \in BOOLEAN
        BY <1>4
      <3>. QED BY <2>2, <3>1 DEF ReportType
    <2>7. ASSUME current # 0 PROVE Contract!OneEnd(out')
      <3>1. out' = <<Event("failed", current, TRUE)>>
        BY <2>2, <2>7
      <3>. QED BY <3>1 DEF Contract!OneEnd, Event
    <2>8. Contract!Next
      BY <1>1, <2>2, <2>7 DEF Contract!Next, Contract!Finish, Contract!Rest
    <2>. QED BY <1>3, <1>4, <2>3, <2>4, <2>5, <2>6, <2>8 DEF Preserved, Inv, TypeOK
  <1>5. CASE /\ ~StaleMessage(w) /\ messages' = Tail(messages)
             /\ WriteNextMessage(messages', writes \ {w})
             /\ out' = <<>> /\ notice' = FALSE
             /\ UNCHANGED <<open, connected, files, current, sent>>
    <2>1. /\ messages \in Seq(Messages) /\ messages # <<>> /\ wire \in Seq(Messages)
          /\ \A j \in 1..Len(messages) : messages[j] = Len(wire) + j - 1
          /\ \A i \in 1..Len(wire) : wire[i] = i
          /\ lastMessage = Len(wire) + Len(messages) - 1
      BY <1>3, <1>5 DEF Inv, TypeOK, MessageType, MessageInv
    <2>2. /\ messages' \in Seq(Messages) /\ Len(messages') = Len(messages) - 1
          /\ \A j \in 1..Len(messages') : messages'[j] = messages[j + 1]
      BY <1>5, <2>1, HeadTailProperties
    <2>3. \A j \in 1..Len(messages') : messages'[j] = Len(wire) + j
      BY <2>1, <2>2
    <2>4. WriteNextMessage(messages', {})
      BY <1>3, <1>5
    <2>5. /\ wire' \in Seq(Messages) /\ writes' \in SUBSET (1..Len(wire'))
          /\ \A i \in 1..Len(wire') : wire'[i] = i
          /\ \A j \in 1..Len(messages') : messages'[j] = Len(wire') + j - 1
          /\ messages' = <<>> => writes' = {} /\ wire' = wire
          /\ messages' # <<>> => writes' = {Len(wire')} /\ Len(wire') = Len(wire) + 1
          /\ \A v1, v2 \in writes' : v1 = v2
      BY <2>1, <2>2, <2>3, <2>4, WriteNextMessageEffect
    <2>6. ConnectionType' /\ ConnectionInv' /\ FileType' /\ FileInv'
      BY <1>1, <1>5, ConnectionFrame, FileFrame DEF fileVars
    <2>7. MessageType'
      BY <1>1, <2>2, <2>5 DEF Inv, TypeOK, MessageType
    <2>8. MessageInv'
      <3>1. /\ messages' = <<>> => lastMessage' = Len(wire')
            /\ messages' # <<>> => lastMessage' = Len(wire') + Len(messages') - 1
        <4>1. Len(wire) \in Nat /\ Len(messages) \in Nat /\ lastMessage' = lastMessage
          BY <1>1, <2>1
        <4>2. CASE messages' = <<>>
          <5>1. Len(messages') = 0 /\ wire' = wire
            BY <2>5, <4>2
          <5>2. Len(messages) = 1
            BY <2>2, <4>1, <5>1
          <5>3. lastMessage' = Len(wire')
            BY <2>1, <4>1, <5>1, <5>2
          <5>. QED BY <4>2, <5>3
        <4>3. CASE messages' # <<>>
          <5>1. Len(wire') = Len(wire) + 1 /\ Len(messages') = Len(messages) - 1
            BY <2>2, <2>5, <4>3
          <5>2. lastMessage' = Len(wire) + Len(messages) - 1
            BY <2>1, <4>1
          <5>. QED BY <4>1, <4>3, <5>1, <5>2
        <4>. QED BY <4>2, <4>3
      <3>2. Len(wire) \in Nat
        BY <2>1
      <3>. QED BY <1>1, <1>3, <1>5, <2>5, <3>1, <3>2 DEF MessageInv
    <2>9. ReportType'
      <3>1. notice' \in BOOLEAN
        BY <1>5
      <3>. QED BY <1>5, <3>1 DEF ReportType
    <2>10. Contract!Next
      BY <1>1, <1>5 DEF Contract!Next, Contract!Work, Contract!Rest, Contract!NoEnd
    <2>. QED BY <1>3, <1>5, <2>6, <2>7, <2>8, <2>9, <2>10 DEF Preserved, Inv, TypeOK
  <1>. QED BY <1>2, <1>4, <1>5 DEF MessageWritten, Quiet

\* Files are handed over.
LEMMA SendFilesStep ==
  ASSUME Inv, NEW n \in 1..MaxBatch, SendFiles(n)
  PROVE  Preserved
  <1>. DEFINE batch == [i \in 1..n |-> lastFile + i]
  <1>1. /\ owned /\ lastFile + n <= MaxFiles /\ lastFile' = lastFile + n /\ notice' = FALSE
        /\ UNCHANGED <<open, connecting, pending, failed, ready, connected, owned>>
        /\ UNCHANGED messageVars
    BY DEF SendFiles
  <1>2. /\ batch \in Seq(Files) /\ Len(batch) = n /\ batch # <<>>
        /\ lastFile' \in 0..MaxFiles /\ n \in Nat \ {0}
    BY <1>1, BoundsAssumption DEF Inv, TypeOK, FileType, Files, BoundsAssumption
  <1>3. Head(batch) \in Files
    BY <1>2
  <1>4. ConnectionType' /\ ConnectionInv' /\ MessageType' /\ MessageInv'
    BY <1>1, ConnectionFrame, MessageFrame
  <1>5. connected => open
    BY <1>1 DEF Inv, ConnectionInv
  <1>6. notice' \in BOOLEAN
    BY <1>1
  <1>. HIDE DEF batch
  <1>7. CASE /\ ~connected
             /\ out' = <<Event("failed", Head(batch), TRUE)>>
             /\ UNCHANGED <<files, current, sent, fileOps>>
    <2>1. FileType' /\ FileInv'
      <3>1. FileType'
        BY <1>2, <1>7 DEF Inv, TypeOK, FileType
      <3>2. FileInv'
        BY <1>1, <1>7 DEF Inv, FileInv
      <3>. QED BY <3>1, <3>2
    <2>2. out' \in Seq(Events) /\ Contract!OneEnd(out')
      BY <1>3, <1>7 DEF Event, Events, Contract!OneEnd
    <2>3. ReportType'
      BY <1>6, <2>2 DEF ReportType
    <2>4. current = 0
      BY <1>7 DEF Inv, FileInv
    <2>5. Contract!Next
      BY <1>1, <1>7, <2>2, <2>4 DEF Contract!Next, Contract!Reject
    <2>. QED BY <1>1, <1>4, <2>1, <2>3, <2>5 DEF Preserved, Inv, TypeOK
  <1>8. CASE /\ connected /\ current # 0
             /\ files' = files \o batch /\ out' = <<>>
             /\ UNCHANGED <<current, sent, fileOps>>
    <2>1. files' \in Seq(Files)
      BY <1>2, <1>8 DEF Inv, TypeOK, FileType
    <2>2. FileType'
      BY <1>2, <1>8, <2>1 DEF Inv, TypeOK, FileType
    <2>3. FileInv'
      BY <1>1, <1>8 DEF Inv, FileInv
    <2>4. ReportType'
      BY <1>6, <1>8 DEF ReportType
    <2>5. Contract!Next
      BY <1>1, <1>8 DEF Contract!Next, Contract!Work, Contract!NoEnd
    <2>. QED BY <1>1, <1>4, <2>2, <2>3, <2>4, <2>5 DEF Preserved, Inv, TypeOK
  <1>9. CASE /\ connected /\ current = 0
             /\ StartNextFile(files \o batch, fileOps, <<>>)
    <2>1. files = <<>> /\ fileOps = {}
      BY <1>5, <1>9 DEF Inv, FileInv
    <2>2. StartNextFile(batch, {}, <<>>)
      BY <1>2, <1>9, <2>1, ConcatEmptySeq
    <2>3. <<>> \in Seq(Events) /\ Contract!NoEnd(<<>>)
      BY DEF Contract!NoEnd
    <2>4. /\ files' \in Seq(Files) /\ current' \in 0..MaxFiles /\ sent' = 0
          /\ out' \in Seq(Events)
          /\ current' = 0 => files' = <<>> /\ fileOps' = {} /\ Contract!OneEnd(out')
          /\ current' # 0 => /\ current' \in Files /\ fileOps' = {Op("request", current')}
                             /\ Contract!NoEnd(out')
      BY <1>2, <2>2, <2>3, StartNextFileEffect
    <2>5. FileType'
      <3>1. fileOps' \in SUBSET Ops
        BY <2>4 DEF Ops, Op, OpKinds
      <3>2. sent' \in 0..MaxChunks
        BY <2>4, BoundsAssumption DEF BoundsAssumption
      <3>. QED BY <1>2, <2>4, <3>1, <3>2 DEF FileType
    <2>6. FileInv'
      <3>1. "request" \in OpKinds
        BY DEF OpKinds
      <3>2. \A a, b \in fileOps' : a = b
        BY <2>4
      <3>. QED BY <1>1, <1>5, <1>9, <2>4, <3>1, <3>2 DEF FileInv
    <2>7. ReportType'
      BY <1>6, <2>4 DEF ReportType
    <2>8. Contract!Next
      BY <1>1, <1>9, <2>4 DEF Contract!Next, Contract!Accept, Contract!Reject
    <2>. QED BY <1>1, <1>4, <2>5, <2>6, <2>7, <2>8 DEF Preserved, Inv, TypeOK
  <1>10. \/ ~connected /\ out' = <<Event("failed", Head(batch), TRUE)>>
            /\ UNCHANGED <<files, current, sent, fileOps>>
         \/ connected /\ current # 0 /\ files' = files \o batch /\ out' = <<>>
            /\ UNCHANGED <<current, sent, fileOps>>
         \/ connected /\ current = 0 /\ StartNextFile(files \o batch, fileOps, <<>>)
    BY DEF SendFiles, batch
  <1>. QED BY <1>7, <1>8, <1>9, <1>10

-----------------------------------------------------------------------------
\* Every step of Next.
LEMMA NextStep == Inv /\ Next => Preserved
  <1>. SUFFICES ASSUME Inv, Next PROVE Preserved
    OBVIOUS
  <1>1. ASSUME NEW s \in Sockets, NEW ok \in BOOLEAN, ConnectDone(s, ok) PROVE Preserved
    BY <1>1, ConnectDoneStep
  <1>2. ASSUME NEW w \in writes, NEW ok \in BOOLEAN, MessageWritten(w, ok) PROVE Preserved
    BY <1>2, MessageWrittenStep
  <1>3. ASSUME NEW f \in Files, NEW ok \in BOOLEAN, RequestWritten(f, ok) PROVE Preserved
    BY <1>3, RequestWrittenStep
  <1>4. ASSUME NEW f \in Files, NEW reply \in {"ack", "other", "error"},
               NEW more \in BOOLEAN, ReplyRead(f, reply, more)
        PROVE  Preserved
    BY <1>4, ReplyReadStep
  <1>5. ASSUME NEW f \in Files, NEW ok \in BOOLEAN, NEW more \in BOOLEAN,
               ChunkWritten(f, ok, more)
        PROVE  Preserved
    BY <1>5, ChunkWrittenStep
  <1>6. ASSUME NEW tooLong \in BOOLEAN, SendMessage(tooLong) PROVE Preserved
    BY <1>6, SendMessageStep
  <1>7. ASSUME NEW n \in 1..MaxBatch, SendFiles(n) PROVE Preserved
    BY <1>7, SendFilesStep
  <1>8. ASSUME OnPeerClosed \/ Replace PROVE Preserved
    BY <1>8, ReleaseStep DEF OnPeerClosed, Replace
  <1>. QED BY <1>1, <1>2, <1>3, <1>4, <1>5, <1>6, <1>7, <1>8 DEF Next, Completion

\* The invariant is inductive.
LEMMA InvStep == Inv /\ [Next]_vars => Inv'
  <1>1. Inv /\ Next => Inv'
    BY NextStep DEF Preserved
  <1>2. Inv /\ UNCHANGED vars => Inv'
    <2>. SUFFICES ASSUME Inv, UNCHANGED vars PROVE Inv'
      OBVIOUS
    <2>. USE DEF vars
    <2>1. ConnectionType' /\ ConnectionInv'
      BY ConnectionFrame
    <2>2. MessageType' /\ MessageInv'
      BY MessageFrame DEF messageVars
    <2>3. FileType' /\ FileInv'
      BY FileFrame DEF fileVars
    <2>4. ReportType'
      BY DEF Inv, TypeOK, ReportType
    <2>. QED BY <2>1, <2>2, <2>3, <2>4 DEF Inv, TypeOK
  <1>. QED BY <1>1, <1>2

\* The invariant holds in every reachable state (ClientSocket.cpp as a whole).
THEOREM Invariance == Spec => []Inv
  BY InitInv, InvStep, PTL DEF Spec

\* Every variable has its type in every reachable state.
THEOREM TypeCorrect == Spec => []TypeOK
  <1>1. Inv => TypeOK
    BY DEF Inv
  <1>. QED BY Invariance, <1>1, PTL

\* onReady is called exactly once, with the outcome (ClientSocket.h:23).
THEOREM ReadyOnce == Spec => []OnReadyOnce
  <1>1. Inv => OnReadyOnce
    <2>. SUFFICES ASSUME Inv PROVE OnReadyOnce
      OBVIOUS
    <2>1. CASE failed
      <3>1. ready = <<FALSE>> /\ <<FALSE>> # <<TRUE>>
        BY <2>1 DEF Inv, ConnectionInv
      <3>. QED BY <2>1, <3>1 DEF OnReadyOnce
    <2>2. CASE ~failed /\ pending = 0
      <3>1. ready = <<TRUE>> /\ <<FALSE>> # <<TRUE>>
        BY <2>2 DEF Inv, ConnectionInv
      <3>. QED BY <2>2, <3>1 DEF OnReadyOnce
    <2>3. CASE ~failed /\ pending # 0
      <3>1. ready = <<>> /\ connecting # {}
        BY <2>3 DEF Inv, ConnectionInv, Sockets
      <3>2. ready # <<TRUE>> /\ ready # <<FALSE>> /\ Len(ready) = 0
        BY <3>1
      <3>. QED BY <2>3, <3>1, <3>2 DEF OnReadyOnce
    <2>. QED BY <2>1, <2>2, <2>3
  <1>. QED BY Invariance, <1>1, PTL

\* At most one operation in flight on each socket (ClientSocket.cpp:84).
THEOREM SerialOperations == Spec => []OneOperationPerSocket
  <1>1. ASSUME NEW S, \A a, b \in S : a = b
        PROVE  Cardinality(S) <= 1
    <2>1. CASE S = {}
      BY <2>1, FS_EmptySet
    <2>2. CASE S # {}
      <3>1. PICK x : S = {x}
        BY <1>1, <2>2
      <3>. QED BY <3>1, FS_Singleton
    <2>. QED BY <2>1, <2>2
  <1>2. Inv => OneOperationPerSocket
    BY <1>1 DEF Inv, MessageInv, FileInv, OneOperationPerSocket
  <1>. QED BY Invariance, <1>2, PTL

\* Messages are written in order, each once, none skipped.
THEOREM MessageOrder == Spec => []MessagesInOrder
  <1>1. Inv => MessagesInOrder
    <2>. SUFFICES ASSUME Inv PROVE MessagesInOrder
      OBVIOUS
    <2>1. messages # <<>> => Len(messages) \in 1..Len(messages)
      BY DEF Inv, TypeOK, MessageType
    <2>. QED BY <2>1 DEF Inv, MessageInv, MessagesInOrder
  <1>. QED BY Invariance, <1>1, PTL

\* Work is queued only on a connection that is up, and moves on.
THEOREM LiveWork == Spec => []WorkOnlyWhileConnected
  <1>1. Inv => WorkOnlyWhileConnected
    BY DEF Inv, TypeOK, ConnectionInv, MessageInv, FileInv, WorkOnlyWhileConnected
  <1>. QED BY Invariance, <1>1, PTL

\* No handler reports anything once the controller has let go.
THEOREM Silence == Spec => SilentWhenReleased
  <1>1. Inv /\ [Next]_vars => [~owned => out' = <<>> /\ ~notice']_vars
    BY NextStep DEF Preserved
  <1>. QED BY Invariance, <1>1, PTL DEF Spec, SilentWhenReleased

\* The connection implements the contract of its transfer events.
THEOREM Implementation == Spec => ImplementsContract
  <1>1. Init => Contract!Init
    BY DEF Init, Contract!Init
  <1>2. Inv /\ [Next]_vars => [Contract!Next]_Contract!vars
    <2>1. Inv /\ Next => Contract!Next
      BY NextStep DEF Preserved
    <2>2. UNCHANGED vars => UNCHANGED Contract!vars
      BY DEF vars, Contract!vars
    <2>. QED BY <2>1, <2>2
  <1>. QED BY Invariance, <1>1, <1>2, PTL DEF Spec, ImplementsContract, Contract!Spec
=============================================================================
