----------------------------- MODULE FileTransfer -----------------------------
(***************************************************************************)
(* Files from one device to another: the file half of the sender's         *)
(* ClientSocket, the receiver's PeerConnection, and TCP between them.      *)
(* What the sender writes is readable at the receiver in any portions; a   *)
(* write completes without the receiver having read anything; either end   *)
(* may see the connection fail at any time.                                *)
(***************************************************************************)
EXTENDS ClientSocket, FiniteSets

CONSTANTS
  Size,       \* the size of each file, in chunks
  DiskFails,  \* what the receiver's disk may fail at
  Name,       \* the name of each file, a sequence (see PeerConnection)
  Taken       \* the paths in use in the receiver's directory beforehand

ASSUME SizeAssumption == Size \in [Files -> 0..MaxChunks]
ASSUME DiskAssumption == DiskFails \subseteq {"open", "write", "flush"}
ASSUME NameAssumption == Name \in [Files -> Seq(Nat)] /\ IsFiniteSet(Taken)

VARIABLES
  stream, replies, mainRead, fileRead, lost,     \* see PeerConnection
  buffer, receiving, expected, disk, ends,
  claimed     \* history: the files the sender has reported as done

Peer == INSTANCE PeerConnection

peerVars == <<stream, replies, mainRead, fileRead, lost,
              buffer, receiving, expected, disk, ends>>
allVars == <<vars, peerVars, claimed>>

\* Both sockets have connected, and the receiver has paired and is reading them.
TransferInit ==
  /\ open = TRUE /\ connecting = {} /\ pending = 0 /\ failed = FALSE
  /\ ready = <<TRUE>> /\ connected = TRUE /\ owned = TRUE
  /\ messages = <<>> /\ wire = <<>> /\ writes = {} /\ lastMessage = 0
  /\ files = <<>> /\ current = 0 /\ sent = 0 /\ fileOps = {} /\ lastFile = 0
  /\ out = <<>> /\ notice = FALSE
  /\ Peer!PeerInit
  /\ claimed = {}

-----------------------------------------------------------------------------
\* The content of a file, and what a file operation puts on the wire.
Content(f) == [n \in 1..Size[f] |-> Peer!Part("data", f, n)]

Bytes(op, n) ==
  CASE op.kind = "request" -> <<Peer!Part("req", op.file, 0), Peer!Part("size", op.file, Size[op.file])>>
    [] op.kind = "chunk" -> <<Peer!Part("data", op.file, n)>>
    [] op.kind = "reply" -> <<>>

\* The handler has issued an operation for the current file.
Issued == current' # 0 /\ <<current', sent', fileOps'>> # <<current, sent, fileOps>>

\* A step of the sender: what it writes enters the stream.
Transmit ==
  /\ stream' = IF Issued
               THEN stream \o Bytes(CHOOSE op \in fileOps' : op.file = current', sent' + 1)
               ELSE stream
  /\ claimed' = claimed \cup {out'[i].file : i \in {j \in 1..Len(out') : out'[j].stage = "done"}}
  /\ UNCHANGED <<mainRead, fileRead, lost, buffer, receiving, expected, disk, ends>>

\* MUTANT: the last chunk is not sent.
StopsShort(f, n) == n + 1 < Size[f]

\* The file is read to its end and not changed meanwhile.
More(f, n) == n < Size[f]

Submit(n) == SendFiles(n) /\ Transmit /\ UNCHANGED replies

RequestSent(f, ok) == RequestWritten(f, ok) /\ Transmit /\ UNCHANGED replies

ChunkSent(f, ok) ==
  /\ ChunkWritten(f, ok, More(f, sent + 1))
  /\ Transmit
  /\ UNCHANGED replies

ReplyFails(f) == ReplyRead(f, "error", FALSE) /\ Transmit /\ UNCHANGED replies

\* A read returns the first k replies; what it starts with decides.
ReplyArrives(f) ==
  \E k \in 1..Len(replies) :
    /\ ReplyRead(f, IF Head(replies).kind = "ack" THEN "ack" ELSE "other", More(f, 0))
    /\ replies' = SubSeq(replies, k + 1, Len(replies))
    /\ Transmit

\* The controller closes the connection.
SenderCloses == OnPeerClosed /\ Transmit /\ UNCHANGED replies

SenderAnswered ==
  \E f \in Files : RequestSent(f, TRUE) \/ ChunkSent(f, TRUE) \/ ReplyArrives(f)

SenderFails ==
  \E f \in Files : RequestSent(f, FALSE) \/ ChunkSent(f, FALSE) \/ ReplyFails(f)

\* A step of the receiver.
PeerReads ==
  /\ \E k \in 1..Len(stream), bad \in SUBSET DiskFails : Peer!FileRead(k, bad)
  /\ UNCHANGED <<vars, claimed>>

PeerLoses ==
  /\ Peer!MainReadError \/ Peer!FileReadError
  /\ UNCHANGED <<vars, claimed>>

TransferNext ==
  \/ \E n \in 1..MaxBatch : Submit(n)
  \/ SenderAnswered
  \/ SenderFails
  \/ SenderCloses
  \/ PeerReads
  \/ PeerLoses

\* A read returns a reply's first bytes only; the rest of it stays in the stream.
ReplyCut(f) ==
  /\ replies # <<>>
  /\ ReplyRead(f, "other", FALSE)
  /\ replies' = <<Peer!Reply("rest", Head(replies).file)>> \o Tail(replies)
  /\ Transmit

\* The transfer over a TCP that may cut replies, too.
CutNext == TransferNext \/ \E f \in Files : ReplyCut(f)

CutSpec == TransferInit /\ [][CutNext]_allVars

TransferSpec == TransferInit /\ [][TransferNext]_allVars

\* While the connection is up TCP delivers what has been sent, in both
\* directions; when one end has closed it the other sees an error.  Nothing is
\* assumed of a reply that is not there.
TransferFairness ==
  /\ WF_allVars(SenderAnswered)
  /\ WF_allVars((lost \/ ~open) /\ SenderFails)
  /\ WF_allVars(PeerReads)
  /\ WF_allVars((lost \/ ~open) /\ PeerLoses)

FairTransfer == TransferSpec /\ TransferFairness

-----------------------------------------------------------------------------
Parts == [kind : {"req", "size", "data"}, file : Files, n : 0..MaxChunks]

\* The type invariant.
TransferTypeOK ==
  /\ TypeOK
  /\ stream \in Seq(Parts) /\ buffer \in Seq(Parts)
  /\ replies \in Seq([kind : {"ack", "other", "rest"}, file : Files])
  /\ mainRead \in {"listening", "over"} /\ fileRead \in {"listening", "closed", "over"}
  /\ lost \in BOOLEAN /\ receiving \in BOOLEAN /\ expected \in 0..MaxChunks
  /\ disk \in Seq([file : Files, path : Seq(Nat), data : Seq(Parts), state : {"writing", "kept", "removed"}])
  /\ ends \in Seq([stage : {"done", "failed"}, file : Files])
  /\ claimed \in SUBSET Files

\* A file the receiver reports as received is the file that was sent, however the
\* network cut and joined the bytes, and whatever file came before or after it.
ReceivedWhole ==
  \A i \in 1..Len(disk) : disk[i].state = "kept" => disk[i].data = Content(disk[i].file)

\* While a file is being received, what has been written and what comes next in
\* the stream are consecutive parts of that file: the two ends agree where in the
\* stream the file begins and ends, although nothing marks it.
InStep ==
  receiving =>
    LET w == disk[Len(disk)]  got == Len(w.data)  left == expected - got IN
    /\ w.data = SubSeq(Content(w.file), 1, got)
    /\ expected = Size[w.file] /\ left > 0
    /\ buffer = <<>>
    /\ \A i \in 1..Len(stream) : i <= left => stream[i] = Content(w.file)[got + i]

\* A reply names no file.  While the sender is up, there is never more than one,
\* and it answers the request of the file the sender waits for: a sender that
\* took one file's reply for another's would stream data nobody expects.
ReplyIsForCurrent ==
  replies # <<>> /\ open =>
    /\ Len(replies) = 1
    /\ replies[1].file = current
    /\ \A op \in fileOps : op.kind \in {"request", "reply"}

\* Files are created in the order they were handed over, none of them twice; and
\* what the sender reports as done, the receiver had accepted and created.
AcceptedInOrder ==
  /\ \A i, j \in 1..Len(disk) : i < j => disk[i].file < disk[j].file
  /\ \A f \in claimed : \E i \in 1..Len(disk) : disk[i].file = f

\* Every incoming file ends once: the receiver's page gets one last event for it,
\* "done" if and only if the file has been kept, none while it is being written.
EndsOnce ==
  /\ \A i, j \in 1..Len(ends) : i < j => ends[i].file < ends[j].file
  /\ \A i \in 1..Len(disk) :
       /\ disk[i].state = "kept" <=> Peer!Ending("done", disk[i].file) \in {ends[j] : j \in 1..Len(ends)}
       /\ disk[i].state = "removed" <=> Peer!Ending("failed", disk[i].file) \in {ends[j] : j \in 1..Len(ends)}

\* A file that has been kept or removed is not touched again, whatever is left of
\* it in the buffer or in the stream.
EndedIsFinal ==
  [][\A i \in 1..Len(disk) : disk[i].state # "writing" => disk'[i] = disk[i]]_allVars

\* No incoming file takes the path of another that is there, or of one that was
\* there before: it would overwrite it, and remove it when it is given up.  A name
\* can be sent twice, and a numbered name be the name of another file.
PathsApart ==
  \A i \in 1..Len(disk) : disk[i].state # "removed" =>
    /\ disk[i].path \notin Taken
    /\ \A j \in 1..Len(disk) : i # j /\ disk[j].state # "removed" => disk[i].path # disk[j].path

\* Every request gets its answer, acceptance or refusal, as long as the connection
\* holds (Protocol.h:21), so that the sender's wait for it ends.
RequestAnswered ==
  \A f \in Files : Op("reply", f) \in fileOps ~> Op("reply", f) \notin fileOps

\* A file given up on the way may take the request of the next one with it (see
\* RequestAnswered); otherwise the sender's wait for a reply ends, whatever cannot
\* be created or is lost.
AnsweredUnlessAborted ==
  \A f \in Files : Op("reply", f) \in fileOps ~>
    \/ Op("reply", f) \notin fileOps
    \/ \E i \in 1..Len(disk) : disk[i].state = "removed"

\* What the sender reports as done comes to its end at the receiver, unless the
\* connection is lost first: the sender waits for no confirmation, and what it has
\* not yet seen read must not be left lying.
DoneIsReceived ==
  \A f \in Files : f \in claimed ~>
    (lost \/ \E i \in 1..Len(disk) : disk[i].file = f /\ disk[i].state # "writing")

\* When both read loops are over no half file is left (PeerConnection.cpp:213).
NoHalfFile ==
  mainRead = "over" /\ fileRead = "over" =>
    \A i \in 1..Len(disk) : disk[i].state # "writing"
=============================================================================
