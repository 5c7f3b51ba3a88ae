---------------------------- MODULE PeerConnection ----------------------------
(***************************************************************************)
(* The receiving end of a device's two connections (PeerConnection.cpp):   *)
(* here, how files come in.  Each of the two sockets has a read loop: the  *)
(* handler of a read takes the bytes in, parses what it can and issues the *)
(* next read.  The first read error on either socket closes both.          *)
(*                                                                         *)
(* Bytes are grouped into parts: the two halves of a request, so that a    *)
(* read can stop inside it, and the chunks of data.  A request announces   *)
(* the file's size in chunks.  Data is assumed not to look like a request. *)
(***************************************************************************)
EXTENDS Integers, Sequences, FiniteSets

CONSTANTS
  DiskFails,  \* what the disk may fail at: "open", "write", "flush"
  Name,       \* the name each file is sent under
  Taken       \* the paths in use in the download directory beforehand

VARIABLES
  stream,     \* parts sent on the file socket and not read yet (TCP)
  replies,    \* replies sent on the file socket and not read yet (TCP)
  mainRead,   \* the read loop of m_main: "listening" or "over"
  fileRead,   \* that of m_file: "listening", "closed" if its read was issued
              \* on a closed socket, or "over"
  lost,       \* m_lost
  buffer,     \* m_fileBuffer
  receiving,  \* m_receiving
  expected,   \* m_expected
  disk,       \* the files created, in order; the last one is m_outPath
  ends        \* history: the last event of each incoming file, in order

peerVars == <<stream, replies, mainRead, fileRead, lost,
              buffer, receiving, expected, disk, ends>>

Part(kind, f, n) == [kind |-> kind, file |-> f, n |-> n]
Reply(kind, f) == [kind |-> kind, file |-> f]
Ending(stage, f) == [stage |-> stage, file |-> f]

PeerInit ==
  /\ stream = <<>> /\ replies = <<>>
  /\ mainRead = "listening" /\ fileRead = "listening"
  /\ lost = FALSE
  /\ buffer = <<>> /\ receiving = FALSE /\ expected = 0
  /\ disk = <<>> /\ ends = <<>>

-----------------------------------------------------------------------------
\* The parser works on a record `p` of the variables it changes; `bad` is what
\* the disk fails at during this handler.
Parser(input) ==
  [buffer |-> buffer \o input, receiving |-> receiving, expected |-> expected,
   disk |-> disk, replies |-> replies, ends |-> ends, stop |-> FALSE]

Written(p) == p.disk[Len(p.disk)]

\* finishReceive().  What close() could not flush is lost, and nobody asks.
FinishReceive(p, bad) ==
  [p EXCEPT
    !.receiving = FALSE,
    !.disk[Len(p.disk)].state = "kept",
    !.disk[Len(p.disk)].data =
        IF "flush" \in bad /\ @ # <<>> THEN SubSeq(@, 1, Len(@) - 1) ELSE @,
    !.ends = Append(@, Ending("done", Written(p).file))]

\* MUTANT: a file given up is treated like one that is complete.
AbortAsFinish(p) == FinishReceive(p, {})

\* MUTANT: m_receiving is not reset.
AbortStillReceiving(p) ==
  [p EXCEPT
    !.disk[Len(p.disk)].state = "removed",
    !.ends = Append(@, Ending("failed", Written(p).file))]

\* MUTANT: the sender is told, with the reply meant for requests.
AbortAndRefuse(p) ==
  [p EXCEPT
    !.receiving = FALSE,
    !.disk[Len(p.disk)].state = "removed",
    !.replies = Append(@, Reply("other", Written(p).file)),
    !.ends = Append(@, Ending("failed", Written(p).file))]

\* abortReceive()
AbortReceive(p) ==
  [p EXCEPT
    !.receiving = FALSE,
    !.disk[Len(p.disk)].state = "removed",
    !.ends = Append(@, Ending("failed", Written(p).file))]

\* MUTANT: accepted before the file has been created.
AcceptUnopened(p, f) ==
  [p EXCEPT !.replies = Append(@, Reply("ack", f)), !.ends = Append(@, Ending("failed", f))]

\* MUTANT: no reply when the file cannot be created.
RefuseSilently(p, f) == [p EXCEPT !.ends = Append(@, Ending("failed", f))]

\* The file cannot be created.
Refuse(p, f) ==
  [p EXCEPT !.replies = Append(@, Reply("other", f)), !.ends = Append(@, Ending("failed", f))]

\* A name is a sequence: what the file is called, then the numbers added to it.
Numbered(name, i) == IF i = 0 THEN name ELSE Append(name, i)

\* The paths that exist while the receiver's files are `written`.
Existing(written) ==
  Taken \cup {written[i].path : i \in {j \in 1..Len(written) : written[j].state # "removed"}}

\* MUTANT: a number is added once, and the result is taken as it is.
NumberedOnce(name, existing) == Numbered(name, IF name \in existing THEN 1 ELSE 0)

\* UniquePath(): the first of "name", "name (1)", "name (2)", ... that does not exist.
UniquePath(name, existing) ==
  LET free == {i \in 0..Cardinality(existing) : Numbered(name, i) \notin existing}
  IN  Numbered(name, CHOOSE i \in free : \A j \in free : i <= j)

Accept(p, f) ==
  [p EXCEPT
    !.receiving = TRUE,
    !.disk = Append(@, [file |-> f, path |-> UniquePath(Name[f], Existing(@)),
                        data |-> <<>>, state |-> "writing"]),
    !.replies = Append(@, Reply("ack", f))]

\* beginReceive()
BeginReceive(p, f, size, bad) ==
  LET q == [p EXCEPT !.expected = size] IN
  IF "open" \in bad THEN Refuse(q, f)
  ELSE IF size = 0 THEN FinishReceive(Accept(q, f), bad)
  ELSE Accept(q, f)

\* How much of the buffer belongs to the file being received.
Take(p) == LET remaining == p.expected - Len(Written(p).data) IN
           IF Len(p.buffer) < remaining THEN Len(p.buffer) ELSE remaining

\* Data goes to the file; a write error ends the file and the parsing.
StoreData(p, bad) ==
  LET q == [p EXCEPT
              !.buffer = SubSeq(@, Take(p) + 1, Len(@)),
              !.disk[Len(p.disk)].data = @ \o SubSeq(p.buffer, 1, Take(p))]
  IN  IF "write" \in bad THEN [AbortReceive(q) EXCEPT !.stop = TRUE]
      ELSE IF Len(Written(q).data) = q.expected THEN FinishReceive(q, bad)
      ELSE q

\* One turn of the loop in parseFile().  An incomplete request waits for more;
\* anything that is not a request is thrown away, with all that follows it.
ParseOnce(p, bad) ==
  CASE p.stop \/ p.buffer = <<>> -> p
    [] ~p.stop /\ p.buffer # <<>> /\ p.receiving -> StoreData(p, bad)
    [] ~p.stop /\ p.buffer # <<>> /\ ~p.receiving ->
         IF p.buffer[1].kind # "req" THEN [p EXCEPT !.buffer = <<>>]
         ELSE IF Len(p.buffer) = 1 THEN [p EXCEPT !.stop = TRUE]
         ELSE BeginReceive([p EXCEPT !.buffer = SubSeq(@, 3, Len(@))],
                           p.buffer[2].file, p.buffer[2].n, bad)

\* parseFile(): a turn uses up a part or is the last one.
ParseFile(p, bad) ==
  LET turn[k \in 0..Len(p.buffer)] ==
        IF k = 0 THEN p ELSE ParseOnce(turn[k - 1], bad)
  IN  turn[Len(p.buffer)]

\* The variables take the values the parser has left; a reply sent on a socket
\* that has been closed is lost.
Store(p) ==
  /\ buffer' = p.buffer /\ receiving' = p.receiving /\ expected' = p.expected
  /\ disk' = p.disk /\ ends' = p.ends
  /\ replies' = IF lost THEN replies ELSE p.replies

\* MUTANT: the next read is not issued.
ReadOnce == "over"

\* readFile() after a handler: the next read, on whatever socket there is.
ReadAgain == IF lost THEN "closed" ELSE "listening"

\* A read of the file socket returns the first k parts.  After handleLost() this
\* is a read that had completed before; the next one is issued all the same.
FileRead(k, bad) ==
  /\ fileRead = "listening"
  /\ k \in 1..Len(stream)
  /\ stream' = SubSeq(stream, k + 1, Len(stream))
  /\ Store(ParseFile(Parser(SubSeq(stream, 1, k)), bad))
  /\ fileRead' = ReadAgain
  /\ UNCHANGED <<mainRead, lost>>

\* handleLost(): only the first error counts.
HandleLost ==
  \/ lost /\ UNCHANGED <<lost, buffer, receiving, expected, disk, ends>>
  \/ /\ ~lost
     /\ lost' = TRUE
     /\ LET p == Parser(<<>>)
            q == IF receiving THEN AbortReceive(p) ELSE p
        IN  /\ buffer' = q.buffer /\ receiving' = q.receiving /\ expected' = q.expected
            /\ disk' = q.disk /\ ends' = q.ends

MainReadError ==
  /\ mainRead = "listening"
  /\ mainRead' = "over"
  /\ HandleLost
  /\ UNCHANGED <<stream, replies, fileRead>>

FileReadError ==
  /\ fileRead # "over"
  /\ fileRead' = "over"
  /\ HandleLost
  /\ UNCHANGED <<stream, replies, mainRead>>
=============================================================================
