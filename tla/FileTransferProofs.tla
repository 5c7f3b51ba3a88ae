--------------------------- MODULE FileTransferProofs ---------------------------
(***************************************************************************)
(* The transfer of files for every number, size and name of files, every   *)
(* failure of the disk, and every way the network cuts and joins what is   *)
(* sent: the properties of FileTransfer that the runs check on a small     *)
(* instance follow from the inductive invariant TransferInv, and a sender  *)
(* that talks to this receiver implements TransferContract.                *)
(***************************************************************************)
EXTENDS ParserProofs, ClientSocketProofs

-----------------------------------------------------------------------------
\* What the sender puts on the wire.

\* q is p, but for the replies on their way.
SameButReplies(p, q) ==
  /\ q.receiving = p.receiving /\ q.expected = p.expected /\ q.stop = p.stop
  /\ q.disk = p.disk /\ q.ends = p.ends

\* The part of the invariant that does not depend on the sender.
Received(p, w) ==
  Shape(w) /\ Agreed(p, w) /\ Whole(p.disk) /\ Ordered(p, w) /\ Apart(p.disk)

\* Which replies are on their way makes no difference to what has been received.
LEMMA ReceivedSame ==
  ASSUME NEW p \in ParserType, NEW q \in ParserType, SameButReplies(p, q),
         NEW w, Received(p, w)
  PROVE  Received(q, w)
  <1>1. /\ q.receiving = p.receiving /\ q.expected = p.expected /\ q.stop = p.stop
        /\ q.disk = p.disk /\ q.ends = p.ends /\ Peer!Written(q) = Peer!Written(p)
    BY DEF SameButReplies, Peer!Written
  <1>2. Left(q) = Left(p) /\ (Receiving(p) => Receiving(q))
    BY <1>1 DEF Left, Receiving
  <1>3. Shape(w) /\ Agreed(p, w) /\ Whole(p.disk) /\ Ordered(p, w) /\ Apart(p.disk)
    BY DEF Received
  <1>4. Agreed(q, w)
    BY <1>1, <1>2, <1>3 DEF Agreed
  <1>5. Ordered(q, w)
    BY <1>1, <1>3 DEF Ordered, OnlyLastWriting, NotEnded
  <1>. QED BY <1>1, <1>3, <1>4, <1>5 DEF Received

\* Data in front of something is not changed by it.
LEMMA PartAppended ==
  ASSUME NEW w \in Seq(Parts), NEW a \in Parts, NEW x, x = w \o <<a>>
  PROVE  /\ x \in Seq(Parts) /\ Len(x) = Len(w) + 1 /\ Len(w) \in Nat
         /\ \A i \in 1..Len(w) : x[i] = w[i]
         /\ x[Len(w) + 1] = a
         /\ \A i \in 1..Len(x) : i \in 1..Len(w) \/ i = Len(w) + 1
  <1>. DEFINE t == <<a>>
  <1>1. t \in Seq(Parts) /\ Len(t) = 1 /\ t[1] = a
    OBVIOUS
  <1>2. x = w \o t
    OBVIOUS
  <1>. HIDE DEF t
  <1>3. /\ x \in Seq(Parts) /\ Len(x) = Len(w) + Len(t)
        /\ \A i \in 1..Len(w) + Len(t) : x[i] = IF i <= Len(w) THEN w[i] ELSE t[i - Len(w)]
    BY <1>1, <1>2, ConcatProperties
  <1>4. Len(w) \in Nat
    OBVIOUS
  <1>5. /\ Len(x) = Len(w) + 1
        /\ \A i \in 1..Len(w) + 1 : x[i] = IF i <= Len(w) THEN w[i] ELSE t[i - Len(w)]
    BY <1>1, <1>3
  <1>6. \A i \in 1..Len(w) : x[i] = w[i]
    BY <1>4, <1>5
  <1>7. x[Len(w) + 1] = a
    <2>. DEFINE n == Len(w)
    <2>1. n \in Nat /\ \A i \in 1..n + 1 : x[i] = IF i <= n THEN w[i] ELSE t[i - n]
      BY <1>4, <1>5
    <2>. HIDE DEF n
    <2>2. n + 1 \in 1..n + 1 /\ ~(n + 1 <= n) /\ (n + 1) - n = 1
      BY <2>1
    <2>3. x[n + 1] = t[1]
      BY <2>1, <2>2
    <2>. QED BY <1>1, <2>3 DEF n
  <1>8. \A i \in 1..Len(x) : i \in 1..Len(w) \/ i = Len(w) + 1
    BY <1>4, <1>5
  <1>. QED BY <1>3, <1>4, <1>5, <1>6, <1>7, <1>8

\* The two parts of a request behind what is on its way.
LEMMA RequestAppended ==
  ASSUME NEW w \in Seq(Parts), NEW a \in Parts, NEW b \in Parts, NEW x, x = w \o <<a, b>>
  PROVE  /\ x \in Seq(Parts) /\ Len(x) = Len(w) + 2 /\ Len(w) \in Nat
         /\ \A i \in 1..Len(w) : x[i] = w[i]
         /\ x[Len(w) + 1] = a /\ x[Len(w) + 2] = b
         /\ \A i \in 1..Len(x) : i \in 1..Len(w) \/ i = Len(w) + 1 \/ i = Len(w) + 2
  <1>. DEFINE t == <<a, b>>  n == Len(w)
  <1>1. t \in Seq(Parts) /\ Len(t) = 2 /\ t[1] = a /\ t[2] = b
    OBVIOUS
  <1>2. x = w \o t
    OBVIOUS
  <1>. HIDE DEF t
  <1>3. /\ x \in Seq(Parts) /\ Len(x) = n + Len(t)
        /\ \A i \in 1..n + Len(t) : x[i] = IF i <= n THEN w[i] ELSE t[i - n]
    BY <1>1, <1>2, ConcatProperties
  <1>4. n \in Nat
    OBVIOUS
  <1>. HIDE DEF n
  <1>5. /\ Len(x) = n + 2
        /\ \A i \in 1..n + 2 : x[i] = IF i <= n THEN w[i] ELSE t[i - n]
    BY <1>1, <1>3
  <1>6. \A i \in 1..n : x[i] = w[i]
    BY <1>4, <1>5
  <1>7. x[n + 1] = a
    <2>1. n + 1 \in 1..n + 2 /\ ~(n + 1 <= n) /\ (n + 1) - n = 1
      BY <1>4
    <2>2. x[n + 1] = t[1]
      BY <1>5, <2>1
    <2>. QED BY <1>1, <2>2
  <1>8. x[n + 2] = b
    <2>1. n + 2 \in 1..n + 2 /\ ~(n + 2 <= n) /\ (n + 2) - n = 2
      BY <1>4
    <2>2. x[n + 2] = t[2]
      BY <1>5, <2>1
    <2>. QED BY <1>1, <2>2
  <1>9. \A i \in 1..Len(x) : i \in 1..n \/ i = n + 1 \/ i = n + 2
    BY <1>4, <1>5
  <1>. QED BY <1>3, <1>4, <1>5, <1>6, <1>7, <1>8, <1>9 DEF n

\* What must be so when a request, or a chunk, is sent, and what is so then.
MayRequest(p, w, g) ==
  /\ p \in ParserType /\ w \in Seq(Parts) /\ g \in Files
  /\ Received(p, w) /\ OnlyData(w) /\ (p.receiving = TRUE => Len(w) = Left(p))
  /\ \A i \in 1..Len(p.disk) : p.disk[i].file < g
  /\ \A i \in 1..Len(p.ends) : p.ends[i].file < g

\* The request of g is on its way.
Asked(p, g, x) ==
  /\ x \in Seq(Parts) /\ Received(p, x)
  /\ \A i \in 1..Len(x) : x[i].kind # "data" => x[i].file = g
  /\ p.receiving = TRUE => Len(x) = Left(p) + 2

\* The n-th chunk of g may be sent: all before it have been, and no others.
MayStream(p, w, g, n) ==
  /\ p \in ParserType /\ w \in Seq(Parts) /\ g \in Files
  /\ n \in Nat /\ n > 0 /\ n <= Size[g]
  /\ Received(p, w) /\ OnlyData(w)
  /\ p.receiving = TRUE => /\ Peer!Written(p).file = g
                           /\ Len(Peer!Written(p).data) + Len(w) = n - 1

\* All n chunks are on their way or written.
Streamed(p, n, x) ==
  /\ x \in Seq(Parts) /\ Received(p, x) /\ OnlyData(x)
  /\ p.receiving = TRUE => Len(Peer!Written(p).data) + Len(x) = n

\* A request is sent when what is on its way belongs to the file being received
\* and completes it.
LEMMA RequestOnWire ==
  ASSUME NEW p, NEW w, NEW g, NEW x, MayRequest(p, w, g),
         NEW t, t = <<Peer!Part("req", g, 0), Peer!Part("size", g, Size[g])>>, x = w \o t
  PROVE  Asked(p, g, x)
  <1>. DEFINE a == Peer!Part("req", g, 0)  b == Peer!Part("size", g, Size[g])
  <1>1. x = w \o <<a, b>> /\ a = Peer!Part("req", g, 0) /\ b = Peer!Part("size", g, Size[g])
    OBVIOUS
  <1>2. /\ p \in ParserType /\ w \in Seq(Parts) /\ g \in Files
        /\ Received(p, w) /\ OnlyData(w) /\ (p.receiving = TRUE => Len(w) = Left(p))
        /\ \A i \in 1..Len(p.disk) : p.disk[i].file < g
        /\ \A i \in 1..Len(p.ends) : p.ends[i].file < g
    BY DEF MayRequest
  <1>. USE <1>2, <1>1
  <1>. HIDE DEF a, b
  <1>. DEFINE m == Len(w) + 1  n == Len(w) + 2
  <1>3. Size[g] \in 0..MaxChunks /\ 0 \in 0..MaxChunks
    BY SizeAssumption, BoundsAssumption DEF BoundsAssumption
  <1>4. /\ a \in Parts /\ a.kind = "req" /\ a.file = g
        /\ b \in Parts /\ b.kind = "size" /\ b.file = g /\ b.n = Size[g]
    BY <1>3 DEF Parts, Peer!Part
  <1>5. /\ x \in Seq(Parts) /\ Len(x) = n /\ Len(w) \in Nat
        /\ \A i \in 1..Len(w) : x[i] = w[i]
        /\ x[m] = a /\ x[n] = b
        /\ \A i \in 1..Len(x) : i \in 1..Len(w) \/ i = m \/ i = n
    <2>1. a \in Parts /\ b \in Parts
      BY <1>4
    <2>. QED BY <2>1, RequestAppended
  <1>6. m = n - 1 /\ m + 1 = n /\ n \in Nat /\ m \in Nat
    BY <1>5
  <1>7. n = Len(w) + 2 /\ m = Len(w) + 1
    OBVIOUS
  <1>. HIDE DEF m, n
  <1>8. \A i \in 1..Len(w) : x[i].kind = "data"
    BY <1>5 DEF OnlyData
  <1>9. Shape(x)
    <2>1. ASSUME NEW i \in 1..Len(x), x[i].kind = "size"
          PROVE  i = Len(x) /\ x[i].n = Size[x[i].file]
      <3>1. i = n
        BY <1>4, <1>5, <1>8, <2>1
      <3>. QED BY <1>4, <1>5, <3>1
    <2>2. ASSUME NEW i \in 1..Len(x), x[i].kind = "req"
          PROVE  i = Len(x) - 1 /\ x[i + 1].kind = "size" /\ x[i + 1].file = x[i].file
      <3>1. i = m
        BY <1>4, <1>5, <1>8, <2>2
      <3>. QED BY <1>4, <1>5, <1>6, <3>1
    <2>. QED BY <2>1, <2>2 DEF Shape
  <1>10. p.receiving = TRUE => Len(x) = Left(p) + 2
    BY <1>5, <1>7
  <1>11. ASSUME NEW i \in 1..Len(x), x[i].kind # "data" PROVE x[i].file = g
    <2>1. i = m \/ i = n
      BY <1>5, <1>8, <1>11
    <2>. QED BY <1>4, <1>5, <2>1
  <1>12. Agreed(p, x)
    <2>. SUFFICES ASSUME p.receiving = TRUE
                  PROVE  /\ \A i \in 1..Len(x) : i <= Left(p) =>
                              x[i] = Peer!Part("data", Peer!Written(p).file,
                                               Len(Peer!Written(p).data) + i)
                         /\ Len(x) = Left(p) + 2 /\ x[Left(p) + 1].kind = "req"
      BY DEF Agreed, Received
    <2>1. Len(w) = Left(p)
      OBVIOUS
    <2>2. x[Left(p) + 1].kind = "req"
      BY <1>4, <1>5, <1>7, <2>1
    <2>3. ASSUME NEW i \in 1..Len(x), i <= Left(p)
          PROVE  x[i] = Peer!Part("data", Peer!Written(p).file, Len(Peer!Written(p).data) + i)
      <3>1. i \in 1..Len(w) /\ x[i] = w[i]
        <4>1. i \in 1..Len(w)
          BY <1>5, <2>1, <2>3
        <4>. QED BY <1>5, <4>1
      <3>. QED BY <2>3, <3>1 DEF Agreed, Received
    <2>. QED BY <1>10, <2>2, <2>3
  <1>13. Ordered(p, x)
    <2>1. \A i \in 1..Len(x) : x[i].kind = "req" => x[i].file = g
      BY <1>11
    <2>2. Fresh(x, p.disk) /\ Fresh(x, p.ends)
      BY <2>1 DEF Fresh
    <2>. QED BY <2>2 DEF Ordered, Received
  <1>. QED BY <1>5, <1>9, <1>10, <1>11, <1>12, <1>13 DEF Received, Asked

\* A chunk is sent when what is on its way belongs to its file, up to this chunk.
LEMMA ChunkOnWire ==
  ASSUME NEW p, NEW w, NEW g, NEW n, NEW x, MayStream(p, w, g, n),
         NEW t, t = <<Peer!Part("data", g, n)>>, x = w \o t
  PROVE  Streamed(p, n, x)
  <1>1. /\ p \in ParserType /\ w \in Seq(Parts) /\ g \in Files
        /\ n \in Nat /\ n > 0 /\ n <= Size[g]
        /\ Received(p, w) /\ OnlyData(w)
        /\ p.receiving = TRUE => /\ Peer!Written(p).file = g
                                 /\ Len(Peer!Written(p).data) + Len(w) = n - 1
    BY DEF MayStream
  <1>2. x = w \o <<Peer!Part("data", g, n)>>
    OBVIOUS
  <1>. USE <1>1, <1>2
  <1>. DEFINE a == Peer!Part("data", g, n)  m == Len(w) + 1
  <1>3. Size[g] \in 0..MaxChunks /\ MaxChunks \in Nat
    BY SizeAssumption, BoundsAssumption DEF BoundsAssumption
  <1>4. n \in 0..MaxChunks
    BY <1>3
  <1>5. a \in Parts /\ a.kind = "data"
    BY <1>4 DEF Parts, Peer!Part
  <1>. HIDE DEF a
  <1>6. /\ x \in Seq(Parts) /\ Len(x) = m /\ Len(w) \in Nat
        /\ \A i \in 1..Len(w) : x[i] = w[i]
        /\ x[m] = a
        /\ \A i \in 1..Len(x) : i \in 1..Len(w) \/ i = m
    BY <1>5, PartAppended DEF a
  <1>7. m = Len(w) + 1
    OBVIOUS
  <1>. HIDE DEF m
  <1>8. \A i \in 1..Len(x) : x[i].kind = "data"
    BY <1>5, <1>6 DEF OnlyData
  <1>9. OnlyData(x) /\ Shape(x)
    BY <1>8 DEF OnlyData, Shape
  <1>10. Fresh(x, p.disk) /\ Fresh(x, p.ends)
    BY <1>8 DEF Fresh
  <1>11. Ordered(p, x)
    BY <1>10 DEF Ordered, Received
  <1>12. ASSUME p.receiving = TRUE
         PROVE  /\ Len(Peer!Written(p).data) + Len(x) = n
                /\ Agreed(p, x)
    <2>. DEFINE v == Peer!Written(p)  got == Len(v.data)
    <2>1. v.file = g /\ got + Len(w) = n - 1
      BY <1>12
    <2>2. /\ Receiving(p) /\ p.stop = FALSE
          /\ \A i \in 1..got : v.data[i] = Peer!Part("data", v.file, i)
          /\ p.expected = Size[v.file]
          /\ \A i \in 1..Len(w) : i <= Left(p) => w[i] = Peer!Part("data", v.file, got + i)
      BY <1>12 DEF Received, Agreed
    <2>3. p.disk \in Seq(Entries)
      BY FieldTypes
    <2>4. v \in Entries
      BY <2>2, <2>3 DEF Receiving, Peer!Written
    <2>5. got \in Nat
      BY <2>4 DEF Entries
    <2>6. Left(p) = p.expected - got
      BY DEF Left
    <2>. HIDE DEF v, got
    <2>7. Len(w) < Left(p) /\ Len(x) <= Left(p) /\ got + Len(x) = n
      <3>. DEFINE size == Size[g]
      <3>1. size \in Nat /\ n <= size /\ Left(p) = size - got
        BY <1>3, <2>1, <2>2, <2>6
      <3>. HIDE DEF size
      <3>. QED BY <1>6, <1>7, <2>1, <2>5, <3>1
    <2>8. ASSUME NEW i \in 1..Len(x), i <= Left(p)
          PROVE  x[i] = Peer!Part("data", v.file, got + i)
      <3>1. CASE i \in 1..Len(w)
        BY <1>6, <2>2, <2>8, <3>1
      <3>2. CASE i = m
        <4>1. got + m = n
          BY <1>6, <2>7
        <4>. QED BY <1>6, <2>1, <3>2, <4>1 DEF a
      <3>. QED BY <1>6, <3>1, <3>2
    <2>9. Agreed(p, x)
      BY <2>2, <2>7, <2>8 DEF Agreed, v, got
    <2>. QED BY <2>7, <2>9 DEF v, got
  <1>13. Agreed(p, x)
    BY <1>12 DEF Agreed
  <1>. QED BY <1>6, <1>9, <1>11, <1>12, <1>13 DEF Received, Streamed
-----------------------------------------------------------------------------
\* The inductive invariant.

\* The parser between two handlers, and what it has in front of it.
AtRest == [buffer |-> buffer, receiving |-> receiving, expected |-> expected,
           disk |-> disk, replies |-> replies, ends |-> ends, stop |-> FALSE]

\* What the receiver has not parsed yet: what it has read, and what is still in the stream.
Coming == buffer \o stream

\* The two read loops, the connection, and the history variable.
LoopType ==
  /\ mainRead \in {"listening", "over"} /\ fileRead \in {"listening", "closed", "over"}
  /\ lost \in BOOLEAN /\ claimed \in SUBSET Files

\* Files above `lo`, up to `hi`, in order.
QueueOk(s, lo, hi) ==
  /\ \A i \in 1..Len(s) : lo < s[i] /\ s[i] <= hi
  /\ \A i, j \in 1..Len(s) : i < j => s[i] < s[j]

\* The files are sent in the order of their numbers.
Queue == current <= lastFile /\ QueueOk(files, current, lastFile)

\* The inductive invariant: the sender's (ClientSocketProofs), the parser's for what is
\* coming, the order of the sender's queue, and that what it reports as done exists.
TransferInv ==
  /\ Inv
  /\ AtRest \in ParserType /\ stream \in Seq(Parts) /\ LoopType
  /\ ParserInv(AtRest, Coming)
  /\ receiving = TRUE => buffer = <<>>
  /\ Queue
  /\ \A f \in claimed : HasFile(disk, f)

\* The parser between two handlers has the values of the variables.
LEMMA AtRestFields ==
  /\ AtRest.buffer = buffer /\ AtRest.receiving = receiving /\ AtRest.expected = expected
  /\ AtRest.disk = disk /\ AtRest.replies = replies /\ AtRest.ends = ends /\ AtRest.stop = FALSE
  BY DEF AtRest

\* And so it has after a step.
LEMMA AtRestFieldsPrime ==
  ASSUME NEW q, q = AtRest'
  PROVE
  /\ q.buffer = buffer' /\ q.receiving = receiving' /\ q.expected = expected'
  /\ q.disk = disk' /\ q.replies = replies' /\ q.ends = ends' /\ q.stop = FALSE
  BY DEF AtRest

\* The variables have their types when the parser at rest has.
LEMMA AtRestTypes ==
  AtRest \in ParserType <=>
    /\ buffer \in Seq(Parts) /\ receiving \in BOOLEAN /\ expected \in 0..MaxChunks
    /\ disk \in Seq(Entries) /\ replies \in Seq(Replies) /\ ends \in Seq(Endings)
  BY DEF AtRest, ParserType

\* And so they have after a step.
LEMMA AtRestTypesPrime ==
  ASSUME NEW q, q = AtRest'
  PROVE  q \in ParserType <=>
    /\ buffer' \in Seq(Parts) /\ receiving' \in BOOLEAN /\ expected' \in 0..MaxChunks
    /\ disk' \in Seq(Entries) /\ replies' \in Seq(Replies) /\ ends' \in Seq(Endings)
  BY DEF AtRest, ParserType

\* What is said of the sender and what is said of the bytes.
LEMMA ParserInvParts ==
  ASSUME NEW p, NEW w
  PROVE  ParserInv(p, w) <=> Received(p, w) /\ Tie(p, w) /\ Bounded(p)
  BY DEF ParserInv, Received

-----------------------------------------------------------------------------
\* The steps of the sender.

\* Handler events s report no other file as done than those of S.
Reports(s, S) == \A i \in 1..Len(s) : s[i].stage = "done" => s[i].file \in S

\* startNextFile() takes a file of the queue, or none.
LEMMA StartNextQueue ==
  ASSUME NEW queue \in Seq(Files), NEW lo \in Int, NEW hi \in Int, QueueOk(queue, lo, hi),
         NEW events, StartNextFile(queue, {}, events)
  PROVE  /\ sent' = 0
         /\ \/ current' = 0 /\ files' = <<>> /\ fileOps' = {}
            \/ /\ current' \in Files /\ lo < current' /\ current' <= hi
               /\ fileOps' = {Op("request", current')}
               /\ QueueOk(files', current', hi)
  <1>1. PICK skip \in 0..Len(queue) :
          /\ sent' = 0
          /\ \/ /\ skip = Len(queue)
                /\ files' = <<>> /\ current' = 0 /\ fileOps' = {}
             \/ /\ skip < Len(queue)
                /\ files' = SubSeq(queue, skip + 2, Len(queue))
                /\ current' = queue[skip + 1]
                /\ fileOps' = {} \cup {Op("request", queue[skip + 1])}
    BY DEF StartNextFile
  <1>2. CASE skip < Len(queue)
    <2>. DEFINE n == Len(queue)  k == skip + 1  c == SubSeq(queue, skip + 2, Len(queue))
    <2>1. n \in Nat /\ skip \in Nat /\ k \in 1..n /\ skip + 2 = k + 1
      BY <1>2
    <2>2. /\ sent' = 0 /\ files' = c /\ current' = queue[k]
          /\ fileOps' = {Op("request", queue[k])}
      <3>1. skip # Len(queue)
        BY <1>2
      <3>2. /\ files' = c /\ current' = queue[k]
            /\ fileOps' = {} \cup {Op("request", queue[k])}
        BY <1>1, <3>1
      <3>3. {} \cup {Op("request", queue[k])} = {Op("request", queue[k])}
        OBVIOUS
      <3>. QED BY <1>1, <3>2, <3>3
    <2>3. \A i \in k + 1..n : queue[i] \in Files
      BY <2>1
    <2>4. /\ Len(c) = IF k + 1 <= n THEN n - (k + 1) + 1 ELSE 0
          /\ \A i \in 1..n - (k + 1) + 1 : c[i] = queue[k + 1 + i - 1]
      BY <2>1, <2>3, SubSeqProperties
    <2>. HIDE DEF n, k, c
    <2>5. Len(c) = n - k
      BY <2>1, <2>4
    <2>6. ASSUME NEW i \in 1..Len(c)
          PROVE  i + k \in 1..n /\ k < i + k /\ c[i] = queue[i + k]
      <3>1. i \in 1..n - (k + 1) + 1 /\ k + 1 + i - 1 = i + k
        BY <2>1, <2>5
      <3>2. i + k \in 1..n /\ k < i + k
        BY <2>1, <2>5
      <3>. QED BY <2>4, <3>1, <3>2
    <2>7. /\ \A i \in 1..n : lo < queue[i] /\ queue[i] <= hi
          /\ \A i, j \in 1..n : i < j => queue[i] < queue[j]
      BY DEF QueueOk, n
    <2>8. /\ \A i \in 1..Len(c) : queue[k] < c[i] /\ c[i] <= hi
      BY <2>1, <2>6, <2>7
    <2>9. ASSUME NEW i \in 1..Len(c), NEW j \in 1..Len(c), i < j PROVE c[i] < c[j]
      <3>1. i + k < j + k
        BY <2>1, <2>9
      <3>. QED BY <2>6, <2>7, <3>1
    <2>10. QueueOk(c, queue[k], hi)
      BY <2>8, <2>9 DEF QueueOk
    <2>11. queue[k] \in Files
      BY <2>1 DEF n
    <2>. QED BY <2>1, <2>2, <2>7, <2>10, <2>11
  <1>. QED BY <1>1, <1>2

\* What startNextFile() reports is no success of the files it skips.
LEMMA StartNextReports ==
  ASSUME NEW queue \in Seq(Files), NEW events \in Seq(Events), NEW S, Reports(events, S),
         NEW ops, StartNextFile(queue, ops, events)
  PROVE  Reports(out', S)
  <1>1. PICK skip \in 0..Len(queue) : out' = events \o Skipped(queue, skip)
    BY DEF StartNextFile
  <1>. DEFINE t == Skipped(queue, skip)  n == Len(events)
  <1>2. t \in Seq(Events) /\ \A i \in 1..Len(t) : t[i].stage = "failed"
    <2>1. /\ Skipped(queue, skip) \in Seq(Events)
          /\ Len(Skipped(queue, skip)) = skip
          /\ \A i \in 1..skip : Skipped(queue, skip)[i].stage = "failed"
      BY SkippedEffect, Zenon
    <2>. QED BY <2>1
  <1>3. out' = events \o t
    BY <1>1
  <1>. HIDE DEF t
  <1>4. /\ Len(out') = n + Len(t)
        /\ \A i \in 1..n + Len(t) : out'[i] = IF i <= n THEN events[i] ELSE t[i - n]
    BY <1>2, <1>3, ConcatProperties
  <1>5. n \in Nat /\ Len(t) \in Nat
    BY <1>2
  <1>. HIDE DEF n
  <1>6. ASSUME NEW i \in 1..Len(out'), out'[i].stage = "done" PROVE out'[i].file \in S
    <2>1. CASE i <= n
      <3>1. i \in 1..n /\ out'[i] = events[i]
        BY <1>4, <1>5, <2>1
      <3>. QED BY <1>6, <3>1 DEF Reports, n
    <2>2. CASE ~(i <= n)
      <3>1. i - n \in 1..Len(t)
        BY <1>4, <1>5, <2>2
      <3>2. out'[i] = t[i - n]
        BY <1>4, <2>2
      <3>. QED BY <1>2, <1>6, <3>1, <3>2
    <2>. QED BY <2>1, <2>2
  <1>. QED BY <1>6 DEF Reports

\* A handler that leaves the file socket as it was, or without a file, writes nothing.
LEMMA NothingWritten ==
  ASSUME Transmit, current' = 0 \/ UNCHANGED <<current, sent, fileOps>>
  PROVE  stream' = stream
  BY DEF Transmit, Issued

\* Otherwise it writes what its operation writes.
LEMMA OperationWritten ==
  ASSUME Transmit, NEW kind, current' # 0, fileOps' = {Op(kind, current')},
         <<current', sent', fileOps'>> # <<current, sent, fileOps>>
  PROVE  stream' = stream \o Bytes(Op(kind, current'), sent' + 1)
  <1>1. Issued
    BY DEF Issued
  <1>2. Op(kind, current').file = current'
    BY DEF Op
  <1>3. (CHOOSE op \in fileOps' : op.file = current') = Op(kind, current')
    BY <1>2
  <1>. QED BY <1>1, <1>3 DEF Transmit

\* What is claimed is what has been reported.
LEMMA Claims ==
  ASSUME Transmit, NEW S, Reports(out', S)
  PROVE  \A f \in claimed' : f \in claimed \/ f \in S
  BY DEF Transmit, Reports

\* The invariant after a step of the sender, from its parts.
LEMMA SenderKeeps ==
  ASSUME TransferInv, Inv', Transmit, replies' \in Seq(Replies), Queue',
         NEW S \in SUBSET Files, Reports(out', S), \A f \in S : HasFile(disk, f),
         open' = TRUE => open = TRUE /\ Reach <= Reach',
         stream' \in Seq(Parts),
         Received(AtRest, buffer \o stream'),
         NEW q, q = AtRest', NEW x, x = Coming', Tie(q, x)'
  PROVE  TransferInv'
  <1>1. UNCHANGED <<mainRead, fileRead, lost, buffer, receiving, expected, disk, ends>>
    BY DEF Transmit
  <1>2. /\ buffer \in Seq(Parts) /\ receiving \in BOOLEAN /\ expected \in 0..MaxChunks
        /\ disk \in Seq(Entries) /\ ends \in Seq(Endings) /\ AtRest \in ParserType
    BY AtRestTypes DEF TransferInv
  <1>3. q \in ParserType
    BY <1>1, <1>2, AtRestTypesPrime
  <1>4. LoopType'
    <2>1. LoopType
      BY DEF TransferInv
    <2>2. claimed' \in SUBSET Files
      BY <2>1, Claims DEF LoopType
    <2>. QED BY <1>1, <2>1, <2>2 DEF LoopType
  <1>5. x = buffer \o stream'
    BY <1>1 DEF Coming
  <1>6. SameButReplies(AtRest, q)
    BY <1>1, AtRestFields, AtRestFieldsPrime DEF SameButReplies
  <1>7. Received(q, x)
    BY <1>2, <1>3, <1>5, <1>6, ReceivedSame
  <1>8. Bounded(q)'
    <2>. SUFFICES ASSUME open' = TRUE PROVE Within(disk)' /\ Within(ends)'
      BY <1>1, AtRestFieldsPrime DEF Bounded
    <2>1. Within(disk) /\ Within(ends)
      BY AtRestFields DEF TransferInv, ParserInv, Bounded
    <2>2. Reach \in Int /\ Reach' \in Int
      BY BoundsAssumption DEF Reach, TransferInv, Inv, TypeOK, FileType, BoundsAssumption
    <2>3. \A i \in 1..Len(disk) : disk[i].file \in Int /\ disk[i].file <= Reach
      BY <1>2, <2>1, EntryTypes DEF Within
    <2>4. \A i \in 1..Len(ends) : ends[i].file \in Int /\ ends[i].file <= Reach
      BY <1>2, <2>1, EndingTypes DEF Within
    <2>5. \A i \in 1..Len(disk) : disk[i].file <= Reach'
      BY <2>2, <2>3
    <2>6. \A i \in 1..Len(ends) : ends[i].file <= Reach'
      BY <2>2, <2>4
    <2>. QED BY <1>1, <2>5, <2>6 DEF Within
  <1>9. Received(q, x)'
    BY <1>7 DEF Received, Shape, Agreed, Whole, WholeEntry, Ordered, Increasing, Fresh,
                OnlyLastWriting, NotEnded, Ended, Apart
  <1>10. ParserInv(q, x)'
    BY <1>8, <1>9 DEF ParserInv, Received
  <1>11. ParserInv(AtRest, Coming)'
    BY <1>10
  <1>12. (AtRest \in ParserType)'
    BY <1>3
  <1>13. (\A f \in claimed : HasFile(disk, f))'
    BY <1>1, Claims DEF TransferInv, HasFile
  <1>14. (receiving = TRUE => buffer = <<>>)'
    BY <1>1 DEF TransferInv
  <1>. QED BY <1>4, <1>11, <1>12, <1>13, <1>14 DEF TransferInv

\* What the invariant gives a step of the sender.
LEMMA SenderFacts ==
  ASSUME TransferInv
  PROVE  /\ Coming \in Seq(Parts) /\ AtRest \in ParserType
         /\ buffer \in Seq(Parts) /\ stream \in Seq(Parts) /\ replies \in Seq(Replies)
         /\ disk \in Seq(Entries) /\ ends \in Seq(Endings)
         /\ Received(AtRest, Coming) /\ Tie(AtRest, Coming) /\ Bounded(AtRest)
         /\ files \in Seq(Files) /\ current \in Int /\ sent \in Int /\ lastFile \in Int
         /\ current >= 0 /\ current <= lastFile /\ (current # 0 => current \in Files)
         /\ Reach \in Int /\ current <= Reach
  <1>1. /\ buffer \in Seq(Parts) /\ disk \in Seq(Entries) /\ ends \in Seq(Endings)
        /\ replies \in Seq(Replies) /\ stream \in Seq(Parts) /\ AtRest \in ParserType
    BY AtRestTypes DEF TransferInv
  <1>2. Coming \in Seq(Parts)
    BY <1>1, ConcatProperties DEF Coming
  <1>3. Received(AtRest, Coming) /\ Tie(AtRest, Coming) /\ Bounded(AtRest)
    BY ParserInvParts DEF TransferInv
  <1>4. /\ files \in Seq(Files) /\ current \in 0..MaxFiles /\ sent \in 0..MaxChunks
        /\ lastFile \in 0..MaxFiles /\ current <= lastFile
    BY DEF TransferInv, Inv, TypeOK, FileType, Queue
  <1>5. /\ current \in Int /\ sent \in Int /\ lastFile \in Int
        /\ current >= 0 /\ (current # 0 => current \in Files)
    BY <1>4, BoundsAssumption DEF BoundsAssumption, Files
  <1>6. Reach \in Int /\ current <= Reach
    <2>1. CASE current = 0
      BY <1>4, <1>5, <2>1 DEF Reach
    <2>2. CASE current # 0
      BY <1>4, <1>5, <2>2 DEF Reach
    <2>. QED BY <2>1, <2>2
  <1>. QED BY <1>1, <1>2, <1>3, <1>4, <1>5, <1>6

\* A handler that closes the connection, or finds it closed.
LEMMA SenderClosed ==
  ASSUME TransferInv, Inv', Transmit, replies' \in Seq(Replies), open' = FALSE,
         current' = 0, files' = <<>>, lastFile' = lastFile, Reports(out', {})
  PROVE  TransferInv'
  <1>1. stream' = stream
    BY NothingWritten
  <1>2. Queue'
    <2>1. current' <= lastFile'
      BY SenderFacts
    <2>2. \A i \in 1..Len(files') : FALSE
      OBVIOUS
    <2>. QED BY <2>1, <2>2 DEF Queue, QueueOk
  <1>. DEFINE q == AtRest'  x == Coming'
  <1>3. q = AtRest' /\ x = Coming'
    OBVIOUS
  <1>4. PICK y, z : y = AtRest' /\ z = Coming'
    BY <1>3
  <1>5. Tie(y, z)'
    BY DEF Tie
  <1>6. stream' \in Seq(Parts) /\ Received(AtRest, buffer \o stream')
    BY <1>1, SenderFacts DEF Coming
  <1>7. {} \in SUBSET Files /\ \A f \in {} : HasFile(disk, f)
    OBVIOUS
  <1>. QED BY <1>2, <1>4, <1>5, <1>6, <1>7, SenderKeeps

\* A handler after which the sender still waits for what it waited for.
LEMMA SenderWaits ==
  ASSUME TransferInv, Inv', Transmit, replies' = replies, stream' = stream,
         UNCHANGED <<open, current, sent>>, current # 0 => (Streaming' <=> Streaming),
         lastFile <= lastFile', Queue', Reports(out', {})
  PROVE  TransferInv'
  <1>1. PICK q, x : q = AtRest' /\ x = Coming'
    OBVIOUS
  <1>2. UNCHANGED <<buffer, receiving, expected, disk, ends>>
    BY DEF Transmit
  <1>3. q = AtRest /\ x = Coming
    BY <1>1, <1>2 DEF AtRest, Coming
  <1>4. Tie(AtRest, Coming)
    BY SenderFacts
  <1>5. Tie(q, x)'
    <2>1. Tie(q, x)
      BY <1>3, <1>4
    <2>2. AtRestTie(q, x) => AtRestTie(q, x)'
      BY DEF AtRestTie, OnlyData, Left
    <2>3. AwaitTie(q, x) => AwaitTie(q, x)'
      BY DEF AwaitTie, Left, HasFile
    <2>4. StreamTie(q, x) => StreamTie(q, x)'
      BY DEF StreamTie, OnlyData, HasFile
    <2>. QED BY <2>1, <2>2, <2>3, <2>4 DEF Tie
  <1>6. Reach <= Reach'
    <2>1. CASE current = 0
      BY <2>1 DEF Reach
    <2>2. CASE current # 0
      BY <2>2, SenderFacts DEF Reach
    <2>. QED BY <2>1, <2>2
  <1>7. /\ stream' \in Seq(Parts) /\ Received(AtRest, buffer \o stream')
        /\ replies' \in Seq(Replies)
    BY SenderFacts DEF Coming
  <1>8. {} \in SUBSET Files /\ \A f \in {} : HasFile(disk, f)
    OBVIOUS
  <1>. QED BY <1>1, <1>5, <1>6, <1>7, <1>8, SenderKeeps

\* What the sender writes goes behind what is on its way.
LEMMA Behind ==
  ASSUME TransferInv, NEW t \in Seq(Parts)
  PROVE  /\ stream \o t \in Seq(Parts)
         /\ buffer \o (stream \o t) = Coming \o t
  <1>1. buffer \in Seq(Parts) /\ stream \in Seq(Parts)
    BY SenderFacts
  <1>2. stream \o t \in Seq(Parts)
    BY <1>1, ConcatProperties
  <1>3. (buffer \o stream) \o t = buffer \o (stream \o t)
    BY <1>1, ConcatAssociative
  <1>. QED BY <1>2, <1>3 DEF Coming

\* The sender is at rest, or its file is over: it starts the next one, or has none.
LEMMA SenderStarts ==
  ASSUME TransferInv, Inv', Transmit, open = TRUE, open' = TRUE,
         replies' \in Seq(Replies), Len(replies') = 0,
         OnlyData(Coming), receiving = TRUE => Len(Coming) = Left(AtRest),
         NEW queue \in Seq(Files), lastFile <= lastFile', QueueOk(queue, Reach, lastFile'),
         NEW events \in Seq(Events), NEW S \in SUBSET Files, Reports(events, S),
         \A f \in S : HasFile(disk, f),
         StartNextFile(queue, {}, events)
  PROVE  TransferInv'
  <1>. DEFINE p == AtRest  w == Coming
  <1>1. /\ w \in Seq(Parts) /\ p \in ParserType /\ Received(p, w) /\ Bounded(p)
        /\ disk \in Seq(Entries) /\ ends \in Seq(Endings)
        /\ Reach \in Int /\ current <= Reach /\ current \in Int /\ current >= 0
        /\ lastFile \in Int /\ current <= lastFile
    BY SenderFacts
  <1>2. lastFile' \in Int /\ current' \in Int
    BY BoundsAssumption DEF Inv, TypeOK, FileType, BoundsAssumption
  <1>3. /\ sent' = 0
        /\ \/ current' = 0 /\ files' = <<>> /\ fileOps' = {}
           \/ /\ current' \in Files /\ Reach < current' /\ current' <= lastFile'
              /\ fileOps' = {Op("request", current')}
              /\ QueueOk(files', current', lastFile')
    BY <1>1, <1>2, StartNextQueue
  <1>4. Reports(out', S)
    BY StartNextReports
  <1>5. PICK q, x : q = AtRest' /\ x = Coming'
    OBVIOUS
  <1>6. UNCHANGED <<buffer, receiving, expected, disk, ends>>
    BY DEF Transmit
  <1>7. /\ q.receiving = receiving /\ q.replies = replies' /\ q.expected = expected
        /\ q.disk = disk /\ q.ends = ends /\ q.buffer = buffer
        /\ p.receiving = receiving /\ p.disk = disk /\ p.expected = expected /\ p.ends = ends
    BY <1>5, <1>6, AtRestFields, AtRestFieldsPrime
  <1>8. Left(q) = Left(p)
    BY <1>7 DEF Left, Peer!Written
  <1>9. x = buffer \o stream'
    BY <1>5, <1>6 DEF Coming
  <1>10. Within(disk) /\ Within(ends)
    BY <1>1, <1>7 DEF Bounded
  <1>. HIDE DEF p, w
  <1>11. CASE current' = 0 /\ files' = <<>> /\ fileOps' = {}
    <2>1. stream' = stream
      BY <1>11, NothingWritten
    <2>2. x = w /\ stream' \in Seq(Parts) /\ Received(p, x)
      BY <1>1, <1>9, <2>1 DEF w, Coming, TransferInv
    <2>3. Tie(q, x)'
      <3>1. AtRestTie(q, x)'
        <4>1. Len(q.replies) = 0
          BY <1>7
        <4>2. OnlyData(x)'
          BY <2>2 DEF w, OnlyData
        <4>3. q.receiving = TRUE => Len(x) = Left(q)
          BY <1>7, <1>8, <2>2 DEF p, w
        <4>4. Left(q)' = Left(q)
          BY DEF Left, Peer!Written
        <4>. QED BY <4>1, <4>2, <4>3, <4>4 DEF AtRestTie
      <3>. QED BY <1>11, <3>1 DEF Tie
    <2>4. Queue'
      <3>1. current' <= lastFile'
        BY <1>1, <1>2, <1>11
      <3>2. \A i \in 1..Len(files') : FALSE
        BY <1>11
      <3>. QED BY <3>1, <3>2 DEF Queue, QueueOk
    <2>5. Reach <= Reach'
      <3>1. Reach <= lastFile
        <4>1. CASE current = 0
          BY <1>1, <4>1 DEF Reach
        <4>2. CASE current # 0
          BY <1>1, <4>2 DEF Reach
        <4>. QED BY <4>1, <4>2
      <3>2. Reach' = lastFile'
        BY <1>11 DEF Reach
      <3>. QED BY <1>1, <1>2, <3>1, <3>2
    <2>6. Received(AtRest, buffer \o stream')
      BY <1>9, <2>2 DEF p
    <2>. QED BY <1>4, <1>5, <2>2, <2>3, <2>4, <2>5, <2>6, SenderKeeps
  <1>12. CASE /\ current' \in Files /\ Reach < current' /\ current' <= lastFile'
              /\ fileOps' = {Op("request", current')}
              /\ QueueOk(files', current', lastFile')
    <2>1. PICK g \in Files : g = current'
      BY <1>12
    <2>2. g # 0 /\ current < g /\ Reach < g /\ g \in Int
      BY <1>1, <1>2, <1>12, <2>1
    <2>. DEFINE a == Peer!Part("req", g, 0)  b == Peer!Part("size", g, Size[g])
                t == <<a, b>>
    <2>3. stream' = stream \o t
      <3>1. stream' = stream \o Bytes(Op("request", current'), sent' + 1)
        <4>1. current' # 0 /\ fileOps' = {Op("request", current')}
              /\ <<current', sent', fileOps'>> # <<current, sent, fileOps>>
          BY <1>1, <1>12, <2>1, <2>2
        <4>. QED BY <4>1, OperationWritten
      <3>2. Op("request", current').kind = "request" /\ Op("request", current').file = g
        BY <2>1 DEF Op
      <3>. QED BY <3>1, <3>2 DEF Bytes
    <2>4. a \in Parts /\ b \in Parts
      <3>1. Size[g] \in 0..MaxChunks /\ 0 \in 0..MaxChunks
        BY SizeAssumption, BoundsAssumption DEF BoundsAssumption
      <3>. QED BY <3>1 DEF Parts, Peer!Part
    <2>5. t \in Seq(Parts)
      BY <2>4
    <2>. HIDE DEF t
    <2>6. stream' \in Seq(Parts) /\ x = w \o t
      BY <1>9, <2>3, <2>5, Behind DEF w
    <2>7. /\ \A i \in 1..Len(p.disk) : p.disk[i].file < g
          /\ \A i \in 1..Len(p.ends) : p.ends[i].file < g
      <3>1. \A i \in 1..Len(disk) : disk[i].file \in Int /\ disk[i].file <= Reach
        BY <1>1, <1>10, EntryTypes DEF Within
      <3>2. \A i \in 1..Len(ends) : ends[i].file \in Int /\ ends[i].file <= Reach
        BY <1>1, <1>10, EndingTypes DEF Within
      <3>3. \A i \in 1..Len(disk) : disk[i].file < g
        BY <1>1, <2>2, <3>1
      <3>4. \A i \in 1..Len(ends) : ends[i].file < g
        BY <1>1, <2>2, <3>2
      <3>. QED BY <1>7, <3>3, <3>4
    <2>8. OnlyData(w) /\ (p.receiving = TRUE => Len(w) = Left(p))
      BY <1>7 DEF p, w
    <2>9. /\ x \in Seq(Parts) /\ Received(p, x)
          /\ \A i \in 1..Len(x) : x[i].kind # "data" => x[i].file = g
          /\ p.receiving = TRUE => Len(x) = Left(p) + 2
      <3>1. MayRequest(p, w, g)
        BY <1>1, <2>7, <2>8 DEF MayRequest
      <3>2. t = <<Peer!Part("req", g, 0), Peer!Part("size", g, Size[g])>>
        BY DEF t
      <3>3. Asked(p, g, x)
        BY <2>6, <3>1, <3>2, RequestOnWire
      <3>. QED BY <3>3 DEF Asked
    <2>10. Tie(q, x)'
      <3>1. ~Streaming'
        <4>1. Op("chunk", current') # Op("request", current')
          BY DEF Op
        <4>. QED BY <1>12, <4>1 DEF Streaming
      <3>2. AwaitTie(q, x)'
        <4>1. \A i \in 1..Len(x) : x[i].kind # "data" => x[i].file = current'
          BY <2>1, <2>9
        <4>2. ~(Len(q.replies) > 0)
          BY <1>7
        <4>3. q.receiving = TRUE => Len(x) = Left(q) + 2
          BY <1>7, <1>8, <2>9
        <4>4. Left(q)' = Left(q)
          BY DEF Left, Peer!Written
        <4>. QED BY <4>1, <4>2, <4>3, <4>4 DEF AwaitTie
      <3>. QED BY <2>1, <2>2, <3>1, <3>2 DEF Tie
    <2>11. Queue'
      BY <1>12 DEF Queue
    <2>12. Reach <= Reach'
      BY <1>1, <2>1, <2>2 DEF Reach
    <2>13. Received(AtRest, buffer \o stream')
      BY <1>9, <2>9 DEF p
    <2>. QED BY <1>4, <1>5, <2>6, <2>10, <2>11, <2>12, <2>13, SenderKeeps
  <1>. QED BY <1>3, <1>11, <1>12

\* The next chunk of the current file is written.
LEMMA SenderStreams ==
  ASSUME TransferInv, Inv', Transmit, open = TRUE, open' = TRUE,
         replies' \in Seq(Replies), Len(replies') = 0,
         current # 0, UNCHANGED <<current, files, lastFile>>,
         fileOps' = {Op("chunk", current)}, <<sent', fileOps'>> # <<sent, fileOps>>,
         NEW k \in Nat, sent' = k, k < Size[current], Reports(out', {}),
         OnlyData(Coming), HasFile(disk, current),
         receiving = TRUE => /\ Peer!Written(AtRest).file = current
                             /\ Len(Peer!Written(AtRest).data) + Len(Coming) = k
  PROVE  TransferInv'
  <1>. DEFINE p == AtRest  w == Coming
  <1>1. /\ w \in Seq(Parts) /\ p \in ParserType /\ Received(p, w)
        /\ Reach \in Int /\ current \in Files /\ current \in Int
    BY SenderFacts
  <1>2. PICK q, x : q = AtRest' /\ x = Coming'
    OBVIOUS
  <1>3. UNCHANGED <<buffer, receiving, expected, disk, ends>>
    BY DEF Transmit
  <1>4. /\ q.receiving = receiving /\ q.replies = replies' /\ q.disk = disk
        /\ p.receiving = receiving /\ p.disk = disk
    BY <1>2, <1>3, AtRestFields, AtRestFieldsPrime
  <1>5. x = buffer \o stream'
    BY <1>2, <1>3 DEF Coming
  <1>. DEFINE n == k + 1
  <1>6. n \in Nat /\ n = k + 1
    OBVIOUS
  <1>7. n > 0 /\ n <= Size[current] /\ n - 1 = k
    <2>. DEFINE size == Size[current]
    <2>1. size \in Int /\ k < size
      BY <1>1, SizeAssumption, BoundsAssumption DEF BoundsAssumption
    <2>. HIDE DEF size
    <2>2. n > 0 /\ n <= size /\ n - 1 = k
      BY <2>1
    <2>. QED BY <2>2 DEF size
  <1>8. Peer!Written(q) = Peer!Written(p)
    BY <1>4 DEF Peer!Written
  <1>. HIDE DEF p, w, n
  <1>. DEFINE a == Peer!Part("data", current, n)
  <1>9. stream' = stream \o <<a>>
    <2>1. current' # 0 /\ fileOps' = {Op("chunk", current')}
          /\ <<current', sent', fileOps'>> # <<current, sent, fileOps>>
      OBVIOUS
    <2>2. stream' = stream \o Bytes(Op("chunk", current'), sent' + 1)
      BY <2>1, OperationWritten
    <2>3. Op("chunk", current').kind = "chunk" /\ Op("chunk", current').file = current
      BY DEF Op
    <2>. QED BY <1>6, <2>2, <2>3 DEF Bytes
  <1>10. a \in Parts
    <2>1. Size[current] \in 0..MaxChunks /\ MaxChunks \in Nat
      BY <1>1, SizeAssumption, BoundsAssumption DEF BoundsAssumption
    <2>2. n \in 0..MaxChunks
      <3>. DEFINE size == Size[current]
      <3>1. size \in 0..MaxChunks /\ MaxChunks \in Nat /\ n \in Nat /\ n <= size
        BY <1>6, <1>7, <2>1
      <3>. HIDE DEF size
      <3>. QED BY <3>1
    <2>. QED BY <1>1, <2>2 DEF Parts, Peer!Part
  <1>. DEFINE t == <<a>>
  <1>11. t \in Seq(Parts)
    BY <1>10
  <1>. HIDE DEF t
  <1>12. stream' \in Seq(Parts) /\ x = w \o t
    BY <1>5, <1>9, <1>11, Behind DEF w, t
  <1>13. t = <<Peer!Part("data", current, n)>>
    BY DEF t
  <1>14. /\ OnlyData(w)
         /\ p.receiving = TRUE => /\ Peer!Written(p).file = current
                                  /\ Len(Peer!Written(p).data) + Len(w) = n - 1
    BY <1>4, <1>7 DEF p, w
  <1>15. /\ x \in Seq(Parts) /\ Received(p, x) /\ OnlyData(x)
         /\ p.receiving = TRUE => Len(Peer!Written(p).data) + Len(x) = n
    <2>1. MayStream(p, w, current, n)
      BY <1>1, <1>6, <1>7, <1>14 DEF MayStream
    <2>2. Streamed(p, n, x)
      BY <1>12, <1>13, <2>1, ChunkOnWire
    <2>. QED BY <2>2 DEF Streamed
  <1>16. Tie(q, x)'
    <2>1. Streaming'
      BY DEF Streaming
    <2>2. StreamTie(q, x)'
      <3>1. Len(q.replies) = 0
        BY <1>4
      <3>2. OnlyData(x)'
        BY <1>15 DEF OnlyData
      <3>3. HasFile(q.disk, current)'
        BY <1>4 DEF HasFile
      <3>4. sent' < Size[current']
        OBVIOUS
      <3>5. q.receiving = TRUE =>
              /\ Peer!Written(q).file = current'
              /\ Len(Peer!Written(q).data) + Len(x) = sent' + 1
        BY <1>4, <1>6, <1>8, <1>14, <1>15
      <3>6. Peer!Written(q)' = Peer!Written(q)
        BY DEF Peer!Written
      <3>. QED BY <3>1, <3>2, <3>3, <3>4, <3>5, <3>6 DEF StreamTie
    <2>. QED BY <2>1, <2>2 DEF Tie
  <1>17. Queue'
    BY DEF TransferInv, Queue
  <1>18. Reach <= Reach'
    BY <1>1 DEF Reach
  <1>19. Received(AtRest, buffer \o stream')
    BY <1>5, <1>15 DEF p
  <1>20. {} \in SUBSET Files /\ \A f \in {} : HasFile(disk, f)
    OBVIOUS
  <1>. QED BY <1>2, <1>12, <1>16, <1>17, <1>18, <1>19, <1>20, SenderKeeps

\* A handler that reports no success.
LEMMA NothingReported ==
  /\ Reports(<<>>, {})
  /\ \A f : Reports(<<Event("failed", f, TRUE)>>, {})
  /\ \A f : Reports(<<Event("progress", f, FALSE)>>, {})
  BY DEF Reports, Event

\* One event more is one report more.
LEMMA ReportAppended ==
  ASSUME NEW events \in Seq(Events), Reports(events, {}), NEW e \in Events, NEW S,
         e.stage = "done" => e.file \in S
  PROVE  Append(events, e) \in Seq(Events) /\ Reports(Append(events, e), S)
  <1>. DEFINE t == Append(events, e)  n == Len(events)
  <1>1. /\ t \in Seq(Events) /\ Len(t) = n + 1 /\ n \in Nat
        /\ \A i \in 1..n : t[i] = events[i]
        /\ t[n + 1] = e
    OBVIOUS
  <1>. HIDE DEF t
  <1>2. ASSUME NEW i \in 1..Len(t), t[i].stage = "done" PROVE t[i].file \in S
    <2>1. CASE i \in 1..n
      BY <1>1, <1>2, <2>1 DEF Reports
    <2>2. CASE i = n + 1
      BY <1>1, <1>2, <2>2
    <2>. QED BY <1>1, <2>1, <2>2
  <1>3. Reports(t, S)
    BY <1>2 DEF Reports
  <1>. QED BY <1>1, <1>3 DEF t

\* The completion of an operation that is stale, which it can only be when the
\* connection has been closed.
LEMMA StaleCompletion ==
  ASSUME TransferInv, Inv', Transmit, NEW op \in Ops, FileOpOver(op), IgnoreFileOp(op),
         replies' \in Seq(Replies)
  PROVE  TransferInv'
  <1>1. op \in fileOps /\ lastFile' = lastFile /\ current # op.file
    BY DEF FileOpOver, IgnoreFileOp, StaleFile
  <1>2. open' = open /\ files' = files /\ current' = current /\ out' = <<>>
    BY DEF IgnoreFileOp
  <1>3. FileInv /\ open \in BOOLEAN
    BY DEF TransferInv, Inv, TypeOK, ConnectionType
  <1>4. current = 0
    <2>. SUFFICES ASSUME current # 0 PROVE FALSE
      OBVIOUS
    <2>1. PICK kind \in OpKinds : fileOps = {Op(kind, current)}
      BY <1>3 DEF FileInv
    <2>2. op = Op(kind, current)
      BY <1>1, <2>1
    <2>. QED BY <1>1, <2>2 DEF Op
  <1>5. open = FALSE
    BY <1>1, <1>3, <1>4 DEF FileInv
  <1>6. files = <<>>
    BY <1>3, <1>4 DEF FileInv
  <1>. QED BY <1>1, <1>2, <1>4, <1>5, <1>6, NothingReported, SenderClosed

\* The completion of an operation that failed: the connection is closed.
LEMMA FailedCompletion ==
  ASSUME TransferInv, Inv', Transmit, NEW op \in Ops, FileOpOver(op), FailFileOp(op),
         replies' \in Seq(Replies)
  PROVE  TransferInv'
  <1>1. lastFile' = lastFile /\ FailBatch(op.file) /\ op.file \in Files
    BY DEF FileOpOver, FailFileOp, Ops
  <1>2. /\ files' = <<>> /\ current' = 0 /\ open' = FALSE
        /\ out' = <<Event("failed", op.file, TRUE)>>
    BY <1>1, FailBatchEffect
  <1>. QED BY <1>1, <1>2, NothingReported, SenderClosed

\* The controller closes the connection.
LEMMA SenderClosesKeeps ==
  ASSUME TransferInv, SenderCloses
  PROVE  TransferInv'
  <1>1. Release /\ Transmit /\ replies' = replies
    BY DEF SenderCloses, OnPeerClosed
  <1>2. Inv'
    BY InvStep DEF TransferInv, Next, SenderCloses
  <1>3. Close(current, <<>>) /\ lastFile' = lastFile
    BY <1>1 DEF Release
  <1>4. current \in 0..MaxFiles /\ replies \in Seq(Replies)
    BY SenderFacts DEF TransferInv, Inv, TypeOK, FileType
  <1>5. /\ files' = <<>> /\ current' = 0 /\ open' = FALSE
        /\ out' = <<>> \/ out' = <<Event("failed", current, TRUE)>>
    BY <1>3, <1>4, CloseEffect
  <1>. QED BY <1>1, <1>2, <1>3, <1>4, <1>5, NothingReported, SenderClosed

\* A file is over, and what is on its way is the rest of its data: the next one.
LEMMA SenderFinishes ==
  ASSUME TransferInv, Inv', Transmit, open = TRUE, open' = TRUE, lastFile' = lastFile,
         replies' \in Seq(Replies), Len(replies') = 0,
         OnlyData(Coming), receiving = TRUE => Len(Coming) = Left(AtRest), current # 0,
         NEW ok \in BOOLEAN, ok = TRUE => HasFile(disk, current),
         NEW events \in Seq(Events), Reports(events, {}),
         FinishFile(current, ok, {}, events)
  PROVE  TransferInv'
  <1>1. files \in Seq(Files) /\ current \in Files /\ lastFile \in Int
    BY SenderFacts
  <1>. DEFINE e == Event(IF ok THEN "done" ELSE "failed", current, files = <<>>)
              S == IF ok THEN {current} ELSE {}
              t == Append(events, e)
  <1>2. e \in Events
    BY <1>1 DEF Event, Events
  <1>3. e.stage = "done" => e.file \in S
    BY DEF Event
  <1>4. StartNextFile(files, {}, t)
    BY DEF FinishFile
  <1>5. S \in SUBSET Files /\ \A f \in S : HasFile(disk, f)
    <2>1. CASE ok = TRUE
      <3>1. S = {current}
        BY <2>1
      <3>. QED BY <1>1, <2>1, <3>1
    <2>2. CASE ok = FALSE
      <3>1. S = {}
        BY <2>2
      <3>. QED BY <3>1
    <2>. QED BY <2>1, <2>2
  <1>. HIDE DEF e, S
  <1>6. t \in Seq(Events) /\ Reports(t, S)
    BY <1>2, <1>3, ReportAppended
  <1>. HIDE DEF t
  <1>7. QueueOk(files, Reach, lastFile')
    BY DEF Reach, TransferInv, Queue
  <1>8. lastFile <= lastFile'
    BY <1>1
  <1>. QED BY <1>1, <1>4, <1>5, <1>6, <1>7, <1>8, SenderStarts

\* The write of a request completes: the sender waits for the reply, or has failed.
LEMMA RequestSentKeeps ==
  ASSUME TransferInv, NEW f \in Files, NEW ok \in BOOLEAN, RequestSent(f, ok)
  PROVE  TransferInv'
  <1>. DEFINE op == Op("request", f)
  <1>1. RequestWritten(f, ok) /\ Transmit /\ replies' = replies
    BY DEF RequestSent
  <1>2. Inv'
    BY <1>1, InvStep DEF TransferInv, Next, Completion
  <1>3. op \in Ops /\ op.file = f /\ replies' \in Seq(Replies)
    BY <1>1, SenderFacts DEF Op, Ops, OpKinds
  <1>4. FileOpOver(op)
    BY <1>1 DEF RequestWritten
  <1>5. CASE IgnoreFileOp(op)
    BY <1>1, <1>2, <1>3, <1>4, <1>5, StaleCompletion
  <1>6. CASE FailFileOp(op)
    BY <1>1, <1>2, <1>3, <1>4, <1>6, FailedCompletion
  <1>7. CASE /\ ~StaleFile(f)
             /\ fileOps' = (fileOps \ {op}) \cup {Op("reply", f)}
             /\ out' = <<>>
             /\ UNCHANGED <<open, connected, messages, files, current, sent>>
    <2>1. current = f /\ current # 0 /\ fileOps = {op} /\ fileOps \ {op} = {}
      BY <1>3, <1>4, <1>7, CurrentOp DEF FileOpOver, TransferInv
    <2>2. fileOps' = {Op("reply", f)}
      BY <1>7, <2>1
    <2>3. stream' = stream
      <3>1. current' # 0 /\ fileOps' = {Op("reply", current')}
        BY <1>7, <2>1, <2>2
      <3>2. <<current', sent', fileOps'>> # <<current, sent, fileOps>>
        <4>1. Op("reply", f) # op
          BY DEF Op
        <4>. HIDE DEF op
        <4>2. fileOps' # fileOps
          BY <2>1, <2>2, <4>1
        <4>. QED BY <4>2
      <3>3. stream' = stream \o Bytes(Op("reply", current'), sent' + 1)
        BY <1>1, <3>1, <3>2, OperationWritten
      <3>4. Op("reply", current').kind = "reply"
        BY DEF Op
      <3>5. Bytes(Op("reply", current'), sent' + 1) = <<>>
        BY <3>4 DEF Bytes
      <3>. QED BY <3>3, <3>5, SenderFacts, ConcatEmptySeq
    <2>4. Streaming' <=> Streaming
      <3>1. ~Streaming
        BY <2>1 DEF Streaming, Op
      <3>2. ~Streaming'
        BY <2>2 DEF Streaming, Op
      <3>. QED BY <3>1, <3>2
    <2>5. lastFile' = lastFile
      BY <1>4 DEF FileOpOver
    <2>6. Queue'
      BY <1>7, <2>5 DEF TransferInv, Queue
    <2>7. lastFile <= lastFile'
      BY <2>5, SenderFacts
    <2>8. Reports(out', {})
      BY <1>7, NothingReported
    <2>9. UNCHANGED <<open, current, sent>>
      BY <1>7
    <2>. QED BY <1>1, <1>2, <2>3, <2>4, <2>6, <2>7, <2>8, <2>9, SenderWaits
  <1>. QED BY <1>1, <1>5, <1>6, <1>7 DEF RequestWritten

\* The data on its way to the file being received, and what is still to be sent.
LEMMA StreamFacts ==
  ASSUME TransferInv, open = TRUE, current # 0, Streaming
  PROVE  /\ Len(replies) = 0 /\ OnlyData(Coming) /\ HasFile(disk, current)
         /\ sent < Size[current]
         /\ receiving = TRUE => /\ Peer!Written(AtRest).file = current
                                /\ Len(Peer!Written(AtRest).data) + Len(Coming) = sent + 1
  <1>1. StreamTie(AtRest, Coming)
    BY SenderFacts DEF Tie
  <1>. QED BY <1>1, AtRestFields DEF StreamTie

\* What the sender knows while it waits for a reply.
LEMMA AwaitFacts ==
  ASSUME TransferInv, open = TRUE, current # 0, ~Streaming
  PROVE  /\ \A i \in 1..Len(Coming) : Coming[i].kind # "data" => Coming[i].file = current
         /\ Len(replies) > 0 =>
              /\ Len(Coming) = 0 /\ Len(replies) = 1 /\ replies[1].file = current
              /\ replies[1].kind = "ack" => HasFile(disk, current)
              /\ receiving = TRUE => replies[1].kind = "ack"
         /\ receiving = TRUE =>
              \/ Len(Coming) = Left(AtRest) + 2
              \/ /\ Len(Coming) = 0 /\ Len(Peer!Written(AtRest).data) = 0
                 /\ Peer!Written(AtRest).file = current
  <1>1. AwaitTie(AtRest, Coming)
    BY SenderFacts DEF Tie
  <1>. QED BY <1>1, AtRestFields DEF AwaitTie

\* While a file is being received something of it is missing.
LEMMA ReceivingFacts ==
  ASSUME TransferInv, receiving = TRUE
  PROVE  /\ expected = Size[Peer!Written(AtRest).file]
         /\ Left(AtRest) = expected - Len(Peer!Written(AtRest).data)
         /\ Len(Peer!Written(AtRest).data) \in Nat /\ expected \in Int /\ Left(AtRest) > 0
  <1>. DEFINE v == Peer!Written(AtRest)  got == Len(v.data)
  <1>1. AtRest.receiving = TRUE /\ AtRest.expected = expected /\ AtRest.disk = disk
    BY AtRestFields
  <1>2. Receiving(AtRest) /\ expected = Size[v.file]
    BY <1>1, SenderFacts DEF Received, Agreed
  <1>3. disk \in Seq(Entries) /\ expected \in 0..MaxChunks
    BY AtRestTypes DEF TransferInv
  <1>4. v \in Entries
    BY <1>1, <1>2, <1>3 DEF Receiving, Peer!Written
  <1>5. got \in Nat
    BY <1>4 DEF Entries
  <1>6. got < expected
    BY <1>1, <1>2 DEF Receiving
  <1>7. Left(AtRest) = expected - got
    BY <1>1 DEF Left
  <1>8. expected \in Int
    BY <1>3
  <1>. HIDE DEF v, got
  <1>9. Left(AtRest) > 0
    BY <1>5, <1>6, <1>7, <1>8
  <1>. QED BY <1>2, <1>5, <1>7, <1>8, <1>9 DEF v, got

\* The write of a chunk completes: the next one is sent, or the file is finished.
LEMMA ChunkSentKeeps ==
  ASSUME TransferInv, NEW f \in Files, NEW ok \in BOOLEAN, ChunkSent(f, ok)
  PROVE  TransferInv'
  <1>. DEFINE op == Op("chunk", f)  more == More(f, sent + 1)
              progress == Event("progress", f, FALSE)
  <1>1. ChunkWritten(f, ok, more) /\ Transmit /\ replies' = replies
    BY DEF ChunkSent
  <1>2. Inv'
    <2>1. more \in BOOLEAN
      BY DEF More
    <2>2. Next
      BY <1>1, <2>1 DEF Next, Completion
    <2>. QED BY <2>2, InvStep DEF TransferInv
  <1>3. op \in Ops /\ op.file = f /\ replies' \in Seq(Replies)
    BY <1>1, SenderFacts DEF Op, Ops, OpKinds
  <1>4. FileOpOver(op)
    BY <1>1 DEF ChunkWritten
  <1>5. CASE IgnoreFileOp(op)
    BY <1>1, <1>2, <1>3, <1>4, <1>5, StaleCompletion
  <1>6. CASE FailFileOp(op)
    BY <1>1, <1>2, <1>3, <1>4, <1>6, FailedCompletion
  <1>7. CASE /\ ~StaleFile(f)
             /\ SendChunk(f, sent + 1, more, fileOps \ {op}, <<progress>>)
             /\ UNCHANGED <<open, connected, messages>>
    <2>1. current = f /\ current # 0 /\ fileOps = {op} /\ fileOps \ {op} = {} /\ open
      BY <1>3, <1>4, <1>7, CurrentOp DEF FileOpOver, TransferInv
    <2>2. open = TRUE /\ open' = TRUE
      BY <1>7, <2>1 DEF TransferInv, Inv, TypeOK, ConnectionType
    <2>3. Streaming
      BY <2>1 DEF Streaming
    <2>4. /\ Len(replies) = 0 /\ OnlyData(Coming) /\ HasFile(disk, current)
          /\ sent < Size[current]
          /\ receiving = TRUE => /\ Peer!Written(AtRest).file = current
                                 /\ Len(Peer!Written(AtRest).data) + Len(Coming) = sent + 1
      BY <2>1, <2>2, <2>3, StreamFacts
    <2>5. Len(replies') = 0 /\ lastFile' = lastFile
      BY <1>1, <1>4, <2>4 DEF FileOpOver
    <2>6. <<progress>> \in Seq(Events) /\ Reports(<<progress>>, {})
      BY NothingReported DEF Event, Events
    <2>. HIDE DEF progress
    <2>7. sent \in Nat /\ current \in Files /\ Size[current] \in Nat
      <3>1. sent \in 0..MaxChunks /\ current \in Files
        BY <2>1 DEF TransferInv, Inv, TypeOK, FileType
      <3>2. Size[current] \in 0..MaxChunks
        BY <3>1, SizeAssumption
      <3>. QED BY <3>1, <3>2, BoundsAssumption DEF BoundsAssumption
    <2>8. CASE more /\ sent' = sent + 1 /\ fileOps' = {} \cup {Op("chunk", f)}
               /\ out' = <<progress>> /\ UNCHANGED <<files, current>>
      <3>. DEFINE k == sent + 1
      <3>1. k \in Nat /\ k # sent
        BY <2>7
      <3>2. sent' = k /\ k < Size[current]
        BY <2>1, <2>8 DEF More
      <3>3. receiving = TRUE => /\ Peer!Written(AtRest).file = current
                                /\ Len(Peer!Written(AtRest).data) + Len(Coming) = k
        BY <2>4
      <3>. HIDE DEF k
      <3>4. fileOps' = {Op("chunk", current)} /\ <<sent', fileOps'>> # <<sent, fileOps>>
        BY <2>1, <2>8, <3>1, <3>2
      <3>5. UNCHANGED <<current, files, lastFile>> /\ Reports(out', {})
        BY <2>5, <2>6, <2>8
      <3>. QED BY <1>1, <1>2, <1>3, <2>1, <2>2, <2>4, <2>5, <3>1, <3>2, <3>3, <3>4, <3>5,
                  SenderStreams
    <2>9. CASE ~more /\ FinishFile(f, TRUE, {}, <<progress>>)
      <3>1. sent + 1 = Size[current]
        <4>. DEFINE size == Size[current]
        <4>1. sent \in Nat /\ size \in Nat /\ sent < size /\ ~(sent + 1 < size)
          BY <2>1, <2>4, <2>7, <2>9 DEF More
        <4>. HIDE DEF size
        <4>2. sent + 1 = size
          BY <4>1
        <4>. QED BY <4>2 DEF size
      <3>2. receiving = TRUE => Len(Coming) = Left(AtRest)
        <4>. SUFFICES ASSUME receiving = TRUE PROVE Len(Coming) = Left(AtRest)
          OBVIOUS
        <4>. DEFINE got == Len(Peer!Written(AtRest).data)  n == Len(Coming)  left == Left(AtRest)
        <4>1. got + n = expected
          BY <2>4, <3>1, ReceivingFacts
        <4>2. got \in Nat /\ expected \in Int /\ left = expected - got
          BY ReceivingFacts
        <4>3. n \in Nat
          BY SenderFacts
        <4>. HIDE DEF got, n, left
        <4>4. n = left
          BY <4>1, <4>2, <4>3
        <4>. QED BY <4>4 DEF n, left
      <3>3. FinishFile(current, TRUE, {}, <<progress>>) /\ TRUE \in BOOLEAN
        BY <2>1, <2>9
      <3>. QED BY <1>1, <1>2, <1>3, <2>1, <2>2, <2>4, <2>5, <2>6, <3>2, <3>3, SenderFinishes
    <2>. QED BY <1>7, <2>1, <2>8, <2>9 DEF SendChunk
  <1>. QED BY <1>1, <1>5, <1>6, <1>7 DEF ChunkWritten

\* The read of a reply fails: the file is given up.
LEMMA ReplyFailsKeeps ==
  ASSUME TransferInv, NEW f \in Files, ReplyFails(f)
  PROVE  TransferInv'
  <1>. DEFINE op == Op("reply", f)
  <1>1. ReplyRead(f, "error", FALSE) /\ Transmit /\ replies' = replies
    BY DEF ReplyFails
  <1>2. Inv'
    BY <1>1, InvStep DEF TransferInv, Next, Completion
  <1>3. op \in Ops /\ op.file = f /\ replies' \in Seq(Replies)
    BY <1>1, SenderFacts DEF Op, Ops, OpKinds
  <1>4. FileOpOver(op)
    BY <1>1 DEF ReplyRead
  <1>5. CASE IgnoreFileOp(op)
    BY <1>1, <1>2, <1>3, <1>4, <1>5, StaleCompletion
  <1>6. CASE FailFileOp(op)
    BY <1>1, <1>2, <1>3, <1>4, <1>6, FailedCompletion
  <1>. QED BY <1>1, <1>5, <1>6 DEF ReplyRead

\* A reply is read: it is the current file's, whose data is sent or which is over.
LEMMA ReplyArrivesKeeps ==
  ASSUME TransferInv, NEW f \in Files, ReplyArrives(f)
  PROVE  TransferInv'
  <1>. DEFINE op == Op("reply", f)  more == More(f, 0)
              reply == IF Head(replies).kind = "ack" THEN "ack" ELSE "other"
  <1>1. PICK k \in 1..Len(replies) :
          /\ ReplyRead(f, reply, more)
          /\ replies' = SubSeq(replies, k + 1, Len(replies))
          /\ Transmit
    BY DEF ReplyArrives
  <1>2. Inv'
    <2>1. more \in BOOLEAN /\ reply \in {"ack", "other", "error"}
      BY DEF More
    <2>2. Next
      BY <1>1, <2>1 DEF Next, Completion
    <2>. QED BY <2>2, InvStep DEF TransferInv
  <1>3. replies \in Seq(Replies) /\ op \in Ops /\ op.file = f
    BY SenderFacts DEF Op, Ops, OpKinds
  <1>4. replies' \in Seq(Replies)
    <2>. DEFINE n == Len(replies)
    <2>1. n \in Nat /\ k \in 1..n /\ k + 1 \in Int
      BY <1>1, <1>3
    <2>2. \A i \in k + 1..n : i \in 1..n
      BY <2>1
    <2>3. \A i \in k + 1..n : replies[i] \in Replies
      BY <1>3, <2>2
    <2>4. SubSeq(replies, k + 1, n) \in Seq(Replies)
      BY <2>1, <2>3, SubSeqProperties
    <2>. QED BY <1>1, <2>4
  <1>5. FileOpOver(op)
    BY <1>1 DEF ReplyRead
  <1>6. CASE IgnoreFileOp(op)
    BY <1>1, <1>2, <1>3, <1>4, <1>5, <1>6, StaleCompletion
  <1>7. ASSUME ~StaleFile(f), UNCHANGED <<open, connected, messages>>
        PROVE  /\ current = f /\ current # 0 /\ fileOps = {op} /\ fileOps \ {op} = {}
               /\ open = TRUE /\ open' = TRUE
               /\ Len(replies') = 0 /\ lastFile' = lastFile
               /\ Len(Coming) = 0 /\ OnlyData(Coming) /\ Head(replies) = replies[1]
               /\ replies[1].kind = "ack" => HasFile(disk, current)
               /\ receiving = TRUE =>
                    /\ replies[1].kind = "ack"
                    /\ Len(Peer!Written(AtRest).data) = 0
                    /\ Peer!Written(AtRest).file = current
    <2>1. /\ current = f /\ current # 0 /\ fileOps = {op} /\ fileOps \ {op} = {} /\ open
      BY <1>3, <1>5, <1>7, CurrentOp DEF FileOpOver, TransferInv
    <2>2. open = TRUE /\ open' = TRUE
      BY <1>7, <2>1 DEF TransferInv, Inv, TypeOK, ConnectionType
    <2>3. ~Streaming
      BY <2>1 DEF Streaming, Op
    <2>4. Len(replies) > 0
      BY <1>1, <1>3
    <2>5. /\ Len(Coming) = 0 /\ Len(replies) = 1
          /\ replies[1].kind = "ack" => HasFile(disk, current)
          /\ receiving = TRUE => replies[1].kind = "ack"
      BY <2>1, <2>2, <2>3, <2>4, AwaitFacts
    <2>6. receiving = TRUE => /\ Len(Peer!Written(AtRest).data) = 0
                              /\ Peer!Written(AtRest).file = current
      <3>1. receiving = TRUE =>
              \/ Len(Coming) = Left(AtRest) + 2
              \/ /\ Len(Coming) = 0 /\ Len(Peer!Written(AtRest).data) = 0
                 /\ Peer!Written(AtRest).file = current
        BY <2>1, <2>2, <2>3, AwaitFacts
      <3>2. receiving = TRUE => Left(AtRest) > 0 /\ Left(AtRest) \in Int
        BY ReceivingFacts
      <3>3. ~(receiving = TRUE /\ Len(Coming) = Left(AtRest) + 2)
        <4>. DEFINE n == Left(AtRest)
        <4>. SUFFICES ASSUME receiving = TRUE, Len(Coming) = n + 2 PROVE FALSE
          OBVIOUS
        <4>1. n > 0 /\ n \in Int /\ n + 2 = 0
          BY <2>5, <3>2
        <4>. HIDE DEF n
        <4>. QED BY <4>1
      <3>. QED BY <3>1, <3>3
    <2>7. OnlyData(Coming)
      <3>1. \A i \in 1..Len(Coming) : FALSE
        BY <2>5
      <3>. QED BY <3>1 DEF OnlyData
    <2>8. Len(replies') = 0
      <3>1. k = 1 /\ replies' = SubSeq(replies, 2, 1)
        BY <1>1, <2>5
      <3>. QED BY <1>3, <3>1
    <2>9. lastFile' = lastFile /\ Head(replies) = replies[1]
      BY <1>3, <1>5, <2>4 DEF FileOpOver
    <2>. QED BY <2>1, <2>2, <2>5, <2>6, <2>7, <2>8, <2>9
  <1>8. <<>> \in Seq(Events) /\ Reports(<<>>, {})
    BY NothingReported
  <1>9. CASE /\ reply = "ack" /\ ~StaleFile(f)
             /\ SendChunk(f, 0, more, fileOps \ {op}, <<>>)
             /\ UNCHANGED <<open, connected, messages>>
    <2>1. replies[1].kind = "ack"
      BY <1>7, <1>9
    <2>2. CASE more /\ sent' = 0 /\ fileOps' = {} \cup {Op("chunk", f)}
               /\ out' = <<>> /\ UNCHANGED <<files, current>>
      <3>1. 0 \in Nat /\ 0 < Size[current]
        BY <1>7, <1>9, <2>2 DEF More
      <3>2. receiving = TRUE => /\ Peer!Written(AtRest).file = current
                                /\ Len(Peer!Written(AtRest).data) + Len(Coming) = 0
        BY <1>7, <1>9
      <3>3. fileOps' = {Op("chunk", current)} /\ fileOps = {op}
        BY <1>7, <1>9, <2>2
      <3>4. <<sent', fileOps'>> # <<sent, fileOps>>
        <4>1. Op("chunk", current) # op
          BY DEF Op
        <4>. HIDE DEF op
        <4>2. fileOps' # fileOps
          BY <3>3, <4>1
        <4>. QED BY <4>2
      <3>5. UNCHANGED <<current, files, lastFile>> /\ Reports(out', {}) /\ sent' = 0
        BY <1>7, <1>8, <1>9, <2>2
      <3>. DEFINE zero == 0
      <3>6. /\ zero \in Nat /\ zero < Size[current] /\ sent' = zero
            /\ receiving = TRUE => /\ Peer!Written(AtRest).file = current
                                   /\ Len(Peer!Written(AtRest).data) + Len(Coming) = zero
        BY <3>1, <3>2, <3>5
      <3>. HIDE DEF zero
      <3>7. /\ Transmit /\ open = TRUE /\ open' = TRUE /\ Len(replies') = 0 /\ current # 0
            /\ OnlyData(Coming) /\ HasFile(disk, current)
        BY <1>1, <1>7, <1>9, <2>1
      <3>. QED BY <1>2, <1>4, <3>3, <3>4, <3>5, <3>6, <3>7, SenderStreams
    <2>3. CASE ~more /\ FinishFile(f, TRUE, {}, <<>>)
      <3>1. ~(0 < Size[current])
        BY <1>7, <1>9, <2>3 DEF More
      <3>2. ~(receiving = TRUE)
        <4>. SUFFICES ASSUME receiving = TRUE PROVE FALSE
          OBVIOUS
        <4>. DEFINE size == Size[current]  got == Len(Peer!Written(AtRest).data)
        <4>1. expected = size /\ got = 0
          BY <1>7, <1>9, ReceivingFacts
        <4>2. expected \in Int /\ expected - got > 0
          BY ReceivingFacts
        <4>3. ~(0 < size)
          BY <3>1
        <4>. HIDE DEF size, got
        <4>. QED BY <4>1, <4>2, <4>3
      <3>3. FinishFile(current, TRUE, {}, <<>>) /\ TRUE \in BOOLEAN
        BY <1>7, <1>9, <2>3
      <3>4. /\ Transmit /\ open = TRUE /\ open' = TRUE /\ Len(replies') = 0 /\ current # 0
            /\ OnlyData(Coming) /\ HasFile(disk, current) /\ lastFile' = lastFile
        BY <1>1, <1>7, <1>9, <2>1
      <3>. QED BY <1>2, <1>4, <1>8, <3>2, <3>3, <3>4, SenderFinishes
    <2>. QED BY <1>7, <1>9, <2>2, <2>3 DEF SendChunk
  <1>10. CASE /\ reply = "other" /\ ~StaleFile(f)
              /\ FinishFile(f, FALSE, fileOps \ {op}, <<>>)
              /\ UNCHANGED <<open, connected, messages>>
    <2>1. ~(receiving = TRUE)
      BY <1>7, <1>10
    <2>2. FinishFile(current, FALSE, {}, <<>>) /\ FALSE \in BOOLEAN
      BY <1>7, <1>10
    <2>3. /\ Transmit /\ open = TRUE /\ open' = TRUE /\ Len(replies') = 0 /\ current # 0
          /\ OnlyData(Coming) /\ lastFile' = lastFile
      BY <1>1, <1>7, <1>10
    <2>. QED BY <1>2, <1>4, <1>8, <2>1, <2>2, <2>3, SenderFinishes
  <1>11. reply # "error"
    OBVIOUS
  <1>12. \/ IgnoreFileOp(op)
         \/ reply = "error" /\ FailFileOp(op)
         \/ /\ reply = "ack" /\ ~StaleFile(f)
            /\ SendChunk(f, 0, more, fileOps \ {op}, <<>>)
            /\ UNCHANGED <<open, connected, messages>>
         \/ /\ reply = "other" /\ ~StaleFile(f)
            /\ FinishFile(f, FALSE, fileOps \ {op}, <<>>)
            /\ UNCHANGED <<open, connected, messages>>
    BY <1>1 DEF ReplyRead
  <1>. QED BY <1>6, <1>9, <1>10, <1>11, <1>12

\* The files handed over are numbered on from the last one.
LEMMA BatchQueue ==
  ASSUME NEW n \in Nat, NEW l \in Nat, NEW t, t = [i \in 1..n |-> l + i],
         l + n <= MaxFiles
  PROVE  t \in Seq(Files) /\ QueueOk(t, l, l + n)
  <1>. USE BoundsAssumption DEF BoundsAssumption
  <1>1. t \in Seq(Files) /\ Len(t) = n
    BY DEF Files
  <1>2. \A i \in 1..n : l < t[i] /\ t[i] <= l + n
    OBVIOUS
  <1>3. \A i, j \in 1..n : i < j => t[i] < t[j]
    OBVIOUS
  <1>. QED BY <1>1, <1>2, <1>3 DEF QueueOk

\* They go behind those that are waiting.
LEMMA QueueJoined ==
  ASSUME NEW s \in Seq(Files), NEW t \in Seq(Files), NEW lo \in Int, NEW mid \in Int, NEW hi \in Int,
         lo <= mid, mid <= hi, QueueOk(s, lo, mid), QueueOk(t, mid, hi)
  PROVE  s \o t \in Seq(Files) /\ QueueOk(s \o t, lo, hi)
  <1>. DEFINE u == s \o t  n == Len(s)  m == Len(t)
  <1>1. /\ u \in Seq(Files) /\ Len(u) = n + m
        /\ \A i \in 1..n + m : u[i] = IF i <= n THEN s[i] ELSE t[i - n]
    BY ConcatProperties
  <1>2. n \in Nat /\ m \in Nat
    OBVIOUS
  <1>3. /\ \A i \in 1..n : s[i] \in Int /\ lo < s[i] /\ s[i] <= mid
        /\ \A i \in 1..m : t[i] \in Int /\ mid < t[i] /\ t[i] <= hi
    <2>1. \A i \in 1..n : s[i] \in Files
      OBVIOUS
    <2>2. \A i \in 1..m : t[i] \in Files
      OBVIOUS
    <2>. QED BY <2>1, <2>2, FilesAreNumbers DEF QueueOk
  <1>4. /\ \A i, j \in 1..n : i < j => s[i] < s[j]
        /\ \A i, j \in 1..m : i < j => t[i] < t[j]
    BY DEF QueueOk
  <1>. HIDE DEF u, n, m
  <1>5. \A i \in 1..n : u[i] = s[i] /\ i \in 1..n + m
    BY <1>1, <1>2
  <1>6. ASSUME NEW i \in 1..n + m, ~(i \in 1..n)
        PROVE  i - n \in 1..m /\ u[i] = t[i - n]
    <2>1. i - n \in 1..m /\ ~(i <= n)
      BY <1>2, <1>6
    <2>. QED BY <1>1, <2>1
  <1>7. ASSUME NEW i \in 1..n + m PROVE lo < u[i] /\ u[i] <= hi
    <2>1. CASE i \in 1..n
      <3>1. u[i] = s[i]
        BY <1>5, <2>1
      <3>2. s[i] \in Int /\ lo < s[i] /\ s[i] <= mid
        BY <1>3, <2>1
      <3>. QED BY <3>1, <3>2
    <2>2. CASE ~(i \in 1..n)
      <3>. DEFINE j == i - n
      <3>1. u[i] = t[j] /\ j \in 1..m
        BY <1>6, <2>2
      <3>. HIDE DEF j
      <3>2. t[j] \in Int /\ mid < t[j] /\ t[j] <= hi
        BY <1>3, <3>1
      <3>. QED BY <3>1, <3>2
    <2>. QED BY <2>1, <2>2
  <1>8. ASSUME NEW i \in 1..n + m, NEW j \in 1..n + m, i < j PROVE u[i] < u[j]
    <2>1. CASE i \in 1..n /\ j \in 1..n
      BY <1>4, <1>5, <1>8, <2>1
    <2>2. CASE i \in 1..n /\ ~(j \in 1..n)
      <3>. DEFINE h == j - n
      <3>1. u[j] = t[h] /\ h \in 1..m /\ u[i] = s[i]
        BY <1>5, <1>6, <2>2
      <3>. HIDE DEF h
      <3>2. t[h] \in Int /\ mid < t[h] /\ s[i] \in Int /\ s[i] <= mid
        BY <1>3, <2>2, <3>1
      <3>. QED BY <3>1, <3>2
    <2>3. CASE ~(i \in 1..n)
      <3>1. ~(j \in 1..n)
        BY <1>2, <1>8, <2>3
      <3>. DEFINE g == i - n  h == j - n
      <3>2. u[i] = t[g] /\ u[j] = t[h] /\ g \in 1..m /\ h \in 1..m
        BY <1>6, <2>3, <3>1
      <3>3. g < h
        BY <1>2, <1>8
      <3>. HIDE DEF g, h
      <3>. QED BY <1>4, <3>2, <3>3
    <2>. QED BY <2>1, <2>2, <2>3
  <1>9. QueueOk(u, lo, hi)
    BY <1>1, <1>7, <1>8 DEF QueueOk
  <1>. QED BY <1>1, <1>9 DEF u

\* The user hands files over: they are queued, and the first is asked for.
LEMMA SubmitKeeps ==
  ASSUME TransferInv, NEW n \in 1..MaxBatch, Submit(n)
  PROVE  TransferInv'
  <1>. DEFINE batch == [i \in 1..n |-> lastFile + i]  hi == lastFile + n
  <1>1. SendFiles(n) /\ Transmit /\ replies' = replies
    BY DEF Submit
  <1>2. Inv'
    BY <1>1, InvStep DEF TransferInv, Next
  <1>3. /\ owned /\ hi <= MaxFiles /\ lastFile' = hi
        /\ UNCHANGED <<open, connected>>
    BY <1>1 DEF SendFiles
  <1>4. /\ lastFile \in Nat /\ n \in Nat /\ hi \in Int /\ lastFile <= hi /\ MaxFiles \in Nat
        /\ current \in Int /\ current <= lastFile /\ files \in Seq(Files)
    <2>1. lastFile \in 0..MaxFiles /\ MaxFiles \in Nat /\ n \in 1..MaxBatch /\ MaxBatch \in Nat
      BY BoundsAssumption DEF BoundsAssumption, TransferInv, Inv, TypeOK, FileType
    <2>2. current \in Int /\ current <= lastFile /\ files \in Seq(Files)
      BY SenderFacts
    <2>. QED BY <2>1, <2>2
  <1>5. batch \in Seq(Files) /\ QueueOk(batch, lastFile, hi)
    BY <1>3, <1>4, BatchQueue
  <1>6. FileInv /\ ConnectionInv /\ open \in BOOLEAN
    BY DEF TransferInv, Inv, TypeOK, ConnectionType
  <1>7. QueueOk(files, current, lastFile)
    BY DEF TransferInv, Queue
  <1>8. replies' \in Seq(Replies)
    BY <1>1, SenderFacts
  <1>. DEFINE h == Head(batch)
  <1>9. \/ /\ ~connected
           /\ out' = <<Event("failed", h, TRUE)>>
           /\ UNCHANGED <<files, current, sent, fileOps>>
        \/ /\ connected /\ current # 0
           /\ files' = files \o batch
           /\ out' = <<>>
           /\ UNCHANGED <<current, sent, fileOps>>
        \/ /\ connected /\ current = 0
           /\ StartNextFile(files \o batch, fileOps, <<>>)
    BY <1>1 DEF SendFiles
  <1>. HIDE DEF h, batch, hi
  <1>10. ASSUME UNCHANGED <<current, sent, fileOps>>, Queue', Reports(out', {})
         PROVE  TransferInv'
    <2>1. stream' = stream
      BY <1>1, <1>10, NothingWritten
    <2>2. Streaming' <=> Streaming
      BY <1>10 DEF Streaming
    <2>3. UNCHANGED <<open, current, sent>> /\ lastFile <= lastFile'
      BY <1>3, <1>4, <1>10
    <2>. QED BY <1>1, <1>2, <1>10, <2>1, <2>2, <2>3, SenderWaits
  <1>11. CASE /\ ~connected
              /\ out' = <<Event("failed", h, TRUE)>>
              /\ UNCHANGED <<files, current, sent, fileOps>>
    <2>1. files = <<>> /\ current = 0
      BY <1>6, <1>11 DEF FileInv
    <2>2. Queue'
      <3>1. current' <= lastFile' /\ files' = <<>>
        BY <1>3, <1>4, <1>11, <2>1
      <3>2. \A i \in 1..Len(files') : FALSE
        BY <3>1
      <3>. QED BY <3>1, <3>2 DEF Queue, QueueOk
    <2>3. Reports(out', {})
      BY <1>11, NothingReported
    <2>. QED BY <1>10, <1>11, <2>2, <2>3
  <1>12. CASE /\ connected /\ current # 0
              /\ files' = files \o batch
              /\ out' = <<>>
              /\ UNCHANGED <<current, sent, fileOps>>
    <2>1. QueueOk(files \o batch, current, hi)
      BY <1>4, <1>5, <1>7, QueueJoined
    <2>2. current' <= lastFile'
      BY <1>3, <1>4, <1>12
    <2>3. Queue'
      BY <1>3, <1>12, <2>1, <2>2 DEF Queue
    <2>4. Reports(out', {})
      BY <1>12, NothingReported
    <2>. QED BY <1>10, <1>12, <2>3, <2>4
  <1>13. CASE /\ connected /\ current = 0
              /\ StartNextFile(files \o batch, fileOps, <<>>)
    <2>1. open = TRUE /\ open' = TRUE
      BY <1>3, <1>6, <1>13 DEF ConnectionInv
    <2>2. files = <<>> /\ fileOps = {}
      BY <1>6, <1>13, <2>1 DEF FileInv
    <2>3. StartNextFile(batch, {}, <<>>)
      BY <1>5, <1>13, <2>2, ConcatEmptySeq
    <2>4. Reach = lastFile
      BY <1>13 DEF Reach
    <2>5. QueueOk(batch, Reach, lastFile') /\ lastFile <= lastFile'
      BY <1>3, <1>4, <1>5, <2>4
    <2>6. AtRestTie(AtRest, Coming)
      BY <1>13, <2>1, SenderFacts DEF Tie
    <2>7. /\ Len(replies') = 0 /\ OnlyData(Coming)
          /\ receiving = TRUE => Len(Coming) = Left(AtRest)
      BY <1>1, <2>6, AtRestFields DEF AtRestTie
    <2>8. <<>> \in Seq(Events) /\ Reports(<<>>, {})
      BY NothingReported
    <2>9. {} \in SUBSET Files /\ \A f \in {} : HasFile(disk, f)
      OBVIOUS
    <2>. QED BY <1>1, <1>2, <1>5, <1>8, <2>1, <2>3, <2>5, <2>7, <2>8, <2>9, SenderStarts
  <1>. QED BY <1>9, <1>11, <1>12, <1>13

\* What the receiver does not touch.
LEMMA TieUnchanged ==
  ASSUME NEW q, NEW x, UNCHANGED vars, Tie(q, x)
  PROVE  Tie(q, x)'
  <1>. USE DEF vars
  <1>1. AtRestTie(q, x) => AtRestTie(q, x)'
    BY DEF AtRestTie, OnlyData, Left, Peer!Written
  <1>2. AwaitTie(q, x) => AwaitTie(q, x)'
    BY DEF AwaitTie, Left, HasFile, Peer!Written
  <1>3. StreamTie(q, x) => StreamTie(q, x)'
    BY DEF StreamTie, OnlyData, HasFile, Peer!Written
  <1>4. (Streaming' <=> Streaming) /\ open' = open /\ current' = current
    BY DEF Streaming
  <1>. QED BY <1>1, <1>2, <1>3, <1>4 DEF Tie

\* What is said of the parser and the bytes in front of it does not depend on
\* when it is said, as long as the sender does nothing.
LEMMA ParserInvUnchanged ==
  ASSUME NEW q, NEW x, UNCHANGED vars, ParserInv(q, x)
  PROVE  ParserInv(q, x)'
  <1>1. Received(q, x) /\ Tie(q, x) /\ Bounded(q)
    BY ParserInvParts
  <1>2. Tie(q, x)'
    BY <1>1, TieUnchanged
  <1>3. Bounded(q)'
    BY <1>1 DEF Bounded, Within, Reach, vars
  <1>4. Received(q, x)'
    BY <1>1 DEF Received, Shape, Agreed, Whole, WholeEntry, Ordered, Increasing, Fresh,
                OnlyLastWriting, NotEnded, Ended, Apart
  <1>. QED BY <1>2, <1>3, <1>4 DEF ParserInv, Received

\* A step of the receiver, from what it leaves to the parser.
LEMMA ReceiverKeeps ==
  ASSUME TransferInv, UNCHANGED <<vars, claimed>>,
         NEW q, q = AtRest', NEW x, x = Coming',
         q \in ParserType, stream' \in Seq(Parts),
         mainRead' \in {"listening", "over"}, fileRead' \in {"listening", "closed", "over"},
         lost' \in BOOLEAN,
         ParserInv(q, x), receiving' = TRUE => buffer' = <<>>, Grown(disk, disk')
  PROVE  TransferInv'
  <1>1. Inv'
    BY InvStep DEF TransferInv
  <1>2. ParserInv(q, x)'
    BY ParserInvUnchanged
  <1>3. ParserInv(AtRest, Coming)'
    BY <1>2
  <1>4. (AtRest \in ParserType)'
    OBVIOUS
  <1>5. LoopType'
    BY DEF TransferInv, LoopType
  <1>6. Queue'
    BY DEF TransferInv, Queue, vars
  <1>7. (\A f \in claimed : HasFile(disk, f))'
    <2>1. disk \in Seq(Entries) /\ disk' \in Seq(Entries) /\ claimed' = claimed
      BY SenderFacts, AtRestTypesPrime
    <2>2. \A f \in claimed : HasFile(disk, f)
      BY DEF TransferInv
    <2>3. \A f \in claimed' : HasFile(disk', f)
      BY <2>1, <2>2, HasFileGrown
    <2>. QED BY <2>3 DEF HasFile
  <1>. QED BY <1>1, <1>3, <1>4, <1>5, <1>6, <1>7 DEF TransferInv

\* What a handler leaves to the next one: the parser starts again, and a reply
\* that had no socket to go to is not there.
LEMMA Rewound ==
  ASSUME NEW p \in ParserType, NEW q \in ParserType, NEW w, ParserInv(p, w),
         q.receiving = p.receiving, q.expected = p.expected, q.disk = p.disk, q.ends = p.ends,
         q.stop = FALSE, open = TRUE => q.replies = p.replies \/ Len(q.replies) = 0
  PROVE  ParserInv(q, w)
  <1>1. Received(p, w) /\ Tie(p, w) /\ Bounded(p)
    BY ParserInvParts
  <1>2. Peer!Written(q) = Peer!Written(p) /\ Left(q) = Left(p) /\ (Receiving(p) => Receiving(q))
    BY DEF Peer!Written, Left, Receiving
  <1>3. Agreed(q, w)
    BY <1>1, <1>2 DEF Received, Agreed
  <1>4. Ordered(q, w)
    BY <1>1, <1>2 DEF Received, Ordered, OnlyLastWriting, NotEnded
  <1>5. Received(q, w)
    BY <1>1, <1>3, <1>4 DEF Received
  <1>6. Tie(q, w)
    <2>. SUFFICES ASSUME open = TRUE PROVE Tie(q, w)
      BY DEF Tie
    <2>1. Len(q.replies) = 0 \/ q.replies = p.replies
      OBVIOUS
    <2>2. ASSUME AtRestTie(p, w) PROVE AtRestTie(q, w)
      BY <1>2, <2>1, <2>2 DEF AtRestTie
    <2>3. ASSUME AwaitTie(p, w) PROVE AwaitTie(q, w)
      BY <1>2, <2>1, <2>3 DEF AwaitTie
    <2>4. ASSUME StreamTie(p, w) PROVE StreamTie(q, w)
      BY <1>2, <2>1, <2>4 DEF StreamTie
    <2>. QED BY <1>1, <2>2, <2>3, <2>4 DEF Tie
  <1>7. Bounded(q)
    BY <1>1 DEF Bounded
  <1>. QED BY <1>5, <1>6, <1>7, ParserInvParts

\* The file being received is given up, and nothing else happens.
LEMMA GivenUp ==
  ASSUME NEW p \in ParserType, NEW q \in ParserType, NEW w \in Seq(Parts), ParserInv(p, w),
         p.receiving = TRUE, q.receiving = FALSE, q.replies = p.replies,
         LastAs(p.disk, q.disk, Peer!Written(p).data, "removed"),
         q.ends = Append(p.ends, Peer!Ending("failed", Peer!Written(p).file))
  PROVE  ParserInv(q, w) /\ Grown(p.disk, q.disk)
  <1>. DEFINE d == p.disk  e == q.disk  data == Peer!Written(p).data
  <1>1. Received(p, w) /\ Tie(p, w) /\ Bounded(p)
    BY ParserInvParts
  <1>2. Ordered(p, w) /\ Whole(d) /\ Apart(d) /\ Shape(w) /\ Receiving(p)
    BY <1>1 DEF Received, Agreed
  <1>3. Advanced(w, w, 0)
    BY DEF Advanced
  <1>4. d \in Seq(Entries) /\ e \in Seq(Entries) /\ d # <<>> /\ d[Len(d)].state = "writing"
    BY <1>2, FieldTypes DEF Receiving, Peer!Written
  <1>5. PICK stage, state : stage = "failed" /\ state = "removed"
    OBVIOUS
  <1>6. /\ state \in {"kept", "removed"} /\ stage \in {"done", "failed"}
        /\ (stage = "done" <=> state = "kept")
        /\ LastAs(d, e, data, state)
        /\ q.ends = Append(p.ends, Peer!Ending(stage, Peer!Written(p).file))
    BY <1>5
  <1>. HIDE DEF data
  <1>7. /\ Ordered(q, w) /\ Grown(d, e)
        /\ Bounded(p) => Bounded(q)
        /\ Apart(d) => Apart(e)
    BY <1>2, <1>3, <1>6, EndedFacts
  <1>8. Whole(e)
    <2>1. state \in {"writing", "kept", "removed"} /\ LastAs(d, e, data, state)
      BY <1>6
    <2>. HIDE DEF d, e
    <2>2. /\ Len(e) = Len(d)
          /\ \A i \in 1..Len(d) : i # Len(d) => e[i] = d[i]
          /\ e[Len(d)].state = state
      BY <1>4, <2>1, LastAsFacts
    <2>3. ASSUME NEW i \in 1..Len(e), e[i].state = "kept" PROVE i \in 1..Len(d) /\ e[i] = d[i]
      BY <1>5, <2>2, <2>3
    <2>. QED BY <1>2, <2>3 DEF Whole
  <1>9. Tie(q, w)
    <2>1. HasFile(d, current) => HasFile(e, current)
      BY <1>4, <1>7, HasFileGrown
    <2>2. ASSUME AtRestTie(p, w) PROVE AtRestTie(q, w)
      BY <2>2 DEF AtRestTie
    <2>3. ASSUME AwaitTie(p, w) PROVE AwaitTie(q, w)
      BY <2>1, <2>3 DEF AwaitTie
    <2>4. ASSUME StreamTie(p, w) PROVE StreamTie(q, w)
      BY <2>1, <2>4 DEF StreamTie
    <2>. QED BY <1>1, <2>2, <2>3, <2>4 DEF Tie
  <1>10. Agreed(q, w)
    BY DEF Agreed
  <1>11. Received(q, w)
    BY <1>2, <1>7, <1>8, <1>10 DEF Received
  <1>. QED BY <1>1, <1>7, <1>9, <1>11, ParserInvParts

\* What is read joins the buffer, and leaves what is coming as it is.
LEMMA ReadOn ==
  \A b, i, s \in Seq(Parts) : (b \o i) \o s = b \o (i \o s)
  BY ConcatAssociative

\* A read of the file socket is parsed.
LEMMA PeerReadsKeeps ==
  ASSUME TransferInv, PeerReads
  PROVE  TransferInv' /\ Grown(disk, disk')
  <1>1. PICK k \in 1..Len(stream), bad \in SUBSET DiskFails : Peer!FileRead(k, bad)
    BY DEF PeerReads
  <1>2. UNCHANGED <<vars, claimed>>
    BY DEF PeerReads
  <1>. DEFINE input == SubSeq(stream, 1, k)  s == SubSeq(stream, k + 1, Len(stream))
              p == Peer!Parser(input)  r == Peer!ParseFile(p, bad)
  <1>3. /\ stream' = s /\ Peer!Store(r)
        /\ fileRead' = Peer!ReadAgain /\ UNCHANGED <<mainRead, lost>>
    BY <1>1 DEF Peer!FileRead
  <1>4. /\ stream \in Seq(Parts) /\ buffer \in Seq(Parts) /\ disk \in Seq(Entries)
        /\ ends \in Seq(Endings) /\ replies \in Seq(Replies) /\ AtRest \in ParserType
        /\ Coming \in Seq(Parts)
    BY SenderFacts
  <1>5. input \in Seq(Parts) /\ s \in Seq(Parts) /\ input \o s = stream
    <2>. DEFINE n == Len(stream)
    <2>1. n \in Nat /\ k \in 1..n
      BY <1>1, <1>4
    <2>2. \A i \in 1..n : stream[i] \in Parts
      BY <1>4
    <2>3. input \in Seq(Parts) /\ s \in Seq(Parts)
      <3>1. \A i \in 1..k : stream[i] \in Parts
        BY <2>1, <2>2
      <3>2. \A i \in k + 1..n : stream[i] \in Parts
        BY <2>1, <2>2
      <3>. QED BY <2>1, <3>1, <3>2, SubSeqProperties
    <2>4. input \o s = stream
      <3>1. 1 \in 1..n + 1 /\ k \in 1 - 1..n /\ n \in k..n
        BY <2>1
      <3>2. input \o s = SubSeq(stream, 1, n)
        BY <1>4, <3>1, ConcatAdjacentSubSeq
      <3>3. SubSeq(stream, 1, n) = stream
        BY <1>4, SubSeqFull
      <3>. QED BY <3>2, <3>3
    <2>. QED BY <2>3, <2>4
  <1>6. Len(stream) > 0
    BY <1>4
  <1>. HIDE DEF input, s
  <1>7. /\ p.buffer = buffer \o input /\ p.receiving = receiving /\ p.expected = expected
        /\ p.disk = disk /\ p.replies = replies /\ p.ends = ends /\ p.stop = FALSE
    BY DEF Peer!Parser
  <1>8. p \in ParserType
    <2>1. /\ receiving \in BOOLEAN /\ expected \in 0..MaxChunks
      BY AtRestTypes DEF TransferInv
    <2>2. buffer \o input \in Seq(Parts)
      BY <1>4, <1>5, ConcatProperties
    <2>. QED BY <1>4, <2>1, <2>2 DEF Peer!Parser, ParserType
  <1>9. p.buffer \o s = Coming
    <2>1. (buffer \o input) \o s = buffer \o (input \o s)
      <3>1. buffer \in Seq(Parts) /\ input \in Seq(Parts) /\ s \in Seq(Parts)
        BY <1>4, <1>5
      <3>. QED BY <3>1, ReadOn
    <2>. QED BY <1>5, <1>7, <2>1 DEF Coming
  <1>. HIDE DEF p
  <1>10. ParserInv(p, p.buffer \o s)
    <2>1. ParserInv(AtRest, Coming)
      BY DEF TransferInv
    <2>2. ParserInv(p, Coming)
      BY <1>4, <1>7, <1>8, <2>1, AtRestFields, Rewound
    <2>. QED BY <1>9, <2>2
  <1>11. /\ r \in ParserType /\ ParserInv(r, r.buffer \o s) /\ Grown(p.disk, r.disk)
         /\ r.receiving = TRUE => r.buffer = <<>>
    BY <1>5, <1>8, <1>10, ParseFileEffect, Zenon
  <1>. HIDE DEF r
  <1>12. /\ buffer' = r.buffer /\ receiving' = r.receiving /\ expected' = r.expected
         /\ disk' = r.disk /\ ends' = r.ends
         /\ replies' = IF lost THEN replies ELSE r.replies
    BY <1>3 DEF Peer!Store
  <1>13. PICK q, x : q = AtRest' /\ x = Coming'
    OBVIOUS
  <1>14. /\ q.receiving = r.receiving /\ q.expected = r.expected /\ q.disk = r.disk
         /\ q.ends = r.ends /\ q.stop = FALSE /\ q.replies = replies'
    BY <1>12, <1>13, AtRestFieldsPrime
  <1>15. replies' \in Seq(Replies)
    BY <1>4, <1>11, <1>12, FieldTypes DEF ParserType
  <1>16. q \in ParserType
    <2>1. /\ r.buffer \in Seq(Parts) /\ r.receiving \in BOOLEAN /\ r.expected \in 0..MaxChunks
          /\ r.disk \in Seq(Entries) /\ r.ends \in Seq(Endings)
      BY <1>11 DEF ParserType
    <2>. QED BY <1>12, <1>13, <1>15, <2>1, AtRestTypesPrime
  <1>17. x = r.buffer \o s
    BY <1>3, <1>12, <1>13 DEF Coming
  <1>18. open = TRUE => q.replies = r.replies \/ Len(q.replies) = 0
    <2>. SUFFICES ASSUME open = TRUE, lost PROVE Len(replies) = 0
      BY <1>12, <1>14
    <2>1. Len(Coming) > 0
      <3>. DEFINE m == Len(buffer)  n == Len(stream)
      <3>1. Len(buffer \o stream) = m + n /\ m \in Nat /\ n \in Nat /\ n > 0
        BY <1>4, <1>6, ConcatProperties
      <3>. HIDE DEF m, n
      <3>2. m + n > 0
        BY <3>1
      <3>. QED BY <3>1, <3>2 DEF Coming
    <2>2. Tie(AtRest, Coming)
      BY SenderFacts
    <2>3. AtRestTie(AtRest, Coming) \/ AwaitTie(AtRest, Coming) \/ StreamTie(AtRest, Coming)
      BY <2>2 DEF Tie
    <2>4. CASE AtRestTie(AtRest, Coming)
      BY <2>4, AtRestFields DEF AtRestTie
    <2>5. CASE AwaitTie(AtRest, Coming)
      <3>1. ~(Len(replies) > 0)
        BY <2>1, <2>5, AtRestFields DEF AwaitTie
      <3>2. Len(replies) \in Nat
        BY <1>4
      <3>. QED BY <3>1, <3>2
    <2>6. CASE StreamTie(AtRest, Coming)
      BY <2>6, AtRestFields DEF StreamTie
    <2>. QED BY <2>3, <2>4, <2>5, <2>6
  <1>19. ParserInv(q, x)
    BY <1>11, <1>14, <1>16, <1>17, <1>18, Rewound
  <1>20. fileRead' \in {"listening", "closed", "over"}
    BY <1>3 DEF Peer!ReadAgain
  <1>21. mainRead' \in {"listening", "over"} /\ lost' \in BOOLEAN
    BY <1>3 DEF TransferInv, LoopType
  <1>22. Grown(disk, disk')
    BY <1>7, <1>11, <1>12
  <1>23. stream' \in Seq(Parts) /\ (receiving' = TRUE => buffer' = <<>>)
    BY <1>3, <1>5, <1>11, <1>12
  <1>. QED BY <1>2, <1>13, <1>16, <1>19, <1>20, <1>21, <1>22, <1>23, ReceiverKeeps

\* A socket of the receiver fails, or is found closed.
LEMMA PeerLosesKeeps ==
  ASSUME TransferInv, PeerLoses
  PROVE  TransferInv' /\ Grown(disk, disk')
  <1>1. UNCHANGED <<vars, claimed>> /\ Peer!HandleLost
        /\ UNCHANGED <<stream, replies>>
    BY DEF PeerLoses, Peer!MainReadError, Peer!FileReadError
  <1>2. mainRead' \in {"listening", "over"} /\ fileRead' \in {"listening", "closed", "over"}
    BY DEF PeerLoses, Peer!MainReadError, Peer!FileReadError, TransferInv, LoopType
  <1>3. /\ stream \in Seq(Parts) /\ buffer \in Seq(Parts) /\ disk \in Seq(Entries)
        /\ ends \in Seq(Endings) /\ replies \in Seq(Replies) /\ AtRest \in ParserType
        /\ Coming \in Seq(Parts)
    BY SenderFacts
  <1>4. receiving \in BOOLEAN /\ expected \in 0..MaxChunks
    BY AtRestTypes DEF TransferInv
  <1>5. PICK q, x : q = AtRest' /\ x = Coming'
    OBVIOUS
  <1>6. Grown(disk, disk)
    BY <1>3 DEF Grown
  <1>7. ParserInv(AtRest, Coming) /\ (receiving = TRUE => buffer = <<>>) /\ lost \in BOOLEAN
    BY DEF TransferInv, LoopType
  <1>8. CASE UNCHANGED <<lost, buffer, receiving, expected, disk, ends>>
    <2>1. q = AtRest /\ x = Coming
      BY <1>1, <1>5, <1>8 DEF AtRest, Coming
    <2>2. /\ q \in ParserType /\ ParserInv(q, x) /\ Grown(disk, disk') /\ stream' \in Seq(Parts)
          /\ lost' \in BOOLEAN /\ (receiving' = TRUE => buffer' = <<>>)
      BY <1>1, <1>3, <1>6, <1>7, <1>8, <2>1
    <2>. QED BY <1>1, <1>2, <1>5, <2>2, ReceiverKeeps
  <1>. DEFINE p == Peer!Parser(<<>>)  a == Peer!AbortReceive(p)
              r == IF receiving THEN a ELSE p
  <1>9. CASE /\ lost' = TRUE
             /\ buffer' = r.buffer /\ receiving' = r.receiving /\ expected' = r.expected
             /\ disk' = r.disk /\ ends' = r.ends
    <2>1. /\ p.buffer = buffer \o <<>> /\ p.receiving = receiving /\ p.expected = expected
          /\ p.disk = disk /\ p.replies = replies /\ p.ends = ends /\ p.stop = FALSE
      BY DEF Peer!Parser
    <2>2. p.buffer = buffer
      BY <1>3, <2>1, ConcatEmptySeq
    <2>3. p = AtRest
      BY <1>3, ConcatEmptySeq DEF Peer!Parser, AtRest
    <2>. HIDE DEF p
    <2>4. CASE receiving = FALSE
      <3>1. r = p
        BY <2>4
      <3>2. UNCHANGED <<buffer, receiving, expected, disk, ends>>
        BY <1>9, <2>1, <2>2, <3>1
      <3>3. q = AtRest /\ x = Coming
        BY <1>1, <1>5, <3>2 DEF AtRest, Coming
      <3>4. /\ q \in ParserType /\ ParserInv(q, x) /\ Grown(disk, disk') /\ stream' \in Seq(Parts)
            /\ lost' \in BOOLEAN /\ (receiving' = TRUE => buffer' = <<>>)
        BY <1>1, <1>3, <1>6, <1>7, <1>9, <3>2, <3>3
      <3>. QED BY <1>1, <1>2, <1>5, <3>4, ReceiverKeeps
    <2>5. CASE receiving = TRUE
      <3>1. r = a
        BY <2>5
      <3>2. Receiving(AtRest) /\ disk # <<>>
        BY <1>7, <2>5, AtRestFields DEF ParserInv, Agreed, Receiving
      <3>3. /\ a \in ParserType
            /\ a.buffer = p.buffer /\ a.expected = p.expected /\ a.replies = p.replies
            /\ a.receiving = FALSE /\ a.stop = p.stop
            /\ LastAs(p.disk, a.disk, Peer!Written(p).data, "removed")
            /\ a.ends = Append(p.ends, Peer!Ending("failed", Peer!Written(p).file))
        <4>1. p \in ParserType /\ p.disk # <<>>
          BY <1>3, <2>1, <2>3, <3>2
        <4>. QED BY <4>1, AbortReceiveEffect, Zenon
      <3>. HIDE DEF a
      <3>4. q = a
        <4>1. a \in [buffer : Seq(Parts), receiving : BOOLEAN, expected : 0..MaxChunks,
                     disk : Seq(Entries), replies : Seq(Replies), ends : Seq(Endings),
                     stop : BOOLEAN]
          BY <3>3 DEF ParserType
        <4>2. q = [buffer |-> a.buffer, receiving |-> a.receiving, expected |-> a.expected,
                   disk |-> a.disk, replies |-> a.replies, ends |-> a.ends, stop |-> a.stop]
          BY <1>1, <1>5, <1>9, <2>1, <3>1, <3>3 DEF AtRest
        <4>. QED BY <4>1, <4>2
      <3>5. x = Coming
        BY <1>1, <1>5, <1>9, <2>2, <3>1, <3>3 DEF Coming
      <3>6. ParserInv(a, Coming) /\ Grown(p.disk, a.disk)
        <4>1. p \in ParserType /\ ParserInv(p, Coming) /\ p.receiving = TRUE
          BY <1>3, <1>7, <2>1, <2>3, <2>5
        <4>. QED BY <1>3, <3>3, <4>1, GivenUp
      <3>7. /\ q \in ParserType /\ ParserInv(q, x) /\ Grown(disk, disk') /\ stream' \in Seq(Parts)
            /\ lost' \in BOOLEAN
        BY <1>1, <1>3, <1>9, <2>1, <3>1, <3>3, <3>4, <3>5, <3>6
      <3>8. receiving' = TRUE => buffer' = <<>>
        BY <1>9, <3>1, <3>3
      <3>. QED BY <1>1, <1>2, <1>5, <3>7, <3>8, ReceiverKeeps
    <2>. QED BY <1>4, <2>4, <2>5
  <1>10. \/ UNCHANGED <<lost, buffer, receiving, expected, disk, ends>>
         \/ /\ lost' = TRUE
            /\ buffer' = r.buffer /\ receiving' = r.receiving /\ expected' = r.expected
            /\ disk' = r.disk /\ ends' = r.ends
    BY <1>1 DEF Peer!HandleLost
  <1>. QED BY <1>8, <1>9, <1>10

\* Two devices that have just connected.
LEMMA TransferStarts ==
  ASSUME TransferInit
  PROVE  TransferInv
  <1>. USE DEF TransferInit
  <1>1. /\ buffer = <<>> /\ stream = <<>> /\ replies = <<>> /\ disk = <<>> /\ ends = <<>>
        /\ receiving = FALSE /\ expected = 0 /\ lost = FALSE
        /\ mainRead = "listening" /\ fileRead = "listening"
    BY DEF Peer!PeerInit
  <1>2. MaxFiles \in Nat /\ MaxChunks \in Nat /\ MaxMessages \in Nat
    BY BoundsAssumption DEF BoundsAssumption
  <1>3. TypeOK
    <2>1. ConnectionType
      <3>1. open \in BOOLEAN /\ failed \in BOOLEAN /\ connected \in BOOLEAN /\ owned \in BOOLEAN
        OBVIOUS
      <3>2. ready = <<TRUE>>
        OBVIOUS
      <3>3. ready \in Seq(BOOLEAN)
        BY <3>2
      <3>4. connecting \in SUBSET Sockets /\ pending \in 0..2
        OBVIOUS
      <3>. QED BY <3>1, <3>3, <3>4 DEF ConnectionType
    <2>2. MessageType
      BY <1>2 DEF MessageType
    <2>3. FileType
      BY <1>2 DEF FileType
    <2>4. ReportType
      <3>1. out \in Seq(Events)
        OBVIOUS
      <3>2. notice \in BOOLEAN
        OBVIOUS
      <3>. QED BY <3>1, <3>2 DEF ReportType
    <2>. QED BY <2>1, <2>2, <2>3, <2>4 DEF TypeOK
  <1>4. ConnectionInv
    <2>1. ~failed => pending = 0 /\ connecting = {}
      OBVIOUS
    <2>2. ready = IF failed THEN <<FALSE>> ELSE IF pending = 0 THEN <<TRUE>> ELSE <<>>
      <3>1. failed = FALSE /\ pending = 0 /\ ready = <<TRUE>>
        OBVIOUS
      <3>. QED BY <3>1, Zenon
    <2>3. (connected => pending = 0 /\ ~failed) /\ (open => owned)
          /\ (owned /\ ~open => ~connected /\ (failed \/ pending = 0))
      OBVIOUS
    <2>. QED BY <2>1, <2>2, <2>3 DEF ConnectionInv
  <1>5. MessageInv
    BY DEF MessageInv
  <1>6. FileInv
    BY DEF FileInv
  <1>7. Inv
    BY <1>3, <1>4, <1>5, <1>6 DEF Inv
  <1>8. AtRest \in ParserType
    <2>1. receiving \in BOOLEAN
      BY <1>1
    <2>2. /\ buffer \in Seq(Parts) /\ expected \in 0..MaxChunks
          /\ disk \in Seq(Entries) /\ replies \in Seq(Replies) /\ ends \in Seq(Endings)
      BY <1>1, <1>2
    <2>. QED BY <2>1, <2>2, AtRestTypes
  <1>9. LoopType /\ claimed = {} /\ stream \in Seq(Parts)
    <2>1. lost \in BOOLEAN
      BY <1>1
    <2>2. claimed = {} /\ claimed \in SUBSET Files /\ stream \in Seq(Parts)
      BY <1>1
    <2>3. mainRead \in {"listening", "over"} /\ fileRead \in {"listening", "closed", "over"}
      BY <1>1
    <2>. QED BY <2>1, <2>2, <2>3 DEF LoopType
  <1>10. ParserInv(AtRest, Coming)
    <2>. PICK p, w : p = AtRest /\ w = Coming
      OBVIOUS
    <2>1. /\ p.disk = <<>> /\ p.ends = <<>> /\ p.replies = <<>> /\ p.receiving = FALSE
      BY <1>1, AtRestFields
    <2>2. w = <<>>
      BY <1>1, ConcatEmptySeq DEF Coming
    <2>3. /\ \A i \in 1..Len(w) : FALSE
          /\ \A i \in 1..Len(p.disk) : FALSE
          /\ \A i \in 1..Len(p.ends) : FALSE
          /\ Len(p.replies) = 0
      BY <2>1, <2>2
    <2>4. Shape(w) /\ Agreed(p, w) /\ Whole(p.disk) /\ Apart(p.disk)
      BY <2>1, <2>3 DEF Shape, Agreed, Whole, Apart
    <2>5. Ordered(p, w)
      BY <2>1, <2>3 DEF Ordered, Increasing, Fresh, OnlyLastWriting, NotEnded, Ended
    <2>6. Bounded(p)
      BY <2>3 DEF Bounded, Within
    <2>7. Tie(p, w)
      <3>1. AtRestTie(p, w)
        BY <2>1, <2>3 DEF AtRestTie, OnlyData
      <3>2. current = 0
        OBVIOUS
      <3>. QED BY <3>1, <3>2 DEF Tie
    <2>8. ParserInv(p, w)
      BY <2>4, <2>5, <2>6, <2>7 DEF ParserInv
    <2>. QED BY <2>8
  <1>11. Queue
    <2>1. current <= lastFile /\ files = <<>>
      OBVIOUS
    <2>2. \A i \in 1..Len(files) : FALSE
      BY <2>1
    <2>. QED BY <2>1, <2>2 DEF Queue, QueueOk
  <1>12. \A f \in claimed : HasFile(disk, f)
    BY <1>9
  <1>. QED BY <1>1, <1>7, <1>8, <1>9, <1>10, <1>11, <1>12 DEF TransferInv

\* A step of the sender does not touch the receiver's files.
LEMMA SenderGrows ==
  ASSUME TransferInv, Transmit
  PROVE  Grown(disk, disk')
  BY SenderFacts DEF Transmit, Grown

\* The invariant is inductive, and the receiver's files only grow.
LEMMA TransferStep ==
  ASSUME TransferInv, [TransferNext]_allVars
  PROVE  TransferInv' /\ Grown(disk, disk')
  <1>1. ASSUME NEW n \in 1..MaxBatch, Submit(n) PROVE TransferInv' /\ Grown(disk, disk')
    BY <1>1, SubmitKeeps, SenderGrows DEF Submit
  <1>2. ASSUME NEW f \in Files, NEW ok \in BOOLEAN, RequestSent(f, ok)
        PROVE  TransferInv' /\ Grown(disk, disk')
    BY <1>2, RequestSentKeeps, SenderGrows DEF RequestSent
  <1>3. ASSUME NEW f \in Files, NEW ok \in BOOLEAN, ChunkSent(f, ok)
        PROVE  TransferInv' /\ Grown(disk, disk')
    BY <1>3, ChunkSentKeeps, SenderGrows DEF ChunkSent
  <1>4. ASSUME NEW f \in Files, ReplyArrives(f) PROVE TransferInv' /\ Grown(disk, disk')
    <2>1. Transmit
      BY <1>4 DEF ReplyArrives
    <2>. QED BY <1>4, <2>1, ReplyArrivesKeeps, SenderGrows
  <1>5. ASSUME NEW f \in Files, ReplyFails(f) PROVE TransferInv' /\ Grown(disk, disk')
    BY <1>5, ReplyFailsKeeps, SenderGrows DEF ReplyFails
  <1>6. ASSUME SenderCloses PROVE TransferInv' /\ Grown(disk, disk')
    BY <1>6, SenderClosesKeeps, SenderGrows DEF SenderCloses
  <1>7. ASSUME PeerReads PROVE TransferInv' /\ Grown(disk, disk')
    BY <1>7, PeerReadsKeeps
  <1>8. ASSUME PeerLoses PROVE TransferInv' /\ Grown(disk, disk')
    BY <1>8, PeerLosesKeeps
  <1>9. ASSUME UNCHANGED allVars PROVE TransferInv' /\ Grown(disk, disk')
    <2>1. /\ UNCHANGED <<vars, claimed>>
          /\ UNCHANGED <<stream, replies, mainRead, fileRead, lost,
                         buffer, receiving, expected, disk, ends>>
      BY <1>9 DEF allVars, peerVars
    <2>2. PICK q, x : q = AtRest' /\ x = Coming'
      OBVIOUS
    <2>3. q = AtRest /\ x = Coming
      BY <2>1, <2>2 DEF AtRest, Coming
    <2>4. /\ q \in ParserType /\ ParserInv(q, x) /\ stream' \in Seq(Parts)
          /\ (receiving' = TRUE => buffer' = <<>>)
      BY <2>1, <2>3 DEF TransferInv
    <2>5. /\ mainRead' \in {"listening", "over"} /\ fileRead' \in {"listening", "closed", "over"}
          /\ lost' \in BOOLEAN
      BY <2>1 DEF TransferInv, LoopType
    <2>6. Grown(disk, disk')
      BY <2>1, SenderFacts DEF Grown
    <2>. QED BY <2>1, <2>2, <2>4, <2>5, <2>6, ReceiverKeeps
  <1>. QED BY <1>1, <1>2, <1>3, <1>4, <1>5, <1>6, <1>7, <1>8, <1>9
           DEF TransferNext, SenderAnswered, SenderFails

\* The sender, the network and the receiver keep the invariant.
THEOREM TransferInvariance == TransferSpec => []TransferInv
  <1>1. TransferInit => TransferInv
    BY TransferStarts
  <1>2. TransferInv /\ [TransferNext]_allVars => TransferInv'
    BY TransferStep
  <1>. QED BY <1>1, <1>2, PTL DEF TransferSpec

\* Every variable of the sender, the network and the receiver keeps its type; a
\* file's expected size never exceeds the largest announced.
THEOREM TransferTypeCorrect == TransferSpec => []TransferTypeOK
  <1>1. TransferInv => TransferTypeOK
    <2>. SUFFICES ASSUME TransferInv PROVE TransferTypeOK
      OBVIOUS
    <2>1. TypeOK /\ LoopType /\ stream \in Seq(Parts)
      BY DEF TransferInv, Inv
    <2>2. /\ buffer \in Seq(Parts) /\ receiving \in BOOLEAN /\ expected \in 0..MaxChunks
          /\ disk \in Seq(Entries) /\ replies \in Seq(Replies) /\ ends \in Seq(Endings)
      BY AtRestTypes DEF TransferInv
    <2>. QED BY <2>1, <2>2 DEF TransferTypeOK, LoopType, Entries, Replies, Endings
  <1>. QED BY <1>1, TransferInvariance, PTL

\* A file that finishReceive() has kept or abortReceive() has removed is never
\* written to again, whatever part of it is still in m_fileBuffer or on the wire.
THEOREM EndedStays == TransferSpec => EndedIsFinal
  <1>1. TransferInv /\ [TransferNext]_allVars
          => [\A i \in 1..Len(disk) : disk[i].state # "writing" => disk'[i] = disk[i]]_allVars
    <2>. SUFFICES ASSUME TransferInv, [TransferNext]_allVars,
                         NEW i \in 1..Len(disk), disk[i].state # "writing"
                  PROVE  disk'[i] = disk[i]
      OBVIOUS
    <2>1. Grown(disk, disk')
      BY TransferStep
    <2>. QED BY <2>1 DEF Grown
  <1>. QED BY <1>1, TransferInvariance, PTL DEF TransferSpec, EndedIsFinal

\* uniquePath() finds a path that neither an earlier file nor a file that was there
\* before has, so that no incoming file overwrites or removes another.
THEOREM Paths == TransferSpec => []PathsApart
  <1>1. TransferInv => PathsApart
    BY AtRestFields DEF TransferInv, ParserInv, Apart, PathsApart
  <1>. QED BY <1>1, TransferInvariance, PTL

\* beginReceive() creates files in the order in which sendFiles() queued them, none
\* twice; and a sender that reports "done" has had the file accepted.
THEOREM Order == TransferSpec => []AcceptedInOrder
  <1>1. TransferInv => AcceptedInOrder
    <2>. SUFFICES ASSUME TransferInv PROVE AcceptedInOrder
      OBVIOUS
    <2>1. Increasing(disk)
      BY AtRestFields DEF TransferInv, ParserInv, Ordered
    <2>2. \A f \in claimed : HasFile(disk, f)
      BY DEF TransferInv
    <2>. QED BY <2>1, <2>2 DEF AcceptedInOrder, Increasing, HasFile
  <1>. QED BY <1>1, TransferInvariance, PTL

\* What finishReceive() keeps is what was sent, byte for byte, however the network
\* cut it and whatever failed before; provided that closing the file loses nothing,
\* which finishReceive() does not check (the run flush_unnoticed shows that it must be
\* assumed).
THEOREM WholeFiles ==
  ASSUME "flush" \notin DiskFails
  PROVE  TransferSpec => []ReceivedWhole
  <1>1. TransferInv => ReceivedWhole
    <2>. SUFFICES ASSUME TransferInv, NEW i \in 1..Len(disk), disk[i].state = "kept"
                  PROVE  disk[i].data = Content(disk[i].file)
      BY DEF ReceivedWhole
    <2>1. disk \in Seq(Entries)
      BY SenderFacts
    <2>. DEFINE e == disk[i]
    <2>2. e \in Entries /\ WholeEntry(e)
      BY <2>1, AtRestFields DEF TransferInv, ParserInv, Whole
    <2>. HIDE DEF e
    <2>3. e.data \in Seq(Parts) /\ e.file \in Files
      BY <2>2 DEF Entries
    <2>4. /\ Len(e.data) = Size[e.file]
          /\ \A j \in 1..Len(e.data) : e.data[j] = Peer!Part("data", e.file, j)
      BY <2>2 DEF WholeEntry
    <2>5. e.data = [j \in 1..Len(e.data) |-> e.data[j]]
      BY <2>3
    <2>6. e.data = Content(e.file)
      BY <2>4, <2>5 DEF Content
    <2>. QED BY <2>6 DEF e
  <1>. QED BY <1>1, TransferInvariance, PTL

\* While m_receiving, sender and receiver agree on where the file is in the stream:
\* m_written chunks of it have been written and the next ones come next, although
\* the protocol frames nothing.
THEOREM Agreement == TransferSpec => []InStep
  <1>1. TransferInv => InStep
    <2>. SUFFICES ASSUME TransferInv, receiving = TRUE PROVE InStep
      BY DEF InStep, TransferInv, AtRest, ParserType
    <2>. DEFINE w == disk[Len(disk)]  got == Len(w.data)  left == expected - got  c == Content(w.file)
    <2>1. /\ AtRest.receiving = TRUE /\ AtRest.disk = disk /\ AtRest.expected = expected
          /\ Peer!Written(AtRest) = w
      BY AtRestFields DEF Peer!Written
    <2>2. Agreed(AtRest, Coming)
      BY SenderFacts DEF Received
    <2>3. /\ Receiving(AtRest) /\ expected = Size[w.file] /\ left > 0 /\ got \in Nat /\ expected \in Int
          /\ Left(AtRest) = left
      BY <2>1, <2>2, ReceivingFacts DEF Agreed
    <2>4. /\ \A i \in 1..got : w.data[i] = Peer!Part("data", w.file, i)
          /\ \A i \in 1..Len(Coming) : i <= left => Coming[i] = Peer!Part("data", w.file, got + i)
      BY <2>1, <2>2, <2>3 DEF Agreed
    <2>5. w \in Entries
      BY <2>1, <2>3, SenderFacts DEF Receiving
    <2>6. w.data \in Seq(Parts) /\ w.file \in Files
      BY <2>5 DEF Entries
    <2>7. buffer = <<>> /\ Coming = stream
      <3>1. buffer = <<>>
        BY DEF TransferInv
      <3>. QED BY <3>1, SenderFacts, ConcatEmptySeq DEF Coming
    <2>8. \A i \in 1..expected : c[i] = Peer!Part("data", w.file, i)
      BY <2>3 DEF Content
    <2>9. w.data = SubSeq(c, 1, got)
      <3>1. SubSeq(c, 1, got) = [i \in 1..got |-> c[i]]
        OBVIOUS
      <3>2. w.data = [i \in 1..got |-> w.data[i]]
        BY <2>6
      <3>3. \A i \in 1..got : i \in 1..expected
        BY <2>3
      <3>4. \A i \in 1..got : w.data[i] = c[i]
        BY <2>4, <2>8, <3>3
      <3>. QED BY <3>1, <3>2, <3>4
    <2>10. ASSUME NEW i \in 1..Len(stream), i <= left PROVE stream[i] = c[got + i]
      <3>1. got + i \in 1..expected
        BY <2>3, <2>10
      <3>2. stream[i] = Peer!Part("data", w.file, got + i)
        BY <2>4, <2>7, <2>10
      <3>. QED BY <2>8, <3>1, <3>2
    <2>. QED BY <2>3, <2>7, <2>9, <2>10 DEF InStep
  <1>. QED BY <1>1, TransferInvariance, PTL

\* The reply that readReply() takes is the one to the current file's request, the
\* only one there is, and the sender waits for it before it streams.
THEOREM RepliesAnswer == TransferSpec => []ReplyIsForCurrent
  <1>1. TransferInv => ReplyIsForCurrent
    <2>. SUFFICES ASSUME TransferInv, replies # <<>>, open
                  PROVE  /\ Len(replies) = 1 /\ replies[1].file = current
                         /\ \A op \in fileOps : op.kind \in {"request", "reply"}
      BY DEF ReplyIsForCurrent
    <2>1. open = TRUE
      BY DEF TransferInv, Inv, TypeOK, ConnectionType
    <2>2. Len(replies) > 0
      BY SenderFacts
    <2>3. current # 0 /\ ~Streaming
      <3>1. Tie(AtRest, Coming) /\ AtRest.replies = replies
        BY SenderFacts, AtRestFields
      <3>2. ~AtRestTie(AtRest, Coming) /\ ~StreamTie(AtRest, Coming)
        BY <2>2, <3>1 DEF AtRestTie, StreamTie
      <3>. QED BY <2>1, <3>1, <3>2 DEF Tie
    <2>4. Len(replies) = 1 /\ replies[1].file = current
      BY <2>1, <2>2, <2>3, AwaitFacts
    <2>5. PICK kind \in OpKinds : fileOps = {Op(kind, current)}
      BY <2>3 DEF TransferInv, Inv, FileInv
    <2>6. kind # "chunk"
      BY <2>3, <2>5 DEF Streaming
    <2>7. kind \in {"request", "reply"}
      BY <2>6 DEF OpKinds
    <2>8. \A op \in fileOps : op.kind \in {"request", "reply"}
      BY <2>5, <2>7 DEF Op
    <2>. QED BY <2>4, <2>8
  <1>. QED BY <1>1, TransferInvariance, PTL

\* The receiver's page is told once, by finishReceive(), abortReceive() or a refusal,
\* how each file ended, and what it is told is what became of the file.
THEOREM OneEnd == TransferSpec => []EndsOnce
  <1>1. TransferInv => EndsOnce
    <2>. SUFFICES ASSUME TransferInv PROVE EndsOnce
      OBVIOUS
    <2>1. /\ Increasing(ends) /\ Ended(disk, ends)
      BY AtRestFields DEF TransferInv, ParserInv, Ordered
    <2>2. /\ disk \in Seq(Entries) /\ ends \in Seq(Endings)
      BY SenderFacts
    <2>3. ASSUME NEW i \in 1..Len(disk), NEW stage \in {"done", "failed"}, NEW state,
                 state = IF stage = "done" THEN "kept" ELSE "removed"
          PROVE  disk[i].state = state
                   <=> Peer!Ending(stage, disk[i].file) \in {ends[j] : j \in 1..Len(ends)}
      <3>1. ASSUME disk[i].state = state
            PROVE  \E j \in 1..Len(ends) : ends[j] = Peer!Ending(stage, disk[i].file)
        <4>1. PICK j \in 1..Len(ends) : ends[j].file = disk[i].file
          BY <2>1, <2>3, <3>1 DEF Ended
        <4>2. disk[i].state = IF ends[j].stage = "done" THEN "kept" ELSE "removed"
          BY <2>1, <4>1 DEF Ended
        <4>3. ends[j] \in Endings
          BY <2>2
        <4>4. ends[j].stage = stage
          BY <2>3, <3>1, <4>2, <4>3 DEF Endings
        <4>. QED BY <4>1, <4>3, <4>4 DEF Endings, Peer!Ending
      <3>2. ASSUME NEW j \in 1..Len(ends), ends[j] = Peer!Ending(stage, disk[i].file)
            PROVE  disk[i].state = state
        <4>1. ends[j].file = disk[i].file /\ ends[j].stage = stage
          BY <3>2 DEF Peer!Ending
        <4>2. disk[i].state = IF ends[j].stage = "done" THEN "kept" ELSE "removed"
          BY <2>1, <4>1 DEF Ended
        <4>. QED BY <2>3, <4>1, <4>2
      <3>. QED BY <3>1, <3>2
    <2>4. ASSUME NEW i \in 1..Len(disk)
          PROVE  /\ disk[i].state = "kept"
                      <=> Peer!Ending("done", disk[i].file) \in {ends[j] : j \in 1..Len(ends)}
                 /\ disk[i].state = "removed"
                      <=> Peer!Ending("failed", disk[i].file) \in {ends[j] : j \in 1..Len(ends)}
      BY <2>3
    <2>. QED BY <2>1, <2>4 DEF EndsOnce, Increasing
  <1>. QED BY <1>1, TransferInvariance, PTL

\* Every step of the transfer is one of ClientSocket, or none of its business.
LEMMA SenderSteps ==
  ASSUME [TransferNext]_allVars
  PROVE  [Next]_vars
  <1>1. \A n \in 1..MaxBatch : Submit(n) => Next
    BY DEF Submit, Next
  <1>2. \A f \in Files, ok \in BOOLEAN : RequestSent(f, ok) => Next
    BY DEF RequestSent, Next, Completion
  <1>3. ASSUME NEW f \in Files, NEW ok \in BOOLEAN, ChunkSent(f, ok) PROVE Next
    <2>. DEFINE more == More(f, sent + 1)
    <2>1. more \in BOOLEAN /\ ChunkWritten(f, ok, more)
      BY <1>3 DEF ChunkSent, More
    <2>. QED BY <2>1 DEF Next, Completion
  <1>4. ASSUME NEW f \in Files, ReplyArrives(f) PROVE Next
    <2>. DEFINE more == More(f, 0)
                reply == IF Head(replies).kind = "ack" THEN "ack" ELSE "other"
    <2>1. more \in BOOLEAN /\ reply \in {"ack", "other", "error"}
      BY DEF More
    <2>2. ReplyRead(f, reply, more)
      BY <1>4 DEF ReplyArrives
    <2>. QED BY <2>1, <2>2 DEF Next, Completion
  <1>5. \A f \in Files : ReplyFails(f) => Next
    BY DEF ReplyFails, Next, Completion
  <1>6. SenderCloses => Next
    BY DEF SenderCloses, Next
  <1>7. PeerReads \/ PeerLoses => UNCHANGED vars
    BY DEF PeerReads, PeerLoses
  <1>8. UNCHANGED allVars => UNCHANGED vars
    BY DEF allVars
  <1>. QED BY <1>1, <1>2, <1>3, <1>4, <1>5, <1>6, <1>7, <1>8
           DEF TransferNext, SenderAnswered, SenderFails

\* The sender of a transfer reports as its contract says, whatever the network
\* and the receiver do.
THEOREM TransferImplementation == TransferSpec => ImplementsContract
  <1>1. TransferInit => Contract!Init
    BY DEF TransferInit, Contract!Init
  <1>2. TransferInv /\ [TransferNext]_allVars => [Contract!Next]_Contract!vars
    <2>. SUFFICES ASSUME TransferInv, [TransferNext]_allVars
                  PROVE  [Contract!Next]_Contract!vars
      OBVIOUS
    <2>1. Inv /\ [Next]_vars
      BY SenderSteps DEF TransferInv
    <2>2. Next => Contract!Next
      BY <2>1, NextStep DEF Preserved
    <2>3. UNCHANGED vars => UNCHANGED Contract!vars
      BY DEF vars, Contract!vars
    <2>. QED BY <2>1, <2>2, <2>3
  <1>. QED BY <1>1, <1>2, TransferInvariance, PTL DEF TransferSpec, ImplementsContract, Contract!Spec
=============================================================================
