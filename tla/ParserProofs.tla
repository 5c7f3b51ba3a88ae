------------------------------ MODULE ParserProofs ------------------------------
(***************************************************************************)
(* What the receiver's parser (PeerConnection) does with the parts of a    *)
(* stream, for any number and size of files and whatever its disk fails    *)
(* at: each operation creates, fills and ends the files in their order,    *)
(* and one turn of parseFile keeps the invariant ParserInv, under which    *)
(* the file being written is a beginning of the file that was sent, and    *)
(* its rest comes next on the wire.                                        *)
(***************************************************************************)
EXTENDS FileTransfer, WellFoundedInduction, SequenceTheorems, FiniteSetTheorems, TLAPS

-----------------------------------------------------------------------------
\* parseFile is a loop, and ParseFile a function of the turns left.  Induction over
\* the turns is done by a least counterexample.

\* A set of numbers that is not empty has a least one.
LEMMA LeastNumber ==
  ASSUME NEW T \in SUBSET Nat, T # {}
  PROVE  \E n \in T : \A m \in T : n <= m
  <1>1. PICK n \in T : \A m \in T : ~ (<<m, n>> \in OpToRel(<, Nat))
    BY NatLessThanWellFounded, WFMin
  <1>2. \A m \in T : ~(m < n)
    BY <1>1 DEF OpToRel
  <1>. QED BY <1>2

\* ParseFile is its last turn.
LEMMA ParseFileTurns ==
  ASSUME NEW p, Len(p.buffer) \in Nat, NEW bad
  PROVE  \E turn : /\ turn[0] = p
                   /\ \A k \in 1..Len(p.buffer) : turn[k] = Peer!ParseOnce(turn[k - 1], bad)
                   /\ Peer!ParseFile(p, bad) = turn[Len(p.buffer)]
  <1>. DEFINE N == Len(p.buffer)
              Def(t, n) == t = [k \in 0..n |-> IF k = 0 THEN p ELSE Peer!ParseOnce(t[k - 1], bad)]
  <1>1. \A n \in 0..N : \E t : Def(t, n)
    <2>. DEFINE T == {n \in 0..N : ~\E t : Def(t, n)}
    <2>. SUFFICES ASSUME T # {} PROVE FALSE
      OBVIOUS
    <2>1. Def([k \in 0..0 |-> p], 0)
      OBVIOUS
    <2>. HIDE DEF Def, N
    <2>2. PICK n \in T : \A m \in T : n <= m
      <3>1. N \in Nat
        BY DEF N
      <3>2. T \in SUBSET Nat
        BY <3>1
      <3>. HIDE DEF T
      <3>. QED BY <3>2, LeastNumber
    <2>3. n # 0
      BY <2>1
    <2>4. n - 1 \in 0..N /\ n - 1 \notin T
      <3>1. N \in Nat /\ n \in 0..N
        BY DEF N
      <3>2. n - 1 \in 0..N
        BY <2>3, <3>1
      <3>3. ~(n <= n - 1)
        BY <3>1
      <3>. QED BY <2>2, <3>2, <3>3
    <2>. USE DEF Def, N
    <2>5. PICK t : Def(t, n - 1)
      BY <2>4
    <2>. DEFINE u == [k \in 0..n |-> IF k = n THEN Peer!ParseOnce(t[n - 1], bad) ELSE t[k]]
    <2>6. Def(u, n)
      <3>1. \A k \in 0..n-1 : t[k] = IF k = 0 THEN p ELSE Peer!ParseOnce(t[k - 1], bad)
        BY <2>5
      <3>2. \A k \in 0..n : u[k] = IF k = 0 THEN p ELSE Peer!ParseOnce(u[k - 1], bad)
        <4>. TAKE k \in 0..n
        <4>1. CASE k = n
          BY <2>3, <4>1
        <4>2. CASE k # n
          <5>1. k \in 0..n-1 /\ u[k] = t[k]
            BY <4>2
          <5>2. k # 0 => u[k-1] = t[k-1]
            BY <4>2
          <5>. QED BY <3>1, <5>1, <5>2
        <4>. QED BY <4>1, <4>2
      <3>. QED BY <3>2
    <2>. QED BY <2>6
  <1>. DEFINE turn == CHOOSE t : Def(t, N)
  <1>2. Def(turn, N)
    BY <1>1
  <1>3. Peer!ParseFile(p, bad) = turn[N]
    BY DEF Peer!ParseFile
  <1>. HIDE DEF turn
  <1>4. \A k \in 0..N : turn[k] = IF k = 0 THEN p ELSE Peer!ParseOnce(turn[k - 1], bad)
    BY <1>2
  <1>5. turn[0] = p /\ \A k \in 1..N : turn[k] = Peer!ParseOnce(turn[k - 1], bad)
    BY <1>4
  <1>. QED BY <1>3, <1>5

\* A file in the receiver's directory, a reply on its way, an event for the page.
Entries == [file : Files, path : Seq(Nat), data : Seq(Parts), state : {"writing", "kept", "removed"}]
Replies == [kind : {"ack", "other", "rest"}, file : Files]
Endings == [stage : {"done", "failed"}, file : Files]

\* The state the handlers of PeerConnection work on.
ParserType ==
  [buffer : Seq(Parts), receiving : BOOLEAN, expected : 0..MaxChunks, disk : Seq(Entries),
   replies : Seq(Replies), ends : Seq(Endings), stop : BOOLEAN]

\* Files e are files d, but for the last one's data and state.
LastAs(d, e, data, state) ==
  /\ e \in Seq(Entries) /\ Len(e) = Len(d)
  /\ \A i \in 1..Len(d) - 1 : e[i] = d[i]
  /\ e[Len(d)].file = d[Len(d)].file /\ e[Len(d)].path = d[Len(d)].path
  /\ e[Len(d)].data = data /\ e[Len(d)].state = state

\* abortReceive() removes the file being written and reports its failure.
LEMMA AbortReceiveEffect ==
  ASSUME NEW p \in ParserType, p.disk # <<>>
  PROVE  LET q == Peer!AbortReceive(p)  w == Peer!Written(p) IN
         /\ q \in ParserType
         /\ q.buffer = p.buffer /\ q.expected = p.expected /\ q.replies = p.replies
         /\ q.receiving = FALSE /\ q.stop = p.stop
         /\ LastAs(p.disk, q.disk, w.data, "removed")
         /\ q.ends = Append(p.ends, Peer!Ending("failed", w.file))
  <1>. DEFINE n == Len(p.disk)  w == p.disk[n]
              d == [p.disk EXCEPT ![n] = [w EXCEPT !.state = "removed"]]
              e == Append(p.ends, Peer!Ending("failed", w.file))
              q == [p EXCEPT !.receiving = FALSE, !.disk = d, !.ends = e]
  <1>1. p.disk \in Seq(Entries) /\ n \in 1..Len(p.disk) /\ p.ends \in Seq(Endings)
    BY DEF ParserType
  <1>2. w \in Entries
    BY <1>1
  <1>3. [w EXCEPT !.state = "removed"] \in Entries
    BY <1>2 DEF Entries
  <1>4. Peer!AbortReceive(p) = q
    BY DEF Peer!AbortReceive, Peer!Written
  <1>5. d \in Seq(Entries) /\ LastAs(p.disk, d, w.data, "removed")
    BY <1>1, <1>2, <1>3, ExceptSeq DEF LastAs
  <1>6. e \in Seq(Endings)
    BY <1>1, <1>2 DEF Entries, Endings, Peer!Ending
  <1>. HIDE DEF d, e
  <1>7. q \in ParserType
    BY <1>5, <1>6 DEF ParserType
  <1>8. q.disk = d /\ q.ends = e /\ q.receiving = FALSE /\ q.stop = p.stop
        /\ q.buffer = p.buffer /\ q.expected = p.expected /\ q.replies = p.replies
    BY DEF ParserType
  <1>. QED BY <1>4, <1>5, <1>7, <1>8 DEF Peer!Written, e

\* What finishReceive() leaves of the file's data.
Flushed(data, bad) ==
  IF "flush" \in bad /\ data # <<>> THEN SubSeq(data, 1, Len(data) - 1) ELSE data

\* finishReceive() keeps the file being written and reports its success.
LEMMA FinishReceiveEffect ==
  ASSUME NEW p \in ParserType, p.disk # <<>>, NEW bad
  PROVE  LET q == Peer!FinishReceive(p, bad)  w == Peer!Written(p) IN
         /\ q \in ParserType
         /\ q.buffer = p.buffer /\ q.expected = p.expected /\ q.replies = p.replies
         /\ q.receiving = FALSE /\ q.stop = p.stop
         /\ LastAs(p.disk, q.disk, Flushed(w.data, bad), "kept")
         /\ q.ends = Append(p.ends, Peer!Ending("done", w.file))
  <1>. DEFINE n == Len(p.disk)  w == p.disk[n]  x == Flushed(w.data, bad)
              d1 == [p.disk EXCEPT ![n].state = "kept"]
              d2 == [d1 EXCEPT ![n].data = x]
              e == Append(p.ends, Peer!Ending("done", w.file))
              q == [p EXCEPT !.receiving = FALSE, !.disk = d2, !.ends = e]
  <1>1. p.disk \in Seq(Entries) /\ n \in 1..Len(p.disk) /\ p.ends \in Seq(Endings)
    BY DEF ParserType
  <1>2. w \in Entries
    BY <1>1
  <1>3. x \in Seq(Parts)
    <2>1. w.data \in Seq(Parts)
      BY <1>2 DEF Entries
    <2>2. w.data # <<>> => SubSeq(w.data, 1, Len(w.data) - 1) \in Seq(Parts)
      BY <2>1
    <2>. QED BY <2>1, <2>2 DEF Flushed
  <1>4. Peer!FinishReceive(p, bad) = q
    <2>1. x = IF "flush" \in bad /\ w.data # <<>> THEN SubSeq(w.data, 1, Len(w.data) - 1) ELSE w.data
      BY DEF Flushed
    <2>2. Peer!Written(p) = w
      BY DEF Peer!Written
    <2>. HIDE DEF x
    <2>3. Peer!FinishReceive(p, bad) =
            [p EXCEPT !.receiving = FALSE, !.disk[n].state = "kept", !.disk[n].data = x,
                      !.ends = e]
      BY <2>1, <2>2, Zenon DEF Peer!FinishReceive
    <2>. QED BY <2>3
  <1>. HIDE DEF x
  <1>5. d2 \in Seq(Entries) /\ LastAs(p.disk, d2, x, "kept")
    <2>. DEFINE w1 == [w EXCEPT !.state = "kept"]  w2 == [w1 EXCEPT !.data = x]
    <2>1. w1 \in Entries /\ w2 \in Entries
      BY <1>2, <1>3 DEF Entries
    <2>2. w2.file = w.file /\ w2.path = w.path /\ w2.data = x /\ w2.state = "kept"
      BY <1>2 DEF Entries
    <2>3. d1 = [p.disk EXCEPT ![n] = w1]
      OBVIOUS
    <2>4. d1 \in Seq(Entries) /\ Len(d1) = n /\ d1[n] = w1
          /\ \A i \in 1..n - 1 : d1[i] = p.disk[i]
      BY <1>1, <2>1, <2>3, ExceptSeq
    <2>5. d2 = [d1 EXCEPT ![n] = w2]
      BY <2>4
    <2>. HIDE DEF d1, d2, w1, w2
    <2>6. d2 \in Seq(Entries) /\ Len(d2) = n /\ d2[n] = w2
          /\ \A i \in 1..n - 1 : d2[i] = d1[i]
      <3>1. n \in 1..Len(d1)
        BY <1>1, <2>4
      <3>. QED BY <2>1, <2>4, <2>5, <3>1, ExceptSeq
    <2>. QED BY <2>2, <2>4, <2>6 DEF LastAs
  <1>6. e \in Seq(Endings)
    BY <1>1, <1>2 DEF Entries, Endings, Peer!Ending
  <1>. HIDE DEF d2, e
  <1>7. q \in ParserType
    BY <1>5, <1>6 DEF ParserType
  <1>8. q.disk = d2 /\ q.ends = e /\ q.receiving = FALSE /\ q.stop = p.stop
        /\ q.buffer = p.buffer /\ q.expected = p.expected /\ q.replies = p.replies
    BY DEF ParserType
  <1>. QED BY <1>4, <1>5, <1>7, <1>8 DEF Peer!Written, e, x

\* A request that is refused is answered and reported; no file is touched.
LEMMA RefuseEffect ==
  ASSUME NEW p \in ParserType, NEW f \in Files
  PROVE  LET q == Peer!Refuse(p, f) IN
         /\ q \in ParserType
         /\ q.buffer = p.buffer /\ q.expected = p.expected /\ q.disk = p.disk
         /\ q.receiving = p.receiving /\ q.stop = p.stop
         /\ q.replies = Append(p.replies, Peer!Reply("other", f))
         /\ q.ends = Append(p.ends, Peer!Ending("failed", f))
  <1>1. Append(p.replies, Peer!Reply("other", f)) \in Seq(Replies)
    BY DEF ParserType, Replies, Peer!Reply
  <1>2. Append(p.ends, Peer!Ending("failed", f)) \in Seq(Endings)
    BY DEF ParserType, Endings, Peer!Ending
  <1>. QED BY <1>1, <1>2 DEF Peer!Refuse, ParserType

\* Different numbers make different names.
LEMMA NumberedEffect ==
  ASSUME NEW name \in Seq(Nat), NEW i \in Nat
  PROVE  /\ Peer!Numbered(name, i) \in Seq(Nat)
         /\ \A j \in Nat : Peer!Numbered(name, i) = Peer!Numbered(name, j) => i = j
  <1>1. \A k \in Nat : /\ Append(name, k) \in Seq(Nat) /\ Len(Append(name, k)) = Len(name) + 1
                       /\ Append(name, k)[Len(name) + 1] = k
    BY AppendProperties
  <1>2. Peer!Numbered(name, i) \in Seq(Nat)
    BY <1>1 DEF Peer!Numbered
  <1>3. ASSUME NEW j \in Nat, Peer!Numbered(name, i) = Peer!Numbered(name, j)
        PROVE  i = j
    <2>. DEFINE ai == Append(name, i)  aj == Append(name, j)
    <2>1. /\ Len(ai) = Len(name) + 1 /\ ai[Len(name) + 1] = i
          /\ Len(aj) = Len(name) + 1 /\ aj[Len(name) + 1] = j
      BY <1>1
    <2>2. (IF i = 0 THEN name ELSE ai) = (IF j = 0 THEN name ELSE aj)
      BY <1>3 DEF Peer!Numbered
    <2>3. Len(name) # Len(name) + 1
      BY LenProperties
    <2>. HIDE DEF ai, aj
    <2>4. CASE i = 0
      BY <2>1, <2>2, <2>3, <2>4
    <2>5. CASE i # 0
      BY <2>1, <2>2, <2>3, <2>5
    <2>. QED BY <2>4, <2>5
  <1>. QED BY <1>2, <1>3

\* UniquePath() finds a path, and the path is free.
LEMMA UniquePathFree ==
  ASSUME NEW name \in Seq(Nat), NEW existing, IsFiniteSet(existing)
  PROVE  /\ Peer!UniquePath(name, existing) \in Seq(Nat)
         /\ Peer!UniquePath(name, existing) \notin existing
  <1>. DEFINE C == Cardinality(existing)
              free == {i \in 0..C : Peer!Numbered(name, i) \notin existing}
              f == [i \in 0..C |-> Peer!Numbered(name, i)]
              first == CHOOSE i \in free : \A j \in free : i <= j
  <1>1. C \in Nat
    BY FS_CardinalityType
  <1>2. free # {}
    <2>. SUFFICES ASSUME free = {} PROVE FALSE
      OBVIOUS
    <2>1. f \in [0..C -> existing]
      OBVIOUS
    <2>2. IsFiniteSet(0..C) /\ Cardinality(0..C) = C + 1
      BY <1>1, FS_Interval
    <2>3. Cardinality(existing) < Cardinality(0..C)
      BY <1>1, <2>2
    <2>. DEFINE S == 0..C
    <2>4. f \in [S -> existing] /\ IsFiniteSet(S) /\ Cardinality(existing) < Cardinality(S)
      BY <2>1, <2>2, <2>3
    <2>. HIDE DEF f, S
    <2>5. \E x, y \in S : x # y /\ f[x] = f[y]
      BY <2>4, FS_PigeonHole
    <2>6. PICK x, y \in S : x # y /\ f[x] = f[y]
      BY <2>5
    <2>7. x \in Nat /\ y \in Nat
      BY <1>1 DEF S
    <2>8. Peer!Numbered(name, x) = Peer!Numbered(name, y)
      BY <2>6 DEF f, S
    <2>. QED BY <2>6, <2>7, <2>8, NumberedEffect
  <1>3. free \in SUBSET Nat
    BY <1>1
  <1>4. Peer!UniquePath(name, existing) = Peer!Numbered(name, first)
    <2>1. Peer!Cardinality(existing) = Cardinality(existing)
      BY DEF Peer!Cardinality, Cardinality, Peer!IsFiniteSet, IsFiniteSet
    <2>. QED BY <2>1 DEF Peer!UniquePath
  <1>. HIDE DEF free
  <1>5. \E i \in free : \A j \in free : i <= j
    BY <1>2, <1>3, LeastNumber
  <1>6. first \in free
    BY <1>5
  <1>. HIDE DEF first
  <1>7. first \in Nat /\ Peer!Numbered(name, first) \notin existing
    BY <1>3, <1>6 DEF free
  <1>. QED BY <1>4, <1>7, NumberedEffect

\* Only finitely many paths are in use.
LEMMA ExistingFinite ==
  ASSUME NEW d \in Seq(Entries)
  PROVE  IsFiniteSet(Peer!Existing(d))
  <1>. DEFINE J == {j \in 1..Len(d) : d[j].state # "removed"}
              P == {d[i].path : i \in J}
              f == [i \in J |-> d[i].path]
  <1>1. IsFiniteSet(J)
    BY FS_Interval, FS_Subset
  <1>2. f \in Surjection(J, P)
    BY DEF Surjection
  <1>. HIDE DEF f, J
  <1>3. IsFiniteSet(P)
    BY <1>1, <1>2, FS_Surjection
  <1>4. Peer!Existing(d) = Taken \cup P
    BY DEF Peer!Existing, J
  <1>. HIDE DEF P
  <1>. QED BY <1>3, <1>4, FS_Union, NameAssumption

\* An accepted request creates a file at a path that is not in use, and is acknowledged.
LEMMA AcceptEffect ==
  ASSUME NEW p \in ParserType, NEW f \in Files
  PROVE  LET q == Peer!Accept(p, f)  n == Len(p.disk) + 1 IN
         /\ q \in ParserType
         /\ q.buffer = p.buffer /\ q.expected = p.expected /\ q.ends = p.ends
         /\ q.receiving = TRUE /\ q.stop = p.stop
         /\ q.replies = Append(p.replies, Peer!Reply("ack", f))
         /\ Len(q.disk) = n
         /\ \A i \in 1..Len(p.disk) : q.disk[i] = p.disk[i]
         /\ q.disk[n].file = f /\ q.disk[n].data = <<>> /\ q.disk[n].state = "writing"
         /\ q.disk[n].path \notin Peer!Existing(p.disk)
  <1>. DEFINE n == Len(p.disk) + 1
              path == Peer!UniquePath(Name[f], Peer!Existing(p.disk))
              x == [file |-> f, path |-> path, data |-> <<>>, state |-> "writing"]
              d == Append(p.disk, x)
              r == Append(p.replies, Peer!Reply("ack", f))
              q == [p EXCEPT !.receiving = TRUE, !.disk = d, !.replies = r]
  <1>1. p.disk \in Seq(Entries)
    BY DEF ParserType
  <1>2. path \in Seq(Nat) /\ path \notin Peer!Existing(p.disk)
    BY <1>1, ExistingFinite, UniquePathFree, NameAssumption
  <1>3. Peer!Accept(p, f) = q
    BY DEF Peer!Accept
  <1>. HIDE DEF path
  <1>4. x \in Entries
    BY <1>2 DEF Entries
  <1>5. x.file = f /\ x.data = <<>> /\ x.state = "writing" /\ x.path = path
    OBVIOUS
  <1>. HIDE DEF x
  <1>6. /\ d \in Seq(Entries) /\ Len(d) = n /\ d[n] = x
        /\ \A i \in 1..Len(p.disk) : d[i] = p.disk[i]
    BY <1>1, <1>4, AppendProperties
  <1>7. r \in Seq(Replies)
    BY DEF ParserType, Replies, Peer!Reply
  <1>. HIDE DEF d, r
  <1>8. q \in ParserType
    BY <1>6, <1>7 DEF ParserType
  <1>9. q.disk = d /\ q.replies = r /\ q.receiving = TRUE /\ q.stop = p.stop
        /\ q.buffer = p.buffer /\ q.expected = p.expected /\ q.ends = p.ends
    BY DEF ParserType
  <1>. QED BY <1>2, <1>3, <1>5, <1>6, <1>8, <1>9 DEF r

\* Files e are files d and an empty one for f, at a path of its own.
Created(d, e, f, state) ==
  LET n == Len(d) + 1 IN
  /\ Len(e) = n
  /\ \A i \in 1..Len(d) : e[i] = d[i]
  /\ e[n].file = f /\ e[n].data = <<>> /\ e[n].state = state
  /\ e[n].path \notin Peer!Existing(d)

\* Nothing but the buffer and the end of the loop tells p from q.
SameFile(p, q) ==
  /\ q.receiving = p.receiving /\ q.expected = p.expected
  /\ q.disk = p.disk /\ q.replies = p.replies /\ q.ends = p.ends

\* A request is answered: refused, accepted and at once complete, or accepted.
Refused(p, q, f) ==
  /\ q.receiving = FALSE /\ q.disk = p.disk
  /\ q.replies = Append(p.replies, Peer!Reply("other", f))
  /\ q.ends = Append(p.ends, Peer!Ending("failed", f))

\* A file of no bytes is complete as soon as it is created.
AcceptedEmpty(p, q, f) ==
  /\ q.receiving = FALSE /\ Created(p.disk, q.disk, f, "kept")
  /\ q.replies = Append(p.replies, Peer!Reply("ack", f))
  /\ q.ends = Append(p.ends, Peer!Ending("done", f))

\* A file is created, and its data will come.
Accepted(p, q, f) ==
  /\ q.receiving = TRUE /\ Created(p.disk, q.disk, f, "writing")
  /\ q.replies = Append(p.replies, Peer!Reply("ack", f))
  /\ q.ends = p.ends

\* One of the three, by the size and the disk, for the request in front.
Requested(p, q) ==
  /\ p.receiving = FALSE /\ Len(p.buffer) >= 2 /\ p.buffer[1].kind = "req"
  /\ q.buffer = SubSeq(p.buffer, 3, Len(p.buffer)) /\ q.stop = FALSE
  /\ q.expected = p.buffer[2].n
  /\ \/ Refused(p, q, p.buffer[2].file)
     \/ p.buffer[2].n = 0 /\ AcceptedEmpty(p, q, p.buffer[2].file)
     \/ p.buffer[2].n # 0 /\ Accepted(p, q, p.buffer[2].file)

\* What beginReceive() does with a request: one of the three.
LEMMA BeginReceiveEffect ==
  ASSUME NEW p \in ParserType, p.receiving = FALSE, NEW f \in Files, NEW size \in 0..MaxChunks,
         NEW bad
  PROVE  LET q == Peer!BeginReceive(p, f, size, bad) IN
         /\ q \in ParserType
         /\ q.buffer = p.buffer /\ q.expected = size /\ q.stop = p.stop
         /\ \/ Refused(p, q, f)
            \/ size = 0 /\ AcceptedEmpty(p, q, f)
            \/ size # 0 /\ Accepted(p, q, f)
  <1>. DEFINE p1 == [p EXCEPT !.expected = size]
              q == Peer!BeginReceive(p, f, size, bad)
  <1>1. p1 \in ParserType
    BY DEF ParserType
  <1>2. /\ p1.buffer = p.buffer /\ p1.receiving = FALSE /\ p1.expected = size
        /\ p1.disk = p.disk /\ p1.replies = p.replies /\ p1.ends = p.ends /\ p1.stop = p.stop
    BY DEF ParserType
  <1>3. q = IF "open" \in bad THEN Peer!Refuse(p1, f)
            ELSE IF size = 0 THEN Peer!FinishReceive(Peer!Accept(p1, f), bad)
            ELSE Peer!Accept(p1, f)
    BY DEF Peer!BeginReceive
  <1>. HIDE DEF p1, q
  <1>. SUFFICES /\ q \in ParserType
                /\ q.buffer = p.buffer /\ q.expected = size /\ q.stop = p.stop
                /\ \/ Refused(p, q, f)
                   \/ size = 0 /\ AcceptedEmpty(p, q, f)
                   \/ size # 0 /\ Accepted(p, q, f)
    BY DEF q
  <1>. DEFINE a == Peer!Accept(p1, f)  n == Len(p1.disk) + 1
  <1>4. /\ a \in ParserType
        /\ a.buffer = p1.buffer /\ a.expected = p1.expected /\ a.ends = p1.ends
        /\ a.receiving = TRUE /\ a.stop = p1.stop
        /\ a.replies = Append(p1.replies, Peer!Reply("ack", f))
        /\ Len(a.disk) = n
        /\ \A i \in 1..Len(p1.disk) : a.disk[i] = p1.disk[i]
        /\ a.disk[n].file = f /\ a.disk[n].data = <<>> /\ a.disk[n].state = "writing"
        /\ a.disk[n].path \notin Peer!Existing(p1.disk)
    BY <1>1, AcceptEffect
  <1>. HIDE DEF a
  <1>5. CASE "open" \in bad
    <2>1. q = Peer!Refuse(p1, f)
      BY <1>3, <1>5
    <2>2. /\ q \in ParserType
          /\ q.buffer = p1.buffer /\ q.expected = p1.expected /\ q.disk = p1.disk
          /\ q.receiving = p1.receiving /\ q.stop = p1.stop
          /\ q.replies = Append(p1.replies, Peer!Reply("other", f))
          /\ q.ends = Append(p1.ends, Peer!Ending("failed", f))
      BY <1>1, <2>1, RefuseEffect
    <2>. QED BY <1>2, <2>2 DEF Refused
  <1>6. CASE "open" \notin bad /\ size # 0
    <2>1. q = a
      BY <1>3, <1>6 DEF a
    <2>. QED BY <1>2, <1>4, <1>6, <2>1 DEF Accepted, Created
  <1>7. CASE "open" \notin bad /\ size = 0
    <2>1. q = Peer!FinishReceive(a, bad)
      BY <1>3, <1>7 DEF a
    <2>2. p1.disk \in Seq(Entries) /\ a.disk \in Seq(Entries)
      BY <1>1, <1>4 DEF ParserType
    <2>3. n \in Nat /\ n > 0 /\ a.disk # <<>>
      BY <1>4, <2>2
    <2>4. Peer!Written(a) = a.disk[n]
      BY <1>4 DEF Peer!Written
    <2>5. /\ q \in ParserType
          /\ q.buffer = a.buffer /\ q.expected = a.expected /\ q.replies = a.replies
          /\ q.receiving = FALSE /\ q.stop = a.stop
          /\ LastAs(a.disk, q.disk, Flushed(a.disk[n].data, bad), "kept")
          /\ q.ends = Append(a.ends, Peer!Ending("done", a.disk[n].file))
      <3>1. LET r == Peer!FinishReceive(a, bad)  w == Peer!Written(a) IN
            /\ r \in ParserType
            /\ r.buffer = a.buffer /\ r.expected = a.expected /\ r.replies = a.replies
            /\ r.receiving = FALSE /\ r.stop = a.stop
            /\ LastAs(a.disk, r.disk, Flushed(w.data, bad), "kept")
            /\ r.ends = Append(a.ends, Peer!Ending("done", w.file))
        BY <1>4, <2>3, FinishReceiveEffect, Zenon
      <3>. QED BY <2>1, <2>4, <3>1
    <2>6. Flushed(a.disk[n].data, bad) = <<>>
      BY <1>4 DEF Flushed
    <2>7. Created(p.disk, q.disk, f, "kept")
      <3>1. /\ Len(q.disk) = n
            /\ \A i \in 1..n - 1 : q.disk[i] = a.disk[i]
            /\ q.disk[n].file = f /\ q.disk[n].path = a.disk[n].path
            /\ q.disk[n].data = <<>> /\ q.disk[n].state = "kept"
        BY <1>4, <2>5, <2>6 DEF LastAs
      <3>2. \A i \in 1..Len(p1.disk) : q.disk[i] = p1.disk[i]
        BY <1>4, <2>2, <3>1
      <3>. QED BY <1>2, <1>4, <3>1, <3>2 DEF Created
    <2>. QED BY <1>2, <1>4, <1>7, <2>5, <2>7 DEF AcceptedEmpty
  <1>. QED BY <1>5, <1>6, <1>7

\* What the parser relies on while a file is being received.
Receiving(p) ==
  /\ p.disk # <<>>
  /\ Peer!Written(p).state = "writing"
  /\ Len(Peer!Written(p).data) < p.expected

\* Data is taken off the buffer: the file goes on, is complete, or is given up.
Stored(p, q, bad) ==
  LET k == Peer!Take(p)
      w == Peer!Written(p)
      data == w.data \o SubSeq(p.buffer, 1, k)
  IN /\ p.receiving = TRUE
     /\ q.buffer = SubSeq(p.buffer, k + 1, Len(p.buffer))
     /\ q.expected = p.expected /\ q.replies = p.replies
     /\ \/ /\ q.receiving = TRUE /\ q.stop = FALSE /\ Len(data) # p.expected
           /\ LastAs(p.disk, q.disk, data, "writing")
           /\ q.ends = p.ends
        \/ /\ q.receiving = FALSE /\ q.stop = FALSE /\ Len(data) = p.expected
           /\ LastAs(p.disk, q.disk, Flushed(data, bad), "kept")
           /\ q.ends = Append(p.ends, Peer!Ending("done", w.file))
        \/ /\ q.receiving = FALSE /\ q.stop = TRUE
           /\ LastAs(p.disk, q.disk, data, "removed")
           /\ q.ends = Append(p.ends, Peer!Ending("failed", w.file))

\* storeData() takes the whole buffer, or what the file lacks.
LEMMA TakeEffect ==
  ASSUME NEW p \in ParserType, Receiving(p), p.buffer # <<>>
  PROVE  LET k == Peer!Take(p)  left == p.expected - Len(Peer!Written(p).data) IN
         /\ k \in 1..Len(p.buffer) /\ k <= left /\ left \in Nat
         /\ k = Len(p.buffer) \/ k = left
  <1>1. p.disk \in Seq(Entries) /\ p.buffer \in Seq(Parts) /\ p.expected \in Nat
    BY BoundsAssumption DEF ParserType, BoundsAssumption
  <1>2. Peer!Written(p) \in Entries
    BY <1>1 DEF Receiving, Peer!Written
  <1>3. Len(Peer!Written(p).data) \in Nat
    BY <1>2 DEF Entries
  <1>4. Len(p.buffer) \in Nat /\ Len(p.buffer) > 0
    BY <1>1
  <1>5. Len(Peer!Written(p).data) < p.expected
    BY DEF Receiving
  <1>. DEFINE l == Len(Peer!Written(p).data)  b == Len(p.buffer)  k == Peer!Take(p)
  <1>6. k = IF b < p.expected - l THEN b ELSE p.expected - l
    BY DEF Peer!Take
  <1>. HIDE DEF l, b, k
  <1>7. l \in Nat /\ b \in Nat /\ b > 0 /\ l < p.expected
    BY <1>3, <1>4, <1>5 DEF l, b
  <1>8. /\ k \in 1..b /\ k <= p.expected - l /\ p.expected - l \in Nat
        /\ k = b \/ k = p.expected - l
    BY <1>1, <1>6, <1>7
  <1>. QED BY <1>8 DEF l, b, k

\* What storeData() does with the data in front: one of the three.
LEMMA StoreDataEffect ==
  ASSUME NEW p \in ParserType, p.receiving = TRUE, p.stop = FALSE, Receiving(p),
         p.buffer # <<>>, NEW bad
  PROVE  /\ Peer!StoreData(p, bad) \in ParserType
         /\ Stored(p, Peer!StoreData(p, bad), bad)
  <1>. DEFINE n == Len(p.disk)
              w == Peer!Written(p)
              k == Peer!Take(p)
              b == SubSeq(p.buffer, k + 1, Len(p.buffer))
              data == w.data \o SubSeq(p.buffer, 1, k)
              d == [p.disk EXCEPT ![n] = [w EXCEPT !.data = data]]
              p1 == [p EXCEPT !.buffer = b, !.disk = d]
              q == Peer!StoreData(p, bad)
  <1>1. p.disk \in Seq(Entries) /\ p.buffer \in Seq(Parts) /\ n \in 1..Len(p.disk)
    BY DEF ParserType, Receiving
  <1>2. w \in Entries /\ w = p.disk[n]
    BY <1>1 DEF Peer!Written
  <1>3. k \in 1..Len(p.buffer)
    BY TakeEffect
  <1>4. b \in Seq(Parts)
    BY <1>1, <1>3
  <1>5. data \in Seq(Parts)
    <2>1. w.data \in Seq(Parts)
      BY <1>2 DEF Entries
    <2>2. SubSeq(p.buffer, 1, k) \in Seq(Parts)
      BY <1>1, <1>3
    <2>. QED BY <2>1, <2>2, ConcatProperties
  <1>6. p1 = [p EXCEPT !.buffer = b, !.disk[n].data = data]
    BY <1>1, <1>2
  <1>7. q = IF "write" \in bad THEN [Peer!AbortReceive(p1) EXCEPT !.stop = TRUE]
            ELSE IF Len(Peer!Written(p1).data) = p1.expected THEN Peer!FinishReceive(p1, bad)
            ELSE p1
    <2>. DEFINE p2 == [p EXCEPT !.buffer = SubSeq(p.buffer, k + 1, Len(p.buffer)),
                                !.disk[Len(p.disk)].data =
                                   p.disk[Len(p.disk)].data \o SubSeq(p.buffer, 1, k)]
    <2>1. p2 = p1
      BY <1>2, <1>6
    <2>2. q = IF "write" \in bad THEN [Peer!AbortReceive(p2) EXCEPT !.stop = TRUE]
              ELSE IF Len(Peer!Written(p2).data) = p2.expected THEN Peer!FinishReceive(p2, bad)
              ELSE p2
      BY Zenon DEF Peer!StoreData
    <2>. QED BY <2>1, <2>2, Zenon
  <1>. HIDE DEF k, b, data, q, w
  <1>8. [w EXCEPT !.data = data] \in Entries
    BY <1>2, <1>5 DEF Entries
  <1>9. /\ d \in Seq(Entries) /\ Len(d) = n
        /\ \A i \in 1..n - 1 : d[i] = p.disk[i]
        /\ d[n] = [w EXCEPT !.data = data]
    BY <1>1, <1>8, ExceptSeq
  <1>10. /\ d[n].file = w.file /\ d[n].path = w.path /\ d[n].data = data
         /\ d[n].state = w.state
    BY <1>2, <1>9 DEF Entries
  <1>. HIDE DEF d
  <1>11. p1 \in ParserType
    BY <1>4, <1>9 DEF ParserType
  <1>12. /\ p1.buffer = b /\ p1.disk = d /\ p1.receiving = TRUE /\ p1.stop = FALSE
         /\ p1.expected = p.expected /\ p1.replies = p.replies /\ p1.ends = p.ends
    BY DEF ParserType
  <1>. HIDE DEF p1
  <1>13. Peer!Written(p1) = d[n] /\ p1.disk # <<>>
    BY <1>1, <1>9, <1>12 DEF Peer!Written
  <1>14. ASSUME NEW e, NEW x, NEW state, LastAs(p1.disk, e, x, state)
         PROVE  LastAs(p.disk, e, x, state)
    <2>1. n \in Nat /\ n >= 1
      BY <1>1
    <2>. HIDE DEF n
    <2>2. /\ e \in Seq(Entries) /\ Len(e) = n
          /\ \A i \in 1..n - 1 : e[i] = d[i]
          /\ e[n].file = d[n].file /\ e[n].path = d[n].path
          /\ e[n].data = x /\ e[n].state = state
      BY <1>9, <1>12, <1>14 DEF LastAs
    <2>3. \A i \in 1..n - 1 : e[i] = p.disk[i]
      BY <1>9, <2>2
    <2>4. e[n].file = p.disk[n].file /\ e[n].path = p.disk[n].path
      BY <1>2, <1>10, <2>2
    <2>. QED BY <2>2, <2>3, <2>4 DEF LastAs, n
  <1>. SUFFICES /\ q \in ParserType
                /\ q.buffer = b /\ q.expected = p.expected /\ q.replies = p.replies
                /\ \/ /\ q.receiving = TRUE /\ q.stop = FALSE /\ Len(data) # p.expected
                      /\ LastAs(p.disk, q.disk, data, "writing")
                      /\ q.ends = p.ends
                   \/ /\ q.receiving = FALSE /\ q.stop = FALSE /\ Len(data) = p.expected
                      /\ LastAs(p.disk, q.disk, Flushed(data, bad), "kept")
                      /\ q.ends = Append(p.ends, Peer!Ending("done", w.file))
                   \/ /\ q.receiving = FALSE /\ q.stop = TRUE
                      /\ LastAs(p.disk, q.disk, data, "removed")
                      /\ q.ends = Append(p.ends, Peer!Ending("failed", w.file))
    BY DEF Stored, q, b, data, k, w
  <1>15. CASE "write" \in bad
    <2>. DEFINE a == Peer!AbortReceive(p1)
    <2>1. a = Peer!AbortReceive(p1)
      OBVIOUS
    <2>2. q = [a EXCEPT !.stop = TRUE]
      BY <1>7, <1>15
    <2>. HIDE DEF a
    <2>3. /\ a \in ParserType
          /\ a.buffer = p1.buffer /\ a.expected = p1.expected /\ a.replies = p1.replies
          /\ a.receiving = FALSE
          /\ LastAs(p1.disk, a.disk, data, "removed")
          /\ a.ends = Append(p1.ends, Peer!Ending("failed", w.file))
      <3>1. /\ a \in ParserType
            /\ a.buffer = p1.buffer /\ a.expected = p1.expected /\ a.replies = p1.replies
            /\ a.receiving = FALSE /\ a.stop = p1.stop
            /\ LastAs(p1.disk, a.disk, Peer!Written(p1).data, "removed")
            /\ a.ends = Append(p1.ends, Peer!Ending("failed", Peer!Written(p1).file))
        BY <1>11, <1>13, <2>1, AbortReceiveEffect, Zenon
      <3>2. Peer!Written(p1).data = data /\ Peer!Written(p1).file = w.file
        BY <1>10, <1>13
      <3>. QED BY <3>1, <3>2
    <2>4. q \in ParserType
      BY <2>2, <2>3 DEF ParserType
    <2>5. /\ q.buffer = a.buffer /\ q.expected = a.expected /\ q.replies = a.replies
          /\ q.receiving = a.receiving /\ q.disk = a.disk /\ q.ends = a.ends /\ q.stop = TRUE
      BY <2>2, <2>3 DEF ParserType
    <2>6. LastAs(p.disk, q.disk, data, "removed")
      BY <1>14, <2>3, <2>5
    <2>. QED BY <1>12, <2>3, <2>4, <2>5, <2>6
  <1>16. CASE "write" \notin bad /\ Len(data) = p.expected
    <2>1. q = Peer!FinishReceive(p1, bad)
      BY <1>7, <1>10, <1>12, <1>13, <1>16
    <2>2. /\ q \in ParserType
          /\ q.buffer = p1.buffer /\ q.expected = p1.expected /\ q.replies = p1.replies
          /\ q.receiving = FALSE /\ q.stop = p1.stop
          /\ LastAs(p1.disk, q.disk, Flushed(data, bad), "kept")
          /\ q.ends = Append(p1.ends, Peer!Ending("done", w.file))
      BY <1>10, <1>11, <1>13, <2>1, FinishReceiveEffect
    <2>. QED BY <1>12, <1>14, <1>16, <2>2
  <1>17. CASE "write" \notin bad /\ Len(data) # p.expected
    <2>1. q = p1
      BY <1>7, <1>10, <1>12, <1>13, <1>17
    <2>2. LastAs(p.disk, d, data, "writing")
      BY <1>2, <1>9, <1>10 DEF LastAs, Receiving, w
    <2>. QED BY <1>11, <1>12, <1>17, <2>1, <2>2
  <1>. QED BY <1>15, <1>16, <1>17

\* The loop is over, or has nothing to do.
Rested(p, q) == (p.stop = TRUE \/ p.buffer = <<>>) /\ q = p

\* Something that is no request is thrown away when no file is expected.
Discarded(p, q) ==
  /\ p.receiving = FALSE /\ p.buffer # <<>> /\ p.buffer[1].kind # "req"
  /\ q.buffer = <<>> /\ q.stop = FALSE
  /\ SameFile(p, q)

\* The request in front is not complete yet.
Waited(p, q) ==
  /\ p.receiving = FALSE /\ p.buffer # <<>>
  /\ q.buffer = p.buffer /\ q.stop = TRUE
  /\ SameFile(p, q)

\* The ways a turn can go.
LEMMA ParseOnceEffect ==
  ASSUME NEW p \in ParserType, p.receiving = TRUE => Receiving(p), NEW bad
  PROVE  LET q == Peer!ParseOnce(p, bad) IN
         /\ q \in ParserType
         /\ \/ Rested(p, q)
            \/ /\ p.stop = FALSE /\ p.buffer # <<>>
               /\ Discarded(p, q) \/ Waited(p, q) \/ Requested(p, q) \/ Stored(p, q, bad)
  <1>. DEFINE q == Peer!ParseOnce(p, bad)
  <1>1. p.stop \in BOOLEAN /\ p.receiving \in BOOLEAN /\ p.buffer \in Seq(Parts)
    BY DEF ParserType
  <1>2. CASE p.stop \/ p.buffer = <<>>
    <2>1. q = p
      BY <1>2 DEF Peer!ParseOnce
    <2>. QED BY <1>1, <1>2, <2>1 DEF Rested
  <1>3. CASE ~p.stop /\ p.buffer # <<>> /\ p.receiving
    <2>1. q = Peer!StoreData(p, bad)
      BY <1>3 DEF Peer!ParseOnce
    <2>2. p.receiving = TRUE /\ p.stop = FALSE
      BY <1>1, <1>3
    <2>3. Receiving(p)
      BY <2>2
    <2>. QED BY <1>3, <2>1, <2>2, <2>3, StoreDataEffect
  <1>4. CASE ~p.stop /\ p.buffer # <<>> /\ ~p.receiving
    <2>1. p.receiving = FALSE /\ p.stop = FALSE
      BY <1>1, <1>4
    <2>2. q = IF p.buffer[1].kind # "req" THEN [p EXCEPT !.buffer = <<>>]
              ELSE IF Len(p.buffer) = 1 THEN [p EXCEPT !.stop = TRUE]
              ELSE Peer!BeginReceive([p EXCEPT !.buffer = SubSeq(@, 3, Len(@))],
                                     p.buffer[2].file, p.buffer[2].n, bad)
      BY <1>4 DEF Peer!ParseOnce
    <2>3. CASE p.buffer[1].kind # "req"
      <3>. DEFINE none == <<>>
      <3>1. q = [p EXCEPT !.buffer = none] /\ none \in Seq(Parts)
        BY <2>2, <2>3
      <3>. HIDE DEF none
      <3>2. q \in ParserType
        BY <3>1 DEF ParserType
      <3>3. q.buffer = none /\ q.stop = p.stop /\ SameFile(p, q)
        BY <3>1 DEF ParserType, SameFile
      <3>. QED BY <1>4, <2>1, <2>3, <3>2, <3>3 DEF Discarded, none
    <2>4. CASE p.buffer[1].kind = "req" /\ Len(p.buffer) = 1
      <3>1. q = [p EXCEPT !.stop = TRUE]
        BY <2>2, <2>4
      <3>2. q \in ParserType
        BY <3>1 DEF ParserType
      <3>3. q.buffer = p.buffer /\ q.stop = TRUE /\ SameFile(p, q)
        BY <3>1 DEF ParserType, SameFile
      <3>. QED BY <1>4, <2>1, <2>4, <3>2, <3>3 DEF Waited
    <2>5. CASE p.buffer[1].kind = "req" /\ Len(p.buffer) # 1
      <3>. DEFINE b == SubSeq(p.buffer, 3, Len(p.buffer))
                  p1 == [p EXCEPT !.buffer = b]
                  f == p.buffer[2].file
                  size == p.buffer[2].n
      <3>1. q = Peer!BeginReceive(p1, f, size, bad)
        BY <2>2, <2>5
      <3>2. Len(p.buffer) >= 2 /\ b \in Seq(Parts) /\ p.buffer[2] \in Parts
        <4>1. Len(p.buffer) \in Nat \ {0}
          BY <1>1, <1>4, EmptySeq
        <4>2. Len(p.buffer) >= 2
          <5>. DEFINE l == Len(p.buffer)
          <5>1. l \in Nat \ {0} /\ l # 1
            BY <2>5, <4>1
          <5>. HIDE DEF l
          <5>2. l >= 2
            BY <5>1
          <5>. QED BY <5>2 DEF l
        <4>. QED BY <1>1, <4>2
      <3>3. f \in Files /\ size \in 0..MaxChunks
        BY <3>2 DEF Parts
      <3>. HIDE DEF b, f, size
      <3>4. p1 \in ParserType
        BY <3>2 DEF ParserType
      <3>5. /\ p1.buffer = b /\ p1.receiving = p.receiving /\ p1.disk = p.disk
            /\ p1.replies = p.replies /\ p1.ends = p.ends /\ p1.stop = p.stop
        BY DEF ParserType
      <3>. HIDE DEF p1, q
      <3>6. /\ q \in ParserType
            /\ q.buffer = p1.buffer /\ q.expected = size /\ q.stop = p1.stop
            /\ \/ Refused(p1, q, f)
               \/ size = 0 /\ AcceptedEmpty(p1, q, f)
               \/ size # 0 /\ Accepted(p1, q, f)
        <4>1. p1.receiving = FALSE
          BY <2>1, <3>5
        <4>. DEFINE r == Peer!BeginReceive(p1, f, size, bad)
        <4>2. /\ r \in ParserType
              /\ r.buffer = p1.buffer /\ r.expected = size /\ r.stop = p1.stop
              /\ \/ Refused(p1, r, f)
                 \/ size = 0 /\ AcceptedEmpty(p1, r, f)
                 \/ size # 0 /\ Accepted(p1, r, f)
          BY <3>3, <3>4, <4>1, BeginReceiveEffect, Zenon
        <4>. QED BY <3>1, <4>2
      <3>7. \/ Refused(p, q, f)
            \/ size = 0 /\ AcceptedEmpty(p, q, f)
            \/ size # 0 /\ Accepted(p, q, f)
        BY <3>5, <3>6 DEF Refused, AcceptedEmpty, Accepted
      <3>8. Requested(p, q)
        BY <2>1, <2>5, <3>2, <3>5, <3>6, <3>7 DEF Requested, b, f, size
      <3>. QED BY <1>4, <2>1, <3>6, <3>8 DEF q
    <2>. QED BY <2>3, <2>4, <2>5
  <1>. QED BY <1>2, <1>3, <1>4

-----------------------------------------------------------------------------
\* What is left of the file being received.
Left(p) == p.expected - Len(Peer!Written(p).data)

\* x is w without its first k parts.
Advanced(w, x, k) ==
  /\ k \in 0..Len(w)
  /\ Len(x) = Len(w) - k
  /\ \A i \in 1..Len(x) : x[i] = w[i + k]

\* No request is on its way.
OnlyData(w) == \A i \in 1..Len(w) : w[i].kind = "data"

\* A request is the end of what is on its way, in one piece or its second half.
Shape(w) ==
  /\ \A i \in 1..Len(w) : w[i].kind = "size" => i = Len(w) /\ w[i].n = Size[w[i].file]
  /\ \A i \in 1..Len(w) : w[i].kind = "req" =>
        i = Len(w) - 1 /\ w[i + 1].kind = "size" /\ w[i + 1].file = w[i].file

\* While a file is being received: what has been written is its beginning, what
\* comes next is its continuation, up to its end at most; the next request, if any,
\* follows right behind.
Agreed(p, w) ==
  p.receiving = TRUE =>
    LET v == Peer!Written(p)  got == Len(v.data) IN
    /\ Receiving(p) /\ p.stop = FALSE
    /\ \A i \in 1..got : v.data[i] = Peer!Part("data", v.file, i)
    /\ p.expected = Size[v.file]
    /\ \A i \in 1..Len(w) : i <= Left(p) => w[i] = Peer!Part("data", v.file, got + i)
    /\ Len(w) <= Left(p) \/ (Len(w) = Left(p) + 2 /\ w[Left(p) + 1].kind = "req")

\* The file holds what was sent, all of it.
WholeEntry(e) ==
  /\ Len(e.data) = Size[e.file]
  /\ \A j \in 1..Len(e.data) : e.data[j] = Peer!Part("data", e.file, j)

\* What has been kept is whole, if flushing a file never loses data.
Whole(d) ==
  "flush" \notin DiskFails => \A i \in 1..Len(d) : d[i].state = "kept" => WholeEntry(d[i])

\* File f has been created.
HasFile(d, f) == \E i \in 1..Len(d) : d[i].file = f

\* Nothing is being sent: no request is on its way, and no reply.
AtRestTie(p, w) ==
  /\ Len(p.replies) = 0
  /\ OnlyData(w)
  /\ p.receiving = TRUE => Len(w) = Left(p)

\* The request of the current file has been handed to the network: it is on its
\* way, or has been answered, or has been thrown away.
AwaitTie(p, w) ==
  /\ \A i \in 1..Len(w) : w[i].kind # "data" => w[i].file = current
  /\ Len(p.replies) > 0 =>
       /\ Len(w) = 0 /\ Len(p.replies) = 1 /\ p.replies[1].file = current
       /\ p.replies[1].kind = "ack" => HasFile(p.disk, current)
       /\ p.receiving = TRUE => p.replies[1].kind = "ack"
  /\ p.receiving = TRUE =>
       \/ Len(w) = Left(p) + 2
       \/ /\ Len(w) = 0 /\ Len(Peer!Written(p).data) = 0
          /\ Peer!Written(p).file = current

\* Data of the current file is on its way.
StreamTie(p, w) ==
  /\ Len(p.replies) = 0
  /\ OnlyData(w)
  /\ HasFile(p.disk, current)
  /\ sent < Size[current]
  /\ p.receiving = TRUE =>
       /\ Peer!Written(p).file = current
       /\ Len(Peer!Written(p).data) + Len(w) = sent + 1

\* The sender is writing the current file's data.
Streaming == Op("chunk", current) \in fileOps

\* How the sender's state and what is on its way belong together while it is up.
Tie(p, w) ==
  open = TRUE =>
    /\ current = 0 => AtRestTie(p, w)
    /\ current # 0 /\ ~Streaming => AwaitTie(p, w)
    /\ current # 0 /\ Streaming => StreamTie(p, w)

\* Files come in the order of their numbers, none of them twice.
Increasing(s) == \A i, j \in 1..Len(s) : i < j => s[i].file < s[j].file

\* A request on its way is for a file that has not been seen yet.
Fresh(w, s) ==
  \A m \in 1..Len(w) : w[m].kind = "req" => \A i \in 1..Len(s) : s[i].file < w[m].file

\* A file is being written only while the receiver receives, and it is the last.
OnlyLastWriting(p) ==
  \A i \in 1..Len(p.disk) : p.disk[i].state = "writing" => p.receiving = TRUE /\ i = Len(p.disk)

\* The file being received has had no event yet, nor any that follows it.
NotEnded(p) ==
  p.receiving = TRUE => \A i \in 1..Len(p.ends) : p.ends[i].file < Peer!Written(p).file

\* A file that is not being written has had its event, which says what it became.
Ended(d, ends_) ==
  /\ \A i \in 1..Len(d) : d[i].state # "writing" =>
        \E j \in 1..Len(ends_) : ends_[j].file = d[i].file
  /\ \A i \in 1..Len(d), j \in 1..Len(ends_) : ends_[j].file = d[i].file =>
        d[i].state = IF ends_[j].stage = "done" THEN "kept" ELSE "removed"

\* The order of files, events and requests, and the end of each file.
Ordered(p, w) ==
  /\ Increasing(p.disk) /\ Increasing(p.ends)
  /\ Fresh(w, p.disk) /\ Fresh(w, p.ends)
  /\ OnlyLastWriting(p) /\ NotEnded(p)
  /\ Ended(p.disk, p.ends)

\* The last file the sender may have asked for.
Reach == IF current = 0 THEN lastFile ELSE current

\* No file of s is beyond what the sender may have asked for.
Within(s) == \A i \in 1..Len(s) : s[i].file <= Reach

\* The receiver knows of no file that the sender has not come to.
Bounded(p) == open = TRUE => Within(p.disk) /\ Within(p.ends)

\* No two files that are there have the same path, nor one of those before them.
Apart(d) ==
  \A i \in 1..Len(d) : d[i].state # "removed" =>
    /\ d[i].path \notin Taken
    /\ \A j \in 1..Len(d) : i # j /\ d[j].state # "removed" => d[i].path # d[j].path

\* Files e continue files d: none is lost or renamed, and none that has ended changes.
Grown(d, e) ==
  /\ Len(d) <= Len(e)
  /\ \A i \in 1..Len(d) : /\ e[i].file = d[i].file
                          /\ d[i].state # "writing" => e[i] = d[i]

\* The invariant of the parser, p, with w in front of it.
ParserInv(p, w) ==
  /\ Shape(w) /\ Agreed(p, w) /\ Whole(p.disk) /\ Tie(p, w)
  /\ Ordered(p, w) /\ Bounded(p) /\ Apart(p.disk)

\* What is in front of the parser is the buffer and what has not been read.
LEMMA RestAdvanced ==
  ASSUME NEW b \in Seq(Parts), NEW s \in Seq(Parts), NEW k \in 0..Len(b)
  PROVE  LET c == SubSeq(b, k + 1, Len(b)) IN
         /\ c \in Seq(Parts) /\ Len(c) = Len(b) - k
         /\ b \o s \in Seq(Parts) /\ c \o s \in Seq(Parts)
         /\ Advanced(b \o s, c \o s, k)
  <1>. DEFINE c == SubSeq(b, k + 1, Len(b))  w == b \o s  x == c \o s
  <1>1. Len(b) \in Nat /\ Len(s) \in Nat /\ k \in Nat /\ k <= Len(b)
    BY LenProperties
  <1>2. \A i \in k + 1..Len(b) : b[i] \in Parts
    BY <1>1
  <1>3. /\ c \in Seq(Parts)
        /\ Len(c) = IF k + 1 <= Len(b) THEN Len(b) - (k + 1) + 1 ELSE 0
        /\ \A i \in 1..Len(b) - (k + 1) + 1 : c[i] = b[k + 1 + i - 1]
    BY <1>1, <1>2, SubSeqProperties
  <1>4. Len(c) = Len(b) - k
    BY <1>1, <1>3
  <1>5. \A i \in 1..Len(c) : c[i] = b[i + k]
    BY <1>1, <1>3, <1>4
  <1>6. /\ w \in Seq(Parts) /\ Len(w) = Len(b) + Len(s)
        /\ \A i \in 1..Len(b) + Len(s) : w[i] = IF i <= Len(b) THEN b[i] ELSE s[i - Len(b)]
    BY ConcatProperties
  <1>. HIDE DEF c
  <1>7. /\ x \in Seq(Parts) /\ Len(x) = Len(c) + Len(s)
        /\ \A i \in 1..Len(c) + Len(s) : x[i] = IF i <= Len(c) THEN c[i] ELSE s[i - Len(c)]
    BY <1>3, ConcatProperties
  <1>. HIDE DEF w, x
  <1>8. k \in 0..Len(w) /\ Len(x) = Len(w) - k
    BY <1>1, <1>4, <1>6, <1>7
  <1>9. ASSUME NEW i \in 1..Len(x) PROVE x[i] = w[i + k]
    <2>1. i + k \in 1..Len(b) + Len(s) /\ i \in 1..Len(c) + Len(s)
      BY <1>1, <1>4, <1>7
    <2>2. CASE i <= Len(c)
      <3>1. i + k <= Len(b) /\ i \in 1..Len(c)
        BY <1>1, <1>4, <2>1, <2>2
      <3>. QED BY <1>5, <1>6, <1>7, <2>1, <2>2, <3>1
    <2>3. CASE ~(i <= Len(c))
      <3>1. ~(i + k <= Len(b)) /\ i + k - Len(b) = i - Len(c)
        BY <1>1, <1>4, <2>1, <2>3
      <3>2. x[i] = s[i - Len(c)]
        BY <1>7, <2>1, <2>3
      <3>3. w[i + k] = s[i + k - Len(b)]
        BY <1>6, <2>1, <3>1
      <3>. QED BY <3>1, <3>2, <3>3
    <2>. QED BY <2>2, <2>3
  <1>10. Advanced(w, x, k)
    BY <1>8, <1>9 DEF Advanced
  <1>11. /\ c \in Seq(Parts) /\ Len(c) = Len(b) - k
         /\ w \in Seq(Parts) /\ x \in Seq(Parts) /\ Advanced(w, x, k)
    BY <1>3, <1>4, <1>6, <1>7, <1>10
  <1>. QED BY <1>11, Zenon DEF c, w, x

\* Reading on does not break a request up.
LEMMA ShapeAdvanced ==
  ASSUME NEW w \in Seq(Parts), NEW x \in Seq(Parts), NEW k, Advanced(w, x, k), Shape(w)
  PROVE  Shape(x)
  <1>1. /\ k \in 0..Len(w) /\ Len(w) \in Nat /\ Len(x) = Len(w) - k
        /\ \A i \in 1..Len(x) : x[i] = w[i + k]
    BY DEF Advanced
  <1>2. ASSUME NEW i \in 1..Len(x)
        PROVE  /\ i + k \in 1..Len(w) /\ x[i] = w[i + k]
               /\ i + k = Len(w) <=> i = Len(x)
               /\ i + k = Len(w) - 1 <=> i = Len(x) - 1
    BY <1>1
  <1>3. ASSUME NEW i \in 1..Len(x), x[i].kind = "size"
        PROVE  i = Len(x) /\ x[i].n = Size[x[i].file]
    BY <1>2, <1>3 DEF Shape
  <1>4. ASSUME NEW i \in 1..Len(x), x[i].kind = "req"
        PROVE  i = Len(x) - 1 /\ x[i + 1].kind = "size" /\ x[i + 1].file = x[i].file
    <2>1. /\ i + k = Len(w) - 1 /\ w[i + k + 1].kind = "size"
          /\ w[i + k + 1].file = w[i + k].file
      BY <1>2, <1>4 DEF Shape
    <2>2. i = Len(x) - 1 /\ i + 1 \in 1..Len(x) /\ (i + 1) + k = i + k + 1
      <3>1. i \in Nat /\ k \in Nat /\ Len(x) \in Nat /\ i >= 1
        BY <1>1
      <3>2. i = Len(x) - 1
        BY <1>2, <2>1
      <3>. QED BY <3>1, <3>2
    <2>3. x[i] = w[i + k] /\ x[i + 1] = w[i + k + 1]
      BY <1>1, <1>2, <2>2
    <2>. QED BY <2>1, <2>2, <2>3
  <1>. QED BY <1>3, <1>4 DEF Shape

\* The rest of data is data.
LEMMA OnlyDataAdvanced ==
  ASSUME NEW w \in Seq(Parts), NEW x \in Seq(Parts), NEW k, Advanced(w, x, k), OnlyData(w)
  PROVE  OnlyData(x)
  BY DEF Advanced, OnlyData

\* The rest of what is on its way asks for nothing old.
LEMMA FreshAdvanced ==
  ASSUME NEW w \in Seq(Parts), NEW x \in Seq(Parts), NEW k, Advanced(w, x, k),
         NEW s, Fresh(w, s)
  PROVE  Fresh(x, s)
  BY DEF Advanced, Fresh

-----------------------------------------------------------------------------
\* What happens to the files and to the events, one case at a time.

\* A list of events with one more.
LEMMA EndsAppended ==
  ASSUME NEW s \in Seq(Endings), NEW stage \in {"done", "failed"}, NEW f \in Files,
         NEW t, t = Append(s, Peer!Ending(stage, f))
  PROVE  /\ t \in Seq(Endings) /\ Len(t) = Len(s) + 1
         /\ \A i \in 1..Len(s) : t[i] = s[i]
         /\ t[Len(s) + 1].file = f /\ t[Len(s) + 1].stage = stage
  <1>. DEFINE e == Peer!Ending(stage, f)
  <1>1. e \in Endings /\ e.file = f /\ e.stage = stage
    BY DEF Endings, Peer!Ending
  <1>. HIDE DEF e
  <1>2. t = Append(s, e)
    BY DEF e
  <1>. QED BY <1>1, <1>2, AppendProperties

\* Increasing lists with one more element that is above all of them.
LEMMA IncreasingLonger ==
  ASSUME NEW s, NEW t, Len(s) \in Nat, Len(t) = Len(s) + 1, Increasing(s),
         \A i \in 1..Len(s) : t[i].file = s[i].file,
         \A i \in 1..Len(s) : s[i].file < t[Len(s) + 1].file
  PROVE  Increasing(t)
  <1>. DEFINE n == Len(s)
  <1>. SUFFICES ASSUME NEW i \in 1..Len(t), NEW j \in 1..Len(t), i < j
                PROVE  t[i].file < t[j].file
    BY DEF Increasing
  <1>1. i \in 1..n
    OBVIOUS
  <1>2. CASE j \in 1..n
    BY <1>1, <1>2 DEF Increasing
  <1>3. CASE j = n + 1
    BY <1>1, <1>3
  <1>. QED BY <1>2, <1>3

\* Lists of the same files are increasing together, and as new to a request.
LEMMA SameFiles ==
  ASSUME NEW s, NEW t, Len(s) \in Nat, Len(t) = Len(s),
         \A i \in 1..Len(s) : t[i].file = s[i].file
  PROVE  /\ Increasing(s) => Increasing(t)
         /\ \A w : Fresh(w, s) => Fresh(w, t)
         /\ Within(s) => Within(t)
         /\ \A f : HasFile(s, f) => HasFile(t, f)
  <1>1. Increasing(s) => Increasing(t)
    BY DEF Increasing
  <1>2. \A w : Fresh(w, s) => Fresh(w, t)
    BY DEF Fresh
  <1>3. Within(s) => Within(t)
    BY DEF Within
  <1>4. \A f : HasFile(s, f) => HasFile(t, f)
    BY DEF HasFile
  <1>. QED BY <1>1, <1>2, <1>3, <1>4

\* Files are numbers, and 0 is none of them.
LEMMA FilesAreNumbers == \A f \in Files : f \in Int /\ f # 0
  BY DEF Files

\* What a file in the directory consists of.
LEMMA EntryTypes ==
  ASSUME NEW d \in Seq(Entries)
  PROVE  /\ Len(d) \in Nat
         /\ \A i \in 1..Len(d) : /\ d[i].file \in Files /\ d[i].file \in Int
                                 /\ d[i].data \in Seq(Parts) /\ d[i].path \in Seq(Nat)
                                 /\ d[i].state \in {"writing", "kept", "removed"}
  <1>1. Len(d) \in Nat /\ \A i \in 1..Len(d) : d[i] \in Entries
    OBVIOUS
  <1>. QED BY <1>1, FilesAreNumbers DEF Entries

\* What an event consists of.
LEMMA EndingTypes ==
  ASSUME NEW s \in Seq(Endings)
  PROVE  /\ Len(s) \in Nat
         /\ \A i \in 1..Len(s) : /\ s[i].file \in Files /\ s[i].file \in Int
                                 /\ s[i].stage \in {"done", "failed"}
  <1>1. Len(s) \in Nat /\ \A i \in 1..Len(s) : s[i] \in Endings
    OBVIOUS
  <1>. QED BY <1>1, FilesAreNumbers DEF Endings

\* A file has been created.
LEMMA CreatedFacts ==
  ASSUME NEW d \in Seq(Entries), NEW e \in Seq(Entries), NEW f \in Files,
         NEW state \in {"writing", "kept"}, Created(d, e, f, state)
  PROVE  /\ Grown(d, e)
         /\ HasFile(e, f) /\ \A g : HasFile(d, g) => HasFile(e, g)
         /\ Apart(d) => Apart(e)
         /\ Whole(d) /\ (state = "kept" => Size[f] = 0) => Whole(e)
         /\ Increasing(d) /\ (\A i \in 1..Len(d) : d[i].file < f) => Increasing(e)
         /\ Within(d) /\ f <= Reach => Within(e)
  <1>. DEFINE n == Len(d) + 1
  <1>1. /\ Len(e) = n /\ Len(d) \in Nat /\ n \in 1..Len(e)
        /\ \A i \in 1..Len(d) : e[i] = d[i]
        /\ e[n].file = f /\ e[n].data = <<>> /\ e[n].state = state
        /\ e[n].path \notin Peer!Existing(d)
    BY DEF Created
  <1>2. \A i \in 1..Len(e) : i \in 1..Len(d) \/ i = n
    BY <1>1
  <1>3. Grown(d, e)
    BY <1>1 DEF Grown
  <1>4. HasFile(e, f) /\ \A g : HasFile(d, g) => HasFile(e, g)
    <2>1. HasFile(e, f)
      BY <1>1 DEF HasFile
    <2>2. ASSUME NEW g, HasFile(d, g) PROVE HasFile(e, g)
      <3>1. PICK i \in 1..Len(d) : d[i].file = g
        BY <2>2 DEF HasFile
      <3>2. i \in 1..Len(e) /\ e[i].file = g
        BY <1>1, <3>1
      <3>. QED BY <3>2 DEF HasFile
    <2>. QED BY <2>1, <2>2
  <1>5. ASSUME Apart(d) PROVE Apart(e)
    <2>1. e[n].path \notin Taken
      BY <1>1 DEF Peer!Existing
    <2>2. \A i \in 1..Len(d) : d[i].state # "removed" => d[i].path # e[n].path
      BY <1>1 DEF Peer!Existing
    <2>3. ASSUME NEW i \in 1..Len(e), e[i].state # "removed"
          PROVE  /\ e[i].path \notin Taken
                 /\ \A j \in 1..Len(e) : i # j /\ e[j].state # "removed" => e[i].path # e[j].path
      <3>1. CASE i = n
        <4>1. ASSUME NEW j \in 1..Len(e), i # j, e[j].state # "removed"
              PROVE  e[i].path # e[j].path
          BY <1>1, <1>2, <2>2, <3>1, <4>1
        <4>. QED BY <2>1, <3>1, <4>1
      <3>2. CASE i \in 1..Len(d)
        <4>1. e[i] = d[i] /\ d[i].state # "removed"
          BY <1>1, <2>3, <3>2
        <4>2. e[i].path \notin Taken
          BY <1>5, <3>2, <4>1 DEF Apart
        <4>3. ASSUME NEW j \in 1..Len(e), i # j, e[j].state # "removed"
              PROVE  e[i].path # e[j].path
          <5>1. CASE j = n
            BY <2>2, <3>2, <4>1, <5>1
          <5>2. CASE j \in 1..Len(d)
            BY <1>1, <1>5, <3>2, <4>1, <4>3, <5>2 DEF Apart
          <5>. QED BY <1>2, <5>1, <5>2
        <4>. QED BY <4>2, <4>3
      <3>. QED BY <1>2, <3>1, <3>2
    <2>. QED BY <2>3 DEF Apart
  <1>6. ASSUME Whole(d), state = "kept" => Size[f] = 0 PROVE Whole(e)
    <2>1. ASSUME "flush" \notin DiskFails, NEW i \in 1..Len(e), e[i].state = "kept"
          PROVE  WholeEntry(e[i])
      <3>1. CASE i = n
        <4>1. Len(e[i].data) = 0 /\ Size[e[i].file] = 0
          BY <1>1, <1>6, <2>1, <3>1
        <4>. QED BY <4>1 DEF WholeEntry
      <3>2. CASE i \in 1..Len(d)
        BY <1>1, <1>6, <2>1, <3>2 DEF Whole
      <3>. QED BY <1>2, <3>1, <3>2
    <2>. QED BY <2>1 DEF Whole
  <1>7. ASSUME Increasing(d), \A i \in 1..Len(d) : d[i].file < f PROVE Increasing(e)
    <2>1. /\ \A i \in 1..Len(d) : e[i].file = d[i].file
          /\ \A i \in 1..Len(d) : d[i].file < e[Len(d) + 1].file
      BY <1>1, <1>7
    <2>. QED BY <1>1, <1>7, <2>1, IncreasingLonger
  <1>8. ASSUME Within(d), f <= Reach PROVE Within(e)
    <2>1. ASSUME NEW i \in 1..Len(e) PROVE e[i].file <= Reach
      BY <1>1, <1>2, <1>8 DEF Within
    <2>. QED BY <2>1 DEF Within
  <1>. QED BY <1>3, <1>4, <1>5, <1>6, <1>7, <1>8

\* The last file has been written to, kept or removed.
LEMMA LastAsFacts ==
  ASSUME NEW d \in Seq(Entries), d # <<>>, d[Len(d)].state = "writing",
         NEW e, NEW data, NEW state \in {"writing", "kept", "removed"},
         LastAs(d, e, data, state)
  PROVE  /\ e \in Seq(Entries) /\ Len(e) = Len(d) /\ Len(d) \in 1..Len(d)
         /\ \A i \in 1..Len(d) : e[i].file = d[i].file /\ e[i].path = d[i].path
         /\ \A i \in 1..Len(d) : i # Len(d) => e[i] = d[i]
         /\ e[Len(d)].data = data /\ e[Len(d)].state = state
         /\ Grown(d, e)
         /\ Apart(d) => Apart(e)
  <1>. DEFINE n == Len(d)
  <1>1. n \in Nat /\ n \in 1..n
    BY EmptySeq
  <1>2. /\ e \in Seq(Entries) /\ Len(e) = n
        /\ \A i \in 1..n - 1 : e[i] = d[i]
        /\ e[n].file = d[n].file /\ e[n].path = d[n].path
        /\ e[n].data = data /\ e[n].state = state
    BY DEF LastAs
  <1>3. d[n].state = "writing"
    OBVIOUS
  <1>. HIDE DEF n
  <1>4. \A i \in 1..n : i # n => i \in 1..n - 1
    BY <1>1
  <1>5. \A i \in 1..n : i # n => e[i] = d[i]
    BY <1>2, <1>4
  <1>6. \A i \in 1..n : e[i].file = d[i].file /\ e[i].path = d[i].path
    BY <1>2, <1>5
  <1>7. Grown(d, e)
    <2>1. \A i \in 1..n : d[i].state # "writing" => e[i] = d[i]
      BY <1>3, <1>5
    <2>. QED BY <1>1, <1>2, <1>6, <2>1 DEF Grown, n
  <1>8. ASSUME Apart(d) PROVE Apart(e)
    <2>1. \A i \in 1..n : e[i].state # "removed" => d[i].state # "removed"
      BY <1>3, <1>5
    <2>. QED BY <1>2, <1>6, <1>8, <2>1 DEF Apart, n
  <1>. QED BY <1>1, <1>2, <1>5, <1>6, <1>7, <1>8 DEF n

-----------------------------------------------------------------------------
\* The turns of the parser.

\* What is in front of the parser starts with its buffer.
Front(p, w) ==
  /\ Len(p.buffer) \in 0..Len(w)
  /\ \A i \in 1..Len(p.buffer) : w[i] = p.buffer[i]

\* What the parser's state consists of.
LEMMA FieldTypes ==
  ASSUME NEW p \in ParserType
  PROVE  /\ p.buffer \in Seq(Parts) /\ p.receiving \in BOOLEAN /\ p.expected \in Int
         /\ p.disk \in Seq(Entries) /\ p.replies \in Seq(Replies) /\ p.ends \in Seq(Endings)
         /\ p.stop \in BOOLEAN
  BY BoundsAssumption DEF ParserType, BoundsAssumption

\* A turn that only uses up the buffer.
LEMMA QuietTurn ==
  ASSUME NEW p \in ParserType, NEW q \in ParserType, NEW w \in Seq(Parts), NEW x \in Seq(Parts),
         NEW k, Advanced(w, x, k), Len(w) > 0,
         ParserInv(p, w), p.receiving = FALSE, SameFile(p, q)
  PROVE  ParserInv(q, x) /\ Grown(p.disk, q.disk)
  <1>1. /\ q.receiving = FALSE /\ q.expected = p.expected /\ q.disk = p.disk
        /\ q.replies = p.replies /\ q.ends = p.ends
    BY DEF SameFile
  <1>2. /\ Shape(w) /\ Whole(p.disk) /\ Tie(p, w) /\ Ordered(p, w) /\ Bounded(p) /\ Apart(p.disk)
    BY DEF ParserInv
  <1>3. Shape(x) /\ (OnlyData(w) => OnlyData(x))
    BY <1>2, ShapeAdvanced, OnlyDataAdvanced
  <1>4. Agreed(q, x)
    BY <1>1 DEF Agreed
  <1>5. Tie(q, x)
    <2>1. ASSUME AtRestTie(p, w) PROVE AtRestTie(q, x)
      BY <1>1, <1>3, <2>1 DEF AtRestTie
    <2>2. ASSUME AwaitTie(p, w) PROVE AwaitTie(q, x)
      <3>1. ~(Len(p.replies) > 0)
        BY <2>2 DEF AwaitTie
      <3>2. \A i \in 1..Len(w) : w[i].kind # "data" => w[i].file = current
        BY <2>2 DEF AwaitTie
      <3>3. \A i \in 1..Len(x) : x[i].kind # "data" => x[i].file = current
        <4>. TAKE i \in 1..Len(x)
        <4>1. i + k \in 1..Len(w) /\ x[i] = w[i + k]
          BY DEF Advanced
        <4>. QED BY <3>2, <4>1
      <3>. QED BY <1>1, <3>1, <3>3 DEF AwaitTie
    <2>3. ASSUME StreamTie(p, w) PROVE StreamTie(q, x)
      BY <1>1, <1>3, <2>3 DEF StreamTie
    <2>. QED BY <1>2, <2>1, <2>2, <2>3 DEF Tie
  <1>6. Ordered(q, x)
    <2>1. Fresh(x, p.disk) /\ Fresh(x, p.ends)
      BY <1>2, FreshAdvanced DEF Ordered
    <2>2. OnlyLastWriting(q) /\ NotEnded(q)
      BY <1>1, <1>2 DEF Ordered, OnlyLastWriting, NotEnded
    <2>. QED BY <1>1, <1>2, <2>1, <2>2 DEF Ordered
  <1>7. Bounded(q)
    BY <1>1, <1>2 DEF Bounded
  <1>8. Grown(p.disk, q.disk)
    BY <1>1, FieldTypes DEF Grown
  <1>. QED BY <1>1, <1>2, <1>3, <1>4, <1>5, <1>6, <1>7, <1>8 DEF ParserInv

\* A request in the buffer is the last thing on its way; it is for a new file, and
\* a sender that is up waits for the answer to it and has no other.
LEMMA RequestFacts ==
  ASSUME NEW p \in ParserType, NEW w \in Seq(Parts), NEW x \in Seq(Parts),
         Advanced(w, x, 2), Front(p, w), ParserInv(p, w),
         Len(p.buffer) >= 2, p.buffer[1].kind = "req"
  PROVE  LET f == p.buffer[2].file IN
         /\ Len(x) = 0 /\ f \in Files /\ p.buffer[2].n = Size[f]
         /\ \A i \in 1..Len(p.disk) : p.disk[i].file < f
         /\ \A i \in 1..Len(p.ends) : p.ends[i].file < f
         /\ open = TRUE => current = f /\ current # 0 /\ ~Streaming /\ Len(p.replies) = 0
  <1>. DEFINE f == p.buffer[2].file
  <1>1. /\ Len(p.buffer) \in Nat /\ Len(w) \in Nat /\ 1 \in 1..Len(p.buffer)
        /\ 2 \in 1..Len(p.buffer) /\ Len(p.buffer) <= Len(w)
    BY FieldTypes DEF Front
  <1>2. /\ w[1] = p.buffer[1] /\ w[2] = p.buffer[2] /\ 1 \in 1..Len(w) /\ 2 \in 1..Len(w)
    BY <1>1 DEF Front
  <1>3. w[1].kind = "req"
    BY <1>2
  <1>4. 1 = Len(w) - 1 /\ w[1 + 1].kind = "size" /\ w[1 + 1].file = w[1].file
    BY <1>2, <1>3 DEF ParserInv, Shape
  <1>5. Len(w) = 2 /\ w[2].kind = "size" /\ w[1].file = f
    BY <1>1, <1>2, <1>4
  <1>6. p.buffer[2].n = Size[f]
    BY <1>2, <1>5 DEF ParserInv, Shape
  <1>7. f \in Files
    <2>1. w[2] \in Parts
      BY <1>2
    <2>. QED BY <1>2, <2>1 DEF Parts
  <1>8. Len(x) = 0
    BY <1>5 DEF Advanced
  <1>9. /\ \A i \in 1..Len(p.disk) : p.disk[i].file < f
        /\ \A i \in 1..Len(p.ends) : p.ends[i].file < f
    BY <1>2, <1>3, <1>5 DEF ParserInv, Ordered, Fresh
  <1>10. ASSUME open = TRUE
         PROVE  current = f /\ current # 0 /\ ~Streaming /\ Len(p.replies) = 0
    <2>1. w[1].kind # "data"
      BY <1>3
    <2>2. ~OnlyData(w)
      BY <1>2, <2>1 DEF OnlyData
    <2>3. current # 0 /\ ~Streaming /\ AwaitTie(p, w)
      BY <1>10, <2>2 DEF ParserInv, Tie, AtRestTie, StreamTie
    <2>4. current = f
      BY <1>2, <1>5, <2>1, <2>3 DEF AwaitTie
    <2>5. ~(Len(p.replies) > 0) /\ Len(p.replies) \in Nat
      BY <1>5, <2>3, FieldTypes DEF AwaitTie
    <2>. QED BY <2>3, <2>4, <2>5
  <1>. QED BY <1>6, <1>7, <1>8, <1>9, <1>10

\* The first reply in an empty list of replies.
LEMMA FirstReply ==
  ASSUME NEW r \in Seq(Replies), Len(r) = 0, NEW kind \in {"ack", "other"}, NEW f \in Files,
         NEW t, t = Append(r, Peer!Reply(kind, f))
  PROVE  Len(t) = 1 /\ t[1].file = f /\ t[1].kind = kind
  <1>. DEFINE e == Peer!Reply(kind, f)
  <1>1. e \in Replies /\ e.file = f /\ e.kind = kind
    BY DEF Replies, Peer!Reply
  <1>. HIDE DEF e
  <1>2. t = Append(r, e)
    BY DEF e
  <1>3. Len(t) = Len(r) + 1 /\ t[Len(r) + 1] = e
    BY <1>1, <1>2, AppendProperties
  <1>. QED BY <1>1, <1>3

\* One more event, for a file above all those before it.
LEMMA EndsLonger ==
  ASSUME NEW s \in Seq(Endings), NEW stage \in {"done", "failed"}, NEW f \in Files,
         NEW t, t = Append(s, Peer!Ending(stage, f)),
         Increasing(s), \A i \in 1..Len(s) : s[i].file < f
  PROVE  /\ Increasing(t)
         /\ Within(s) /\ f <= Reach => Within(t)
  <1>1. /\ t \in Seq(Endings) /\ Len(t) = Len(s) + 1 /\ Len(s) \in Nat
        /\ \A i \in 1..Len(s) : t[i] = s[i]
        /\ t[Len(s) + 1].file = f
    BY EndsAppended
  <1>2. Increasing(t)
    <2>1. /\ \A i \in 1..Len(s) : t[i].file = s[i].file
          /\ \A i \in 1..Len(s) : s[i].file < t[Len(s) + 1].file
      BY <1>1
    <2>. QED BY <1>1, <2>1, IncreasingLonger
  <1>3. ASSUME Within(s), f <= Reach PROVE Within(t)
    <2>1. ASSUME NEW i \in 1..Len(t) PROVE t[i].file <= Reach
      <3>1. CASE i \in 1..Len(s)
        BY <1>1, <1>3, <3>1 DEF Within
      <3>2. CASE i = Len(s) + 1
        BY <1>1, <1>3, <3>2
      <3>. QED BY <1>1, <3>1, <3>2
    <2>. QED BY <2>1 DEF Within
  <1>. QED BY <1>2, <1>3

\* The file cannot be created.
LEMMA RefusedTurn ==
  ASSUME NEW p \in ParserType, NEW q \in ParserType, NEW w \in Seq(Parts), NEW x \in Seq(Parts),
         Advanced(w, x, 2), Front(p, w), ParserInv(p, w),
         Len(p.buffer) >= 2, p.buffer[1].kind = "req", p.receiving = FALSE,
         Refused(p, q, p.buffer[2].file)
  PROVE  ParserInv(q, x) /\ Grown(p.disk, q.disk)
  <1>. DEFINE f == p.buffer[2].file
  <1>1. /\ Len(x) = 0 /\ f \in Files
        /\ \A i \in 1..Len(p.disk) : p.disk[i].file < f
        /\ \A i \in 1..Len(p.ends) : p.ends[i].file < f
        /\ open = TRUE => current = f /\ current # 0 /\ ~Streaming /\ Len(p.replies) = 0
    BY RequestFacts
  <1>2. /\ q.receiving = FALSE /\ q.disk = p.disk
        /\ q.replies = Append(p.replies, Peer!Reply("other", f))
        /\ q.ends = Append(p.ends, Peer!Ending("failed", f))
    BY DEF Refused
  <1>. HIDE DEF f
  <1>3. /\ Whole(p.disk) /\ Ordered(p, w) /\ Bounded(p) /\ Apart(p.disk)
    BY DEF ParserInv
  <1>4. Shape(x) /\ Agreed(q, x)
    BY <1>1, <1>2 DEF Shape, Agreed
  <1>5. Tie(q, x)
    <2>. SUFFICES ASSUME open = TRUE PROVE AwaitTie(q, x)
      BY <1>1 DEF Tie
    <2>1. Len(q.replies) = 1 /\ q.replies[1].file = f /\ q.replies[1].kind = "other"
      BY <1>1, <1>2, FirstReply, FieldTypes
    <2>. QED BY <1>1, <1>2, <2>1 DEF AwaitTie
  <1>6. Ordered(q, x)
    <2>1. p.ends \in Seq(Endings)
      BY FieldTypes
    <2>2. Increasing(q.ends)
      BY <1>1, <1>2, <1>3, <2>1, EndsLonger DEF Ordered
    <2>3. Fresh(x, q.disk) /\ Fresh(x, q.ends)
      BY <1>1 DEF Fresh
    <2>4. OnlyLastWriting(q) /\ NotEnded(q)
      <3>1. \A i \in 1..Len(p.disk) : p.disk[i].state # "writing"
        BY <1>3 DEF Ordered, OnlyLastWriting
      <3>. QED BY <1>2, <3>1 DEF OnlyLastWriting, NotEnded
    <2>5. Ended(q.disk, q.ends)
      <3>1. /\ Len(q.ends) = Len(p.ends) + 1 /\ Len(p.ends) \in Nat
            /\ \A i \in 1..Len(p.ends) : q.ends[i] = p.ends[i]
            /\ q.ends[Len(p.ends) + 1].file = f
        BY <1>1, <1>2, <2>1, EndsAppended
      <3>2. Ended(p.disk, p.ends)
        BY <1>3 DEF Ordered
      <3>3. ASSUME NEW i \in 1..Len(p.disk), p.disk[i].state # "writing"
            PROVE  \E j \in 1..Len(q.ends) : q.ends[j].file = p.disk[i].file
        <4>1. PICK j \in 1..Len(p.ends) : p.ends[j].file = p.disk[i].file
          BY <3>2, <3>3 DEF Ended
        <4>2. j \in 1..Len(q.ends)
          BY <3>1
        <4>3. q.ends[j] = p.ends[j]
          BY <3>1
        <4>. QED BY <4>1, <4>2, <4>3
      <3>4. ASSUME NEW i \in 1..Len(p.disk), NEW j \in 1..Len(q.ends),
                   q.ends[j].file = p.disk[i].file
            PROVE  p.disk[i].state = IF q.ends[j].stage = "done" THEN "kept" ELSE "removed"
        <4>1. j # Len(p.ends) + 1
          <5>1. p.disk[i].file < f /\ p.disk[i].file \in Int /\ f \in Int
            BY <1>1, EntryTypes, FieldTypes, FilesAreNumbers
          <5>2. p.disk[i].file # f
            BY <5>1
          <5>. QED BY <3>1, <3>4, <5>2
        <4>2. j \in 1..Len(p.ends) /\ q.ends[j] = p.ends[j]
          <5>1. j \in 1..Len(p.ends)
            BY <3>1, <4>1
          <5>. QED BY <3>1, <5>1
        <4>3. p.ends[j].file = p.disk[i].file
          BY <3>4, <4>2
        <4>4. p.disk[i].state = IF p.ends[j].stage = "done" THEN "kept" ELSE "removed"
          BY <3>2, <4>2, <4>3 DEF Ended
        <4>. QED BY <4>2, <4>4
      <3>. QED BY <1>2, <3>3, <3>4 DEF Ended
    <2>. QED BY <1>2, <1>3, <2>2, <2>3, <2>4, <2>5 DEF Ordered
  <1>7. Bounded(q)
    <2>. SUFFICES ASSUME open = TRUE PROVE Within(q.disk) /\ Within(q.ends)
      BY DEF Bounded
    <2>1. f <= Reach
      BY <1>1, FilesAreNumbers DEF Reach
    <2>. QED BY <1>1, <1>2, <1>3, <2>1, EndsLonger, FieldTypes DEF Bounded, Ordered
  <1>8. Grown(p.disk, q.disk)
    BY <1>2, FieldTypes DEF Grown
  <1>. QED BY <1>2, <1>3, <1>4, <1>5, <1>6, <1>7, <1>8 DEF ParserInv

\* What both ways of accepting a request do to the files and to the answer.
LEMMA AcceptFacts ==
  ASSUME NEW p \in ParserType, NEW q \in ParserType, NEW w \in Seq(Parts), NEW x \in Seq(Parts),
         Advanced(w, x, 2), Front(p, w), ParserInv(p, w),
         Len(p.buffer) >= 2, p.buffer[1].kind = "req",
         NEW state \in {"writing", "kept"},
         Created(p.disk, q.disk, p.buffer[2].file, state),
         state = "kept" => p.buffer[2].n = 0,
         q.replies = Append(p.replies, Peer!Reply("ack", p.buffer[2].file))
  PROVE  /\ Grown(p.disk, q.disk) /\ Apart(q.disk) /\ Whole(q.disk) /\ Increasing(q.disk)
         /\ open = TRUE => /\ Within(q.disk) /\ HasFile(q.disk, current)
                           /\ current # 0 /\ ~Streaming
                           /\ Len(q.replies) = 1 /\ q.replies[1].file = current
                           /\ q.replies[1].kind = "ack"
  <1>. DEFINE f == p.buffer[2].file
  <1>1. /\ f \in Files /\ p.buffer[2].n = Size[f]
        /\ \A i \in 1..Len(p.disk) : p.disk[i].file < f
        /\ open = TRUE => current = f /\ current # 0 /\ ~Streaming /\ Len(p.replies) = 0
    BY RequestFacts
  <1>2. Whole(p.disk) /\ Ordered(p, w) /\ Bounded(p) /\ Apart(p.disk)
    BY DEF ParserInv
  <1>3. state = "kept" => Size[f] = 0
    BY <1>1
  <1>4. Created(p.disk, q.disk, f, state) /\ q.replies = Append(p.replies, Peer!Reply("ack", f))
    OBVIOUS
  <1>5. p.disk \in Seq(Entries) /\ q.disk \in Seq(Entries) /\ p.replies \in Seq(Replies)
    BY FieldTypes
  <1>. HIDE DEF f
  <1>6. /\ Grown(p.disk, q.disk) /\ HasFile(q.disk, f)
        /\ Apart(q.disk) /\ Whole(q.disk) /\ Increasing(q.disk)
        /\ Within(p.disk) /\ f <= Reach => Within(q.disk)
    <2>. DEFINE d == p.disk  e == q.disk
    <2>1. Increasing(d) /\ Whole(d) /\ Apart(d)
      BY <1>2 DEF Ordered
    <2>2. d \in Seq(Entries) /\ e \in Seq(Entries) /\ Created(d, e, f, state)
      BY <1>4, <1>5
    <2>3. \A i \in 1..Len(d) : d[i].file < f
      BY <1>1
    <2>. HIDE DEF d, e
    <2>4. Grown(d, e) /\ HasFile(e, f)
      BY <1>1, <2>2, CreatedFacts
    <2>5. Apart(e)
      BY <1>1, <2>1, <2>2, CreatedFacts
    <2>6. Whole(e)
      BY <1>1, <1>3, <2>1, <2>2, CreatedFacts
    <2>7. Increasing(e)
      BY <1>1, <2>1, <2>2, <2>3, CreatedFacts
    <2>8. Within(d) /\ f <= Reach => Within(e)
      BY <1>1, <2>2, CreatedFacts
    <2>. QED BY <2>4, <2>5, <2>6, <2>7, <2>8 DEF d, e
  <1>7. ASSUME open = TRUE
        PROVE  /\ Within(q.disk) /\ HasFile(q.disk, current)
               /\ current # 0 /\ ~Streaming
               /\ Len(q.replies) = 1 /\ q.replies[1].file = current
               /\ q.replies[1].kind = "ack"
    <2>1. f <= Reach
      BY <1>1, <1>7, FilesAreNumbers DEF Reach
    <2>2. Within(q.disk)
      BY <1>2, <1>6, <1>7, <2>1 DEF Bounded
    <2>3. Len(q.replies) = 1 /\ q.replies[1].file = f /\ q.replies[1].kind = "ack"
      BY <1>1, <1>4, <1>5, <1>7, FirstReply
    <2>. QED BY <1>1, <1>6, <1>7, <2>2, <2>3
  <1>. QED BY <1>6, <1>7

\* An empty file is created and complete at once.
LEMMA AcceptedEmptyTurn ==
  ASSUME NEW p \in ParserType, NEW q \in ParserType, NEW w \in Seq(Parts), NEW x \in Seq(Parts),
         Advanced(w, x, 2), Front(p, w), ParserInv(p, w),
         Len(p.buffer) >= 2, p.buffer[1].kind = "req", p.receiving = FALSE,
         p.buffer[2].n = 0, AcceptedEmpty(p, q, p.buffer[2].file)
  PROVE  ParserInv(q, x) /\ Grown(p.disk, q.disk)
  <1>. DEFINE f == p.buffer[2].file  n == Len(p.disk) + 1
  <1>1. /\ Len(x) = 0 /\ f \in Files
        /\ \A i \in 1..Len(p.disk) : p.disk[i].file < f
        /\ \A i \in 1..Len(p.ends) : p.ends[i].file < f
        /\ open = TRUE => current = f /\ current # 0 /\ ~Streaming /\ Len(p.replies) = 0
    BY RequestFacts
  <1>2. /\ q.receiving = FALSE /\ Created(p.disk, q.disk, f, "kept")
        /\ q.replies = Append(p.replies, Peer!Reply("ack", f))
        /\ q.ends = Append(p.ends, Peer!Ending("done", f))
    BY DEF AcceptedEmpty
  <1>3. /\ Grown(p.disk, q.disk) /\ Apart(q.disk) /\ Whole(q.disk) /\ Increasing(q.disk)
        /\ open = TRUE => /\ Within(q.disk) /\ HasFile(q.disk, current)
                          /\ current # 0 /\ ~Streaming
                          /\ Len(q.replies) = 1 /\ q.replies[1].file = current
                          /\ q.replies[1].kind = "ack"
    BY <1>2, AcceptFacts
  <1>. HIDE DEF f
  <1>4. Ordered(p, w) /\ Bounded(p)
    BY DEF ParserInv
  <1>5. Shape(x) /\ Agreed(q, x)
    BY <1>1, <1>2 DEF Shape, Agreed
  <1>6. Tie(q, x)
    <2>. SUFFICES ASSUME open = TRUE PROVE AwaitTie(q, x)
      BY <1>3 DEF Tie
    <2>. QED BY <1>1, <1>2, <1>3 DEF AwaitTie
  <1>7. p.ends \in Seq(Endings) /\ p.disk \in Seq(Entries)
    BY FieldTypes
  <1>8. Increasing(q.ends) /\ (Within(p.ends) /\ f <= Reach => Within(q.ends))
    BY <1>1, <1>2, <1>4, <1>7, EndsLonger DEF Ordered
  <1>9. Ordered(q, x)
    <2>1. Fresh(x, q.disk) /\ Fresh(x, q.ends)
      BY <1>1 DEF Fresh
    <2>2. /\ Len(q.disk) = n /\ n \in Nat /\ n = Len(p.disk) + 1
          /\ \A i \in 1..Len(p.disk) : q.disk[i] = p.disk[i]
          /\ q.disk[n].file = f /\ q.disk[n].state = "kept"
      BY <1>2, <1>7 DEF Created
    <2>3. /\ Len(q.ends) = Len(p.ends) + 1 /\ Len(p.ends) \in Nat
          /\ \A i \in 1..Len(p.ends) : q.ends[i] = p.ends[i]
          /\ q.ends[Len(p.ends) + 1].file = f /\ q.ends[Len(p.ends) + 1].stage = "done"
      BY <1>1, <1>2, <1>7, EndsAppended
    <2>. HIDE DEF n
    <2>4. \A i \in 1..Len(p.disk) : p.disk[i].state # "writing"
      BY <1>4 DEF Ordered, OnlyLastWriting
    <2>5. \A i \in 1..Len(q.disk) : i = n \/ i \in 1..Len(p.disk)
      BY <2>2
    <2>6. OnlyLastWriting(q) /\ NotEnded(q)
      <3>1. \A i \in 1..Len(q.disk) : q.disk[i].state # "writing"
        BY <2>2, <2>4, <2>5
      <3>. QED BY <1>2, <3>1 DEF OnlyLastWriting, NotEnded
    <2>7. Ended(p.disk, p.ends)
      BY <1>4 DEF Ordered
    <2>8. ASSUME NEW i \in 1..Len(q.disk), q.disk[i].state # "writing"
          PROVE  \E j \in 1..Len(q.ends) : q.ends[j].file = q.disk[i].file
      <3>1. CASE i = n
        <4>1. Len(p.ends) + 1 \in 1..Len(q.ends)
          BY <2>3
        <4>. QED BY <2>2, <2>3, <3>1, <4>1
      <3>2. CASE i \in 1..Len(p.disk)
        <4>1. PICK j \in 1..Len(p.ends) : p.ends[j].file = p.disk[i].file
          BY <2>4, <2>7, <3>2 DEF Ended
        <4>2. j \in 1..Len(q.ends) /\ q.ends[j] = p.ends[j] /\ q.disk[i] = p.disk[i]
          BY <2>2, <2>3, <3>2
        <4>. QED BY <4>1, <4>2
      <3>. QED BY <2>5, <3>1, <3>2
    <2>9. ASSUME NEW i \in 1..Len(q.disk), NEW j \in 1..Len(q.ends),
                 q.ends[j].file = q.disk[i].file
          PROVE  q.disk[i].state = IF q.ends[j].stage = "done" THEN "kept" ELSE "removed"
      <3>1. f \in Int /\ (j \in 1..Len(p.ends) \/ j = Len(p.ends) + 1)
        BY <1>1, <2>3, FilesAreNumbers
      <3>2. CASE i = n
        <4>1. j = Len(p.ends) + 1
          <5>. SUFFICES ASSUME j \in 1..Len(p.ends) PROVE FALSE
            BY <3>1
          <5>1. p.ends[j].file < f /\ p.ends[j].file \in Int
            BY <1>1, <1>7, EndingTypes
          <5>2. p.ends[j].file = f
            BY <2>2, <2>3, <2>9, <3>2
          <5>. QED BY <5>1, <5>2
        <4>. QED BY <2>2, <2>3, <3>2, <4>1
      <3>3. CASE i \in 1..Len(p.disk)
        <4>1. q.disk[i] = p.disk[i]
          BY <2>2, <3>3
        <4>2. j \in 1..Len(p.ends)
          <5>. SUFFICES ASSUME j = Len(p.ends) + 1 PROVE FALSE
            BY <3>1
          <5>1. p.disk[i].file < f /\ p.disk[i].file \in Int
            BY <1>1, <1>7, <3>3, EntryTypes
          <5>2. p.disk[i].file = f
            BY <2>3, <2>9, <4>1
          <5>. QED BY <5>1, <5>2
        <4>3. q.ends[j] = p.ends[j]
          BY <2>3, <4>2
        <4>4. p.disk[i].state = IF p.ends[j].stage = "done" THEN "kept" ELSE "removed"
          BY <2>7, <2>9, <3>3, <4>1, <4>2, <4>3 DEF Ended
        <4>. QED BY <4>1, <4>3, <4>4
      <3>. QED BY <2>5, <3>2, <3>3
    <2>10. Ended(q.disk, q.ends)
      BY <2>8, <2>9 DEF Ended
    <2>. QED BY <1>3, <1>8, <2>1, <2>6, <2>10 DEF Ordered
  <1>10. Bounded(q)
    <2>. SUFFICES ASSUME open = TRUE PROVE Within(q.disk) /\ Within(q.ends)
      BY DEF Bounded
    <2>1. f <= Reach
      BY <1>1, FilesAreNumbers DEF Reach
    <2>. QED BY <1>3, <1>4, <1>8, <2>1 DEF Bounded
  <1>. QED BY <1>3, <1>5, <1>6, <1>9, <1>10 DEF ParserInv

\* A file is created and its data awaited.
LEMMA AcceptedTurn ==
  ASSUME NEW p \in ParserType, NEW q \in ParserType, NEW w \in Seq(Parts), NEW x \in Seq(Parts),
         Advanced(w, x, 2), Front(p, w), ParserInv(p, w),
         Len(p.buffer) >= 2, p.buffer[1].kind = "req", p.receiving = FALSE,
         p.buffer[2].n # 0, q.expected = p.buffer[2].n, q.stop = FALSE,
         Accepted(p, q, p.buffer[2].file)
  PROVE  ParserInv(q, x) /\ Grown(p.disk, q.disk)
  <1>. DEFINE f == p.buffer[2].file  n == Len(p.disk) + 1
  <1>1. /\ Len(x) = 0 /\ f \in Files /\ q.expected = Size[f] /\ Size[f] # 0
        /\ \A i \in 1..Len(p.disk) : p.disk[i].file < f
        /\ \A i \in 1..Len(p.ends) : p.ends[i].file < f
        /\ open = TRUE => current = f /\ current # 0 /\ ~Streaming /\ Len(p.replies) = 0
    BY RequestFacts
  <1>2. /\ q.receiving = TRUE /\ Created(p.disk, q.disk, f, "writing")
        /\ q.replies = Append(p.replies, Peer!Reply("ack", f))
        /\ q.ends = p.ends
    BY DEF Accepted
  <1>3. /\ Grown(p.disk, q.disk) /\ Apart(q.disk) /\ Whole(q.disk) /\ Increasing(q.disk)
        /\ open = TRUE => /\ Within(q.disk) /\ HasFile(q.disk, current)
                          /\ current # 0 /\ ~Streaming
                          /\ Len(q.replies) = 1 /\ q.replies[1].file = current
                          /\ q.replies[1].kind = "ack"
    BY <1>2, AcceptFacts
  <1>. HIDE DEF f
  <1>4. Ordered(p, w) /\ Bounded(p)
    BY DEF ParserInv
  <1>5. p.ends \in Seq(Endings) /\ p.disk \in Seq(Entries)
    BY FieldTypes
  <1>6. /\ Len(q.disk) = n /\ n \in Nat /\ n = Len(p.disk) + 1
        /\ \A i \in 1..Len(p.disk) : q.disk[i] = p.disk[i]
        /\ q.disk[n].file = f /\ q.disk[n].data = <<>> /\ q.disk[n].state = "writing"
    BY <1>2, <1>5 DEF Created
  <1>7. Len(q.disk[n].data) = 0
    BY <1>6
  <1>. HIDE DEF n
  <1>8. Peer!Written(q) = q.disk[n]
    BY <1>6 DEF Peer!Written
  <1>9. Shape(x)
    BY <1>1 DEF Shape
  <1>10. Agreed(q, x)
    <2>1. Size[f] \in Nat /\ Size[f] > 0
      BY <1>1, SizeAssumption, BoundsAssumption DEF BoundsAssumption
    <2>2. Receiving(q)
      <3>1. q.disk # <<>>
        BY <1>5, <1>6
      <3>. QED BY <1>1, <1>6, <1>7, <1>8, <2>1, <3>1 DEF Receiving
    <2>3. Left(q) = Size[f]
      BY <1>1, <1>7, <1>8, <2>1 DEF Left
    <2>4. Len(x) <= Left(q)
      BY <1>1, <2>1, <2>3
    <2>. QED BY <1>1, <1>6, <1>7, <1>8, <2>2, <2>4 DEF Agreed
  <1>11. Tie(q, x)
    <2>. SUFFICES ASSUME open = TRUE PROVE AwaitTie(q, x)
      BY <1>3 DEF Tie
    <2>. QED BY <1>1, <1>2, <1>3, <1>6, <1>7, <1>8 DEF AwaitTie
  <1>12. Ordered(q, x)
    <2>1. Fresh(x, q.disk) /\ Fresh(x, q.ends)
      BY <1>1 DEF Fresh
    <2>2. \A i \in 1..Len(p.disk) : p.disk[i].state # "writing"
      BY <1>4 DEF Ordered, OnlyLastWriting
    <2>3. \A i \in 1..Len(q.disk) : i = n \/ i \in 1..Len(p.disk)
      BY <1>6
    <2>4. OnlyLastWriting(q)
      BY <1>2, <1>6, <2>2, <2>3 DEF OnlyLastWriting
    <2>5. NotEnded(q)
      BY <1>1, <1>2, <1>6, <1>8 DEF NotEnded
    <2>6. Ended(p.disk, p.ends)
      BY <1>4 DEF Ordered
    <2>7. ASSUME NEW i \in 1..Len(q.disk), q.disk[i].state # "writing"
          PROVE  \E j \in 1..Len(q.ends) : q.ends[j].file = q.disk[i].file
      <3>1. i \in 1..Len(p.disk) /\ q.disk[i] = p.disk[i]
        BY <1>6, <2>3, <2>7
      <3>2. PICK j \in 1..Len(p.ends) : p.ends[j].file = p.disk[i].file
        BY <2>2, <2>6, <3>1 DEF Ended
      <3>. QED BY <1>2, <3>1, <3>2
    <2>8. ASSUME NEW i \in 1..Len(q.disk), NEW j \in 1..Len(q.ends),
                 q.ends[j].file = q.disk[i].file
          PROVE  q.disk[i].state = IF q.ends[j].stage = "done" THEN "kept" ELSE "removed"
      <3>1. i # n
        <4>. SUFFICES ASSUME i = n PROVE FALSE
          OBVIOUS
        <4>1. p.ends[j].file < f /\ p.ends[j].file \in Int
          BY <1>1, <1>2, <1>5, EndingTypes
        <4>2. p.ends[j].file = f
          BY <1>2, <1>6, <2>8
        <4>. QED BY <4>1, <4>2
      <3>2. i \in 1..Len(p.disk) /\ q.disk[i] = p.disk[i]
        BY <1>6, <2>3, <3>1
      <3>3. p.disk[i].state = IF p.ends[j].stage = "done" THEN "kept" ELSE "removed"
        BY <1>2, <2>6, <2>8, <3>2 DEF Ended
      <3>. QED BY <1>2, <3>2, <3>3
    <2>9. Ended(q.disk, q.ends)
      BY <2>7, <2>8 DEF Ended
    <2>. QED BY <1>2, <1>3, <1>4, <2>1, <2>4, <2>5, <2>9 DEF Ordered
  <1>13. Bounded(q)
    BY <1>2, <1>3, <1>4 DEF Bounded
  <1>. QED BY <1>3, <1>9, <1>10, <1>11, <1>12, <1>13 DEF ParserInv

\* The data taken from the buffer continues what has been written.
LEMMA StoreFacts ==
  ASSUME NEW p \in ParserType, NEW w \in Seq(Parts), Front(p, w), Agreed(p, w),
         p.receiving = TRUE, p.buffer # <<>>
  PROVE  LET k == Peer!Take(p)  v == Peer!Written(p)  got == Len(v.data)
             data == v.data \o SubSeq(p.buffer, 1, k)
         IN /\ k \in 1..Len(p.buffer) /\ k \in 1..Len(w) /\ k <= Left(p) /\ Left(p) \in Nat
            /\ k = Len(p.buffer) \/ k = Left(p)
            /\ v \in Entries /\ v.data \in Seq(Parts) /\ got \in Nat
            /\ data \in Seq(Parts) /\ Len(data) = got + k
            /\ \A i \in 1..Len(data) : data[i] = Peer!Part("data", v.file, i)
            /\ Len(data) = p.expected <=> k = Left(p)
            /\ p.expected = Size[v.file] /\ p.expected = got + Left(p)
  <1>. DEFINE k == Peer!Take(p)  v == Peer!Written(p)  got == Len(v.data)
              part == SubSeq(p.buffer, 1, k)
              data == v.data \o part
  <1>1. /\ Receiving(p)
        /\ \A i \in 1..got : v.data[i] = Peer!Part("data", v.file, i)
        /\ p.expected = Size[v.file]
        /\ \A i \in 1..Len(w) : i <= Left(p) => w[i] = Peer!Part("data", v.file, got + i)
    BY DEF Agreed
  <1>2. /\ k \in 1..Len(p.buffer) /\ k <= Left(p) /\ Left(p) \in Nat
        /\ k = Len(p.buffer) \/ k = Left(p)
    BY <1>1, TakeEffect DEF Left
  <1>3. /\ p.buffer \in Seq(Parts) /\ p.disk \in Seq(Entries) /\ p.expected \in Int
    BY FieldTypes
  <1>4. v \in Entries
    BY <1>1, <1>3 DEF Receiving, Peer!Written
  <1>5. v.data \in Seq(Parts) /\ got \in Nat
    BY <1>4 DEF Entries
  <1>6. Left(p) = p.expected - got
    BY DEF Left
  <1>. HIDE DEF k, v
  <1>7. Len(p.buffer) \in Nat /\ Len(p.buffer) <= Len(w) /\ Len(w) \in Nat
    BY <1>3 DEF Front
  <1>8. k \in 1..Len(w)
    BY <1>2, <1>7
  <1>9. /\ part \in Seq(Parts) /\ Len(part) = k
        /\ \A i \in 1..k : part[i] = p.buffer[i]
    <2>1. \A i \in 1..k : p.buffer[i] \in Parts
      BY <1>2, <1>3
    <2>2. /\ part \in Seq(Parts)
          /\ Len(part) = IF 1 <= k THEN k - 1 + 1 ELSE 0
          /\ \A i \in 1..k - 1 + 1 : part[i] = p.buffer[1 + i - 1]
      BY <1>2, <2>1, SubSeqProperties
    <2>3. k \in Nat /\ k >= 1
      BY <1>2, <1>7
    <2>. QED BY <2>2, <2>3
  <1>. HIDE DEF part
  <1>10. /\ data \in Seq(Parts) /\ Len(data) = got + k
         /\ \A i \in 1..got + k : data[i] = IF i <= got THEN v.data[i] ELSE part[i - got]
    <2>. DEFINE old == v.data
    <2>1. old \in Seq(Parts) /\ part \in Seq(Parts) /\ got = Len(old) /\ Len(part) = k
      BY <1>5, <1>9
    <2>. HIDE DEF old
    <2>2. /\ old \o part \in Seq(Parts)
          /\ Len(old \o part) = Len(old) + Len(part)
          /\ \A i \in 1..Len(old) + Len(part) :
               (old \o part)[i] = IF i <= Len(old) THEN old[i] ELSE part[i - Len(old)]
      BY <2>1, ConcatProperties, Zenon
    <2>. HIDE DEF got
    <2>3. /\ old \o part \in Seq(Parts) /\ Len(old \o part) = got + k
          /\ \A i \in 1..got + k :
               (old \o part)[i] = IF i <= got THEN old[i] ELSE part[i - got]
      BY <2>1, <2>2
    <2>. QED BY <2>3 DEF old
  <1>. HIDE DEF data, got
  <1>11. ASSUME NEW i \in 1..Len(data)
         PROVE  data[i] = Peer!Part("data", v.file, i)
    <2>1. i \in 1..got + k /\ k \in Nat
      BY <1>2, <1>7, <1>10
    <2>2. CASE i <= got
      <3>1. i \in 1..got
        BY <1>5, <2>1, <2>2
      <3>2. v.data[i] = Peer!Part("data", v.file, i)
        BY <1>1, <3>1 DEF got, v
      <3>. QED BY <1>10, <2>1, <2>2, <3>2
    <2>3. CASE ~(i <= got)
      <3>1. i - got \in 1..k /\ i - got \in 1..Len(p.buffer) /\ i - got \in 1..Len(w)
            /\ i - got <= Left(p) /\ got + (i - got) = i
        BY <1>2, <1>5, <1>7, <1>8, <2>1, <2>3
      <3>2. data[i] = part[i - got]
        BY <1>10, <2>1, <2>3
      <3>3. part[i - got] = p.buffer[i - got]
        BY <1>9, <3>1
      <3>4. p.buffer[i - got] = w[i - got]
        BY <3>1 DEF Front
      <3>5. w[i - got] = Peer!Part("data", v.file, got + (i - got))
        BY <1>1, <3>1 DEF got, v
      <3>. QED BY <3>1, <3>2, <3>3, <3>4, <3>5
    <2>. QED BY <2>2, <2>3
  <1>12. Len(data) = p.expected <=> k = Left(p)
    BY <1>2, <1>3, <1>5, <1>6, <1>7, <1>10
  <1>13. p.expected = Size[v.file] /\ p.expected = got + Left(p)
    <2>1. p.expected = Size[v.file]
      BY <1>1 DEF v
    <2>. QED BY <1>3, <1>5, <1>6, <2>1
  <1>. QED BY <1>2, <1>4, <1>5, <1>8, <1>10, <1>11, <1>12, <1>13 DEF data, part, got, v, k

\* The file being received has ended, kept or removed, and its last event is out.
LEMMA EndedFacts ==
  ASSUME NEW p \in ParserType, NEW q \in ParserType, NEW w \in Seq(Parts), NEW x \in Seq(Parts),
         NEW k, Advanced(w, x, k), Ordered(p, w), Receiving(p), p.receiving = TRUE,
         NEW data, NEW state \in {"kept", "removed"}, NEW stage \in {"done", "failed"},
         stage = "done" <=> state = "kept",
         LastAs(p.disk, q.disk, data, state),
         q.receiving = FALSE, q.ends = Append(p.ends, Peer!Ending(stage, Peer!Written(p).file))
  PROVE  /\ Ordered(q, x) /\ Grown(p.disk, q.disk)
         /\ Bounded(p) => Bounded(q)
         /\ Apart(p.disk) => Apart(q.disk)
  <1>. DEFINE d == p.disk  e == q.disk  n == Len(d)  g == Peer!Written(p).file
              s == p.ends  t == q.ends
  <1>1. /\ d \in Seq(Entries) /\ s \in Seq(Endings) /\ d # <<>>
        /\ d[n].state = "writing" /\ Peer!Written(p) = d[n]
    BY FieldTypes DEF Receiving, Peer!Written
  <1>2. /\ e \in Seq(Entries) /\ Len(e) = n /\ n \in 1..n
        /\ \A i \in 1..n : e[i].file = d[i].file /\ e[i].path = d[i].path
        /\ \A i \in 1..n : i # n => e[i] = d[i]
        /\ e[n].data = data /\ e[n].state = state
        /\ Grown(d, e)
        /\ Apart(d) => Apart(e)
    <2>1. d[Len(d)].state = "writing" /\ LastAs(d, e, data, state)
      BY <1>1
    <2>2. state \in {"writing", "kept", "removed"}
      OBVIOUS
    <2>. HIDE DEF d, e
    <2>. QED BY <1>1, <2>1, <2>2, LastAsFacts
  <1>3. g \in Files /\ g \in Int /\ g = d[n].file
    BY <1>1, <1>2, EntryTypes
  <1>4. /\ Increasing(d) /\ Increasing(s) /\ Fresh(w, d) /\ Fresh(w, s)
        /\ OnlyLastWriting(p) /\ Ended(d, s)
        /\ \A i \in 1..Len(s) : s[i].file < g
    BY DEF Ordered, NotEnded
  <1>5. t = Append(s, Peer!Ending(stage, g)) /\ q.receiving = FALSE
    OBVIOUS
  <1>6. n \in Nat
    BY <1>1
  <1>7. OnlyLastWriting(p) /\ (\A i \in 1..n : d[i].state = "writing" => i = n)
    BY <1>4 DEF OnlyLastWriting
  <1>. HIDE DEF d, e, n, g, s, t
  <1>8. /\ Len(t) = Len(s) + 1 /\ Len(s) \in Nat
        /\ \A i \in 1..Len(s) : t[i] = s[i]
        /\ t[Len(s) + 1].file = g /\ t[Len(s) + 1].stage = stage
    <2>1. Len(s) \in Nat
      BY <1>1
    <2>2. /\ Len(t) = Len(s) + 1
          /\ \A i \in 1..Len(s) : t[i] = s[i]
          /\ t[Len(s) + 1].file = g /\ t[Len(s) + 1].stage = stage
      <3>1. s \in Seq(Endings) /\ g \in Files /\ stage \in {"done", "failed"}
        BY <1>1, <1>3
      <3>. DEFINE last == Peer!Ending(stage, g)
      <3>2. last \in Endings /\ last.file = g /\ last.stage = stage
        BY <3>1 DEF Endings, Peer!Ending
      <3>3. t = Append(s, last)
        BY <1>5
      <3>. HIDE DEF last
      <3>. QED BY <3>1, <3>2, <3>3, AppendProperties
    <2>. QED BY <2>1, <2>2
  <1>9. Increasing(t) /\ (Within(s) /\ g <= Reach => Within(t))
    BY <1>1, <1>3, <1>4, <1>5, EndsLonger
  <1>10. /\ Increasing(e) /\ (Within(d) => Within(e))
         /\ Fresh(x, e)
    <2>1. Fresh(x, d)
      BY <1>4, FreshAdvanced
    <2>2. Len(d) \in Nat /\ Len(e) = Len(d) /\ \A i \in 1..Len(d) : e[i].file = d[i].file
      BY <1>1, <1>2 DEF n
    <2>. QED BY <1>4, <2>1, <2>2, SameFiles
  <1>11. Fresh(x, t)
    <2>1. Fresh(x, s) /\ Fresh(x, d)
      BY <1>4, FreshAdvanced
    <2>2. ASSUME NEW m \in 1..Len(x), x[m].kind = "req", NEW i \in 1..Len(t)
          PROVE  t[i].file < x[m].file
      <3>1. CASE i \in 1..Len(s)
        BY <1>8, <2>1, <2>2, <3>1 DEF Fresh
      <3>2. CASE i = Len(s) + 1
        <4>1. d[n].file < x[m].file
          BY <1>2, <2>1, <2>2 DEF Fresh, n
        <4>. QED BY <1>3, <1>8, <3>2, <4>1
      <3>. QED BY <1>8, <3>1, <3>2
    <2>. QED BY <2>2 DEF Fresh
  <1>12. OnlyLastWriting(q) /\ NotEnded(q)
    <2>1. \A i \in 1..n : e[i].state # "writing"
      BY <1>2, <1>7
    <2>. QED BY <1>2, <1>5, <2>1 DEF OnlyLastWriting, NotEnded, e
  <1>13. Ended(e, t)
    <2>1. ASSUME NEW i \in 1..Len(e)
          PROVE  \E j \in 1..Len(t) : t[j].file = e[i].file
      <3>1. CASE i = n
        <4>1. Len(s) + 1 \in 1..Len(t) /\ e[i].file = g
          BY <1>2, <1>3, <1>8, <3>1
        <4>. QED BY <1>8, <4>1
      <3>2. CASE i # n
        <4>1. i \in 1..n /\ e[i] = d[i] /\ d[i].state # "writing"
          BY <1>2, <1>7, <3>2
        <4>2. PICK j \in 1..Len(s) : s[j].file = d[i].file
          BY <1>4, <4>1 DEF Ended, n
        <4>3. j \in 1..Len(t) /\ t[j] = s[j]
          BY <1>8
        <4>. QED BY <4>1, <4>2, <4>3
      <3>. QED BY <3>1, <3>2
    <2>2. ASSUME NEW i \in 1..Len(e), NEW j \in 1..Len(t), t[j].file = e[i].file
          PROVE  e[i].state = IF t[j].stage = "done" THEN "kept" ELSE "removed"
      <3>1. j \in 1..Len(s) \/ j = Len(s) + 1
        BY <1>8
      <3>2. CASE i = n
        <4>1. j = Len(s) + 1
          <5>. SUFFICES ASSUME j \in 1..Len(s) PROVE FALSE
            BY <3>1
          <5>1. s[j].file < g /\ s[j].file \in Int
            BY <1>1, <1>4, EndingTypes
          <5>2. s[j].file = g
            BY <1>2, <1>3, <1>8, <2>2, <3>2
          <5>. QED BY <1>3, <5>1, <5>2
        <4>2. e[i].state = state /\ t[j].stage = stage
          BY <1>2, <1>8, <3>2, <4>1
        <4>. QED BY <4>2
      <3>3. CASE i # n
        <4>1. i \in 1..n /\ e[i] = d[i]
          BY <1>2, <3>3
        <4>2. j \in 1..Len(s)
          <5>. SUFFICES ASSUME j = Len(s) + 1 PROVE FALSE
            BY <3>1
          <5>1. i < n /\ d[i].file < d[n].file
            BY <1>2, <1>4, <1>6, <3>3, <4>1 DEF Increasing, n
          <5>2. d[i].file = g
            BY <1>8, <2>2, <4>1
          <5>. QED BY <1>3, <5>1, <5>2
        <4>3. t[j] = s[j]
          BY <1>8, <4>2
        <4>4. d[i].state = IF s[j].stage = "done" THEN "kept" ELSE "removed"
          BY <1>4, <2>2, <4>1, <4>2, <4>3 DEF Ended, n
        <4>. QED BY <4>1, <4>3, <4>4
      <3>. QED BY <3>2, <3>3
    <2>. QED BY <2>1, <2>2 DEF Ended
  <1>14. ASSUME Bounded(p) PROVE Bounded(q)
    <2>. SUFFICES ASSUME open = TRUE PROVE Within(e) /\ Within(t)
      BY DEF Bounded, e, t
    <2>1. Within(d) /\ Within(s)
      BY <1>14 DEF Bounded, d, s
    <2>2. g <= Reach
      BY <1>2, <1>3, <2>1 DEF Within, n
    <2>. QED BY <1>9, <1>10, <2>1, <2>2
  <1>. QED BY <1>2, <1>9, <1>10, <1>11, <1>12, <1>13, <1>14 DEF Ordered, d, e, t, s, n

\* Files that have been created stay.
LEMMA HasFileGrown ==
  ASSUME NEW d \in Seq(Entries), NEW e \in Seq(Entries), Grown(d, e), NEW f, HasFile(d, f)
  PROVE  HasFile(e, f)
  <1>1. PICK i \in 1..Len(d) : d[i].file = f
    BY DEF HasFile
  <1>2. i \in 1..Len(e) /\ e[i].file = f
    BY <1>1 DEF Grown
  <1>. QED BY <1>2 DEF HasFile

\* When nothing is being received any more there is less to agree on.
LEMMA TieNotReceiving ==
  ASSUME NEW p \in ParserType, NEW q \in ParserType, NEW w \in Seq(Parts), NEW x \in Seq(Parts),
         NEW k, Advanced(w, x, k), Len(w) > 0, Tie(p, w),
         q.receiving = FALSE, q.replies = p.replies, Grown(p.disk, q.disk)
  PROVE  Tie(q, x)
  <1>1. OnlyData(w) => OnlyData(x)
    BY OnlyDataAdvanced
  <1>2. ASSUME AtRestTie(p, w) PROVE AtRestTie(q, x)
    BY <1>1, <1>2 DEF AtRestTie
  <1>3. ASSUME AwaitTie(p, w) PROVE AwaitTie(q, x)
    <2>1. ~(Len(q.replies) > 0)
      BY <1>3 DEF AwaitTie
    <2>2. ASSUME NEW i \in 1..Len(x) PROVE x[i].kind # "data" => x[i].file = current
      <3>1. i + k \in 1..Len(w) /\ x[i] = w[i + k]
        BY DEF Advanced
      <3>. QED BY <1>3, <3>1 DEF AwaitTie
    <2>. QED BY <2>1, <2>2 DEF AwaitTie
  <1>4. ASSUME StreamTie(p, w) PROVE StreamTie(q, x)
    <2>1. HasFile(p.disk, current)
      BY <1>4 DEF StreamTie
    <2>2. HasFile(q.disk, current)
      BY <2>1, HasFileGrown, FieldTypes
    <2>. QED BY <1>1, <1>4, <2>2 DEF StreamTie
  <1>. QED BY <1>2, <1>3, <1>4 DEF Tie

\* Data is written and ends the file: it is complete, or the disk has failed.
LEMMA StoredLastTurn ==
  ASSUME NEW p \in ParserType, NEW q \in ParserType, NEW w \in Seq(Parts), NEW x \in Seq(Parts),
         Advanced(w, x, Peer!Take(p)), Front(p, w), ParserInv(p, w),
         p.receiving = TRUE, p.buffer # <<>>, q.replies = p.replies, q.receiving = FALSE,
         NEW bad \in SUBSET DiskFails, NEW data,
         data = Peer!Written(p).data \o SubSeq(p.buffer, 1, Peer!Take(p)),
         \/ /\ Len(data) = p.expected
            /\ LastAs(p.disk, q.disk, Flushed(data, bad), "kept")
            /\ q.ends = Append(p.ends, Peer!Ending("done", Peer!Written(p).file))
         \/ /\ LastAs(p.disk, q.disk, data, "removed")
            /\ q.ends = Append(p.ends, Peer!Ending("failed", Peer!Written(p).file))
  PROVE  ParserInv(q, x) /\ Grown(p.disk, q.disk)
  <1>. DEFINE v == Peer!Written(p)  d == p.disk  e == q.disk  n == Len(d)
  <1>1. /\ Shape(w) /\ Agreed(p, w) /\ Whole(d) /\ Tie(p, w)
        /\ Ordered(p, w) /\ Bounded(p) /\ Apart(d)
    BY DEF ParserInv
  <1>2. /\ Peer!Take(p) \in 1..Len(w)
        /\ \A i \in 1..Len(data) : data[i] = Peer!Part("data", v.file, i)
        /\ p.expected = Size[v.file]
    BY <1>1, StoreFacts
  <1>3. Receiving(p) /\ Len(w) > 0
    BY <1>1, <1>2 DEF Agreed
  <1>4. d \in Seq(Entries) /\ d # <<>> /\ v = d[n] /\ d[n].state = "writing"
    BY <1>3, FieldTypes DEF Receiving, Peer!Written
  <1>. DEFINE Data(state) == IF state = "kept" THEN Flushed(data, bad) ELSE data
  <1>5. PICK state \in {"kept", "removed"}, stage \in {"done", "failed"} :
          /\ stage = "done" <=> state = "kept"
          /\ LastAs(p.disk, q.disk, Data(state), state)
          /\ q.ends = Append(p.ends, Peer!Ending(stage, Peer!Written(p).file))
          /\ state = "kept" => Len(data) = p.expected
    <2>1. CASE /\ Len(data) = p.expected
               /\ LastAs(p.disk, q.disk, Flushed(data, bad), "kept")
               /\ q.ends = Append(p.ends, Peer!Ending("done", Peer!Written(p).file))
      BY <2>1
    <2>2. CASE /\ LastAs(p.disk, q.disk, data, "removed")
               /\ q.ends = Append(p.ends, Peer!Ending("failed", Peer!Written(p).file))
      BY <2>2
    <2>. QED BY <2>1, <2>2
  <1>6. Ordered(q, x) /\ Grown(d, e) /\ Bounded(q) /\ Apart(e)
    <2>1. /\ Ordered(q, x) /\ Grown(d, e)
          /\ Bounded(p) => Bounded(q)
          /\ Apart(d) => Apart(e)
      BY <1>1, <1>3, <1>5, EndedFacts
    <2>. QED BY <1>1, <2>1
  <1>7. /\ Len(e) = n /\ n \in 1..n
        /\ \A i \in 1..n : e[i].file = d[i].file
        /\ \A i \in 1..n : i # n => e[i] = d[i]
        /\ e[n].data = Data(state) /\ e[n].state = state
    <2>1. state \in {"writing", "kept", "removed"} /\ LastAs(d, e, Data(state), state)
      BY <1>5
    <2>2. d[Len(d)].state = "writing"
      BY <1>4
    <2>. HIDE DEF d, e, Data
    <2>. QED BY <1>4, <2>1, <2>2, LastAsFacts
  <1>8. Tie(q, x)
    BY <1>1, <1>3, <1>6, TieNotReceiving
  <1>9. Shape(x) /\ Agreed(q, x)
    BY <1>1, ShapeAdvanced DEF Agreed
  <1>10. Whole(e)
    <2>1. ASSUME "flush" \notin DiskFails, NEW i \in 1..Len(e), e[i].state = "kept"
          PROVE  WholeEntry(e[i])
      <3>1. CASE i = n
        <4>1. state = "kept" /\ "flush" \notin bad
          BY <1>7, <2>1, <3>1
        <4>2. e[n].data = data /\ Len(data) = p.expected
          BY <1>5, <1>7, <4>1 DEF Flushed
        <4>3. e[n].file = v.file
          BY <1>4, <1>7
        <4>. QED BY <1>2, <3>1, <4>2, <4>3 DEF WholeEntry
      <3>2. CASE i # n
        BY <1>1, <1>7, <2>1, <3>2 DEF Whole
      <3>. QED BY <3>1, <3>2
    <2>. QED BY <2>1 DEF Whole
  <1>. QED BY <1>6, <1>8, <1>9, <1>10 DEF ParserInv

\* Data is written, and more is to come.
LEMMA StoredPartTurn ==
  ASSUME NEW p \in ParserType, NEW q \in ParserType, NEW w \in Seq(Parts), NEW x \in Seq(Parts),
         Advanced(w, x, Peer!Take(p)), Front(p, w), ParserInv(p, w),
         p.receiving = TRUE, p.buffer # <<>>, q.replies = p.replies, q.receiving = TRUE,
         q.expected = p.expected, q.stop = FALSE, q.ends = p.ends,
         NEW data, data = Peer!Written(p).data \o SubSeq(p.buffer, 1, Peer!Take(p)),
         Len(data) # p.expected, LastAs(p.disk, q.disk, data, "writing")
  PROVE  ParserInv(q, x) /\ Grown(p.disk, q.disk)
  <1>. DEFINE v == Peer!Written(p)  u == Peer!Written(q)  d == p.disk  e == q.disk  n == Len(d)
              k == Peer!Take(p)  got == Len(v.data)
  <1>1. /\ Shape(w) /\ Agreed(p, w) /\ Whole(d) /\ Tie(p, w)
        /\ Ordered(p, w) /\ Bounded(p) /\ Apart(d)
    BY DEF ParserInv
  <1>2. /\ k \in 1..Len(w) /\ k <= Left(p) /\ Left(p) \in Nat
        /\ Len(data) = got + k /\ got \in Nat
        /\ \A i \in 1..Len(data) : data[i] = Peer!Part("data", v.file, i)
        /\ Len(data) = p.expected <=> k = Left(p)
        /\ p.expected = Size[v.file] /\ p.expected = got + Left(p)
    BY <1>1, StoreFacts
  <1>3. Receiving(p) /\ Len(w) > 0
    BY <1>1, <1>2 DEF Agreed
  <1>4. d \in Seq(Entries) /\ d # <<>> /\ v = d[n] /\ d[n].state = "writing"
    BY <1>3, FieldTypes DEF Receiving, Peer!Written
  <1>5. /\ e \in Seq(Entries) /\ Len(e) = n /\ n \in 1..n
        /\ \A i \in 1..n : e[i].file = d[i].file
        /\ \A i \in 1..n : i # n => e[i] = d[i]
        /\ e[n].data = data /\ e[n].state = "writing"
        /\ Grown(d, e)
        /\ Apart(d) => Apart(e)
    <2>1. PICK state \in {"writing", "kept", "removed"} :
            state = "writing" /\ LastAs(d, e, data, state)
      OBVIOUS
    <2>. DEFINE Data(st) == data
    <2>2. d[Len(d)].state = "writing" /\ LastAs(d, e, Data(state), state)
      BY <1>4, <2>1
    <2>3. d \in Seq(Entries) /\ d # <<>>
      BY <1>4
    <2>. HIDE DEF d, e, Data
    <2>4. /\ e \in Seq(Entries) /\ Len(e) = n /\ n \in 1..n
          /\ \A i \in 1..n : e[i].file = d[i].file
          /\ \A i \in 1..n : i # n => e[i] = d[i]
          /\ e[n].data = Data(state) /\ e[n].state = state
          /\ Grown(d, e)
          /\ Apart(d) => Apart(e)
      BY <2>3, <2>2, LastAsFacts
    <2>. QED BY <2>1, <2>4 DEF Data
  <1>6. u = e[n] /\ u.file = v.file /\ u.data = data /\ u.state = "writing" /\ q.disk # <<>>
    <2>1. u = e[n]
      BY <1>5 DEF Peer!Written
    <2>2. e # <<>>
      <3>1. n \in 1..n
        BY <1>5
      <3>2. n # 0
        BY <3>1
      <3>3. Len(<<>>) = 0
        OBVIOUS
      <3>. HIDE DEF n, d
      <3>. QED BY <1>5, <3>2, <3>3
    <2>. QED BY <1>4, <1>5, <2>1, <2>2
  <1>. HIDE DEF u, v, n, d, e, k, got
  <1>7. /\ k < Left(p) /\ Left(q) = Left(p) - k /\ Len(u.data) = got + k
        /\ k \in Nat /\ Left(q) \in Nat
    <2>1. k # Left(p)
      BY <1>2
    <2>2. k \in Nat /\ k < Left(p)
      BY <1>2, <2>1
    <2>3. Len(u.data) = got + k
      BY <1>2, <1>6
    <2>4. Left(q) = p.expected - (got + k)
      BY <2>3 DEF Left, u
    <2>5. /\ p.expected \in Nat /\ got \in Nat /\ Left(p) = p.expected - got
      BY <1>2
    <2>6. Left(q) = Left(p) - k /\ Left(q) \in Nat
      BY <2>2, <2>4, <2>5
    <2>. QED BY <2>2, <2>3, <2>6
  <1>8. /\ k \in 0..Len(w) /\ Len(w) \in Nat /\ Len(x) = Len(w) - k
        /\ \A i \in 1..Len(x) : x[i] = w[i + k]
    BY DEF Advanced, k
  <1>9. /\ k \in Nat /\ got \in Nat /\ Left(p) \in Nat /\ Left(q) \in Nat /\ Len(w) \in Nat
        /\ k < Left(p) /\ k <= Len(w) /\ Left(q) = Left(p) - k /\ Len(x) = Len(w) - k
        /\ Len(u.data) = got + k
    BY <1>2, <1>7, <1>8
  <1>10. Shape(x) /\ (OnlyData(w) => OnlyData(x))
    BY <1>1, ShapeAdvanced, OnlyDataAdvanced
  <1>11. Agreed(q, x)
    <2>1. Receiving(q)
      <3>1. Len(u.data) < q.expected
        BY <1>2, <1>7
      <3>. QED BY <1>6, <3>1 DEF Receiving, u
    <2>2. \A i \in 1..Len(u.data) : u.data[i] = Peer!Part("data", u.file, i)
      BY <1>2, <1>6
    <2>3. q.expected = Size[u.file]
      BY <1>2, <1>6
    <2>4. ASSUME NEW i \in 1..Len(x), i <= Left(q)
          PROVE  x[i] = Peer!Part("data", u.file, Len(u.data) + i)
      <3>1. i + k \in 1..Len(w) /\ i + k <= Left(p) /\ got + (i + k) = Len(u.data) + i
        BY <1>2, <1>7, <1>8, <2>4
      <3>2. w[i + k] = Peer!Part("data", v.file, got + (i + k))
        BY <1>1, <3>1 DEF Agreed, v, got
      <3>. QED BY <1>6, <1>8, <3>1, <3>2
    <2>5. Len(w) <= Left(p) \/ (Len(w) = Left(p) + 2 /\ w[Left(p) + 1].kind = "req")
      BY <1>1 DEF Agreed
    <2>6. Len(x) <= Left(q) \/ (Len(x) = Left(q) + 2 /\ x[Left(q) + 1].kind = "req")
      <3>1. CASE Len(w) <= Left(p)
        BY <1>2, <1>7, <1>8, <3>1
      <3>2. CASE Len(w) = Left(p) + 2 /\ w[Left(p) + 1].kind = "req"
        <4>. DEFINE lp == Left(p)  lq == Left(q)  lw == Len(w)  lx == Len(x)
        <4>1. lp \in Nat /\ lq \in Nat /\ k \in Nat /\ lq = lp - k /\ lx = lw - k /\ lw = lp + 2
          BY <1>9, <3>2
        <4>. HIDE DEF lp, lq, lw, lx
        <4>2. lx = lq + 2 /\ lq + 1 \in 1..lx /\ (lq + 1) + k = lp + 1
          BY <4>1
        <4>. USE DEF lp, lq, lw, lx
        <4>3. x[Left(q) + 1] = w[Left(p) + 1]
          BY <1>8, <4>2
        <4>. QED BY <3>2, <4>2, <4>3
      <3>. QED BY <2>5, <3>1, <3>2
    <2>. QED BY <2>1, <2>2, <2>3, <2>4, <2>6 DEF Agreed, u
  <1>12. Whole(e)
    <2>1. ASSUME "flush" \notin DiskFails, NEW i \in 1..Len(e), e[i].state = "kept"
          PROVE  WholeEntry(e[i])
      BY <1>1, <1>5, <2>1 DEF Whole, n
    <2>. QED BY <2>1 DEF Whole
  <1>13. Tie(q, x)
    <2>1. ASSUME AtRestTie(p, w) PROVE AtRestTie(q, x)
      <3>1. Len(w) = Left(p)
        BY <2>1 DEF AtRestTie
      <3>2. Len(x) = Left(q)
        BY <1>2, <1>7, <1>8, <3>1
      <3>. QED BY <1>10, <2>1, <3>2 DEF AtRestTie
    <2>2. ASSUME AwaitTie(p, w) PROVE AwaitTie(q, x)
      <3>1. ~(Len(q.replies) > 0) /\ Len(w) = Left(p) + 2
        BY <1>3, <2>2 DEF AwaitTie
      <3>2. Len(x) = Left(q) + 2
        BY <1>2, <1>7, <1>8, <3>1
      <3>3. ASSUME NEW i \in 1..Len(x) PROVE x[i].kind # "data" => x[i].file = current
        <4>1. i + k \in 1..Len(w) /\ x[i] = w[i + k]
          BY <1>8
        <4>. QED BY <2>2, <4>1 DEF AwaitTie
      <3>. QED BY <3>1, <3>2, <3>3 DEF AwaitTie
    <2>3. ASSUME StreamTie(p, w) PROVE StreamTie(q, x)
      <3>1. HasFile(p.disk, current)
        BY <2>3 DEF StreamTie
      <3>2. HasFile(q.disk, current)
        BY <1>5, <3>1, HasFileGrown, FieldTypes DEF d, e
      <3>3. v.file = current /\ got + Len(w) = sent + 1
        BY <2>3 DEF StreamTie, v, got
      <3>4. u.file = current /\ Len(u.data) + Len(x) = sent + 1
        <4>1. u.file = current
          BY <1>6, <3>3
        <4>2. Len(u.data) + Len(x) = sent + 1
          BY <1>9, <3>3
        <4>. QED BY <4>1, <4>2
      <3>. QED BY <1>10, <2>3, <3>2, <3>4 DEF StreamTie, u
    <2>. QED BY <1>1, <2>1, <2>2, <2>3 DEF Tie
  <1>14. Len(d) \in Nat /\ Len(e) = Len(d) /\ \A i \in 1..Len(d) : e[i].file = d[i].file
    BY <1>4, <1>5 DEF n
  <1>15. Ordered(q, x)
    <2>1. /\ Increasing(d) /\ Increasing(p.ends) /\ Fresh(w, d) /\ Fresh(w, p.ends)
          /\ OnlyLastWriting(p) /\ NotEnded(p) /\ Ended(d, p.ends)
      BY <1>1 DEF Ordered, d
    <2>2. Fresh(x, d) /\ Fresh(x, q.ends)
      BY <2>1, FreshAdvanced
    <2>3. Increasing(e) /\ Fresh(x, e)
      BY <1>14, <2>1, <2>2, SameFiles
    <2>4. OnlyLastWriting(q)
      BY <1>5, <2>1 DEF OnlyLastWriting, n, d, e
    <2>5. NotEnded(q)
      BY <1>6, <2>1 DEF NotEnded, u, v
    <2>6. Ended(e, q.ends)
      <3>1. \A i \in 1..n : e[i].state # "writing" => i # n /\ e[i] = d[i]
        BY <1>5
      <3>2. ASSUME NEW i \in 1..Len(e), e[i].state # "writing"
            PROVE  \E j \in 1..Len(q.ends) : q.ends[j].file = e[i].file
        <4>1. i \in 1..Len(d) /\ e[i] = d[i]
          BY <1>14, <3>1, <3>2 DEF n
        <4>. QED BY <2>1, <3>2, <4>1 DEF Ended
      <3>3. ASSUME NEW i \in 1..Len(e), NEW j \in 1..Len(q.ends), q.ends[j].file = e[i].file
            PROVE  e[i].state = IF q.ends[j].stage = "done" THEN "kept" ELSE "removed"
        <4>1. i # n
          <5>. SUFFICES ASSUME i = n PROVE FALSE
            OBVIOUS
          <5>1. q.ends[j].file < v.file /\ q.ends[j].file \in Int
            BY <2>1, FieldTypes, EndingTypes DEF NotEnded, v
          <5>2. q.ends[j].file = v.file
            BY <1>6, <3>3
          <5>. QED BY <5>1, <5>2
        <4>2. i \in 1..Len(d) /\ e[i] = d[i]
          <5>1. i \in 1..n /\ i \in 1..Len(d)
            BY <1>14 DEF n
          <5>2. \A h \in 1..n : h # n => e[h] = d[h]
            BY <1>5
          <5>3. e[i] = d[i]
            BY <4>1, <5>1, <5>2
          <5>. QED BY <5>1, <5>3
        <4>3. d[i].state = IF p.ends[j].stage = "done" THEN "kept" ELSE "removed"
          <5>1. j \in 1..Len(p.ends) /\ p.ends[j].file = d[i].file
            BY <3>3, <4>2
          <5>2. Ended(d, p.ends)
            BY <2>1
          <5>. QED BY <4>2, <5>1, <5>2 DEF Ended
        <4>. QED BY <4>2, <4>3
      <3>. QED BY <3>2, <3>3 DEF Ended
    <2>. QED BY <2>1, <2>2, <2>3, <2>4, <2>5, <2>6 DEF Ordered, e
  <1>16. Bounded(q)
    <2>. SUFFICES ASSUME open = TRUE PROVE Within(e) /\ Within(q.ends)
      BY DEF Bounded, e
    <2>1. Within(d) /\ Within(p.ends)
      BY <1>1 DEF Bounded, d
    <2>. QED BY <1>14, <2>1, SameFiles
  <1>. QED BY <1>1, <1>5, <1>10, <1>11, <1>12, <1>13, <1>15, <1>16 DEF ParserInv, d, e

\* One turn of the loop, whatever it does.
LEMMA ParserTurn ==
  ASSUME NEW p \in ParserType, NEW s \in Seq(Parts), NEW bad \in SUBSET DiskFails,
         ParserInv(p, p.buffer \o s)
  PROVE  LET q == Peer!ParseOnce(p, bad) IN
         /\ q \in ParserType /\ ParserInv(q, q.buffer \o s) /\ Grown(p.disk, q.disk)
         /\ \/ q = p /\ (p.stop = TRUE \/ p.buffer = <<>>)
            \/ q.stop = TRUE
            \/ Len(q.buffer) < Len(p.buffer)
  <1>. DEFINE q == Peer!ParseOnce(p, bad)  w == p.buffer \o s  x == q.buffer \o s
  <1>1. p.receiving = TRUE => Receiving(p)
    BY DEF ParserInv, Agreed
  <1>2. /\ q \in ParserType
        /\ \/ Rested(p, q)
           \/ /\ p.stop = FALSE /\ p.buffer # <<>>
              /\ Discarded(p, q) \/ Waited(p, q) \/ Requested(p, q) \/ Stored(p, q, bad)
    BY <1>1, ParseOnceEffect, Zenon
  <1>. HIDE DEF q
  <1>3. p.buffer \in Seq(Parts) /\ q.buffer \in Seq(Parts)
    BY <1>2, FieldTypes
  <1>4. /\ w \in Seq(Parts) /\ Len(w) = Len(p.buffer) + Len(s)
        /\ \A i \in 1..Len(p.buffer) + Len(s) :
             w[i] = IF i <= Len(p.buffer) THEN p.buffer[i] ELSE s[i - Len(p.buffer)]
    BY <1>3, ConcatProperties
  <1>5. x \in Seq(Parts)
    BY <1>3, ConcatProperties
  <1>6. Len(p.buffer) \in Nat /\ Len(s) \in Nat /\ Len(q.buffer) \in Nat
    BY <1>3
  <1>7. ASSUME NEW k \in 0..Len(p.buffer), q.buffer = SubSeq(p.buffer, k + 1, Len(p.buffer))
        PROVE  Advanced(w, x, k) /\ Len(q.buffer) = Len(p.buffer) - k
    <2>. DEFINE c == SubSeq(p.buffer, k + 1, Len(p.buffer))
    <2>1. Len(c) = Len(p.buffer) - k /\ Advanced(p.buffer \o s, c \o s, k)
      BY <1>3, RestAdvanced, Zenon
    <2>. QED BY <1>7, <2>1
  <1>8. ParserInv(p, w)
    OBVIOUS
  <1>. HIDE DEF w, x
  <1>9. Front(p, w)
    <2>1. \A i \in 1..Len(p.buffer) : w[i] = p.buffer[i]
      BY <1>4, <1>6
    <2>2. Len(p.buffer) \in 0..Len(w)
      BY <1>4, <1>6
    <2>. QED BY <2>1, <2>2 DEF Front
  <1>. SUFFICES /\ ParserInv(q, x) /\ Grown(p.disk, q.disk)
                /\ \/ q = p /\ (p.stop = TRUE \/ p.buffer = <<>>)
                   \/ q.stop = TRUE
                   \/ Len(q.buffer) < Len(p.buffer)
    BY <1>2 DEF q, x
  <1>10. CASE Rested(p, q)
    <2>1. q = p /\ (p.stop = TRUE \/ p.buffer = <<>>)
      BY <1>10 DEF Rested
    <2>2. x = w
      BY <2>1 DEF x, w
    <2>3. Grown(p.disk, q.disk)
      BY <2>1, FieldTypes DEF Grown
    <2>. QED BY <1>8, <2>1, <2>2, <2>3
  <1>11. CASE p.buffer # <<>> /\ Discarded(p, q)
    <2>1. q.buffer = <<>> /\ p.receiving = FALSE /\ SameFile(p, q) /\ Len(p.buffer) > 0
      BY <1>3, <1>11 DEF Discarded
    <2>2. q.buffer = SubSeq(p.buffer, Len(p.buffer) + 1, Len(p.buffer))
      <3>. DEFINE n == Len(p.buffer)  c == SubSeq(p.buffer, n + 1, n)
      <3>1. n \in Nat /\ n \in 0..n
        BY <1>6
      <3>2. c \in Seq(Parts) /\ Len(c) = n - n
        <4>1. SubSeq(p.buffer, n + 1, Len(p.buffer)) \in Seq(Parts)
              /\ Len(SubSeq(p.buffer, n + 1, Len(p.buffer))) = Len(p.buffer) - n
          BY <1>3, <3>1, RestAdvanced, Zenon
        <4>. QED BY <4>1
      <3>. HIDE DEF c
      <3>3. c = <<>>
        <4>1. Len(c) = 0
          BY <3>1, <3>2
        <4>. QED BY <3>2, <4>1, EmptySeq
      <3>. QED BY <2>1, <3>3 DEF c
    <2>3. Advanced(w, x, Len(p.buffer)) /\ Len(q.buffer) = Len(p.buffer) - Len(p.buffer)
      BY <1>6, <1>7, <2>2
    <2>4. Len(w) > 0
      BY <1>4, <1>6, <2>1
    <2>5. ParserInv(q, x) /\ Grown(p.disk, q.disk)
      BY <1>2, <1>4, <1>5, <1>8, <2>1, <2>3, <2>4, QuietTurn
    <2>6. Len(q.buffer) < Len(p.buffer)
      BY <1>6, <2>1, <2>3
    <2>. QED BY <2>5, <2>6
  <1>12. CASE p.buffer # <<>> /\ Waited(p, q)
    <2>1. q.buffer = p.buffer /\ p.receiving = FALSE /\ SameFile(p, q) /\ q.stop = TRUE
          /\ Len(p.buffer) > 0
      BY <1>3, <1>12 DEF Waited
    <2>2. x = w /\ Len(w) > 0
      BY <1>4, <1>6, <2>1 DEF x, w
    <2>3. Advanced(w, x, 0)
      BY <1>4, <2>2 DEF Advanced
    <2>4. ParserInv(q, x) /\ Grown(p.disk, q.disk)
      BY <1>2, <1>4, <1>5, <1>8, <2>1, <2>2, <2>3, QuietTurn
    <2>. QED BY <2>1, <2>4
  <1>13. CASE Requested(p, q)
    <2>1. /\ p.receiving = FALSE /\ Len(p.buffer) >= 2 /\ p.buffer[1].kind = "req"
          /\ q.buffer = SubSeq(p.buffer, 3, Len(p.buffer)) /\ q.stop = FALSE
          /\ q.expected = p.buffer[2].n
      BY <1>13 DEF Requested
    <2>2. Advanced(w, x, 2) /\ Len(q.buffer) < Len(p.buffer)
      <3>1. 2 \in 0..Len(p.buffer) /\ 2 + 1 = 3
        BY <1>6, <2>1
      <3>2. Advanced(w, x, 2) /\ Len(q.buffer) = Len(p.buffer) - 2
        BY <1>7, <2>1, <3>1
      <3>. QED BY <1>6, <3>2
    <2>3. CASE Refused(p, q, p.buffer[2].file)
      BY <1>2, <1>4, <1>5, <1>8, <1>9, <2>1, <2>2, <2>3, RefusedTurn
    <2>4. CASE p.buffer[2].n = 0 /\ AcceptedEmpty(p, q, p.buffer[2].file)
      BY <1>2, <1>4, <1>5, <1>8, <1>9, <2>1, <2>2, <2>4, AcceptedEmptyTurn
    <2>5. CASE p.buffer[2].n # 0 /\ Accepted(p, q, p.buffer[2].file)
      BY <1>2, <1>4, <1>5, <1>8, <1>9, <2>1, <2>2, <2>5, AcceptedTurn
    <2>. QED BY <1>13, <2>3, <2>4, <2>5 DEF Requested
  <1>14. CASE p.buffer # <<>> /\ p.stop = FALSE /\ Stored(p, q, bad)
    <2>. DEFINE k == Peer!Take(p)  data == Peer!Written(p).data \o SubSeq(p.buffer, 1, k)
    <2>1. /\ p.receiving = TRUE
          /\ q.buffer = SubSeq(p.buffer, k + 1, Len(p.buffer))
          /\ q.expected = p.expected /\ q.replies = p.replies
          /\ \/ /\ q.receiving = TRUE /\ q.stop = FALSE /\ Len(data) # p.expected
                /\ LastAs(p.disk, q.disk, data, "writing")
                /\ q.ends = p.ends
             \/ /\ q.receiving = FALSE /\ Len(data) = p.expected
                /\ LastAs(p.disk, q.disk, Flushed(data, bad), "kept")
                /\ q.ends = Append(p.ends, Peer!Ending("done", Peer!Written(p).file))
             \/ /\ q.receiving = FALSE
                /\ LastAs(p.disk, q.disk, data, "removed")
                /\ q.ends = Append(p.ends, Peer!Ending("failed", Peer!Written(p).file))
      BY <1>14 DEF Stored
    <2>2. k \in 1..Len(p.buffer)
      BY <1>1, <1>14, <2>1, TakeEffect
    <2>. HIDE DEF k
    <2>3. Advanced(w, x, k) /\ Len(q.buffer) < Len(p.buffer)
      <3>1. k \in 0..Len(p.buffer)
        BY <2>2
      <3>2. Advanced(w, x, k) /\ Len(q.buffer) = Len(p.buffer) - k
        BY <1>7, <2>1, <3>1
      <3>. QED BY <1>6, <2>2, <3>2
    <2>4. data = Peer!Written(p).data \o SubSeq(p.buffer, 1, k)
      OBVIOUS
    <2>. HIDE DEF data
    <2>5. CASE /\ q.receiving = TRUE /\ q.stop = FALSE /\ Len(data) # p.expected
               /\ LastAs(p.disk, q.disk, data, "writing")
               /\ q.ends = p.ends
      BY <1>2, <1>4, <1>5, <1>8, <1>9, <1>14, <2>1, <2>3, <2>4, <2>5, StoredPartTurn DEF k
    <2>6. CASE /\ q.receiving = FALSE
               /\ \/ /\ Len(data) = p.expected
                     /\ LastAs(p.disk, q.disk, Flushed(data, bad), "kept")
                     /\ q.ends = Append(p.ends, Peer!Ending("done", Peer!Written(p).file))
                  \/ /\ LastAs(p.disk, q.disk, data, "removed")
                     /\ q.ends = Append(p.ends, Peer!Ending("failed", Peer!Written(p).file))
      BY <1>2, <1>4, <1>5, <1>8, <1>9, <1>14, <2>1, <2>3, <2>4, <2>6, StoredLastTurn DEF k
    <2>. QED BY <2>1, <2>5, <2>6
  <1>. QED BY <1>2, <1>10, <1>11, <1>12, <1>13, <1>14

\* Two turns of the loop, one after the other, lose and change no more than each.
LEMMA GrownTwice ==
  ASSUME NEW d, NEW e, NEW g, Len(d) \in Nat, Len(e) \in Nat, Len(g) \in Nat,
         Grown(d, e), Grown(e, g)
  PROVE  Grown(d, g)
  <1>1. Len(d) <= Len(e) /\ Len(e) <= Len(g)
    BY DEF Grown
  <1>2. ASSUME NEW i \in 1..Len(d)
        PROVE  g[i].file = d[i].file /\ (d[i].state # "writing" => g[i] = d[i])
    <2>1. i \in 1..Len(e)
      BY <1>1
    <2>. QED BY <2>1 DEF Grown
  <1>. QED BY <1>1, <1>2 DEF Grown

\* parseFile() keeps the invariant, ends no file twice and leaves nothing in the
\* buffer while a file is being received.
LEMMA ParseFileEffect ==
  ASSUME NEW p \in ParserType, NEW s \in Seq(Parts), NEW bad \in SUBSET DiskFails,
         ParserInv(p, p.buffer \o s)
  PROVE  LET q == Peer!ParseFile(p, bad) IN
         /\ q \in ParserType /\ ParserInv(q, q.buffer \o s) /\ Grown(p.disk, q.disk)
         /\ q.receiving = TRUE => q.buffer = <<>>
  <1>. DEFINE N == Len(p.buffer)
  <1>1. N \in Nat
    BY FieldTypes
  <1>2. PICK turn : /\ turn[0] = p
                    /\ \A k \in 1..N : turn[k] = Peer!ParseOnce(turn[k - 1], bad)
                    /\ Peer!ParseFile(p, bad) = turn[N]
    BY <1>1, ParseFileTurns
  <1>. DEFINE Good(q, k) ==
                /\ q \in ParserType /\ ParserInv(q, q.buffer \o s) /\ Grown(p.disk, q.disk)
                /\ q.stop = TRUE \/ Len(q.buffer) + k <= N \/ q.buffer = <<>>
              T == {k \in 0..N : ~Good(turn[k], k)}
  <1>3. Good(turn[0], 0)
    <2>1. Grown(p.disk, p.disk)
      BY FieldTypes DEF Grown
    <2>2. Len(p.buffer) + 0 <= N
      BY <1>1
    <2>. QED BY <1>2, <2>1, <2>2
  <1>4. ASSUME NEW k \in 1..N, Good(turn[k - 1], k - 1) PROVE Good(turn[k], k)
    <2>. DEFINE r == turn[k - 1]  q == turn[k]
    <2>1. q = Peer!ParseOnce(r, bad)
      BY <1>2
    <2>2. r \in ParserType /\ ParserInv(r, r.buffer \o s) /\ Grown(p.disk, r.disk)
      BY <1>4
    <2>3. r.stop = TRUE \/ Len(r.buffer) + (k - 1) <= N \/ r.buffer = <<>>
      BY <1>4
    <2>. HIDE DEF r, q
    <2>4. /\ q \in ParserType /\ ParserInv(q, q.buffer \o s) /\ Grown(r.disk, q.disk)
          /\ \/ q = r /\ (r.stop = TRUE \/ r.buffer = <<>>)
             \/ q.stop = TRUE
             \/ Len(q.buffer) < Len(r.buffer)
      <3>. DEFINE o == Peer!ParseOnce(r, bad)
      <3>1. /\ o \in ParserType /\ ParserInv(o, o.buffer \o s) /\ Grown(r.disk, o.disk)
            /\ \/ o = r /\ (r.stop = TRUE \/ r.buffer = <<>>)
               \/ o.stop = TRUE
               \/ Len(o.buffer) < Len(r.buffer)
        BY <2>2, ParserTurn, Zenon
      <3>. QED BY <2>1, <3>1, Zenon
    <2>5. Grown(p.disk, q.disk)
      <3>1. Len(p.disk) \in Nat /\ Len(r.disk) \in Nat /\ Len(q.disk) \in Nat
        BY <2>2, <2>4, FieldTypes
      <3>. QED BY <2>2, <2>4, <3>1, GrownTwice
    <2>6. Len(r.buffer) \in Nat /\ Len(q.buffer) \in Nat /\ r.buffer \in Seq(Parts)
      BY <2>2, <2>4, FieldTypes
    <2>7. q.stop = TRUE \/ Len(q.buffer) + k <= N \/ q.buffer = <<>>
      <3>1. CASE q = r /\ (r.stop = TRUE \/ r.buffer = <<>>)
        BY <3>1
      <3>2. CASE Len(q.buffer) < Len(r.buffer) /\ r.stop = TRUE
        <4>1. q = r
          BY <2>1, <3>2 DEF Peer!ParseOnce
        <4>. QED BY <3>2, <4>1
      <3>3. CASE Len(q.buffer) < Len(r.buffer) /\ r.buffer = <<>>
        BY <2>6, <3>3
      <3>4. CASE Len(q.buffer) < Len(r.buffer) /\ Len(r.buffer) + (k - 1) <= N
        <4>1. Len(q.buffer) + k <= N
          BY <1>1, <2>6, <3>4
        <4>. QED BY <4>1
      <3>. QED BY <2>3, <2>4, <3>1, <3>2, <3>3, <3>4
    <2>. QED BY <2>4, <2>5, <2>7 DEF q
  <1>. HIDE DEF Good
  <1>5. T = {}
    <2>. SUFFICES ASSUME T # {} PROVE FALSE
      OBVIOUS
    <2>1. T \in SUBSET Nat
      BY <1>1
    <2>2. PICK n \in T : \A m \in T : n <= m
      BY <2>1, LeastNumber
    <2>3. n # 0
      BY <1>3, <2>2
    <2>4. n - 1 \in 0..N /\ n \in 1..N /\ ~(n <= n - 1)
      BY <1>1, <2>2, <2>3
    <2>5. n - 1 \notin T
      BY <2>2, <2>4
    <2>6. Good(turn[n - 1], n - 1)
      BY <2>4, <2>5
    <2>7. Good(turn[n], n)
      BY <1>4, <2>4, <2>6
    <2>. QED BY <2>2, <2>7
  <1>6. Good(turn[N], N)
    BY <1>1, <1>5
  <1>. DEFINE z == turn[N]
  <1>7. /\ z \in ParserType /\ ParserInv(z, z.buffer \o s) /\ Grown(p.disk, z.disk)
        /\ z.stop = TRUE \/ Len(z.buffer) + N <= N \/ z.buffer = <<>>
    BY <1>6 DEF Good
  <1>. HIDE DEF z
  <1>8. ASSUME z.receiving = TRUE PROVE z.buffer = <<>>
    <2>1. z.stop = FALSE
      BY <1>7, <1>8 DEF ParserInv, Agreed
    <2>2. z.buffer \in Seq(Parts)
      BY <1>7, FieldTypes
    <2>3. CASE Len(z.buffer) + N <= N
      <3>. DEFINE l == Len(z.buffer)
      <3>1. l \in Nat
        BY <2>2
      <3>2. l + N <= N
        BY <2>3
      <3>. HIDE DEF l, N
      <3>3. l = 0
        BY <1>1, <3>1, <3>2
      <3>4. Len(z.buffer) = 0
        BY <3>3 DEF l
      <3>. QED BY <2>2, <3>4, EmptySeq
    <2>. QED BY <1>7, <2>1, <2>3
  <1>9. Peer!ParseFile(p, bad) = z
    BY <1>2 DEF z
  <1>. QED BY <1>7, <1>8, <1>9
=============================================================================
