------------------------------ MODULE ChatProofs ------------------------------
(***************************************************************************)
(* A chat message arrives as it was typed, for every text, every limit on  *)
(* its size and every cut of the stream: what Text quotes it also reads,   *)
(* what ClientSocket frames PeerConnection finds, and the messages shown   *)
(* are those accepted, in order.                                           *)
(***************************************************************************)
EXTENDS Chat, SequenceTheorems, WellFoundedInduction, TLAPS

-----------------------------------------------------------------------------
\* Induction over the turns of a loop, by a least counterexample.

\* A set of numbers that has 0, and with a number the next one, has all up to n.
LEMMA Upward ==
  ASSUME NEW n \in Nat, NEW T \in SUBSET Nat, 0 \in T,
         \A k \in 0..n - 1 : k \in T => k + 1 \in T
  PROVE  \A k \in 0..n : k \in T
  <1>. DEFINE B == {k \in 0..n : k \notin T}
  <1>. SUFFICES ASSUME B # {} PROVE FALSE
    OBVIOUS
  <1>0. B \in SUBSET Nat
    OBVIOUS
  <1>1. PICK k \in B : \A m \in B : ~ (<<m, k>> \in OpToRel(<, Nat))
    BY <1>0, NatLessThanWellFounded, WFMin
  <1>2. \A m \in B : ~(m < k)
    BY <1>0, <1>1 DEF OpToRel
  <1>3. k # 0
    BY <1>1
  <1>4. k - 1 \in 0..n - 1 /\ k - 1 \notin B
    <2>1. k \in 0..n
      BY <1>1
    <2>2. k - 1 \in 0..n - 1 /\ k - 1 < k
      BY <1>3, <2>1
    <2>. QED BY <1>2, <2>2
  <1>5. k - 1 \in T
    BY <1>4
  <1>6. k \in T
    BY <1>4, <1>5
  <1>. QED BY <1>1, <1>6

\* Two loops that start alike, and whose turns do alike, end alike.
LEMMA SameTurns ==
  ASSUME NEW n \in Nat, NEW f, NEW g, f[0] = g[0],
         \A k \in 1..n : f[k - 1] = g[k - 1] => f[k] = g[k]
  PROVE  f[n] = g[n]
  <1>. DEFINE T == {k \in Nat : f[k] = g[k]}
  <1>1. 0 \in T
    OBVIOUS
  <1>2. \A k \in 0..n - 1 : k \in T => k + 1 \in T
    <2>. SUFFICES ASSUME NEW k \in 0..n - 1, k \in T PROVE k + 1 \in T
      OBVIOUS
    <2>1. k + 1 \in 1..n /\ (k + 1) - 1 = k
      OBVIOUS
    <2>2. f[(k + 1) - 1] = g[(k + 1) - 1]
      BY <2>1
    <2>3. f[k + 1] = g[k + 1]
      BY <2>1, <2>2
    <2>. QED BY <2>3
  <1>. HIDE DEF T
  <1>3. T \in SUBSET Nat
    BY DEF T
  <1>4. \A k \in 0..n : k \in T
    BY <1>1, <1>2, <1>3, Upward
  <1>. QED BY <1>4 DEF T

-----------------------------------------------------------------------------
\* FlattenSeq.

\* The turns of FlattenSeq: what the first k sequences make.
Flattened(seqs, flat) ==
  flat = [k \in 1..Len(seqs) |-> IF k = 1 THEN seqs[k] ELSE flat[k - 1] \o seqs[k]]

\* FlattenSeq is its last turn, whichever function describes the turns.
LEMMA FlattenIs ==
  ASSUME NEW S, NEW seqs \in Seq(S), Len(seqs) > 0, NEW flat, Flattened(seqs, flat)
  PROVE  FlattenSeq(seqs) = flat[Len(seqs)]
  <1>. DEFINE n == Len(seqs)
              f == CHOOSE f : f = [k \in 1..n |-> IF k = 1 THEN seqs[k] ELSE f[k - 1] \o seqs[k]]
  <1>1. f = [k \in 1..n |-> IF k = 1 THEN seqs[k] ELSE f[k - 1] \o seqs[k]]
    BY DEF Flattened
  <1>2. FlattenSeq(seqs) = f[n]
    BY DEF FlattenSeq
  <1>. HIDE DEF f
  <1>3. flat = [k \in 1..n |-> IF k = 1 THEN seqs[k] ELSE flat[k - 1] \o seqs[k]]
    BY DEF Flattened
  <1>4. n \in Nat \ {0}
    OBVIOUS
  <1>. HIDE DEF n
  <1>. DEFINE g == [k \in 0..n - 1 |-> f[k + 1]]  h == [k \in 0..n - 1 |-> flat[k + 1]]
  <1>5. g[0] = h[0]
    BY <1>1, <1>3, <1>4
  <1>6. \A k \in 1..n - 1 : g[k - 1] = h[k - 1] => g[k] = h[k]
    <2>. SUFFICES ASSUME NEW k \in 1..n - 1, g[k - 1] = h[k - 1] PROVE g[k] = h[k]
      OBVIOUS
    <2>1. g[k] = f[k + 1] /\ h[k] = flat[k + 1] /\ g[k - 1] = f[k] /\ h[k - 1] = flat[k]
      BY <1>4
    <2>2. k + 1 \in 1..n /\ k + 1 # 1 /\ (k + 1) - 1 = k
      BY <1>4
    <2>3. f[k + 1] = f[k] \o seqs[k + 1]
      BY <1>1, <2>2
    <2>4. flat[k + 1] = flat[k] \o seqs[k + 1]
      BY <1>3, <2>2
    <2>. QED BY <2>1, <2>3, <2>4
  <1>7. n - 1 \in Nat
    BY <1>4
  <1>8. g[n - 1] = f[n] /\ h[n - 1] = flat[n]
    BY <1>4
  <1>. HIDE DEF g, h
  <1>9. g[n - 1] = h[n - 1]
    BY <1>5, <1>6, <1>7, SameTurns
  <1>. QED BY <1>2, <1>8, <1>9 DEF n

\* There is such a function, and its turns make sequences.
LEMMA FlattenTurns ==
  ASSUME NEW S, NEW seqs \in Seq(Seq(S))
  PROVE  \E flat \in [1..Len(seqs) -> Seq(S)] : Flattened(seqs, flat)
  <1>. DEFINE n == Len(seqs)
              Turn(f, k) == f[k] = IF k = 1 THEN seqs[k] ELSE f[k - 1] \o seqs[k]
              T == {m \in Nat : \E f \in [1..m -> Seq(S)] : \A k \in 1..m : Turn(f, k)}
  <1>0. n \in Nat /\ \A k \in 1..n : seqs[k] \in Seq(S)
    OBVIOUS
  <1>1. 0 \in T
    <2>1. [k \in 1..0 |-> <<>>] \in [1..0 -> Seq(S)] /\ \A k \in 1..0 : Turn([i \in 1..0 |-> <<>>], k)
      OBVIOUS
    <2>. QED BY <2>1
  <1>2. ASSUME NEW m \in 0..n - 1, m \in T PROVE m + 1 \in T
    <2>1. PICK f \in [1..m -> Seq(S)] : \A k \in 1..m : Turn(f, k)
      BY <1>2
    <2>. DEFINE new == IF m = 0 THEN seqs[1] ELSE f[m] \o seqs[m + 1]
                g == [k \in 1..m + 1 |-> IF k = m + 1 THEN new ELSE f[k]]
    <2>2. m \in Nat /\ m + 1 \in 1..n /\ seqs[m + 1] \in Seq(S)
      BY <1>0
    <2>3. new \in Seq(S)
      <3>1. CASE m = 0
        BY <2>2, <3>1
      <3>2. CASE m # 0
        <4>1. f[m] \in Seq(S)
          BY <2>2, <3>2
        <4>2. f[m] \o seqs[m + 1] \in Seq(S)
          BY <2>2, <4>1, ConcatProperties
        <4>. QED BY <3>2, <4>2
      <3>. QED BY <3>1, <3>2
    <2>. HIDE DEF n
    <2>4. g \in [1..m + 1 -> Seq(S)]
      <3>. HIDE DEF new
      <3>. QED BY <2>2, <2>3
    <2>5. ASSUME NEW k \in 1..m + 1 PROVE Turn(g, k)
      <3>1. CASE k = m + 1 /\ m = 0
        BY <2>2, <3>1
      <3>2. CASE k = m + 1 /\ m # 0
        <4>1. g[k] = f[m] \o seqs[m + 1]
          BY <2>2, <3>2
        <4>2. k # 1 /\ k - 1 \in 1..m + 1 /\ k - 1 # m + 1 /\ k - 1 = m
          BY <2>2, <3>2
        <4>3. g[k - 1] = f[m]
          BY <4>2
        <4>. HIDE DEF g
        <4>. QED BY <3>2, <4>1, <4>2, <4>3
      <3>3. CASE k # m + 1
        <4>1. k \in 1..m /\ g[k] = f[k]
          BY <2>2, <3>3
        <4>2. CASE k = 1
          <5>1. f[k] = seqs[k]
            BY <2>1, <4>1, <4>2
          <5>. QED BY <4>1, <4>2, <5>1
        <4>3. CASE k # 1
          <5>1. f[k] = f[k - 1] \o seqs[k]
            BY <2>1, <4>1, <4>3
          <5>2. k - 1 \in 1..m + 1 /\ k - 1 # m + 1
            BY <2>2, <4>1, <4>3
          <5>3. g[k - 1] = f[k - 1]
            BY <5>2
          <5>. HIDE DEF g
          <5>. QED BY <4>1, <4>3, <5>1, <5>3
        <4>. QED BY <4>2, <4>3
      <3>. QED BY <3>1, <3>2, <3>3
    <2>. HIDE DEF g, Turn
    <2>6. \E h \in [1..m + 1 -> Seq(S)] : \A k \in 1..m + 1 : Turn(h, k)
      <3>1. \A k \in 1..m + 1 : Turn(g, k)
        BY <2>5
      <3>. QED BY <2>4, <3>1, Zenon
    <2>7. m + 1 \in Nat
      BY <2>2
    <2>. QED BY <2>6, <2>7
  <1>3. T \in SUBSET Nat
    OBVIOUS
  <1>. HIDE DEF T, n
  <1>4. \A k \in 0..n : k \in T
    BY <1>0, <1>1, <1>2, <1>3, Upward
  <1>5. n \in T
    BY <1>0, <1>4
  <1>. USE DEF T, n
  <1>6. PICK f \in [1..n -> Seq(S)] : \A k \in 1..n : Turn(f, k)
    BY <1>5
  <1>7. f = [k \in 1..n |-> f[k]]
    BY <1>6
  <1>8. [k \in 1..n |-> f[k]] = [k \in 1..n |-> IF k = 1 THEN seqs[k] ELSE f[k - 1] \o seqs[k]]
    BY <1>6
  <1>9. Flattened(seqs, f)
    BY <1>7, <1>8 DEF Flattened
  <1>. QED BY <1>6, <1>9

\* Nothing makes nothing,
LEMMA FlattenNone == FlattenSeq(<<>>) = <<>>
  BY DEF FlattenSeq

\* sequences make a sequence, and one more comes at the end.
LEMMA FlattenAppend ==
  ASSUME NEW S, NEW seqs \in Seq(Seq(S)), NEW x \in Seq(S)
  PROVE  /\ FlattenSeq(seqs) \in Seq(S)
         /\ FlattenSeq(Append(seqs, x)) = FlattenSeq(seqs) \o x
  <1>. DEFINE n == Len(seqs)  more == Append(seqs, x)
  <1>1. /\ n \in Nat /\ more \in Seq(Seq(S)) /\ Len(more) = n + 1
        /\ more[n + 1] = x /\ \A k \in 1..n : more[k] = seqs[k] /\ seqs[k] \in Seq(S)
    OBVIOUS
  <1>2. PICK f \in [1..n -> Seq(S)] : Flattened(seqs, f)
    BY FlattenTurns
  <1>3. \A k \in 1..n : f[k] = IF k = 1 THEN seqs[k] ELSE f[k - 1] \o seqs[k]
    <2>1. f = [k \in 1..n |-> IF k = 1 THEN seqs[k] ELSE f[k - 1] \o seqs[k]]
      BY <1>2 DEF Flattened
    <2>. HIDE DEF n
    <2>. QED BY <2>1
  <1>. DEFINE whole == IF n = 0 THEN <<>> ELSE f[n]
  <1>4. FlattenSeq(seqs) = whole
    <2>1. CASE n = 0
      <3>1. seqs = <<>>
        BY <2>1
      <3>. QED BY <2>1, <3>1, FlattenNone
    <2>2. CASE n # 0
      <3>1. n > 0
        BY <1>1, <2>2
      <3>2. seqs \in Seq(Seq(S))
        OBVIOUS
      <3>3. FlattenSeq(seqs) = f[n]
        BY <1>2, <3>1, <3>2, FlattenIs
      <3>. QED BY <2>2, <3>3
    <2>. QED BY <2>1, <2>2
  <1>5. whole \in Seq(S)
    <2>1. CASE n = 0
      BY <2>1
    <2>2. CASE n # 0
      <3>1. n \in 1..n
        BY <1>1, <2>2
      <3>2. f[n] \in Seq(S)
        BY <1>2, <3>1
      <3>. QED BY <2>2, <3>2
    <2>. QED BY <2>1, <2>2
  <1>6. whole \o x \in Seq(S)
    BY <1>5, ConcatProperties
  <1>. DEFINE g == [k \in 1..n + 1 |-> IF k = n + 1 THEN whole \o x ELSE f[k]]
  <1>7. Flattened(more, g)
    <2>1. ASSUME NEW k \in 1..n + 1
          PROVE  g[k] = IF k = 1 THEN more[k] ELSE g[k - 1] \o more[k]
      <3>. HIDE DEF n, more
      <3>1. CASE k = n + 1 /\ n = 0
        <4>1. g[k] = whole \o x /\ whole = <<>> /\ more[k] = x
          BY <1>1, <3>1
        <4>2. <<>> \o x = x
          BY ConcatEmptySeq
        <4>3. k = 1
          BY <3>1
        <4>. HIDE DEF g, whole
        <4>. QED BY <4>1, <4>2, <4>3
      <3>2. CASE k = n + 1 /\ n # 0
        <4>1. g[k] = whole \o x /\ whole = f[n] /\ more[k] = x
          BY <1>1, <3>2
        <4>2. k # 1 /\ k - 1 \in 1..n + 1 /\ k - 1 # n + 1 /\ k - 1 = n
          BY <1>1, <3>2
        <4>3. g[k - 1] = f[n]
          BY <4>2
        <4>. HIDE DEF g, whole
        <4>. QED BY <4>1, <4>2, <4>3
      <3>3. CASE k # n + 1
        <4>1. k \in 1..n /\ g[k] = f[k] /\ more[k] = seqs[k]
          BY <1>1, <3>3
        <4>2. CASE k = 1
          <5>1. f[k] = seqs[k]
            BY <1>3, <4>1, <4>2
          <5>. QED BY <4>1, <4>2, <5>1
        <4>3. CASE k # 1
          <5>1. f[k] = f[k - 1] \o seqs[k]
            BY <1>3, <4>1, <4>3
          <5>2. k - 1 \in 1..n + 1 /\ k - 1 # n + 1
            BY <1>1, <4>1, <4>3
          <5>3. g[k - 1] = f[k - 1]
            BY <5>2
          <5>. HIDE DEF g
          <5>. QED BY <4>1, <4>3, <5>1, <5>3
        <4>. QED BY <4>2, <4>3
      <3>. QED BY <3>1, <3>2, <3>3
    <2>2. g = [k \in 1..n + 1 |-> g[k]]
      OBVIOUS
    <2>3. [k \in 1..n + 1 |-> g[k]] = [k \in 1..n + 1 |-> IF k = 1 THEN more[k] ELSE g[k - 1] \o more[k]]
      <3>. HIDE DEF g, more, n
      <3>. QED BY <2>1
    <2>. HIDE DEF g, more
    <2>. QED BY <1>1, <2>2, <2>3 DEF Flattened
  <1>8. g[n + 1] = whole \o x
    <2>. HIDE DEF n
    <2>. QED BY <1>1
  <1>. HIDE DEF g, more
  <1>9. Len(more) > 0
    BY <1>1
  <1>10. FlattenSeq(more) = g[Len(more)]
    BY <1>1, <1>7, <1>9, FlattenIs
  <1>11. FlattenSeq(more) = whole \o x
    <2>. HIDE DEF n, whole
    <2>. QED BY <1>1, <1>8, <1>10
  <1>. QED BY <1>4, <1>5, <1>11 DEF more

\* A beginning that is longer by one.
LEMMA LongerByOne ==
  ASSUME NEW S, NEW s \in Seq(S), NEW m \in 0..Len(s) - 1
  PROVE  /\ SubSeq(s, 1, m) \in Seq(S) /\ Len(SubSeq(s, 1, m)) = m
         /\ s[m + 1] \in S
         /\ SubSeq(s, 1, m + 1) = Append(SubSeq(s, 1, m), s[m + 1])
  <1>1. m \in Nat /\ Len(s) \in Nat /\ m + 1 \in 1..Len(s) /\ \A i \in 1..Len(s) : s[i] \in S
    OBVIOUS
  <1>2. SubSeq(s, 1, m) = [i \in 1..m |-> s[i]] /\ SubSeq(s, 1, m + 1) = [i \in 1..m + 1 |-> s[i]]
    BY <1>1
  <1>3. SubSeq(s, 1, m) \in Seq(S) /\ Len(SubSeq(s, 1, m)) = m
    BY <1>1, <1>2
  <1>4. SubSeq(s, 1, m + 1) = Append(SubSeq(s, 1, m), s[m + 1])
    BY <1>1, <1>2
  <1>. QED BY <1>1, <1>3, <1>4

\* What two sequences of sequences make comes one after the other.
LEMMA FlattenBoth ==
  ASSUME NEW S, NEW s \in Seq(Seq(S)), NEW t \in Seq(Seq(S))
  PROVE  FlattenSeq(s \o t) = FlattenSeq(s) \o FlattenSeq(t)
  <1>. DEFINE part(m) == SubSeq(t, 1, m)
              T == {m \in Nat : FlattenSeq(s \o part(m)) = FlattenSeq(s) \o FlattenSeq(part(m))}
  <1>0. FlattenSeq(s) \in Seq(S)
    <2>1. <<>> \in Seq(S)
      OBVIOUS
    <2>. QED BY <2>1, FlattenAppend
  <1>a. \A u, v, x \in Seq(S) : (u \o v) \o x = u \o (v \o x)
    BY ConcatAssociative
  <1>1. 0 \in T
    <2>1. part(0) = <<>> /\ s \o <<>> = s
      OBVIOUS
    <2>2. FlattenSeq(s) \o <<>> = FlattenSeq(s)
      BY <1>0, ConcatEmptySeq
    <2>. QED BY <2>1, <2>2, FlattenNone
  <1>2. ASSUME NEW m \in 0..Len(t) - 1, m \in T PROVE m + 1 \in T
    <2>1. part(m) \in Seq(Seq(S)) /\ t[m + 1] \in Seq(S) /\ part(m + 1) = Append(part(m), t[m + 1])
      BY LongerByOne
    <2>2. FlattenSeq(s \o part(m)) = FlattenSeq(s) \o FlattenSeq(part(m))
      BY <1>2
    <2>3. m + 1 \in Nat
      OBVIOUS
    <2>. DEFINE p == part(m)  x == t[m + 1]  q == part(m + 1)
    <2>. HIDE DEF p, x, q
    <2>4. s \o p \in Seq(Seq(S)) /\ s \o Append(p, x) = Append(s \o p, x)
      BY <2>1 DEF p, x
    <2>5. FlattenSeq(Append(s \o p, x)) = FlattenSeq(s \o p) \o x
      BY <2>1, <2>4, FlattenAppend DEF x
    <2>6. FlattenSeq(p) \in Seq(S) /\ FlattenSeq(Append(p, x)) = FlattenSeq(p) \o x
      BY <2>1, FlattenAppend DEF p, x
    <2>7. (FlattenSeq(s) \o FlattenSeq(p)) \o x = FlattenSeq(s) \o (FlattenSeq(p) \o x)
      <3>1. x \in Seq(S)
        BY <2>1 DEF x
      <3>. DEFINE u == FlattenSeq(s)  v == FlattenSeq(p)
      <3>2. u \in Seq(S) /\ v \in Seq(S)
        BY <1>0, <2>6
      <3>. HIDE DEF u, v
      <3>3. (u \o v) \o x = u \o (v \o x)
        BY <1>a, <3>1, <3>2, Zenon
      <3>. QED BY <3>3 DEF u, v
    <2>8. q = Append(p, x)
      BY <2>1 DEF p, q, x
    <2>9. FlattenSeq(s \o q) = FlattenSeq(s) \o FlattenSeq(q)
      BY <2>2, <2>4, <2>5, <2>6, <2>7, <2>8 DEF p
    <2>. QED BY <2>3, <2>9 DEF q
  <1>3. T \in SUBSET Nat /\ Len(t) \in Nat
    OBVIOUS
  <1>. HIDE DEF T
  <1>4. \A k \in 0..Len(t) : k \in T
    BY <1>1, <1>2, <1>3, Upward
  <1>5. Len(t) \in T
    BY <1>3, <1>4
  <1>6. FlattenSeq(s \o part(Len(t))) = FlattenSeq(s) \o FlattenSeq(part(Len(t)))
    BY <1>5 DEF T
  <1>7. part(Len(t)) = t
    OBVIOUS
  <1>. QED BY <1>6, <1>7

\* Where the sequences lie in what they make: the k-th ends at at[k].
Layout(seqs, whole, at) ==
  /\ at \in [0..Len(seqs) -> Nat] /\ at[0] = 0 /\ at[Len(seqs)] = Len(whole)
  /\ \A k \in 1..Len(seqs) : at[k] = at[k - 1] + Len(seqs[k])
  /\ \A k \in 1..Len(seqs) : \A j \in 1..Len(seqs[k]) : whole[at[k - 1] + j] = seqs[k][j]

\* The ends are in order.
LEMMA LayoutOrder ==
  ASSUME NEW S, NEW seqs \in Seq(Seq(S)), NEW whole, NEW at, Layout(seqs, whole, at)
  PROVE  \A i, j \in 0..Len(seqs) : i <= j => at[i] <= at[j]
  <1>. DEFINE n == Len(seqs)
  <1>1. n \in Nat /\ \A k \in 1..n : Len(seqs[k]) \in Nat
    OBVIOUS
  <1>3. /\ at \in [0..n -> Nat] /\ at[0] = 0
        /\ \A k \in 1..n : at[k] = at[k - 1] + Len(seqs[k])
    BY DEF Layout
  <1>. HIDE DEF n
  <1>9. \A i, j \in 0..n : i <= j => at[i] <= at[j]
    <2>. SUFFICES ASSUME NEW i \in 0..n PROVE \A j \in 0..n : i <= j => at[i] <= at[j]
      OBVIOUS
    <2>. DEFINE T == {j \in Nat : i <= j => at[i] <= at[j]}
    <2>1. 0 \in T
      <3>1. i <= 0 => at[i] = at[0]
        BY <1>1
      <3>. QED BY <1>3, <3>1
    <2>2. ASSUME NEW j \in 0..n - 1, j \in T PROVE j + 1 \in T
      <3>1. j \in 0..n /\ j + 1 \in 1..n /\ (j + 1) - 1 = j /\ j + 1 \in Nat
        BY <1>1
      <3>2. at[j + 1] = at[j] + Len(seqs[j + 1]) /\ Len(seqs[j + 1]) \in Nat
        BY <1>1, <1>3, <3>1
      <3>3. at[i] \in Nat /\ at[j] \in Nat
        BY <1>3, <3>1
      <3>4. CASE i <= j
        <4>1. at[i] <= at[j]
          BY <2>2, <3>4
        <4>2. at[i] <= at[j + 1]
          BY <3>2, <3>3, <4>1
        <4>. QED BY <3>1, <4>2
      <3>5. CASE i = j + 1
        <4>1. at[i] <= at[j + 1]
          BY <3>2, <3>3, <3>5
        <4>. QED BY <3>1, <4>1
      <3>6. CASE i > j + 1
        BY <3>1, <3>6
      <3>7. i <= j \/ i = j + 1 \/ i > j + 1
        BY <3>1
      <3>. QED BY <3>4, <3>5, <3>6, <3>7
    <2>3. T \in SUBSET Nat
      OBVIOUS
    <2>. HIDE DEF T
    <2>4. \A j \in 0..n : j \in T
      BY <1>1, <2>1, <2>2, <2>3, Upward
    <2>. QED BY <2>4 DEF T
  <1>. QED BY <1>9 DEF n

\* One more sequence lies behind the others.
LEMMA LayoutAppend ==
  ASSUME NEW S, NEW seqs \in Seq(Seq(S)), NEW whole \in Seq(S), NEW at,
         Layout(seqs, whole, at), NEW x \in Seq(S)
  PROVE  \E more : /\ Layout(Append(seqs, x), whole \o x, more)
                   /\ \A k \in 0..Len(seqs) : more[k] = at[k]
  <1>. DEFINE n == Len(seqs)  all == Append(seqs, x)  longer == whole \o x
              more == [k \in 0..n + 1 |-> IF k = n + 1 THEN at[n] + Len(x) ELSE at[k]]
  <1>1. /\ n \in Nat /\ Len(all) = n + 1 /\ all[n + 1] = x
        /\ \A k \in 1..n : all[k] = seqs[k] /\ Len(seqs[k]) \in Nat
        /\ Len(x) \in Nat
    OBVIOUS
  <1>2. /\ Len(longer) = Len(whole) + Len(x)
        /\ \A i \in 1..Len(whole) : longer[i] = whole[i]
        /\ \A i \in 1..Len(x) : longer[Len(whole) + i] = x[i]
    OBVIOUS
  <1>3. /\ at \in [0..n -> Nat] /\ at[0] = 0 /\ at[n] = Len(whole)
        /\ \A k \in 1..n : at[k] = at[k - 1] + Len(seqs[k])
        /\ \A k \in 1..n : \A j \in 1..Len(seqs[k]) : whole[at[k - 1] + j] = seqs[k][j]
    BY DEF Layout
  <1>. HIDE DEF n, all, longer
  <1>4. \A k \in 0..n : more[k] = at[k]
    BY <1>1
  <1>5. more[n + 1] = at[n] + Len(x)
    BY <1>1
  <1>6. more \in [0..n + 1 -> Nat]
    BY <1>1, <1>3
  <1>. HIDE DEF more
  <1>7. more[0] = 0 /\ more[n + 1] = Len(longer)
    BY <1>1, <1>2, <1>3, <1>4, <1>5
  <1>8. ASSUME NEW k \in 1..n + 1 PROVE more[k] = more[k - 1] + Len(all[k])
    <2>1. CASE k = n + 1
      BY <1>1, <1>4, <1>5, <2>1
    <2>2. CASE k # n + 1
      <3>1. k \in 1..n /\ k - 1 \in 0..n /\ k \in 0..n
        BY <1>1, <2>2
      <3>2. more[k] = at[k] /\ more[k - 1] = at[k - 1] /\ all[k] = seqs[k]
        BY <1>1, <1>4, <3>1
      <3>. QED BY <1>3, <3>1, <3>2
    <2>. QED BY <2>1, <2>2
  <1>9. \A i, j \in 0..n : i <= j => at[i] <= at[j]
    BY LayoutOrder DEF n
  <1>10. ASSUME NEW k \in 1..n + 1, NEW j \in 1..Len(all[k])
         PROVE  longer[more[k - 1] + j] = all[k][j]
    <2>1. CASE k = n + 1
      <3>1. k - 1 = n /\ n \in 0..n
        BY <1>1, <2>1
      <3>2. more[k - 1] = Len(whole) /\ all[k] = x
        BY <1>1, <1>3, <1>4, <2>1, <3>1
      <3>3. longer[Len(whole) + j] = x[j]
        BY <1>2, <3>2
      <3>. QED BY <3>2, <3>3
    <2>2. CASE k # n + 1
      <3>1. k \in 1..n /\ k - 1 \in 0..n /\ k \in 0..n /\ n \in 0..n /\ k <= n
        BY <1>1, <2>2
      <3>2. more[k - 1] = at[k - 1] /\ all[k] = seqs[k]
        BY <1>1, <1>4, <3>1
      <3>3. whole[at[k - 1] + j] = seqs[k][j]
        BY <1>3, <3>1, <3>2
      <3>4. at[k] <= at[n] /\ at[k] = at[k - 1] + Len(seqs[k]) /\ Len(seqs[k]) \in Nat /\ at[k - 1] \in Nat
        BY <1>1, <1>3, <1>9, <3>1
      <3>5. at[k - 1] + j \in 1..Len(whole)
        <4>1. j \in 1..Len(seqs[k]) /\ at[n] = Len(whole)
          BY <1>3, <3>2
        <4>. QED BY <3>4, <4>1
      <3>6. longer[at[k - 1] + j] = whole[at[k - 1] + j]
        BY <1>2, <3>5
      <3>. QED BY <3>2, <3>3, <3>6
    <2>. QED BY <2>1, <2>2
  <1>11. Layout(all, longer, more)
    BY <1>1, <1>6, <1>7, <1>8, <1>10 DEF Layout
  <1>. QED BY <1>4, <1>11 DEF all, longer, n

\* No sequence makes nothing.
LEMMA LayoutNone == Layout(<<>>, <<>>, [k \in 0..0 |-> 0])
  <1>. DEFINE at == [k \in 0..0 |-> 0]
  <1>1. at \in [0..0 -> Nat] /\ at[0] = 0 /\ Len(<<>>) = 0
    OBVIOUS
  <1>. HIDE DEF at
  <1>2. Layout(<<>>, <<>>, at)
    BY <1>1 DEF Layout
  <1>. QED BY <1>2 DEF at

\* Every sequence of sequences has its layout.
LEMMA FlattenLayout ==
  ASSUME NEW S, NEW seqs \in Seq(Seq(S))
  PROVE  \E at : Layout(seqs, FlattenSeq(seqs), at)
  <1>. DEFINE part(m) == SubSeq(seqs, 1, m)
              T == {m \in Nat : \E at : Layout(part(m), FlattenSeq(part(m)), at)}
  <1>1. 0 \in T
    <2>1. part(0) = <<>>
      OBVIOUS
    <2>2. \E at : Layout(part(0), FlattenSeq(part(0)), at)
      BY <2>1, FlattenNone, LayoutNone
    <2>. QED BY <2>2
  <1>2. ASSUME NEW m \in 0..Len(seqs) - 1, m \in T PROVE m + 1 \in T
    <2>1. part(m) \in Seq(Seq(S)) /\ seqs[m + 1] \in Seq(S) /\ part(m + 1) = Append(part(m), seqs[m + 1])
      BY LongerByOne
    <2>2. PICK at : Layout(part(m), FlattenSeq(part(m)), at)
      BY <1>2
    <2>. DEFINE p == part(m)  x == seqs[m + 1]  q == part(m + 1)
    <2>3. p \in Seq(Seq(S)) /\ x \in Seq(S) /\ q = Append(p, x) /\ Layout(p, FlattenSeq(p), at)
      BY <2>1, <2>2
    <2>. HIDE DEF p, x, q
    <2>4. FlattenSeq(p) \in Seq(S) /\ FlattenSeq(Append(p, x)) = FlattenSeq(p) \o x
      BY <2>3, FlattenAppend
    <2>5. \E more : Layout(Append(p, x), FlattenSeq(p) \o x, more)
      <3>. DEFINE w == FlattenSeq(p)
      <3>1. w \in Seq(S) /\ Layout(p, w, at)
        BY <2>3, <2>4
      <3>. HIDE DEF w
      <3>2. \E more : Layout(Append(p, x), w \o x, more)
        BY <2>3, <3>1, LayoutAppend
      <3>. QED BY <3>2 DEF w
    <2>6. \E more : Layout(q, FlattenSeq(q), more)
      BY <2>3, <2>4, <2>5
    <2>7. m + 1 \in Nat
      OBVIOUS
    <2>. QED BY <2>6, <2>7 DEF q
  <1>3. T \in SUBSET Nat /\ Len(seqs) \in Nat
    OBVIOUS
  <1>. HIDE DEF T
  <1>4. \A k \in 0..Len(seqs) : k \in T
    BY <1>1, <1>2, <1>3, Upward
  <1>5. Len(seqs) \in T
    BY <1>3, <1>4
  <1>6. \E at : Layout(part(Len(seqs)), FlattenSeq(part(Len(seqs))), at)
    BY <1>5 DEF T
  <1>7. part(Len(seqs)) = seqs
    OBVIOUS
  <1>. QED BY <1>6, <1>7

\* Sequences that are not empty end at different places.
LEMMA LayoutSpread ==
  ASSUME NEW S, NEW seqs \in Seq(Seq(S)), NEW whole, NEW at, Layout(seqs, whole, at),
         \A k \in 1..Len(seqs) : seqs[k] # <<>>
  PROVE  \A i, j \in 0..Len(seqs) : i <= j => at[j] - at[i] >= j - i
  <1>. DEFINE n == Len(seqs)
  <1>1. n \in Nat /\ \A k \in 1..n : Len(seqs[k]) \in Nat \ {0}
    OBVIOUS
  <1>2. /\ at \in [0..n -> Nat]
        /\ \A k \in 1..n : at[k] = at[k - 1] + Len(seqs[k])
    BY DEF Layout
  <1>. HIDE DEF n
  <1>3. SUFFICES ASSUME NEW i \in 0..n PROVE \A j \in 0..n : i <= j => at[j] - at[i] >= j - i
    BY DEF n
  <1>. DEFINE T == {j \in Nat : i <= j => at[j] - at[i] >= j - i}
  <1>4. 0 \in T
    <2>1. i <= 0 => at[i] = at[0] /\ i = 0
      BY <1>1
    <2>2. at[0] \in Nat
      BY <1>1, <1>2
    <2>. QED BY <2>1, <2>2
  <1>5. ASSUME NEW j \in 0..n - 1, j \in T PROVE j + 1 \in T
    <2>1. j \in 0..n /\ j + 1 \in 1..n /\ (j + 1) - 1 = j /\ j + 1 \in Nat
      BY <1>1
    <2>2. at[j + 1] = at[j] + Len(seqs[j + 1]) /\ Len(seqs[j + 1]) \in Nat \ {0}
      BY <1>1, <1>2, <2>1
    <2>3. at[i] \in Nat /\ at[j] \in Nat
      BY <1>2, <2>1
    <2>4. CASE i <= j
      <3>1. at[j] - at[i] >= j - i
        BY <1>5, <2>4
      <3>. DEFINE a == at[i]  b == at[j]  l == Len(seqs[j + 1])
      <3>2. a \in Nat /\ b \in Nat /\ l \in Nat \ {0} /\ b - a >= j - i /\ i \in Nat /\ j \in Nat
        BY <1>1, <2>1, <2>2, <2>3, <3>1
      <3>. HIDE DEF a, b, l
      <3>3. (b + l) - a >= (j + 1) - i
        BY <3>2
      <3>4. at[j + 1] - at[i] >= (j + 1) - i
        BY <2>2, <3>3 DEF a, b, l
      <3>. QED BY <2>1, <3>4
    <2>5. CASE i = j + 1
      <3>1. at[j + 1] - at[i] >= (j + 1) - i
        BY <2>2, <2>3, <2>5
      <3>. QED BY <2>1, <3>1
    <2>6. CASE i > j + 1
      BY <2>1, <2>6
    <2>7. i <= j \/ i = j + 1 \/ i > j + 1
      BY <2>1
    <2>. QED BY <2>4, <2>5, <2>6, <2>7
  <1>6. T \in SUBSET Nat
    OBVIOUS
  <1>. HIDE DEF T
  <1>7. \A j \in 0..n : j \in T
    BY <1>1, <1>4, <1>5, <1>6, Upward
  <1>. QED BY <1>7 DEF T

-----------------------------------------------------------------------------
\* What is quoted is read as it was.

\* The bytes that may stand in a literal: all but the ends of a line.
InLine == Bytes \ {"\n", "\r"}

\* The bytes of the syntax.
LEMMA Syntax ==
  /\ {"'", "\\", "/", "[", "]", ",", "b", "f", "n", "r", "t", "u", "0", "1", "8", "c"} \subseteq InLine
  /\ {"\n", "\r", "\t", "^A", "^H", "^L"} \subseteq Bytes
  /\ InLine \subseteq Bytes
  BY SyntaxAssumption DEF InLine

\* What an escape looks like.
LEMMA EscapeForms ==
  ASSUME NEW c
  PROVE  /\ c \in DOMAIN Short => Escape(c) = <<"\\", Short[c]>>
         /\ c \in DOMAIN Code => Escape(c) = <<"\\", "u", "0", "0", "0", Code[c][4]>>
         /\ c \notin DOMAIN Short /\ c \notin DOMAIN Code => Escape(c) = <<c>>
  <1>1. c \in DOMAIN Short => Escape(c) = <<"\\", Short[c]>>
    BY DEF Escape
  <1>2. c \notin DOMAIN Short /\ c \notin DOMAIN Code => Escape(c) = <<c>>
    BY DEF Escape
  <1>3. ASSUME c \in DOMAIN Code PROVE Escape(c) = <<"\\", "u", "0", "0", "0", Code[c][4]>>
    <2>1. c \notin DOMAIN Short
      BY <1>3 DEF Short, Code
    <2>2. Escape(c) = <<"\\", "u">> \o Code[c]
      BY <1>3, <2>1 DEF Escape
    <2>. DEFINE d == IF c = "^A" THEN "1" ELSE IF c = "^H" THEN "8" ELSE "c"
    <2>3. Code[c] = <<"0", "0", "0", d>>
      BY <1>3 DEF Code
    <2>. HIDE DEF d
    <2>4. Code[c][4] = d
      BY <2>3
    <2>5. <<"\\", "u">> \o <<"0", "0", "0", d>> = <<"\\", "u", "0", "0", "0", d>>
      <3>. DEFINE a == <<"\\", "u">>  b == <<"0", "0", "0", d>>
      <3>1. a \o b = [i \in 1..6 |-> IF i <= 2 THEN a[i] ELSE b[i - 2]]
        OBVIOUS
      <3>. DEFINE e == <<"\\", "u", "0", "0", "0", d>>
      <3>2. ASSUME NEW i \in 1..6 PROVE (IF i <= 2 THEN a[i] ELSE b[i - 2]) = e[i]
        <4>1. i = 1 \/ i = 2 \/ i = 3 \/ i = 4 \/ i = 5 \/ i = 6
          OBVIOUS
        <4>. QED BY <4>1
      <3>3. e = [i \in 1..6 |-> e[i]]
        OBVIOUS
      <3>. HIDE DEF a, b, e
      <3>4. a \o b = e
        BY <3>1, <3>2, <3>3
      <3>. QED BY <3>4 DEF a, b, e
    <2>. QED BY <2>2, <2>3, <2>4, <2>5
  <1>. QED BY <1>1, <1>2, <1>3

\* An escape is not empty and has no end of a line in it,
LEMMA EscapeType ==
  ASSUME NEW c \in Bytes
  PROVE  Escape(c) \in Seq(InLine) /\ Len(Escape(c)) > 0
  <1>1. CASE c \in DOMAIN Short
    <2>1. Short[c] \in InLine
      BY <1>1, Syntax DEF Short
    <2>2. Escape(c) = <<"\\", Short[c]>>
      BY <1>1, EscapeForms
    <2>3. "\\" \in InLine
      BY Syntax
    <2>. DEFINE d == Short[c]
    <2>. HIDE DEF d
    <2>4. d \in InLine => <<"\\", d>> \in Seq(InLine)
      BY <2>3
    <2>5. Len(<<"\\", d>>) = 2
      OBVIOUS
    <2>. QED BY <2>1, <2>2, <2>4, <2>5 DEF d
  <1>2. CASE c \in DOMAIN Code
    <2>1. Code[c][4] \in InLine
      BY <1>2, Syntax DEF Code
    <2>2. Escape(c) = <<"\\", "u", "0", "0", "0", Code[c][4]>>
      BY <1>2, EscapeForms
    <2>3. "\\" \in InLine /\ "u" \in InLine /\ "0" \in InLine
      BY Syntax
    <2>. DEFINE d == Code[c][4]
    <2>. HIDE DEF d
    <2>4. d \in InLine => <<"\\", "u", "0", "0", "0", d>> \in Seq(InLine)
      BY <2>3
    <2>5. Len(<<"\\", "u", "0", "0", "0", d>>) = 6
      OBVIOUS
    <2>. QED BY <2>1, <2>2, <2>4, <2>5 DEF d
  <1>3. CASE c \notin DOMAIN Short /\ c \notin DOMAIN Code
    <2>1. c \in InLine
      BY <1>3 DEF Short, InLine
    <2>2. Escape(c) = <<c>>
      BY <1>3, EscapeForms
    <2>. QED BY <2>1, <2>2
  <1>. QED BY <1>1, <1>2, <1>3

\* and so is JavaScript's.
LEMMA JsEscapeType ==
  ASSUME NEW c \in Bytes
  PROVE  JsEscape(c) \in Seq(InLine) /\ Len(JsEscape(c)) > 0
  <1>1. CASE c = "^H"
    <2>1. JsEscape(c) = <<"\\", "b">>
      BY <1>1 DEF JsEscape
    <2>2. "\\" \in InLine /\ "b" \in InLine
      BY Syntax
    <2>. QED BY <2>1, <2>2
  <1>2. CASE c = "^L"
    <2>1. JsEscape(c) = <<"\\", "f">>
      BY <1>2 DEF JsEscape
    <2>2. "\\" \in InLine /\ "f" \in InLine
      BY Syntax
    <2>. QED BY <2>1, <2>2
  <1>3. CASE c # "^H" /\ c # "^L"
    <2>1. JsEscape(c) = Escape(c)
      BY <1>3 DEF JsEscape
    <2>. QED BY <2>1, EscapeType
  <1>. QED BY <1>1, <1>2, <1>3

\* A string of which o has been read, up to p.
Reading(p, o) == Reader(p, o, "reading")

\* What a reader is made of.
LEMMA ReaderFields ==
  ASSUME NEW p \in Nat, NEW o \in Seq(Bytes), NEW st \in {"reading", "read", "failed"}
  PROVE  /\ Reader(p, o, st) \in Readers
         /\ Reader(p, o, st).pos = p /\ Reader(p, o, st).out = o /\ Reader(p, o, st).state = st
  BY DEF Reader, Readers

\* One turn reads an ordinary byte,
LEMMA ReadPlain ==
  ASSUME NEW s, NEW p \in Nat, NEW o \in Seq(Bytes), Len(s) \in Nat, p <= Len(s),
         s[p] # "'", s[p] # "\\"
  PROVE  ReadOnce(s)[Reading(p, o)] = Reading(p + 1, Append(o, s[p]))
  <1>. DEFINE r == Reading(p, o)
  <1>1. r \in Readers /\ r.pos = p /\ r.out = o /\ r.state = "reading"
    BY ReaderFields DEF Reading
  <1>. HIDE DEF r
  <1>2. ~(r.pos > Len(s)) /\ s[r.pos] # "'" /\ s[r.pos] # "\\"
    BY <1>1
  <1>3. ReadOnce(s)[r] = Reader(r.pos + 1, Append(r.out, s[r.pos]), "reading")
    BY <1>1, <1>2 DEF ReadOnce
  <1>. QED BY <1>1, <1>3 DEF r, Reading

\* an escape of one letter,
LEMMA ReadLetter ==
  ASSUME NEW s, NEW p \in Nat, NEW o \in Seq(Bytes), Len(s) \in Nat, p + 1 <= Len(s),
         s[p] = "\\", s[p + 1] \in DOMAIN Letter
  PROVE  ReadOnce(s)[Reading(p, o)] = Reading(p + 2, Append(o, Letter[s[p + 1]]))
  <1>. DEFINE r == Reading(p, o)
  <1>1. r \in Readers /\ r.pos = p /\ r.out = o /\ r.state = "reading"
    BY ReaderFields DEF Reading
  <1>. HIDE DEF r
  <1>2. ~(r.pos > Len(s)) /\ r.pos + 1 <= Len(s) /\ s[r.pos] = "\\" /\ s[r.pos + 1] \in DOMAIN Letter
    BY <1>1
  <1>3. ReadOnce(s)[r] = Reader(r.pos + 2, Append(r.out, Letter[s[r.pos + 1]]), "reading")
    BY <1>1, <1>2 DEF ReadOnce
  <1>. QED BY <1>1, <1>3 DEF r, Reading

\* an escape of four digits,
LEMMA ReadCode ==
  ASSUME NEW s, NEW p \in Nat, NEW o \in Seq(Bytes), Len(s) \in Nat, p + 5 <= Len(s),
         s[p] = "\\", s[p + 1] = "u", NEW c \in DOMAIN Code, SubSeq(s, p + 2, p + 5) = Code[c]
  PROVE  ReadOnce(s)[Reading(p, o)] = Reading(p + 6, Append(o, c))
  <1>. DEFINE r == Reading(p, o)
  <1>1. r \in Readers /\ r.pos = p /\ r.out = o /\ r.state = "reading"
    BY ReaderFields DEF Reading
  <1>. HIDE DEF r
  <1>2. /\ ~(r.pos > Len(s)) /\ r.pos + 5 <= Len(s) /\ s[r.pos] = "\\" /\ s[r.pos + 1] = "u"
        /\ \E a \in DOMAIN Code : Code[a] = SubSeq(s, r.pos + 2, r.pos + 5)
    BY <1>1
  <1>3. s[r.pos + 1] \notin DOMAIN Letter
    BY <1>2 DEF Letter
  <1>. DEFINE b == CHOOSE b \in DOMAIN Code : Code[b] = SubSeq(s, r.pos + 2, r.pos + 5)
  <1>4. ReadOnce(s)[r] = Reader(r.pos + 6, Append(r.out, b), "reading")
    BY <1>1, <1>2, <1>3 DEF ReadOnce
  <1>5. b = c
    <2>1. b \in DOMAIN Code /\ Code[b] = Code[c]
      BY <1>1, <1>2
    <2>. HIDE DEF b
    <2>2. Code[b][4] = Code[c][4]
      BY <2>1
    <2>3. \A a \in DOMAIN Code : Code[a][4] = IF a = "^A" THEN "1" ELSE IF a = "^H" THEN "8" ELSE "c"
      BY DEF Code
    <2>4. DOMAIN Code = {"^A", "^H", "^L"}
      BY DEF Code
    <2>. QED BY <2>1, <2>2, <2>3, <2>4
  <1>. HIDE DEF b
  <1>. QED BY <1>1, <1>4, <1>5 DEF r, Reading

\* or the closing quote, after which nothing more is read.
LEMMA ReadClosing ==
  ASSUME NEW s, NEW p \in Nat, NEW o \in Seq(Bytes), Len(s) \in Nat, p <= Len(s), s[p] = "'"
  PROVE  LET done == Reader(p + 1, o, "read") IN
         ReadOnce(s)[Reading(p, o)] = done /\ ReadOnce(s)[done] = done
  <1>. DEFINE r == Reading(p, o)  done == Reader(p + 1, o, "read")
  <1>1. r \in Readers /\ r.pos = p /\ r.out = o /\ r.state = "reading"
    BY ReaderFields DEF Reading
  <1>2. done \in Readers /\ done.state = "read"
    BY ReaderFields
  <1>. HIDE DEF r, done
  <1>3. ~(r.pos > Len(s)) /\ s[r.pos] = "'"
    BY <1>1
  <1>4. ReadOnce(s)[r] = Reader(r.pos + 1, r.out, "read")
    BY <1>1, <1>3 DEF ReadOnce
  <1>5. ReadOnce(s)[done] = done
    BY <1>2 DEF ReadOnce
  <1>. QED BY <1>1, <1>4, <1>5 DEF r, done

\* Where e stands, c is read.
Undone(e, c) ==
  \A s \in Seq(Bytes), p \in Nat \ {0}, o \in Seq(Bytes) :
    p + Len(e) - 1 <= Len(s) /\ (\A j \in 1..Len(e) : s[p - 1 + j] = e[j])
      => ReadOnce(s)[Reading(p, o)] = Reading(p + Len(e), Append(o, c))

\* Two bytes: a backslash and the letter for c.
LEMMA LetterUndone ==
  ASSUME NEW l \in DOMAIN Letter
  PROVE  Undone(<<"\\", l>>, Letter[l])
  <1>. SUFFICES ASSUME NEW s \in Seq(Bytes), NEW p \in Nat \ {0}, NEW o \in Seq(Bytes),
                       p + 2 - 1 <= Len(s), \A j \in 1..2 : s[p - 1 + j] = <<"\\", l>>[j]
                PROVE  ReadOnce(s)[Reading(p, o)] = Reading(p + 2, Append(o, Letter[l]))
    BY DEF Undone
  <1>1. s[p - 1 + 1] = "\\" /\ s[p - 1 + 2] = l
    OBVIOUS
  <1>2. p - 1 + 1 = p /\ p - 1 + 2 = p + 1 /\ p \in Nat /\ p + 1 <= Len(s) /\ Len(s) \in Nat
    OBVIOUS
  <1>3. s[p] = "\\" /\ s[p + 1] = l
    BY <1>1, <1>2
  <1>4. ReadOnce(s)[Reading(p, o)] = Reading(p + 2, Append(o, Letter[s[p + 1]]))
    BY <1>2, <1>3, ReadLetter
  <1>. QED BY <1>3, <1>4

\* The quotes of both sides can be undone.
LEMMA EscapeUndone ==
  ASSUME NEW c \in Bytes
  PROVE  Undone(Escape(c), c)
  <1>1. CASE c \in DOMAIN Short
    <2>1. Short[c] \in DOMAIN Letter /\ Letter[Short[c]] = c
      BY <1>1 DEF Short, Letter
    <2>. DEFINE l == Short[c]
    <2>2. Escape(c) = <<"\\", l>>
      BY <1>1, EscapeForms
    <2>. HIDE DEF l
    <2>3. Undone(<<"\\", l>>, Letter[l])
      BY <2>1, LetterUndone DEF l
    <2>. QED BY <2>1, <2>2, <2>3 DEF l
  <1>2. CASE c \in DOMAIN Code
    <2>. DEFINE d == Code[c][4]  e == <<"\\", "u", "0", "0", "0", d>>
    <2>1. Escape(c) = e
      BY <1>2, EscapeForms
    <2>2. Code[c] = <<"0", "0", "0", d>>
      BY <1>2 DEF Code
    <2>. HIDE DEF d
    <2>3. Len(e) = 6 /\ e[1] = "\\" /\ e[2] = "u" /\ e[3] = "0" /\ e[4] = "0" /\ e[5] = "0" /\ e[6] = d
      OBVIOUS
    <2>. HIDE DEF e
    <2>4. ASSUME NEW s \in Seq(Bytes), NEW p \in Nat \ {0}, NEW o \in Seq(Bytes),
                 p + 6 - 1 <= Len(s), \A j \in 1..6 : s[p - 1 + j] = e[j]
          PROVE  ReadOnce(s)[Reading(p, o)] = Reading(p + 6, Append(o, c))
      <3>1. /\ s[p - 1 + 1] = "\\" /\ s[p - 1 + 2] = "u" /\ s[p - 1 + 3] = "0" /\ s[p - 1 + 4] = "0"
            /\ s[p - 1 + 5] = "0" /\ s[p - 1 + 6] = d
        BY <2>3, <2>4
      <3>2. /\ p - 1 + 1 = p /\ p - 1 + 2 = p + 1 /\ p \in Nat /\ p + 5 <= Len(s) /\ Len(s) \in Nat
            /\ p - 1 + 3 = p + 2 /\ p - 1 + 4 = p + 3 /\ p - 1 + 5 = p + 4 /\ p - 1 + 6 = p + 5
        BY <2>4
      <3>3. s[p] = "\\" /\ s[p + 1] = "u"
        BY <3>1, <3>2
      <3>4. s[p + 2] = "0" /\ s[p + 3] = "0" /\ s[p + 4] = "0" /\ s[p + 5] = d
        BY <3>1, <3>2
      <3>5. SubSeq(s, p + 2, p + 5) = [i \in 1..4 |-> s[p + 1 + i]]
        BY <3>2
      <3>6. \A i \in 1..4 : s[p + 1 + i] = <<"0", "0", "0", d>>[i]
        <4>. TAKE i \in 1..4
        <4>1. i = 1 \/ i = 2 \/ i = 3 \/ i = 4
          OBVIOUS
        <4>2. p + 1 + 1 = p + 2 /\ p + 1 + 2 = p + 3 /\ p + 1 + 3 = p + 4 /\ p + 1 + 4 = p + 5
          BY <3>2
        <4>. QED BY <3>4, <4>1, <4>2
      <3>7. [i \in 1..4 |-> s[p + 1 + i]] = [i \in 1..4 |-> <<"0", "0", "0", d>>[i]]
        BY <3>6
      <3>8. [i \in 1..4 |-> <<"0", "0", "0", d>>[i]] = <<"0", "0", "0", d>>
        OBVIOUS
      <3>9. SubSeq(s, p + 2, p + 5) = Code[c]
        BY <2>2, <3>5, <3>7, <3>8
      <3>. QED BY <1>2, <3>2, <3>3, <3>9, ReadCode
    <2>5. Undone(e, c)
      BY <2>3, <2>4 DEF Undone
    <2>. QED BY <2>1, <2>5
  <1>3. CASE c \notin DOMAIN Short /\ c \notin DOMAIN Code
    <2>1. Escape(c) = <<c>>
      BY <1>3, EscapeForms
    <2>2. c # "'" /\ c # "\\"
      BY <1>3 DEF Short
    <2>3. ASSUME NEW s \in Seq(Bytes), NEW p \in Nat \ {0}, NEW o \in Seq(Bytes),
                 p + 1 - 1 <= Len(s), \A j \in 1..1 : s[p - 1 + j] = <<c>>[j]
          PROVE  ReadOnce(s)[Reading(p, o)] = Reading(p + 1, Append(o, c))
      <3>1. p - 1 + 1 = p /\ p <= Len(s) /\ p \in Nat /\ Len(s) \in Nat
        BY <2>3
      <3>2. s[p - 1 + 1] = c
        BY <2>3
      <3>3. s[p] = c
        BY <3>1, <3>2
      <3>. QED BY <2>2, <3>1, <3>3, ReadPlain
    <2>4. Len(<<c>>) = 1
      OBVIOUS
    <2>5. Undone(<<c>>, c)
      BY <2>3, <2>4 DEF Undone
    <2>. QED BY <2>1, <2>5
  <1>. QED BY <1>1, <1>2, <1>3

\* What JavaScript escapes a byte with, the program reads as that byte.
LEMMA JsEscapeUndone ==
  ASSUME NEW c \in Bytes
  PROVE  Undone(JsEscape(c), c)
  <1>1. CASE c = "^H"
    <2>1. JsEscape(c) = <<"\\", "b">> /\ "b" \in DOMAIN Letter /\ Letter["b"] = c
      BY <1>1 DEF JsEscape, Letter
    <2>. QED BY <2>1, LetterUndone
  <1>2. CASE c = "^L"
    <2>1. JsEscape(c) = <<"\\", "f">> /\ "f" \in DOMAIN Letter /\ Letter["f"] = c
      BY <1>2 DEF JsEscape, Letter
    <2>. QED BY <2>1, LetterUndone
  <1>3. CASE c # "^H" /\ c # "^L"
    <2>1. JsEscape(c) = Escape(c)
      BY <1>3 DEF JsEscape
    <2>. QED BY <2>1, EscapeUndone
  <1>. QED BY <1>1, <1>2, <1>3

\* f describes the turns of a loop.
Turning(f, n, start, one) == f = [k \in 0..n |-> IF k = 0 THEN start ELSE one[f[k - 1]]]

\* There is a function that does so if there is one that does so turn by turn,
LEMMA TurnsExist ==
  ASSUME NEW n \in Nat, NEW start, NEW one,
         NEW w, w[0] = start, \A k \in 1..n : w[k] = one[w[k - 1]]
  PROVE  \E f : Turning(f, n, start, one)
  <1>. DEFINE v == [k \in 0..n |-> w[k]]
  <1>1. v = [k \in 0..n |-> v[k]]
    OBVIOUS
  <1>2. ASSUME NEW k \in 0..n PROVE v[k] = IF k = 0 THEN start ELSE one[v[k - 1]]
    <2>1. CASE k = 0
      BY <2>1
    <2>2. CASE k # 0
      <3>1. k \in 1..n /\ k - 1 \in 0..n
        BY <2>2
      <3>2. v[k] = w[k] /\ v[k - 1] = w[k - 1] /\ w[k] = one[w[k - 1]]
        BY <3>1
      <3>. QED BY <2>2, <3>2
    <2>. QED BY <2>1, <2>2
  <1>. HIDE DEF v
  <1>3. Turning(v, n, start, one)
    BY <1>1, <1>2 DEF Turning
  <1>. QED BY <1>3

\* and the two agree on the last turn.
LEMMA LastTurn ==
  ASSUME NEW n \in Nat, NEW start, NEW one, NEW f, Turning(f, n, start, one),
         NEW w, w[0] = start, \A k \in 1..n : w[k] = one[w[k - 1]]
  PROVE  f[n] = w[n]
  <1>1. f = [k \in 0..n |-> IF k = 0 THEN start ELSE one[f[k - 1]]]
    BY DEF Turning
  <1>2. f[0] = w[0]
    BY <1>1
  <1>3. ASSUME NEW k \in 1..n, f[k - 1] = w[k - 1] PROVE f[k] = w[k]
    <2>1. k \in 0..n /\ k # 0
      OBVIOUS
    <2>2. f[k] = one[f[k - 1]]
      BY <1>1, <2>1
    <2>. QED BY <1>3, <2>2
  <1>. QED BY <1>2, <1>3, SameTurns

\* ReadJsonString is its last turn.
LEMMA ReadTurns ==
  ASSUME NEW s, NEW p \in Nat, Len(s) \in Nat, p <= Len(s), s[p] = "'",
         NEW w, w[0] = Reading(p + 1, <<>>), \A k \in 1..Len(s) : w[k] = ReadOnce(s)[w[k - 1]]
  PROVE  ReadJsonString(s, p) = w[Len(s)]
  <1>. DEFINE n == Len(s)  start == Reading(p + 1, <<>>)  one == ReadOnce(s)
              turn == CHOOSE turn : turn = [k \in 0..n |-> IF k = 0 THEN start ELSE one[turn[k - 1]]]
  <1>1. ReadJsonString(s, p) = turn[n]
    BY DEF ReadJsonString, Reading
  <1>2. n \in Nat /\ w[0] = start /\ \A k \in 1..n : w[k] = one[w[k - 1]]
    OBVIOUS
  <1>. HIDE DEF start, one, n
  <1>3. turn[n] = w[n]
    <2>1. \E f : Turning(f, n, start, one)
      BY <1>2, TurnsExist
    <2>2. Turning(turn, n, start, one)
      BY <2>1 DEF Turning
    <2>. HIDE DEF turn
    <2>. QED BY <1>2, <2>2, LastTurn
  <1>. QED BY <1>1, <1>3 DEF n

\* The length of a sequence.
LEMMA LengthIsNat == ASSUME NEW S, NEW s \in Seq(S) PROVE Len(s) \in Nat
  OBVIOUS

\* Three sequences, one behind the other.
LEMMA Joined3 ==
  ASSUME NEW S, NEW a \in Seq(S), NEW f \in Seq(S), NEW c \in Seq(S), NEW q, q = a \o f \o c
  PROVE  /\ q \in Seq(S) /\ Len(q) = Len(a) + Len(f) + Len(c)
         /\ \A i \in 1..Len(a) : q[i] = a[i]
         /\ \A i \in 1..Len(f) : q[Len(a) + i] = f[i]
         /\ \A i \in 1..Len(c) : q[Len(a) + Len(f) + i] = c[i]
  <1>. DEFINE b == a \o f
  <1>1. /\ b \in Seq(S) /\ Len(b) = Len(a) + Len(f)
        /\ \A i \in 1..Len(a) : b[i] = a[i]
        /\ \A i \in 1..Len(f) : b[Len(a) + i] = f[i]
    <2>1. b \in Seq(S) /\ Len(b) = Len(a) + Len(f)
      OBVIOUS
    <2>2. \A i \in 1..Len(a) : b[i] = a[i]
      OBVIOUS
    <2>3. \A i \in 1..Len(f) : b[Len(a) + i] = f[i]
      OBVIOUS
    <2>. QED BY <2>1, <2>2, <2>3
  <1>. HIDE DEF b
  <1>2. /\ b \o c \in Seq(S) /\ Len(b \o c) = Len(b) + Len(c)
        /\ \A i \in 1..Len(b) : (b \o c)[i] = b[i]
        /\ \A i \in 1..Len(c) : (b \o c)[Len(b) + i] = c[i]
    <2>1. b \in Seq(S)
      BY <1>1
    <2>2. b \o c \in Seq(S) /\ Len(b \o c) = Len(b) + Len(c)
      BY <2>1
    <2>3. \A i \in 1..Len(b) : (b \o c)[i] = b[i]
      BY <2>1
    <2>4. \A i \in 1..Len(c) : (b \o c)[Len(b) + i] = c[i]
      BY <2>1
    <2>. QED BY <2>2, <2>3, <2>4
  <1>3. Len(a) \in Nat /\ Len(f) \in Nat /\ Len(c) \in Nat
    OBVIOUS
  <1>4. \A i \in 1..Len(a) : (b \o c)[i] = a[i]
    BY <1>1, <1>2, <1>3
  <1>5. \A i \in 1..Len(f) : (b \o c)[Len(a) + i] = f[i]
    <2>. TAKE i \in 1..Len(f)
    <2>1. Len(a) + i \in 1..Len(b)
      BY <1>1, <1>3
    <2>. QED BY <1>1, <1>2, <2>1
  <1>6. \A i \in 1..Len(c) : (b \o c)[Len(a) + Len(f) + i] = c[i]
    BY <1>1, <1>2
  <1>. QED BY <1>1, <1>2, <1>3, <1>4, <1>5, <1>6 DEF b

\* What stands between two quotes.
LEMMA Quoted ==
  ASSUME NEW f \in Seq(Bytes), NEW q, q = <<"'">> \o f \o <<"'">>
  PROVE  /\ q \in Seq(Bytes) /\ Len(q) = Len(f) + 2 /\ q[1] = "'" /\ q[Len(f) + 2] = "'"
         /\ \A j \in 1..Len(f) : q[j + 1] = f[j]
  <1>1. "'" \in Bytes
    BY Syntax
  <1>. DEFINE a == <<"'">>  n == Len(f)
  <1>2. a \in Seq(Bytes)
    BY <1>1
  <1>3. Len(a) = 1 /\ a[1] = "'" /\ n \in Nat
    OBVIOUS
  <1>4. q = a \o f \o a
    OBVIOUS
  <1>. HIDE DEF a
  <1>5. /\ q \in Seq(Bytes) /\ Len(q) = Len(a) + Len(f) + Len(a)
        /\ \A i \in 1..Len(a) : q[i] = a[i]
        /\ \A i \in 1..Len(f) : q[Len(a) + i] = f[i]
        /\ \A i \in 1..Len(a) : q[Len(a) + Len(f) + i] = a[i]
    <2>1. a \in Seq(Bytes) /\ f \in Seq(Bytes)
      BY <1>2
    <2>. QED BY <1>4, <2>1, Joined3
  <1>. HIDE DEF n
  <1>6. /\ Len(q) = 1 + n + 1 /\ \A i \in 1..1 : q[i] = a[i]
        /\ \A i \in 1..n : q[1 + i] = f[i]
        /\ \A i \in 1..1 : q[1 + n + i] = a[i]
    BY <1>3, <1>5 DEF n
  <1>7. Len(q) = n + 2 /\ q[1] = "'"
    BY <1>3, <1>6
  <1>8. q[n + 2] = "'"
    <2>1. q[1 + n + 1] = a[1] /\ 1 + n + 1 = n + 2
      BY <1>3, <1>6
    <2>. QED BY <1>3, <2>1
  <1>9. ASSUME NEW j \in 1..n PROVE q[j + 1] = f[j]
    <2>1. q[1 + j] = f[j] /\ 1 + j = j + 1
      BY <1>3, <1>6
    <2>. QED BY <2>1
  <1>. QED BY <1>5, <1>7, <1>8, <1>9 DEF n

\* Where q stands, t is read.
ReadsAs(q, t) ==
  \A s \in Seq(Bytes), p \in Nat \ {0} :
    p + Len(q) - 1 <= Len(s) /\ (\A j \in 1..Len(q) : s[p - 1 + j] = q[j])
      => ReadJsonString(s, p) = Reader(p + Len(q), t, "read")

\* A text between quotes, its bytes escaped so that they can be undone, is read.
LEMMA ReadBack ==
  ASSUME NEW t \in Seq(Bytes), NEW e \in Seq(Seq(Bytes)), Len(e) = Len(t),
         \A i \in 1..Len(t) : e[i] # <<>> /\ Undone(e[i], t[i]),
         NEW q, q = <<"'">> \o FlattenSeq(e) \o <<"'">>
  PROVE  ReadsAs(q, t)
  <1>. SUFFICES ASSUME NEW s \in Seq(Bytes), NEW p \in Nat \ {0},
                       p + Len(q) - 1 <= Len(s), \A j \in 1..Len(q) : s[p - 1 + j] = q[j]
                PROVE  ReadJsonString(s, p) = Reader(p + Len(q), t, "read")
    BY DEF ReadsAs
  <1>. DEFINE n == Len(t)  f == FlattenSeq(e)
  <1>1. n \in Nat /\ f \in Seq(Bytes) /\ Len(s) \in Nat
    BY FlattenAppend
  <1>2. PICK at : Layout(e, f, at)
    BY FlattenLayout
  <1>3. /\ at \in [0..n -> Nat] /\ at[0] = 0 /\ at[n] = Len(f)
        /\ \A k \in 1..n : at[k] = at[k - 1] + Len(e[k])
        /\ \A k \in 1..n : \A j \in 1..Len(e[k]) : f[at[k - 1] + j] = e[k][j]
    BY <1>2 DEF Layout
  <1>4. \A i, j \in 0..n : i <= j => at[i] <= at[j]
    BY <1>2, LayoutOrder
  <1>5. \A i, j \in 0..n : i <= j => at[j] - at[i] >= j - i
    BY <1>2, LayoutSpread
  <1>6. \A k \in 1..n : Undone(e[k], t[k]) /\ e[k] \in Seq(Bytes) /\ Len(e[k]) \in Nat
    OBVIOUS
  <1>. HIDE DEF f
  <1>7. /\ Len(q) = Len(f) + 2 /\ q[1] = "'" /\ q[Len(f) + 2] = "'"
        /\ \A j \in 1..Len(f) : q[j + 1] = f[j]
    BY <1>1, Quoted DEF f
  <1>8. /\ s[p] = "'" /\ s[p + 1 + Len(f)] = "'" /\ p + 1 + Len(f) <= Len(s)
        /\ \A j \in 1..Len(f) : s[p + j] = f[j]
    <2>1. Len(f) \in Nat /\ 1 \in 1..Len(q) /\ Len(f) + 2 \in 1..Len(q) /\ p - 1 + 1 = p
          /\ p - 1 + (Len(f) + 2) = p + 1 + Len(f) /\ p + 1 + Len(f) <= Len(s)
      <3>. DEFINE x == Len(f)  y == Len(s)  z == Len(q)
      <3>1. x \in Nat /\ y \in Nat /\ z = x + 2 /\ p + z - 1 <= y
        BY <1>1, <1>7
      <3>. HIDE DEF x, y, z
      <3>2. 1 \in 1..z /\ x + 2 \in 1..z /\ p - 1 + 1 = p /\ p - 1 + (x + 2) = p + 1 + x /\ p + 1 + x <= y
        BY <3>1
      <3>. QED BY <3>1, <3>2 DEF x, y, z
    <2>2. s[p - 1 + 1] = "'" /\ s[p - 1 + (Len(f) + 2)] = "'"
      BY <1>7, <2>1
    <2>3. ASSUME NEW j \in 1..Len(f) PROVE s[p + j] = f[j]
      <3>1. j + 1 \in 1..Len(q) /\ p - 1 + (j + 1) = p + j
        BY <1>7, <2>1
      <3>2. s[p - 1 + (j + 1)] = q[j + 1]
        BY <3>1
      <3>. QED BY <1>7, <3>1, <3>2
    <2>. QED BY <2>1, <2>2, <2>3
  <1>. DEFINE done == Reader(p + Len(q), t, "read")
              w == [k \in 0..Len(s) |-> IF k <= n THEN Reading(p + 1 + at[k], SubSeq(t, 1, k)) ELSE done]
  <1>9. n + 1 <= Len(s)
    <2>1. at[n] - at[0] >= n - 0
      BY <1>1, <1>5
    <2>. QED BY <1>1, <1>3, <1>8, <2>1
  <1>10. w[0] = Reading(p + 1, <<>>)
    <2>1. SubSeq(t, 1, 0) = <<>> /\ p + 1 + at[0] = p + 1
      BY <1>3
    <2>2. 0 \in 0..Len(s) /\ 0 <= n
      BY <1>1
    <2>. QED BY <2>1, <2>2
  <1>11. w[Len(s)] = done
    BY <1>1, <1>9
  <1>12. ASSUME NEW k \in 1..Len(s) PROVE w[k] = ReadOnce(s)[w[k - 1]]
    <2>1. k \in 0..Len(s) /\ k - 1 \in 0..Len(s)
      BY <1>1
    <2>2. CASE k <= n
      <3>1. k \in 1..n /\ k - 1 \in 0..n /\ k - 1 <= n /\ k \in 0..n /\ n \in 0..n
        BY <1>1, <2>2
      <3>. DEFINE o == SubSeq(t, 1, k - 1)  b == p + 1 + at[k - 1]
      <3>2. w[k - 1] = Reading(b, o) /\ w[k] = Reading(p + 1 + at[k], SubSeq(t, 1, k))
        BY <2>1, <2>2, <3>1
      <3>3. o \in Seq(Bytes) /\ SubSeq(t, 1, k) = Append(o, t[k])
        <4>1. k - 1 \in 0..Len(t) - 1 /\ (k - 1) + 1 = k
          BY <3>1
        <4>. QED BY <4>1, LongerByOne
      <3>4. /\ at[k - 1] \in Nat /\ at[k] = at[k - 1] + Len(e[k]) /\ at[k] <= Len(f) /\ Len(e[k]) \in Nat
            /\ \A j \in 1..Len(e[k]) : f[at[k - 1] + j] = e[k][j]
        <4>1. at[k - 1] \in Nat /\ at[k] = at[k - 1] + Len(e[k]) /\ Len(e[k]) \in Nat
          BY <1>3, <1>6, <3>1
        <4>2. at[k] <= at[n]
          <5>1. k \in 0..n /\ n \in 0..n /\ k <= n
            BY <2>2, <3>1
          <5>. HIDE DEF n, b, o, w, done
          <5>. QED BY <1>4, <5>1
        <4>3. at[n] = Len(f) /\ \A j \in 1..Len(e[k]) : f[at[k - 1] + j] = e[k][j]
          BY <1>3, <3>1
        <4>. QED BY <4>1, <4>2, <4>3
      <3>5. b \in Nat \ {0} /\ b + Len(e[k]) = p + 1 + at[k] /\ b + Len(e[k]) - 1 <= Len(s)
        <4>1. Len(f) \in Nat /\ p + 1 + Len(f) <= Len(s) /\ Len(s) \in Nat
          BY <1>1, <1>8
        <4>. DEFINE a == at[k - 1]  l == Len(e[k])  c == at[k]  x == Len(f)  y == Len(s)
        <4>2. a \in Nat /\ l \in Nat /\ c = a + l /\ c <= x /\ x \in Nat /\ p + 1 + x <= y /\ y \in Nat
          BY <3>4, <4>1
        <4>. HIDE DEF a, l, c, x, y
        <4>3. p + 1 + a \in Nat \ {0} /\ p + 1 + a + l = p + 1 + c /\ p + 1 + a + l - 1 <= y
          BY <4>2
        <4>. QED BY <4>3 DEF a, l, c, y
      <3>6. ASSUME NEW j \in 1..Len(e[k]) PROVE s[b - 1 + j] = e[k][j]
        <4>1. at[k - 1] + j \in 1..Len(f) /\ b - 1 + j = p + (at[k - 1] + j)
          <5>. DEFINE a == at[k - 1]  l == Len(e[k])  x == Len(f)
          <5>1. a \in Nat /\ l \in Nat /\ a + l <= x /\ x \in Nat /\ j \in 1..l
            BY <1>1, <3>4
          <5>. HIDE DEF a, l, x
          <5>2. a + j \in 1..x /\ p + 1 + a - 1 + j = p + (a + j)
            BY <5>1
          <5>3. b = p + 1 + a
            BY DEF a
          <5>. HIDE DEF b
          <5>4. b - 1 + j = p + 1 + a - 1 + j
            BY <5>1, <5>3
          <5>5. b - 1 + j = p + (a + j)
            BY <5>2, <5>4
          <5>. QED BY <5>2, <5>5 DEF a, x
        <4>2. s[p + (at[k - 1] + j)] = f[at[k - 1] + j]
          BY <1>8, <4>1
        <4>. QED BY <3>4, <4>1, <4>2
      <3>. HIDE DEF b, o, w
      <3>7. ReadOnce(s)[Reading(b, o)] = Reading(b + Len(e[k]), Append(o, t[k]))
        <4>1. Undone(e[k], t[k])
          BY <1>6, <3>1
        <4>. QED BY <3>3, <3>5, <3>6, <4>1 DEF Undone
      <3>. QED BY <3>2, <3>3, <3>5, <3>7
    <2>3. CASE k = n + 1
      <3>1. w[k - 1] = Reading(p + 1 + at[n], SubSeq(t, 1, n)) /\ w[k] = done
        BY <1>1, <2>1, <2>3
      <3>2. SubSeq(t, 1, n) = t
        OBVIOUS
      <3>. DEFINE b == p + 1 + at[n]
      <3>3. b \in Nat /\ b <= Len(s) /\ s[b] = "'" /\ b + 1 = p + Len(q)
        <4>1. at[n] = Len(f) /\ Len(f) \in Nat /\ Len(q) = Len(f) + 2
          BY <1>1, <1>3, <1>7
        <4>2. p + 1 + Len(f) <= Len(s) /\ s[p + 1 + Len(f)] = "'"
          BY <1>8
        <4>3. p + 1 + Len(f) \in Nat /\ p + 1 + Len(f) + 1 = p + (Len(f) + 2)
          BY <4>1
        <4>. QED BY <4>1, <4>2, <4>3
      <3>. HIDE DEF b
      <3>4. ReadOnce(s)[Reading(b, t)] = Reader(b + 1, t, "read")
        BY <1>1, <3>3, ReadClosing
      <3>. HIDE DEF w
      <3>. QED BY <3>1, <3>2, <3>3, <3>4 DEF b
    <2>4. CASE k > n + 1
      <3>1. w[k - 1] = done /\ w[k] = done
        BY <1>1, <2>1, <2>4
      <3>2. done \in Readers /\ done.state = "read"
        <4>1. p + Len(q) \in Nat
          BY <1>1, <1>7
        <4>. QED BY <4>1, ReaderFields
      <3>. HIDE DEF done, w
      <3>3. ReadOnce(s)[done] = done
        BY <3>2 DEF ReadOnce
      <3>. QED BY <3>1, <3>3
    <2>. QED BY <1>1, <2>2, <2>3, <2>4
  <1>. HIDE DEF w, done
  <1>13. p \in Nat /\ p <= Len(s)
    BY <1>1, <1>8
  <1>14. ReadJsonString(s, p) = w[Len(s)]
    BY <1>1, <1>8, <1>10, <1>12, <1>13, ReadTurns
  <1>. QED BY <1>11, <1>14 DEF done

\* The sequences of a sequence, put together, make one of the same elements.
LEMMA JoinedType ==
  ASSUME NEW S, NEW seqs \in Seq(Seq(S))
  PROVE  FlattenSeq(seqs) \in Seq(S)
  <1>1. <<>> \in Seq(S)
    OBVIOUS
  <1>. QED BY <1>1, FlattenAppend

\* So do they with quotes around them.
LEMMA InQuotes ==
  ASSUME NEW f \in Seq(InLine), NEW q, q = <<"'">> \o f \o <<"'">>
  PROVE  q \in Seq(InLine)
  <1>1. "'" \in InLine
    BY Syntax
  <1>. DEFINE a == <<"'">>
  <1>2. a \in Seq(InLine)
    BY <1>1
  <1>3. q = a \o f \o a
    OBVIOUS
  <1>. HIDE DEF a
  <1>4. a \o f \o a \in Seq(InLine)
    BY <1>2, Joined3
  <1>. QED BY <1>3, <1>4

\* A text in quotes has no end of a line in it, and is read as the text.
LEMMA QuoteReads ==
  ASSUME NEW t \in Seq(Bytes), NEW e, e = [i \in 1..Len(t) |-> e[i]],
         \A i \in 1..Len(t) : e[i] \in Seq(InLine) /\ Len(e[i]) > 0 /\ Undone(e[i], t[i]),
         NEW q, q = <<"'">> \o FlattenSeq(e) \o <<"'">>
  PROVE  q \in Seq(InLine) /\ ReadsAs(q, t) /\ Len(q) >= 2 /\ q[1] = "'"
  <1>1. Len(t) \in Nat /\ Len(e) = Len(t)
    OBVIOUS
  <1>2. e \in Seq(Seq(InLine))
    BY <1>1
  <1>3. FlattenSeq(e) \in Seq(InLine)
    BY <1>2, JoinedType
  <1>4. InLine \subseteq Bytes
    BY Syntax
  <1>5. e \in Seq(Seq(Bytes))
    <2>1. \A i \in 1..Len(t) : e[i] \in Seq(Bytes)
      BY <1>4
    <2>. QED BY <1>1, <2>1
  <1>6. \A i \in 1..Len(t) : e[i] # <<>> /\ Undone(e[i], t[i])
    OBVIOUS
  <1>7. q \in Seq(InLine)
    BY <1>3, InQuotes
  <1>8. ReadsAs(q, t)
    BY <1>1, <1>5, <1>6, ReadBack
  <1>9. FlattenSeq(e) \in Seq(Bytes)
    BY <1>5, JoinedType
  <1>. DEFINE f == FlattenSeq(e)
  <1>10. Len(q) = Len(f) + 2 /\ q[1] = "'" /\ f \in Seq(Bytes)
    BY <1>9, Quoted
  <1>. HIDE DEF f
  <1>11. Len(q) >= 2 /\ q[1] = "'"
    BY <1>10
  <1>. QED BY <1>7, <1>8, <1>11

\* So are those of JsonQuote,
LEMMA JsonQuoteReads ==
  ASSUME NEW t \in Seq(Bytes)
  PROVE  JsonQuote(t) \in Seq(InLine) /\ ReadsAs(JsonQuote(t), t)
  <1>. DEFINE e == [i \in 1..Len(t) |-> Escape(t[i])]
  <1>1. \A i \in 1..Len(t) : e[i] \in Seq(InLine) /\ Len(e[i]) > 0 /\ Undone(e[i], t[i])
    <2>. TAKE i \in 1..Len(t)
    <2>1. t[i] \in Bytes /\ e[i] = Escape(t[i])
      OBVIOUS
    <2>. QED BY <2>1, EscapeType, EscapeUndone
  <1>2. e = [i \in 1..Len(t) |-> e[i]] /\ JsonQuote(t) = <<"'">> \o FlattenSeq(e) \o <<"'">>
    BY DEF JsonQuote
  <1>. HIDE DEF e
  <1>. QED BY <1>1, <1>2, QuoteReads

\* and of JavaScript.
LEMMA JsQuoteReads ==
  ASSUME NEW t \in Seq(Bytes)
  PROVE  /\ JsQuote(t) \in Seq(InLine) /\ ReadsAs(JsQuote(t), t)
         /\ Len(JsQuote(t)) >= 2 /\ JsQuote(t)[1] = "'"
  <1>. DEFINE e == [i \in 1..Len(t) |-> JsEscape(t[i])]
  <1>1. \A i \in 1..Len(t) : e[i] \in Seq(InLine) /\ Len(e[i]) > 0 /\ Undone(e[i], t[i])
    <2>. TAKE i \in 1..Len(t)
    <2>1. t[i] \in Bytes /\ e[i] = JsEscape(t[i])
      OBVIOUS
    <2>. QED BY <2>1, JsEscapeType, JsEscapeUndone
  <1>2. e = [i \in 1..Len(t) |-> e[i]] /\ JsQuote(t) = <<"'">> \o FlattenSeq(e) \o <<"'">>
    BY DEF JsQuote
  <1>. HIDE DEF e
  <1>. QED BY <1>1, <1>2, QuoteReads

\* A literal of a text is the text,
LEMMA LiteralRead ==
  ASSUME NEW t \in Seq(Bytes)
  PROVE  Literal(JsonQuote(t)).state = "read" /\ Literal(JsonQuote(t)).out = t
  <1>. DEFINE q == JsonQuote(t)
  <1>1. q \in Seq(InLine) /\ ReadsAs(q, t)
    BY JsonQuoteReads
  <1>. HIDE DEF q
  <1>2. \A i \in 1..Len(q) : q[i] \in InLine
    BY <1>1
  <1>3. q \in Seq(Bytes) /\ Len(q) \in Nat
    <2>1. InLine \subseteq Bytes
      BY Syntax
    <2>2. q \in Seq(InLine)
      BY <1>1
    <2>. QED BY <2>1, <2>2
  <1>4. ReadJsonString(q, 1) = Reader(1 + Len(q), t, "read")
    <2>1. 1 \in Nat \ {0} /\ 1 + Len(q) - 1 <= Len(q)
      BY <1>3
    <2>2. \A j \in 1..Len(q) : q[1 - 1 + j] = q[j]
      BY <1>3
    <2>. QED BY <1>1, <1>3, <2>1, <2>2 DEF ReadsAs
  <1>5. ~ \E i \in 1..Len(q) : q[i] \in {"\n", "\r"}
    BY <1>2 DEF InLine
  <1>6. Literal(q) = Reader(1 + Len(q), t, "read")
    BY <1>4, <1>5 DEF Literal
  <1>7. 1 + Len(q) \in Nat
    BY <1>3
  <1>8. Literal(q).state = "read" /\ Literal(q).out = t
    BY <1>6, <1>7, ReaderFields
  <1>. QED BY <1>8 DEF q

\* so the page shows the message it is called with.
LEMMA EvaluatedIs ==
  ASSUME NEW t \in Seq(Bytes)
  PROVE  Evaluated(MesajAl(t)) = <<t>>
  <1>. DEFINE a == JsonQuote(Ip)  b == JsonQuote(t)  js == <<a, b>>
  <1>1. Literal(a).state = "read" /\ Literal(b).state = "read" /\ Literal(b).out = t
    BY LiteralRead, ChatAssumption
  <1>. HIDE DEF a, b
  <1>2. js[1] = a /\ js[2] = b
    OBVIOUS
  <1>3. \A i \in 1..2 : Literal(js[i]).state = "read"
    <2>. TAKE i \in 1..2
    <2>1. i = 1 \/ i = 2
      OBVIOUS
    <2>. QED BY <1>1, <1>2, <2>1
  <1>. HIDE DEF js
  <1>4. Evaluated(js) = <<t>>
    BY <1>1, <1>2, <1>3 DEF Evaluated
  <1>. QED BY <1>4 DEF js, a, b, MesajAl

\* The byte between two items.
Comma == ","

\* It is skipped, and stands in a line.
LEMMA CommaIsSpace == IsJsonSpace(Comma) /\ Comma # "]" /\ Comma \in Bytes
  <1>1. "," \in Bytes
    BY SyntaxAssumption
  <1>2. "," # "]"
    OBVIOUS
  <1>. QED BY <1>1, <1>2, Zenon DEF Comma, IsJsonSpace

\* What an array is made of while it is read.
LEMMA ArrayFields ==
  ASSUME NEW p \in Nat, NEW items \in Seq(Seq(Bytes)), NEW over \in BOOLEAN
  PROVE  /\ Array(p, items, over) \in Arrays
         /\ Array(p, items, over).pos = p /\ Array(p, items, over).items = items
         /\ Array(p, items, over).over <=> over
  BY DEF Array, Arrays

\* A string stands at p in s that is read as t, up to e.
StringAt(s, p, e, t) == p <= Len(s) /\ s[p] = "'" /\ ReadJsonString(s, p) = Reader(e, t, "read")

\* The step of the loop at p leads to e, with the items more.
StepLeads(s, p, items, e, more) == ItemOnce(s)[Array(p, items, FALSE)] = Array(e, more, FALSE)

\* One step takes a string,
LEMMA ItemString ==
  ASSUME NEW s, NEW p \in Nat, NEW items \in Seq(Seq(Bytes)), Len(s) \in Nat,
         NEW e \in Nat, NEW t \in Seq(Bytes), StringAt(s, p, e, t)
  PROVE  StepLeads(s, p, items, e, Append(items, t))
  <1>0. p <= Len(s) /\ s[p] = "'" /\ ReadJsonString(s, p) = Reader(e, t, "read")
    BY DEF StringAt
  <1>. DEFINE r == Array(p, items, FALSE)  str == ReadJsonString(s, p)
  <1>1. r \in Arrays /\ r.pos = p /\ r.items = items /\ ~r.over
    BY ArrayFields
  <1>2. str.pos = e /\ str.out = t /\ str.state = "read"
    BY <1>0, ReaderFields
  <1>. HIDE DEF r, str
  <1>3. ~(r.pos > Len(s)) /\ s[r.pos] = "'"
    BY <1>0, <1>1
  <1>4. s[r.pos] # "]"
    BY <1>3
  <1>5. ~IsJsonSpace(s[r.pos])
    BY <1>3 DEF IsJsonSpace
  <1>6. ReadJsonString(s, r.pos) = str
    BY <1>1 DEF str
  <1>7. ItemOnce(s)[r] = Array(str.pos, Append(r.items, str.out), FALSE)
    BY <1>1, <1>2, <1>3, <1>4, <1>5, <1>6 DEF ItemOnce
  <1>. QED BY <1>1, <1>2, <1>7 DEF r, StepLeads

\* a comma,
LEMMA ItemComma ==
  ASSUME NEW s, NEW p \in Nat, NEW items \in Seq(Seq(Bytes)), Len(s) \in Nat, p <= Len(s),
         s[p] = Comma
  PROVE  ItemOnce(s)[Array(p, items, FALSE)] = Array(p + 1, items, FALSE)
  <1>. DEFINE r == Array(p, items, FALSE)
  <1>1. r \in Arrays /\ r.pos = p /\ r.items = items /\ ~r.over
    BY ArrayFields
  <1>. HIDE DEF r
  <1>2. ~(r.pos > Len(s)) /\ s[r.pos] = Comma
    BY <1>1
  <1>3. s[r.pos] # "]" /\ IsJsonSpace(s[r.pos])
    BY <1>2, CommaIsSpace
  <1>4. ItemOnce(s)[r] = Array(r.pos + 1, r.items, FALSE)
    BY <1>1, <1>2, <1>3 DEF ItemOnce
  <1>. QED BY <1>1, <1>4 DEF r

\* or the bracket that closes it, after which nothing changes.
LEMMA ItemClosing ==
  ASSUME NEW s, NEW p \in Nat, NEW items \in Seq(Seq(Bytes)), s[p] = "]"
  PROVE  /\ ItemOnce(s)[Array(p, items, FALSE)] = Array(p, items, TRUE)
         /\ ItemOnce(s)[Array(p, items, TRUE)] = Array(p, items, TRUE)
  <1>1. ASSUME NEW over \in BOOLEAN
        PROVE  ItemOnce(s)[Array(p, items, over)] = Array(p, items, TRUE)
    <2>. DEFINE r == Array(p, items, over)
    <2>1. r \in Arrays /\ r.pos = p /\ r.items = items
      BY ArrayFields
    <2>. HIDE DEF r
    <2>2. s[r.pos] = "]"
      BY <2>1
    <2>3. ItemOnce(s)[r] = Array(r.pos, r.items, TRUE)
      BY <2>1, <2>2 DEF ItemOnce
    <2>. QED BY <2>1, <2>3 DEF r
  <1>. QED BY <1>1

\* ParseJsonStringArray is its last turn.
LEMMA ArrayTurns ==
  ASSUME NEW s, Len(s) \in Nat, 1 <= Len(s), s[1] = "[",
         NEW w, w[0] = Array(2, <<>>, FALSE), \A k \in 1..Len(s) : w[k] = ItemOnce(s)[w[k - 1]]
  PROVE  ParseJsonStringArray(s) = w[Len(s)].items
  <1>. DEFINE I == {i \in 1..Len(s) : s[i] = "["}
              open == SelectInSeq(s, LAMBDA c : c = "[")
  <1>1. open = 1
    <2>1. 1 \in I /\ \A y \in I : 1 <= y
      OBVIOUS
    <2>2. I # {} /\ \A x \in I : (\A y \in I : x <= y) => x = 1
      BY <2>1
    <2>3. Min(I) = 1
      BY <2>1, <2>2 DEF Min
    <2>4. open = IF I # {} THEN Min(I) ELSE 0
      BY DEF SelectInSeq
    <2>. HIDE DEF I, open
    <2>. QED BY <2>2, <2>3, <2>4
  <1>. DEFINE n == Len(s)  start == Array(open + 1, <<>>, FALSE)  one == ItemOnce(s)
              turn == CHOOSE turn : turn = [k \in 0..n |-> IF k = 0 THEN start ELSE one[turn[k - 1]]]
  <1>2. ParseJsonStringArray(s) = IF open = 0 THEN <<>> ELSE turn[n].items
    BY DEF ParseJsonStringArray
  <1>. HIDE DEF open
  <1>3. start = Array(2, <<>>, FALSE)
    BY <1>1
  <1>4. n \in Nat /\ w[0] = start /\ \A k \in 1..n : w[k] = one[w[k - 1]]
    BY <1>3
  <1>. HIDE DEF start, one, n
  <1>5. turn[n] = w[n]
    <2>1. \E f : Turning(f, n, start, one)
      BY <1>4, TurnsExist
    <2>2. Turning(turn, n, start, one)
      BY <2>1 DEF Turning
    <2>. HIDE DEF turn
    <2>. QED BY <1>4, <2>2, LastTurn
  <1>. HIDE DEF turn
  <1>. QED BY <1>1, <1>2, <1>5 DEF n

\* s is five sequences, one behind the other.
Five(x, a, y, b, z, s) ==
  /\ Len(s) = Len(x) + Len(a) + Len(y) + Len(b) + Len(z)
  /\ \A i \in 1..Len(x) : s[i] = x[i]
  /\ \A i \in 1..Len(a) : s[Len(x) + i] = a[i]
  /\ \A i \in 1..Len(y) : s[Len(x) + Len(a) + i] = y[i]
  /\ \A i \in 1..Len(b) : s[Len(x) + Len(a) + Len(y) + i] = b[i]
  /\ \A i \in 1..Len(z) : s[Len(x) + Len(a) + Len(y) + Len(b) + i] = z[i]

\* This is what concatenation does.
LEMMA Joined5 ==
  ASSUME NEW S, NEW x \in Seq(S), NEW a \in Seq(S), NEW y \in Seq(S), NEW b \in Seq(S), NEW z \in Seq(S),
         NEW s, s = x \o a \o y \o b \o z
  PROVE  s \in Seq(S) /\ Five(x, a, y, b, z, s)
  <1>. DEFINE u == x \o a \o y
  <1>0. s = u \o b \o z
    OBVIOUS
  <1>1. /\ u \in Seq(S) /\ Len(u) = Len(x) + Len(a) + Len(y)
        /\ \A i \in 1..Len(x) : u[i] = x[i]
        /\ \A i \in 1..Len(a) : u[Len(x) + i] = a[i]
        /\ \A i \in 1..Len(y) : u[Len(x) + Len(a) + i] = y[i]
    BY Joined3
  <1>. HIDE DEF u
  <1>2. /\ s \in Seq(S) /\ Len(s) = Len(u) + Len(b) + Len(z)
        /\ \A i \in 1..Len(u) : s[i] = u[i]
        /\ \A i \in 1..Len(b) : s[Len(u) + i] = b[i]
        /\ \A i \in 1..Len(z) : s[Len(u) + Len(b) + i] = z[i]
    <2>1. u \in Seq(S)
      BY <1>1
    <2>. QED BY <1>0, <2>1, Joined3
  <1>3. Len(x) \in Nat /\ Len(a) \in Nat /\ Len(y) \in Nat /\ Len(b) \in Nat /\ Len(z) \in Nat
    OBVIOUS
  <1>4. ASSUME NEW i \in 1..Len(x) PROVE s[i] = x[i]
    <2>1. i \in 1..Len(u)
      BY <1>1, <1>3
    <2>. QED BY <1>1, <1>2, <2>1
  <1>5. ASSUME NEW i \in 1..Len(a) PROVE s[Len(x) + i] = a[i]
    <2>1. Len(x) + i \in 1..Len(u)
      BY <1>1, <1>3
    <2>. QED BY <1>1, <1>2, <2>1
  <1>6. ASSUME NEW i \in 1..Len(y) PROVE s[Len(x) + Len(a) + i] = y[i]
    <2>1. Len(x) + Len(a) + i \in 1..Len(u)
      BY <1>1, <1>3
    <2>. QED BY <1>1, <1>2, <2>1
  <1>7. /\ \A i \in 1..Len(b) : s[Len(x) + Len(a) + Len(y) + i] = b[i]
        /\ \A i \in 1..Len(z) : s[Len(x) + Len(a) + Len(y) + Len(b) + i] = z[i]
    BY <1>1, <1>2
  <1>8. s \in Seq(S) /\ Len(s) = Len(x) + Len(a) + Len(y) + Len(b) + Len(z)
    BY <1>1, <1>2
  <1>. QED BY <1>4, <1>5, <1>6, <1>7, <1>8 DEF Five

\* A byte of the array's syntax.
LEMMA OneByte ==
  ASSUME NEW c \in Bytes
  PROVE  <<c>> \in Seq(Bytes) /\ Len(<<c>>) = 1 /\ <<c>>[1] = c
  OBVIOUS

\* s is the text of an array of the strings a and b.
ArrayOf(a, b, s) ==
  /\ Len(s) = Len(a) + Len(b) + 3
  /\ s[1] = "[" /\ s[Len(a) + 2] = Comma /\ s[Len(a) + Len(b) + 3] = "]"
  /\ \A i \in 1..Len(a) : s[i + 1] = a[i]
  /\ \A i \in 1..Len(b) : s[Len(a) + 2 + i] = b[i]

\* Where five sequences stand of which every other one has a single byte.
LEMMA PartsAt ==
  ASSUME NEW x, NEW a, NEW y, NEW b, NEW z, NEW s, Five(x, a, y, b, z, s),
         Len(a) \in Nat, Len(b) \in Nat, Len(x) = 1, Len(y) = 1, Len(z) = 1,
         x[1] = "[", y[1] = Comma, z[1] = "]"
  PROVE  ArrayOf(a, b, s)
  <1>. DEFINE m == Len(a)  n == Len(b)  lx == Len(x)  ly == Len(y)  lz == Len(z)
  <1>1. /\ Len(s) = lx + m + ly + n + lz
        /\ \A i \in 1..lx : s[i] = x[i]
        /\ \A i \in 1..m : s[lx + i] = a[i]
        /\ \A i \in 1..ly : s[lx + m + i] = y[i]
        /\ \A i \in 1..n : s[lx + m + ly + i] = b[i]
        /\ \A i \in 1..lz : s[lx + m + ly + n + i] = z[i]
    BY Zenon DEF Five
  <1>2. m \in Nat /\ n \in Nat /\ lx = 1 /\ ly = 1 /\ lz = 1
    OBVIOUS
  <1>. HIDE DEF m, n, lx, ly, lz
  <1>3. Len(s) = m + n + 3
    BY <1>1, <1>2
  <1>4. 1 \in 1..lx /\ 1 \in 1..ly /\ 1 \in 1..lz
    BY <1>2
  <1>5. s[1] = x[1] /\ s[lx + m + 1] = y[1] /\ s[lx + m + ly + n + 1] = z[1]
    BY <1>1, <1>4, Zenon
  <1>6. lx + m + 1 = m + 2 /\ lx + m + ly + n + 1 = m + n + 3
    BY <1>2
  <1>7. s[m + 2] = y[1] /\ s[m + n + 3] = z[1]
    BY <1>5, <1>6, Zenon
  <1>8. ASSUME NEW i \in 1..m PROVE s[i + 1] = a[i]
    <2>1. s[lx + i] = a[i]
      BY <1>1, Zenon
    <2>2. lx + i = i + 1
      BY <1>2
    <2>. QED BY <2>1, <2>2, Zenon
  <1>9. ASSUME NEW i \in 1..n PROVE s[m + 2 + i] = b[i]
    <2>1. s[lx + m + ly + i] = b[i]
      BY <1>1, Zenon
    <2>2. lx + m + ly + i = m + 2 + i
      BY <1>2
    <2>. QED BY <2>1, <2>2, Zenon
  <1>10. s[1] = "[" /\ s[m + 2] = Comma /\ s[m + n + 3] = "]"
    BY <1>5, <1>7, Zenon
  <1>. QED BY <1>3, <1>8, <1>9, <1>10, Zenon DEF m, n, ArrayOf

\* This is what Stringify makes.
LEMMA StringifyParts ==
  ASSUME NEW a \in Seq(Bytes), NEW b \in Seq(Bytes),
         NEW s, s = <<"[">> \o a \o <<Comma>> \o b \o <<"]">>
  PROVE  s \in Seq(Bytes) /\ ArrayOf(a, b, s)
  <1>. DEFINE x == <<"[">>  y == <<Comma>>  z == <<"]">>
  <1>1. "[" \in Bytes /\ Comma \in Bytes /\ "]" \in Bytes
    BY SyntaxAssumption, CommaIsSpace
  <1>2. x \in Seq(Bytes) /\ y \in Seq(Bytes) /\ z \in Seq(Bytes)
    BY <1>1, OneByte
  <1>3. Len(x) = 1 /\ x[1] = "[" /\ Len(y) = 1 /\ y[1] = Comma /\ Len(z) = 1 /\ z[1] = "]"
    BY <1>1, OneByte
  <1>4. s = x \o a \o y \o b \o z
    OBVIOUS
  <1>. HIDE DEF x, y, z
  <1>5. s \in Seq(Bytes) /\ Five(x, a, y, b, z, s)
    BY <1>2, <1>4, Joined5
  <1>6. Len(a) \in Nat /\ Len(b) \in Nat
    BY LengthIsNat
  <1>7. ArrayOf(a, b, s)
    BY <1>3, <1>5, <1>6, PartsAt
  <1>. QED BY <1>5, <1>7

\* A string is read where it stands.
LEMMA ReadThere ==
  ASSUME NEW q, NEW t, ReadsAs(q, t), NEW s \in Seq(Bytes), NEW p \in Nat \ {0},
         p + Len(q) - 1 <= Len(s), \A j \in 1..Len(q) : s[p - 1 + j] = q[j]
  PROVE  ReadJsonString(s, p) = Reader(p + Len(q), t, "read")
  BY Zenon DEF ReadsAs

\* The two strings of such an array are read where they stand.
LEMMA ArrayStrings ==
  ASSUME NEW a \in Seq(Bytes), NEW b \in Seq(Bytes), NEW qa, NEW qb, NEW s \in Seq(Bytes),
         ArrayOf(qa, qb, s), ReadsAs(qa, a), ReadsAs(qb, b), Len(qa) \in Nat, Len(qb) \in Nat,
         Len(qa) >= 1, Len(qb) >= 1, qa[1] = "'", qb[1] = "'"
  PROVE  /\ StringAt(s, 2, Len(qa) + 2, a)
         /\ StringAt(s, Len(qa) + 3, Len(qa) + Len(qb) + 3, b)
  <1>. DEFINE m == Len(qa)  n == Len(qb)
  <1>1. /\ Len(s) = m + n + 3
        /\ \A i \in 1..m : s[i + 1] = qa[i]
        /\ \A i \in 1..n : s[m + 2 + i] = qb[i]
    BY DEF ArrayOf
  <1>2. s[2] = "'"
    <2>1. 1 \in 1..m /\ 1 + 1 = 2
      OBVIOUS
    <2>. QED BY <1>1, <2>1
  <1>3. s[m + 3] = "'"
    <2>1. 1 \in 1..n /\ m + 2 + 1 = m + 3
      OBVIOUS
    <2>2. s[m + 2 + 1] = qb[1]
      BY <1>1, <2>1, Zenon
    <2>. QED BY <2>1, <2>2
  <1>4. ReadJsonString(s, 2) = Reader(m + 2, a, "read")
    <2>1. ASSUME NEW j \in 1..Len(qa) PROVE s[2 - 1 + j] = qa[j]
      <3>1. s[j + 1] = qa[j]
        BY <1>1, Zenon
      <3>2. 2 - 1 + j = j + 1
        OBVIOUS
      <3>. QED BY <3>1, <3>2
    <2>2. 2 \in Nat \ {0} /\ 2 + Len(qa) - 1 <= Len(s) /\ 2 + Len(qa) = m + 2
      BY <1>1
    <2>3. ReadJsonString(s, 2) = Reader(2 + Len(qa), a, "read")
      BY <2>1, <2>2, ReadThere, Zenon
    <2>. QED BY <2>2, <2>3
  <1>5. ReadJsonString(s, m + 3) = Reader(m + n + 3, b, "read")
    <2>1. ASSUME NEW j \in 1..Len(qb) PROVE s[m + 3 - 1 + j] = qb[j]
      <3>1. s[m + 2 + j] = qb[j]
        BY <1>1, Zenon
      <3>2. m + 3 - 1 + j = m + 2 + j
        OBVIOUS
      <3>. QED BY <3>1, <3>2
    <2>2. m + 3 \in Nat \ {0} /\ m + 3 + Len(qb) - 1 <= Len(s) /\ m + 3 + Len(qb) = m + n + 3
      BY <1>1
    <2>. DEFINE p == m + 3
    <2>3. p \in Nat \ {0} /\ p + Len(qb) - 1 <= Len(s) /\ \A j \in 1..Len(qb) : s[p - 1 + j] = qb[j]
      <3>1. \A j \in 1..Len(qb) : s[p - 1 + j] = qb[j]
        BY <2>1
      <3>. QED BY <2>2, <3>1
    <2>. HIDE DEF p
    <2>4. ReadJsonString(s, p) = Reader(p + Len(qb), b, "read")
      BY <2>3, ReadThere, Zenon
    <2>. QED BY <2>2, <2>4 DEF p
  <1>6. 2 <= Len(s) /\ m + 3 <= Len(s)
    BY <1>1
  <1>. QED BY <1>2, <1>3, <1>4, <1>5, <1>6 DEF StringAt

\* A pair, one after the other.
LEMMA PairOf ==
  ASSUME NEW S, NEW a \in S, NEW b \in S
  PROVE  /\ <<>> \in Seq(S) /\ <<a>> \in Seq(S) /\ <<a, b>> \in Seq(S)
         /\ Append(<<>>, a) = <<a>> /\ Append(<<a>>, b) = <<a, b>>
  <1>1. <<>> \in Seq(S) /\ <<a>> \in Seq(S) /\ <<a, b>> \in Seq(S)
    OBVIOUS
  <1>2. Append(<<>>, a) = <<a>>
    OBVIOUS
  <1>3. Append(<<a>>, b) = <<a, b>>
    <2>. DEFINE u == <<a>>  v == Append(u, b)  w == <<a, b>>
    <2>1. u \in Seq(S) /\ Len(u) = 1 /\ u[1] = a
      OBVIOUS
    <2>. HIDE DEF u
    <2>2. v \in Seq(S) /\ Len(v) = Len(u) + 1 /\ v[Len(u) + 1] = b /\ \A i \in 1..Len(u) : v[i] = u[i]
      <3>1. u \in Seq(S)
        BY <2>1
      <3>. QED BY <3>1
    <2>. HIDE DEF v
    <2>3. Len(v) = 2 /\ v[2] = b /\ v[1] = a
      BY <2>1, <2>2
    <2>4. Len(w) = 2 /\ w[1] = a /\ w[2] = b /\ w \in Seq(S)
      OBVIOUS
    <2>. HIDE DEF w
    <2>5. \A i \in 1..2 : v[i] = w[i]
      BY <2>3, <2>4
    <2>6. v = w
      BY <2>2, <2>3, <2>4, <2>5, SeqEqual
    <2>. QED BY <2>6 DEF u, v, w
  <1>. QED BY <1>1, <1>2, <1>3

\* Five steps over an array of two strings.
LEMMA ArrayRead ==
  ASSUME NEW a \in Seq(Bytes), NEW b \in Seq(Bytes), NEW qa, NEW qb, NEW s \in Seq(Bytes),
         ArrayOf(qa, qb, s), Len(qa) \in Nat, Len(qb) \in Nat, Len(qa) >= 1, Len(qb) >= 1,
         StringAt(s, 2, Len(qa) + 2, a), StringAt(s, Len(qa) + 3, Len(qa) + Len(qb) + 3, b)
  PROVE  ParseJsonStringArray(s) = <<a, b>>
  <1>. DEFINE m == Len(qa)  n == Len(qb)
  <1>0. /\ m \in Nat /\ n \in Nat /\ m >= 1 /\ n >= 1 /\ Len(s) = m + n + 3
        /\ s[1] = "[" /\ s[m + 2] = Comma /\ s[m + n + 3] = "]"
        /\ StringAt(s, 2, m + 2, a) /\ StringAt(s, m + 3, m + n + 3, b)
    BY DEF ArrayOf
  <1>. HIDE DEF m, n
  <1>. DEFINE a0 == Array(2, <<>>, FALSE)  a1 == Array(m + 2, <<a>>, FALSE)
              a2 == Array(m + 3, <<a>>, FALSE)  a3 == Array(m + n + 3, <<a, b>>, FALSE)
              a4 == Array(m + n + 3, <<a, b>>, TRUE)  one == ItemOnce(s)
              w == [k \in Nat |-> IF k = 0 THEN a0 ELSE IF k = 1 THEN a1 ELSE IF k = 2 THEN a2
                                  ELSE IF k = 3 THEN a3 ELSE a4]
  <1>1. /\ 2 \in Nat /\ m + 2 \in Nat /\ m + 3 \in Nat /\ m + n + 3 \in Nat /\ Len(s) \in Nat
        /\ m + 2 <= Len(s) /\ m + 2 + 1 = m + 3
    BY <1>0
  <1>2. /\ <<>> \in Seq(Seq(Bytes)) /\ <<a>> \in Seq(Seq(Bytes)) /\ <<a, b>> \in Seq(Seq(Bytes))
        /\ Append(<<>>, a) = <<a>> /\ Append(<<a>>, b) = <<a, b>>
    BY PairOf
  <1>3. one[a0] = a1
    <2>. DEFINE e == m + 2
    <2>1. StringAt(s, 2, e, a) /\ e \in Nat /\ 2 \in Nat /\ Len(s) \in Nat /\ <<>> \in Seq(Seq(Bytes))
      BY <1>0, <1>1, <1>2, Zenon
    <2>. HIDE DEF e
    <2>2. StepLeads(s, 2, <<>>, e, Append(<<>>, a))
      BY <2>1, ItemString
    <2>. QED BY <1>2, <2>2, Zenon DEF e, StepLeads
  <1>4. one[a1] = a2
    <2>1. one[a1] = Array(m + 2 + 1, <<a>>, FALSE)
      BY <1>0, <1>1, <1>2, ItemComma, Zenon
    <2>. QED BY <1>1, <2>1, Zenon
  <1>5. one[a2] = a3
    <2>. DEFINE e == m + n + 3  p == m + 3  i == <<a>>
    <2>1. StringAt(s, p, e, b) /\ e \in Nat /\ p \in Nat /\ Len(s) \in Nat /\ i \in Seq(Seq(Bytes))
      BY <1>0, <1>1, <1>2, Zenon
    <2>. HIDE DEF e, p, i
    <2>2. StepLeads(s, p, i, e, Append(i, b))
      BY <2>1, ItemString
    <2>. QED BY <1>2, <2>2, Zenon DEF e, p, i, StepLeads
  <1>6. one[a3] = a4 /\ one[a4] = a4
    BY <1>0, <1>1, <1>2, ItemClosing, Zenon
  <1>7. a4.items = <<a, b>>
    BY <1>1, <1>2, ArrayFields
  <1>8. w[0] = a0 /\ w[1] = a1 /\ w[2] = a2 /\ w[3] = a3 /\ \A k \in Nat : k > 3 => w[k] = a4
    <2>. HIDE DEF a0, a1, a2, a3, a4
    <2>. QED OBVIOUS
  <1>. HIDE DEF a0, a1, a2, a3, a4, w, one
  <1>9. ASSUME NEW k \in 1..Len(s) PROVE w[k] = one[w[k - 1]]
    <2>1. CASE k = 1
      BY <1>3, <1>8, <2>1
    <2>2. CASE k = 2
      BY <1>4, <1>8, <2>2
    <2>3. CASE k = 3
      BY <1>5, <1>8, <2>3
    <2>4. CASE k = 4
      BY <1>6, <1>8, <2>4
    <2>5. CASE k > 4
      <3>1. k \in Nat /\ k - 1 \in Nat /\ k > 3 /\ k - 1 > 3
        BY <2>5
      <3>2. w[k] = a4 /\ w[k - 1] = a4
        BY <1>8, <3>1
      <3>. QED BY <1>6, <3>2
    <2>6. k = 1 \/ k = 2 \/ k = 3 \/ k = 4 \/ k > 4
      OBVIOUS
    <2>. QED BY <2>1, <2>2, <2>3, <2>4, <2>5, <2>6
  <1>10. Len(s) > 3 /\ 1 <= Len(s)
    BY <1>0
  <1>11. ParseJsonStringArray(s) = w[Len(s)].items
    <2>1. w[0] = Array(2, <<>>, FALSE)
      BY <1>8 DEF a0
    <2>2. \A k \in 1..Len(s) : w[k] = ItemOnce(s)[w[k - 1]]
      BY <1>9 DEF one
    <2>. QED BY <1>0, <1>1, <1>10, <2>1, <2>2, ArrayTurns
  <1>12. w[Len(s)] = a4
    BY <1>1, <1>8, <1>10
  <1>. QED BY <1>7, <1>11, <1>12

\* The program takes out of the JSON it is called with what the page put in.
LEMMA ArgumentsRead ==
  ASSUME NEW a \in Seq(Bytes), NEW b \in Seq(Bytes)
  PROVE  ParseJsonStringArray(Stringify(a, b)) = <<a, b>>
  <1>. DEFINE qa == JsQuote(a)  qb == JsQuote(b)  s == Stringify(a, b)
  <1>1. qa \in Seq(InLine) /\ ReadsAs(qa, a) /\ Len(qa) >= 2 /\ qa[1] = "'"
    BY JsQuoteReads
  <1>2. qb \in Seq(InLine) /\ ReadsAs(qb, b) /\ Len(qb) >= 2 /\ qb[1] = "'"
    BY JsQuoteReads
  <1>3. s = <<"[">> \o qa \o <<Comma>> \o qb \o <<"]">>
    BY Zenon DEF Stringify, Comma
  <1>. HIDE DEF qa, qb, s
  <1>4. InLine \subseteq Bytes
    BY Syntax
  <1>5. qa \in Seq(Bytes) /\ qb \in Seq(Bytes)
    <2>1. qa \in Seq(Bytes)
      BY <1>1, <1>4
    <2>2. qb \in Seq(Bytes)
      BY <1>2, <1>4
    <2>. QED BY <2>1, <2>2
  <1>6. Len(qa) \in Nat /\ Len(qb) \in Nat
    BY <1>5, LengthIsNat
  <1>7. s \in Seq(Bytes) /\ ArrayOf(qa, qb, s)
    BY <1>3, <1>5, StringifyParts
  <1>8. Len(qa) >= 1 /\ Len(qb) >= 1
    BY <1>1, <1>2, <1>6
  <1>9. /\ StringAt(s, 2, Len(qa) + 2, a)
        /\ StringAt(s, Len(qa) + 3, Len(qa) + Len(qb) + 3, b)
    BY <1>1, <1>2, <1>6, <1>7, <1>8, ArrayStrings
  <1>10. ParseJsonStringArray(s) = <<a, b>>
    BY <1>6, <1>7, <1>8, <1>9, ArrayRead
  <1>. QED BY <1>10 DEF s

-----------------------------------------------------------------------------
\* A number is read as it was written.

\* The bytes a number is written with.
DigitBytes == {Digit(d) : d \in 0..9}

\* Each has its value, and none is a colon.
LEMMA DigitValues ==
  /\ DOMAIN Value = DigitBytes
  /\ \A d \in 0..9 : Digit(d) \in DigitBytes /\ Value[Digit(d)] = d
  /\ ":" \notin DigitBytes /\ DigitBytes \subseteq Bytes
  <1>1. DOMAIN Value = DigitBytes
    BY DEF Value, DigitBytes
  <1>2. /\ Digit(0) = "0" /\ Digit(1) = "1" /\ Digit(2) = "2" /\ Digit(3) = "3" /\ Digit(4) = "4"
        /\ Digit(5) = "5" /\ Digit(6) = "6" /\ Digit(7) = "7" /\ Digit(8) = "8" /\ Digit(9) = "9"
    BY DEF Digit, Digits
  <1>3. \A d \in 0..9 : d = 0 \/ d = 1 \/ d = 2 \/ d = 3 \/ d = 4 \/ d = 5 \/ d = 6 \/ d = 7 \/ d = 8 \/ d = 9
    OBVIOUS
  <1>4. \A d, e \in 0..9 : Digit(d) = Digit(e) => d = e
    BY <1>2, <1>3
  <1>5. ASSUME NEW d \in 0..9 PROVE Digit(d) \in DigitBytes /\ Value[Digit(d)] = d
    <2>1. Digit(d) \in DigitBytes
      BY DEF DigitBytes
    <2>2. Value[Digit(d)] = CHOOSE e \in 0..9 : Digit(e) = Digit(d)
      BY <2>1 DEF Value, DigitBytes
    <2>3. (CHOOSE e \in 0..9 : Digit(e) = Digit(d)) = d
      BY <1>4
    <2>. QED BY <2>1, <2>2, <2>3
  <1>6. ":" \notin DigitBytes
    <2>1. \A d \in 0..9 : Digit(d) # ":"
      BY <1>2, <1>3
    <2>. QED BY <2>1 DEF DigitBytes
  <1>7. DigitBytes \subseteq Bytes
    <2>1. \A d \in 0..9 : Digit(d) \in Bytes
      BY <1>2, <1>3, HeaderAssumption
    <2>. QED BY <2>1 DEF DigitBytes
  <1>. QED BY <1>1, <1>5, <1>6, <1>7

\* u is a text of the number n: v is the value of its first k digits.
Valued(u, n, v) ==
  /\ v[0] = 0 /\ v[Len(u)] = n
  /\ \A k \in 1..Len(u) : v[k] = 10 * v[k - 1] + Value[u[k]]
NumberText(u, n) == u \in Seq(DigitBytes) /\ Len(u) > 0 /\ \E v : Valued(u, n, v)

\* A digit is a text of its number,
LEMMA OneDigit ==
  ASSUME NEW d \in 0..9
  PROVE  NumberText(<<Digit(d)>>, d)
  <1>. DEFINE c == Digit(d)  u == <<c>>  v == [k \in 0..1 |-> IF k = 0 THEN 0 ELSE d]
  <1>1. c \in DigitBytes /\ Value[c] = d
    BY DigitValues
  <1>. HIDE DEF c
  <1>2. u \in Seq(DigitBytes) /\ Len(u) = 1 /\ u[1] = c
    BY <1>1
  <1>. HIDE DEF u
  <1>3. v[0] = 0 /\ v[1] = d
    OBVIOUS
  <1>. HIDE DEF v
  <1>4. v[1] = 10 * v[0] + Value[u[1]]
    BY <1>1, <1>2, <1>3
  <1>5. \A k \in 1..1 : k = 1 /\ k - 1 = 0
    OBVIOUS
  <1>6. \A k \in 1..Len(u) : v[k] = 10 * v[k - 1] + Value[u[k]]
    BY <1>2, <1>4, <1>5
  <1>7. Valued(u, d, v)
    BY <1>2, <1>3, <1>6 DEF Valued
  <1>. QED BY <1>2, <1>7 DEF NumberText, u, c

\* and with one more digit that of ten times the number and the digit's.
LEMMA MoreDigits ==
  ASSUME NEW u, NEW m \in Nat, NumberText(u, m), NEW d \in 0..9
  PROVE  NumberText(Append(u, Digit(d)), 10 * m + d)
  <1>. DEFINE c == Digit(d)  w == Append(u, c)  l == Len(u)
  <1>1. c \in DigitBytes /\ Value[c] = d
    BY DigitValues
  <1>2. u \in Seq(DigitBytes) /\ l \in Nat \ {0}
    BY DEF NumberText
  <1>. HIDE DEF c
  <1>3. w \in Seq(DigitBytes) /\ Len(w) = l + 1 /\ w[l + 1] = c /\ \A k \in 1..l : w[k] = u[k]
    BY <1>1, <1>2
  <1>. HIDE DEF w, l
  <1>4. PICK v : Valued(u, m, v)
    BY DEF NumberText
  <1>5. v[0] = 0 /\ v[l] = m /\ \A k \in 1..l : v[k] = 10 * v[k - 1] + Value[u[k]]
    BY <1>4 DEF Valued, l
  <1>. DEFINE x == [k \in 0..l + 1 |-> IF k = l + 1 THEN 10 * m + d ELSE v[k]]
  <1>6. x[l + 1] = 10 * m + d /\ \A k \in 0..l : x[k] = v[k]
    BY <1>2
  <1>. HIDE DEF x
  <1>7. x[0] = 0 /\ x[l] = m
    BY <1>2, <1>5, <1>6
  <1>8. ASSUME NEW k \in 1..l + 1 PROVE x[k] = 10 * x[k - 1] + Value[w[k]]
    <2>1. CASE k = l + 1
      <3>1. k - 1 = l
        BY <1>2, <2>1
      <3>. QED BY <1>1, <1>3, <1>6, <1>7, <2>1, <3>1
    <2>2. CASE k # l + 1
      <3>1. k \in 1..l /\ k \in 0..l /\ k - 1 \in 0..l
        BY <1>2, <2>2
      <3>2. x[k] = v[k] /\ x[k - 1] = v[k - 1] /\ w[k] = u[k]
        BY <1>3, <1>6, <3>1
      <3>3. v[k] = 10 * v[k - 1] + Value[u[k]]
        BY <1>5, <3>1
      <3>. QED BY <3>2, <3>3
    <2>. QED BY <2>1, <2>2
  <1>9. Valued(w, 10 * m + d, x)
    BY <1>3, <1>6, <1>7, <1>8 DEF Valued
  <1>10. w \in Seq(DigitBytes) /\ Len(w) > 0
    BY <1>2, <1>3
  <1>. QED BY <1>9, <1>10 DEF NumberText, w, c

\* ParseNumber finds the number.
LEMMA NumberParsed ==
  ASSUME NEW u, NEW n \in Nat, NumberText(u, n)
  PROVE  ParseNumber(u) = n
  <1>. DEFINE l == Len(u)
              f == CHOOSE f : f = [k \in 0..l |-> IF k = 0 THEN 0 ELSE 10 * f[k - 1] + Value[u[k]]]
  <1>1. u \in Seq(DigitBytes) /\ l > 0 /\ l \in Nat
    BY DEF NumberText
  <1>2. \A i \in 1..l : u[i] \in DOMAIN Value
    BY <1>1, DigitValues
  <1>3. ParseNumber(u) = IF l > 0 /\ \A i \in 1..l : u[i] \in DOMAIN Value THEN f[l] ELSE -1
    BY DEF ParseNumber
  <1>4. ParseNumber(u) = f[l]
    BY <1>1, <1>2, <1>3
  <1>5. PICK v : Valued(u, n, v)
    BY DEF NumberText
  <1>6. v[0] = 0 /\ v[l] = n /\ \A k \in 1..l : v[k] = 10 * v[k - 1] + Value[u[k]]
    BY <1>5 DEF Valued
  <1>. DEFINE g == [k \in 0..l |-> v[k]]
  <1>. HIDE DEF l
  <1>7. g = [k \in 0..l |-> IF k = 0 THEN 0 ELSE 10 * g[k - 1] + Value[u[k]]]
    <2>1. g = [k \in 0..l |-> g[k]]
      OBVIOUS
    <2>2. ASSUME NEW k \in 0..l PROVE g[k] = IF k = 0 THEN 0 ELSE 10 * g[k - 1] + Value[u[k]]
      <3>1. CASE k = 0
        BY <1>6, <3>1
      <3>2. CASE k # 0
        <4>1. k \in 1..l /\ k - 1 \in 0..l
          BY <1>1, <3>2
        <4>2. g[k] = v[k] /\ g[k - 1] = v[k - 1]
          BY <4>1
        <4>3. v[k] = 10 * v[k - 1] + Value[u[k]]
          BY <1>6, <4>1
        <4>. HIDE DEF g
        <4>. QED BY <3>2, <4>2, <4>3
      <3>. QED BY <3>1, <3>2
    <2>. HIDE DEF g
    <2>. QED BY <2>1, <2>2
  <1>. HIDE DEF g
  <1>8. f = [k \in 0..l |-> IF k = 0 THEN 0 ELSE 10 * f[k - 1] + Value[u[k]]]
    BY <1>7
  <1>. HIDE DEF f
  <1>9. f[0] = v[0]
    BY <1>1, <1>6, <1>8
  <1>10. ASSUME NEW k \in 1..l, f[k - 1] = v[k - 1] PROVE f[k] = v[k]
    <2>1. k \in 0..l /\ k # 0
      BY <1>1
    <2>2. f[k] = 10 * f[k - 1] + Value[u[k]]
      BY <1>8, <2>1
    <2>3. v[k] = 10 * v[k - 1] + Value[u[k]]
      BY <1>6
    <2>. QED BY <1>10, <2>2, <2>3
  <1>11. f[l] = v[l]
    BY <1>1, <1>9, <1>10, SameTurns
  <1>. QED BY <1>4, <1>6, <1>11

\* Dividing by ten.
LEMMA Tenths ==
  ASSUME NEW k \in Nat
  PROVE  /\ k \div 10 \in Nat /\ k % 10 \in 0..9 /\ k = 10 * (k \div 10) + (k % 10)
         /\ k >= 10 => k \div 10 < k
  <1>1. k \div 10 \in Nat /\ k % 10 \in 0..9
    OBVIOUS
  <1>2. k = 10 * (k \div 10) + (k % 10)
    OBVIOUS
  <1>. DEFINE q == k \div 10  r == k % 10
  <1>. HIDE DEF q, r
  <1>3. k >= 10 => q < k
    BY <1>1, <1>2 DEF q, r
  <1>. QED BY <1>1, <1>2, <1>3 DEF q

\* f holds the texts of the numbers up to n.
Writing(f, n) ==
  \A k \in 0..n : f[k] = IF k < 10 THEN <<Digit(k)>> ELSE Append(f[k \div 10], Digit(k % 10))

\* There is such a function,
LEMMA WritingExists ==
  ASSUME NEW n \in Nat
  PROVE  \E f : Writing(f, n)
  <1>. DEFINE T == {m \in Nat : \E f : Writing(f, m)}
  <1>1. 0 \in T
    <2>. DEFINE f == [k \in 0..0 |-> <<Digit(0)>>]
    <2>1. \A k \in 0..0 : k = 0 /\ k < 10 /\ f[k] = <<Digit(0)>>
      OBVIOUS
    <2>. HIDE DEF f
    <2>2. Writing(f, 0)
      BY <2>1 DEF Writing
    <2>. QED BY <2>2
  <1>2. ASSUME NEW m \in 0..n - 1, m \in T PROVE m + 1 \in T
    <2>1. PICK f : Writing(f, m)
      BY <1>2
    <2>. DEFINE j == m + 1
                new == IF j < 10 THEN <<Digit(j)>> ELSE Append(f[j \div 10], Digit(j % 10))
                g == [k \in 0..j |-> IF k = j THEN new ELSE f[k]]
    <2>2. m \in Nat /\ j \in Nat /\ j = m + 1
      OBVIOUS
    <2>. HIDE DEF new, j
    <2>3. g[j] = new /\ \A k \in 0..m : g[k] = f[k]
      BY <2>2
    <2>. HIDE DEF g
    <2>4. ASSUME NEW k \in 0..j
          PROVE  g[k] = IF k < 10 THEN <<Digit(k)>> ELSE Append(g[k \div 10], Digit(k % 10))
      <3>1. k \in Nat /\ k \div 10 \in Nat /\ (k >= 10 => k \div 10 < k)
        BY <2>2, Tenths
      <3>2. k >= 10 => g[k \div 10] = f[k \div 10]
        <4>1. k >= 10 => k \div 10 \in 0..m
          BY <2>2, <3>1
        <4>. QED BY <2>3, <4>1
      <3>3. CASE k = j
        <4>1. g[k] = IF k < 10 THEN <<Digit(k)>> ELSE Append(f[k \div 10], Digit(k % 10))
          BY <2>3, <3>3 DEF new
        <4>2. CASE k < 10
          BY <4>1, <4>2
        <4>3. CASE ~(k < 10)
          <5>1. k >= 10
            BY <3>1, <4>3
          <5>2. g[k \div 10] = f[k \div 10]
            BY <3>2, <5>1
          <5>. QED BY <4>1, <4>3, <5>2
        <4>. QED BY <4>2, <4>3
      <3>4. CASE k # j
        <4>1. k \in 0..m /\ g[k] = f[k]
          BY <2>2, <2>3, <3>4
        <4>2. f[k] = IF k < 10 THEN <<Digit(k)>> ELSE Append(f[k \div 10], Digit(k % 10))
          BY <2>1, <4>1 DEF Writing
        <4>3. CASE k < 10
          BY <4>1, <4>2, <4>3
        <4>4. CASE ~(k < 10)
          <5>1. k >= 10
            BY <3>1, <4>4
          <5>2. g[k \div 10] = f[k \div 10]
            BY <3>2, <5>1
          <5>. QED BY <4>1, <4>2, <4>4, <5>2
        <4>. QED BY <4>3, <4>4
      <3>. QED BY <3>3, <3>4
    <2>5. Writing(g, j)
      BY <2>4 DEF Writing
    <2>. QED BY <2>2, <2>5
  <1>3. T \in SUBSET Nat
    OBVIOUS
  <1>. HIDE DEF T
  <1>4. \A k \in 0..n : k \in T
    BY <1>1, <1>2, <1>3, Upward
  <1>5. n \in T
    BY <1>4
  <1>. QED BY <1>5 DEF T

\* and what it holds are texts of the numbers.
LEMMA WritingIs ==
  ASSUME NEW n \in Nat, NEW f, Writing(f, n)
  PROVE  NumberText(f[n], n)
  <1>. DEFINE T == {m \in Nat : \A k \in 0..m : k <= n => NumberText(f[k], k)}
  <1>1. ASSUME NEW k \in 0..n, \A j \in 0..k - 1 : NumberText(f[j], j)
        PROVE  NumberText(f[k], k)
    <2>1. f[k] = IF k < 10 THEN <<Digit(k)>> ELSE Append(f[k \div 10], Digit(k % 10))
      BY DEF Writing
    <2>2. k \in Nat
      OBVIOUS
    <2>3. CASE k < 10
      <3>1. k \in 0..9 /\ f[k] = <<Digit(k)>>
        BY <2>1, <2>3
      <3>. QED BY <3>1, OneDigit
    <2>4. CASE ~(k < 10)
      <3>. DEFINE q == k \div 10  r == k % 10
      <3>1. q \in Nat /\ r \in 0..9 /\ k = 10 * q + r /\ q < k
        BY <2>2, <2>4, Tenths
      <3>2. f[k] = Append(f[q], Digit(r))
        BY <2>1, <2>4
      <3>. HIDE DEF q, r
      <3>3. q \in 0..k - 1
        BY <3>1
      <3>4. NumberText(f[q], q)
        BY <1>1, <3>3
      <3>5. NumberText(Append(f[q], Digit(r)), 10 * q + r)
        BY <3>1, <3>4, MoreDigits
      <3>. QED BY <3>1, <3>2, <3>5
    <2>. QED BY <2>3, <2>4
  <1>2. 0 \in T
    <2>1. NumberText(f[0], 0)
      <3>1. 0 \in 0..n /\ 0..0 - 1 = {}
        OBVIOUS
      <3>. QED BY <1>1, <3>1
    <2>2. \A k \in 0..0 : k = 0
      OBVIOUS
    <2>. QED BY <2>1, <2>2
  <1>3. ASSUME NEW m \in 0..n - 1, m \in T PROVE m + 1 \in T
    <2>1. \A k \in 0..m : NumberText(f[k], k)
      <3>1. \A k \in 0..m : k <= n
        OBVIOUS
      <3>. QED BY <1>3, <3>1
    <2>2. m + 1 \in 0..n /\ (m + 1) - 1 = m /\ m + 1 \in Nat
      OBVIOUS
    <2>3. NumberText(f[m + 1], m + 1)
      BY <1>1, <2>1, <2>2
    <2>4. \A k \in 0..m + 1 : k \in 0..m \/ k = m + 1
      OBVIOUS
    <2>5. \A k \in 0..m + 1 : NumberText(f[k], k)
      BY <2>1, <2>3, <2>4
    <2>. QED BY <2>2, <2>5
  <1>4. T \in SUBSET Nat
    OBVIOUS
  <1>. HIDE DEF T
  <1>5. \A k \in 0..n : k \in T
    BY <1>2, <1>3, <1>4, Upward
  <1>6. n \in T
    BY <1>5
  <1>7. n \in 0..n /\ n <= n
    OBVIOUS
  <1>. QED BY <1>6, <1>7 DEF T

\* So std::to_string writes a text of the number, and ParseNumber reads it.
LEMMA DecimalRead ==
  ASSUME NEW n \in Nat
  PROVE  NumberText(Decimal(n), n) /\ ParseNumber(Decimal(n)) = n
  <1>. DEFINE text == CHOOSE text : text =
                [k \in 0..n |-> IF k < 10 THEN <<Digit(k)>> ELSE Append(text[k \div 10], Digit(k % 10))]
  <1>1. Decimal(n) = text[n]
    BY DEF Decimal
  <1>2. PICK f : Writing(f, n)
    BY WritingExists
  <1>. DEFINE g == [k \in 0..n |-> f[k]]
  <1>3. g = [k \in 0..n |-> IF k < 10 THEN <<Digit(k)>> ELSE Append(g[k \div 10], Digit(k % 10))]
    <2>1. g = [k \in 0..n |-> g[k]]
      OBVIOUS
    <2>2. ASSUME NEW k \in 0..n
          PROVE  g[k] = IF k < 10 THEN <<Digit(k)>> ELSE Append(g[k \div 10], Digit(k % 10))
      <3>1. g[k] = f[k] /\ k \in Nat
        OBVIOUS
      <3>2. f[k] = IF k < 10 THEN <<Digit(k)>> ELSE Append(f[k \div 10], Digit(k % 10))
        BY <1>2 DEF Writing
      <3>3. CASE k < 10
        BY <3>1, <3>2, <3>3
      <3>4. CASE ~(k < 10)
        <4>1. k \div 10 \in Nat /\ k \div 10 < k
          BY <3>1, <3>4, Tenths
        <4>2. k \div 10 \in 0..n
          BY <4>1
        <4>3. g[k \div 10] = f[k \div 10]
          BY <4>2
        <4>. HIDE DEF g
        <4>. QED BY <3>1, <3>2, <3>4, <4>3
      <3>. QED BY <3>3, <3>4
    <2>. HIDE DEF g
    <2>. QED BY <2>1, <2>2
  <1>. HIDE DEF g
  <1>4. text = [k \in 0..n |-> IF k < 10 THEN <<Digit(k)>> ELSE Append(text[k \div 10], Digit(k % 10))]
    BY <1>3
  <1>. HIDE DEF text
  <1>5. Writing(text, n)
    BY <1>4 DEF Writing
  <1>6. NumberText(text[n], n)
    BY <1>5, WritingIs
  <1>. QED BY <1>1, <1>6, NumberParsed

-----------------------------------------------------------------------------
\* A frame is found where it was written.

\* f is the frame of the text t, and u its length in digits.
FrameParts(u, t, f) ==
  /\ Len(f) = Len(u) + Len(t) + 5
  /\ \A i \in 1..4 : f[i] = Prefix[i]
  /\ \A i \in 1..Len(u) : f[4 + i] = u[i]
  /\ f[Len(u) + 5] = ":"
  /\ \A i \in 1..Len(t) : f[Len(u) + 5 + i] = t[i]
FrameOf(t, f) == FrameParts(Decimal(Len(t)), t, f)

\* The bytes in front of the length.
LEMMA PrefixBytes == Prefix \in Seq(Bytes) /\ Len(Prefix) = 4 /\ ":" \in Bytes
  <1>1. "M" \in Bytes /\ "S" \in Bytes /\ "G" \in Bytes /\ ":" \in Bytes
    BY HeaderAssumption
  <1>2. Prefix \in Seq(Bytes)
    BY <1>1 DEF Prefix
  <1>3. Len(Prefix) = 4
    BY DEF Prefix
  <1>. QED BY <1>1, <1>2, <1>3

\* The length is written in digits, at least one.
LEMMA DecimalBytes ==
  ASSUME NEW n \in Nat
  PROVE  /\ Decimal(n) \in Seq(Bytes) /\ Len(Decimal(n)) \in Nat /\ Len(Decimal(n)) >= 1
         /\ \A i \in 1..Len(Decimal(n)) : Decimal(n)[i] # ":"
  <1>. DEFINE u == Decimal(n)
  <1>1. u \in Seq(DigitBytes) /\ Len(u) > 0
    BY DecimalRead DEF NumberText
  <1>. HIDE DEF u
  <1>2. DigitBytes \subseteq Bytes /\ ":" \notin DigitBytes
    BY DigitValues
  <1>3. u \in Seq(Bytes)
    BY <1>1, <1>2
  <1>4. Len(u) \in Nat /\ Len(u) >= 1
    BY <1>1
  <1>5. \A i \in 1..Len(u) : u[i] # ":"
    BY <1>1, <1>2
  <1>. QED BY <1>3, <1>4, <1>5 DEF u

\* Where four sequences stand of which the third is a colon.
LEMMA FramePartsAt ==
  ASSUME NEW u, NEW t, NEW y, NEW z, NEW f, Five(Prefix, u, y, t, z, f),
         Len(u) \in Nat, Len(t) \in Nat, Len(y) = 1, y[1] = ":", Len(z) = 0
  PROVE  FrameParts(u, t, f)
  <1>. DEFINE m == Len(u)  n == Len(t)  lx == Len(Prefix)  ly == Len(y)  lz == Len(z)
  <1>1. /\ Len(f) = lx + m + ly + n + lz
        /\ \A i \in 1..lx : f[i] = Prefix[i]
        /\ \A i \in 1..m : f[lx + i] = u[i]
        /\ \A i \in 1..ly : f[lx + m + i] = y[i]
        /\ \A i \in 1..n : f[lx + m + ly + i] = t[i]
    BY Zenon DEF Five
  <1>2. m \in Nat /\ n \in Nat /\ lx = 4 /\ ly = 1 /\ lz = 0
    BY PrefixBytes
  <1>. HIDE DEF m, n, lx, ly, lz
  <1>3. Len(f) = m + n + 5
    BY <1>1, <1>2
  <1>4. \A i \in 1..4 : f[i] = Prefix[i]
    BY <1>1, <1>2, Zenon
  <1>5. \A i \in 1..m : f[4 + i] = u[i]
    BY <1>1, <1>2, Zenon
  <1>6. f[m + 5] = ":"
    <2>1. 1 \in 1..ly /\ lx + m + 1 = m + 5
      BY <1>2
    <2>2. f[lx + m + 1] = y[1]
      BY <1>1, <2>1, Zenon
    <2>. QED BY <2>1, <2>2, Zenon
  <1>7. ASSUME NEW i \in 1..n PROVE f[m + 5 + i] = t[i]
    <2>1. f[lx + m + ly + i] = t[i]
      BY <1>1, Zenon
    <2>2. lx + m + ly + i = m + 5 + i
      BY <1>2
    <2>. QED BY <2>1, <2>2, Zenon
  <1>. QED BY <1>3, <1>4, <1>5, <1>6, <1>7, Zenon DEF m, n, FrameParts

\* This is what Frame makes.
LEMMA FrameIs ==
  ASSUME NEW t \in Seq(Bytes)
  PROVE  Frame(t) \in Seq(Bytes) /\ FrameOf(t, Frame(t))
  <1>. DEFINE u == Decimal(Len(t))  y == <<":">>  f == Prefix \o u \o y \o t
  <1>1. Len(t) \in Nat /\ t \in Seq(Bytes)
    BY LengthIsNat
  <1>2. u \in Seq(Bytes) /\ Len(u) \in Nat
    BY <1>1, DecimalBytes
  <1>3. y \in Seq(Bytes) /\ Len(y) = 1 /\ y[1] = ":"
    BY PrefixBytes, OneByte
  <1>4. Frame(t) = f
    BY DEF Frame
  <1>5. Prefix \in Seq(Bytes) /\ <<>> \in Seq(Bytes) /\ Len(<<>>) = 0
    BY PrefixBytes
  <1>. HIDE DEF u, y
  <1>6. f \in Seq(Bytes)
    <2>. DEFINE p == Prefix \o u  q == p \o y
    <2>1. p \in Seq(Bytes)
      BY <1>2, <1>5, ConcatProperties
    <2>. HIDE DEF p
    <2>2. q \in Seq(Bytes)
      BY <1>3, <2>1, ConcatProperties
    <2>. HIDE DEF q
    <2>3. q \o t \in Seq(Bytes)
      BY <1>1, <2>2, ConcatProperties
    <2>. QED BY <2>3 DEF p, q
  <1>7. f \o <<>> = f
    BY <1>6, ConcatEmptySeq
  <1>. DEFINE z == <<>>
  <1>8. z \in Seq(Bytes) /\ Len(z) = 0 /\ f = Prefix \o u \o y \o t \o z
    BY <1>5, <1>7, Zenon
  <1>. HIDE DEF z, f
  <1>9. Five(Prefix, u, y, t, z, f)
    BY <1>1, <1>2, <1>3, <1>5, <1>8, Joined5
  <1>10. FrameParts(u, t, f)
    BY <1>1, <1>2, <1>3, <1>8, <1>9, FramePartsAt
  <1>11. FrameOf(t, f)
    BY <1>10, Zenon DEF FrameOf, u
  <1>. QED BY <1>4, <1>6, <1>11

\* What is left of a sequence behind its first a elements.
From(s, a) == SubSeq(s, a + 1, Len(s))

\* It is as long as what the a elements leave, and has the rest in their order.
LEMMA FromIs ==
  ASSUME NEW S, NEW s \in Seq(S), NEW a \in 0..Len(s)
  PROVE  /\ From(s, a) \in Seq(S) /\ Len(From(s, a)) = Len(s) - a
         /\ \A i \in 1..Len(s) - a : From(s, a)[i] = s[a + i]
  <1>1. From(s, a) \in Seq(S)
    BY DEF From
  <1>2. Len(From(s, a)) = Len(s) - a
    BY DEF From
  <1>3. \A i \in 1..Len(s) - a : From(s, a)[i] = s[a + i]
    BY DEF From
  <1>. QED BY <1>1, <1>2, <1>3

\* A piece of a sequence, behind its first a elements.
LEMMA PieceIs ==
  ASSUME NEW S, NEW s \in Seq(S), NEW a \in Nat, NEW n \in Nat, a + n <= Len(s)
  PROVE  /\ SubSeq(s, a + 1, a + n) \in Seq(S) /\ Len(SubSeq(s, a + 1, a + n)) = n
         /\ \A i \in 1..n : SubSeq(s, a + 1, a + n)[i] = s[a + i]
  <1>1. SubSeq(s, a + 1, a + n) \in Seq(S)
    OBVIOUS
  <1>2. Len(SubSeq(s, a + 1, a + n)) = n
    OBVIOUS
  <1>3. \A i \in 1..n : SubSeq(s, a + 1, a + n)[i] = s[a + i]
    OBVIOUS
  <1>. QED BY <1>1, <1>2, <1>3

\* The colon is found where the first one stands,
LEMMA ColonThere ==
  ASSUME NEW r, Len(r) \in Nat, NEW c \in 5..Len(r), r[c] = ":", \A i \in 5..c - 1 : r[i] # ":"
  PROVE  Colon(r) = c
  <1>. DEFINE I == {i \in 5..Len(r) : r[i] = ":"}
  <1>1. c \in I /\ \A y \in I : c <= y
    OBVIOUS
  <1>2. I # {} /\ \A x \in I : (\A y \in I : x <= y) => x = c
    BY <1>1
  <1>3. Min(I) = c
    BY <1>1, <1>2 DEF Min
  <1>4. Colon(r) = IF I # {} THEN Min(I) ELSE 0
    <2>1. Len(Prefix) + 1 = 5
      BY PrefixBytes
    <2>. HIDE DEF I
    <2>2. Colon(r) = LET J == {i \in Len(Prefix) + 1..Len(r) : r[i] = ":"} IN IF J # {} THEN Min(J) ELSE 0
      BY DEF Colon, SelectInSubSeq
    <2>. QED BY <2>1, <2>2 DEF I
  <1>. HIDE DEF I
  <1>. QED BY <1>2, <1>3, <1>4

\* and none while there is none.
LEMMA NoColon ==
  ASSUME NEW r, Len(r) \in Nat, \A i \in 5..Len(r) : r[i] # ":"
  PROVE  Colon(r) = 0
  <1>. DEFINE I == {i \in 5..Len(r) : r[i] = ":"}
  <1>1. I = {}
    OBVIOUS
  <1>2. Colon(r) = IF I # {} THEN Min(I) ELSE 0
    <2>1. Len(Prefix) + 1 = 5
      BY PrefixBytes
    <2>. HIDE DEF I
    <2>2. Colon(r) = LET J == {i \in Len(Prefix) + 1..Len(r) : r[i] = ":"} IN IF J # {} THEN Min(J) ELSE 0
      BY DEF Colon, SelectInSubSeq
    <2>. QED BY <2>1, <2>2 DEF I
  <1>. HIDE DEF I
  <1>. QED BY <1>1, <1>2

\* The header u in r: its colon and the number it gives are found.
LEMMA HeaderRead ==
  ASSUME NEW r \in Seq(Bytes), NEW n \in Nat, NEW u, u = Decimal(n), Len(u) + 5 <= Len(r),
         \A i \in 1..Len(u) : r[4 + i] = u[i], r[Len(u) + 5] = ":"
  PROVE  Colon(r) = Len(u) + 5 /\ Length(r, Len(u) + 5) = n
  <1>. DEFINE l == Len(u)  c == l + 5
  <1>1. u \in Seq(Bytes) /\ l \in Nat /\ l >= 1 /\ \A i \in 1..l : u[i] # ":"
    BY DecimalBytes
  <1>2. Len(r) \in Nat
    BY LengthIsNat
  <1>3. \A i \in 1..l : r[4 + i] = u[i]
    OBVIOUS
  <1>4. c \in 5..Len(r) /\ r[c] = ":" /\ c - 1 = 4 + l
    BY <1>1, <1>2
  <1>. HIDE DEF l, c
  <1>5. ASSUME NEW i \in 5..c - 1 PROVE r[i] # ":"
    <2>1. i - 4 \in 1..l /\ 4 + (i - 4) = i
      BY <1>1, <1>4
    <2>. QED BY <1>1, <1>3, <2>1
  <1>6. Colon(r) = c
    BY <1>2, <1>4, <1>5, ColonThere
  <1>. DEFINE q == SubSeq(r, 5, c - 1)
  <1>7. q = u
    <2>1. q \in Seq(Bytes)
      BY <1>4
    <2>2. Len(q) = l
      BY <1>1, <1>2, <1>4
    <2>3. \A i \in 1..l : q[i] = r[4 + i]
      BY <1>1, <1>2, <1>4
    <2>. HIDE DEF q
    <2>4. Len(q) = Len(u) /\ \A i \in 1..Len(q) : q[i] = u[i]
      BY <1>3, <2>2, <2>3, Zenon DEF l
    <2>. QED BY <1>1, <2>1, <2>4, SeqEqual
  <1>8. Length(r, c) = n
    <2>1. Length(r, c) = ParseNumber(q)
      BY PrefixBytes DEF Length
    <2>2. ParseNumber(u) = n
      BY DecimalRead
    <2>. QED BY <1>7, <2>1, <2>2
  <1>. QED BY <1>6, <1>8 DEF l, c

\* The parser with the messages ms taken off, and r left.
Parser(ms, r) == [messages |-> ms, rest |-> r]

\* What a parser is made of.
LEMMA ParserFields ==
  ASSUME NEW ms \in Seq(Seq(Bytes)), NEW r \in Seq(Bytes)
  PROVE  Parser(ms, r) \in Parsers /\ Parser(ms, r).messages = ms /\ Parser(ms, r).rest = r
  BY DEF Parser, Parsers

\* A turn of parseMain's loop, by what the buffer begins with: the beginning of a header,
LEMMA ParseKept ==
  ASSUME NEW ms \in Seq(Seq(Bytes)), NEW r \in Seq(Bytes), Kept(r, Colon(r))
  PROVE  ParseMainOnce[Parser(ms, r)] = Parser(ms, r)
  <1>. DEFINE p == Parser(ms, r)
  <1>1. p \in Parsers /\ p.rest = r
    BY ParserFields
  <1>. HIDE DEF p
  <1>2. ParseMainOnce[p] = p
    BY <1>1 DEF ParseMainOnce
  <1>. QED BY <1>2 DEF p

\* or a header, of a message that is to be completed,
LEMMA ParseWaits ==
  ASSUME NEW ms \in Seq(Seq(Bytes)), NEW r \in Seq(Bytes), NEW c, c = Colon(r), c # 0,
         NEW n, n = Length(r, c), n \in 0..MaxMessageSize, IsPrefix(Prefix, r), Len(r) < c + n
  PROVE  ParseMainOnce[Parser(ms, r)] = Parser(ms, r)
  <1>. DEFINE p == Parser(ms, r)
  <1>1. p \in Parsers /\ p.rest = r
    BY ParserFields
  <1>. HIDE DEF p
  <1>2. ParseMainOnce[p] = p
    BY <1>1 DEF ParseMainOnce
  <1>. QED BY <1>2 DEF p

\* or of one that is complete.
LEMMA ParseTakes ==
  ASSUME NEW ms \in Seq(Seq(Bytes)), NEW r \in Seq(Bytes), NEW c, c = Colon(r), c # 0,
         NEW n, n = Length(r, c), n \in 0..MaxMessageSize, IsPrefix(Prefix, r), ~(Len(r) < c + n),
         ~Kept(r, c)
  PROVE  ParseMainOnce[Parser(ms, r)] = Parser(Append(ms, SubSeq(r, c + 1, c + n)), From(r, c + n))
  <1>. DEFINE p == Parser(ms, r)
  <1>1. p \in Parsers /\ p.rest = r /\ p.messages = ms
    BY ParserFields
  <1>. HIDE DEF p
  <1>2. ParseMainOnce[p] = [messages |-> Append(p.messages, SubSeq(r, c + 1, c + n)),
                            rest |-> SubSeq(r, c + n + 1, Len(r))]
    BY <1>1 DEF ParseMainOnce
  <1>. QED BY <1>1, <1>2 DEF p, Parser, From

\* r begins with the whole of f, or is a beginning of f.
Begins(r, f) == Len(f) <= Len(r) /\ \A i \in 1..Len(f) : r[i] = f[i]
Begun(r, f) == Len(r) < Len(f) /\ \A i \in 1..Len(r) : r[i] = f[i]

\* What agrees with the prefix as far as both go.
LEMMA PrefixAgrees ==
  ASSUME NEW r \in Seq(Bytes)
  PROVE  /\ Len(r) >= 4 /\ (\A i \in 1..4 : r[i] = Prefix[i]) => IsPrefix(Prefix, r)
         /\ Len(r) <= 4 /\ (\A i \in 1..Len(r) : r[i] = Prefix[i]) => IsPrefix(r, Prefix)
         /\ Len(r) > 4 => ~IsPrefix(r, Prefix)
  <1>. DEFINE p == Prefix
  <1>1. p \in Seq(Bytes) /\ Len(p) = 4 /\ Len(r) \in Nat
    BY PrefixBytes
  <1>. HIDE DEF p
  <1>2. ASSUME Len(r) >= 4, \A i \in 1..4 : r[i] = p[i] PROVE IsPrefix(p, r)
    <2>1. SubSeq(p, 1, 4) = [i \in 1..4 |-> p[i]] /\ SubSeq(r, 1, 4) = [i \in 1..4 |-> r[i]]
      BY <1>1, <1>2
    <2>2. SubSeq(p, 1, 4) = SubSeq(r, 1, 4)
      BY <1>2, <2>1
    <2>. QED BY <1>1, <1>2, <2>2 DEF IsPrefix
  <1>3. ASSUME Len(r) <= 4, \A i \in 1..Len(r) : r[i] = p[i] PROVE IsPrefix(r, p)
    <2>. DEFINE l == Len(r)
    <2>1. SubSeq(p, 1, l) = [i \in 1..l |-> p[i]] /\ SubSeq(r, 1, l) = [i \in 1..l |-> r[i]]
      BY <1>1, <1>3
    <2>2. SubSeq(p, 1, l) = SubSeq(r, 1, l)
      <3>. HIDE DEF l
      <3>1. \A i \in 1..l : r[i] = p[i]
        BY <1>3 DEF l
      <3>. QED BY <2>1, <3>1
    <2>. QED BY <1>1, <1>3, <2>2 DEF IsPrefix
  <1>4. Len(r) > 4 => ~IsPrefix(r, p)
    BY <1>1 DEF IsPrefix
  <1>. QED BY <1>2, <1>3, <1>4 DEF p

\* A frame that has arrived is taken off, and its text is the message;
LEMMA FrameTaken ==
  ASSUME NEW ms \in Seq(Seq(Bytes)), NEW r \in Seq(Bytes), NEW t \in Seq(Bytes),
         Fits(t), Begins(r, Frame(t))
  PROVE  ParseMainOnce[Parser(ms, r)] = Parser(Append(ms, t), From(r, Len(Frame(t))))
  <1>. DEFINE f == Frame(t)  u == Decimal(Len(t))  l == Len(u)  n == Len(t)  c == l + 5
  <1>1. f \in Seq(Bytes) /\ FrameParts(u, t, f)
    BY FrameIs, Zenon DEF FrameOf
  <1>2. n \in Nat /\ Len(r) \in Nat
    BY LengthIsNat
  <1>3. u \in Seq(Bytes) /\ l \in Nat /\ l >= 1
    BY <1>2, DecimalBytes
  <1>4. n \in 0..MaxMessageSize
    BY <1>2, ChatAssumption DEF Fits
  <1>5. Len(f) <= Len(r) /\ \A i \in 1..Len(f) : r[i] = f[i]
    BY Zenon DEF Begins
  <1>6. u = Decimal(n)
    OBVIOUS
  <1>. HIDE DEF f, u
  <1>7. /\ Len(f) = l + n + 5
        /\ \A i \in 1..4 : f[i] = Prefix[i]
        /\ \A i \in 1..l : f[4 + i] = u[i]
        /\ f[c] = ":"
        /\ \A i \in 1..n : f[l + 5 + i] = t[i]
    BY <1>1, Zenon DEF FrameParts
  <1>. HIDE DEF l, n, c
  <1>8. c = l + 5 /\ c \in Nat /\ c # 0 /\ c <= Len(r) /\ c + n = Len(f) /\ Len(r) > 4
    BY <1>2, <1>3, <1>5, <1>7 DEF c
  <1>9. \A i \in 1..4 : r[i] = Prefix[i]
    <2>1. \A i \in 1..4 : i \in 1..Len(f)
      BY <1>2, <1>3, <1>7
    <2>. QED BY <1>5, <1>7, <2>1, Zenon
  <1>10. \A i \in 1..l : r[4 + i] = u[i]
    <2>1. \A i \in 1..l : 4 + i \in 1..Len(f)
      BY <1>2, <1>3, <1>7
    <2>. QED BY <1>5, <1>7, <2>1, Zenon
  <1>11. r[c] = ":"
    <2>1. c \in 1..Len(f)
      BY <1>2, <1>3, <1>7, <1>8
    <2>. QED BY <1>5, <1>7, <2>1, Zenon
  <1>12. \A i \in 1..n : r[c + i] = t[i]
    <2>. SUFFICES ASSUME NEW i \in 1..n PROVE r[c + i] = t[i]
      OBVIOUS
    <2>1. c + i \in 1..Len(f) /\ c + i = l + 5 + i
      BY <1>2, <1>3, <1>7, <1>8
    <2>. QED BY <1>5, <1>7, <2>1, Zenon
  <1>13. Colon(r) = c /\ Length(r, c) = n
    <2>1. Len(u) + 5 <= Len(r) /\ r[Len(u) + 5] = ":" /\ \A i \in 1..Len(u) : r[4 + i] = u[i]
      BY <1>8, <1>10, <1>11 DEF l
    <2>2. Colon(r) = Len(u) + 5 /\ Length(r, Len(u) + 5) = n
      BY <1>2, <1>6, <2>1, HeaderRead
    <2>. QED BY <1>8, <2>2 DEF l
  <1>14. IsPrefix(Prefix, r) /\ ~IsPrefix(r, Prefix)
    <2>1. Len(r) >= 4
      BY <1>2, <1>8
    <2>. QED BY <1>8, <1>9, <2>1, PrefixAgrees
  <1>15. ~Kept(r, c)
    BY <1>8, <1>14 DEF Kept
  <1>16. SubSeq(r, c + 1, c + n) = t
    <2>. DEFINE q == SubSeq(r, c + 1, c + n)
    <2>1. c + n <= Len(r)
      BY <1>5, <1>8
    <2>2. q \in Seq(Bytes)
      BY <1>2, <1>8, <2>1
    <2>3. Len(q) = n /\ \A i \in 1..n : q[i] = r[c + i]
      <3>1. c \in Nat /\ n \in Nat /\ c + n <= Len(r)
        BY <1>2, <1>8, <2>1
      <3>. QED BY <3>1, PieceIs DEF q
    <2>. HIDE DEF q
    <2>4. Len(q) = Len(t) /\ \A i \in 1..Len(q) : q[i] = t[i]
      BY <1>12, <2>3, Zenon DEF n
    <2>5. q = t
      BY <2>2, <2>4, SeqEqual
    <2>. QED BY <2>5 DEF q
  <1>17. ~(Len(r) < c + n)
    BY <1>2, <1>5, <1>8
  <1>18. ParseMainOnce[Parser(ms, r)] = Parser(Append(ms, SubSeq(r, c + 1, c + n)), From(r, c + n))
    BY <1>4, <1>8, <1>13, <1>14, <1>15, <1>17, ParseTakes
  <1>. QED BY <1>8, <1>16, <1>18 DEF f

\* one that has not arrived as a whole is left.
LEMMA FrameAwaited ==
  ASSUME NEW ms \in Seq(Seq(Bytes)), NEW r \in Seq(Bytes), NEW t \in Seq(Bytes),
         Fits(t), Begun(r, Frame(t))
  PROVE  ParseMainOnce[Parser(ms, r)] = Parser(ms, r)
  <1>. DEFINE f == Frame(t)  u == Decimal(Len(t))  l == Len(u)  n == Len(t)  c == l + 5
  <1>1. f \in Seq(Bytes) /\ FrameParts(u, t, f)
    BY FrameIs, Zenon DEF FrameOf
  <1>2. n \in Nat /\ Len(r) \in Nat
    BY LengthIsNat
  <1>3. u \in Seq(Bytes) /\ l \in Nat /\ l >= 1 /\ \A i \in 1..l : u[i] # ":"
    BY <1>2, DecimalBytes
  <1>4. n \in 0..MaxMessageSize
    BY <1>2, ChatAssumption DEF Fits
  <1>5. Len(r) < Len(f) /\ \A i \in 1..Len(r) : r[i] = f[i]
    BY Zenon DEF Begun
  <1>6. u = Decimal(n)
    OBVIOUS
  <1>7. l + 4 <= MaxHeaderSize
    <2>1. Len(Prefix \o u) <= MaxHeaderSize
      BY <1>4, HeaderAssumption
    <2>2. Len(Prefix \o u) = 4 + l
      <3>1. Prefix \in Seq(Bytes) /\ Len(Prefix) = 4
        BY PrefixBytes
      <3>. HIDE DEF u
      <3>2. Len(Prefix \o u) = Len(Prefix) + Len(u)
        BY <1>3, <3>1, ConcatProperties
      <3>. QED BY <3>1, <3>2
    <2>. HIDE DEF l
    <2>. QED BY <1>3, <2>1, <2>2, ChatAssumption
  <1>. HIDE DEF f, u
  <1>8. /\ Len(f) = l + n + 5
        /\ \A i \in 1..4 : f[i] = Prefix[i]
        /\ \A i \in 1..l : f[4 + i] = u[i]
        /\ f[c] = ":"
    BY <1>1, Zenon DEF FrameParts
  <1>. HIDE DEF l, n, c
  <1>9. c = l + 5 /\ c \in Nat /\ c # 0
    BY <1>3 DEF c
  <1>10. \A i \in 1..Len(r) : i <= 4 => r[i] = Prefix[i]
    <2>1. \A i \in 1..Len(r) : i <= 4 => i \in 1..4
      BY <1>2
    <2>. QED BY <1>5, <1>8, <2>1, Zenon
  <1>11. CASE Len(r) <= 4
    <2>1. \A i \in 1..Len(r) : r[i] = Prefix[i]
      BY <1>2, <1>10, <1>11
    <2>2. IsPrefix(r, Prefix)
      BY <1>11, <2>1, PrefixAgrees
    <2>. QED BY <2>2, ParseKept DEF Kept
  <1>12. ASSUME Len(r) > 4 PROVE IsPrefix(Prefix, r)
    <2>1. \A i \in 1..4 : i \in 1..Len(r) /\ i <= 4
      BY <1>2, <1>12
    <2>2. \A i \in 1..4 : r[i] = Prefix[i]
      BY <1>10, <2>1, Zenon
    <2>3. Len(r) >= 4
      BY <1>2, <1>12
    <2>. QED BY <2>2, <2>3, PrefixAgrees
  <1>13. \A i \in 1..l : 4 + i <= Len(r) => r[4 + i] = u[i]
    <2>1. \A i \in 1..l : 4 + i <= Len(r) => 4 + i \in 1..Len(r)
      BY <1>2, <1>3
    <2>. QED BY <1>5, <1>8, <2>1, Zenon
  <1>14. CASE Len(r) > 4 /\ Len(r) < c
    <2>1. ASSUME NEW i \in 5..Len(r) PROVE r[i] # ":"
      <3>1. i - 4 \in 1..l /\ 4 + (i - 4) = i /\ i <= Len(r)
        BY <1>2, <1>3, <1>9, <1>14
      <3>2. r[i] = u[i - 4]
        BY <1>13, <3>1
      <3>. QED BY <1>3, <3>1, <3>2 DEF l
    <2>2. Colon(r) = 0
      BY <1>2, <2>1, NoColon
    <2>3. Len(r) <= MaxHeaderSize
      BY <1>2, <1>3, <1>7, <1>9, <1>14, ChatAssumption
    <2>4. Kept(r, Colon(r))
      BY <1>12, <1>14, <2>2, <2>3 DEF Kept
    <2>. QED BY <2>4, ParseKept
  <1>15. CASE Len(r) > 4 /\ Len(r) >= c
    <2>1. c \in 1..Len(r)
      BY <1>2, <1>3, <1>9, <1>15
    <2>2. r[c] = ":"
      BY <1>5, <1>8, <2>1, Zenon
    <2>3. \A i \in 1..l : r[4 + i] = u[i]
      <3>1. \A i \in 1..l : 4 + i <= Len(r)
        BY <1>2, <1>3, <1>9, <1>15
      <3>. QED BY <1>13, <3>1, Zenon
    <2>4. Colon(r) = c /\ Length(r, c) = n
      <3>1. Len(u) + 5 <= Len(r) /\ r[Len(u) + 5] = ":" /\ \A i \in 1..Len(u) : r[4 + i] = u[i]
        BY <1>9, <1>15, <2>2, <2>3 DEF l
      <3>2. Colon(r) = Len(u) + 5 /\ Length(r, Len(u) + 5) = n
        BY <1>2, <1>6, <3>1, HeaderRead DEF n
      <3>. QED BY <1>9, <3>2 DEF l
    <2>5. Len(r) < c + n
      BY <1>2, <1>3, <1>5, <1>8, <1>9
    <2>. QED BY <1>4, <1>9, <1>12, <1>15, <2>4, <2>5, ParseWaits
  <1>16. Len(r) <= 4 \/ (Len(r) > 4 /\ Len(r) < c) \/ (Len(r) > 4 /\ Len(r) >= c)
    BY <1>2, <1>9
  <1>. QED BY <1>11, <1>14, <1>15, <1>16

-----------------------------------------------------------------------------
\* All frames are found that have arrived.

\* What is left of what is left.
LEMMA FromFrom ==
  ASSUME NEW S, NEW s \in Seq(S), NEW a \in Nat, NEW b \in Nat, a + b <= Len(s)
  PROVE  From(From(s, a), b) = From(s, a + b)
  <1>. DEFINE f == From(s, a)  g == From(f, b)  h == From(s, a + b)  l == Len(s)
  <1>1. l \in Nat /\ a \in 0..l /\ a + b \in 0..l /\ b \in 0..l - a
    BY LengthIsNat
  <1>2. f \in Seq(S) /\ Len(f) = l - a /\ \A i \in 1..l - a : f[i] = s[a + i]
    BY <1>1, FromIs
  <1>3. h \in Seq(S) /\ Len(h) = l - (a + b) /\ \A i \in 1..l - (a + b) : h[i] = s[(a + b) + i]
    BY <1>1, FromIs
  <1>. HIDE DEF f, l
  <1>4. b \in 0..Len(f) /\ Len(f) - b = l - (a + b)
    BY <1>1, <1>2
  <1>5. g \in Seq(S) /\ Len(g) = Len(f) - b /\ \A i \in 1..Len(f) - b : g[i] = f[b + i]
    BY <1>2, <1>4, FromIs
  <1>. HIDE DEF g, h
  <1>6. ASSUME NEW i \in 1..Len(g) PROVE g[i] = h[i]
    <2>1. i \in 1..Len(f) - b /\ b + i \in 1..l - a /\ i \in 1..l - (a + b)
          /\ a + (b + i) = (a + b) + i
      BY <1>1, <1>2, <1>4, <1>5
    <2>2. g[i] = f[b + i] /\ f[b + i] = s[a + (b + i)] /\ h[i] = s[(a + b) + i]
      BY <1>2, <1>3, <1>5, <2>1, Zenon
    <2>. QED BY <2>1, <2>2
  <1>7. Len(g) = Len(h)
    BY <1>3, <1>4, <1>5
  <1>8. g = h
    BY <1>3, <1>5, <1>6, <1>7, SeqEqual
  <1>. QED BY <1>8 DEF f, g, h

\* What is left, when more comes behind it.
LEMMA FromJoined ==
  ASSUME NEW S, NEW s \in Seq(S), NEW x \in Seq(S), NEW a \in 0..Len(s)
  PROVE  From(s, a) \o x = From(s \o x, a)
  <1>. DEFINE f == From(s, a)  g == f \o x  w == s \o x  h == From(w, a)  l == Len(s)  k == Len(x)
  <1>1. l \in Nat /\ k \in Nat /\ a \in 0..l
    BY LengthIsNat
  <1>2. f \in Seq(S) /\ Len(f) = l - a /\ \A i \in 1..l - a : f[i] = s[a + i]
    BY FromIs
  <1>3. /\ w \in Seq(S) /\ Len(w) = l + k
        /\ \A i \in 1..l + k : w[i] = IF i <= l THEN s[i] ELSE x[i - l]
    BY ConcatProperties
  <1>. HIDE DEF f, w
  <1>4. /\ g \in Seq(S) /\ Len(g) = Len(f) + k
        /\ \A i \in 1..Len(f) + k : g[i] = IF i <= Len(f) THEN f[i] ELSE x[i - Len(f)]
    BY <1>2, ConcatProperties
  <1>. HIDE DEF g, l, k
  <1>5. a \in 0..Len(w)
    BY <1>1, <1>3
  <1>6. h \in Seq(S) /\ Len(h) = Len(w) - a /\ \A i \in 1..Len(w) - a : h[i] = w[a + i]
    BY <1>3, <1>5, FromIs
  <1>. HIDE DEF h
  <1>7. Len(g) = Len(h)
    BY <1>1, <1>2, <1>3, <1>4, <1>6
  <1>8. ASSUME NEW i \in 1..Len(g) PROVE g[i] = h[i]
    <2>1. i \in 1..Len(f) + k /\ i \in 1..Len(w) - a /\ a + i \in 1..l + k
      BY <1>1, <1>2, <1>3, <1>4, <1>6
    <2>2. h[i] = IF a + i <= l THEN s[a + i] ELSE x[(a + i) - l]
      BY <1>3, <1>6, <2>1
    <2>3. g[i] = IF i <= Len(f) THEN f[i] ELSE x[i - Len(f)]
      BY <1>4, <2>1
    <2>4. CASE i <= Len(f)
      <3>1. i \in 1..l - a /\ a + i <= l
        BY <1>1, <1>2, <2>1, <2>4
      <3>. QED BY <1>2, <2>2, <2>3, <2>4, <3>1
    <2>5. CASE ~(i <= Len(f))
      <3>1. ~(a + i <= l) /\ (a + i) - l = i - Len(f)
        BY <1>1, <1>2, <2>1, <2>5
      <3>. QED BY <2>2, <2>3, <2>5, <3>1
    <2>. QED BY <2>4, <2>5
  <1>9. g = h
    BY <1>4, <1>6, <1>7, <1>8, SeqEqual
  <1>. QED BY <1>9 DEF f, g, w, h

\* What is left when all that stood in front is gone.
LEMMA FromBehind ==
  ASSUME NEW S, NEW s \in Seq(S), NEW x \in Seq(S)
  PROVE  From(s \o x, Len(s)) = x
  <1>. DEFINE l == Len(s)
  <1>1. l \in Nat /\ l \in 0..Len(s)
    BY LengthIsNat
  <1>2. From(s, l) \o x = From(s \o x, l)
    BY <1>1, FromJoined
  <1>3. From(s, l) = <<>>
    <2>1. From(s, l) \in Seq(S) /\ Len(From(s, l)) = Len(s) - l
      BY <1>1, FromIs
    <2>. QED BY <1>1, <2>1
  <1>4. <<>> \o x = x
    BY ConcatEmptySeq
  <1>. QED BY <1>2, <1>3, <1>4

\* A sequence is what is in front and what is left.
LEMMA TwoParts ==
  ASSUME NEW S, NEW s \in Seq(S), NEW m \in 0..Len(s)
  PROVE  /\ SubSeq(s, 1, m) \in Seq(S) /\ Len(SubSeq(s, 1, m)) = m
         /\ From(s, m) \in Seq(S) /\ s = SubSeq(s, 1, m) \o From(s, m)
  <1>. DEFINE p == SubSeq(s, 1, m)  q == From(s, m)  w == p \o q  l == Len(s)
  <1>1. l \in Nat /\ m \in 0..l /\ m \in Nat
    BY LengthIsNat
  <1>2. p \in Seq(S) /\ Len(p) = m /\ \A i \in 1..m : p[i] = s[i]
    <2>1. p \in Seq(S)
      OBVIOUS
    <2>2. Len(p) = m
      BY <1>1
    <2>3. \A i \in 1..m : p[i] = s[i]
      BY <1>1
    <2>. QED BY <2>1, <2>2, <2>3
  <1>3. q \in Seq(S) /\ Len(q) = l - m /\ \A i \in 1..l - m : q[i] = s[m + i]
    BY FromIs
  <1>. HIDE DEF p, q
  <1>4. /\ w \in Seq(S) /\ Len(w) = m + (l - m)
        /\ \A i \in 1..m + (l - m) : w[i] = IF i <= m THEN p[i] ELSE q[i - m]
    BY <1>2, <1>3, ConcatProperties
  <1>. HIDE DEF w
  <1>5. Len(w) = l
    BY <1>1, <1>4
  <1>6. ASSUME NEW i \in 1..Len(s) PROVE s[i] = w[i]
    <2>1. i \in 1..m + (l - m)
      BY <1>1
    <2>2. CASE i <= m
      <3>1. i \in 1..m
        BY <1>1, <2>2
      <3>. QED BY <1>2, <1>4, <2>1, <2>2, <3>1
    <2>3. CASE ~(i <= m)
      <3>1. i - m \in 1..l - m /\ m + (i - m) = i
        BY <1>1, <2>3
      <3>. QED BY <1>3, <1>4, <2>1, <2>3, <3>1
    <2>. QED BY <2>2, <2>3
  <1>7. s = w
    <2>1. Len(s) = Len(w)
      BY <1>5
    <2>. HIDE DEF l
    <2>. QED BY <1>4, <1>6, <2>1, SeqEqual
  <1>. QED BY <1>2, <1>3, <1>7 DEF p, q, w

\* The first sequences end where they end among all of them.
LEMMA LayoutBeginning ==
  ASSUME NEW seqs, NEW whole, NEW at, Layout(seqs, whole, at), Len(seqs) \in Nat, NEW m \in 0..Len(seqs),
         NEW p, Len(p) = m, \A k \in 1..m : p[k] = seqs[k],
         NEW w, NEW b, Layout(p, w, b)
  PROVE  Len(w) = at[m]
  <1>1. at[0] = 0 /\ \A k \in 1..Len(seqs) : at[k] = at[k - 1] + Len(seqs[k])
    BY DEF Layout
  <1>2. b[0] = 0 /\ b[m] = Len(w) /\ \A k \in 1..m : b[k] = b[k - 1] + Len(p[k])
    BY DEF Layout
  <1>3. ASSUME NEW k \in 1..m, b[k - 1] = at[k - 1] PROVE b[k] = at[k]
    <2>1. k \in 1..Len(seqs) /\ p[k] = seqs[k]
      OBVIOUS
    <2>2. b[k] = b[k - 1] + Len(p[k]) /\ at[k] = at[k - 1] + Len(seqs[k])
      BY <1>1, <1>2, <2>1
    <2>. QED BY <1>3, <2>1, <2>2
  <1>4. b[0] = at[0] /\ m \in Nat
    BY <1>1, <1>2
  <1>5. b[m] = at[m]
    BY <1>3, <1>4, SameTurns
  <1>. QED BY <1>2, <1>5

\* What is left behind the first m sequences is what the others make.
LEMMA FlattenFrom ==
  ASSUME NEW S, NEW seqs \in Seq(Seq(S)), NEW at, Layout(seqs, FlattenSeq(seqs), at), NEW m \in 0..Len(seqs)
  PROVE  From(FlattenSeq(seqs), at[m]) = FlattenSeq(From(seqs, m))
  <1>. DEFINE p == SubSeq(seqs, 1, m)  q == From(seqs, m)  fp == FlattenSeq(p)  fq == FlattenSeq(q)
              fs == FlattenSeq(seqs)
  <1>1. p \in Seq(Seq(S)) /\ Len(p) = m /\ q \in Seq(Seq(S)) /\ seqs = p \o q
    BY TwoParts
  <1>2. \A k \in 1..m : p[k] = seqs[k]
    <2>1. m \in Nat /\ m <= Len(seqs) /\ Len(seqs) \in Nat
      BY LengthIsNat
    <2>2. 0 \in Nat /\ 0 + m <= Len(seqs) /\ 0 + 1 = 1 /\ 0 + m = m
      BY <2>1
    <2>3. \A k \in 1..m : SubSeq(seqs, 0 + 1, 0 + m)[k] = seqs[0 + k]
      BY <2>1, <2>2, PieceIs
    <2>4. \A k \in 1..m : 0 + k = k
      BY <2>1
    <2>. QED BY <2>2, <2>3, <2>4
  <1>. HIDE DEF p, q
  <1>3. fp \in Seq(S) /\ fq \in Seq(S)
    BY <1>1, JoinedType
  <1>4. fs = fp \o fq
    <2>1. FlattenSeq(p \o q) = fp \o fq
      BY <1>1, FlattenBoth
    <2>. QED BY <1>1, <2>1
  <1>5. Len(seqs) \in Nat
    BY LengthIsNat
  <1>6. PICK b : Layout(p, fp, b)
    BY <1>1, FlattenLayout
  <1>7. Len(fp) = at[m]
    <2>1. Len(p) = m
      BY <1>1
    <2>2. Layout(seqs, fs, at)
      OBVIOUS
    <2>. HIDE DEF fp, fs
    <2>3. m \in 0..Len(seqs)
      OBVIOUS
    <2>. QED BY <1>2, <1>5, <1>6, <2>1, <2>2, <2>3, LayoutBeginning, SMTT(30)
  <1>. HIDE DEF fp, fq, fs
  <1>8. From(fp \o fq, Len(fp)) = fq
    BY <1>3, FromBehind
  <1>9. From(fs, at[m]) = fq
    BY <1>4, <1>7, <1>8
  <1>. QED BY <1>9 DEF fs, fq, q

\* Of places that begin with 0 there is a last one up to l before the first beyond.
LEMMA Furthest ==
  ASSUME NEW n \in Nat, NEW at \in [0..n -> Nat], at[0] = 0, NEW l \in Nat
  PROVE  \E m \in 0..n : at[m] <= l /\ (m # n => at[m + 1] > l)
  <1>. SUFFICES ASSUME \A m \in 0..n : at[m] <= l => m # n /\ ~(at[m + 1] > l)
                PROVE  FALSE
    OBVIOUS
  <1>. DEFINE T == {k \in Nat : k \in 0..n /\ at[k] <= l}
  <1>1. 0 \in T
    OBVIOUS
  <1>2. ASSUME NEW k \in 0..n - 1, k \in T PROVE k + 1 \in T
    <2>1. k \in 0..n /\ k + 1 \in 0..n /\ k + 1 \in Nat /\ at[k + 1] \in Nat /\ at[k] <= l
      BY <1>2
    <2>2. ~(at[k + 1] > l)
      BY <2>1
    <2>. QED BY <2>1, <2>2
  <1>3. T \in SUBSET Nat
    OBVIOUS
  <1>. HIDE DEF T
  <1>4. \A k \in 0..n : k \in T
    BY <1>1, <1>2, <1>3, Upward
  <1>5. n \in T
    BY <1>4
  <1>6. n \in 0..n /\ at[n] <= l
    BY <1>5 DEF T
  <1>. QED BY <1>6

\* ParseMain is its last turn.
LEMMA ParseTurns ==
  ASSUME NEW view, Len(view) \in Nat,
         NEW w, w[0] = Parser(<<>>, view), \A k \in 1..Len(view) : w[k] = ParseMainOnce[w[k - 1]]
  PROVE  ParseMain(view) = w[Len(view)]
  <1>. DEFINE n == Len(view)  start == Parser(<<>>, view)  one == ParseMainOnce
              turn == CHOOSE turn : turn = [k \in 0..n |-> IF k = 0 THEN start ELSE one[turn[k - 1]]]
  <1>1. ParseMain(view) = turn[n]
    BY DEF ParseMain, Parser
  <1>2. n \in Nat /\ w[0] = start /\ \A k \in 1..n : w[k] = one[w[k - 1]]
    OBVIOUS
  <1>. HIDE DEF start, one, n
  <1>3. turn[n] = w[n]
    <2>1. \E f : Turning(f, n, start, one)
      BY <1>2, TurnsExist
    <2>2. Turning(turn, n, start, one)
      BY <2>1 DEF Turning
    <2>. HIDE DEF turn
    <2>. QED BY <1>2, <2>2, LastTurn
  <1>. QED BY <1>1, <1>3 DEF n

\* The texts that are accepted, their frames, and the bytes that are sent.
Sendable == {t \in Texts : Fits(t)}
Frames(texts) == [i \in 1..Len(texts) |-> Frame(texts[i])]
Sent(texts) == FlattenSeq(Frames(texts))

\* They are texts the user may type, and bytes.
LEMMA SendableTexts == Sendable \subseteq Seq(Bytes) /\ \A t \in Sendable : Fits(t) /\ t \in Texts
  BY ChatAssumption DEF Sendable

\* Frames are not empty.
LEMMA FramesType ==
  ASSUME NEW texts \in Seq(Sendable)
  PROVE  /\ Frames(texts) \in Seq(Seq(Bytes)) /\ Len(Frames(texts)) = Len(texts)
         /\ \A i \in 1..Len(texts) : Frames(texts)[i] = Frame(texts[i]) /\ Frames(texts)[i] # <<>>
         /\ Sent(texts) \in Seq(Bytes)
  <1>. DEFINE n == Len(texts)  f == Frames(texts)
  <1>1. n \in Nat /\ \A i \in 1..n : texts[i] \in Sendable
    OBVIOUS
  <1>2. \A i \in 1..n : texts[i] \in Seq(Bytes)
    BY <1>1, SendableTexts
  <1>3. f = [i \in 1..n |-> Frame(texts[i])]
    BY DEF Frames
  <1>. HIDE DEF n, f
  <1>4. \A i \in 1..n : f[i] = Frame(texts[i])
    BY <1>3
  <1>5. \A i \in 1..n : f[i] \in Seq(Bytes)
    BY <1>2, <1>4, FrameIs
  <1>6. f \in Seq(Seq(Bytes)) /\ Len(f) = n
    BY <1>1, <1>3, <1>5
  <1>7. ASSUME NEW i \in 1..n PROVE f[i] # <<>>
    <2>1. FrameOf(texts[i], f[i]) /\ texts[i] \in Seq(Bytes)
      BY <1>2, <1>4, FrameIs
    <2>2. Len(texts[i]) \in Nat
      BY <2>1, LengthIsNat
    <2>3. Len(f[i]) = Len(Decimal(Len(texts[i]))) + Len(texts[i]) + 5
      BY <2>1, Zenon DEF FrameOf, FrameParts
    <2>4. Len(Decimal(Len(texts[i]))) \in Nat
      BY <2>2, DecimalBytes
    <2>5. Len(f[i]) # 0
      <3>. DEFINE a == Len(Decimal(Len(texts[i])))  b == Len(texts[i])  c == Len(f[i])
      <3>1. a \in Nat /\ b \in Nat /\ c = a + b + 5
        BY <2>2, <2>3, <2>4
      <3>. HIDE DEF a, b, c
      <3>2. c # 0
        BY <3>1
      <3>. QED BY <3>2 DEF c
    <2>6. Len(<<>>) = 0
      OBVIOUS
    <2>. QED BY <2>5, <2>6
  <1>8. Sent(texts) \in Seq(Bytes)
    <2>1. FlattenSeq(f) \in Seq(Bytes)
      BY <1>6, JoinedType
    <2>. QED BY <2>1 DEF Sent, f
  <1>. QED BY <1>4, <1>6, <1>7, <1>8 DEF n, f

\* The frames of what is left.
LEMMA FramesFrom ==
  ASSUME NEW texts \in Seq(Sendable), NEW m \in 0..Len(texts)
  PROVE  Frames(From(texts, m)) = From(Frames(texts), m)
  <1>. DEFINE n == Len(texts)  f == Frames(texts)  q == From(texts, m)  g == Frames(q)  h == From(f, m)
  <1>1. n \in Nat /\ m \in 0..n
    BY LengthIsNat
  <1>2. f \in Seq(Seq(Bytes)) /\ Len(f) = n /\ \A i \in 1..n : f[i] = Frame(texts[i])
    BY FramesType
  <1>3. q \in Seq(Sendable) /\ Len(q) = n - m /\ \A i \in 1..n - m : q[i] = texts[m + i]
    BY FromIs
  <1>. HIDE DEF f, q
  <1>4. g \in Seq(Seq(Bytes)) /\ Len(g) = Len(q) /\ \A i \in 1..Len(q) : g[i] = Frame(q[i])
    BY <1>3, FramesType
  <1>. HIDE DEF g, n
  <1>5. m \in 0..Len(f)
    BY <1>1, <1>2
  <1>6. h \in Seq(Seq(Bytes)) /\ Len(h) = Len(f) - m /\ \A i \in 1..Len(f) - m : h[i] = f[m + i]
    BY <1>2, <1>5, FromIs
  <1>. HIDE DEF h
  <1>7. Len(g) = Len(h)
    BY <1>2, <1>3, <1>4, <1>6
  <1>8. ASSUME NEW i \in 1..Len(g) PROVE g[i] = h[i]
    <2>1. i \in 1..Len(q) /\ i \in 1..n - m /\ i \in 1..Len(f) - m /\ m + i \in 1..n
      BY <1>1, <1>2, <1>3, <1>4
    <2>. QED BY <1>2, <1>3, <1>4, <1>6, <2>1
  <1>9. g = h
    BY <1>4, <1>6, <1>7, <1>8, SeqEqual
  <1>. QED BY <1>9 DEF f, q, g, h

\* Where the frames of the texts lie in the bytes that are sent.
FramesLie(texts, whole, at) == Layout(Frames(texts), whole, at)

\* The frames lie one behind the other.
LEMMA FramesLieThere ==
  ASSUME NEW texts \in Seq(Sendable)
  PROVE  \E at : FramesLie(texts, Sent(texts), at)
  <1>1. Frames(texts) \in Seq(Seq(Bytes))
    BY FramesType
  <1>2. \E at : Layout(Frames(texts), FlattenSeq(Frames(texts)), at)
    BY <1>1, FlattenLayout
  <1>. QED BY <1>2 DEF FramesLie, Sent

\* Each is where the one before it ends.
LEMMA FramesAt ==
  ASSUME NEW texts \in Seq(Sendable), NEW whole, NEW at, FramesLie(texts, whole, at)
  PROVE  /\ at \in [0..Len(texts) -> Nat] /\ at[0] = 0 /\ at[Len(texts)] = Len(whole)
         /\ \A k \in 1..Len(texts) : at[k] = at[k - 1] + Len(Frame(texts[k]))
         /\ \A k \in 1..Len(texts) : \A j \in 1..Len(Frame(texts[k])) :
              whole[at[k - 1] + j] = Frame(texts[k])[j]
         /\ \A i, j \in 0..Len(texts) : i <= j => at[i] <= at[j] /\ at[j] - at[i] >= j - i
  <1>. DEFINE n == Len(texts)  f == Frames(texts)
  <1>1. f \in Seq(Seq(Bytes)) /\ Len(f) = n /\ \A i \in 1..n : f[i] = Frame(texts[i]) /\ f[i] # <<>>
    BY FramesType
  <1>2. Layout(f, whole, at)
    BY DEF FramesLie
  <1>. HIDE DEF f
  <1>3. /\ at \in [0..n -> Nat] /\ at[0] = 0 /\ at[n] = Len(whole)
        /\ \A k \in 1..n : at[k] = at[k - 1] + Len(f[k])
        /\ \A k \in 1..n : \A j \in 1..Len(f[k]) : whole[at[k - 1] + j] = f[k][j]
    BY <1>1, <1>2 DEF Layout
  <1>4. \A i, j \in 0..n : i <= j => at[i] <= at[j]
    BY <1>1, <1>2, LayoutOrder
  <1>5. \A i, j \in 0..n : i <= j => at[j] - at[i] >= j - i
    BY <1>1, <1>2, LayoutSpread
  <1>6. \A k \in 1..n : at[k] = at[k - 1] + Len(Frame(texts[k]))
    BY <1>1, <1>3
  <1>7. \A k \in 1..n : \A j \in 1..Len(Frame(texts[k])) : whole[at[k - 1] + j] = Frame(texts[k])[j]
    <2>. SUFFICES ASSUME NEW k \in 1..n, NEW j \in 1..Len(Frame(texts[k]))
                  PROVE  whole[at[k - 1] + j] = Frame(texts[k])[j]
      OBVIOUS
    <2>1. f[k] = Frame(texts[k])
      BY <1>1
    <2>. QED BY <1>3, <2>1
  <1>. QED BY <1>3, <1>4, <1>5, <1>6, <1>7

\* The first m texts are those whose frames are in the view as a whole.
Cut(texts, view, at, m) ==
  /\ m \in 0..Len(texts) /\ at[m] <= Len(view)
  /\ m # Len(texts) => at[m + 1] > Len(view)

\* In the view, the k-th frame stands where the one before it ends,
LEMMA ViewBegins ==
  ASSUME NEW texts \in Seq(Sendable), NEW view \in Seq(Bytes), NEW x \in Seq(Bytes),
         NEW at, FramesLie(texts, view \o x, at),
         NEW k \in 1..Len(texts), at[k] <= Len(view)
  PROVE  Begins(From(view, at[k - 1]), Frame(texts[k]))
  <1>. DEFINE n == Len(texts)  f == Frame(texts[k])  l == Len(view)  a == at[k - 1]  r == From(view, a)
  <1>1. n \in Nat /\ l \in Nat /\ Len(x) \in Nat
    BY LengthIsNat
  <1>2. a \in Nat /\ at[k] = a + Len(f) /\ \A j \in 1..Len(f) : (view \o x)[a + j] = f[j]
    <2>1. at \in [0..n -> Nat] /\ k - 1 \in 0..n
      BY <1>1, FramesAt
    <2>2. a \in Nat
      BY <2>1
    <2>. DEFINE whole == view \o x
    <2>3. FramesLie(texts, whole, at)
      OBVIOUS
    <2>. HIDE DEF whole, f, a
    <2>4. at[k] = at[k - 1] + Len(Frame(texts[k]))
      BY <2>3, FramesAt
    <2>5. \A j \in 1..Len(Frame(texts[k])) : whole[at[k - 1] + j] = Frame(texts[k])[j]
      BY <2>3, FramesAt
    <2>. QED BY <2>2, <2>4, <2>5 DEF whole, f, a
  <1>3. Len(f) \in Nat
    <2>1. texts[k] \in Seq(Bytes)
      BY SendableTexts
    <2>2. Frame(texts[k]) \in Seq(Bytes)
      BY <2>1, FrameIs
    <2>. QED BY <2>2, LengthIsNat
  <1>4. a \in 0..l /\ a + Len(f) <= l
    <2>1. at[k] <= l
      OBVIOUS
    <2>. HIDE DEF a, f, l
    <2>. QED BY <1>1, <1>2, <1>3, <2>1
  <1>5. /\ \A i \in 1..l : (view \o x)[i] = view[i]
    BY ConcatProperties, <1>1
  <1>6. r \in Seq(Bytes) /\ Len(r) = l - a /\ \A i \in 1..l - a : r[i] = view[a + i]
    BY <1>4, FromIs
  <1>. HIDE DEF a, f, l, r
  <1>7. ASSUME NEW j \in 1..Len(f) PROVE r[j] = f[j]
    <2>1. j \in 1..l - a /\ a + j \in 1..l
      BY <1>1, <1>2, <1>3, <1>4
    <2>. QED BY <1>2, <1>5, <1>6, <2>1, Zenon
  <1>8. Len(f) <= Len(r)
    BY <1>1, <1>2, <1>3, <1>4, <1>6
  <1>9. Begins(r, f)
    BY <1>7, <1>8 DEF Begins
  <1>. QED BY <1>9 DEF a, f, r

\* and behind the last of them there is the beginning of the next.
LEMMA ViewBegun ==
  ASSUME NEW texts \in Seq(Sendable), NEW view \in Seq(Bytes), NEW x \in Seq(Bytes),
         NEW at, FramesLie(texts, view \o x, at),
         NEW k \in 1..Len(texts), at[k - 1] <= Len(view), at[k] > Len(view)
  PROVE  Begun(From(view, at[k - 1]), Frame(texts[k]))
  <1>. DEFINE n == Len(texts)  f == Frame(texts[k])  l == Len(view)  a == at[k - 1]  r == From(view, a)
  <1>1. n \in Nat /\ l \in Nat /\ Len(x) \in Nat
    BY LengthIsNat
  <1>2. a \in Nat /\ at[k] = a + Len(f) /\ \A j \in 1..Len(f) : (view \o x)[a + j] = f[j]
    <2>1. at \in [0..n -> Nat] /\ k - 1 \in 0..n
      BY <1>1, FramesAt
    <2>2. a \in Nat
      BY <2>1
    <2>. DEFINE whole == view \o x
    <2>3. FramesLie(texts, whole, at)
      OBVIOUS
    <2>. HIDE DEF whole, f, a
    <2>4. at[k] = at[k - 1] + Len(Frame(texts[k]))
      BY <2>3, FramesAt
    <2>5. \A j \in 1..Len(Frame(texts[k])) : whole[at[k - 1] + j] = Frame(texts[k])[j]
      BY <2>3, FramesAt
    <2>. QED BY <2>2, <2>4, <2>5 DEF whole, f, a
  <1>3. Len(f) \in Nat
    <2>1. texts[k] \in Seq(Bytes)
      BY SendableTexts
    <2>2. Frame(texts[k]) \in Seq(Bytes)
      BY <2>1, FrameIs
    <2>. QED BY <2>2, LengthIsNat
  <1>4. a \in 0..l /\ a + Len(f) > l
    <2>1. at[k] > l /\ a <= l
      OBVIOUS
    <2>. HIDE DEF a, f, l
    <2>. QED BY <1>1, <1>2, <1>3, <2>1
  <1>5. /\ \A i \in 1..l : (view \o x)[i] = view[i]
    BY ConcatProperties, <1>1
  <1>6. r \in Seq(Bytes) /\ Len(r) = l - a /\ \A i \in 1..l - a : r[i] = view[a + i]
    BY <1>4, FromIs
  <1>. HIDE DEF a, f, l, r
  <1>7. Len(r) < Len(f)
    BY <1>1, <1>2, <1>3, <1>4, <1>6
  <1>8. ASSUME NEW j \in 1..Len(r) PROVE r[j] = f[j]
    <2>1. j \in 1..l - a /\ a + j \in 1..l /\ j \in 1..Len(f)
      BY <1>1, <1>2, <1>3, <1>4, <1>6, <1>7
    <2>. QED BY <1>2, <1>5, <1>6, <2>1, Zenon
  <1>9. Begun(r, f)
    BY <1>7, <1>8 DEF Begun
  <1>. QED BY <1>9 DEF a, f, r

\* So parseMain takes the first m texts off.
ParsesTo(texts, view, at, m) == ParseMain(view) = Parser(SubSeq(texts, 1, m), From(view, at[m]))

\* Every turn takes one frame off, and there are turns enough for all of them.
LEMMA ParseSteps ==
  ASSUME NEW texts \in Seq(Sendable), NEW view \in Seq(Bytes), NEW x \in Seq(Bytes),
         NEW at, FramesLie(texts, view \o x, at), NEW m, Cut(texts, view, at, m)
  PROVE  ParsesTo(texts, view, at, m)
  <1>. DEFINE n == Len(texts)  l == Len(view)
              J(j) == IF j <= m THEN j ELSE m
              w == [j \in Nat |-> Parser(SubSeq(texts, 1, J(j)), From(view, at[J(j)]))]
              last == Parser(SubSeq(texts, 1, m), From(view, at[m]))
  <1>1. n \in Nat /\ l \in Nat /\ m \in 0..n /\ at[m] <= l /\ (m # n => at[m + 1] > l)
    BY LengthIsNat DEF Cut
  <1>2. /\ at \in [0..n -> Nat] /\ at[0] = 0 /\ at[n] = Len(view \o x)
        /\ \A k \in 1..n : at[k] = at[k - 1] + Len(Frame(texts[k]))
        /\ \A i, j \in 0..n : i <= j => at[i] <= at[j] /\ at[j] - at[i] >= j - i
    <2>. DEFINE whole == view \o x
    <2>1. FramesLie(texts, whole, at)
      OBVIOUS
    <2>. HIDE DEF whole
    <2>2. at \in [0..n -> Nat] /\ at[0] = 0 /\ at[n] = Len(whole)
      BY <2>1, FramesAt
    <2>3. \A k \in 1..n : at[k] = at[k - 1] + Len(Frame(texts[k]))
      BY <2>1, FramesAt
    <2>4. \A i, j \in 0..n : i <= j => at[i] <= at[j] /\ at[j] - at[i] >= j - i
      BY <2>1, FramesAt
    <2>. QED BY <2>2, <2>3, <2>4 DEF whole
  <1>3. m \in 0..l
    <2>1. 0 \in 0..n /\ 0 <= m
      BY <1>1
    <2>2. at[m] - at[0] >= m - 0
      BY <1>1, <1>2, <2>1
    <2>3. at[m] \in Nat
      BY <1>1, <1>2
    <2>. QED BY <1>1, <1>2, <2>2, <2>3
  <1>4. \A k \in 0..m : at[k] \in Nat /\ at[k] <= l /\ k \in 0..n
    <2>. SUFFICES ASSUME NEW k \in 0..m PROVE at[k] \in Nat /\ at[k] <= l /\ k \in 0..n
      OBVIOUS
    <2>1. k \in 0..n /\ k <= m
      BY <1>1
    <2>2. at[k] \in Nat /\ at[m] \in Nat
      BY <1>1, <1>2, <2>1
    <2>3. at[k] <= at[m]
      BY <1>1, <1>2, <2>1
    <2>. HIDE DEF n, l
    <2>. QED BY <1>1, <2>1, <2>2, <2>3
  <1>5. \A k \in 0..m : SubSeq(texts, 1, k) \in Seq(Seq(Bytes))
    <2>. SUFFICES ASSUME NEW k \in 0..m PROVE SubSeq(texts, 1, k) \in Seq(Seq(Bytes))
      OBVIOUS
    <2>1. k \in 0..Len(texts)
      BY <1>1
    <2>2. SubSeq(texts, 1, k) \in Seq(Sendable)
      BY <2>1, TwoParts
    <2>. DEFINE p == SubSeq(texts, 1, k)
    <2>. HIDE DEF p
    <2>3. p \in Seq(Sendable) => p \in Seq(Seq(Bytes))
      BY SendableTexts
    <2>. QED BY <2>2, <2>3 DEF p
  <1>6. w[0] = Parser(<<>>, view)
    <2>1. J(0) = 0
      BY <1>1
    <2>2. SubSeq(texts, 1, 0) = <<>>
      OBVIOUS
    <2>3. From(view, 0) = view
      BY DEF From
    <2>. QED BY <1>2, <2>1, <2>2, <2>3
  <1>7. \A j \in 0..m : w[j] = Parser(SubSeq(texts, 1, j), From(view, at[j]))
    BY <1>1
  <1>8. \A j \in Nat : j >= m => w[j] = last
    BY <1>1
  <1>. HIDE DEF w
  <1>9. ASSUME NEW k \in 1..m PROVE w[k] = ParseMainOnce[w[k - 1]]
    <2>. DEFINE ms == SubSeq(texts, 1, k - 1)  a == at[k - 1]  r == From(view, a)  t == texts[k]
    <2>1. k \in 1..n /\ k - 1 \in 0..m /\ k \in 0..m /\ k - 1 \in 0..n - 1 /\ (k - 1) + 1 = k
      BY <1>1
    <2>2. ms \in Seq(Seq(Bytes))
      BY <1>5, <2>1
    <2>3. a \in Nat /\ a <= l /\ at[k] <= l
      BY <1>4, <2>1
    <2>4. t \in Sendable
      BY <2>1
    <2>5. t \in Seq(Bytes) /\ Fits(t)
      BY <2>4, SendableTexts
    <2>6. SubSeq(texts, 1, k) = Append(ms, t)
      <3>1. SubSeq(texts, 1, (k - 1) + 1) = Append(SubSeq(texts, 1, k - 1), texts[(k - 1) + 1])
        BY <2>1, LongerByOne
      <3>. QED BY <2>1, <3>1
    <2>7. r \in Seq(Bytes)
      <3>1. a \in 0..Len(view)
        BY <1>1, <2>3
      <3>. HIDE DEF a
      <3>. QED BY <3>1, FromIs
    <2>8. Begins(r, Frame(t))
      BY <2>1, <2>3, ViewBegins
    <2>9. at[k] = a + Len(Frame(t)) /\ Len(Frame(t)) \in Nat
      <3>1. Frame(t) \in Seq(Bytes)
        BY <2>5, FrameIs
      <3>. QED BY <1>2, <2>1, <3>1, LengthIsNat
    <2>. HIDE DEF ms, r, t, a
    <2>10. ParseMainOnce[Parser(ms, r)] = Parser(Append(ms, t), From(r, Len(Frame(t))))
      BY <2>2, <2>5, <2>7, <2>8, FrameTaken
    <2>11. From(r, Len(Frame(t))) = From(view, at[k])
      <3>. DEFINE b == Len(Frame(t))
      <3>1. a \in Nat /\ b \in Nat /\ a + b <= Len(view) /\ at[k] = a + b
        BY <2>3, <2>9
      <3>. HIDE DEF b
      <3>2. From(From(view, a), b) = From(view, a + b)
        BY <3>1, FromFrom
      <3>. QED BY <3>1, <3>2 DEF b, r
    <2>12. w[k - 1] = Parser(ms, r)
      BY <1>7, <2>1 DEF ms, r, a
    <2>13. w[k] = Parser(Append(ms, t), From(view, at[k]))
      BY <1>7, <2>1, <2>6
    <2>. QED BY <2>10, <2>11, <2>12, <2>13
  <1>10. ParseMainOnce[last] = last
    <2>. DEFINE ms == SubSeq(texts, 1, m)  a == at[m]  r == From(view, a)
    <2>1. m \in 0..m /\ a \in Nat /\ a <= l /\ a \in 0..Len(view)
      <3>1. m \in 0..m
        BY <1>1
      <3>2. a \in Nat /\ a <= l
        BY <1>4, <3>1
      <3>. HIDE DEF a
      <3>. QED BY <1>1, <3>1, <3>2
    <2>2. ms \in Seq(Seq(Bytes))
      BY <1>5, <2>1
    <2>3. r \in Seq(Bytes) /\ Len(r) = l - a
      <3>. HIDE DEF a
      <3>. QED BY <2>1, FromIs
    <2>4. CASE m = n
      <3>1. Len(view \o x) = l + Len(x) /\ Len(x) \in Nat
        BY ConcatProperties, LengthIsNat
      <3>2. a = Len(view \o x)
        BY <1>2, <2>4
      <3>. HIDE DEF r, a, l
      <3>3. Len(r) = 0
        BY <1>1, <2>1, <2>3, <3>1, <3>2
      <3>4. IsPrefix(r, Prefix)
        <4>1. Len(r) <= 4 /\ \A i \in 1..Len(r) : r[i] = Prefix[i]
          BY <3>3
        <4>. QED BY <2>3, <4>1, PrefixAgrees
      <3>. HIDE DEF ms
      <3>5. ParseMainOnce[Parser(ms, r)] = Parser(ms, r)
        BY <2>2, <2>3, <3>4, ParseKept DEF Kept
      <3>. QED BY <3>5 DEF ms, r, a
    <2>5. CASE m # n
      <3>. DEFINE k == m + 1  t == texts[k]
      <3>1. k \in 1..n /\ k - 1 = m /\ at[k] > l /\ at[k - 1] <= l
        BY <1>1, <2>5
      <3>2. t \in Sendable
        BY <3>1
      <3>3. t \in Seq(Bytes) /\ Fits(t)
        BY <3>2, SendableTexts
      <3>4. Begun(From(view, at[k - 1]), Frame(texts[k]))
        <4>. HIDE DEF k
        <4>. QED BY <3>1, ViewBegun
      <3>5. Begun(r, Frame(t))
        <4>. HIDE DEF k
        <4>. QED BY <3>1, <3>4
      <3>. HIDE DEF ms, r, t
      <3>6. ParseMainOnce[Parser(ms, r)] = Parser(ms, r)
        BY <2>2, <2>3, <3>3, <3>5, FrameAwaited
      <3>. QED BY <3>6 DEF ms, r
    <2>. QED BY <2>4, <2>5
  <1>. HIDE DEF last
  <1>11. ASSUME NEW k \in 1..l PROVE w[k] = ParseMainOnce[w[k - 1]]
    <2>1. CASE k <= m
      <3>1. k \in 1..m
        BY <1>1, <2>1
      <3>. QED BY <1>9, <3>1
    <2>2. CASE ~(k <= m)
      <3>1. k \in Nat /\ k >= m /\ k - 1 \in Nat /\ k - 1 >= m
        BY <1>1, <2>2
      <3>. QED BY <1>8, <1>10, <3>1
    <2>. QED BY <2>1, <2>2
  <1>12. ParseMain(view) = w[Len(view)]
    BY <1>1, <1>6, <1>11, ParseTurns
  <1>13. w[l] = last
    BY <1>1, <1>3, <1>8
  <1>. QED BY <1>12, <1>13 DEF last, ParsesTo

\* What the parser leaves: nothing, or the beginning of one frame.
Beginning(rest) == rest = <<>> \/ \E t \in Sendable : Begun(rest, Frame(t))

\* It finds the texts done in the view, and next is still to come.
Finds(view, x, texts, done, next) ==
  /\ done \in Seq(Sendable) /\ next \in Seq(Sendable) /\ texts = done \o next
  /\ ParseMain(view).messages = done
  /\ ParseMain(view).rest \in Seq(Bytes) /\ Beginning(ParseMain(view).rest)
  /\ ParseMain(view).rest \o x = Sent(next)
  /\ x = <<>> => next = <<>>

\* However the bytes that are sent are cut, parseMain finds the texts whose frames
\* have arrived, in order, and leaves the beginning of what is still to come.
LEMMA ParseFinds ==
  ASSUME NEW texts \in Seq(Sendable), NEW view \in Seq(Bytes), NEW x \in Seq(Bytes),
         view \o x = Sent(texts)
  PROVE  \E done, next : Finds(view, x, texts, done, next)
  <1>. DEFINE n == Len(texts)  l == Len(view)  whole == view \o x
  <1>1. n \in Nat /\ l \in Nat /\ Len(x) \in Nat
    BY LengthIsNat
  <1>2. whole = Sent(texts) /\ Len(whole) = l + Len(x)
    BY ConcatProperties
  <1>3. PICK at : FramesLie(texts, whole, at)
    BY <1>2, FramesLieThere
  <1>. HIDE DEF whole
  <1>4. at \in [0..n -> Nat] /\ at[0] = 0 /\ at[n] = Len(whole)
    BY <1>3, FramesAt
  <1>5. \A i, j \in 0..n : i <= j => at[i] <= at[j] /\ at[j] - at[i] >= j - i
    BY <1>3, FramesAt
  <1>6. PICK m \in 0..n : at[m] <= l /\ (m # n => at[m + 1] > l)
    <2>. HIDE DEF n, l
    <2>. QED BY <1>1, <1>4, Furthest
  <1>7. Cut(texts, view, at, m)
    BY <1>6 DEF Cut
  <1>. DEFINE a == at[m]  done == SubSeq(texts, 1, m)  next == From(texts, m)  rest == From(view, a)
  <1>8. a \in Nat /\ a <= l /\ a \in 0..Len(view)
    <2>1. a \in Nat /\ a <= l
      BY <1>1, <1>4, <1>6
    <2>. HIDE DEF a
    <2>. QED BY <1>1, <2>1
  <1>9. done \in Seq(Sendable) /\ next \in Seq(Sendable) /\ texts = done \o next
    BY TwoParts
  <1>10. rest \in Seq(Bytes) /\ Len(rest) = l - a
    <2>. HIDE DEF a
    <2>. QED BY <1>8, FromIs
  <1>11. ParseMain(view) = Parser(done, rest)
    <2>1. FramesLie(texts, view \o x, at)
      BY <1>3 DEF whole
    <2>2. ParsesTo(texts, view, at, m)
      BY <1>7, <2>1, ParseSteps
    <2>. QED BY <2>2 DEF ParsesTo
  <1>12. rest \o x = Sent(next)
    <2>. DEFINE f == Frames(texts)
    <2>1. f \in Seq(Seq(Bytes)) /\ Len(f) = n
      BY FramesType
    <2>2. Layout(f, FlattenSeq(f), at)
      BY <1>2, <1>3 DEF FramesLie, Sent
    <2>. HIDE DEF f
    <2>3. From(FlattenSeq(f), at[m]) = FlattenSeq(From(f, m))
      BY <1>6, <2>1, <2>2, FlattenFrom
    <2>4. Frames(next) = From(f, m)
      BY <1>6, FramesFrom DEF f
    <2>5. From(view, a) \o x = From(view \o x, a)
      <3>. HIDE DEF a
      <3>. QED BY <1>8, FromJoined
    <2>. HIDE DEF next
    <2>6. Sent(next) = FlattenSeq(From(f, m))
      BY <2>4 DEF Sent
    <2>7. From(view \o x, a) = From(FlattenSeq(f), at[m])
      BY <1>2 DEF whole, Sent, f
    <2>. QED BY <2>3, <2>5, <2>6, <2>7
  <1>13. m = n => rest = <<>>
    <2>. SUFFICES ASSUME m = n PROVE rest = <<>>
      OBVIOUS
    <2>1. a = l + Len(x)
      BY <1>2, <1>4
    <2>. HIDE DEF rest, a, l
    <2>2. Len(rest) = 0
      BY <1>1, <1>8, <1>10, <2>1
    <2>. QED BY <1>10, <2>2
  <1>14. ASSUME m # n PROVE Begun(rest, Frame(texts[m + 1])) /\ texts[m + 1] \in Sendable
    <2>. DEFINE k == m + 1
    <2>1. k \in 1..n /\ k - 1 = m /\ at[k] > l /\ at[k - 1] <= l
      BY <1>1, <1>6, <1>14
    <2>2. texts[k] \in Sendable
      BY <2>1
    <2>3. Begun(From(view, at[k - 1]), Frame(texts[k]))
      <3>. HIDE DEF k
      <3>. QED BY <1>3, <2>1, ViewBegun DEF whole
    <2>4. Begun(rest, Frame(texts[k]))
      <3>. HIDE DEF k
      <3>. QED BY <2>1, <2>3
    <2>. QED BY <2>2, <2>4
  <1>15. Beginning(rest)
    BY <1>13, <1>14 DEF Beginning
  <1>16. x = <<>> => next = <<>>
    <2>. SUFFICES ASSUME x = <<>> PROVE next = <<>>
      OBVIOUS
    <2>1. at[n] = l
      BY <1>1, <1>2, <1>4
    <2>2. m = n
      <3>. SUFFICES ASSUME m # n PROVE FALSE
        OBVIOUS
      <3>1. m + 1 \in 0..n /\ n \in 0..n /\ m + 1 <= n
        BY <1>1, <1>6
      <3>2. at[m + 1] <= at[n] /\ at[m + 1] \in Nat
        BY <1>4, <1>5, <3>1
      <3>. QED BY <1>1, <1>6, <2>1, <3>2
    <2>3. next \in Seq(Sendable) /\ Len(next) = n - m
      BY <1>6, FromIs
    <2>. HIDE DEF next
    <2>. QED BY <1>1, <2>2, <2>3
  <1>. HIDE DEF done, next, rest
  <1>17. ParseMain(view).messages = done /\ ParseMain(view).rest = rest
    <2>1. done \in Seq(Seq(Bytes))
      BY <1>9, SendableTexts
    <2>. QED BY <1>10, <1>11, <2>1, ParserFields
  <1>18. Finds(view, x, texts, done, next)
    BY <1>9, <1>10, <1>12, <1>15, <1>16, <1>17 DEF Finds
  <1>. QED BY <1>18

-----------------------------------------------------------------------------
\* A sequence taken element by element.

\* What h makes of the elements.
Mapped(h, s) == [i \in 1..Len(s) |-> h[s[i]]]
MappedTo(h, s, T, m) == m \in Seq(T) /\ Len(m) = Len(s) /\ \A i \in 1..Len(s) : m[i] = h[s[i]]

\* It has as many elements, each made of the one at its place.
LEMMA MappedIs ==
  ASSUME NEW S, NEW T, NEW h \in [S -> T], NEW s \in Seq(S)
  PROVE  MappedTo(h, s, T, Mapped(h, s))
  <1>. DEFINE n == Len(s)  m == Mapped(h, s)
  <1>1. n \in Nat /\ \A i \in 1..n : s[i] \in S
    BY LengthIsNat
  <1>2. m = [i \in 1..n |-> h[s[i]]]
    BY DEF Mapped
  <1>. HIDE DEF n, m
  <1>3. m \in Seq(T) /\ Len(m) = n
    BY <1>1, <1>2
  <1>4. \A i \in 1..n : m[i] = h[s[i]]
    BY <1>2
  <1>. QED BY <1>3, <1>4 DEF n, m, MappedTo

\* Those of two sequences come one after the other,
MapJoins(h, s, t) == Mapped(h, s \o t) = Mapped(h, s) \o Mapped(h, t)

\* as h looks at one element at a time.
LEMMA MappedBoth ==
  ASSUME NEW S, NEW T, NEW h \in [S -> T], NEW s \in Seq(S), NEW t \in Seq(S)
  PROVE  MapJoins(h, s, t)
  <1>. DEFINE w == s \o t  a == Mapped(h, s)  b == Mapped(h, t)  c == Mapped(h, w)  d == a \o b
              m == Len(s)  n == Len(t)
  <1>1. m \in Nat /\ n \in Nat
    BY LengthIsNat
  <1>2. w \in Seq(S) /\ Len(w) = m + n /\ \A i \in 1..m + n : w[i] = IF i <= m THEN s[i] ELSE t[i - m]
    BY ConcatProperties
  <1>3. a \in Seq(T) /\ Len(a) = m /\ \A i \in 1..m : a[i] = h[s[i]]
    <2>1. MappedTo(h, s, T, a)
      BY MappedIs
    <2>. HIDE DEF a
    <2>. QED BY <2>1 DEF MappedTo
  <1>4. b \in Seq(T) /\ Len(b) = n /\ \A i \in 1..n : b[i] = h[t[i]]
    <2>1. MappedTo(h, t, T, b)
      BY MappedIs
    <2>. HIDE DEF b
    <2>. QED BY <2>1 DEF MappedTo
  <1>. HIDE DEF w, a, b
  <1>5. c \in Seq(T) /\ Len(c) = Len(w) /\ \A i \in 1..Len(w) : c[i] = h[w[i]]
    <2>1. w \in Seq(S)
      BY <1>2
    <2>2. MappedTo(h, w, T, c)
      BY <2>1, MappedIs
    <2>. HIDE DEF c
    <2>. QED BY <2>2 DEF MappedTo
  <1>6. d \in Seq(T) /\ Len(d) = Len(a) + Len(b)
        /\ \A i \in 1..Len(a) + Len(b) : d[i] = IF i <= Len(a) THEN a[i] ELSE b[i - Len(a)]
    BY <1>3, <1>4, ConcatProperties
  <1>. HIDE DEF c, d, m, n
  <1>7. Len(c) = Len(d) /\ Len(c) = m + n
    BY <1>2, <1>3, <1>4, <1>5, <1>6
  <1>8. ASSUME NEW i \in 1..Len(c) PROVE c[i] = d[i]
    <2>1. i \in 1..m + n /\ i \in 1..Len(w) /\ i \in 1..Len(a) + Len(b)
      BY <1>2, <1>3, <1>4, <1>7
    <2>2. CASE i <= m
      <3>1. i \in 1..m
        BY <1>1, <2>1, <2>2
      <3>2. c[i] = h[s[i]]
        BY <1>2, <1>5, <2>1, <2>2
      <3>3. d[i] = a[i]
        BY <1>3, <1>6, <2>1, <2>2
      <3>. QED BY <1>3, <3>1, <3>2, <3>3
    <2>3. CASE ~(i <= m)
      <3>1. i - m \in 1..n
        BY <1>1, <2>1, <2>3
      <3>2. c[i] = h[t[i - m]]
        BY <1>2, <1>5, <2>1, <2>3
      <3>3. d[i] = b[i - m]
        BY <1>3, <1>6, <2>1, <2>3
      <3>. QED BY <1>4, <3>1, <3>2, <3>3
    <2>. QED BY <2>2, <2>3
  <1>9. c = d
    BY <1>5, <1>6, <1>7, <1>8, SeqEqual
  <1>. QED BY <1>9 DEF a, b, c, d, w, MapJoins

\* and that of one element alone.
LEMMA MappedOne ==
  ASSUME NEW S, NEW T, NEW h \in [S -> T], NEW x \in S
  PROVE  Mapped(h, <<x>>) = <<h[x]>>
  <1>. DEFINE s == <<x>>  m == Mapped(h, s)
  <1>1. s \in Seq(S) /\ Len(s) = 1 /\ s[1] = x
    OBVIOUS
  <1>. HIDE DEF s
  <1>2. MappedTo(h, s, T, m)
    BY <1>1, MappedIs
  <1>. HIDE DEF m
  <1>3. m \in Seq(T) /\ Len(m) = 1 /\ m[1] = h[x]
    BY <1>1, <1>2 DEF MappedTo
  <1>4. m = <<h[x]>>
    BY <1>3
  <1>. QED BY <1>4 DEF m, s

\* A sequence with something in it is its first element and the others.
LEMMA FirstAndRest ==
  ASSUME NEW S, NEW s \in Seq(S), s # <<>>
  PROVE  /\ Head(s) \in S /\ Tail(s) \in Seq(S) /\ Len(s) \in Nat \ {0} /\ Len(Tail(s)) = Len(s) - 1
         /\ <<Head(s)>> \in Seq(S) /\ s = <<Head(s)>> \o Tail(s)
  <1>1. /\ Head(s) \in S /\ Tail(s) \in Seq(S) /\ Len(s) \in Nat \ {0} /\ Len(Tail(s)) = Len(s) - 1
    OBVIOUS
  <1>2. <<Head(s)>> \in Seq(S)
    BY <1>1
  <1>3. s = <<Head(s)>> \o Tail(s)
    <2>. DEFINE h == <<Head(s)>>  t == Tail(s)  w == h \o t  n == Len(s)
    <2>1. h \in Seq(S) /\ Len(h) = 1 /\ h[1] = s[1]
      BY <1>1
    <2>2. t \in Seq(S) /\ Len(t) = n - 1 /\ \A i \in 1..n - 1 : t[i] = s[i + 1]
      BY <1>1
    <2>. HIDE DEF h, t
    <2>3. w \in Seq(S) /\ Len(w) = Len(h) + Len(t)
          /\ \A i \in 1..Len(h) + Len(t) : w[i] = IF i <= Len(h) THEN h[i] ELSE t[i - Len(h)]
      <3>1. h \in Seq(S) /\ t \in Seq(S)
        BY <2>1, <2>2
      <3>. QED BY <3>1, ConcatProperties
    <2>. HIDE DEF w
    <2>4. Len(w) = n
      BY <1>1, <2>1, <2>2, <2>3
    <2>5. ASSUME NEW i \in 1..n PROVE s[i] = w[i]
      <3>1. i \in 1..Len(h) + Len(t)
        BY <1>1, <2>1, <2>2
      <3>2. CASE i = 1
        BY <2>1, <2>3, <3>1, <3>2
      <3>3. CASE i # 1
        <4>1. ~(i <= Len(h)) /\ i - Len(h) \in 1..n - 1 /\ (i - Len(h)) + 1 = i
          BY <1>1, <2>1, <3>3
        <4>. QED BY <2>2, <2>3, <3>1, <4>1
      <3>. QED BY <3>2, <3>3
    <2>6. Len(s) = Len(w)
      BY <2>4
    <2>. HIDE DEF n
    <2>7. \A i \in 1..Len(s) : s[i] = w[i]
      BY <2>5 DEF n
    <2>8. s = w
      BY <2>3, <2>6, <2>7, SeqEqual
    <2>. QED BY <2>8 DEF w, h, t
  <1>. QED BY <1>1, <1>2, <1>3

\* Three sequences, whichever two are put together first.
Assoc(s, t, u) == (s \o t) \o u = s \o (t \o u)

\* The result is the same.
LEMMA Associates ==
  ASSUME NEW S, NEW s \in Seq(S), NEW t \in Seq(S), NEW u \in Seq(S)
  PROVE  Assoc(s, t, u)
  BY ConcatAssociative DEF Assoc

\* One more element at the end.
LEMMA AppendIs ==
  ASSUME NEW S, NEW s \in Seq(S), NEW x \in S
  PROVE  <<x>> \in Seq(S) /\ Append(s, x) \in Seq(S) /\ Append(s, x) = s \o <<x>>
  OBVIOUS

\* What is behind one sequence, and goes on with it.
LEMMA TailIs ==
  ASSUME NEW S, NEW x \in S, NEW s \in Seq(S)
  PROVE  Head(<<x>> \o s) = x /\ Tail(<<x>> \o s) = s /\ <<x>> \o s # <<>>
  <1>. DEFINE h == <<x>>  w == h \o s
  <1>1. h \in Seq(S) /\ Len(h) = 1 /\ h[1] = x /\ Len(s) \in Nat
    BY LengthIsNat
  <1>. HIDE DEF h
  <1>2. w \in Seq(S) /\ Len(w) = Len(h) + Len(s)
        /\ \A i \in 1..Len(h) + Len(s) : w[i] = IF i <= Len(h) THEN h[i] ELSE s[i - Len(h)]
    BY <1>1, ConcatProperties
  <1>. HIDE DEF w
  <1>3. Len(w) = Len(s) + 1 /\ w[1] = x
    BY <1>1, <1>2
  <1>4. w # <<>> /\ Head(w) = x
    BY <1>1, <1>2, <1>3
  <1>5. Tail(w) \in Seq(S) /\ Len(Tail(w)) = Len(s) /\ \A i \in 1..Len(s) : Tail(w)[i] = w[i + 1]
    BY <1>1, <1>2, <1>3
  <1>6. \A i \in 1..Len(s) : w[i + 1] = s[i]
    <2>. SUFFICES ASSUME NEW i \in 1..Len(s) PROVE w[i + 1] = s[i]
      OBVIOUS
    <2>1. i + 1 \in 1..Len(h) + Len(s) /\ ~(i + 1 <= Len(h)) /\ (i + 1) - Len(h) = i
      BY <1>1
    <2>. QED BY <1>2, <2>1
  <1>. DEFINE t == Tail(w)
  <1>7. t \in Seq(S) /\ Len(t) = Len(s) /\ \A i \in 1..Len(t) : t[i] = s[i]
    BY <1>5, <1>6
  <1>. HIDE DEF t
  <1>8. t = s
    BY <1>7, SeqEqual
  <1>. QED BY <1>4, <1>8 DEF t, w, h

\* What h makes of one more element at the end, and in front.
MapGrows(h, s, x) ==
  /\ Mapped(h, Append(s, x)) = Append(Mapped(h, s), h[x])
  /\ Mapped(h, <<x>> \o s) = <<h[x]>> \o Mapped(h, s)

\* One element more is made of it, at its end.
LEMMA MappedMore ==
  ASSUME NEW S, NEW T, NEW h \in [S -> T], NEW s \in Seq(S), NEW x \in S
  PROVE  MapGrows(h, s, x)
  <1>1. <<x>> \in Seq(S) /\ Append(s, x) = s \o <<x>>
    BY AppendIs
  <1>2. Mapped(h, <<x>>) = <<h[x]>>
    BY MappedOne
  <1>. DEFINE o == <<x>>  m == Mapped(h, s)  y == h[x]
  <1>3. m \in Seq(T)
    <2>1. MappedTo(h, s, T, m)
      BY MappedIs
    <2>. QED BY <2>1 DEF MappedTo
  <1>4. y \in T
    OBVIOUS
  <1>5. Mapped(h, s \o o) = m \o Mapped(h, o) /\ Mapped(h, o \o s) = Mapped(h, o) \o m
    <2>1. o \in Seq(S)
      BY <1>1
    <2>. HIDE DEF o, m
    <2>2. MapJoins(h, s, o) /\ MapJoins(h, o, s)
      BY <2>1, MappedBoth
    <2>. QED BY <2>2, Zenon DEF m, MapJoins
  <1>. HIDE DEF m, y
  <1>6. Append(m, y) = m \o <<y>>
    BY <1>3, <1>4, AppendIs
  <1>7. Mapped(h, Append(s, x)) = Append(m, y)
    <2>1. Mapped(h, o) = <<y>> /\ Append(s, x) = s \o o
      BY <1>1, <1>2 DEF y
    <2>. HIDE DEF o
    <2>2. Mapped(h, Append(s, x)) = Mapped(h, s \o o)
      BY <2>1, Zenon
    <2>3. Mapped(h, s \o o) = m \o <<y>>
      BY <1>5, <2>1, Zenon
    <2>. QED BY <1>6, <2>2, <2>3, Zenon
  <1>8. Mapped(h, <<x>> \o s) = <<y>> \o m
    BY <1>2, <1>5, Zenon DEF y
  <1>. QED BY <1>7, <1>8, Zenon DEF m, y, MapGrows

\* One sequence makes itself,
LEMMA FlattenOne ==
  ASSUME NEW S, NEW x \in Seq(S)
  PROVE  FlattenSeq(<<x>>) = x
  <1>1. <<>> \in Seq(Seq(S)) /\ Append(<<>>, x) = <<x>>
    BY PairOf
  <1>2. FlattenSeq(Append(<<>>, x)) = FlattenSeq(<<>>) \o x
    BY <1>1, FlattenAppend
  <1>3. <<>> \o x = x
    BY ConcatEmptySeq
  <1>. QED BY <1>1, <1>2, <1>3, FlattenNone

\* and sequences make the first and what the others make.
LEMMA FlattenFirst ==
  ASSUME NEW S, NEW x \in Seq(S), NEW seqs \in Seq(Seq(S))
  PROVE  FlattenSeq(<<x>> \o seqs) = x \o FlattenSeq(seqs)
  <1>1. <<x>> \in Seq(Seq(S))
    BY PairOf
  <1>2. FlattenSeq(<<x>>) = x
    BY FlattenOne
  <1>. DEFINE o == <<x>>
  <1>3. FlattenSeq(o \o seqs) = FlattenSeq(o) \o FlattenSeq(seqs)
    <2>1. o \in Seq(Seq(S))
      BY <1>1
    <2>. HIDE DEF o
    <2>. QED BY <2>1, FlattenBoth
  <1>. QED BY <1>2, <1>3, Zenon

\* Sequences of one element make the sequence of these.
Single(S) == [x \in S |-> <<x>>]

\* Put together again, they make it.
LEMMA FlattenSingles ==
  ASSUME NEW S, NEW s \in Seq(S)
  PROVE  FlattenSeq(Mapped(Single(S), s)) = s
  <1>. DEFINE h == Single(S)  T == {k \in Nat : FlattenSeq(Mapped(h, SubSeq(s, 1, k))) = SubSeq(s, 1, k)}
  <1>1. h \in [S -> Seq(S)] /\ \A x \in S : h[x] = <<x>> /\ <<x>> \in Seq(S)
    <2>1. \A x \in S : <<x>> \in Seq(S)
      BY PairOf
    <2>. QED BY <2>1 DEF Single
  <1>. HIDE DEF h
  <1>2. 0 \in T
    <2>1. SubSeq(s, 1, 0) = <<>>
      OBVIOUS
    <2>2. Mapped(h, <<>>) = <<>>
      BY DEF Mapped
    <2>. QED BY <2>1, <2>2, FlattenNone
  <1>3. ASSUME NEW k \in 0..Len(s) - 1, k \in T PROVE k + 1 \in T
    <2>. DEFINE p == SubSeq(s, 1, k)  x == s[k + 1]  q == SubSeq(s, 1, k + 1)  m == Mapped(h, p)
    <2>1. p \in Seq(S) /\ x \in S /\ q = Append(p, x)
      BY LongerByOne
    <2>2. FlattenSeq(m) = p
      BY <1>3
    <2>. HIDE DEF p, x, q
    <2>3. m \in Seq(Seq(S))
      <3>1. MappedTo(h, p, Seq(S), m)
        BY <1>1, <2>1, MappedIs
      <3>. QED BY <3>1 DEF MappedTo
    <2>4. Mapped(h, Append(p, x)) = Append(m, h[x])
      <3>1. h \in [S -> Seq(S)]
        BY <1>1
      <3>2. MapGrows(h, p, x)
        BY <2>1, <3>1, MappedMore
      <3>. QED BY <3>2 DEF MapGrows, m
    <2>. HIDE DEF m
    <2>5. FlattenSeq(Append(m, h[x])) = FlattenSeq(m) \o h[x]
      <3>1. h[x] \in Seq(S)
        BY <1>1, <2>1
      <3>. QED BY <2>3, <3>1, FlattenAppend
    <2>6. p \o <<x>> = q
      BY <2>1, AppendIs
    <2>7. FlattenSeq(Mapped(h, q)) = q
      <3>1. h[x] = <<x>>
        BY <1>1, <2>1
      <3>2. FlattenSeq(Mapped(h, q)) = p \o <<x>>
        BY <2>1, <2>2, <2>4, <2>5, <3>1, Zenon
      <3>. QED BY <2>6, <3>2
    <2>8. k + 1 \in Nat
      OBVIOUS
    <2>. QED BY <2>7, <2>8 DEF q
  <1>4. T \in SUBSET Nat /\ Len(s) \in Nat
    BY LengthIsNat
  <1>. HIDE DEF T
  <1>5. \A k \in 0..Len(s) : k \in T
    BY <1>2, <1>3, <1>4, Upward
  <1>6. Len(s) \in T
    BY <1>4, <1>5
  <1>7. FlattenSeq(Mapped(h, SubSeq(s, 1, Len(s)))) = SubSeq(s, 1, Len(s))
    BY <1>6 DEF T
  <1>8. SubSeq(s, 1, Len(s)) = s
    OBVIOUS
  <1>. QED BY <1>7, <1>8 DEF h

-----------------------------------------------------------------------------
\* The messages on the way, in the forms they take.

\* The calls of mesajAl that show texts.
Calls(texts) == [i \in 1..Len(texts) |-> MesajAl(texts[i])]

\* The call for a text, and all of them.
Call == [t \in Sendable |-> MesajAl(t)]
CallSet == {MesajAl(t) : t \in Sendable}

\* The calls for some texts are made of them one by one.
LEMMA CallsMapped ==
  ASSUME NEW texts \in Seq(Sendable)
  PROVE  Calls(texts) = Mapped(Call, texts)
  <1>. DEFINE n == Len(texts)  c == Calls(texts)  m == Mapped(Call, texts)
  <1>1. \A i \in 1..n : texts[i] \in Sendable
    OBVIOUS
  <1>2. c = [i \in 1..n |-> MesajAl(texts[i])] /\ m = [i \in 1..n |-> Call[texts[i]]]
    BY DEF Calls, Mapped
  <1>3. \A i \in 1..n : Call[texts[i]] = MesajAl(texts[i])
    BY <1>1 DEF Call
  <1>. HIDE DEF n, c, m
  <1>4. c = m
    BY <1>2, <1>3
  <1>. QED BY <1>4 DEF c, m

\* A text accepted has one call.
LEMMA CallFunction == Call \in [Sendable -> CallSet] /\ \A t \in Sendable : Call[t] = MesajAl(t)
  BY DEF Call, CallSet

\* Those of two sequences of texts, and of a text in front.
LEMMA CallsBoth ==
  ASSUME NEW a \in Seq(Sendable), NEW b \in Seq(Sendable)
  PROVE  /\ Calls(a \o b) = Calls(a) \o Calls(b)
         /\ Calls(a) \in Seq(CallSet) /\ Len(Calls(a)) = Len(a)
  <1>1. a \o b \in Seq(Sendable)
    BY ConcatProperties
  <1>2. Calls(a \o b) = Mapped(Call, a \o b) /\ Calls(a) = Mapped(Call, a) /\ Calls(b) = Mapped(Call, b)
    <2>1. Calls(a \o b) = Mapped(Call, a \o b)
      <3>. DEFINE w == a \o b
      <3>1. w \in Seq(Sendable)
        BY <1>1
      <3>. HIDE DEF w
      <3>2. Calls(w) = Mapped(Call, w)
        BY <3>1, CallsMapped
      <3>. QED BY <3>2 DEF w
    <2>. QED BY <2>1, CallsMapped
  <1>3. Mapped(Call, a \o b) = Mapped(Call, a) \o Mapped(Call, b)
    <2>1. MapJoins(Call, a, b)
      BY CallFunction, MappedBoth
    <2>. QED BY <2>1, Zenon DEF MapJoins
  <1>4. MappedTo(Call, a, CallSet, Mapped(Call, a))
    BY CallFunction, MappedIs
  <1>5. Mapped(Call, a) \in Seq(CallSet) /\ Len(Mapped(Call, a)) = Len(a)
    BY <1>4 DEF MappedTo
  <1>. QED BY <1>2, <1>3, <1>5, Zenon

\* The call for the first text is the first call.
LEMMA CallsFirst ==
  ASSUME NEW x \in Sendable, NEW a \in Seq(Sendable)
  PROVE  Calls(<<x>> \o a) = <<MesajAl(x)>> \o Calls(a)
  <1>. DEFINE w == <<x>> \o a
  <1>1. w \in Seq(Sendable)
    <2>1. <<x>> \in Seq(Sendable)
      BY PairOf
    <2>. QED BY <2>1, ConcatProperties
  <1>2. Mapped(Call, w) = <<Call[x]>> \o Mapped(Call, a)
    <2>1. MapGrows(Call, a, x)
      BY CallFunction, MappedMore
    <2>. QED BY <2>1, Zenon DEF MapGrows, w
  <1>. HIDE DEF w
  <1>3. Calls(w) = Mapped(Call, w) /\ Calls(a) = Mapped(Call, a)
    BY <1>1, CallsMapped
  <1>4. Call[x] = MesajAl(x)
    BY CallFunction
  <1>5. Calls(w) = <<MesajAl(x)>> \o Calls(a)
    BY <1>2, <1>3, <1>4, Zenon
  <1>. QED BY <1>5 DEF w

\* The bytes sent with one more text.
LEMMA SentMore ==
  ASSUME NEW texts \in Seq(Sendable), NEW x \in Sendable
  PROVE  Sent(Append(texts, x)) = Sent(texts) \o Frame(x)
  <1>. DEFINE h == [t \in Sendable |-> Frame(t)]  more == Append(texts, x)  T == Seq(Bytes)
  <1>1. \A t \in Sendable : Frame(t) \in T
    BY SendableTexts, FrameIs
  <1>2. h \in [Sendable -> T] /\ \A t \in Sendable : h[t] = Frame(t)
    BY <1>1
  <1>. HIDE DEF h, T
  <1>3. more \in Seq(Sendable)
    OBVIOUS
  <1>4. Mapped(h, more) = Append(Mapped(h, texts), h[x])
    <2>1. MapGrows(h, texts, x)
      BY <1>2, MappedMore
    <2>. QED BY <2>1 DEF MapGrows
  <1>. HIDE DEF more
  <1>5. ASSUME NEW q \in Seq(Sendable) PROVE Frames(q) = Mapped(h, q)
    <2>1. \A i \in 1..Len(q) : h[q[i]] = Frame(q[i])
      BY <1>2
    <2>. QED BY <2>1 DEF Frames, Mapped
  <1>6. Frames(more) = Append(Frames(texts), Frame(x))
    BY <1>2, <1>3, <1>4, <1>5
  <1>7. Frames(texts) \in Seq(Seq(Bytes)) /\ Frame(x) \in Seq(Bytes)
    BY <1>1, FramesType DEF T
  <1>8. FlattenSeq(Append(Frames(texts), Frame(x))) = FlattenSeq(Frames(texts)) \o Frame(x)
    BY <1>7, FlattenAppend
  <1>. QED BY <1>6, <1>8, Zenon DEF Sent, more

-----------------------------------------------------------------------------
\* The invariant.

\* The frames that are sent.
FrameSet == {Frame(t) : t \in Sendable}

\* The types, as the steps need them; a closed connection has nothing queued.
Types ==
  /\ typed \in Seq(Texts) /\ calls \in Seq(Texts) /\ connected \in BOOLEAN
  /\ accepted \in Seq(Sendable) /\ shown \in Seq(Sendable)
  /\ queue \in Seq(FrameSet) /\ (~connected => queue = <<>>)
  /\ stream \in Seq(Bytes) /\ buffer \in Seq(Bytes) /\ Beginning(buffer)

\* Every text typed has at most one notice.
Counts ==
  /\ notices \in Nat /\ notices + Len(calls) <= Len(typed) /\ Len(typed) <= MaxMessages

\* The messages accepted are those shown, those posted to the page, and those
\* whose frames are in the buffer, in the stream and in the queue, or, when the
\* connection is closed, partly lost.
Transit(posted, ahead, lost) ==
  /\ posted \in Seq(Sendable) /\ ahead \in Seq(Sendable) /\ lost \in Seq(Bytes)
  /\ accepted = (shown \o posted) \o ahead
  /\ events = Calls(posted)
  /\ ((buffer \o stream) \o FlattenSeq(queue)) \o lost = Sent(ahead)
  /\ connected => lost = <<>>

\* The messages accepted are those typed and called for, but for those too long;
\* the rest is what is called for still, or was when the connection was closed.
Typed(rest) ==
  /\ rest \in Seq(Sendable) /\ accepted \o rest = Fitting(typed)
  /\ connected => rest = Fitting(calls)

\* The inductive invariant.
ChatInv ==
  /\ Types /\ Counts
  /\ \E posted, ahead, lost : Transit(posted, ahead, lost)
  /\ \E rest : Typed(rest)

\* The frames in the queue make bytes.
LEMMA QueueBytes ==
  /\ FrameSet \subseteq Seq(Bytes)
  /\ \A q \in Seq(FrameSet) : q \in Seq(Seq(Bytes)) /\ FlattenSeq(q) \in Seq(Bytes)
  <1>1. FrameSet \subseteq Seq(Bytes)
    BY SendableTexts, FrameIs DEF FrameSet
  <1>2. ASSUME NEW q \in Seq(FrameSet) PROVE q \in Seq(Seq(Bytes)) /\ FlattenSeq(q) \in Seq(Bytes)
    <2>1. q \in Seq(Seq(Bytes))
      BY <1>1
    <2>. QED BY <2>1, JoinedType
  <1>. QED BY <1>1, <1>2

-----------------------------------------------------------------------------
\* The messages that fit.

\* What is accepted of one text.
One(t) == IF Fits(t) THEN <<t>> ELSE <<>>
Ones == [t \in Texts |-> One(t)]

\* What is accepted of one text is one text, or none.
LEMMA OnesFunction ==
  /\ Ones \in [Texts -> Seq(Sendable)]
  /\ \A t \in Texts : Ones[t] = One(t) /\ One(t) \in Seq(Sendable)
  <1>1. ASSUME NEW t \in Texts PROVE One(t) \in Seq(Sendable)
    <2>1. CASE Fits(t)
      <3>1. t \in Sendable
        BY <2>1 DEF Sendable
      <3>2. <<t>> \in Seq(Sendable)
        BY <3>1, PairOf
      <3>. QED BY <2>1, <3>2 DEF One
    <2>2. CASE ~Fits(t)
      <3>1. <<>> \in Seq(Sendable)
        OBVIOUS
      <3>. QED BY <2>2, <3>1 DEF One
    <2>. QED BY <2>1, <2>2
  <1>. QED BY <1>1 DEF Ones

\* What is accepted of some texts is made of them one by one, and can be sent.
LEMMA FittingIs ==
  ASSUME NEW texts \in Seq(Texts)
  PROVE  Fitting(texts) = FlattenSeq(Mapped(Ones, texts)) /\ Fitting(texts) \in Seq(Sendable)
  <1>. DEFINE n == Len(texts)  f == [i \in 1..n |-> IF Fits(texts[i]) THEN <<texts[i]>> ELSE <<>>]
  <1>1. \A i \in 1..n : Ones[texts[i]] = IF Fits(texts[i]) THEN <<texts[i]>> ELSE <<>>
    <2>1. \A i \in 1..n : texts[i] \in Texts
      OBVIOUS
    <2>. QED BY <2>1, OnesFunction DEF One
  <1>2. f = Mapped(Ones, texts)
    BY <1>1 DEF Mapped
  <1>3. Fitting(texts) = FlattenSeq(f)
    BY DEF Fitting
  <1>. HIDE DEF f
  <1>4. MappedTo(Ones, texts, Seq(Sendable), Mapped(Ones, texts))
    BY OnesFunction, MappedIs
  <1>5. f \in Seq(Seq(Sendable))
    BY <1>2, <1>4 DEF MappedTo
  <1>6. FlattenSeq(f) \in Seq(Sendable)
    BY <1>5, JoinedType
  <1>. QED BY <1>2, <1>3, <1>6

\* One more text at the end, and in front.
FittingGrows(texts, t) ==
  /\ Fitting(Append(texts, t)) = Fitting(texts) \o One(t)
  /\ Fitting(<<t>> \o texts) = One(t) \o Fitting(texts)

\* A text more is accepted or not by itself, whatever there is besides.
LEMMA FittingMore ==
  ASSUME NEW texts \in Seq(Texts), NEW t \in Texts
  PROVE  FittingGrows(texts, t)
  <1>. DEFINE m == Mapped(Ones, texts)  a == Append(texts, t)  b == <<t>> \o texts
  <1>1. MapGrows(Ones, texts, t)
    BY OnesFunction, MappedMore
  <1>2. Ones[t] = One(t) /\ One(t) \in Seq(Sendable)
    BY OnesFunction
  <1>3. Mapped(Ones, a) = Append(m, One(t)) /\ Mapped(Ones, b) = <<One(t)>> \o m
    BY <1>1, <1>2, Zenon DEF MapGrows
  <1>4. m \in Seq(Seq(Sendable))
    <2>1. MappedTo(Ones, texts, Seq(Sendable), m)
      BY OnesFunction, MappedIs
    <2>. QED BY <2>1 DEF MappedTo
  <1>5. a \in Seq(Texts) /\ b \in Seq(Texts)
    <2>1. a \in Seq(Texts)
      OBVIOUS
    <2>2. <<t>> \in Seq(Texts)
      BY PairOf
    <2>3. b \in Seq(Texts)
      BY <2>2, ConcatProperties
    <2>. QED BY <2>1, <2>3
  <1>. HIDE DEF a, b
  <1>6. /\ Fitting(a) = FlattenSeq(Mapped(Ones, a)) /\ Fitting(b) = FlattenSeq(Mapped(Ones, b))
        /\ Fitting(texts) = FlattenSeq(m)
    BY <1>5, FittingIs
  <1>. HIDE DEF m
  <1>7. FlattenSeq(Append(m, One(t))) = FlattenSeq(m) \o One(t)
    BY <1>2, <1>4, FlattenAppend
  <1>8. FlattenSeq(<<One(t)>> \o m) = One(t) \o FlattenSeq(m)
    BY <1>2, <1>4, FlattenFirst
  <1>9. Fitting(a) = Fitting(texts) \o One(t)
    BY <1>3, <1>6, <1>7, Zenon
  <1>10. Fitting(b) = One(t) \o Fitting(texts)
    BY <1>3, <1>6, <1>8, Zenon
  <1>. QED BY <1>9, <1>10, Zenon DEF FittingGrows, a, b

-----------------------------------------------------------------------------
\* It holds, and every step keeps it.

\* It holds at the start, where nothing has been typed.
LEMMA ChatInit == Init => ChatInv
  <1>. SUFFICES ASSUME Init PROVE ChatInv
    OBVIOUS
  <1>. USE DEF Init
  <1>1. Types
    <2>1. /\ typed \in Seq(Texts) /\ calls \in Seq(Texts) /\ connected \in BOOLEAN
          /\ accepted \in Seq(Sendable) /\ shown \in Seq(Sendable) /\ queue \in Seq(FrameSet)
          /\ stream \in Seq(Bytes) /\ buffer \in Seq(Bytes) /\ buffer = <<>> /\ queue = <<>>
      OBVIOUS
    <2>. QED BY <2>1 DEF Types, Beginning
  <1>2. Counts
    BY ChatAssumption DEF Counts
  <1>. DEFINE e == <<>>
  <1>3. Transit(e, e, e)
    <2>1. e \in Seq(Sendable) /\ e \in Seq(Bytes) /\ FlattenSeq(e) = e
      BY FlattenNone
    <2>2. accepted = (shown \o e) \o e
      OBVIOUS
    <2>3. events = Calls(e)
      BY DEF Calls
    <2>4. Sent(e) = e
      <3>1. Frames(e) = e
        BY DEF Frames
      <3>. QED BY <3>1, FlattenNone DEF Sent
    <2>5. ((buffer \o stream) \o FlattenSeq(queue)) \o e = e
      BY FlattenNone
    <2>. QED BY <2>1, <2>2, <2>3, <2>4, <2>5, Zenon DEF Transit
  <1>4. Typed(e)
    <2>1. Fitting(e) = e
      <3>1. e \in Seq(Texts)
        OBVIOUS
      <3>2. Mapped(Ones, e) = e
        BY DEF Mapped
      <3>3. Fitting(e) = FlattenSeq(Mapped(Ones, e))
        BY <3>1, FittingIs
      <3>. QED BY <3>2, <3>3, FlattenNone
    <2>2. accepted \o e = e /\ e \in Seq(Sendable)
      OBVIOUS
    <2>. QED BY <2>1, <2>2 DEF Typed
  <1>. QED BY <1>1, <1>2, <1>3, <1>4 DEF ChatInv

\* The page shows a text and calls for it: the program gets what was typed.
LEMMA ChatMesajGonder ==
  ASSUME Types, Counts, NEW text \in Texts, MesajGonder(text),
         NEW posted, NEW ahead, NEW lost, Transit(posted, ahead, lost),
         NEW rest, Typed(rest)
  PROVE  ChatInv'
  <1>1. /\ Len(typed) < MaxMessages /\ typed' = Append(typed, text)
        /\ UNCHANGED <<connected, accepted, queue, stream, buffer, events, shown, notices>>
    BY DEF MesajGonder
  <1>2. text \in Seq(Bytes) /\ Ip \in Seq(Bytes)
    BY ChatAssumption
  <1>3. calls' = Append(calls, text)
    <2>. DEFINE args == ParseJsonStringArray(Stringify(Ip, text))  pair == <<Ip, text>>
    <2>1. args = pair
      BY <1>2, ArgumentsRead
    <2>2. calls' = IF Len(args) >= 2 THEN Append(calls, args[2]) ELSE calls
      BY DEF MesajGonder
    <2>3. Len(pair) = 2 /\ pair[2] = text
      OBVIOUS
    <2>. HIDE DEF args, pair
    <2>. QED BY <2>1, <2>2, <2>3
  <1>4. Types'
    <2>1. typed' \in Seq(Texts) /\ calls' \in Seq(Texts)
      BY <1>1, <1>3 DEF Types
    <2>. QED BY <1>1, <2>1 DEF Types
  <1>5. Counts'
    <2>1. Len(typed') = Len(typed) + 1 /\ Len(calls') = Len(calls) + 1 /\ Len(typed) \in Nat /\ Len(calls) \in Nat
      BY <1>1, <1>3 DEF Types
    <2>. QED BY <1>1, <2>1, ChatAssumption DEF Counts
  <1>6. Transit(posted, ahead, lost)'
    BY <1>1 DEF Transit
  <1>. DEFINE more == rest \o One(text)
  <1>7. Typed(more)'
    <2>1. typed \in Seq(Texts) /\ calls \in Seq(Texts) /\ accepted \in Seq(Sendable)
          /\ rest \in Seq(Sendable) /\ One(text) \in Seq(Sendable)
      BY OnesFunction DEF Types, Typed
    <2>2. Fitting(typed') = Fitting(typed) \o One(text) /\ Fitting(calls') = Fitting(calls) \o One(text)
      <3>1. FittingGrows(typed, text) /\ FittingGrows(calls, text)
        BY <2>1, FittingMore
      <3>. QED BY <1>1, <1>3, <3>1, Zenon DEF FittingGrows
    <2>3. accepted \o more = (accepted \o rest) \o One(text)
      <3>1. Assoc(accepted, rest, One(text))
        BY <2>1, Associates
      <3>. QED BY <3>1, Zenon DEF Assoc
    <2>4. more \in Seq(Sendable)
      BY <2>1, ConcatProperties
    <2>5. accepted \o rest = Fitting(typed) /\ (connected => rest = Fitting(calls))
      BY DEF Typed
    <2>6. accepted' \o more = Fitting(typed')
      BY <1>1, <2>2, <2>3, <2>5, Zenon
    <2>7. connected' => more = Fitting(calls')
      BY <1>1, <2>2, <2>5, Zenon
    <2>. QED BY <2>4, <2>6, <2>7, Zenon DEF Typed
  <1>. HIDE DEF more
  <1>. QED BY <1>4, <1>5, <1>6, <1>7, Zenon DEF ChatInv

\* A text is accepted and its frame put in the queue, or a notice is shown.
LEMMA ChatSendMessage ==
  ASSUME Types, Counts, SendMessage,
         NEW posted, NEW ahead, NEW lost, Transit(posted, ahead, lost),
         NEW rest, Typed(rest)
  PROVE  ChatInv'
  <1>0. PICK text, others : text = Head(calls) /\ others = Tail(calls)
    OBVIOUS
  <1>1. calls # <<>> /\ calls' = others /\ UNCHANGED <<typed, connected, stream, buffer, events, shown>>
    BY <1>0 DEF SendMessage
  <1>2. /\ text \in Texts /\ others \in Seq(Texts) /\ calls = <<text>> \o others
        /\ Len(calls) \in Nat \ {0} /\ Len(others) = Len(calls) - 1
    BY <1>0, <1>1, FirstAndRest DEF Types
  <1>3. Fitting(calls) = One(text) \o Fitting(others)
    <2>1. FittingGrows(others, text)
      BY <1>2, FittingMore
    <2>. QED BY <1>2, <2>1, Zenon DEF FittingGrows
  <1>4. One(text) \in Seq(Sendable) /\ Fitting(others) \in Seq(Sendable)
    BY <1>2, OnesFunction, FittingIs
  <1>5. CASE connected /\ Fits(text) /\ queue' = Append(queue, Frame(text))
             /\ accepted' = Append(accepted, text) /\ notices' = notices
    <2>1. text \in Sendable /\ One(text) = <<text>>
      BY <1>2, <1>5 DEF Sendable, One
    <2>2. Frame(text) \in FrameSet /\ Frame(text) \in Seq(Bytes)
      BY <2>1, QueueBytes DEF FrameSet
    <2>3. Types'
      <3>1. queue' \in Seq(FrameSet) /\ accepted' \in Seq(Sendable) /\ calls' \in Seq(Texts)
        BY <1>1, <1>2, <1>5, <2>1, <2>2 DEF Types
      <3>. QED BY <1>1, <1>5, <3>1 DEF Types
    <2>4. Counts'
      BY <1>1, <1>2, <1>5 DEF Counts
    <2>. DEFINE later == Append(ahead, text)
    <2>5. Transit(posted, later, lost)'
      <3>1. /\ posted \in Seq(Sendable) /\ ahead \in Seq(Sendable) /\ lost = <<>> /\ lost \in Seq(Bytes)
            /\ shown \in Seq(Sendable) /\ accepted = (shown \o posted) \o ahead
            /\ buffer \in Seq(Bytes) /\ stream \in Seq(Bytes) /\ queue \in Seq(FrameSet)
        BY <1>5 DEF Transit, Types
      <3>2. later \in Seq(Sendable)
        BY <2>1, <3>1, AppendIs
      <3>3. accepted' = (shown' \o posted) \o later
        <4>. DEFINE sp == shown \o posted  o == <<text>>
        <4>1. sp \in Seq(Sendable)
          BY <3>1, ConcatProperties
        <4>2. o \in Seq(Sendable) /\ later = ahead \o o
          BY <2>1, <3>1, AppendIs
        <4>3. accepted' = accepted \o o
          BY <1>5, <2>1, AppendIs DEF Types
        <4>4. accepted = sp \o ahead
          BY <3>1
        <4>. HIDE DEF sp, o, later
        <4>5. (sp \o ahead) \o o = sp \o (ahead \o o)
          <5>1. Assoc(sp, ahead, o)
            BY <3>1, <4>1, <4>2, Associates
          <5>. QED BY <5>1, Zenon DEF Assoc
        <4>6. accepted' = sp \o later
          BY <4>2, <4>3, <4>4, <4>5, Zenon
        <4>. QED BY <1>1, <4>6, Zenon DEF sp
      <3>4. events' = Calls(posted)
        BY <1>1 DEF Transit
      <3>5. ((buffer' \o stream') \o FlattenSeq(queue')) \o lost = Sent(later)
        <4>. DEFINE bs == buffer \o stream  q == FlattenSeq(queue)  f == Frame(text)
        <4>1. bs \in Seq(Bytes) /\ q \in Seq(Bytes) /\ queue \in Seq(Seq(Bytes)) /\ f \in Seq(Bytes)
          BY <2>2, <3>1, ConcatProperties, QueueBytes
        <4>2. FlattenSeq(queue') = q \o f
          <5>1. FlattenSeq(Append(queue, f)) = FlattenSeq(queue) \o f
            BY <4>1, FlattenAppend
          <5>. QED BY <1>5, <5>1, Zenon
        <4>3. Sent(later) = Sent(ahead) \o f
          BY <2>1, <3>1, SentMore
        <4>4. (bs \o q) \o lost = Sent(ahead)
          BY DEF Transit
        <4>. HIDE DEF bs, q, f, later
        <4>5. bs \o q \in Seq(Bytes)
          BY <4>1, ConcatProperties
        <4>6. (bs \o q) \o lost = bs \o q
          BY <3>1, <4>5, ConcatEmptySeq
        <4>7. (bs \o q) \o f = bs \o (q \o f)
          <5>1. Assoc(bs, q, f)
            BY <4>1, Associates
          <5>. QED BY <5>1, Zenon DEF Assoc
        <4>8. bs \o (q \o f) \in Seq(Bytes)
          BY <4>1, ConcatProperties
        <4>9. (bs \o (q \o f)) \o lost = bs \o (q \o f)
          BY <3>1, <4>8, ConcatEmptySeq
        <4>10. Sent(later) = (bs \o (q \o f)) \o lost
          BY <4>3, <4>4, <4>6, <4>7, <4>9, Zenon
        <4>. QED BY <1>1, <4>2, <4>10, Zenon DEF bs
      <3>. HIDE DEF later
      <3>6. (connected => lost = <<>>)'
        BY <1>1, <1>5, <3>1
      <3>. QED BY <3>1, <3>2, <3>3, <3>4, <3>5, <3>6 DEF Transit
    <2>6. Typed(Fitting(others))'
      <3>1. accepted \o Fitting(calls) = Fitting(typed) /\ accepted \in Seq(Sendable)
        BY <1>5, Zenon DEF Typed, Types
      <3>2. accepted' = accepted \o One(text)
        BY <1>5, <2>1, <3>1, AppendIs
      <3>3. (accepted \o One(text)) \o Fitting(others) = accepted \o (One(text) \o Fitting(others))
        <4>1. Assoc(accepted, One(text), Fitting(others))
        BY <1>4, <3>1, Associates
      <4>. QED BY <4>1, Zenon DEF Assoc
      <3>4. accepted' \o Fitting(others) = Fitting(typed)
        BY <1>3, <3>1, <3>2, <3>3, Zenon
      <3>5. accepted' \o Fitting(others) = Fitting(typed') /\ Fitting(others) = Fitting(calls')
        BY <1>1, <3>4, Zenon
      <3>. QED BY <1>4, <3>5 DEF Typed
    <2>. HIDE DEF later
    <2>. QED BY <2>3, <2>4, <2>5, <2>6, Zenon DEF ChatInv
  <1>6. CASE (~connected \/ ~Fits(text)) /\ notices' = notices + 1 /\ UNCHANGED <<queue, accepted>>
    <2>1. Types'
      BY <1>1, <1>2, <1>6 DEF Types
    <2>2. Counts'
      BY <1>1, <1>2, <1>6 DEF Counts
    <2>3. Transit(posted, ahead, lost)'
      BY <1>1, <1>6 DEF Transit
    <2>4. Typed(rest)'
      <3>1. rest \in Seq(Sendable) /\ accepted \o rest = Fitting(typed)
            /\ (connected => rest = Fitting(calls))
        BY DEF Typed
      <3>2. connected => Fitting(calls) = Fitting(others)
        <4>. SUFFICES ASSUME connected PROVE Fitting(calls) = Fitting(others)
          OBVIOUS
        <4>1. One(text) = <<>>
          BY <1>6 DEF One
        <4>2. <<>> \o Fitting(others) = Fitting(others)
          BY <1>4, ConcatEmptySeq
        <4>. QED BY <1>3, <4>1, <4>2, Zenon
      <3>3. connected' => rest = Fitting(calls')
        BY <1>1, <3>1, <3>2, Zenon
      <3>. QED BY <1>1, <1>6, <3>1, <3>3 DEF Typed
    <2>. QED BY <2>1, <2>2, <2>3, <2>4, Zenon DEF ChatInv
  <1>7. \/ connected /\ Fits(text) /\ queue' = Append(queue, Frame(text))
           /\ accepted' = Append(accepted, text) /\ notices' = notices
        \/ (~connected \/ ~Fits(text)) /\ notices' = notices + 1 /\ UNCHANGED <<queue, accepted>>
    BY <1>0 DEF SendMessage
  <1>. QED BY <1>5, <1>6, <1>7

\* A frame leaves the queue and is in the stream.
LEMMA ChatWritten ==
  ASSUME Types, Counts, Written,
         NEW posted, NEW ahead, NEW lost, Transit(posted, ahead, lost),
         NEW rest, Typed(rest)
  PROVE  ChatInv'
  <1>0. PICK f, others : f = Head(queue) /\ others = Tail(queue)
    OBVIOUS
  <1>1. /\ queue # <<>> /\ queue' = others /\ stream' = stream \o f
        /\ UNCHANGED <<typed, calls, connected, accepted, buffer, events, shown, notices>>
    BY <1>0 DEF Written
  <1>2. f \in FrameSet /\ others \in Seq(FrameSet) /\ queue = <<f>> \o others
    BY <1>0, <1>1, FirstAndRest DEF Types
  <1>3. f \in Seq(Bytes) /\ others \in Seq(Seq(Bytes)) /\ FlattenSeq(others) \in Seq(Bytes)
    BY <1>2, QueueBytes
  <1>4. buffer \in Seq(Bytes) /\ stream \in Seq(Bytes) /\ stream' \in Seq(Bytes)
    <2>1. buffer \in Seq(Bytes) /\ stream \in Seq(Bytes)
      BY DEF Types
    <2>2. stream \o f \in Seq(Bytes)
      BY <1>3, <2>1, ConcatProperties
    <2>. QED BY <1>1, <2>1, <2>2
  <1>5. Types'
    <2>1. connected
      BY <1>1 DEF Types
    <2>. QED BY <1>1, <1>2, <1>4, <2>1 DEF Types
  <1>6. Counts'
    BY <1>1 DEF Counts
  <1>7. Transit(posted, ahead, lost)'
    <2>1. /\ posted \in Seq(Sendable) /\ ahead \in Seq(Sendable) /\ lost \in Seq(Bytes)
          /\ accepted = (shown \o posted) \o ahead /\ events = Calls(posted) /\ (connected => lost = <<>>)
          /\ ((buffer \o stream) \o FlattenSeq(queue)) \o lost = Sent(ahead)
      BY DEF Transit
    <2>2. (buffer \o stream) \o FlattenSeq(queue) = (buffer \o stream') \o FlattenSeq(others)
      <3>. DEFINE bs == buffer \o stream  q == FlattenSeq(others)
      <3>1. bs \in Seq(Bytes) /\ q \in Seq(Bytes)
        BY <1>3, <1>4, ConcatProperties
      <3>2. FlattenSeq(queue) = f \o q
        <4>1. FlattenSeq(<<f>> \o others) = f \o FlattenSeq(others)
          BY <1>3, FlattenFirst
        <4>. QED BY <1>2, <4>1, Zenon
      <3>3. Assoc(buffer, stream, f)
        BY <1>3, <1>4, Associates
      <3>. HIDE DEF bs, q
      <3>4. Assoc(bs, f, q)
        BY <1>3, <3>1, Associates
      <3>5. (bs \o f) \o q = bs \o (f \o q)
        BY <3>4, Zenon DEF Assoc
      <3>6. bs \o f = buffer \o stream'
        BY <1>1, <3>3, Zenon DEF Assoc, bs
      <3>. QED BY <3>2, <3>5, <3>6, Zenon DEF bs, q
    <2>3. ((buffer' \o stream') \o FlattenSeq(queue')) \o lost = Sent(ahead)
      BY <1>1, <2>1, <2>2, Zenon
    <2>. QED BY <1>1, <2>1, <2>3 DEF Transit
  <1>8. Typed(rest)'
    BY <1>1 DEF Typed
  <1>. QED BY <1>5, <1>6, <1>7, <1>8, Zenon DEF ChatInv

\* The connection is closed: what does not arrive is lost.
LEMMA ChatClose ==
  ASSUME Types, Counts, NEW k \in 0..Len(stream), Close(k),
         NEW posted, NEW ahead, NEW lost, Transit(posted, ahead, lost),
         NEW rest, Typed(rest)
  PROVE  ChatInv'
  <1>0. PICK a, b, q : a = SubSeq(stream, 1, k) /\ b = From(stream, k) /\ q = FlattenSeq(queue)
    OBVIOUS
  <1>1. /\ connected = TRUE /\ connected' = FALSE /\ queue' = <<>> /\ stream' = a
        /\ UNCHANGED <<typed, calls, accepted, buffer, events, shown, notices>>
    BY <1>0 DEF Close, Types
  <1>2. a \in Seq(Bytes) /\ b \in Seq(Bytes) /\ stream = a \o b
    <2>1. stream \in Seq(Bytes)
      BY DEF Types
    <2>2. SubSeq(stream, 1, k) \in Seq(Bytes) /\ From(stream, k) \in Seq(Bytes)
         /\ stream = SubSeq(stream, 1, k) \o From(stream, k)
      BY <2>1, TwoParts
    <2>. QED BY <1>0, <2>2, Zenon
  <1>3. buffer \in Seq(Bytes) /\ q \in Seq(Bytes) /\ queue \in Seq(FrameSet)
    BY <1>0, QueueBytes DEF Types
  <1>4. Types'
    <2>1. <<>> \in Seq(FrameSet)
      OBVIOUS
    <2>. QED BY <1>1, <1>2, <2>1 DEF Types
  <1>5. Counts'
    BY <1>1 DEF Counts
  <1>. DEFINE gone == b \o q
  <1>6. Transit(posted, ahead, gone)'
    <2>1. /\ posted \in Seq(Sendable) /\ ahead \in Seq(Sendable) /\ lost = <<>>
          /\ accepted = (shown \o posted) \o ahead /\ events = Calls(posted)
          /\ ((buffer \o stream) \o FlattenSeq(queue)) \o lost = Sent(ahead)
      BY <1>1 DEF Transit
    <2>2. gone \in Seq(Bytes)
      BY <1>2, <1>3, ConcatProperties
    <2>3. ((buffer \o a) \o <<>>) \o gone = Sent(ahead)
      <3>. DEFINE ba == buffer \o a  e == <<>>  bs == buffer \o stream
      <3>1. ba \in Seq(Bytes) /\ bs \in Seq(Bytes)
        <4>1. a \o b \in Seq(Bytes)
          BY <1>2, ConcatProperties
        <4>2. stream \in Seq(Bytes)
          BY <1>2, <4>1
        <4>. QED BY <1>2, <1>3, <4>2, ConcatProperties
      <3>2. Assoc(buffer, a, b)
        BY <1>2, <1>3, Associates
      <3>3. bs = ba \o b
        BY <1>2, <3>2, Zenon DEF Assoc
      <3>. HIDE DEF ba, bs
      <3>4. Assoc(ba, b, q)
        BY <1>2, <1>3, <3>1, Associates
      <3>5. bs \o q = ba \o gone
        BY <3>3, <3>4, Zenon DEF Assoc
      <3>6. bs \o q \in Seq(Bytes)
        BY <1>3, <3>1, ConcatProperties
      <3>7. (bs \o q) \o e = bs \o q /\ ba \o e = ba
        BY <3>1, <3>6, ConcatEmptySeq
      <3>8. (bs \o q) \o e = Sent(ahead)
        BY <1>0, <2>1, Zenon DEF bs
      <3>9. (ba \o e) \o gone = Sent(ahead)
        BY <3>5, <3>7, <3>8, Zenon
      <3>. QED BY <3>9, Zenon DEF ba
    <2>4. ((buffer' \o stream') \o FlattenSeq(queue')) \o gone = Sent(ahead)
      BY <1>1, <2>3, FlattenNone, Zenon
    <2>5. ~connected'
      BY <1>1
    <2>. HIDE DEF gone
    <2>. QED BY <1>1, <2>1, <2>2, <2>4, <2>5 DEF Transit
  <1>7. Typed(rest)'
    BY <1>1 DEF Typed
  <1>. HIDE DEF gone
  <1>. QED BY <1>4, <1>5, <1>6, <1>7, Zenon DEF ChatInv

\* Bytes are read: the messages whose frames are there as a whole are posted, and
\* the beginning of the next frame stays in the buffer.
LEMMA ChatReadMain ==
  ASSUME Types, Counts, NEW n \in 1..ChunkSize, ReadMain(n),
         NEW posted, NEW ahead, NEW lost, Transit(posted, ahead, lost),
         NEW rest, Typed(rest)
  PROVE  ChatInv'
  <1>0. PICK a, b, q : a = SubSeq(stream, 1, n) /\ b = From(stream, n) /\ q = FlattenSeq(queue)
    OBVIOUS
  <1>1. n <= Len(stream) /\ stream' = b
        /\ UNCHANGED <<typed, calls, connected, accepted, queue, shown, notices>>
    BY <1>0 DEF ReadMain, From
  <1>2. a \in Seq(Bytes) /\ b \in Seq(Bytes) /\ stream = a \o b
    <2>1. stream \in Seq(Bytes) /\ Len(stream) \in Nat
      BY LengthIsNat DEF Types
    <2>2. n \in 0..Len(stream)
      BY <1>1, <2>1, ChatAssumption
    <2>3. SubSeq(stream, 1, n) \in Seq(Bytes) /\ From(stream, n) \in Seq(Bytes)
         /\ stream = SubSeq(stream, 1, n) \o From(stream, n)
      BY <2>1, <2>2, TwoParts
    <2>. QED BY <1>0, <2>3, Zenon
  <1>3. buffer \in Seq(Bytes) /\ q \in Seq(Bytes) /\ queue \in Seq(FrameSet)
    BY <1>0, QueueBytes DEF Types
  <1>4. /\ posted \in Seq(Sendable) /\ ahead \in Seq(Sendable) /\ lost \in Seq(Bytes)
        /\ accepted = (shown \o posted) \o ahead /\ events = Calls(posted) /\ (connected => lost = <<>>)
        /\ ((buffer \o stream) \o q) \o lost = Sent(ahead)
    BY <1>0, Zenon DEF Transit
  <1>5. PICK view, x : view = buffer \o a /\ x = (b \o q) \o lost
    OBVIOUS
  <1>6. view \in Seq(Bytes) /\ x \in Seq(Bytes) /\ b \o q \in Seq(Bytes)
    <2>1. b \o q \in Seq(Bytes)
      BY <1>2, <1>3, ConcatProperties
    <2>. DEFINE bq == b \o q
    <2>. HIDE DEF bq
    <2>2. bq \o lost \in Seq(Bytes)
      BY <1>4, <2>1, ConcatProperties DEF bq
    <2>3. buffer \o a \in Seq(Bytes)
      BY <1>2, <1>3, ConcatProperties
    <2>. QED BY <1>5, <2>1, <2>2, <2>3 DEF bq
  <1>7. view \o x = Sent(ahead)
    <2>. DEFINE bq == b \o q  bs == buffer \o stream
    <2>1. Assoc(buffer, a, b) /\ Assoc(view, b, q)
      BY <1>2, <1>3, <1>6, Associates
    <2>2. bs = view \o b
      BY <1>2, <1>5, <2>1, Zenon DEF Assoc
    <2>3. bs \o q = view \o bq
      BY <2>1, <2>2, Zenon DEF Assoc
    <2>4. bq \in Seq(Bytes)
      BY <1>6
    <2>. HIDE DEF bs, bq
    <2>5. Assoc(view, bq, lost)
      BY <1>4, <1>6, <2>4, Associates
    <2>6. (bs \o q) \o lost = view \o (bq \o lost)
      BY <2>3, <2>5, Zenon DEF Assoc
    <2>. QED BY <1>4, <1>5, <2>6, Zenon DEF bs, bq
  <1>8. PICK done, next : Finds(view, x, ahead, done, next)
    BY <1>4, <1>6, <1>7, ParseFinds
  <1>9. PICK left : left = ParseMain(view).rest
    OBVIOUS
  <1>10. /\ done \in Seq(Sendable) /\ next \in Seq(Sendable) /\ ahead = done \o next
         /\ ParseMain(view).messages = done
         /\ left \in Seq(Bytes) /\ Beginning(left) /\ left \o x = Sent(next)
    BY <1>8, <1>9, Zenon DEF Finds
  <1>11. buffer' = left /\ events' = events \o Calls(done)
    <2>1. /\ buffer' = ParseMain(view).rest
          /\ events' = events \o [i \in 1..Len(ParseMain(view).messages) |-> MesajAl(ParseMain(view).messages[i])]
      BY <1>0, <1>5 DEF ReadMain
    <2>. QED BY <1>9, <1>10, <2>1, Zenon DEF Calls
  <1>12. Types'
    BY <1>1, <1>2, <1>10, <1>11 DEF Types
  <1>13. Counts'
    BY <1>1 DEF Counts
  <1>. DEFINE now == posted \o done
  <1>14. Transit(now, next, lost)'
    <2>0. shown \in Seq(Sendable)
      BY DEF Types
    <2>1. now \in Seq(Sendable)
      BY <1>4, <1>10, ConcatProperties
    <2>2. accepted = (shown \o now) \o next
      <3>. DEFINE sp == shown \o posted
      <3>1. sp \in Seq(Sendable)
        BY <1>4, <2>0, ConcatProperties
      <3>2. Assoc(shown, posted, done)
        BY <1>4, <1>10, <2>0, Associates
      <3>. HIDE DEF sp
      <3>3. Assoc(sp, done, next)
        BY <1>10, <3>1, Associates
      <3>4. accepted = sp \o (done \o next)
        BY <1>4, <1>10, Zenon DEF sp
      <3>5. accepted = (sp \o done) \o next
        BY <3>3, <3>4, Zenon DEF Assoc
      <3>. QED BY <3>2, <3>5, Zenon DEF Assoc, sp
    <2>3. events' = Calls(now)
      <3>1. Calls(posted \o done) = Calls(posted) \o Calls(done)
        BY <1>4, <1>10, CallsBoth
      <3>. QED BY <1>4, <1>11, <3>1, Zenon
    <2>4. ((left \o b) \o q) \o lost = Sent(next)
      <3>. DEFINE lb == left \o b  bq == b \o q
      <3>1. lb \in Seq(Bytes) /\ bq \in Seq(Bytes)
        BY <1>2, <1>6, <1>10, ConcatProperties
      <3>2. Assoc(left, b, q)
        BY <1>2, <1>3, <1>10, Associates
      <3>3. lb \o q = left \o bq
        BY <3>2, Zenon DEF Assoc
      <3>4. (left \o bq) \o lost = left \o (bq \o lost)
        <4>. HIDE DEF bq
        <4>1. Assoc(left, bq, lost)
          BY <1>4, <1>10, <3>1, Associates
        <4>. QED BY <4>1, Zenon DEF Assoc
      <3>. QED BY <1>5, <1>10, <3>3, <3>4, Zenon
    <2>5. ((buffer' \o stream') \o FlattenSeq(queue')) \o lost = Sent(next)
      BY <1>0, <1>1, <1>11, <2>4, Zenon
    <2>6. (connected => lost = <<>>)'
      BY <1>1, <1>4
    <2>7. accepted' = (shown' \o now) \o next
      BY <1>1, <2>2, Zenon
    <2>. HIDE DEF now
    <2>. QED BY <1>4, <1>10, <2>1, <2>3, <2>5, <2>6, <2>7 DEF Transit
  <1>15. Typed(rest)'
    BY <1>1 DEF Typed
  <1>. HIDE DEF now
  <1>. QED BY <1>12, <1>13, <1>14, <1>15, Zenon DEF ChatInv

\* The page shows the first of the messages posted to it.
LEMMA ChatShow ==
  ASSUME Types, Counts, Show,
         NEW posted, NEW ahead, NEW lost, Transit(posted, ahead, lost),
         NEW rest, Typed(rest)
  PROVE  ChatInv'
  <1>1. /\ events # <<>> /\ events' = Tail(events) /\ shown' = shown \o Evaluated(Head(events))
        /\ UNCHANGED <<typed, calls, connected, accepted, queue, stream, buffer, notices>>
    BY DEF Show
  <1>2. /\ posted \in Seq(Sendable) /\ ahead \in Seq(Sendable) /\ lost \in Seq(Bytes)
        /\ accepted = (shown \o posted) \o ahead /\ events = Calls(posted) /\ (connected => lost = <<>>)
        /\ ((buffer \o stream) \o FlattenSeq(queue)) \o lost = Sent(ahead)
    BY Zenon DEF Transit
  <1>3. posted # <<>>
    <2>1. Calls(<<>>) = <<>>
      BY DEF Calls
    <2>. QED BY <1>1, <1>2, <2>1
  <1>4. PICK t, others : t = Head(posted) /\ others = Tail(posted)
    OBVIOUS
  <1>5. t \in Sendable /\ others \in Seq(Sendable) /\ posted = <<t>> \o others /\ <<t>> \in Seq(Sendable)
    BY <1>2, <1>3, <1>4, FirstAndRest
  <1>6. Head(events) = MesajAl(t) /\ Tail(events) = Calls(others)
    <2>. DEFINE c == MesajAl(t)  cs == Calls(others)  w == <<c>> \o cs
    <2>1. events = w
      <3>1. Calls(<<t>> \o others) = <<MesajAl(t)>> \o Calls(others)
        BY <1>5, CallsFirst
      <3>. QED BY <1>2, <1>5, <3>1, Zenon
    <2>2. c \in CallSet /\ cs \in Seq(CallSet)
      BY <1>5, CallsBoth DEF CallSet
    <2>. HIDE DEF c, cs
    <2>3. Head(w) = c /\ Tail(w) = cs
      BY <2>2, TailIs
    <2>. QED BY <2>1, <2>3, Zenon DEF c, cs
  <1>7. Evaluated(MesajAl(t)) = <<t>>
    BY <1>5, SendableTexts, EvaluatedIs
  <1>8. shown' = shown \o <<t>> /\ events' = Calls(others)
    BY <1>1, <1>6, <1>7, Zenon
  <1>9. shown \in Seq(Sendable) /\ shown' \in Seq(Sendable)
    <2>1. shown \in Seq(Sendable)
      BY DEF Types
    <2>. DEFINE o == <<t>>
    <2>2. o \in Seq(Sendable)
      BY <1>5
    <2>. HIDE DEF o
    <2>3. shown \o o \in Seq(Sendable)
      BY <2>1, <2>2, ConcatProperties
    <2>. QED BY <1>8, <2>1, <2>3 DEF o
  <1>10. Types'
    BY <1>1, <1>9 DEF Types
  <1>11. Counts'
    BY <1>1 DEF Counts
  <1>12. Transit(others, ahead, lost)'
    <2>1. accepted = (shown' \o others) \o ahead
      <3>1. Assoc(shown, <<t>>, others)
        BY <1>5, <1>9, Associates
      <3>2. (shown \o <<t>>) \o others = shown \o posted
        BY <1>5, <3>1, Zenon DEF Assoc
      <3>. QED BY <1>2, <1>8, <3>2, Zenon
    <2>2. ((buffer' \o stream') \o FlattenSeq(queue')) \o lost = Sent(ahead)
      BY <1>1, <1>2, Zenon
    <2>3. accepted' = (shown' \o others) \o ahead
      BY <1>1, <2>1, Zenon
    <2>4. (connected => lost = <<>>)'
      BY <1>1, <1>2
    <2>5. events' = Calls(others)
      BY <1>8
    <2>. QED BY <1>2, <1>5, <2>2, <2>3, <2>4, <2>5 DEF Transit
  <1>13. Typed(rest)'
    BY <1>1 DEF Typed
  <1>. QED BY <1>10, <1>11, <1>12, <1>13, Zenon DEF ChatInv

\* Every step keeps the invariant.
LEMMA ChatNext == ChatInv /\ [Next]_vars => ChatInv'
  <1>. SUFFICES ASSUME ChatInv, [Next]_vars PROVE ChatInv'
    OBVIOUS
  <1>1. Types /\ Counts
    BY DEF ChatInv
  <1>2. PICK posted, ahead, lost : Transit(posted, ahead, lost)
    BY DEF ChatInv
  <1>3. PICK rest : Typed(rest)
    BY DEF ChatInv
  <1>4. ASSUME NEW text \in Texts, MesajGonder(text) PROVE ChatInv'
    BY <1>1, <1>2, <1>3, <1>4, ChatMesajGonder
  <1>5. CASE SendMessage
    BY <1>1, <1>2, <1>3, <1>5, ChatSendMessage
  <1>6. CASE Written
    BY <1>1, <1>2, <1>3, <1>6, ChatWritten
  <1>7. ASSUME NEW k \in 0..Len(stream), Close(k) PROVE ChatInv'
    BY <1>1, <1>2, <1>3, <1>7, ChatClose
  <1>8. ASSUME NEW n \in 1..ChunkSize, ReadMain(n) PROVE ChatInv'
    BY <1>1, <1>2, <1>3, <1>8, ChatReadMain
  <1>9. CASE Show
    BY <1>1, <1>2, <1>3, <1>9, ChatShow
  <1>10. CASE UNCHANGED vars
    <2>1. UNCHANGED <<typed, calls, connected, accepted, queue, stream, buffer, events, shown, notices>>
      BY <1>10 DEF vars
    <2>2. Types'
      BY <1>1, <2>1 DEF Types
    <2>3. Counts'
      BY <1>1, <2>1 DEF Counts
    <2>4. Transit(posted, ahead, lost)'
      BY <1>2, <2>1 DEF Transit
    <2>5. Typed(rest)'
      BY <1>3, <2>1 DEF Typed
    <2>. QED BY <2>2, <2>3, <2>4, <2>5, Zenon DEF ChatInv
  <1>. QED BY <1>4, <1>5, <1>6, <1>7, <1>8, <1>9, <1>10 DEF Next

\* The invariant of the way of a message.
LEMMA ChatInvariant == Spec => []ChatInv
  <1>. QED BY ChatInit, ChatNext, PTL DEF Spec

-----------------------------------------------------------------------------
\* What the invariant says.

\* A beginning of a frame is a prefix of it, and not all of it.
LEMMA BegunPrefix ==
  ASSUME NEW r \in Seq(Bytes), NEW f \in Seq(Bytes), Begun(r, f)
  PROVE  IsStrictPrefix(r, f)
  <1>. DEFINE l == Len(r)
  <1>1. l \in Nat /\ Len(f) \in Nat
    BY LengthIsNat
  <1>2. l < Len(f) /\ \A i \in 1..l : r[i] = f[i]
    BY DEF Begun
  <1>3. SubSeq(r, 1, l) = [i \in 1..l |-> r[i]] /\ SubSeq(f, 1, l) = [i \in 1..l |-> f[i]]
    BY <1>1, <1>2
  <1>4. SubSeq(r, 1, l) = SubSeq(f, 1, l)
    <2>. HIDE DEF l
    <2>. QED BY <1>2, <1>3
  <1>5. IsPrefix(r, f)
    BY <1>1, <1>2, <1>4 DEF IsPrefix
  <1>6. r # f
    BY <1>1, <1>2
  <1>. QED BY <1>5, <1>6 DEF IsStrictPrefix

\* What comes first is a prefix.
LEMMA FirstIsPrefix ==
  ASSUME NEW S, NEW s \in Seq(S), NEW t \in Seq(S)
  PROVE  IsPrefix(s, s \o t)
  <1>. DEFINE l == Len(s)  w == s \o t
  <1>1. l \in Nat /\ Len(t) \in Nat
    BY LengthIsNat
  <1>2. w \in Seq(S) /\ Len(w) = l + Len(t) /\ \A i \in 1..l : w[i] = s[i]
    BY ConcatProperties, <1>1
  <1>. HIDE DEF w
  <1>3. SubSeq(s, 1, l) = [i \in 1..l |-> s[i]] /\ SubSeq(w, 1, l) = [i \in 1..l |-> w[i]]
    BY <1>1, <1>2
  <1>4. SubSeq(s, 1, l) = SubSeq(w, 1, l)
    <2>. HIDE DEF l
    <2>. QED BY <1>2, <1>3
  <1>5. l <= Len(w)
    BY <1>1, <1>2
  <1>6. IsPrefix(s, w)
    BY <1>4, <1>5 DEF IsPrefix
  <1>. QED BY <1>6 DEF w

\* The page shows what is posted.
LEMMA PostedShown ==
  ASSUME NEW posted \in Seq(Sendable), NEW calling, calling = Calls(posted)
  PROVE  FlattenSeq([i \in 1..Len(calling) |-> Evaluated(calling[i])]) = posted
  <1>. DEFINE n == Len(posted)  f == [i \in 1..Len(calling) |-> Evaluated(calling[i])]
              m == Mapped(Single(Sendable), posted)
  <1>1. Len(calling) = n /\ \A i \in 1..n : calling[i] = MesajAl(posted[i])
    <2>1. Len(calling) = n
      BY CallsBoth
    <2>2. calling = [i \in 1..n |-> MesajAl(posted[i])]
      BY DEF Calls
    <2>. HIDE DEF n
    <2>. QED BY <2>1, <2>2
  <1>2. \A i \in 1..n : posted[i] \in Sendable
    OBVIOUS
  <1>3. \A i \in 1..n : Evaluated(calling[i]) = <<posted[i]>>
    <2>. SUFFICES ASSUME NEW i \in 1..n PROVE Evaluated(calling[i]) = <<posted[i]>>
      OBVIOUS
    <2>1. posted[i] \in Seq(Bytes)
      BY <1>2, SendableTexts
    <2>2. Evaluated(MesajAl(posted[i])) = <<posted[i]>>
      BY <2>1, EvaluatedIs
    <2>3. calling[i] = MesajAl(posted[i])
      BY <1>1
    <2>. QED BY <2>2, <2>3, Zenon
  <1>4. \A i \in 1..n : Single(Sendable)[posted[i]] = <<posted[i]>>
    BY <1>2 DEF Single
  <1>5. f = [i \in 1..n |-> <<posted[i]>>]
    <2>1. f = [i \in 1..n |-> Evaluated(calling[i])]
      BY <1>1
    <2>. HIDE DEF f, n
    <2>. QED BY <1>3, <2>1
  <1>6. m = [i \in 1..n |-> <<posted[i]>>]
    <2>1. m = [i \in 1..n |-> Single(Sendable)[posted[i]]]
      BY DEF Mapped
    <2>. HIDE DEF m, n
    <2>. QED BY <1>4, <2>1
  <1>7. FlattenSeq(m) = posted
    BY FlattenSingles
  <1>. HIDE DEF f, m
  <1>8. FlattenSeq(f) = posted
    BY <1>5, <1>6, <1>7, Zenon
  <1>. QED BY <1>8 DEF f

\* The type invariant: types, no frame in the queue longer than the receiver takes,
\* and what the parser leaves in the buffer is the beginning of one frame.
THEOREM ChatTypes == Spec => []ChatTypeOK
  <1>1. ChatInv => ChatTypeOK
    <2>. SUFFICES ASSUME ChatInv PROVE ChatTypeOK
      OBVIOUS
    <2>1. Types /\ Counts
      BY DEF ChatInv
    <2>2. typed \in Seq(Texts) /\ calls \in Seq(Texts) /\ connected \in BOOLEAN
      BY <2>1 DEF Types
    <2>3. accepted \in Seq(Texts)
      <3>1. accepted \in Seq(Sendable) /\ Sendable \subseteq Texts
        BY <2>1 DEF Types, Sendable
      <3>. QED BY <3>1
    <2>4. notices \in 0..MaxMessages
      <3>1. Len(typed) \in Nat /\ Len(calls) \in Nat
        BY <2>2, LengthIsNat
      <3>. QED BY <2>1, <3>1, ChatAssumption DEF Counts
    <2>5. ASSUME NEW i \in DOMAIN queue
          PROVE  \E t \in Texts : Len(t) <= MaxMessageSize /\ queue[i] = Frame(t)
      <3>1. queue[i] \in FrameSet
        BY <2>1 DEF Types
      <3>2. PICK t \in Sendable : queue[i] = Frame(t)
        BY <3>1 DEF FrameSet
      <3>3. t \in Texts /\ Len(t) <= MaxMessageSize
        BY DEF Sendable, Fits
      <3>. QED BY <3>2, <3>3
    <2>6. ASSUME buffer # <<>> PROVE \E t \in Texts : IsStrictPrefix(buffer, Frame(t))
      <3>1. buffer \in Seq(Bytes) /\ Beginning(buffer)
        BY <2>1 DEF Types
      <3>2. PICK t \in Sendable : Begun(buffer, Frame(t))
        BY <2>6, <3>1 DEF Beginning
      <3>3. t \in Texts /\ Frame(t) \in Seq(Bytes)
        BY SendableTexts, FrameIs
      <3>. QED BY <3>1, <3>2, <3>3, BegunPrefix
    <2>. QED BY <2>2, <2>3, <2>4, <2>5, <2>6 DEF ChatTypeOK
  <1>. QED BY <1>1, ChatInvariant, PTL

\* However the stream is cut, the receiving page shows the messages that were
\* accepted, in order and byte by byte; a connection that closes costs the last
\* ones, and never leaves a part of one.
THEOREM ChatShown == Spec => []ShownAsAccepted
  <1>1. ChatInv => ShownAsAccepted
    <2>. SUFFICES ASSUME ChatInv PROVE ShownAsAccepted
      OBVIOUS
    <2>1. Types
      BY DEF ChatInv
    <2>2. PICK posted, ahead, lost : Transit(posted, ahead, lost)
      BY DEF ChatInv
    <2>3. /\ posted \in Seq(Sendable) /\ ahead \in Seq(Sendable) /\ lost \in Seq(Bytes)
          /\ accepted = (shown \o posted) \o ahead /\ events = Calls(posted) /\ (connected => lost = <<>>)
          /\ ((buffer \o stream) \o FlattenSeq(queue)) \o lost = Sent(ahead)
      BY <2>2, Zenon DEF Transit
    <2>4. PICK view, evs : view = (buffer \o stream) \o FlattenSeq(queue) /\ evs = events
      OBVIOUS
    <2>5. view \in Seq(Bytes)
      <3>. DEFINE bs == buffer \o stream  q == FlattenSeq(queue)
      <3>1. bs \in Seq(Bytes) /\ q \in Seq(Bytes)
        BY <2>1, QueueBytes, ConcatProperties DEF Types
      <3>2. view = bs \o q
        BY <2>4
      <3>. HIDE DEF bs, q
      <3>. QED BY <3>1, <3>2, ConcatProperties
    <2>6. view \o lost = Sent(ahead)
      BY <2>3, <2>4, Zenon
    <2>7. PICK done, next : Finds(view, lost, ahead, done, next)
      BY <2>3, <2>5, <2>6, ParseFinds
    <2>8. /\ done \in Seq(Sendable) /\ next \in Seq(Sendable) /\ ahead = done \o next
          /\ ParseMain(view).messages = done /\ (lost = <<>> => next = <<>>)
      BY <2>7, Zenon DEF Finds
    <2>9. FlattenSeq([i \in 1..Len(evs) |-> Evaluated(evs[i])]) = posted
      BY <2>3, <2>4, PostedShown
    <2>10. OnTheWay = posted \o done
      <3>1. OnTheWay = FlattenSeq([i \in 1..Len(evs) |-> Evaluated(evs[i])]) \o ParseMain(view).messages
        BY <2>4, Zenon DEF OnTheWay
      <3>. QED BY <2>8, <2>9, <3>1, Zenon
    <2>. DEFINE all == shown \o (posted \o done)
    <2>11. all \in Seq(Sendable) /\ accepted = all \o next
      <3>. DEFINE sp == shown \o posted  pd == posted \o done
      <3>1. shown \in Seq(Sendable)
        BY <2>1 DEF Types
      <3>2. sp \in Seq(Sendable) /\ pd \in Seq(Sendable)
        BY <2>3, <2>8, <3>1, ConcatProperties
      <3>3. Assoc(shown, posted, done)
        BY <2>3, <2>8, <3>1, Associates
      <3>. HIDE DEF sp
      <3>4. Assoc(sp, done, next)
        BY <2>8, <3>2, Associates
      <3>5. accepted = (sp \o done) \o next
        BY <2>3, <2>8, <3>4, Zenon DEF Assoc, sp
      <3>6. accepted = all \o next
        BY <3>3, <3>5, Zenon DEF Assoc, sp
      <3>. HIDE DEF pd
      <3>7. shown \o pd \in Seq(Sendable)
        BY <3>1, <3>2, ConcatProperties
      <3>. QED BY <3>6, <3>7, Zenon DEF pd
    <2>12. shown \o OnTheWay = all
      BY <2>10, Zenon
    <2>. HIDE DEF all
    <2>13. connected => all = accepted
      <3>. SUFFICES ASSUME connected PROVE all = accepted
        OBVIOUS
      <3>1. next = <<>>
        BY <2>3, <2>8
      <3>2. all \o <<>> = all
        BY <2>11, ConcatEmptySeq
      <3>. QED BY <2>11, <3>1, <3>2, Zenon
    <2>14. IsPrefix(all, accepted)
      <3>1. IsPrefix(all, all \o next)
        BY <2>8, <2>11, FirstIsPrefix
      <3>. QED BY <2>11, <3>1, Zenon
    <2>. QED BY <2>12, <2>13, <2>14, Zenon DEF ShownAsAccepted
  <1>. QED BY <1>1, ChatInvariant, PTL

\* The messages accepted are those typed, unchanged by the way through JSON, but
\* for the ones that are too long; a connection that closes costs the last ones.
THEOREM ChatAccepted == Spec => []AcceptedAsTyped
  <1>1. ChatInv => AcceptedAsTyped
    <2>. SUFFICES ASSUME ChatInv PROVE AcceptedAsTyped
      OBVIOUS
    <2>1. accepted \in Seq(Sendable)
      BY DEF ChatInv, Types
    <2>2. PICK rest : Typed(rest)
      BY DEF ChatInv
    <2>3. rest \in Seq(Sendable) /\ accepted \o rest = Fitting(typed) /\ (connected => rest = Fitting(calls))
      BY <2>2, Zenon DEF Typed
    <2>4. connected => accepted \o Fitting(calls) = Fitting(typed)
      BY <2>3, Zenon
    <2>5. IsPrefix(accepted, Fitting(typed))
      <3>1. IsPrefix(accepted, accepted \o rest)
        BY <2>1, <2>3, FirstIsPrefix
      <3>. QED BY <2>3, <3>1, Zenon
    <2>. QED BY <2>4, <2>5, Zenon DEF AcceptedAsTyped
  <1>. QED BY <1>1, ChatInvariant, PTL
=============================================================================
