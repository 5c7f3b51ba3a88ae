--------------------------------- MODULE Text ---------------------------------
(***************************************************************************)
(* The conversions of Text.cpp between texts and the JSON strings in which *)
(* page and program hand them to each other, and JavaScript's side of it.  *)
(*                                                                         *)
(* A text is a sequence of bytes; a byte is a string.  "'" stands for the  *)
(* double quote; "^A", "^H" and "^L" stand for the control characters,     *)
(* without and with a short escape of their own in JavaScript; bytes of    *)
(* longer UTF-8 sequences are like letters.  A loop is a function of the   *)
(* turns it has taken; as each turn moves on by a byte at least, there are *)
(* no more turns than bytes.                                               *)
(***************************************************************************)
EXTENDS Integers, Sequences, SequencesExt

CONSTANT Bytes  \* those of texts, and of the syntax around them

ASSUME SyntaxAssumption ==
  {"'", "\\", "/", "[", "]", ",", "b", "f", "n", "r", "t", "u", "0", "1", "8", "c",
   "\n", "\r", "\t", "^A", "^H", "^L"} \subseteq Bytes

\* What follows the backslash, for the bytes JsonQuote escapes with one letter,
Short == [c \in {"'", "\\", "\n", "\r", "\t"} |->
  IF c = "\n" THEN "n" ELSE IF c = "\r" THEN "r" ELSE IF c = "\t" THEN "t" ELSE c]

\* and the code for those it escapes by their number.
Code == [c \in {"^A", "^H", "^L"} |->
  <<"0", "0", "0", IF c = "^A" THEN "1" ELSE IF c = "^H" THEN "8" ELSE "c">>]

\* MUTANT: line ends are not escaped.
EscapeInLine(c) ==
  IF c \in DOMAIN Short \ {"\n"} THEN <<"\\", Short[c]>>
  ELSE IF c \in DOMAIN Code THEN <<"\\", "u">> \o Code[c] ELSE <<c>>

Escape(c) ==
  IF c \in DOMAIN Short THEN <<"\\", Short[c]>>
  ELSE IF c \in DOMAIN Code THEN <<"\\", "u">> \o Code[c] ELSE <<c>>

JsonQuote(t) == <<"'">> \o FlattenSeq([i \in 1..Len(t) |-> Escape(t[i])]) \o <<"'">>

\* MUTANT: the escapes for control characters are left out.
LetterPrintable == [c \in {"'", "\\", "/", "n", "r", "t"} |->
  IF c = "n" THEN "\n" ELSE IF c = "r" THEN "\r" ELSE IF c = "t" THEN "\t" ELSE c]

\* The byte that an escape of one letter stands for.
Letter == [c \in {"'", "\\", "/", "b", "f", "n", "r", "t"} |->
  IF c = "b" THEN "^H" ELSE IF c = "f" THEN "^L"
  ELSE IF c = "n" THEN "\n" ELSE IF c = "r" THEN "\r" ELSE IF c = "t" THEN "\t" ELSE c]

\* A string while it is read: how far, what has been read, and how it stands.
Readers == [pos : Nat, out : Seq(Bytes), state : {"reading", "read", "failed"}]

Reader(pos, out, state) == [pos |-> pos, out |-> out, state |-> state]

\* One turn of ReadJsonString's loop, at r.pos.
ReadOnce(s) == [r \in Readers |->
  LET c == s[r.pos]
      letter == s[r.pos + 1]
      Coded(b) == Code[b] = SubSeq(s, r.pos + 2, r.pos + 5)
      Read(n, b) == Reader(r.pos + n, Append(r.out, b), "reading")
  IN  IF r.state # "reading" THEN r
      ELSE IF r.pos > Len(s) THEN Reader(r.pos, r.out, "failed")
      ELSE IF c = "'" THEN Reader(r.pos + 1, r.out, "read")
      ELSE IF c # "\\" THEN Read(1, c)
      ELSE IF r.pos + 1 <= Len(s) /\ letter \in DOMAIN Letter THEN Read(2, Letter[letter])
      ELSE IF r.pos + 5 <= Len(s) /\ letter = "u" /\ \E b \in DOMAIN Code : Coded(b)
      THEN Read(6, CHOOSE b \in DOMAIN Code : Coded(b))
      ELSE Reader(r.pos, r.out, "failed")]

\* The string that begins with the quote at pos, and where it ends.
ReadJsonString(s, pos) ==
  LET opened == pos <= Len(s) /\ s[pos] = "'"
      start == Reader(pos + 1, <<>>, IF opened THEN "reading" ELSE "failed")
      turn[k \in 0..Len(s)] == IF k = 0 THEN start ELSE ReadOnce(s)[turn[k - 1]]
  IN  turn[Len(s)]

IsJsonSpace(c) == c \in {" ", ",", "\t", "\r", "\n"}

\* An array while it is read: how far, its items, and whether it is over.
Arrays == [pos : Nat, items : Seq(Seq(Bytes)), over : BOOLEAN]

Array(pos, items, over) == [pos |-> pos, items |-> items, over |-> over]

\* One step of ParseJsonStringArray: over a space, or a string; to the closing
\* bracket, or to what cannot be read.
ItemOnce(s) == [p \in Arrays |->
  LET string == ReadJsonString(s, p.pos) IN
  IF p.over \/ p.pos > Len(s) \/ s[p.pos] = "]" THEN Array(p.pos, p.items, TRUE)
  ELSE IF IsJsonSpace(s[p.pos]) THEN Array(p.pos + 1, p.items, FALSE)
  ELSE IF string.state # "read" THEN Array(p.pos, p.items, TRUE)
  ELSE Array(string.pos, Append(p.items, string.out), FALSE)]

ParseJsonStringArray(s) ==
  LET open == SelectInSeq(s, LAMBDA c : c = "[")
      start == Array(open + 1, <<>>, FALSE)
      turn[k \in 0..Len(s)] == IF k = 0 THEN start ELSE ItemOnce(s)[turn[k - 1]]
  IN  IF open = 0 THEN <<>> ELSE turn[Len(s)].items

-----------------------------------------------------------------------------
\* JavaScript: JSON.stringify of a string,
JsEscape(c) ==
  IF c = "^H" THEN <<"\\", "b">> ELSE IF c = "^L" THEN <<"\\", "f">> ELSE Escape(c)

JsQuote(t) == <<"'">> \o FlattenSeq([i \in 1..Len(t) |-> JsEscape(t[i])]) \o <<"'">>

\* and of an array of two,
Stringify(a, b) == <<"[">> \o JsQuote(a) \o <<",">> \o JsQuote(b) \o <<"]">>

\* and a string literal, in which no line may end.
Literal(s) ==
  IF \E i \in 1..Len(s) : s[i] \in {"\n", "\r"}
  THEN Reader(1, <<>>, "failed") ELSE ReadJsonString(s, 1)
=============================================================================
