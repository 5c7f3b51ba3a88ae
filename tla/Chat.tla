--------------------------------- MODULE Chat ---------------------------------
(***************************************************************************)
(* A chat message on its way from one page to another's: through JSON into *)
(* the program (UiBridge.cpp, Text.cpp), in a frame on the main socket     *)
(* (ClientSocket.cpp), out of the stream again however reads cut and join  *)
(* it (PeerConnection.cpp), and through a JavaScript literal to the page.  *)
(*                                                                         *)
(* One direction of one connection.  That frames are written one after the *)
(* other is shown in ClientSocket; here the first in the queue is written. *)
(***************************************************************************)
EXTENDS Text

CONSTANTS
  Texts,            \* the messages a user may type
  Ip,               \* the other device's address
  MaxMessageSize,   \* kMaxMessageSize
  MaxHeaderSize,    \* kMaxHeaderSize
  ChunkSize,        \* kChunkSize
  MaxMessages       \* bound: messages typed

ASSUME ChatAssumption ==
  /\ Texts \subseteq Seq(Bytes) /\ Ip \in Seq(Bytes)
  /\ MaxMessageSize \in Nat /\ MaxHeaderSize \in Nat /\ MaxMessages \in Nat
  /\ ChunkSize \in Nat \ {0}

VARIABLES
  typed,      \* the messages the sending page shows as sent
  calls,      \* posted to the io thread and not run yet
  connected,  \* m_connected
  accepted,   \* history: the messages that were put in the queue
  queue,      \* m_messages: frames to be written
  stream,     \* TCP: bytes written and not read yet
  buffer,     \* m_mainBuffer: bytes read and not parsed yet
  events,     \* calls of mesajAl posted to the receiving page
  shown,      \* the messages the receiving page shows
  notices     \* how many notices the sending page shows

vars == <<typed, calls, connected, accepted, queue, stream, buffer, events, shown, notices>>

Init ==
  /\ typed = <<>> /\ calls = <<>> /\ connected = TRUE /\ accepted = <<>>
  /\ queue = <<>> /\ stream = <<>> /\ buffer = <<>> /\ events = <<>>
  /\ shown = <<>> /\ notices = 0

-----------------------------------------------------------------------------
\* Frames: "MSG:<bytes>:<text>".

Prefix == <<"M", "S", "G", ":">>
Digits == <<"0", "1", "2", "3", "4", "5", "6", "7", "8", "9">>
Digit(n) == Digits[n + 1]

\* std::to_string
Decimal(n) ==
  LET text[k \in 0..n] ==
        IF k < 10 THEN <<Digit(k)>> ELSE Append(text[k \div 10], Digit(k % 10))
  IN  text[n]

Frame(text) == Prefix \o Decimal(Len(text)) \o <<":">> \o text

\* The bytes of a header, and the longest header that is kept: that of every
\* message the sender accepts is shorter.
ASSUME HeaderAssumption ==
  /\ {"M", "S", "G", ":", "0", "1", "2", "3", "4", "5", "6", "7", "8", "9"} \subseteq Bytes
  /\ \A n \in 0..MaxMessageSize : Len(Prefix \o Decimal(n)) <= MaxHeaderSize

Value == [c \in {Digit(d) : d \in 0..9} |-> CHOOSE d \in 0..9 : Digit(d) = c]

\* ParseNumber(), -1 for what is no number.
ParseNumber(digits) ==
  LET value[k \in 0..Len(digits)] ==
        IF k = 0 THEN 0 ELSE 10 * value[k - 1] + Value[digits[k]]
  IN  IF Len(digits) > 0 /\ \A i \in 1..Len(digits) : digits[i] \in DOMAIN Value
      THEN value[Len(digits)] ELSE -1

\* The position of the first colon behind the prefix, 0 if there is none.
Colon(view) ==
  SelectInSubSeq(view, Len(Prefix) + 1, Len(view), LAMBDA c : c = ":")

\* The length a header gives, up to its colon.
Length(view, colon) == ParseNumber(SubSeq(view, Len(Prefix) + 1, colon - 1))

\* MUTANT: a prefix that has not arrived as a whole is thrown away.
KeptIfWhole(view, colon) == IsPrefix(Prefix, view) /\ colon = 0 /\ Len(view) <= MaxHeaderSize

\* A header that is still to be completed is kept.
Kept(view, colon) ==
  \/ IsPrefix(view, Prefix)
  \/ IsPrefix(Prefix, view) /\ colon = 0 /\ Len(view) <= MaxHeaderSize

\* The messages taken off the buffer, and what is left of it.
Parsers == [messages : Seq(Seq(Bytes)), rest : Seq(Bytes)]

\* One turn of parseMain's loop: a frame is taken off the buffer, or nothing
\* while it is incomplete; what is no frame and cannot become one is thrown away
\* with all that follows it.
ParseMainOnce == [p \in Parsers |->
  LET colon == Colon(p.rest)
      length == Length(p.rest, colon)
      end == colon + length
  IN  IF Kept(p.rest, colon) THEN p
      ELSE IF ~IsPrefix(Prefix, p.rest) \/ colon = 0 \/ length \notin 0..MaxMessageSize
      THEN [p EXCEPT !.rest = <<>>]
      ELSE IF Len(p.rest) < end THEN p
      ELSE [messages |-> Append(p.messages, SubSeq(p.rest, colon + 1, end)),
            rest |-> SubSeq(p.rest, end + 1, Len(p.rest))]]

\* parseMain(): the messages in the buffer, and what is left of it.
ParseMain(view) ==
  LET turn[k \in 0..Len(view)] ==
        IF k = 0 THEN [messages |-> <<>>, rest |-> view] ELSE ParseMainOnce[turn[k - 1]]
  IN  turn[Len(view)]

-----------------------------------------------------------------------------
\* mesajGonder() and cppMesajGonder: the page shows the message, the program gets
\* the address and the text out of the JSON it is called with.
MesajGonder(text) ==
  /\ Len(typed) < MaxMessages
  /\ typed' = Append(typed, text)
  /\ LET args == ParseJsonStringArray(Stringify(Ip, text)) IN
     calls' = IF Len(args) >= 2 THEN Append(calls, args[2]) ELSE calls
  /\ UNCHANGED <<connected, accepted, queue, stream, buffer, events, shown, notices>>

\* MUTANT: one byte more than the receiver takes.
FitsOneMore(text) == Len(text) <= MaxMessageSize + 1

Fits(text) == Len(text) <= MaxMessageSize

\* sendMessage()
SendMessage ==
  /\ calls # <<>>
  /\ calls' = Tail(calls)
  /\ LET text == Head(calls) IN
     \/ /\ connected /\ Fits(text)
        /\ queue' = Append(queue, Frame(text))
        /\ accepted' = Append(accepted, text)
        /\ UNCHANGED notices
     \/ /\ ~connected \/ ~Fits(text)
        /\ notices' = notices + 1
        /\ UNCHANGED <<queue, accepted>>
  /\ UNCHANGED <<typed, connected, stream, buffer, events, shown>>

\* A frame is written.
Written ==
  /\ queue # <<>>
  /\ queue' = Tail(queue)
  /\ stream' = stream \o Head(queue)
  /\ UNCHANGED <<typed, calls, connected, accepted, buffer, events, shown, notices>>

\* The connection is closed: what is queued is dropped, and of what was written
\* the first k bytes arrive.
Close(k) ==
  /\ connected
  /\ connected' = FALSE
  /\ queue' = <<>>
  /\ stream' = SubSeq(stream, 1, k)
  /\ UNCHANGED <<typed, calls, accepted, buffer, events, shown, notices>>

\* The literals of a call of mesajAl.
MesajAl(text) == <<JsonQuote(Ip), JsonQuote(text)>>

\* readMain(): n bytes are read and parsed, and the messages posted to the page.
ReadMain(n) ==
  /\ n <= Len(stream)
  /\ stream' = SubSeq(stream, n + 1, Len(stream))
  /\ \E parsed \in {ParseMain(buffer \o SubSeq(stream, 1, n))} :
     /\ buffer' = parsed.rest
     /\ events' = events \o [i \in 1..Len(parsed.messages) |-> MesajAl(parsed.messages[i])]
  /\ UNCHANGED <<typed, calls, connected, accepted, queue, shown, notices>>

\* The page runs a call of mesajAl; one with an error in it does nothing.
Evaluated(js) ==
  IF \A i \in 1..2 : Literal(js[i]).state = "read" THEN <<Literal(js[2]).out>> ELSE <<>>

Show ==
  /\ events # <<>>
  /\ events' = Tail(events)
  /\ shown' = shown \o Evaluated(Head(events))
  /\ UNCHANGED <<typed, calls, connected, accepted, queue, stream, buffer, notices>>

Next ==
  \/ \E text \in Texts : MesajGonder(text)
  \/ SendMessage
  \/ Written
  \/ \E k \in 0..Len(stream) : Close(k)
  \/ \E n \in 1..ChunkSize : ReadMain(n)
  \/ Show

Spec == Init /\ [][Next]_vars

\* Both threads work off their queues, and what is written is read.
FairSpec ==
  /\ Spec
  /\ WF_vars(SendMessage) /\ WF_vars(Written) /\ WF_vars(Show)
  /\ WF_vars(\E n \in 1..ChunkSize : ReadMain(n))

-----------------------------------------------------------------------------
\* The type invariant: no frame is longer than the receiver takes, and what the
\* parser leaves is the beginning of one frame.
ChatTypeOK ==
  /\ typed \in Seq(Texts) /\ calls \in Seq(Texts) /\ accepted \in Seq(Texts)
  /\ connected \in BOOLEAN /\ notices \in 0..MaxMessages
  /\ \A i \in DOMAIN queue : \E t \in Texts : Len(t) <= MaxMessageSize /\ queue[i] = Frame(t)
  /\ buffer # <<>> => \E t \in Texts : IsStrictPrefix(buffer, Frame(t))

\* The messages between the queue and the receiving page.
OnTheWay ==
  FlattenSeq([i \in 1..Len(events) |-> Evaluated(events[i])])
  \o ParseMain(buffer \o stream \o FlattenSeq(queue)).messages

\* However the stream is cut, the receiving page shows the messages that were
\* accepted, in order, byte by byte; a connection that closes costs the last ones,
\* and never leaves a part of one.
ShownAsAccepted ==
  LET all == shown \o OnTheWay IN
  IF connected THEN all = accepted ELSE IsPrefix(all, accepted)

\* Those of the messages that are not too long.
Fitting(texts) ==
  FlattenSeq([i \in 1..Len(texts) |-> IF Fits(texts[i]) THEN <<texts[i]>> ELSE <<>>])

\* The messages accepted are those typed, unchanged by the way through JSON, but
\* for the ones that are too long.
AcceptedAsTyped ==
  IF connected
  THEN accepted \o Fitting(calls) = Fitting(typed)
  ELSE IsPrefix(accepted, Fitting(typed))

\* While the connection holds, every message typed is shown at the other end or
\* gets a notice.
ShownOrTold == []<>(connected => Len(shown) + notices = Len(typed))
=============================================================================
