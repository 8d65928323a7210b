-------------------------------- MODULE Framing --------------------------------
(***************************************************************************)
(* How messages cross a connection: the codecs (apps/common/net/codec/     *)
(* proto.go) with their heads (apps/common/structs.go), the frames of the  *)
(* MsgParser (libs/net/tcp/protocol.go) with the width of their numbers,   *)
(* and what a logic session makes of a message (OnRecv).                   *)
(*                                                                         *)
(* A byte has FrameBase values, a uint32 is four of them as in the code,   *)
(* and every field of a head is one.  Both ends have the same parser, but  *)
(* for the largest lengths, which come from the configuration of each.     *)
(* What io.ReadFull reads piece by piece is read in one step.  The order   *)
(* of the bytes within a head is left out: both ends of every connection   *)
(* use Default_Net_Endian, which is the big endian that Unmarshal of the   *)
(* players' codec always takes.                                            *)
(***************************************************************************)
EXTENDS Naturals, Sequences

CONSTANTS
  FrameBase,     \* values of a byte, 256 in the code
  DefaultMax,    \* maxRecvMsgLen and maxSendMsgLen of a new parser, 4096
  MaxArgs,       \* lengths that SetMsgLen is called with
  InnerMessages, \* messages between servers
  UserMessages,  \* messages to and from players, each with one uid
  HeartBeat,     \* the message id of a heartbeat
  MaxMessages,   \* bound: messages written
  Cuts           \* bound: bytes that still arrive when the connection breaks

Bytes == 0..(FrameBase - 1)

ASSUME FramingAssumption ==
  /\ FrameBase \in Nat \ {0, 1} /\ DefaultMax \in Nat \ {0} /\ MaxArgs \subseteq Nat
  /\ MaxMessages \in Nat /\ Cuts \subseteq Nat
  /\ InnerMessages \cup UserMessages
       \subseteq [id : Bytes, seq : Bytes, uids : Seq(Bytes), body : Seq(Bytes)]
  /\ \A m \in InnerMessages : Len(m.uids) \in Bytes
  /\ \A m \in UserMessages : Len(m.uids) = 1

\* The values of k bytes.
Power[k \in 0..4] == IF k = 0 THEN 1 ELSE Power[k-1] * FrameBase
Word == Power[4]

VARIABLES
  parser,    \* width of the length, its order, whether it counts itself, the
             \* largest lengths at the two ends; whether the heads are inner ones
  stream,    \* bytes on their way
  writer,    \* the sending end: "open", "ended" (closed) or "cut" (broken)
  reader,    \* the receiving end: "open", "refused" (an error), "eof"
  written,   \* history: the messages that Write took
  got,       \* number of messages received
  handled    \* messages whose handler was called

frameVars == <<parser, stream, writer, reader, written, got, handled>>

\* SetMsgLen: what a largest length becomes.
SetMsgLen(width, arg) ==
  LET max == IF arg = 0 THEN DefaultMax ELSE arg
  IN  IF max > Power[width] - 1 THEN Power[width] - 1 ELSE max

Parsers ==
  {[width |-> w, little |-> l, includeHead |-> h, inner |-> i,
    recv |-> SetMsgLen(w, r), send |-> SetMsgLen(w, s)] :
     w \in {1, 2, 4}, l \in BOOLEAN, h \in BOOLEAN, i \in BOOLEAN, r \in MaxArgs, s \in MaxArgs}

FrameInit ==
  /\ parser \in Parsers
  /\ stream = <<>> /\ writer = "open" /\ reader = "open"
  /\ written = <<>> /\ got = 0 /\ handled = <<>>

(* ----------------------------------- Codec ----------------------------- *)

\* Mutant: the inner head has no number of users.
MarshalNoCount(m) == <<m.id, m.seq>> \o m.uids \o m.body

\* Marshal: the head, with the number of its users if it is an inner one, and
\* the body.
Marshal(m) ==
  <<m.id, m.seq>> \o (IF parser.inner THEN <<Len(m.uids)>> ELSE <<>>) \o m.uids \o m.body

\* Unmarshal: an error when the head is not complete.
HeadLen(data) == IF parser.inner THEN 3 + (IF Len(data) < 3 THEN 0 ELSE data[3]) ELSE 3
HeadHere(data) == Len(data) >= HeadLen(data)
Unmarshal(data) ==
  [id |-> data[1], seq |-> data[2],
   uids |-> SubSeq(data, IF parser.inner THEN 4 ELSE 3, HeadLen(data)),
   body |-> SubSeq(data, HeadLen(data) + 1, Len(data))]

(* --------------------------------- MsgParser --------------------------- *)

ByteOrder(s) == IF parser.little THEN [i \in 1..Len(s) |-> s[Len(s) + 1 - i]] ELSE s

\* The length on the wire: its lowest digits.
PutLen(v) ==
  ByteOrder([i \in 1..parser.width |-> (v \div Power[parser.width - i]) % FrameBase])
GetLen(s) ==
  LET digits == ByteOrder(s)
      value[i \in 0..Len(s)] == IF i = 0 THEN 0 ELSE value[i-1] * FrameBase + digits[i]
  IN  value[Len(s)]

OwnLen == IF parser.includeHead THEN parser.width ELSE 0

\* A frame too large for the memory it has computed panics, and ends the
\* process; else it goes out whole.
Overflows(data) == parser.width + Len(data) >= Word
Frame(data) == PutLen((Len(data) + OwnLen) % Word) \o data

\* Mutant: the length is checked with the head it counts.
MsgLenChecked(v) == IF v > parser.recv THEN Word ELSE v - OwnLen

\* The length of what follows, a uint32, or none if it is too large.
MsgLen(v) == LET n == (v + Word - OwnLen) % Word IN IF n > parser.recv THEN Word ELSE n

(* ---------------------------------- Actions ---------------------------- *)

\* sendLoop encodes and writes a message; it ends at one it cannot write.
WriteMessage(m) ==
  /\ writer = "open" /\ Len(written) < MaxMessages
  /\ LET data == Marshal(m)
     IN  IF Len(data) > parser.send \/ Overflows(data)
         THEN writer' = "ended" /\ UNCHANGED <<stream, written>>
         ELSE /\ stream' = stream \o Frame(data)
              /\ written' = Append(written, m)
              /\ UNCHANGED writer
  /\ UNCHANGED <<parser, reader, got, handled>>

\* The connection breaks; Write goes on without an error, and sends nothing.
Break(n) ==
  /\ writer # "cut" /\ writer' = "cut" /\ n <= Len(stream)
  /\ stream' = SubSeq(stream, 1, n)
  /\ UNCHANGED <<parser, reader, written, got, handled>>

FrameSize == IF Len(stream) < parser.width THEN Word ELSE MsgLen(GetLen(SubSeq(stream, 1, parser.width)))
TooLong == Len(stream) >= parser.width /\ FrameSize = Word
FrameHere == ~TooLong /\ Len(stream) >= parser.width + FrameSize
Behind == SubSeq(stream, parser.width + FrameSize + 1, Len(stream))
FrameData == SubSeq(stream, parser.width + 1, parser.width + FrameSize)

\* Mutant: a message without a body is handled as well.
OnRecvAll(m) == m.id # HeartBeat

\* OnRecv of a logic session: a heartbeat has no handler, and a message
\* without a body panics on msgs[1] in the main loop, which survives it.
OnRecv(m) == m.id # HeartBeat /\ m.body # <<>>

\* Receive returns a message, and the main loop gets it.
Receive ==
  /\ reader = "open" /\ FrameHere /\ HeadHere(FrameData)
  /\ stream' = Behind /\ got' = got + 1
  /\ handled' = IF OnRecv(Unmarshal(FrameData)) THEN Append(handled, Unmarshal(FrameData)) ELSE handled
  /\ UNCHANGED <<parser, writer, reader, written>>

\* It returns an error, of the parser or of the codec, or the end of the stream.
Refuse ==
  /\ reader = "open" /\ (TooLong \/ (FrameHere /\ ~HeadHere(FrameData))) /\ reader' = "refused"
  /\ UNCHANGED <<parser, stream, writer, written, got, handled>>

EndOfStream ==
  /\ reader = "open" /\ writer # "open" /\ ~TooLong /\ ~FrameHere /\ reader' = "eof"
  /\ UNCHANGED <<parser, stream, writer, written, got, handled>>

FrameNext ==
  \/ \E m \in IF parser.inner THEN InnerMessages ELSE UserMessages : WriteMessage(m)
  \/ \E n \in Cuts : Break(n)
  \/ Receive \/ Refuse \/ EndOfStream

FrameSpec == FrameInit /\ [][FrameNext]_frameVars

-------------------------------------------------------------------------------
Message == InnerMessages \cup UserMessages

\* Types of the variables.
FrameTypeOK ==
  /\ parser.width \in {1, 2, 4} /\ {parser.recv, parser.send} \subseteq 1..(Power[parser.width] - 1)
  /\ stream \in Seq(Bytes)
  /\ writer \in {"open", "ended", "cut"} /\ reader \in {"open", "refused", "eof"}
  /\ written \in Seq(Message) /\ got \in 0..MaxMessages /\ handled \in Seq(Message)

\* The lengths that Write takes and whose frame cannot be read: the width is
\* too small for the length and itself.
Truncated(n) == parser.includeHead /\ parser.width < 4 /\ n + parser.width >= Power[parser.width]

\* The messages among the first n of s that a handler is meant for.
Meant(s, n) ==
  LET meant[i \in 0..n] ==
        IF i = 0 THEN <<>>
        ELSE IF s[i].id # HeartBeat /\ s[i].body # <<>> THEN Append(meant[i-1], s[i]) ELSE meant[i-1]
  IN  meant[n]

\* The reader never loses step: whatever the widths, orders and limits of the
\* two ends, and wherever the connection breaks, the handlers get what was
\* written, in order and whole, except heartbeats and messages without a body
\* (protobuf encodes one whose fields all have their default as nothing);
\* a frame is refused only if it is longer than the reader takes or its length
\* was cut off by its width, and never taken for a shorter one
\* (protocol.go:64-78, 117-130, 148-176; svr_session.go:65-68).
FramesInStep ==
  /\ got <= Len(written)
  /\ handled = Meant(written, got)
  /\ reader = "refused" =>
       /\ got < Len(written)
       /\ LET n == Len(Marshal(written[got + 1]))
          IN  n > parser.recv \/ Truncated(n)
===============================================================================
