------------------------------- MODULE Framing ------------------------------
(***************************************************************************)
(* Message framing (src/src/connection.rs: encode, fill, take_message,     *)
(* read_message): a message is cut into chunks, each after its length in   *)
(* two bytes, and ended by a length of zero; a pair of zeros between two   *)
(* messages is a NOOP.  Bytes arrive in pieces that end anywhere, and the  *)
(* call that reads may be cancelled between any two.                       *)
(*                                                                         *)
(* Base is 256 in the code, and MAX_CHUNK 65535: the largest length two    *)
(* bytes can say.  A small base has the same shape with short messages.    *)
(* The peer is external: it cuts a message where it likes.  A connection's *)
(* own requests are cut by encode, for a peer that joins them likewise.    *)
(***************************************************************************)
EXTENDS Integers, Sequences, FiniteSetsExt, SequencesExt

CONSTANTS Base,
          MAX_MESSAGE,
          Message,   \* the bodies sent: nonempty sequences of bytes
          MaxSent,   \* bound on the messages sent
          MaxPipe    \* bound on the bytes in flight for a NOOP to be sent

Byte      == 0 .. Base - 1
MAX_CHUNK == Base * Base - 1

ASSUME FramingAssumption ==
  /\ Base \in Nat \ {0, 1} /\ MAX_MESSAGE \in Nat /\ MaxSent \in Nat /\ MaxPipe \in Nat
  /\ Message \subseteq Seq(Byte) \ {<< >>}

VARIABLES
  pipe,    \* bytes sent and not yet read
  rbuf,    \* the read buffer
  pc,      \* the reader: "idle", "taking" or "filling"
  broken,
  ended,   \* the peer has closed its end
  sent,    \* history: the messages sent
  got      \* history: the messages read_message has handed over

vars == <<pipe, rbuf, pc, broken, ended, sent, got>>

Init ==
  /\ pipe = << >> /\ rbuf = << >>
  /\ pc = "idle"
  /\ broken = FALSE /\ ended = FALSE
  /\ sent = << >> /\ got = << >>

-----------------------------------------------------------------------------
(* Cutting a message *)

\* u16::to_be_bytes and u16::from_be_bytes.
to_be_bytes(n)      == <<n \div Base, n % Base>>
from_be_bytes(h, l) == h * Base + l

\* body, cut after each position of cuts: every chunk after its length, and a
\* zero length after the last.
Framed(body, cuts) ==
  LET end(k) == Min({c \in cuts \union {Len(body)} : c > k})
      from[k \in Nat] ==
        IF k >= Len(body) THEN to_be_bytes(0)
        ELSE to_be_bytes(end(k) - k) \o SubSeq(body, k + 1, end(k)) \o from[end(k)]
  IN  from[0]

\* Mutant: chunks of one byte more than two bytes can say.
encodeTooLong(body) ==
  Framed(body, {k \in 1 .. Len(body) - 1 : k % (MAX_CHUNK + 1) = 0})

\* Chunks of MAX_CHUNK, the last one shorter.
encode(body) == Framed(body, {k \in 1 .. Len(body) - 1 : k % MAX_CHUNK = 0})

\* The places a peer may cut a body: no chunk longer than MAX_CHUNK.
Cuts(body) ==
  {c \in SUBSET (1 .. Len(body) - 1) :
     \A k \in 0 .. Len(body) - MAX_CHUNK - 1 : \E j \in 1 .. MAX_CHUNK : k + j \in c}

-----------------------------------------------------------------------------
(* Joining it again *)

\* Mutant: zeros are dropped one by one.
SkipNoopsByByte(buf) ==
  LET first == SelectInSeq(buf, LAMBDA x : x # 0)
  IN  IF first = 0 THEN << >> ELSE SubSeq(buf, first, Len(buf))

\* The buffer without the pairs of zeros it begins with.
SkipNoops(buf) ==
  LET zero(n) == \A k \in 1 .. 2 * n : buf[k] = 0
      noops   == Max({n \in 0 .. Len(buf) \div 2 : zero(n)})
  IN  SubSeq(buf, 2 * noops + 1, Len(buf))

\* The length a chunk header at pos says (pos bytes before it).
SizeAt(buf, pos) == from_be_bytes(buf[pos + 1], buf[pos + 2])

\* Mutant: a message of the limit itself is refused.
TooLongAtLimit(total) == total >= MAX_MESSAGE

TooLong(total) == total > MAX_MESSAGE

\* The walk over the chunk headers: where the terminator is, -1 when it is not
\* all there, -2 when the message is longer than MAX_MESSAGE.
Walk(buf) ==
  LET step[at \in Nat \X Nat] ==
        LET pos   == at[1]
            total == at[2] + SizeAt(buf, pos)
            next  == pos + 2 + SizeAt(buf, pos)
        IN  IF pos + 2 > Len(buf) THEN -1
            ELSE IF SizeAt(buf, pos) = 0 THEN pos
            ELSE IF TooLong(total) THEN -2
            ELSE IF Len(buf) < next THEN -1
            ELSE step[<<next, total>>]
  IN  step[<<0, 0>>]

\* The second walk: the chunks up to the terminator at pos, without headers.
Body(buf, pos) ==
  LET from[at \in Nat] ==
        IF at >= pos THEN << >>
        ELSE LET next == at + 2 + SizeAt(buf, at)
             IN  SubSeq(buf, at + 3, next) \o from[next]
  IN  from[0]

-----------------------------------------------------------------------------
(* The peer *)

Put(m, bytes) ==
  /\ ~ended
  /\ Len(sent) < MaxSent
  /\ sent' = Append(sent, m)
  /\ pipe' = pipe \o bytes
  /\ UNCHANGED <<rbuf, pc, broken, ended, got>>

SendEncoded(m) == Put(m, encode(m))

SendChunked(m) == \E c \in Cuts(m) : Put(m, Framed(m, c))

Noop ==
  /\ ~ended
  /\ Len(pipe) + 2 <= MaxPipe
  /\ pipe' = pipe \o to_be_bytes(0)
  /\ UNCHANGED <<rbuf, pc, broken, ended, sent, got>>

\* The peer goes away; of what is in flight, the first n bytes still arrive.
End(n) ==
  /\ ~ended
  /\ ended' = TRUE
  /\ pipe' = SubSeq(pipe, 1, n)
  /\ UNCHANGED <<rbuf, pc, broken, sent, got>>

-----------------------------------------------------------------------------
(* read_message *)

\* The call begins, if the connection is intact.
ReadMessage ==
  /\ pc = "idle"
  /\ ~broken
  /\ pc' = "taking"
  /\ UNCHANGED <<pipe, rbuf, broken, ended, sent, got>>

\* take_message: a message, nothing yet, or the error of one too long.
TakeMessage ==
  /\ pc = "taking"
  /\ \E buf \in {SkipNoops(rbuf)} : \E pos \in {Walk(buf)} :
       \/ /\ pos >= 0
          /\ got' = Append(got, Body(buf, pos))
          /\ rbuf' = SubSeq(buf, pos + 3, Len(buf))
          /\ pc' = "idle"
          /\ UNCHANGED broken
       \/ pos = -1 /\ rbuf' = buf /\ pc' = "filling" /\ UNCHANGED <<broken, got>>
       \/ pos = -2 /\ rbuf' = buf /\ pc' = "idle" /\ broken' = TRUE /\ UNCHANGED got
  /\ UNCHANGED <<pipe, ended, sent>>

\* Mutant: reads on before the buffer is looked at.
FillAgain(n) ==
  /\ pc = "filling"
  /\ rbuf' = rbuf \o SubSeq(pipe, 1, n)
  /\ pipe' = SubSeq(pipe, n + 1, Len(pipe))
  /\ UNCHANGED <<pc, broken, ended, sent, got>>

\* fill: n bytes of what has arrived.
Fill(n) ==
  /\ pc = "filling"
  /\ rbuf' = rbuf \o SubSeq(pipe, 1, n)
  /\ pipe' = SubSeq(pipe, n + 1, Len(pipe))
  /\ pc' = "taking"
  /\ UNCHANGED <<broken, ended, sent, got>>

\* fill reads nothing, or an error: the peer is gone, between two messages or
\* in one.
FillEnd ==
  /\ pc = "filling"
  /\ ended /\ pipe = << >>
  /\ broken' = TRUE
  /\ pc' = "idle"
  /\ UNCHANGED <<pipe, rbuf, ended, sent, got>>

\* The read is cancelled, or its deadline passes: the buffer stays.
Cancel ==
  /\ pc = "filling"
  /\ pc' = "idle"
  /\ UNCHANGED <<pipe, rbuf, broken, ended, sent, got>>

-----------------------------------------------------------------------------
FillSome == \E n \in 1 .. Len(pipe) : Fill(n)

Next ==
  \/ \E m \in Message : SendEncoded(m) \/ SendChunked(m)
  \/ Noop \/ \E n \in 0 .. Len(pipe) : End(n)
  \/ ReadMessage \/ TakeMessage \/ FillSome \/ FillEnd \/ Cancel

Spec == Init /\ [][Next]_vars

\* The caller goes on reading, and not every read is cancelled before the
\* bytes that have arrived reach it.
FairSpec ==
  /\ Spec
  /\ WF_vars(ReadMessage \/ TakeMessage)
  /\ SF_vars(FillSome \/ FillEnd)

-----------------------------------------------------------------------------
(* Properties *)

\* Every variable has a value of its type: what goes over the wire, chunk
\* lengths included, is bytes, and what is handed over are bodies.
TypeOK ==
  /\ pipe \in Seq(Byte) /\ rbuf \in Seq(Byte)
  /\ pc \in {"idle", "taking", "filling"}
  /\ broken \in BOOLEAN /\ ended \in BOOLEAN
  /\ sent \in Seq(Message) /\ got \in Seq(Seq(Byte))

\* The queue of messages the stream of bytes stands for.
Queue == INSTANCE MessageQueue
           WITH queue <- SubSeq(sent, Len(got) + 1, Len(sent)), taken <- got,
                open <- ~broken

\* read_message hands over the messages sent, whole, in order and each once,
\* wherever chunks and arrivals end, whatever is cancelled, and though the
\* peer dies in the middle of one.
ImplementsQueue == Queue!Spec

\* A connection is broken by the end of the stream or by a message over the
\* limit, never by how a message within it is cut.
BrokenForCause == broken => ended \/ \E k \in DOMAIN sent : Len(sent[k]) > MAX_MESSAGE

\* While the connection lasts and the caller reads, the caller catches up
\* with the peer again and again: no message stays behind for ever, in the
\* buffer or in the air.
Delivered == []<>(Len(got) = Len(sent) \/ broken)
=============================================================================
