--------------------------- MODULE MessageStream ----------------------------
(***************************************************************************)
(* Messages over a stream socket (message_protocol.cpp).  SendMessage      *)
(* writes a frame: a length prefix, a header and a body.  RecvMessage      *)
(* reads the three parts with SocketStream::Read, which keeps what it read *)
(* ahead in readBuff.  The receiver keeps its SocketStream, as the SDK     *)
(* does.  A byte is a cell <<m, k>>, the k-th of frame m, so that the      *)
(* model can tell which bytes a caller got.  RecvMessage never finds its   *)
(* way back on purpose: once it took other bytes for a length prefix it    *)
(* goes on with whatever lengths they give.                                *)
(***************************************************************************)
EXTENDS Integers, Sequences

CONSTANTS
  Prefix,      \* PROTOCOL_LENGTH_SIZE + HEADER_LENGTH_SIZE
  Header,      \* length of a MessageHeader
  Bodies,      \* lengths of bodies
  maxBuffSize,
  MaxRecv,     \* MAX_RECV_BUFF_SIZE
  Chunk,       \* what the kernel queues of one send at a time
  Garbled,     \* lengths that bytes which are no prefix may be taken for
  MaxFrames    \* bound: frames sent

ASSUME StreamAssumption ==
  /\ Prefix \in Nat \ {0} /\ Header \in Nat \ {0} /\ Bodies \subseteq Nat \ {0}
  /\ maxBuffSize \in Nat /\ maxBuffSize > Prefix /\ MaxRecv \in Nat /\ MaxRecv > maxBuffSize
  /\ Chunk \in Nat \ {0} /\ Garbled \subseteq Nat /\ MaxFrames \in Nat

VARIABLES
  sent,        \* body lengths of the frames sent
  sending,     \* cells of the last frame that are not in the socket yet
  socket,      \* cells in the socket
  readBuff, readBuffOff,      \* readBuffContentSize is the length of readBuff
  part,        \* what RecvMessage reads: "length", "header", "body"; or the
               \* process is "dead"
  headerLength, bodyLength,   \* what it took the header and the body to be
  got,         \* cells of that part
  received,    \* the bodies it returned
  lost,        \* it took a short read for a prefix, or gave up within a frame
  crowded      \* a frame was sent before the last was read, or came in pieces

senderVars == <<sent, sending>>
buffVars == <<socket, readBuff, readBuffOff>>
recvVars == <<part, headerLength, bodyLength, got, received, lost>>
vars == <<sent, sending, socket, readBuff, readBuffOff,
          part, headerLength, bodyLength, got, received, lost, crowded>>

Cells(m, first, last) == [k \in 1..(last - first + 1) |-> <<m, first + k - 1>>]
\* GetProtocolStr
Frame(m, body) == Cells(m, 1, Prefix + Header + body)
Body(m, body) == Cells(m, Prefix + Header + 1, Prefix + Header + body)

Init ==
  /\ sent = <<>> /\ sending = <<>> /\ socket = <<>>
  /\ readBuff = <<>> /\ readBuffOff = 0
  /\ part = "length" /\ headerLength = 0 /\ bodyLength = 0
  /\ got = <<>> /\ received = <<>>
  /\ lost = FALSE /\ crowded = FALSE

-----------------------------------------------------------------------------
(* The sender                                                              *)

SendMessage(body) ==
  /\ sending = <<>> /\ Len(sent) < MaxFrames
  /\ sent' = Append(sent, body)
  /\ sending' = Frame(Len(sent) + 1, body)
  /\ crowded' = (crowded \/ Len(received) < Len(sent) \/ Prefix + Header + body > Chunk)
  /\ UNCHANGED <<buffVars, recvVars>>

\* The kernel queues a send piece by piece.
Arrive ==
  /\ sending # <<>>
  /\ LET n == IF Len(sending) > Chunk THEN Chunk ELSE Len(sending)
     IN /\ socket' = socket \o SubSeq(sending, 1, n)
        /\ sending' = SubSeq(sending, n + 1, Len(sending))
  /\ UNCHANGED <<sent, readBuff, readBuffOff, recvVars, crowded>>

-----------------------------------------------------------------------------
(* SocketStream::Read and RecvMessage                                      *)

Least(x, y) == IF x < y THEN x ELSE y
\* What is left in readBuff.
Remaining == Len(readBuff) - readBuffOff
\* What Read(buf, size) returns and leaves.  Cells of readBuff come first,
\* without those of the socket; a small read fetches a full buffer.
ReadBuffered(size) == SubSeq(readBuff, readBuffOff + 1, readBuffOff + Least(size, Remaining))
Fetched(size) ==
  SubSeq(socket, 1, Least(IF size < maxBuffSize THEN maxBuffSize ELSE size, Len(socket)))
Read(size) ==
  IF Remaining > 0 THEN ReadBuffered(size)
  ELSE SubSeq(Fetched(size), 1, Least(size, Len(Fetched(size))))
\* Mutant: readBuffOff stays behind when what is left is copied.
ConsumeAgain(size) ==
  IF Remaining > 0
  THEN /\ readBuffOff' = readBuffOff + IF size <= Remaining THEN size ELSE 0
       /\ UNCHANGED <<readBuff, socket>>
  ELSE /\ socket' = SubSeq(socket, Len(Fetched(size)) + 1, Len(socket))
       /\ IF size < maxBuffSize /\ Len(Fetched(size)) >= size
          THEN readBuff' = Fetched(size) /\ readBuffOff' = size
          ELSE readBuff' = <<>> /\ readBuffOff' = 0
Consume(size) ==
  IF Remaining > 0
  THEN /\ readBuffOff' = readBuffOff + Least(size, Remaining)
       /\ UNCHANGED <<readBuff, socket>>
  ELSE /\ socket' = SubSeq(socket, Len(Fetched(size)) + 1, Len(socket))
       /\ IF size < maxBuffSize /\ Len(Fetched(size)) >= size
          THEN readBuff' = Fetched(size) /\ readBuffOff' = size
          ELSE readBuff' = <<>> /\ readBuffOff' = 0
\* Mutant: only the socket is asked whether there is something to read.
SocketReadable == socket # <<>>
\* Otherwise recv blocks.
Readable == Remaining > 0 \/ socket # <<>>

\* The lengths of the parts.  The bytes of a prefix give those of its frame;
\* any others, a short read included, give what they give.
Lengths(cells) ==
  LET frames == {m \in DOMAIN sent : cells = Cells(m, 1, Prefix)}
  IN IF frames # {} THEN {<<Header, sent[m]>> : m \in frames} ELSE Garbled \X Garbled

\* RecvMessage returns true; or SetHeader or SetMessage takes bytes that are no
\* message for the length of a string or of a list, and the process ends.
Returns(cells) ==
  \/ part' = "length" /\ received' = Append(received, cells)
  \/ lost' /\ part' = "dead" /\ UNCHANGED received
\* ReadBuf has nothing to do for a part without bytes.
GoesToBody(length) ==
  \/ length > 0 /\ part' = "body" /\ UNCHANGED received
  \/ length = 0 /\ Returns(<<>>)

\* The length prefix is read once, and RecvMessage goes on with what it got.
ReadLength ==
  LET cells == Read(Prefix)
  IN /\ part = "length" /\ Readable
     /\ Consume(Prefix)
     /\ lost' = (lost \/ Len(cells) < Prefix)
     /\ got' = <<>>
     /\ \E lengths \in Lengths(cells) :
          /\ headerLength' = lengths[1] /\ bodyLength' = lengths[2]
          /\ \/ lengths[1] > 0 /\ part' = "header" /\ UNCHANGED received
             \/ lengths[1] = 0 /\ GoesToBody(lengths[2])
     /\ UNCHANGED <<senderVars, crowded>>

\* How long the part is that RecvMessage reads.
Wanted == IF part = "header" THEN headerLength ELSE bodyLength

\* Mutants: ReadBuf reads a part once; it goes on when the part is complete.
PartReadOnce(cells) == TRUE
PartReadPast(cells) == Len(cells) > Wanted
PartRead(cells) == Len(cells) = Wanted

\* ReadBuf: a Read, and the next part or the message when it is complete.
ReadBuf ==
  LET size == Least(Wanted - Len(got), MaxRecv)
      cells == got \o Read(size)
  IN /\ part \in {"header", "body"} /\ Readable
     /\ Consume(size)
     /\ UNCHANGED <<senderVars, headerLength, bodyLength, lost, crowded>>
     /\ \/ ~PartRead(cells) /\ got' = cells /\ UNCHANGED <<part, received>>
        \/ /\ PartRead(cells) /\ got' = <<>>
           /\ \/ part = "header" /\ GoesToBody(bodyLength)
              \/ part = "body" /\ Returns(cells)

\* SO_RCVTIMEO: RecvMessage fails.  Before a frame that is harmless; after a
\* part of one the next call takes the rest of it for a prefix.
TimesOut ==
  /\ ~Readable /\ part \in {"header", "body"}
  /\ part' = "length" /\ got' = <<>> /\ lost' = TRUE
  /\ UNCHANGED <<senderVars, buffVars, headerLength, bodyLength, received, crowded>>

RecvMessage == ReadLength \/ ReadBuf

Next == RecvMessage \/ TimesOut \/ Arrive \/ \E body \in Bodies : SendMessage(body)

Spec == Init /\ [][Next]_vars /\ WF_vars(RecvMessage) /\ WF_vars(Arrive)

-----------------------------------------------------------------------------
(* Properties                                                              *)

Cell == (1..MaxFrames) \X (Nat \ {0})
TypeOK ==
  /\ sent \in Seq(Bodies) /\ Len(sent) <= MaxFrames
  /\ {sending, socket, readBuff, got} \subseteq Seq(Cell)
  /\ readBuffOff \in 0..Len(readBuff) /\ Len(readBuff) <= maxBuffSize
  /\ part \in {"length", "header", "body", "dead"}
  /\ headerLength \in Nat /\ bodyLength \in Nat
  /\ received \in Seq(Seq(Cell)) /\ lost \in BOOLEAN /\ crowded \in BOOLEAN

\* As long as RecvMessage took no short read for a prefix and did not give up
\* within a frame, every message that it returned is the next one that was sent,
\* byte for byte, however the reads fall.
Intact ==
  ~lost =>
    /\ Len(received) <= Len(sent)
    /\ \A m \in DOMAIN received : received[m] = Body(m, sent[m])

\* The bytes of two reads, in the order in which they were sent.
Before(c, d) == c[1] < d[1] \/ (c[1] = d[1] /\ c[2] < d[2])
Ascending(q) == \A i, j \in 1..Len(q) : i < j => Before(q[i], q[j])
Precedes(p, q) == \A i \in 1..Len(p) : \A j \in 1..Len(q) : Before(p[i], q[j])

\* Whatever RecvMessage returns, also after it lost the frames and returns
\* pieces of them as messages: no byte is returned twice or before one that was
\* sent earlier, within a message and from one to the next.  What Read holds
\* back in readBuff is never repeated, nor overtaken by a read of the socket.
NothingRepeated ==
  /\ \A m \in 1..Len(received) : Ascending(received[m])
  /\ \A m, n \in 1..Len(received) : m < n => Precedes(received[m], received[n])

\* RecvMessage keeps to the frames as long as each was read before the next was
\* sent and came in one piece.
LostNeedsCrowd == lost => crowded

\* Every message arrives, unless RecvMessage lost the frames.
EveryMessageArrives ==
  \A n \in 1..MaxFrames : Len(sent) >= n ~> (Len(received) >= n \/ lost)

\* The receiver gets back what the sender sent.  Fails: a frame whose prefix is
\* cut by the end of a full buffer is misread.
NeverLost == ~lost
=============================================================================
