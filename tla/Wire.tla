-------------------------------- MODULE Wire --------------------------------
(* One direction of the connection between a node and the frontend, byte by  *)
(* byte: packets are queued, written to a buffer and sent (Client::sendLoop, *)
(* SelectorThread::writeToConnection); the bytes arrive in pieces cut        *)
(* anywhere, and the reader makes packets of them                            *)
(* (SelectorThread::readFromConnection, Client::recvLoop).                   *)
(*                                                                           *)
(* To the frontend the client sends one packet at a time and a selector      *)
(* reads: its buffer grows over the receives of one session.  To the node a  *)
(* selector collects packets before it sends, and the client reads: every    *)
(* receive is a session of its own.  What NodeLink promises of a connection, *)
(* packets lost but never made up or swapped, holds of the bytes only under  *)
(* the conditions stated here.                                               *)
EXTENDS Packets

CONSTANTS Messages,     \* the packets of each direction
          MaxPackets,   \* bound: packets queued in a behaviour, for each direction
          HelperSize,   \* 8192 in the code: the selector's buffer for one packet
          BufferSize    \* 65535 in the code: every other buffer

ASSUME WireAssumption ==
  /\ \A dir \in Directions : \A p \in Messages[dir] : WellFormed(dir, p)
  /\ MaxPackets \in [Directions -> Nat]
  /\ HelperSize \in Nat /\ BufferSize \in Nat
  /\ Header < HelperSize /\ HelperSize <= BufferSize
  /\ BufferSize <= 65535        \* a length is written as a short

VARIABLES dir,      \* the direction, fixed by Init
          queue,    \* packets queued in the Connection
          sent,     \* history: the packets written, in order
          ends,     \* history: where each of them ends in the stream
          stream,   \* every byte sent
          arrived,  \* how many of them the reader has received
          buffer,   \* the reader's buffer
          reader,   \* "up", or "gone" when its process has ended
          start,    \* history: where in the stream the session began
          handed,   \* history: the packets the session made
          sound     \* history: the session began at a packet and no receive
                    \* of it ended inside a header

senderVars == <<queue, sent, ends, stream>>
readerVars == <<arrived, buffer, reader, start, handed, sound>>
vars == <<dir, senderVars, readerVars>>

-----------------------------------------------------------------------------
(* The sender.                                                               *)

\* The whole buffer of one packet, which both senders start from.
OnePacket(p) ==
  LET size == IF dir = "toFrontend" THEN BufferSize ELSE HelperSize
  IN  WritePacket(NewBuffer(size), dir, p)

Queued == Len(queue) + Len(sent)

SendPacket(p) ==
  /\ Queued < MaxPackets[dir]
  /\ queue' = Append(queue, p)
  /\ UNCHANGED <<dir, sent, ends, stream, readerVars>>

\* The histories of sending the given packets.
Note(packets) ==
  LET EndAfter(e, p) == Append(e, OnePacket(p).used + IF e = <<>> THEN 0 ELSE Last(e))
  IN  /\ sent' = sent \o packets
      /\ ends' = FoldLeft(EndAfter, ends, packets)

\* Client::sendLoop: one packet, one sendBytes.
ClientSends ==
  /\ dir = "toFrontend"
  /\ queue # <<>>
  /\ stream' = stream \o Content(OnePacket(Head(queue)))
  /\ queue' = Tail(queue)
  /\ Note(<<Head(queue)>>)
  /\ UNCHANGED <<dir, readerVars>>

CollectForgetsFull(acc, p) ==
  LET one == OnePacket(p) IN
  IF Fits(acc.buf, one.used)
  THEN [acc EXCEPT !.buf = AppendContent(@, one)]
  ELSE [out |-> acc.out \o Content(acc.buf), buf |-> Reset(acc.buf)]

\* One more packet for the write buffer, which is sent first when it is full.
Collect(acc, p) ==
  LET one == OnePacket(p) IN
  IF Fits(acc.buf, one.used)
  THEN [acc EXCEPT !.buf = AppendContent(@, one)]
  ELSE [out |-> acc.out \o Content(acc.buf), buf |-> AppendContent(Reset(acc.buf), one)]

\* SelectorThread::writeToConnection: all that is queued, in as few sends as
\* the write buffer allows.
SelectorSends ==
  LET all == FoldLeft(Collect, [out |-> <<>>, buf |-> NewBuffer(BufferSize)], queue) IN
  /\ dir = "toNode"
  /\ queue # <<>>
  /\ stream' = stream \o all.out \o Content(all.buf)
  /\ queue' = <<>>
  /\ Note(queue)
  /\ UNCHANGED <<dir, readerVars>>

-----------------------------------------------------------------------------
(* The reader.                                                               *)

\* Where packets begin, the next one included.
Begins == {0} \cup Range(ends)

InFlight == Len(stream) - arrived

\* After handlePacket threw: the selector prints the error and reads on; in the
\* client nobody catches, and the process ends.
AfterThrow == IF dir = "toFrontend" THEN "up" ELSE "gone"

AfterReceive(outcome) ==
  CASE outcome \in {"packet", "none"} -> {"up"}
    [] outcome = "throws"             -> {AfterThrow}
    [] outcome = "undefined"          -> {AfterThrow, "gone"}

\* receiveBytes returns n bytes into the buffer of a session and handlePacket
\* is called on it; begun is the session's (start, handed, sound) so far.
ReceivesInto(b, n, begun) ==
  LET full   == Receive(b, SubSeq(stream, arrived + 1, arrived + n))
      handle == HandlePacket(full, dir)
  IN  /\ n <= RemainingWriteSize(b)
      /\ arrived' = arrived + n
      /\ buffer' = handle.buf
      /\ start' = begun.start
      /\ handed' = IF handle.outcome = "packet"
                   THEN Append(begun.handed, handle.packet) ELSE begun.handed
      /\ sound' = (begun.sound /\ RemainingReadSize(full) >= Header)
      /\ reader' \in AfterReceive(handle.outcome)
      /\ UNCHANGED <<dir, senderVars>>

\* A session begins with an empty buffer, wherever the stream has got to.
Begun == [start |-> arrived, handed |-> <<>>, sound |-> arrived \in Begins]

\* SelectorThread::readFromConnection, one turn of its loop.
SelectorReceives ==
  /\ dir = "toFrontend" /\ reader = "up"
  /\ \E n \in 1..InFlight :
       ReceivesInto(buffer, n, [start |-> start, handed |-> handed, sound |-> sound])

\* The receive times out, or finds the buffer full; the next call of
\* readFromConnection discards what the buffer held.
NextSession ==
  /\ dir = "toFrontend" /\ reader = "up"
  /\ arrived > start
  /\ buffer' = Reset(buffer)
  /\ start' = Begun.start /\ handed' = Begun.handed /\ sound' = Begun.sound
  /\ UNCHANGED <<dir, senderVars, arrived, reader>>

\* Client::recvLoop: every receive discards what the last one left.
ClientReceives ==
  /\ dir = "toNode" /\ reader = "up"
  /\ \E n \in 1..InFlight : ReceivesInto(Reset(buffer), n, Begun)

-----------------------------------------------------------------------------
Init ==
  /\ dir \in Directions
  /\ queue = <<>> /\ sent = <<>> /\ ends = <<>> /\ stream = <<>>
  /\ arrived = 0 /\ buffer = NewBuffer(BufferSize) /\ reader = "up"
  /\ start = 0 /\ handed = <<>> /\ sound = TRUE

Next ==
  \/ \E p \in Messages[dir] : SendPacket(p)
  \/ ClientSends
  \/ SelectorSends
  \/ SelectorReceives
  \/ NextSession
  \/ ClientReceives

Spec == Init /\ [][Next]_vars

-----------------------------------------------------------------------------
(* Properties.                                                               *)

\* The bytes of a packet all of whose fields fit, field after field.
FieldBytes(p, i) ==
  IF KindOf(dir, p, i) = "string"
  THEN ShortBytes(Len(p.fields[i])) \o p.fields[i]
  ELSE IntBytes(p.fields[i])

Body(p) == FlattenSeq([i \in DOMAIN p.fields |-> FieldBytes(p, i)])

Encoded(p) == <<p.opcode>> \o ShortBytes(Len(Body(p))) \o Body(p)

SenderSize == IF dir = "toFrontend" THEN BufferSize ELSE HelperSize

Whole(p) == Len(Encoded(p)) < SenderSize

AllWhole == \A i \in DOMAIN sent : Whole(sent[i])

BeginOf(i) == IF i = 1 THEN 0 ELSE ends[i - 1]

\* The packets that end at or before a place of the stream.
PacketsBefore(at) == Cardinality({i \in DOMAIN ends : ends[i] <= at})

HandedEnd ==
  LET n == PacketsBefore(start) + Len(handed) IN IF n = 0 THEN 0 ELSE ends[n]

\* Type invariant: what is buffered lies within the buffer, what has arrived
\* within the stream, and a text or an int is all a stream is made of.
WireTypeOK ==
  /\ dir \in Directions
  /\ queue \in Seq(Messages[dir]) /\ sent \in Seq(Messages[dir])
  /\ ends \in Seq(Nat) /\ Len(ends) = Len(sent)
  /\ stream \in Seq(Byte)
  /\ arrived \in 0..Len(stream)
  /\ buffer.bytes \in Seq(Byte) /\ Size(buffer) = BufferSize
  /\ buffer.used \in 0..BufferSize /\ buffer.read \in 0..buffer.used
  /\ reader \in {"up", "gone"}
  /\ start \in 0..arrived
  /\ sound \in BOOLEAN

\* The headers cut the stream into exactly the packets sent, also where a field
\* did not fit its buffer and was left out without a word: a packet that was
\* written short never shifts the ones behind it (writePacket takes its size
\* from the write position, and restores that position).
HeadersDelimit ==
  /\ Len(stream) = IF ends = <<>> THEN 0 ELSE Last(ends)
  /\ \A i \in DOMAIN sent :
       LET at == BeginOf(i) IN
       /\ stream[at + 1] = sent[i].opcode
       /\ ShortBytes(ends[i] - at - Header) = SubSeq(stream, at + 2, at + 3)

\* While every packet fits, the stream is their encodings in the order sent,
\* whether they were sent one by one or collected over a write buffer that
\* filled up on the way (writeToConnection sends, empties and appends again).
StreamIsEncoded ==
  AllWhole => stream = FlattenSeq([i \in DOMAIN sent |-> Encoded(sent[i])])

\* A session that began where a packet begins, none of whose receives ended
\* inside a header, makes of the bytes the packets sent from there on, in order
\* and without a gap, however they were cut: a torn one is kept and completed.
SessionInOrder ==
  sound /\ AllWhole =>
    LET first == PacketsBefore(start) IN
    /\ first + Len(handed) <= Len(sent)
    /\ \A i \in DOMAIN handed : handed[i] = sent[first + i]

\* In such a session no byte is skipped or read twice: what the buffer still
\* holds is the stream from the last packet made to the last byte received.
\* (The client drops it with the next receive, which is then not sound.)
SessionKeepsPlace ==
  sound /\ AllWhole =>
    Unread(buffer) = SubSeq(stream, HandedEnd + 1, arrived)

\* The node's process ends over what it receives only when a receive began or
\* ended inside a packet, or a packet was written short by the frontend.
GoneOnlyOverCuts == reader = "gone" => ~sound \/ ~AllWhole
=============================================================================
