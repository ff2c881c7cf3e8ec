------------------------------- MODULE Packets -------------------------------
(* The packets node and frontend exchange, how one is written to a buffer    *)
(* (SendablePacket::writePacket) and how one is made of the bytes that came  *)
(* (PacketHandler::handlePacket).  A packet is its opcode and its fields; a  *)
(* text is a sequence of bytes.                                              *)
EXTENDS ByteBuffer, FiniteSets, FiniteSetsExt, SequencesExt

Directions == {"toFrontend", "toNode"}

\* The fields each packet's writeImpl writes, and those its namesake at the
\* other end reads, up to NodeInfo's list of ports.
NodeInfoWrites     == <<"string", "int">>
StartResultWrites  == <<"string", "string", "int">>
CloseResultWrites  == <<"string", "string", "int">>
InfoRequestWrites  == <<>>
StartRequestWrites == <<"string", "string", "string", "int">>
CloseRequestWrites == <<"string", "string">>

NodeInfoReads     == <<"string", "int">>
StartResultReads  == <<"string", "string", "int">>
CloseResultReads  == <<"string", "string", "int">>
InfoRequestReads  == <<>>
StartRequestReads == <<"string", "string", "string", "int">>
CloseRequestReads == <<"string", "string">>

\* By opcode.
Written(dir, opcode) ==
  CASE dir = "toFrontend" ->
         <<NodeInfoWrites, StartResultWrites, CloseResultWrites>>[opcode + 1]
    [] dir = "toNode" ->
         <<InfoRequestWrites, StartRequestWrites, CloseRequestWrites>>[opcode + 1]

ReadAs(dir, opcode) ==
  CASE dir = "toFrontend" ->
         <<NodeInfoReads, StartResultReads, CloseResultReads>>[opcode + 1]
    [] dir = "toNode" ->
         <<InfoRequestReads, StartRequestReads, CloseRequestReads>>[opcode + 1]

\* The packets registered with either side's handler.
Registered == 0..2

IsNodeInfo(dir, opcode) == dir = "toFrontend" /\ opcode = 0

Header == 3

-----------------------------------------------------------------------------
\* The fields past the fixed ones are NodeInfo's ports, two ints each.
KindOf(dir, p, i) ==
  IF i \in DOMAIN Written(dir, p.opcode) THEN Written(dir, p.opcode)[i] ELSE "int"

\* The ints of the code's width: the high half is a short.
Int32 == {n \in Int : -32768 <= n \div 65536 /\ n \div 65536 < 32768}

\* The packets there are: fields of the kinds written, texts of bytes and ints
\* of 32 bits, and as many ports as NodeInfo announces.
WellFormed(dir, p) ==
  LET n     == Len(p.fields)
      fixed == Len(Written(dir, p.opcode))
  IN  /\ p.opcode \in Registered
      /\ n \in Nat
      /\ p = [opcode |-> p.opcode, fields |-> [i \in 1..n |-> p.fields[i]]]
      /\ \A i \in 1..n :
           p.fields[i] \in IF KindOf(dir, p, i) = "string" THEN Seq(Byte) ELSE Int32
      /\ fixed <= n
      /\ n = fixed + IF IsNodeInfo(dir, p.opcode) THEN 2 * p.fields[2] ELSE 0

WriteField(b, kind, value) ==
  IF kind = "string" THEN WriteString(b, value) ELSE WriteInt(b, value)

WriteImpl(b, dir, p) ==
  LET Put(buf, i) == WriteField(buf, KindOf(dir, p, i), p.fields[i])
  IN  FoldLeft(Put, b, [i \in DOMAIN p.fields |-> i])

\* The content is written first, past the place of the header, which is filled
\* in when its size is known.
WritePacketAt(b, dir, p, from) ==
  LET written == WriteImpl(SetWritePos(b, b.used + Header), dir, p)
      size    == written.used - from
      headed  == WriteShort(WriteChar(SetWritePos(written, b.used), p.opcode), size)
  IN  SetWritePos(headed, written.used)

WritePacketCountsHeader(b, dir, p) == WritePacketAt(b, dir, p, b.used)

WritePacket(b, dir, p) == WritePacketAt(b, dir, p, b.used + Header)

-----------------------------------------------------------------------------
\* One more field for a packet being read; after a throw nothing more is read.
ReadField(r, kind) ==
  LET f == IF kind = "string" THEN ReadString(r.buf) ELSE ReadInt(r.buf) IN
  IF ~r.ok THEN r
  ELSE [ok     |-> f.ok,
        fields |-> IF f.ok THEN Append(r.fields, f.value) ELSE r.fields,
        buf    |-> f.buf]

\* NodeInfo goes on for as many ports as it announces.  The loop throws at the
\* latest with the first port that is not there, so no more need be asked for.
PortFields(announced, b) ==
  LET asked == Min({announced, RemainingReadSize(b) \div 8 + 1})
  IN  [i \in 1 .. 2 * asked |-> "int"]

ReadImpl(b, dir, opcode) ==
  LET start == [ok |-> TRUE, fields |-> <<>>, buf |-> b]
      fixed == FoldLeft(ReadField, start, ReadAs(dir, opcode))
  IN  IF fixed.ok /\ IsNodeInfo(dir, opcode)
      THEN FoldLeft(ReadField, fixed, PortFields(fixed.fields[2], fixed.buf))
      ELSE fixed

\* What handlePacket does: returns a packet, returns none, throws, or indexes
\* the table of factories outside its bounds.
Handled(what, b)     == [outcome |-> what, packet |-> <<>>, buf |-> b]
HandledPacket(p, b)  == [outcome |-> "packet", packet |-> p, buf |-> b]

\* The content of a packet that is all there, made by its opcode's factory.
MakePacket(opcode, b, dir) ==
  LET impl == ReadImpl(b, dir, opcode) IN
  IF opcode < 0 THEN Handled("undefined", b)
  ELSE IF opcode \notin Registered THEN Handled("throws", b)
  ELSE IF ~impl.ok THEN Handled("throws", impl.buf)
  ELSE HandledPacket([opcode |-> opcode, fields |-> impl.fields], impl.buf)

HandleTorn(b, dir) ==
  LET opcode == ReadChar(b)
      size   == ReadShort(opcode.buf)
  IN  IF ~size.ok THEN Handled("throws", size.buf)
      ELSE MakePacket(opcode.value, size.buf, dir)

HandleDropsHeader(b, dir) ==
  LET opcode == ReadChar(b)
      size   == ReadShort(opcode.buf)
  IN  IF size.ok /\ size.value > RemainingReadSize(size.buf)
      THEN Handled("none", Compact(size.buf))
      ELSE HandleTorn(b, dir)

\* A torn content is kept for the next read, opcode and size included; a torn
\* header throws with the bytes that were there already read.
HandlePacket(b, dir) ==
  LET opcode == ReadChar(b)
      size   == ReadShort(opcode.buf)
  IN  IF RemainingReadSize(b) = 0 THEN Handled("none", b)
      ELSE IF ~size.ok THEN Handled("throws", size.buf)
      ELSE IF size.value > Size(b) /\ b.read = 0 THEN Handled("throws", size.buf)
      ELSE IF size.value > RemainingReadSize(size.buf) THEN Handled("none", Compact(b))
      ELSE MakePacket(opcode.value, size.buf, dir)
=============================================================================
