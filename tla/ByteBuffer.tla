----------------------------- MODULE ByteBuffer -----------------------------
(* The buffer packets are written to and read from (ByteBuffer.cpp): bytes   *)
(* with a write position and a read position.  Indices are the code's, which *)
(* counts from 0: byte i of the code is bytes[i + 1].  A write that does not *)
(* fit changes nothing and says nothing; a read that goes past the written   *)
(* part throws (ok = FALSE).                                                 *)
EXTENDS Integers, Sequences

Byte == 0..255

\* A new buffer.  The bytes behind the write position are leftovers that are
\* never read; the model keeps them 0.
NewBuffer(size) == [bytes |-> [i \in 1..size |-> 0], used |-> 0, read |-> 0]

Size(b) == Len(b.bytes)

RemainingWriteSize(b) == Size(b) - b.used
RemainingReadSize(b)  == b.used - b.read

SetReadPos(b, at)  == [b EXCEPT !.read = at]
SetWritePos(b, at) == [b EXCEPT !.used = at]
Reset(b)           == NewBuffer(Size(b))

\* The written part, and what of it has not been read.
Content(b) == SubSeq(b.bytes, 1, b.used)
Unread(b)  == SubSeq(b.bytes, b.read + 1, b.used)

Overwrite(bytes, at, data) ==
  [i \in DOMAIN bytes |->
     IF i \in at + 1 .. at + Len(data) THEN data[i - at] ELSE bytes[i]]

\* receiveBytes writes behind the used part, and the caller moves the position.
Receive(b, data) ==
  [b EXCEPT !.bytes = Overwrite(@, b.used, data), !.used = @ + Len(data)]

\* The comparison is strict: the last byte of a buffer is never written.
Fits(b, n) == n + b.used < Size(b)

Write(b, data) == IF Fits(b, Len(data)) THEN Receive(b, data) ELSE b

\* Moves the unread part to the front.
Compact(b) ==
  [bytes |-> Overwrite(Reset(b).bytes, 0, Unread(b)),
   read  |-> 0,
   used  |-> RemainingReadSize(b)]

AppendContent(b, other) == Write(b, Content(other))

-----------------------------------------------------------------------------
(* Integers are written low byte first; \div rounds down, so these are the   *)
(* bytes of the two's complement of a negative number too.                   *)

ShortBytes(s) == <<s % 256, (s \div 256) % 256>>
IntBytes(i)   == ShortBytes(i) \o ShortBytes(i \div 65536)

Signed(n, top) == IF n < top \div 2 THEN n ELSE n - top

WriteChar(b, c)  == Write(b, <<c % 256>>)
WriteShort(b, s) == Write(b, ShortBytes(s))
WriteInt(b, i)   == Write(b, IntBytes(i))

\* The guard is that of the length and the text together.
WriteString(b, text) == Write(b, ShortBytes(Len(text)) \o text)

ReadOnePast(b, n) ==
  IF b.read + n > b.used + 1
  THEN [ok |-> FALSE, value |-> <<>>, buf |-> b]
  ELSE [ok    |-> TRUE,
        value |-> SubSeq(b.bytes, b.read + 1, b.read + n),
        buf   |-> SetReadPos(b, b.read + n)]

\* A read: whether it succeeded, what it returns, the buffer afterwards.
Read(b, n) ==
  IF b.read + n > b.used
  THEN [ok |-> FALSE, value |-> <<>>, buf |-> b]
  ELSE [ok    |-> TRUE,
        value |-> SubSeq(b.bytes, b.read + 1, b.read + n),
        buf   |-> SetReadPos(b, b.read + n)]

ReadChar(b) ==
  LET r == Read(b, 1) IN
  IF r.ok THEN [r EXCEPT !.value = Signed(r.value[1], 256)] ELSE r

\* As the unsigned short both callers make of it.
ReadShort(b) ==
  LET r == Read(b, 2) IN
  IF r.ok THEN [r EXCEPT !.value = r.value[1] + 256 * r.value[2]] ELSE r

ReadInt(b) ==
  LET r == Read(b, 4) IN
  IF r.ok
  THEN [r EXCEPT !.value = r.value[1] + 256 * r.value[2] + 65536 * r.value[3]
                           + 16777216 * Signed(r.value[4], 256)]
  ELSE r

\* Throws with the length already read when the text is not all there.
ReadString(b) ==
  LET length == ReadShort(b) IN
  IF length.ok THEN Read(length.buf, length.value) ELSE length
=============================================================================
