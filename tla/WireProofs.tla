----------------------------- MODULE WireProofs -----------------------------
(***************************************************************************)
(* The bytes between a node and the frontend: what the senders put in the  *)
(* stream is cut by its headers into the packets sent, and a session that  *)
(* began at a packet makes those packets of it again.                      *)
(***************************************************************************)
EXTENDS Wire, FoldProofs, FiniteSetTheorems

-----------------------------------------------------------------------------
(* Buffers.                                                                *)

Buffer(size) ==
  {b \in [bytes : [1..size -> Byte], used : 0..size, read : 0..size] : b.read <= b.used}

LEMMA BufferParts ==
  ASSUME NEW size \in Nat, NEW b \in Buffer(size)
  PROVE  /\ b.bytes \in Seq(Byte) /\ b.bytes \in [1..size -> Byte]
         /\ Len(b.bytes) = size /\ Size(b) = size /\ DOMAIN b.bytes = 1..size
         /\ b.used \in 0..size /\ b.read \in 0..size /\ b.read <= b.used
         /\ b.used \in Nat /\ b.read \in Nat
<1>1. b.bytes \in [1..size -> Byte] /\ b.used \in 0..size /\ b.read \in 0..size /\ b.read <= b.used
  BY DEF Buffer
<1>2. b.bytes \in Seq(Byte) /\ Len(b.bytes) = size
  BY <1>1
<1>. QED BY <1>1, <1>2 DEF Size

LEMMA NewBufferType ==
  ASSUME NEW size \in Nat
  PROVE  NewBuffer(size) \in Buffer(size)
<1>1. [i \in 1..size |-> 0] \in [1..size -> Byte]
  BY DEF Byte
<1>. QED BY <1>1 DEF NewBuffer, Buffer

LEMMA ResetIs ==
  ASSUME NEW size \in Nat, NEW b \in Buffer(size)
  PROVE  Reset(b) = NewBuffer(size) /\ Reset(b) \in Buffer(size)
BY BufferParts, NewBufferType DEF Reset

\* The positions are moved, and the bytes stay.
LEMMA SetReadPosType ==
  ASSUME NEW size \in Nat, NEW b \in Buffer(size), NEW at \in 0..b.used
  PROVE  /\ SetReadPos(b, at) \in Buffer(size)
         /\ SetReadPos(b, at).bytes = b.bytes
         /\ SetReadPos(b, at).used = b.used
         /\ SetReadPos(b, at).read = at
<1>1. at \in 0..size /\ at <= b.used
  BY BufferParts
<1>. QED BY <1>1 DEF Buffer, SetReadPos

LEMMA SetWritePosType ==
  ASSUME NEW size \in Nat, NEW b \in Buffer(size), NEW at \in b.read..size
  PROVE  /\ SetWritePos(b, at) \in Buffer(size)
         /\ SetWritePos(b, at).bytes = b.bytes
         /\ SetWritePos(b, at).used = at
         /\ SetWritePos(b, at).read = b.read
<1>1. at \in 0..size /\ b.read <= at
  BY BufferParts
<1>. QED BY <1>1 DEF Buffer, SetWritePos

LEMMA OverwriteIs ==
  ASSUME NEW size \in Nat, NEW bytes \in [1..size -> Byte], NEW data \in Seq(Byte),
         NEW at \in Nat, at + Len(data) <= size
  PROVE  /\ Overwrite(bytes, at, data) \in [1..size -> Byte]
         /\ \A i \in 1..Len(data) : Overwrite(bytes, at, data)[at + i] = data[i]
         /\ \A i \in 1..size : i <= at \/ i > at + Len(data)
                                 => Overwrite(bytes, at, data)[i] = bytes[i]
<1>1. Len(data) \in Nat /\ DOMAIN bytes = 1..size
  BY LenProperties
<1>2. \A i \in 1..Len(data) : data[i] \in Byte
  BY ElementOfSeq
<1>3. \A i \in at + 1 .. at + Len(data) : i - at \in 1..Len(data)
  BY <1>1
<1>4. \A i \in 1..size : bytes[i] \in Byte
  OBVIOUS
<1>5. Overwrite(bytes, at, data)
        = [i \in 1..size |-> IF i \in at + 1 .. at + Len(data) THEN data[i - at] ELSE bytes[i]]
  BY <1>1 DEF Overwrite
<1>6. Overwrite(bytes, at, data) \in [1..size -> Byte]
  <2>1. \A i \in 1..size :
          (IF i \in at + 1 .. at + Len(data) THEN data[i - at] ELSE bytes[i]) \in Byte
    BY <1>2, <1>3, <1>4
  <2>. QED BY <1>5, <2>1
<1>7. ASSUME NEW i \in 1..Len(data)
      PROVE  Overwrite(bytes, at, data)[at + i] = data[i]
  <2>1. at + i \in 1..size /\ at + i \in at + 1 .. at + Len(data) /\ (at + i) - at = i
    BY <1>1
  <2>. QED BY <1>5, <2>1
<1>8. ASSUME NEW i \in 1..size, i <= at \/ i > at + Len(data)
      PROVE  Overwrite(bytes, at, data)[i] = bytes[i]
  <2>1. i \notin at + 1 .. at + Len(data)
    BY <1>1, <1>8
  <2>. QED BY <1>5, <2>1
<1>. QED BY <1>6, <1>7, <1>8

\* Bytes behind the write position.
LEMMA ReceiveIs ==
  ASSUME NEW size \in Nat, NEW b \in Buffer(size), NEW data \in Seq(Byte),
         b.used + Len(data) <= size
  PROVE  /\ Receive(b, data) \in Buffer(size)
         /\ Receive(b, data).used = b.used + Len(data)
         /\ Receive(b, data).read = b.read
         /\ \A i \in 1..b.used : Receive(b, data).bytes[i] = b.bytes[i]
         /\ \A i \in 1..Len(data) : Receive(b, data).bytes[b.used + i] = data[i]
         /\ \A i \in 1..size : i > b.used + Len(data) => Receive(b, data).bytes[i] = b.bytes[i]
<1> DEFINE bytes == Overwrite(b.bytes, b.used, data)
<1>1. b.bytes \in [1..size -> Byte] /\ b.used \in 0..size /\ b.read \in 0..size /\ b.read <= b.used
  BY BufferParts
<1>2. Len(data) \in Nat
  BY LenProperties
<1>3. /\ bytes \in [1..size -> Byte]
      /\ \A i \in 1..Len(data) : bytes[b.used + i] = data[i]
      /\ \A i \in 1..size : i <= b.used \/ i > b.used + Len(data) => bytes[i] = b.bytes[i]
  BY <1>1, OverwriteIs
<1>4. Receive(b, data) = [b EXCEPT !.bytes = bytes, !.used = b.used + Len(data)]
  BY DEF Receive
<1> HIDE DEF bytes
<1>5. b = [bytes |-> b.bytes, used |-> b.used, read |-> b.read]
  BY DEF Buffer
<1>6. /\ Receive(b, data) \in [bytes : [1..size -> Byte], used : 0..size, read : 0..size]
      /\ Receive(b, data).bytes = bytes
      /\ Receive(b, data).used = b.used + Len(data)
      /\ Receive(b, data).read = b.read
  <2>1. Receive(b, data) = [bytes |-> bytes, used |-> b.used + Len(data), read |-> b.read]
    BY <1>4, <1>5
  <2>2. b.used + Len(data) \in 0..size
    BY <1>1, <1>2
  <2>. QED BY <1>1, <1>3, <2>1, <2>2
<1>7. Receive(b, data) \in Buffer(size)
  BY <1>1, <1>2, <1>6 DEF Buffer
<1>8. \A i \in 1..b.used : i \in 1..size /\ i <= b.used
  BY <1>1
<1>. QED BY <1>3, <1>6, <1>7, <1>8

LEMMA ContentIs ==
  ASSUME NEW size \in Nat, NEW b \in Buffer(size)
  PROVE  /\ Content(b) \in Seq(Byte) /\ Len(Content(b)) = b.used
         /\ \A i \in 1..b.used : Content(b)[i] = b.bytes[i]
<1>1. b.bytes \in [1..size -> Byte] /\ b.used \in 0..size /\ b.used \in Nat
  BY BufferParts
<1>2. 1 \in Int /\ b.used \in Int /\ \A i \in 1..b.used : b.bytes[i] \in Byte
  BY <1>1
<1>3. b.used - 1 + 1 = b.used /\ \A i \in 1..b.used : 1 + i - 1 = i
  BY <1>1
<1>4. (IF 1 <= b.used THEN b.used - 1 + 1 ELSE 0) = b.used
  BY <1>1
<1>. QED BY <1>2, <1>3, <1>4, SubSeqProperties DEF Content

LEMMA UnreadIs ==
  ASSUME NEW size \in Nat, NEW b \in Buffer(size)
  PROVE  /\ Unread(b) \in Seq(Byte) /\ Len(Unread(b)) = b.used - b.read
         /\ \A i \in 1..b.used - b.read : Unread(b)[i] = b.bytes[b.read + i]
<1>1. /\ b.bytes \in [1..size -> Byte] /\ b.used \in 0..size /\ b.used \in Nat
      /\ b.read \in Nat /\ b.read <= b.used
  BY BufferParts
<1>2. /\ b.read + 1 \in Int /\ b.used \in Int
      /\ \A i \in b.read + 1 .. b.used : b.bytes[i] \in Byte
  BY <1>1
<1>3. b.used - (b.read + 1) + 1 = b.used - b.read /\ \A i \in Nat : (b.read + 1) + i - 1 = b.read + i
  BY <1>1
<1>4. (IF b.read + 1 <= b.used THEN b.used - (b.read + 1) + 1 ELSE 0) = b.used - b.read
  BY <1>1
<1>5. b.used - b.read \in Nat /\ \A i \in 1..b.used - b.read : i \in Nat
  BY <1>1
<1>. QED BY <1>2, <1>3, <1>4, <1>5, SubSeqProperties DEF Unread

-----------------------------------------------------------------------------
(* Writing.                                                                  *)

\* What a field is written as.
Coded(kind, value) ==
  IF kind = "string" THEN ShortBytes(Len(value)) \o value ELSE IntBytes(value)

Field(d, p, i) == Coded(KindOf(d, p, i), p.fields[i])

LEMMA ShortBytesIs ==
  ASSUME NEW s \in Int
  PROVE  /\ ShortBytes(s) \in Seq(Byte) /\ Len(ShortBytes(s)) = 2
         /\ ShortBytes(s)[1] = s % 256 /\ ShortBytes(s)[2] = (s \div 256) % 256
<1>1. s % 256 \in Byte /\ s \div 256 \in Int
  BY DEF Byte
<1>2. (s \div 256) % 256 \in Byte
  BY <1>1 DEF Byte
<1>. QED BY <1>1, <1>2 DEF ShortBytes

LEMMA ShortBytesType ==
  ASSUME NEW s \in Int
  PROVE  ShortBytes(s) \in Seq(Byte) /\ Len(ShortBytes(s)) = 2
BY ShortBytesIs

IsShortOf(bytes, s) == Len(bytes) = 2 /\ bytes[1] = s % 256 /\ bytes[2] = (s \div 256) % 256

LEMMA ShortBytesAre ==
  ASSUME NEW s \in Int
  PROVE  IsShortOf(ShortBytes(s), s)
BY DEF IsShortOf, ShortBytes

\* The upper half of an int.
High(n) == n \div 65536

LEMMA IntBytesIs ==
  ASSUME NEW n \in Int
  PROVE  /\ IntBytes(n) \in Seq(Byte) /\ Len(IntBytes(n)) = 4
         /\ IntBytes(n)[1] = n % 256
         /\ IntBytes(n)[2] = (n \div 256) % 256
         /\ IntBytes(n)[3] = High(n) % 256
         /\ IntBytes(n)[4] = (High(n) \div 256) % 256
<1>1. High(n) \in Int
  BY SMT DEF High
<1>2. PICK low \in Seq(Byte) : low = ShortBytes(n)
  BY ShortBytesIs
<1>3. PICK high \in Seq(Byte) : high = ShortBytes(High(n))
  BY <1>1, ShortBytesIs
<1>4. Len(low) = 2 /\ low[1] = n % 256 /\ low[2] = (n \div 256) % 256
  BY <1>2, ShortBytesIs
<1>5. /\ Len(high) = 2 /\ high[1] = High(n) % 256
      /\ high[2] = (High(n) \div 256) % 256
  <2>1. IsShortOf(high, High(n))
    BY <1>1, <1>3, ShortBytesAre
  <2>. QED BY <2>1, Zenon DEF IsShortOf
<1>6. /\ low \o high \in Seq(Byte) /\ Len(low \o high) = 4
      /\ \A i \in 1..4 : (low \o high)[i] = IF i <= 2 THEN low[i] ELSE high[i - 2]
  <2>1. Len(low) + Len(high) = 4
    BY <1>4, <1>5
  <2>2. /\ low \o high \in Seq(Byte) /\ Len(low \o high) = Len(low) + Len(high)
        /\ \A i \in 1 .. Len(low) + Len(high) :
             (low \o high)[i] = IF i <= Len(low) THEN low[i] ELSE high[i - Len(low)]
    BY ConcatProperties
  <2>. QED BY <1>4, <2>1, <2>2
<1>7. IntBytes(n) = low \o high
  BY <1>2, <1>3, SMT DEF IntBytes, High
<1>8. 1 \in 1..4 /\ 2 \in 1..4 /\ 3 \in 1..4 /\ 4 \in 1..4 /\ 3 - 2 = 1 /\ 4 - 2 = 2
  OBVIOUS
<1>. QED BY <1>4, <1>5, <1>6, <1>7, <1>8

LEMMA IntBytesType ==
  ASSUME NEW n \in Int
  PROVE  IntBytes(n) \in Seq(Byte) /\ Len(IntBytes(n)) = 4
BY IntBytesIs

LEMMA KindsIs ==
  ASSUME NEW d \in Directions, NEW o \in Registered
  PROVE  /\ Written(d, o) \in Seq({"string", "int"})
         /\ ReadAs(d, o) = Written(d, o)
         /\ IsNodeInfo(d, o) => Written(d, o) = <<"string", "int">>
<1>1. o = 0 \/ o = 1 \/ o = 2
  BY DEF Registered
<1>2. PICK Kinds : Kinds = {"string", "int"}
  OBVIOUS
<1>3. "string" \in Kinds /\ "int" \in Kinds
  BY <1>2
<1>4. CASE d = "toFrontend"
  <2>1. Written(d, o) = <<NodeInfoWrites, StartResultWrites, CloseResultWrites>>[o + 1]
    BY <1>4 DEF Written
  <2>2. ReadAs(d, o) = <<NodeInfoReads, StartResultReads, CloseResultReads>>[o + 1]
    BY <1>4 DEF ReadAs
  <2>3. /\ o = 0 => Written(d, o) = NodeInfoWrites /\ ReadAs(d, o) = NodeInfoReads
        /\ o = 1 => Written(d, o) = StartResultWrites /\ ReadAs(d, o) = StartResultReads
        /\ o = 2 => Written(d, o) = CloseResultWrites /\ ReadAs(d, o) = CloseResultReads
    BY <2>1, <2>2
  <2>4. /\ NodeInfoWrites \in Seq(Kinds) /\ NodeInfoReads = NodeInfoWrites
        /\ StartResultWrites \in Seq(Kinds) /\ StartResultReads = StartResultWrites
        /\ CloseResultWrites \in Seq(Kinds) /\ CloseResultReads = CloseResultWrites
    BY <1>3 DEF NodeInfoWrites, StartResultWrites, CloseResultWrites,
                NodeInfoReads, StartResultReads, CloseResultReads
  <2>5. IsNodeInfo(d, o) => Written(d, o) = <<"string", "int">>
    BY <2>3 DEF IsNodeInfo, NodeInfoWrites
  <2>. QED BY <1>1, <1>2, <2>3, <2>4, <2>5, Zenon
<1>5. CASE d = "toNode"
  <2>1. Written(d, o) = <<InfoRequestWrites, StartRequestWrites, CloseRequestWrites>>[o + 1]
    BY <1>5 DEF Written
  <2>2. ReadAs(d, o) = <<InfoRequestReads, StartRequestReads, CloseRequestReads>>[o + 1]
    BY <1>5 DEF ReadAs
  <2>3. /\ o = 0 => Written(d, o) = InfoRequestWrites /\ ReadAs(d, o) = InfoRequestReads
        /\ o = 1 => Written(d, o) = StartRequestWrites /\ ReadAs(d, o) = StartRequestReads
        /\ o = 2 => Written(d, o) = CloseRequestWrites /\ ReadAs(d, o) = CloseRequestReads
    BY <2>1, <2>2
  <2>4. /\ InfoRequestWrites \in Seq(Kinds) /\ InfoRequestReads = InfoRequestWrites
        /\ StartRequestWrites \in Seq(Kinds) /\ StartRequestReads = StartRequestWrites
        /\ CloseRequestWrites \in Seq(Kinds) /\ CloseRequestReads = CloseRequestWrites
    BY <1>3 DEF InfoRequestWrites, StartRequestWrites, CloseRequestWrites,
                InfoRequestReads, StartRequestReads, CloseRequestReads
  <2>5. ~IsNodeInfo(d, o)
    BY <1>5 DEF IsNodeInfo
  <2>. QED BY <1>1, <1>2, <2>3, <2>4, <2>5, Zenon
<1>. QED BY <1>4, <1>5 DEF Directions

LEMMA Int32IsInt == Int32 \subseteq Int
BY SMT DEF Int32

\* A packet's fields and their kinds.
LEMMA FieldsIs ==
  ASSUME NEW d \in Directions, NEW p, WellFormed(d, p)
  PROVE  /\ p.opcode \in Registered /\ Len(p.fields) \in Nat
         /\ DOMAIN p.fields = 1..Len(p.fields)
         /\ p.fields = [i \in 1..Len(p.fields) |-> p.fields[i]]
         /\ p = [opcode |-> p.opcode, fields |-> p.fields]
         /\ \A i \in 1..Len(p.fields) :
              \/ KindOf(d, p, i) = "string" /\ p.fields[i] \in Seq(Byte)
              \/ KindOf(d, p, i) = "int" /\ p.fields[i] \in Int32
<1> DEFINE n == Len(p.fields)
           fields == [i \in 1..n |-> p.fields[i]]
<1>1. /\ p.opcode \in Registered /\ n \in Nat
      /\ p = [opcode |-> p.opcode, fields |-> fields]
      /\ \A i \in 1..n :
           p.fields[i] \in IF KindOf(d, p, i) = "string" THEN Seq(Byte) ELSE Int32
  BY Zenon DEF WellFormed
<1>2. p.fields = fields
  <2> HIDE DEF fields
  <2>. QED BY <1>1
<1>3. DOMAIN fields = 1..n
  OBVIOUS
<1>4. ASSUME NEW i \in 1..n
      PROVE  KindOf(d, p, i) = "string" \/ KindOf(d, p, i) = "int"
  <2>1. PICK w \in Seq({"string", "int"}) : w = Written(d, p.opcode)
    BY <1>1, KindsIs
  <2>2. KindOf(d, p, i) = IF i \in DOMAIN w THEN w[i] ELSE "int"
    BY <2>1 DEF KindOf
  <2>3. i \in DOMAIN w => w[i] \in {"string", "int"}
    OBVIOUS
  <2>. QED BY <2>2, <2>3
<1>5. ASSUME NEW i \in 1..n
      PROVE  \/ KindOf(d, p, i) = "string" /\ p.fields[i] \in Seq(Byte)
             \/ KindOf(d, p, i) = "int" /\ p.fields[i] \in Int32
  BY <1>1, <1>4
<1> HIDE DEF fields
<1>. QED BY <1>1, <1>2, <1>3, <1>5, Zenon DEF fields

LEMMA FieldType ==
  ASSUME NEW d \in Directions, NEW p, WellFormed(d, p), NEW i \in 1..Len(p.fields)
  PROVE  Field(d, p, i) \in Seq(Byte) /\ Len(Field(d, p, i)) \in Nat
<1>1. CASE KindOf(d, p, i) = "string" /\ p.fields[i] \in Seq(Byte)
  <2>1. Len(p.fields[i]) \in Int
    BY <1>1, LenProperties
  <2>2. ShortBytes(Len(p.fields[i])) \in Seq(Byte)
    BY <2>1, ShortBytesIs
  <2>3. ShortBytes(Len(p.fields[i])) \o p.fields[i] \in Seq(Byte)
    BY <1>1, <2>2, ConcatProperties
  <2>. QED BY <1>1, <2>3, LenProperties DEF Field, Coded
<1>2. CASE KindOf(d, p, i) = "int" /\ p.fields[i] \in Int32
  <2>1. p.fields[i] \in Int
    BY <1>2, Int32IsInt
  <2>2. Field(d, p, i) = IntBytes(p.fields[i])
    BY <1>2 DEF Field, Coded
  <2>3. IntBytes(p.fields[i]) \in Seq(Byte)
    BY <2>1, IntBytesType
  <2>4. Field(d, p, i) \in Seq(Byte)
    BY <2>2, <2>3, Zenon
  <2>. QED BY <2>4, LenProperties
<1>. QED BY <1>1, <1>2, FieldsIs

\* A write that fits appends, any other changes nothing; a buffer that is not
\* full does not become full.
LEMMA WriteIs ==
  ASSUME NEW size \in Nat, NEW b \in Buffer(size), NEW data \in Seq(Byte)
  PROVE  /\ Write(b, data) \in Buffer(size)
         /\ Write(b, data).read = b.read
         /\ Write(b, data).used >= b.used
         /\ b.used < size => Write(b, data).used < size
         /\ \A i \in 1..b.used : Write(b, data).bytes[i] = b.bytes[i]
         /\ b.used + Len(data) < size => Write(b, data) = Receive(b, data)
<1>1. b.used \in Nat /\ Size(b) = size /\ Len(data) \in Nat
  BY BufferParts, LenProperties
<1>2. Fits(b, Len(data)) <=> b.used + Len(data) < size
  BY <1>1 DEF Fits
<1>3. CASE b.used + Len(data) < size
  <2>1. Write(b, data) = Receive(b, data)
    BY <1>2, <1>3 DEF Write
  <2>2. b.used + Len(data) <= size
    BY <1>1, <1>3
  <2>3. /\ Receive(b, data) \in Buffer(size)
        /\ Receive(b, data).used = b.used + Len(data)
        /\ Receive(b, data).read = b.read
        /\ \A i \in 1..b.used : Receive(b, data).bytes[i] = b.bytes[i]
    BY <2>2, ReceiveIs
  <2>. QED BY <1>1, <1>3, <2>1, <2>3
<1>4. CASE ~(b.used + Len(data) < size)
  <2>1. Write(b, data) = b
    BY <1>2, <1>4 DEF Write
  <2>. QED BY <1>1, <1>4, <2>1
<1>. QED BY <1>3, <1>4

\* WriteImpl, field by field.
LEMMA WriteSteps ==
  ASSUME NEW d \in Directions, NEW p, WellFormed(d, p), NEW size \in Nat, NEW b \in Buffer(size)
  PROVE  \E f \in [0..Len(p.fields) -> Buffer(size)] :
           /\ f[0] = b /\ f[Len(p.fields)] = WriteImpl(b, d, p)
           /\ \A k \in 1..Len(p.fields) : f[k] = Write(f[k - 1], Field(d, p, k))
<1> DEFINE n == Len(p.fields)
           T == Buffer(size)
           Put(buf, i) == WriteField(buf, KindOf(d, p, i), p.fields[i])
           seq == [i \in DOMAIN p.fields |-> i]
           G == [x \in (1..n) \X T |-> Put(x[2], x[1])]
           IsIt(it) == it = [u \in SUBSET (DOMAIN seq) |->
                               IF u = {} THEN b ELSE Put(it[u \ {Max(u)}], seq[Max(u)])]
           iter == CHOOSE it : IsIt(it)
<1>1. n \in Nat /\ DOMAIN p.fields = 1..n
  BY FieldsIs
<1>2. DOMAIN seq = 1..n /\ \A i \in 1..n : seq[i] = i
  BY <1>1
<1>3. WriteImpl(b, d, p) = iter[DOMAIN seq]
  BY DEF WriteImpl, FoldLeft, MapThenFoldSet
<1>4. ASSUME NEW i \in 1..n, NEW buf \in T
      PROVE  Put(buf, i) = Write(buf, Field(d, p, i)) /\ Put(buf, i) \in T
  <2>1. Put(buf, i) = Write(buf, Field(d, p, i))
    BY DEF WriteField, WriteString, WriteInt, Field, Coded
  <2>2. Field(d, p, i) \in Seq(Byte)
    BY FieldType
  <2>. QED BY <2>1, <2>2, WriteIs
<1> HIDE DEF Put, T, n, seq
<1>5. G \in [(1..n) \X T -> T]
  <2>1. \A x \in (1..n) \X T : Put(x[2], x[1]) \in T
    BY <1>4
  <2>. QED BY <2>1
<1>6. PICK it \in [SUBSET (1..n) -> T] : IsFold(it, n, b, G)
  <2>1. b \in T
    BY DEF T
  <2> HIDE DEF G
  <2>. QED BY <1>1, <1>5, <2>1, FoldExists
<1>7. IsIt(it)
  <2>1. ASSUME NEW u \in SUBSET (1..n), u # {}
        PROVE  G[<<Max(u), it[u \ {Max(u)}]>>] = Put(it[u \ {Max(u)}], seq[Max(u)])
    <3>1. Max(u) \in 1..n /\ it[u \ {Max(u)}] \in T
      BY <1>1, <2>1, MaxOf
    <3>. QED BY <1>2, <3>1
  <2>. QED BY <1>2, <1>6, <2>1 DEF IsFold
<1>8. IsIt(iter)
  <2> HIDE DEF IsIt
  <2>. QED BY <1>7
<1> HIDE DEF iter
<1>9. iter[{}] = b
  BY <1>2, <1>8
<1>10. ASSUME NEW u \in SUBSET (1..n), u # {}, iter[u \ {Max(u)}] \in T
       PROVE  iter[u] = G[<<Max(u), iter[u \ {Max(u)}]>>]
  <2>1. Max(u) \in 1..n
    BY <1>1, <1>10, MaxOf
  <2>2. iter[u] = Put(iter[u \ {Max(u)}], seq[Max(u)])
    BY <1>2, <1>8, <1>10
  <2>. QED BY <1>2, <1>10, <2>1, <2>2
<1>11. PICK f \in [0..n -> T] : f[n] = iter[1..n] /\ IsChain(f, n, b, G)
  <2>1. b \in T
    BY DEF T
  <2>2. IsFoldIn(iter, n, b, G, T)
    <3> HIDE DEF G
    <3>. QED BY <1>9, <1>10 DEF IsFoldIn
  <2> HIDE DEF G
  <2>. QED BY <1>1, <1>5, <2>1, <2>2, Iterated
<1>12. f[0] = b /\ \A k \in 1..n : f[k] = G[<<k, f[k - 1]>>]
  BY <1>11 DEF IsChain
<1>13. ASSUME NEW k \in 1..n
       PROVE  f[k] = Write(f[k - 1], Field(d, p, k))
  <2>1. k - 1 \in 0..n /\ f[k - 1] \in T
    BY <1>1
  <2>2. f[k] = Put(f[k - 1], k)
    BY <1>12, <2>1
  <2>. QED BY <1>4, <2>1, <2>2
<1>14. f[n] = WriteImpl(b, d, p)
  BY <1>2, <1>3, <1>11
<1>. QED BY <1>12, <1>13, <1>14 DEF T, n

\* The places of a packet's fields, one behind the other.
IsLaid(fl, d, p) ==
  /\ fl \in [0..Len(p.fields) -> Seq(Byte)]
  /\ fl[0] = <<>>
  /\ \A k \in 1..Len(p.fields) : fl[k] = fl[k - 1] \o Field(d, p, k)

BodyOf(d, p) == FlattenSeq([i \in DOMAIN p.fields |-> Field(d, p, i)])

EncodedIn(d, p) == <<p.opcode>> \o ShortBytes(Len(BodyOf(d, p))) \o BodyOf(d, p)

LEMMA LaidOut ==
  ASSUME NEW d \in Directions, NEW p, WellFormed(d, p)
  PROVE  \E fl : IsLaid(fl, d, p) /\ fl[Len(p.fields)] = BodyOf(d, p)
<1> DEFINE n == Len(p.fields)
           T == Seq(Byte)
           G == [x \in (1..n) \X T |-> x[2] \o Field(d, p, x[1])]
           seqs == [i \in DOMAIN p.fields |-> Field(d, p, i)]
<1>1. n \in Nat /\ DOMAIN p.fields = 1..n /\ \A i \in 1..n : Field(d, p, i) \in Seq(Byte)
  BY FieldsIs, FieldType
<1> HIDE DEF n
<1>2. G \in [(1..n) \X T -> T]
  <2>1. ASSUME NEW x \in (1..n) \X T
        PROVE  x[2] \o Field(d, p, x[1]) \in T
    <3>1. x[2] \in Seq(Byte) /\ Field(d, p, x[1]) \in Seq(Byte)
      BY <1>1
    <3>. QED BY <3>1, ConcatProperties
  <2>. QED BY <2>1
<1>3. PICK fl \in [0..n -> T] : IsChain(fl, n, <<>>, G)
  <2>1. <<>> \in T
    BY EmptySeq
  <2> HIDE DEF T, G
  <2>. QED BY <1>1, <1>2, <2>1, ChainExists
<1>4. fl[0] = <<>>
  BY <1>3 DEF IsChain
<1>5. ASSUME NEW k \in 1..n
      PROVE  fl[k] = fl[k - 1] \o Field(d, p, k)
  <2>1. fl[k] = G[<<k, fl[k - 1]>>]
    BY <1>3 DEF IsChain
  <2>2. k - 1 \in 0..n /\ fl[k - 1] \in T
    BY <1>1
  <2>3. <<k, fl[k - 1]>> \in (1..n) \X T
    BY <2>2
  <2>4. G[<<k, fl[k - 1]>>] = fl[k - 1] \o Field(d, p, k)
    BY <2>3
  <2>. QED BY <2>1, <2>4
<1>6. IsLaid(fl, d, p)
  BY <1>3, <1>4, <1>5 DEF IsLaid, n
<1>7. seqs \in Seq(Seq(Byte)) /\ Len(seqs) = n
  <2>1. seqs = [i \in 1..n |-> Field(d, p, i)]
    BY <1>1
  <2>2. [i \in 1..n |-> Field(d, p, i)] \in [1..n -> Seq(Byte)]
    BY <1>1
  <2>. QED BY <1>1, <2>1, <2>2
<1>8. \A k \in 1..n : seqs[k] = Field(d, p, k)
  BY <1>1
<1>9. FlattenSeq(seqs) = fl[n]
  <2> HIDE DEF seqs
  <2>1. fl \in [0..Len(seqs) -> Seq(Byte)] /\ \A k \in 1..Len(seqs) : fl[k] = fl[k - 1] \o seqs[k]
    BY <1>5, <1>7, <1>8
  <2>2. FlattenSeq(seqs) = fl[Len(seqs)]
    BY <1>4, <1>7, <2>1, Flattened
  <2>. QED BY <1>7, <2>2
<1>. QED BY <1>6, <1>9 DEF BodyOf, n

\* Each field begins where the one before ends, and none lies past the last.
LaysField(fl, d, p, k) ==
  /\ k - 1 \in 0..Len(p.fields) /\ k \in 0..Len(p.fields)
  /\ fl[k - 1] \in Seq(Byte) /\ fl[k] \in Seq(Byte) /\ Field(d, p, k) \in Seq(Byte)
  /\ Len(fl[k - 1]) \in Nat /\ Len(fl[k]) \in Nat /\ Len(Field(d, p, k)) \in Nat
  /\ Len(fl[k]) = Len(fl[k - 1]) + Len(Field(d, p, k))
  /\ \A i \in 1..Len(fl[k - 1]) : fl[k][i] = fl[k - 1][i]
  /\ \A i \in 1..Len(Field(d, p, k)) : fl[k][Len(fl[k - 1]) + i] = Field(d, p, k)[i]

LEMMA FieldIsLaid ==
  ASSUME NEW d \in Directions, NEW p, WellFormed(d, p), NEW fl, IsLaid(fl, d, p),
         NEW k \in 1..Len(p.fields)
  PROVE  LaysField(fl, d, p, k)
<1>1. k - 1 \in 0..Len(p.fields) /\ k \in 0..Len(p.fields)
  BY FieldsIs
<1>2. PICK a \in Seq(Byte) : a = fl[k - 1]
  BY <1>1 DEF IsLaid
<1>3. PICK b \in Seq(Byte) : b = Field(d, p, k)
  BY FieldType
<1>4. fl[k] = a \o b
  BY <1>2, <1>3 DEF IsLaid
<1>5. Len(a) \in Nat /\ Len(b) \in Nat
  BY LenProperties
<1>6. /\ a \o b \in Seq(Byte) /\ Len(a \o b) = Len(a) + Len(b)
      /\ \A i \in 1 .. Len(a) + Len(b) : (a \o b)[i] = IF i <= Len(a) THEN a[i] ELSE b[i - Len(a)]
  BY ConcatProperties
<1>7. \A i \in 1..Len(a) : (a \o b)[i] = a[i]
  BY <1>5, <1>6
<1>8. ASSUME NEW i \in 1..Len(b)
      PROVE  (a \o b)[Len(a) + i] = b[i]
  <2>1. Len(a) + i \in 1 .. Len(a) + Len(b) /\ ~(Len(a) + i <= Len(a)) /\ (Len(a) + i) - Len(a) = i
    BY <1>5
  <2>. QED BY <1>6, <2>1
<1>9. PICK c \in Seq(Byte) : c = a \o b
  BY <1>6
<1>10. c = fl[k] /\ Len(c) = Len(a) + Len(b) /\ Len(c) \in Nat
  BY <1>4, <1>6, <1>9, LenProperties, Zenon
<1>. QED BY <1>1, <1>2, <1>3, <1>5, <1>7, <1>8, <1>9, <1>10, Zenon DEF LaysField

LEMMA LaidOutGrows ==
  ASSUME NEW d \in Directions, NEW p, WellFormed(d, p), NEW fl, IsLaid(fl, d, p),
         NEW n \in 0..Len(p.fields), NEW k \in 0..n
  PROVE  /\ Len(fl[k]) \in Nat /\ Len(fl[n]) \in Nat /\ Len(fl[k]) <= Len(fl[n])
         /\ \A i \in 1..Len(fl[k]) : fl[n][i] = fl[k][i]
<1>1. Len(p.fields) \in Nat /\ n \in Nat /\ k \in Nat /\ k <= n
  BY FieldsIs
<1> DEFINE S == {j \in Nat : k + j <= n =>
                   /\ Len(fl[k + j]) \in Nat /\ Len(fl[k]) <= Len(fl[k + j])
                   /\ \A i \in 1..Len(fl[k]) : fl[k + j][i] = fl[k][i]}
<1>2. Len(fl[k]) \in Nat
  <2>1. fl[k] \in Seq(Byte)
    BY <1>1 DEF IsLaid
  <2>. QED BY <2>1, LenProperties
<1>3. 0 \in S
  <2>1. k + 0 = k
    BY <1>1
  <2>. QED BY <1>2, <2>1
<1>4. ASSUME NEW j \in S
      PROVE  j + 1 \in S
  <2>1. j \in Nat /\ j + 1 \in Nat
    OBVIOUS
  <2> SUFFICES ASSUME k + (j + 1) <= n
               PROVE  /\ Len(fl[k + (j + 1)]) \in Nat /\ Len(fl[k]) <= Len(fl[k + (j + 1)])
                      /\ \A i \in 1..Len(fl[k]) : fl[k + (j + 1)][i] = fl[k][i]
    BY <2>1
  <2>2. PICK m \in 1..Len(p.fields) : m = k + (j + 1)
    BY <1>1, <2>1
  <2>3. m - 1 = k + j /\ k + j <= n
    BY <1>1, <2>1, <2>2
  <2>4. /\ Len(fl[m - 1]) \in Nat /\ Len(fl[k]) <= Len(fl[m - 1])
        /\ \A i \in 1..Len(fl[k]) : fl[m - 1][i] = fl[k][i]
    BY <2>3
  <2>5. /\ Len(fl[m]) \in Nat /\ Len(Field(d, p, m)) \in Nat
        /\ Len(fl[m]) = Len(fl[m - 1]) + Len(Field(d, p, m))
        /\ \A i \in 1..Len(fl[m - 1]) : fl[m][i] = fl[m - 1][i]
    <3>1. LaysField(fl, d, p, m)
      BY FieldIsLaid
    <3>. QED BY <3>1, Zenon DEF LaysField
  <2>6. Len(fl[k]) <= Len(fl[m])
    BY <1>2, <2>4, <2>5
  <2>7. \A i \in 1..Len(fl[k]) : i \in 1..Len(fl[m - 1])
    BY <1>2, <2>4
  <2>. QED BY <2>2, <2>4, <2>5, <2>6, <2>7
<1> HIDE DEF S
<1>5. \A j \in Nat : j \in S
  <2>1. S \in SUBSET Nat
    BY DEF S
  <2>. QED BY <1>3, <1>4, <2>1, Induct
<1>6. n - k \in S /\ k + (n - k) = n
  BY <1>1, <1>5
<1>7. n - k \in S /\ k + (n - k) <= n
  BY <1>1, <1>6
<1>8. /\ Len(fl[k + (n - k)]) \in Nat /\ Len(fl[k]) <= Len(fl[k + (n - k)])
      /\ \A i \in 1..Len(fl[k]) : fl[k + (n - k)][i] = fl[k][i]
  BY <1>7 DEF S
<1>. QED BY <1>2, <1>6, <1>8, Zenon

\* The size of the buffer a packet is written to, and the packet in it.
SizeOf(d) == IF d = "toFrontend" THEN BufferSize ELSE HelperSize

Image(d, p) == WritePacket(NewBuffer(SizeOf(d)), d, p)

LEMMA SizeIs ==
  ASSUME NEW d \in Directions
  PROVE  /\ SizeOf(d) \in Nat /\ Header < SizeOf(d) /\ SizeOf(d) <= BufferSize
         /\ BufferSize \in Nat /\ BufferSize < 65536 /\ Header = 3
<1>1. HelperSize \in Nat /\ BufferSize \in Nat /\ Header < HelperSize /\ HelperSize <= BufferSize
  BY WireAssumption
<1>2. BufferSize <= 65535
  BY WireAssumption
<1>3. BufferSize < 65536
  BY <1>1, <1>2, SMT
<1>. QED BY <1>1, <1>3, SMT DEF SizeOf, Header

\* The header is filled in before what is written.
LEMMA HeaderIs ==
  ASSUME NEW size \in Nat, NEW b \in Buffer(size), b.read = 0, Header <= b.used, b.used < size,
         NEW o \in Registered, NEW h,
         h = SetWritePos(WriteShort(WriteChar(SetWritePos(b, 0), o), b.used - Header), b.used)
  PROVE  /\ h \in Buffer(size) /\ h.used = b.used /\ h.read = 0
         /\ h.bytes[1] = o
         /\ h.bytes[2] = ShortBytes(b.used - Header)[1]
         /\ h.bytes[3] = ShortBytes(b.used - Header)[2]
         /\ \A i \in 1..b.used : i > Header => h.bytes[i] = b.bytes[i]
<1>1. b.used \in Nat /\ b.used \in 0..size /\ Header = 3 /\ size > 3
  BY BufferParts DEF Header
<1>2. PICK c0 \in Buffer(size) : /\ c0 = SetWritePos(b, 0)
                                 /\ c0.bytes = b.bytes /\ c0.used = 0 /\ c0.read = 0
  <2>1. 0 \in b.read..size
    BY <1>1
  <2>. QED BY <2>1, SetWritePosType
<1>3. PICK one \in Seq(Byte) : one = <<o % 256>> /\ Len(one) = 1 /\ one[1] = o
  <2>1. o % 256 = o /\ o \in Byte
    BY SMT DEF Registered, Byte
  <2>2. <<o>> \in Seq(Byte) /\ Len(<<o>>) = 1 /\ <<o>>[1] = o
    BY <2>1
  <2>. QED BY <2>1, <2>2
<1>4. PICK c1 \in Buffer(size) : /\ c1 = WriteChar(c0, o) /\ c1.used = 1 /\ c1.read = 0
                                 /\ c1.bytes[1] = o
                                 /\ \A i \in 1..size : i > 1 => c1.bytes[i] = b.bytes[i]
  <2>1. c0.used + Len(one) < size /\ c0.used + Len(one) <= size
    BY <1>1, <1>2, <1>3
  <2>2. WriteChar(c0, o) = Receive(c0, one)
    <3>1. WriteChar(c0, o) = Write(c0, one)
      BY <1>3, Zenon DEF WriteChar
    <3>. QED BY <2>1, <3>1, WriteIs
  <2>3. /\ Receive(c0, one) \in Buffer(size)
        /\ Receive(c0, one).used = c0.used + Len(one)
        /\ Receive(c0, one).read = c0.read
        /\ \A i \in 1..Len(one) : Receive(c0, one).bytes[c0.used + i] = one[i]
        /\ \A i \in 1..size : i > c0.used + Len(one)
                                => Receive(c0, one).bytes[i] = c0.bytes[i]
    BY <2>1, ReceiveIs
  <2>4. 1 \in 1..Len(one) /\ c0.used + 1 = 1 /\ c0.used + Len(one) = 1
    BY <1>2, <1>3
  <2>. QED BY <1>2, <1>3, <2>2, <2>3, <2>4
<1>5. PICK two \in Seq(Byte) : two = ShortBytes(b.used - Header) /\ Len(two) = 2
  <2>1. PICK n \in Int : n = b.used - Header
    BY <1>1
  <2>2. ShortBytes(n) \in Seq(Byte) /\ Len(ShortBytes(n)) = 2
    BY ShortBytesType
  <2>. QED BY <2>1, <2>2, Zenon
<1>6. PICK c2 \in Buffer(size) : /\ c2 = WriteShort(c1, b.used - Header) /\ c2.used = 3 /\ c2.read = 0
                                 /\ c2.bytes[1] = o /\ c2.bytes[2] = two[1] /\ c2.bytes[3] = two[2]
                                 /\ \A i \in 1..size : i > 3 => c2.bytes[i] = b.bytes[i]
  <2>1. c1.used + Len(two) < size /\ c1.used + Len(two) <= size
    <3>1. c1.used = 1 /\ Len(two) = 2 /\ size > 3
      BY <1>1, <1>4, <1>5, Zenon
    <3>. QED BY <3>1
  <2>2. WriteShort(c1, b.used - Header) = Receive(c1, two)
    BY <1>5, <2>1, WriteIs DEF WriteShort
  <2>3. /\ Receive(c1, two) \in Buffer(size)
        /\ Receive(c1, two).used = c1.used + Len(two)
        /\ Receive(c1, two).read = c1.read
        /\ \A i \in 1..c1.used : Receive(c1, two).bytes[i] = c1.bytes[i]
        /\ \A i \in 1..Len(two) : Receive(c1, two).bytes[c1.used + i] = two[i]
        /\ \A i \in 1..size : i > c1.used + Len(two)
                                => Receive(c1, two).bytes[i] = c1.bytes[i]
    BY <2>1, ReceiveIs
  <2>4. /\ 1 \in 1..c1.used /\ 1 \in 1..Len(two) /\ 2 \in 1..Len(two)
        /\ c1.used + 1 = 2 /\ c1.used + 2 = 3 /\ c1.used + Len(two) = 3
    <3>1. c1.used = 1 /\ Len(two) = 2
      BY <1>4, <1>5, Zenon
    <3>. QED BY <3>1
  <2>5. \A i \in 1..size : i > 3 => i > 1
    OBVIOUS
  <2>. QED BY <1>4, <2>2, <2>3, <2>4, <2>5
<1>7. /\ h \in Buffer(size) /\ h.bytes = c2.bytes /\ h.used = b.used /\ h.read = c2.read
  <2>1. h = SetWritePos(c2, b.used)
    BY <1>2, <1>4, <1>6
  <2>2. b.used \in c2.read..size
    BY <1>1, <1>6
  <2>. QED BY <2>1, <2>2, SetWritePosType
<1>8. \A i \in 1..b.used : i > Header => i \in 1..size /\ i > 3
  BY <1>1
<1>. QED BY <1>5, <1>6, <1>7, <1>8

\* What the fields leave: never a full buffer, and never less than the header.
LEMMA BodyWritten ==
  ASSUME NEW d \in Directions, NEW p, WellFormed(d, p), NEW size \in Nat, Header < size,
         NEW b \in Buffer(size), b.used = Header, b.read = 0, NEW w, w = WriteImpl(b, d, p)
  PROVE  /\ w \in Buffer(size) /\ w.read = 0 /\ Header <= w.used /\ w.used < size
         /\ \A fl : IsLaid(fl, d, p) /\ Header + Len(fl[Len(p.fields)]) < size
              => /\ w.used = Header + Len(fl[Len(p.fields)])
                 /\ \A i \in 1..Len(fl[Len(p.fields)]) :
                      w.bytes[Header + i] = fl[Len(p.fields)][i]
<1> DEFINE n == Len(p.fields)
<1>1. n \in Nat /\ Header = 3
  BY FieldsIs DEF Header
<1>2. PICK f \in [0..n -> Buffer(size)] :
             /\ f[0] = b /\ f[n] = w
             /\ \A k \in 1..n : f[k] = Write(f[k - 1], Field(d, p, k))
  BY WriteSteps
<1>3. ASSUME NEW k \in 1..n
      PROVE  /\ k - 1 \in 0..n /\ f[k - 1] \in Buffer(size) /\ Field(d, p, k) \in Seq(Byte)
             /\ f[k] = Write(f[k - 1], Field(d, p, k))
  <2>1. k - 1 \in 0..n
    BY <1>1
  <2>. QED BY <1>2, <2>1, FieldType
<1> DEFINE S == {k \in Nat : k <= n => f[k].read = 0 /\ Header <= f[k].used /\ f[k].used < size}
<1>4. 0 \in S
  BY <1>1, <1>2
<1>5. ASSUME NEW k \in S
      PROVE  k + 1 \in S
  <2>1. k \in Nat /\ k + 1 \in Nat
    OBVIOUS
  <2> SUFFICES ASSUME k + 1 <= n
               PROVE  f[k + 1].read = 0 /\ Header <= f[k + 1].used /\ f[k + 1].used < size
    BY <2>1
  <2>2. PICK m \in 1..n : m = k + 1 /\ m - 1 = k
    BY <2>1
  <2>3. f[k].read = 0 /\ Header <= f[k].used /\ f[k].used < size
    BY <2>1
  <2>4. f[k] \in Buffer(size) /\ Field(d, p, m) \in Seq(Byte) /\ f[m] = Write(f[k], Field(d, p, m))
    BY <1>3, <2>2
  <2>5. f[m].read = f[k].read /\ f[m].used >= f[k].used /\ f[m].used < size /\ f[m] \in Buffer(size)
    BY <2>3, <2>4, WriteIs
  <2>6. f[k].used \in Nat /\ f[m].used \in Nat
    BY <2>4, <2>5, BufferParts
  <2>. QED BY <1>1, <2>2, <2>3, <2>5, <2>6
<1> HIDE DEF S
<1>6. \A k \in Nat : k \in S
  <2>1. S \in SUBSET Nat
    BY DEF S
  <2>. QED BY <1>4, <1>5, <2>1, Induct
<1>7. w \in Buffer(size) /\ w.read = 0 /\ Header <= w.used /\ w.used < size
  <2>1. n \in S /\ n <= n /\ f[n] \in Buffer(size)
    BY <1>1, <1>6
  <2>. QED BY <1>2, <2>1 DEF S
<1>8. ASSUME NEW fl, IsLaid(fl, d, p), Header + Len(fl[n]) < size
      PROVE  /\ w.used = Header + Len(fl[n])
             /\ \A i \in 1..Len(fl[n]) : w.bytes[Header + i] = fl[n][i]
  <2> DEFINE U == {k \in Nat : k <= n =>
                     /\ f[k].used = Header + Len(fl[k])
                     /\ \A i \in 1..Len(fl[k]) : f[k].bytes[Header + i] = fl[k][i]}
  <2>1. 0 \in U
    <3>1. fl[0] = <<>> /\ Len(fl[0]) = 0
      BY <1>8, EmptySeq DEF IsLaid
    <3>. QED BY <1>1, <1>2, <3>1
  <2>2. ASSUME NEW k \in U
        PROVE  k + 1 \in U
    <3>1. k \in Nat /\ k + 1 \in Nat
      OBVIOUS
    <3> SUFFICES ASSUME k + 1 <= n
                 PROVE  /\ f[k + 1].used = Header + Len(fl[k + 1])
                        /\ \A i \in 1..Len(fl[k + 1]) : f[k + 1].bytes[Header + i] = fl[k + 1][i]
      BY <3>1
    <3>2. PICK m \in 1..n : m = k + 1 /\ m - 1 = k
      BY <3>1
    <3>3. /\ f[k].used = Header + Len(fl[k])
          /\ \A i \in 1..Len(fl[k]) : f[k].bytes[Header + i] = fl[k][i]
      BY <3>1
    <3>4. PICK data \in Seq(Byte) : data = Field(d, p, m)
      BY <1>3
    <3>5. /\ Len(fl[k]) \in Nat /\ Len(fl[m]) \in Nat /\ Len(data) \in Nat
          /\ Len(fl[m]) = Len(fl[k]) + Len(data)
          /\ \A i \in 1..Len(fl[k]) : fl[m][i] = fl[k][i]
          /\ \A i \in 1..Len(data) : fl[m][Len(fl[k]) + i] = data[i]
      <4>1. m - 1 = k /\ Field(d, p, m) = data
        BY <3>2, <3>4, Zenon
      <4>2. /\ Len(fl[m - 1]) \in Nat /\ Len(fl[m]) \in Nat /\ Len(Field(d, p, m)) \in Nat
            /\ Len(fl[m]) = Len(fl[m - 1]) + Len(Field(d, p, m))
            /\ \A i \in 1..Len(fl[m - 1]) : fl[m][i] = fl[m - 1][i]
            /\ \A i \in 1..Len(Field(d, p, m)) :
                 fl[m][Len(fl[m - 1]) + i] = Field(d, p, m)[i]
        <5>1. LaysField(fl, d, p, m)
          BY <1>8, FieldIsLaid
        <5>. QED BY <5>1, Zenon DEF LaysField
      <4>. QED BY <4>1, <4>2, Zenon
    <3>6. Len(fl[m]) <= Len(fl[n]) /\ Len(fl[n]) \in Nat
      <4>1. n \in 0..n /\ m \in 0..n
        BY <1>1
      <4>. QED BY <1>8, <4>1, LaidOutGrows
    <3>7. PICK c \in Buffer(size) : c = f[k] /\ c.used \in Nat
      BY <1>3, <3>2, BufferParts
    <3>8. c.used + Len(data) < size /\ c.used + Len(data) <= size
      <4>1. c.used = Header + Len(fl[k])
        BY <3>3, <3>7, Zenon
      <4>2. PICK x \in Nat, y \in Nat, z \in Nat, l \in Nat :
                   x = Len(fl[k]) /\ y = Len(fl[m]) /\ z = Len(fl[n]) /\ l = Len(data)
        BY <3>5, <3>6
      <4>3. c.used = 3 + x /\ y = x + l /\ y <= z /\ 3 + z < size
        BY <1>1, <1>8, <3>5, <3>6, <4>1, <4>2
      <4>4. c.used + l < size
        BY <4>3
      <4>. QED BY <3>7, <4>2, <4>4
    <3>9. f[m] = Receive(c, data)
      BY <1>3, <3>2, <3>4, <3>7, <3>8, WriteIs
    <3>10. /\ f[m].used = c.used + Len(data)
           /\ \A i \in 1..c.used : f[m].bytes[i] = c.bytes[i]
           /\ \A i \in 1..Len(data) : f[m].bytes[c.used + i] = data[i]
      BY <3>8, <3>9, ReceiveIs
    <3>11. f[m].used = Header + Len(fl[m])
      BY <1>1, <3>3, <3>5, <3>7, <3>10
    <3>12. ASSUME NEW i \in 1..Len(fl[m])
           PROVE  f[m].bytes[Header + i] = fl[m][i]
      <4>1. CASE i <= Len(fl[k])
        <5>1. i \in 1..Len(fl[k]) /\ Header + i \in 1..c.used
          BY <1>1, <3>3, <3>5, <3>7, <4>1
        <5>. QED BY <3>3, <3>5, <3>7, <3>10, <5>1
      <4>2. CASE i > Len(fl[k])
        <5>1. PICK j \in 1..Len(data) : j = i - Len(fl[k])
          <6>1. i - Len(fl[k]) \in 1..Len(data)
            BY <3>5, <4>2
          <6>. QED BY <6>1
        <5>2. Len(fl[k]) + j = i /\ c.used + j = Header + i
          BY <1>1, <3>3, <3>5, <3>7, <5>1
        <5>. QED BY <3>5, <3>10, <5>2
      <4>. QED BY <3>5, <4>1, <4>2
    <3>. QED BY <3>2, <3>11, <3>12
  <2> HIDE DEF U
  <2>3. \A k \in Nat : k \in U
    <3>1. U \in SUBSET Nat
      BY DEF U
    <3>. QED BY <2>1, <2>2, <3>1, Induct
  <2>4. n \in U /\ n <= n
    BY <1>1, <2>3
  <2>. QED BY <1>2, <2>4 DEF U
<1>. QED BY <1>7, <1>8

LEMMA EncodedIs ==
  ASSUME NEW d \in Directions, NEW p, WellFormed(d, p), NEW e, e = EncodedIn(d, p)
  PROVE  /\ BodyOf(d, p) \in Seq(Byte) /\ Len(BodyOf(d, p)) \in Nat
         /\ e \in Seq(Byte) /\ Len(e) = Header + Len(BodyOf(d, p))
         /\ e[1] = p.opcode
         /\ e[2] = ShortBytes(Len(BodyOf(d, p)))[1] /\ e[3] = ShortBytes(Len(BodyOf(d, p)))[2]
         /\ \A i \in 1..Len(BodyOf(d, p)) : e[Header + i] = BodyOf(d, p)[i]
<1>1. PICK body \in Seq(Byte) : body = BodyOf(d, p)
  <2>1. PICK fl : IsLaid(fl, d, p) /\ fl[Len(p.fields)] = BodyOf(d, p)
    BY LaidOut
  <2>2. Len(p.fields) \in 0..Len(p.fields)
    BY FieldsIs
  <2>. QED BY <2>1, <2>2 DEF IsLaid
<1>2. Len(body) \in Nat
  BY LenProperties
<1>3. PICK one \in Seq(Byte) : one = <<p.opcode>> /\ Len(one) = 1 /\ one[1] = p.opcode
  <2>1. PICK o \in Byte : o = p.opcode
    <3>1. p.opcode \in Registered
      BY FieldsIs
    <3>2. Registered \subseteq Byte
      BY SMT DEF Registered, Byte
    <3>. QED BY <3>1, <3>2
  <2>2. <<o>> \in Seq(Byte) /\ Len(<<o>>) = 1 /\ <<o>>[1] = o
    OBVIOUS
  <2>. QED BY <2>1, <2>2
<1>4. PICK two \in Seq(Byte) : two = ShortBytes(Len(body)) /\ Len(two) = 2
  BY <1>2, ShortBytesIs
<1>5. PICK head \in Seq(Byte) : /\ head = one \o two /\ Len(head) = 3 /\ head[1] = p.opcode
                                /\ head[2] = two[1] /\ head[3] = two[2]
  <2>1. /\ one \o two \in Seq(Byte) /\ Len(one \o two) = Len(one) + Len(two)
        /\ \A i \in 1 .. Len(one) + Len(two) :
             (one \o two)[i] = IF i <= Len(one) THEN one[i] ELSE two[i - Len(one)]
    BY ConcatProperties
  <2>2. Len(one) = 1 /\ Len(two) = 2 /\ one[1] = p.opcode
    BY <1>3, <1>4, Zenon
  <2>3. /\ 1 \in 1 .. Len(one) + Len(two) /\ 1 <= Len(one) /\ Len(one) + Len(two) = 3
        /\ 2 \in 1 .. Len(one) + Len(two) /\ ~(2 <= Len(one)) /\ 2 - Len(one) = 1
        /\ 3 \in 1 .. Len(one) + Len(two) /\ ~(3 <= Len(one)) /\ 3 - Len(one) = 2
    BY <2>2
  <2>4. (one \o two)[1] = one[1] /\ (one \o two)[2] = two[1] /\ (one \o two)[3] = two[2]
    BY <2>1, <2>3
  <2>. QED BY <2>1, <2>2, <2>3, <2>4
<1>6. e = head \o body
  BY <1>1, <1>3, <1>4, <1>5, Zenon DEF EncodedIn
<1>7. /\ head \o body \in Seq(Byte) /\ Len(head \o body) = Len(head) + Len(body)
      /\ \A i \in 1 .. Len(head) + Len(body) :
           (head \o body)[i] = IF i <= Len(head) THEN head[i] ELSE body[i - Len(head)]
  BY ConcatProperties
<1>8. Len(head) = 3 /\ Header = 3
  BY <1>5, Zenon DEF Header
<1>9. e \in Seq(Byte) /\ Len(e) = Header + Len(body)
  BY <1>6, <1>7, <1>8
<1>10. e[1] = head[1] /\ e[2] = head[2] /\ e[3] = head[3]
  <2>1. \A i \in 1..3 : i \in 1 .. Len(head) + Len(body) /\ i <= Len(head)
    BY <1>2, <1>8
  <2>. QED BY <1>6, <1>7, <2>1
<1>11. ASSUME NEW i \in 1..Len(body)
       PROVE  e[Header + i] = body[i]
  <2>1. /\ Header + i \in 1 .. Len(head) + Len(body) /\ ~(Header + i <= Len(head))
        /\ (Header + i) - Len(head) = i
    BY <1>2, <1>8
  <2>. QED BY <1>6, <1>7, <2>1
<1>. QED BY <1>1, <1>2, <1>4, <1>5, <1>9, <1>10, <1>11, Zenon

\* The packet in its buffer, whatever of its fields is in it.
LEMMA ImageIs ==
  ASSUME NEW d \in Directions, NEW p, WellFormed(d, p), NEW im, im = Image(d, p)
  PROVE  /\ im \in Buffer(SizeOf(d)) /\ im.used \in Nat
         /\ Header <= im.used /\ im.used < SizeOf(d)
         /\ Content(im) \in Seq(Byte) /\ Len(Content(im)) = im.used
         /\ Content(im)[1] = p.opcode
         /\ Content(im)[2] = ShortBytes(im.used - Header)[1]
         /\ Content(im)[3] = ShortBytes(im.used - Header)[2]
         /\ Len(EncodedIn(d, p)) < SizeOf(d) => Content(im) = EncodedIn(d, p)
<1>1. PICK size \in Nat : size = SizeOf(d) /\ 3 < size /\ Header = 3
  BY SizeIs
<1>2. PICK b0 \in Buffer(size) : b0 = NewBuffer(size) /\ b0.used = 0 /\ b0.read = 0
  BY NewBufferType DEF NewBuffer
<1>3. PICK b \in Buffer(size) : b = SetWritePos(b0, b0.used + Header) /\ b.used = Header /\ b.read = 0
  <2>1. 3 \in b0.read..size /\ b0.used + Header = 3
    BY <1>1, <1>2
  <2>2. SetWritePos(b0, b0.used + Header) \in Buffer(size)
    BY <2>1, SetWritePosType
  <2>3. /\ SetWritePos(b0, b0.used + Header).used = 3
        /\ SetWritePos(b0, b0.used + Header).read = b0.read
    BY <2>1, SetWritePosType
  <2>. QED BY <1>1, <1>2, <2>2, <2>3
<1>4. PICK w : w = WriteImpl(b, d, p)
  OBVIOUS
<1>5. /\ w \in Buffer(size) /\ w.read = 0 /\ Header <= w.used /\ w.used < size
      /\ \A fl : IsLaid(fl, d, p) /\ Header + Len(fl[Len(p.fields)]) < size
           => /\ w.used = Header + Len(fl[Len(p.fields)])
              /\ \A i \in 1..Len(fl[Len(p.fields)]) :
                   w.bytes[Header + i] = fl[Len(p.fields)][i]
  <2>1. Header < size
    BY <1>1
  <2>. QED BY <1>3, <1>4, <2>1, BodyWritten
<1>6. im = SetWritePos(WriteShort(WriteChar(SetWritePos(w, 0), p.opcode), w.used - Header), w.used)
  <2>1. b0.used + Header = Header /\ b0.used = 0
    BY <1>1, <1>2
  <2>. QED BY <1>1, <1>2, <1>3, <1>4, <2>1 DEF Image, WritePacket, WritePacketAt
<1>7. /\ im \in Buffer(size) /\ im.used = w.used
      /\ im.bytes[1] = p.opcode
      /\ im.bytes[2] = ShortBytes(w.used - Header)[1]
      /\ im.bytes[3] = ShortBytes(w.used - Header)[2]
      /\ \A i \in 1..w.used : i > Header => im.bytes[i] = w.bytes[i]
  <2>1. w \in Buffer(size) /\ w.read = 0 /\ Header <= w.used /\ w.used < size
    BY <1>5, Zenon
  <2>2. p.opcode \in Registered
    BY FieldsIs
  <2>. QED BY <1>6, <2>1, <2>2, HeaderIs
<1>8. im.used \in Nat /\ Header <= im.used /\ im.used < size
  BY <1>5, <1>7, BufferParts
<1>9. /\ Content(im) \in Seq(Byte) /\ Len(Content(im)) = im.used
      /\ \A i \in 1..im.used : Content(im)[i] = im.bytes[i]
  BY <1>7, ContentIs
<1>10. 1 \in 1..im.used /\ 2 \in 1..im.used /\ 3 \in 1..im.used
  BY <1>1, <1>8
<1>11. /\ Content(im)[1] = p.opcode
       /\ Content(im)[2] = ShortBytes(im.used - Header)[1]
       /\ Content(im)[3] = ShortBytes(im.used - Header)[2]
  BY <1>7, <1>9, <1>10
<1>12. ASSUME Len(EncodedIn(d, p)) < size
       PROVE  Content(im) = EncodedIn(d, p)
  <2>1. PICK body \in Seq(Byte) : body = BodyOf(d, p) /\ Len(body) \in Nat
    BY EncodedIs
  <2>2. PICK e \in Seq(Byte) : e = EncodedIn(d, p)
    BY EncodedIs
  <2>3. /\ Len(e) = Header + Len(body) /\ e[1] = p.opcode
        /\ e[2] = ShortBytes(Len(body))[1] /\ e[3] = ShortBytes(Len(body))[2]
        /\ \A i \in 1..Len(body) : e[Header + i] = body[i]
    BY <2>1, <2>2, EncodedIs
  <2>4. w.used = Header + Len(body) /\ \A i \in 1..Len(body) : w.bytes[Header + i] = body[i]
    <3>1. PICK fl : IsLaid(fl, d, p) /\ fl[Len(p.fields)] = body
      BY <2>1, LaidOut
    <3>2. Header + Len(fl[Len(p.fields)]) < size
      BY <1>12, <2>2, <2>3, <3>1
    <3>. QED BY <1>5, <3>1, <3>2
  <2>5. im.used = Header + Len(body) /\ im.used - Header = Len(body)
    BY <1>1, <1>7, <2>1, <2>4
  <2>6. PICK c \in Seq(Byte) : c = Content(im) /\ Len(c) = Len(e)
    BY <1>9, <2>3, <2>5
  <2>7. ASSUME NEW i \in 1..Len(c)
        PROVE  c[i] = e[i]
    <3>1. i \in 1..im.used
      BY <1>9, <2>6
    <3>2. CASE i <= 3
      <4>1. i = 1 \/ i = 2 \/ i = 3
        BY <1>8, <3>1, <3>2
      <4>. QED BY <1>11, <2>3, <2>5, <2>6, <4>1, Zenon
    <3>3. CASE i > 3
      <4>1. PICK j \in 1..Len(body) : Header + j = i
        <5>1. i - 3 \in 1..Len(body) /\ Header + (i - 3) = i
          BY <1>1, <2>1, <2>5, <3>1, <3>3
        <5>. QED BY <5>1
      <4>2. i \in 1..w.used /\ i > Header
        BY <1>1, <1>7, <3>1, <3>3
      <4>3. c[i] = w.bytes[i]
        BY <1>7, <1>9, <2>6, <3>1, <4>2
      <4>. QED BY <2>3, <2>4, <4>1, <4>3
    <3>. QED BY <1>8, <3>1, <3>2, <3>3
  <2>8. c = e
    BY <2>6, <2>7, SeqEqual
  <2>. QED BY <2>2, <2>6, <2>8
<1>. QED BY <1>1, <1>7, <1>8, <1>9, <1>11, <1>12

-----------------------------------------------------------------------------
(* The stream.                                                               *)

LEMMA Singleton ==
  ASSUME NEW S, NEW e \in S
  PROVE  <<e>> \in Seq(S) /\ Len(<<e>>) = 1 /\ <<e>>[1] = e
OBVIOUS

LEMMA PrefixType ==
  ASSUME NEW S, NEW s \in Seq(S), NEW k \in 0..Len(s)
  PROVE  SubSeq(s, 1, k) \in Seq(S) /\ Len(SubSeq(s, 1, k)) = k
<1>1. Len(s) \in Nat
  BY LenProperties
<1>2. 1 \in Int /\ k \in Int /\ \A i \in 1..k : i \in 1..Len(s)
  BY <1>1
<1>3. \A i \in 1..k : s[i] \in S
  BY <1>2, ElementOfSeq
<1>4. (IF 1 <= k THEN k - 1 + 1 ELSE 0) = k
  BY <1>1
<1>. QED BY <1>2, <1>3, <1>4, SubSeqProperties

Packed(d, p) == Content(Image(d, p))

\* Where the k-th packet ends, and the next one begins.
Place(en, k) == IF k = 0 THEN 0 ELSE en[k]

\* The packets lie one behind the other in the stream, each as it was written.
Streamed(d, st, se, en) ==
  /\ st \in Seq(Byte) /\ se \in Seq(Messages[d]) /\ en \in Seq(Nat)
  /\ Len(en) = Len(se)
  /\ Len(st) = Place(en, Len(se))
  /\ \A k \in 0..Len(se) : Place(en, k) \in 0..Len(st)
  /\ \A i, j \in 0..Len(se) : i < j => Place(en, i) < Place(en, j)
  /\ \A i \in 1..Len(se) :
       /\ Place(en, i) = Place(en, i - 1) + Len(Packed(d, se[i]))
       /\ \A j \in 1..Len(Packed(d, se[i])) : st[Place(en, i - 1) + j] = Packed(d, se[i])[j]

LEMMA MessagesFit ==
  ASSUME NEW d \in Directions, NEW p \in Messages[d]
  PROVE  WellFormed(d, p)
BY WireAssumption

LEMMA PackedIs ==
  ASSUME NEW d \in Directions, NEW p \in Messages[d]
  PROVE  /\ Packed(d, p) \in Seq(Byte) /\ Len(Packed(d, p)) \in Nat
         /\ Len(Packed(d, p)) = Image(d, p).used
         /\ 3 <= Len(Packed(d, p)) /\ Len(Packed(d, p)) < SizeOf(d)
         /\ Packed(d, p)[1] = p.opcode
         /\ Packed(d, p)[2] = ShortBytes(Len(Packed(d, p)) - Header)[1]
         /\ Packed(d, p)[3] = ShortBytes(Len(Packed(d, p)) - Header)[2]
<1>1. WellFormed(d, p) /\ Header = 3
  BY MessagesFit DEF Header
<1>2. PICK im : im = Image(d, p)
  OBVIOUS
<1>3. /\ im.used \in Nat /\ Header <= im.used /\ im.used < SizeOf(d)
      /\ Content(im) \in Seq(Byte) /\ Len(Content(im)) = im.used
      /\ Content(im)[1] = p.opcode
      /\ Content(im)[2] = ShortBytes(im.used - Header)[1]
      /\ Content(im)[3] = ShortBytes(im.used - Header)[2]
  BY <1>1, <1>2, ImageIs
<1>4. Packed(d, p) = Content(im)
  BY <1>2 DEF Packed
<1>. QED BY <1>1, <1>2, <1>3, <1>4, Zenon

\* One more packet.
LEMMA StreamGrows ==
  ASSUME NEW d \in Directions, NEW st, NEW se, NEW en, Streamed(d, st, se, en),
         NEW p \in Messages[d], NEW at, at = Place(en, Len(se)) + Len(Packed(d, p))
  PROVE  Streamed(d, st \o Packed(d, p), Append(se, p), Append(en, at))
<1>1. /\ st \in Seq(Byte) /\ se \in Seq(Messages[d]) /\ en \in Seq(Nat)
      /\ Len(en) = Len(se) /\ Len(st) = Place(en, Len(se))
      /\ \A k \in 0..Len(se) : Place(en, k) \in 0..Len(st)
      /\ \A i, j \in 0..Len(se) : i < j => Place(en, i) < Place(en, j)
  BY DEF Streamed
<1>2. ASSUME NEW i \in 1..Len(se)
      PROVE  /\ Place(en, i) = Place(en, i - 1) + Len(Packed(d, se[i]))
             /\ \A j \in 1..Len(Packed(d, se[i])) :
                  st[Place(en, i - 1) + j] = Packed(d, se[i])[j]
  BY DEF Streamed
<1>3. PICK n \in Nat : n = Len(se) /\ n = Len(en)
  BY <1>1, LenProperties
<1>4. PICK m \in Nat : m = Len(st) /\ m = Place(en, n)
  BY <1>1, <1>3, LenProperties
<1>5. PICK data \in Seq(Byte) : data = Packed(d, p) /\ Len(data) \in Nat /\ 3 <= Len(data)
  BY PackedIs
<1>6. at \in Nat /\ at = m + Len(data)
  BY <1>3, <1>4, <1>5
<1>7. PICK st2 : st2 = st \o data
  OBVIOUS
<1>8. /\ st2 \in Seq(Byte) /\ Len(st2) = at
      /\ \A i \in 1..m : st2[i] = st[i]
      /\ \A i \in 1..Len(data) : st2[m + i] = data[i]
  <2>1. /\ st2 \in Seq(Byte) /\ Len(st2) = m + Len(data)
        /\ \A i \in 1 .. m + Len(data) : st2[i] = IF i <= m THEN st[i] ELSE data[i - m]
    BY <1>1, <1>4, <1>7, ConcatProperties
  <2>2. \A i \in 1..m : st2[i] = st[i]
    BY <1>5, <2>1
  <2>3. ASSUME NEW i \in 1..Len(data)
        PROVE  st2[m + i] = data[i]
    <3>1. m + i \in 1 .. m + Len(data) /\ ~(m + i <= m) /\ (m + i) - m = i
      BY <1>5
    <3>. QED BY <2>1, <3>1
  <2>. QED BY <1>6, <2>1, <2>2, <2>3
<1>9. PICK se2 : se2 = Append(se, p)
  OBVIOUS
<1>10. /\ se2 \in Seq(Messages[d]) /\ Len(se2) = n + 1
       /\ \A i \in 1..n : se2[i] = se[i]
       /\ se2[n + 1] = p
  BY <1>1, <1>3, <1>9, AppendProperties
<1>11. PICK en2 : en2 = Append(en, at)
  OBVIOUS
<1>12. /\ en2 \in Seq(Nat) /\ Len(en2) = n + 1
       /\ \A i \in 1..n : en2[i] = en[i]
       /\ en2[n + 1] = at
  BY <1>1, <1>3, <1>6, <1>11, AppendProperties
<1>13. (\A k \in 0..n : Place(en2, k) = Place(en, k)) /\ Place(en2, n + 1) = at
  <2>1. \A k \in 0..n : k # 0 => k \in 1..n
    OBVIOUS
  <2>. QED BY <1>12, <2>1 DEF Place
<1>14. \A k \in 0..n : Place(en, k) \in 0..m
  BY <1>1, <1>3, <1>4
<1>15. ASSUME NEW k \in 0..n + 1
       PROVE  Place(en2, k) \in 0..Len(st2)
  <2>1. k \in 0..n \/ k = n + 1
    OBVIOUS
  <2>2. Place(en2, k) \in 0..m \/ Place(en2, k) = at
    BY <1>13, <1>14, <2>1
  <2>. QED BY <1>5, <1>6, <1>8, <2>2
<1>16. ASSUME NEW i \in 0..n + 1, NEW j \in 0..n + 1, i < j
       PROVE  Place(en2, i) < Place(en2, j)
  <2>1. i \in 0..n /\ (j \in 0..n \/ j = n + 1)
    BY <1>16
  <2>2. CASE j \in 0..n
    <3>1. Place(en, i) < Place(en, j)
      BY <1>1, <1>3, <1>16, <2>1, <2>2
    <3>. QED BY <1>13, <2>1, <2>2, <3>1
  <2>3. CASE j = n + 1
    <3>1. Place(en2, i) \in 0..m /\ Place(en2, j) = at
      BY <1>13, <1>14, <2>1, <2>3
    <3>. QED BY <1>5, <1>6, <3>1
  <2>. QED BY <2>1, <2>2, <2>3
<1>17. ASSUME NEW i \in 1..n + 1
       PROVE  /\ Place(en2, i) = Place(en2, i - 1) + Len(Packed(d, se2[i]))
              /\ \A j \in 1..Len(Packed(d, se2[i])) :
                   st2[Place(en2, i - 1) + j] = Packed(d, se2[i])[j]
  <2>1. CASE i \in 1..n
    <3>1. /\ Place(en, i) = Place(en, i - 1) + Len(Packed(d, se[i]))
          /\ \A j \in 1..Len(Packed(d, se[i])) :
               st[Place(en, i - 1) + j] = Packed(d, se[i])[j]
      BY <1>2, <1>3, <2>1
    <3>2. /\ i \in 0..n /\ i - 1 \in 0..n
          /\ Place(en2, i) = Place(en, i) /\ Place(en2, i - 1) = Place(en, i - 1)
          /\ se2[i] = se[i]
      BY <1>10, <1>13, <2>1
    <3>3. Place(en, i) \in 0..m /\ Place(en, i - 1) \in 0..m
      BY <1>14, <3>2
    <3>4. Len(Packed(d, se[i])) \in Nat
      <4>1. se[i] \in Messages[d]
        BY <1>1, <1>3, <2>1, ElementOfSeq
      <4>. QED BY <4>1, PackedIs
    <3>5. \A j \in 1..Len(Packed(d, se[i])) : Place(en, i - 1) + j \in 1..m
      BY <3>1, <3>3, <3>4
    <3>. QED BY <1>8, <3>1, <3>2, <3>5
  <2>2. CASE i = n + 1
    <3>1. i - 1 = n /\ n \in 0..n /\ se2[i] = p
      BY <1>10, <2>2
    <3>2. Place(en2, i - 1) = m /\ Place(en2, i) = at
      BY <1>4, <1>13, <2>2, <3>1
    <3>. QED BY <1>5, <1>6, <1>8, <3>1, <3>2
  <2>. QED BY <2>1, <2>2
<1>18. Streamed(d, st2, se2, en2)
  <2>1. Len(st2) = Place(en2, Len(se2)) /\ Len(en2) = Len(se2)
    BY <1>8, <1>10, <1>12, <1>13
  <2>. QED BY <1>8, <1>10, <1>12, <1>15, <1>16, <1>17, <2>1 DEF Streamed
<1>. QED BY <1>5, <1>7, <1>9, <1>11, <1>18

-----------------------------------------------------------------------------
(* The senders.                                                              *)

\* Concatenation as a symbol, for the provers to rewrite with.
Cat(s, t) == s \o t

LEMMA CatAssociative ==
  ASSUME NEW S, NEW s \in Seq(S), NEW t \in Seq(S), NEW u \in Seq(S)
  PROVE  Cat(Cat(s, t), u) = Cat(s, Cat(t, u))
<1>1. (s \o t) \o u = s \o (t \o u)
  BY ConcatAssociative, SMTT(60)
<1>. QED BY <1>1, Zenon DEF Cat

LEMMA ContentGrows ==
  ASSUME NEW size \in Nat, NEW b \in Buffer(size), NEW data \in Seq(Byte),
         b.used + Len(data) <= size
  PROVE  Content(Receive(b, data)) = Content(b) \o data
<1>1. PICK r \in Buffer(size) : /\ r = Receive(b, data)
                                /\ r.used = b.used + Len(data)
                                /\ \A i \in 1..b.used : r.bytes[i] = b.bytes[i]
                                /\ \A i \in 1..Len(data) : r.bytes[b.used + i] = data[i]
  BY ReceiveIs
<1>2. b.used \in Nat /\ Len(data) \in Nat
  BY BufferParts, LenProperties
<1>3. PICK c \in Seq(Byte) : /\ c = Content(b) /\ Len(c) = b.used
                             /\ \A i \in 1..b.used : c[i] = b.bytes[i]
  BY ContentIs
<1>4. PICK t \in Seq(Byte) : /\ t = Content(r) /\ Len(t) = r.used
                             /\ \A i \in 1..r.used : t[i] = r.bytes[i]
  BY ContentIs
<1>5. PICK u \in Seq(Byte) : /\ u = c \o data /\ Len(u) = b.used + Len(data)
                             /\ \A i \in 1 .. b.used + Len(data) :
                                  u[i] = IF i <= b.used THEN c[i] ELSE data[i - b.used]
  <2>1. /\ c \o data \in Seq(Byte) /\ Len(c \o data) = Len(c) + Len(data)
        /\ \A i \in 1 .. Len(c) + Len(data) :
             (c \o data)[i] = IF i <= Len(c) THEN c[i] ELSE data[i - Len(c)]
    BY ConcatProperties
  <2>2. Len(c) = b.used
    BY <1>3, Zenon
  <2>. QED BY <2>1, <2>2
<1>6. Len(t) = Len(u)
  BY <1>1, <1>4, <1>5
<1>7. ASSUME NEW i \in 1..Len(t)
      PROVE  t[i] = u[i]
  <2>1. i \in 1 .. b.used + Len(data) /\ t[i] = r.bytes[i]
    BY <1>1, <1>4
  <2>2. CASE i <= b.used
    <3>1. i \in 1..b.used
      BY <1>2, <2>1, <2>2
    <3>. QED BY <1>1, <1>3, <1>5, <2>1, <2>2, <3>1
  <2>3. CASE ~(i <= b.used)
    <3>1. i - b.used \in 1..Len(data) /\ b.used + (i - b.used) = i
      BY <1>2, <2>1, <2>3
    <3>2. r.bytes[b.used + (i - b.used)] = data[i - b.used]
      BY <1>1, <3>1
    <3>. QED BY <1>5, <2>1, <2>3, <3>1, <3>2
  <2>. QED BY <2>2, <2>3
<1>8. t = u
  BY <1>6, <1>7, SeqEqual
<1>. QED BY <1>1, <1>3, <1>4, <1>5, <1>8

\* What a selector has collected.
Acc == [out : Seq(Byte), buf : Buffer(BufferSize)]

Collected(acc) == acc.out \o Content(acc.buf)

LEMMA CollectIs ==
  ASSUME dir \in Directions, NEW acc \in Acc, NEW p \in Messages[dir]
  PROVE  /\ Collect(acc, p) \in Acc
         /\ Collected(Collect(acc, p)) = Collected(acc) \o Packed(dir, p)
<1>1. BufferSize \in Nat /\ SizeOf(dir) \in Nat /\ SizeOf(dir) <= BufferSize
  BY SizeIs
<1>2. acc.out \in Seq(Byte) /\ acc.buf \in Buffer(BufferSize)
  BY DEF Acc
<1>3. PICK data \in Seq(Byte) : /\ data = Packed(dir, p) /\ Len(data) \in Nat
                                /\ Len(data) = Image(dir, p).used /\ Len(data) < SizeOf(dir)
  BY PackedIs
<1>4. PICK one : one = OnePacket(p) /\ one = Image(dir, p) /\ Content(one) = data /\ one.used = Len(data)
  BY <1>3 DEF OnePacket, Image, SizeOf, Packed
<1>5. PICK c \in Seq(Byte) : c = Content(acc.buf)
  BY <1>1, <1>2, ContentIs
<1>6. PICK b \in Buffer(BufferSize) : b = acc.buf /\ b.used \in Nat /\ Size(b) = BufferSize
  BY <1>1, <1>2, BufferParts
<1>7. Fits(acc.buf, one.used) <=> b.used + Len(data) < BufferSize
  BY <1>1, <1>3, <1>4, <1>6 DEF Fits
<1>8. CASE b.used + Len(data) < BufferSize
  <2>1. Write(b, data) = Receive(b, data) /\ Write(b, data) \in Buffer(BufferSize)
    BY <1>1, <1>8, WriteIs
  <2>2. b.used + Len(data) <= BufferSize
    BY <1>1, <1>3, <1>6, <1>8
  <2>3. Content(Write(b, data)) = c \o data
    BY <1>1, <1>5, <1>6, <2>1, <2>2, ContentGrows
  <2>4. PICK new \in Buffer(BufferSize) : new = Write(b, data)
    BY <2>1
  <2>5. Collect(acc, p) = [acc EXCEPT !.buf = new]
    BY <1>4, <1>6, <1>7, <1>8, <2>4 DEF Collect, AppendContent
  <2>6. /\ Collect(acc, p) \in Acc
        /\ Collect(acc, p).out = acc.out /\ Collect(acc, p).buf = new
    BY <1>2, <2>5 DEF Acc
  <2>7. acc.out \o (c \o data) = (acc.out \o c) \o data
    <3>1. PICK out \in Seq(Byte) : out = acc.out
      BY <1>2
    <3>2. (out \o c) \o data = out \o (c \o data)
      <4>1. Cat(Cat(out, c), data) = Cat(out, Cat(c, data))
        BY CatAssociative
      <4>. QED BY <4>1, Zenon DEF Cat
    <3>. QED BY <3>1, <3>2, Zenon
  <2>. QED BY <1>3, <1>5, <2>3, <2>4, <2>6, <2>7, Zenon DEF Collected
<1>9. CASE ~(b.used + Len(data) < BufferSize)
  <2>1. PICK none \in Buffer(BufferSize) : none = Reset(acc.buf) /\ none.used = 0
    <3>1. Reset(acc.buf) = NewBuffer(BufferSize) /\ Reset(acc.buf) \in Buffer(BufferSize)
      BY <1>1, <1>2, ResetIs
    <3>. QED BY <3>1 DEF NewBuffer
  <2>2. none.used + Len(data) < BufferSize /\ none.used + Len(data) <= BufferSize
    BY <1>1, <1>3, <2>1
  <2>3. Write(none, data) = Receive(none, data) /\ Write(none, data) \in Buffer(BufferSize)
    BY <1>1, <2>2, WriteIs
  <2>4. Content(none) = <<>>
    <3>1. Content(none) \in Seq(Byte) /\ Len(Content(none)) = 0
      BY <1>1, <2>1, ContentIs
    <3>. QED BY <3>1, EmptySeq
  <2>5. Content(Write(none, data)) = data
    <3>1. Content(Receive(none, data)) = Content(none) \o data
      BY <1>1, <2>2, ContentGrows
    <3>2. <<>> \o data = data
      BY ConcatEmptySeq
    <3>. QED BY <2>3, <2>4, <3>1, <3>2, Zenon
  <2>6. PICK new \in Buffer(BufferSize) : new = Write(none, data)
    BY <2>3
  <2>7. acc.out \o c \in Seq(Byte)
    BY <1>2, ConcatProperties
  <2>8. Collect(acc, p) = [out |-> acc.out \o c, buf |-> new]
    BY <1>4, <1>5, <1>7, <1>9, <2>1, <2>6, Zenon DEF Collect, AppendContent
  <2>9. /\ Collect(acc, p) \in Acc
        /\ Collect(acc, p).out = acc.out \o c /\ Collect(acc, p).buf = new
    BY <2>7, <2>8 DEF Acc
  <2>. QED BY <1>3, <1>5, <2>5, <2>6, <2>9, Zenon DEF Collected
<1>. QED BY <1>8, <1>9

\* writeToConnection, packet by packet.
LEMMA CollectSteps ==
  ASSUME dir \in Directions, NEW q \in Seq(Messages[dir]), NEW base \in Acc
  PROVE  \E f \in [0..Len(q) -> Acc] :
           /\ f[0] = base /\ f[Len(q)] = FoldLeft(Collect, base, q)
           /\ \A k \in 1..Len(q) : f[k] = Collect(f[k - 1], q[k])
<1> DEFINE n == Len(q)
           G == [x \in (1..n) \X Acc |-> Collect(x[2], q[x[1]])]
           IsIt(it) == it = [u \in SUBSET (DOMAIN q) |->
                               IF u = {} THEN base ELSE Collect(it[u \ {Max(u)}], q[Max(u)])]
           iter == CHOOSE it : IsIt(it)
<1>1. n \in Nat /\ DOMAIN q = 1..n /\ \A i \in 1..n : q[i] \in Messages[dir]
  BY LenProperties, ElementOfSeq
<1>2. FoldLeft(Collect, base, q) = iter[DOMAIN q]
  BY DEF FoldLeft, MapThenFoldSet
<1> HIDE DEF n
<1>3. G \in [(1..n) \X Acc -> Acc]
  <2>1. \A x \in (1..n) \X Acc : Collect(x[2], q[x[1]]) \in Acc
    BY <1>1, CollectIs
  <2>. QED BY <2>1
<1>4. PICK it \in [SUBSET (1..n) -> Acc] : IsFold(it, n, base, G)
  <2> HIDE DEF G
  <2>. QED BY <1>1, <1>3, FoldExists
<1>5. IsIt(it)
  <2>1. ASSUME NEW u \in SUBSET (1..n), u # {}
        PROVE  G[<<Max(u), it[u \ {Max(u)}]>>] = Collect(it[u \ {Max(u)}], q[Max(u)])
    <3>1. Max(u) \in 1..n /\ it[u \ {Max(u)}] \in Acc
      BY <1>1, <2>1, MaxOf
    <3>. QED BY <3>1
  <2>. QED BY <1>1, <1>4, <2>1 DEF IsFold
<1>6. IsIt(iter)
  <2> HIDE DEF IsIt
  <2>. QED BY <1>5
<1> HIDE DEF iter
<1>7. iter[{}] = base
  BY <1>1, <1>6
<1>8. ASSUME NEW u \in SUBSET (1..n), u # {}, iter[u \ {Max(u)}] \in Acc
      PROVE  iter[u] = G[<<Max(u), iter[u \ {Max(u)}]>>]
  <2>1. Max(u) \in 1..n
    BY <1>1, <1>8, MaxOf
  <2>2. iter[u] = Collect(iter[u \ {Max(u)}], q[Max(u)])
    BY <1>1, <1>6, <1>8
  <2>. QED BY <1>8, <2>1, <2>2
<1>9. PICK f \in [0..n -> Acc] : f[n] = iter[1..n] /\ IsChain(f, n, base, G)
  <2>1. IsFoldIn(iter, n, base, G, Acc)
    <3> HIDE DEF G
    <3>. QED BY <1>7, <1>8 DEF IsFoldIn
  <2> HIDE DEF G
  <2>. QED BY <1>1, <1>3, <2>1, Iterated
<1>10. f[0] = base /\ \A k \in 1..n : f[k] = G[<<k, f[k - 1]>>]
  BY <1>9 DEF IsChain
<1>11. ASSUME NEW k \in 1..n
       PROVE  f[k] = Collect(f[k - 1], q[k])
  <2>1. k - 1 \in 0..n /\ f[k - 1] \in Acc
    BY <1>1
  <2>. QED BY <1>10, <2>1
<1>. QED BY <1>1, <1>2, <1>9, <1>10, <1>11 DEF n

\* The history of ends, packet by packet.
LEMMA NoteSteps ==
  ASSUME dir \in Directions, ends \in Seq(Nat), NEW q \in Seq(Messages[dir]), Note(q)
  PROVE  \E f \in [0..Len(q) -> Seq(Nat)] :
           /\ f[0] = ends /\ f[Len(q)] = ends'
           /\ \A k \in 1..Len(q) :
                f[k] = Append(f[k - 1], Place(f[k - 1], Len(f[k - 1])) + Len(Packed(dir, q[k])))
<1> DEFINE n == Len(q)
           T == Seq(Nat)
           EndAfter(e, p) == Append(e, OnePacket(p).used + IF e = <<>> THEN 0 ELSE Last(e))
           G == [x \in (1..n) \X T |-> EndAfter(x[2], q[x[1]])]
           IsIt(it) == it = [u \in SUBSET (DOMAIN q) |->
                               IF u = {} THEN ends ELSE EndAfter(it[u \ {Max(u)}], q[Max(u)])]
           iter == CHOOSE it : IsIt(it)
<1>1. n \in Nat /\ DOMAIN q = 1..n /\ \A i \in 1..n : q[i] \in Messages[dir]
  BY LenProperties, ElementOfSeq
<1>2. ends' = iter[DOMAIN q]
  BY DEF Note, FoldLeft, MapThenFoldSet
<1> HIDE DEF n
<1>3. ASSUME NEW e \in T, NEW p \in Messages[dir]
      PROVE  /\ EndAfter(e, p) = Append(e, Place(e, Len(e)) + Len(Packed(dir, p)))
             /\ EndAfter(e, p) \in T
  <2>1. PICK used \in Nat : used = OnePacket(p).used /\ used = Len(Packed(dir, p))
    <3>1. OnePacket(p) = Image(dir, p)
      BY DEF OnePacket, Image, SizeOf
    <3>. QED BY <3>1, PackedIs
  <2>2. PICK at \in Nat : at = (IF e = <<>> THEN 0 ELSE Last(e)) /\ at = Place(e, Len(e))
    <3>1. Len(e) \in Nat /\ (e # <<>> => Len(e) # 0 /\ Len(e) \in 1..Len(e)) /\ (e = <<>> => Len(e) = 0)
      BY EmptySeq
    <3>2. e # <<>> => e[Len(e)] \in Nat
      BY <3>1, ElementOfSeq
    <3>. QED BY <3>1, <3>2 DEF Place, Last
  <2>3. used + at = at + used /\ at + used \in Nat
    OBVIOUS
  <2>4. EndAfter(e, p) = Append(e, at + used)
    BY <2>1, <2>2, <2>3, Zenon
  <2>5. Append(e, at + used) \in T
    BY <2>3, AppendProperties
  <2>. QED BY <2>1, <2>2, <2>4, <2>5, Zenon
<1> HIDE DEF EndAfter, T
<1>4. G \in [(1..n) \X T -> T]
  <2>1. \A x \in (1..n) \X T : EndAfter(x[2], q[x[1]]) \in T
    BY <1>1, <1>3
  <2>. QED BY <2>1
<1>5. ends \in T
  BY DEF T
<1>6. PICK it \in [SUBSET (1..n) -> T] : IsFold(it, n, ends, G)
  <2> HIDE DEF G
  <2>. QED BY <1>1, <1>4, <1>5, FoldExists
<1>7. IsIt(it)
  <2>1. ASSUME NEW u \in SUBSET (1..n), u # {}
        PROVE  G[<<Max(u), it[u \ {Max(u)}]>>] = EndAfter(it[u \ {Max(u)}], q[Max(u)])
    <3>1. Max(u) \in 1..n /\ it[u \ {Max(u)}] \in T
      BY <1>1, <2>1, MaxOf
    <3>. QED BY <3>1
  <2>. QED BY <1>1, <1>6, <2>1 DEF IsFold
<1>8. IsIt(iter)
  <2> HIDE DEF IsIt
  <2>. QED BY <1>7
<1> HIDE DEF iter
<1>9. iter[{}] = ends
  BY <1>1, <1>8
<1>10. ASSUME NEW u \in SUBSET (1..n), u # {}, iter[u \ {Max(u)}] \in T
       PROVE  iter[u] = G[<<Max(u), iter[u \ {Max(u)}]>>]
  <2>1. Max(u) \in 1..n
    BY <1>1, <1>10, MaxOf
  <2>2. iter[u] = EndAfter(iter[u \ {Max(u)}], q[Max(u)])
    BY <1>1, <1>8, <1>10
  <2>. QED BY <1>10, <2>1, <2>2
<1>11. PICK f \in [0..n -> T] : f[n] = iter[1..n] /\ IsChain(f, n, ends, G)
  <2>1. IsFoldIn(iter, n, ends, G, T)
    <3> HIDE DEF G
    <3>. QED BY <1>9, <1>10 DEF IsFoldIn
  <2> HIDE DEF G
  <2>. QED BY <1>1, <1>4, <1>5, <2>1, Iterated
<1>12. f[0] = ends /\ \A k \in 1..n : f[k] = G[<<k, f[k - 1]>>]
  BY <1>11 DEF IsChain
<1>13. ASSUME NEW k \in 1..n
       PROVE  f[k] = Append(f[k - 1], Place(f[k - 1], Len(f[k - 1])) + Len(Packed(dir, q[k])))
  <2>1. k - 1 \in 0..n /\ f[k - 1] \in T /\ q[k] \in Messages[dir]
    BY <1>1
  <2>2. f[k] = EndAfter(f[k - 1], q[k])
    BY <1>12, <2>1
  <2>. QED BY <1>3, <2>1, <2>2, Zenon
<1>. QED BY <1>1, <1>2, <1>11, <1>12, <1>13 DEF n, T

\* All that is queued, sent as the write buffer allows.
LEMMA SelectorStream ==
  ASSUME dir \in Directions, Streamed(dir, stream, sent, ends), queue \in Seq(Messages[dir]),
         SelectorSends
  PROVE  Streamed(dir, stream', sent', ends')
<1>1. PICK q \in Seq(Messages[dir]) : q = queue
  OBVIOUS
<1>2. PICK n \in Nat : n = Len(q) /\ n \in 0..n
  BY LenProperties
<1>3. PICK base : base = [out |-> <<>>, buf |-> NewBuffer(BufferSize)]
  OBVIOUS
<1>4. PICK all : all = FoldLeft(Collect, base, q)
  OBVIOUS
<1>5. stream' = (stream \o all.out) \o Content(all.buf) /\ Note(q) /\ sent' = sent \o q
  BY <1>1, <1>3, <1>4, Zenon DEF SelectorSends, Note
<1>6. /\ stream \in Seq(Byte) /\ sent \in Seq(Messages[dir]) /\ ends \in Seq(Nat)
      /\ Len(ends) = Len(sent)
  BY DEF Streamed
<1>7. BufferSize \in Nat
  BY SizeIs
<1>8. NewBuffer(BufferSize) \in Buffer(BufferSize)
  BY <1>7, NewBufferType
<1>9. base \in Acc
  <2>1. <<>> \in Seq(Byte)
    BY EmptySeq
  <2>. QED BY <1>3, <1>8, <2>1 DEF Acc
<1>10. Collected(base) = <<>>
  <2>1. Content(NewBuffer(BufferSize)) \in Seq(Byte) /\ Len(Content(NewBuffer(BufferSize))) = 0
    BY <1>7, <1>8, ContentIs DEF NewBuffer
  <2>2. Content(NewBuffer(BufferSize)) = <<>> /\ <<>> \in Seq(Byte)
    BY <2>1, EmptySeq
  <2>3. base.out = <<>> /\ base.buf = NewBuffer(BufferSize)
    BY <1>3
  <2>4. <<>> \o <<>> = <<>>
    BY <2>2, ConcatEmptySeq
  <2>. QED BY <2>2, <2>3, <2>4, Zenon DEF Collected
<1>11. PICK f \in [0..n -> Acc] :
              /\ f[0] = base /\ f[n] = all
              /\ \A k \in 1..n : f[k] = Collect(f[k - 1], q[k])
  BY <1>2, <1>4, <1>9, CollectSteps
<1>12. PICK g \in [0..n -> Seq(Nat)] :
              /\ g[0] = ends /\ g[n] = ends'
              /\ \A k \in 1..n :
                   g[k] = Append(g[k - 1], Place(g[k - 1], Len(g[k - 1])) + Len(Packed(dir, q[k])))
  BY <1>2, <1>5, <1>6, NoteSteps
<1> DEFINE S == {k \in Nat : k <= n =>
                   Streamed(dir, stream \o Collected(f[k]), sent \o SubSeq(q, 1, k), g[k])}
<1>13. 0 \in S
  <2>1. SubSeq(q, 1, 0) = <<>>
    BY SubSeqEmpty
  <2>2. stream \o <<>> = stream /\ sent \o <<>> = sent
    BY <1>6, ConcatEmptySeq
  <2>3. Streamed(dir, stream \o Collected(f[0]), sent \o SubSeq(q, 1, 0), g[0])
    BY <1>10, <1>11, <1>12, <2>1, <2>2, Zenon
  <2>. QED BY <2>3
<1>14. ASSUME NEW k \in S
       PROVE  k + 1 \in S
  <2>1. k \in Nat /\ k + 1 \in Nat
    OBVIOUS
  <2> SUFFICES ASSUME k + 1 <= n
               PROVE  Streamed(dir, stream \o Collected(f[k + 1]),
                               sent \o SubSeq(q, 1, k + 1), g[k + 1])
    BY <2>1
  <2>2. PICK m \in 1..n : m = k + 1 /\ m - 1 = k /\ k \in 0..n
    BY <2>1
  <2>3. Streamed(dir, stream \o Collected(f[k]), sent \o SubSeq(q, 1, k), g[k])
    BY <2>1
  <2>4. PICK p \in Messages[dir] : p = q[m]
    BY <1>2, ElementOfSeq
  <2>5. PICK data \in Seq(Byte) : data = Packed(dir, p)
    BY PackedIs
  <2>6. PICK c \in Seq(Byte) : c = Collected(f[k])
    <3>1. f[k].out \in Seq(Byte) /\ f[k].buf \in Buffer(BufferSize)
      BY <1>11, <2>2 DEF Acc
    <3>2. Content(f[k].buf) \in Seq(Byte)
      BY <1>7, <3>1, ContentIs
    <3>3. f[k].out \o Content(f[k].buf) \in Seq(Byte)
      BY <3>1, <3>2, ConcatProperties
    <3>. QED BY <3>3 DEF Collected
  <2>7. Collected(f[m]) = c \o data
    <3>1. f[k] \in Acc /\ f[m] = Collect(f[k], p)
      BY <1>11, <2>2, <2>4
    <3>2. Collected(Collect(f[k], p)) = Collected(f[k]) \o Packed(dir, p)
      BY <3>1, CollectIs
    <3>. QED BY <2>5, <2>6, <3>1, <3>2, Zenon
  <2>8. stream \o Collected(f[m]) = (stream \o c) \o data
    <3>1. PICK st \in Seq(Byte) : st = stream
      BY <1>6
    <3>2. (st \o c) \o data = st \o (c \o data)
      <4>1. Cat(Cat(st, c), data) = Cat(st, Cat(c, data))
        BY CatAssociative
      <4>. QED BY <4>1, Zenon DEF Cat
    <3>. QED BY <2>7, <3>1, <3>2, Zenon
  <2>9. PICK se \in Seq(Messages[dir]) : se = sent \o SubSeq(q, 1, k)
    BY <2>3 DEF Streamed
  <2>10. sent \o SubSeq(q, 1, m) = Append(se, p)
    <3>1. 1 \in 1..Len(q) /\ m \in 1..Len(q)
      BY <1>2, <2>2
    <3>2. SubSeq(q, 1, m) = SubSeq(q, 1, m - 1) \o <<q[m]>>
      BY <3>1, SubSeqRecursiveSecond
    <3>3. PICK pre \in Seq(Messages[dir]) : pre = SubSeq(q, 1, k)
      BY <1>2, <2>2, PrefixType
    <3>4. PICK last \in Seq(Messages[dir]) : last = <<p>>
      BY Singleton
    <3>5. (sent \o pre) \o last = sent \o (pre \o last)
      <4>1. PICK old \in Seq(Messages[dir]) : old = sent
        BY <1>6
      <4>2. (old \o pre) \o last = old \o (pre \o last)
        <5>1. Cat(Cat(old, pre), last) = Cat(old, Cat(pre, last))
          BY CatAssociative
        <5>. QED BY <5>1, Zenon DEF Cat
      <4>. QED BY <4>1, <4>2, Zenon
    <3>6. Append(se, p) = se \o <<p>>
      BY AppendIsConcat
    <3>. QED BY <2>2, <2>4, <2>9, <3>2, <3>3, <3>4, <3>5, <3>6, Zenon
  <2>11. PICK en : en = g[k] /\ Len(en) = Len(se)
    BY <2>3, <2>9 DEF Streamed
  <2>12. g[m] = Append(en, Place(en, Len(se)) + Len(Packed(dir, p)))
    BY <1>12, <2>2, <2>4, <2>11
  <2>13. PICK st : st = stream \o c /\ Streamed(dir, st, se, en)
    BY <2>3, <2>6, <2>9, <2>11, Zenon
  <2>14. Streamed(dir, st \o Packed(dir, p), Append(se, p), g[m])
    BY <2>12, <2>13, StreamGrows
  <2>. QED BY <2>2, <2>5, <2>8, <2>10, <2>13, <2>14, Zenon
<1> HIDE DEF S
<1>15. \A k \in Nat : k \in S
  <2>1. S \in SUBSET Nat
    BY DEF S
  <2>. QED BY <1>13, <1>14, <2>1, Induct
<1>16. n \in S /\ n <= n
  BY <1>2, <1>15
<1>17. Streamed(dir, stream \o Collected(all), sent \o SubSeq(q, 1, n), ends')
  BY <1>11, <1>12, <1>16 DEF S
<1>18. SubSeq(q, 1, n) = q
  BY <1>2, SubSeqFull
<1>19. stream \o Collected(all) = stream'
  <2>1. PICK a \in Seq(Byte), b \in Seq(Byte) : a = all.out /\ b = Content(all.buf)
    <3>1. all \in Acc
      BY <1>2, <1>11
    <3>2. all.out \in Seq(Byte) /\ all.buf \in Buffer(BufferSize)
      BY <3>1 DEF Acc
    <3>. QED BY <1>7, <3>2, ContentIs
  <2>2. PICK st \in Seq(Byte) : st = stream
    BY <1>6
  <2>3. (st \o a) \o b = st \o (a \o b)
    <3>1. Cat(Cat(st, a), b) = Cat(st, Cat(a, b))
      BY CatAssociative
    <3>. QED BY <3>1, Zenon DEF Cat
  <2>. QED BY <1>5, <2>1, <2>2, <2>3, Zenon DEF Collected
<1>. QED BY <1>5, <1>17, <1>18, <1>19, Zenon

\* One packet, one send.
LEMMA ClientStream ==
  ASSUME dir \in Directions, Streamed(dir, stream, sent, ends), queue \in Seq(Messages[dir]),
         ClientSends
  PROVE  Streamed(dir, stream', sent', ends')
<1>1. queue # <<>> /\ Note(<<Head(queue)>>) /\ stream' = stream \o Content(OnePacket(Head(queue)))
      /\ sent' = sent \o <<Head(queue)>>
  BY DEF ClientSends, Note
<1>2. PICK p \in Messages[dir] : p = Head(queue)
  BY <1>1, HeadTailProperties
<1>3. OnePacket(p) = Image(dir, p)
  BY DEF OnePacket, Image, SizeOf
<1>4. stream' = stream \o Packed(dir, p)
  BY <1>1, <1>2, <1>3, Zenon DEF Packed
<1>5. sent \in Seq(Messages[dir]) /\ ends \in Seq(Nat) /\ Len(ends) = Len(sent)
  BY DEF Streamed
<1>6. sent' = Append(sent, p)
  <2>1. Append(sent, p) = sent \o <<p>>
    BY <1>5, AppendIsConcat
  <2>. QED BY <1>1, <1>2, <2>1, Zenon
<1>7. PICK q \in Seq(Messages[dir]) : q = <<p>> /\ Len(q) = 1 /\ q[1] = p
  <2>1. <<p>> \in Seq(Messages[dir]) /\ Len(<<p>>) = 1 /\ <<p>>[1] = p
    BY Singleton
  <2>. QED BY <2>1
<1>8. PICK f \in [0..Len(q) -> Seq(Nat)] :
             /\ f[0] = ends /\ f[Len(q)] = ends'
             /\ \A k \in 1..Len(q) :
                  f[k] = Append(f[k - 1], Place(f[k - 1], Len(f[k - 1])) + Len(Packed(dir, q[k])))
  <2>1. Note(q)
    BY <1>1, <1>2, <1>7, Zenon
  <2>. QED BY <1>5, <2>1, NoteSteps
<1>9. ends' = Append(ends, Place(ends, Len(sent)) + Len(Packed(dir, p)))
  <2>1. 1 \in 1..Len(q) /\ 1 - 1 = 0
    BY <1>7
  <2>2. f[1] = Append(f[0], Place(f[0], Len(f[0])) + Len(Packed(dir, q[1])))
    BY <1>8, <2>1
  <2>. QED BY <1>5, <1>7, <1>8, <2>2
<1>. QED BY <1>4, <1>6, <1>9, StreamGrows

-----------------------------------------------------------------------------
(* Reading.                                                                  *)

\* A read leaves a buffer, and what it returns is bytes.
IsRead(r, size, b, n) ==
  /\ r.ok \in BOOLEAN /\ r.buf \in Buffer(size)
  /\ r.ok <=> b.read + n <= b.used
  /\ r.ok =>
       /\ r.value \in Seq(Byte) /\ Len(r.value) = n
       /\ \A i \in 1..n : r.value[i] = b.bytes[b.read + i]
       /\ r.buf = SetReadPos(b, b.read + n)

\* The places of a slice.
LEMMA SlicePlaces ==
  ASSUME NEW at \in Nat, NEW n \in Nat, NEW k \in Int, NEW m \in Int,
         k = at + 1, m = at + n
  PROVE  /\ (IF k <= m THEN m - k + 1 ELSE 0) = n /\ m - k + 1 = n
         /\ \A i \in 1..n : k + i - 1 = at + i
         /\ \A i \in k..m : i \in 1 .. at + n
  OBVIOUS

\* A slice holds the values of its places.
LEMMA SliceIs ==
  ASSUME NEW S, NEW f, NEW at \in Nat, NEW n \in Nat, \A i \in 1 .. at + n : f[i] \in S
  PROVE  /\ SubSeq(f, at + 1, at + n) \in Seq(S) /\ Len(SubSeq(f, at + 1, at + n)) = n
         /\ \A i \in 1..n : SubSeq(f, at + 1, at + n)[i] = f[at + i]
<1>1. PICK k \in Int, m \in Int : k = at + 1 /\ m = at + n
  OBVIOUS
<1>2. /\ (IF k <= m THEN m - k + 1 ELSE 0) = n /\ m - k + 1 = n
      /\ \A i \in 1..n : k + i - 1 = at + i
      /\ \A i \in k..m : i \in 1 .. at + n
  BY <1>1, SlicePlaces
<1>3. \A i \in k..m : f[i] \in S
  BY <1>2, Zenon
<1>4. /\ SubSeq(f, k, m) \in Seq(S)
      /\ Len(SubSeq(f, k, m)) = IF k <= m THEN m - k + 1 ELSE 0
      /\ \A i \in 1 .. m - k + 1 : SubSeq(f, k, m)[i] = f[k + i - 1]
  BY <1>3, SubSeqProperties
<1>5. SubSeq(f, k, m) \in Seq(S) /\ Len(SubSeq(f, k, m)) = n
  BY <1>2, <1>4, Zenon
<1>6. \A i \in 1..n : SubSeq(f, k, m)[i] = f[at + i]
  BY <1>2, <1>4, Zenon
<1>. QED BY <1>1, <1>5, <1>6, Zenon

LEMMA ReadIs ==
  ASSUME NEW size \in Nat, NEW b \in Buffer(size), NEW n \in Nat
  PROVE  IsRead(Read(b, n), size, b, n)
<1>1. /\ b.bytes \in [1..size -> Byte] /\ b.used \in Nat /\ b.used \in 0..size
      /\ b.read \in Nat /\ b.read <= b.used
  BY BufferParts
<1>2. CASE b.read + n > b.used
  <2>1. Read(b, n) = [ok |-> FALSE, value |-> <<>>, buf |-> b]
    BY <1>2 DEF Read
  <2>2. ~(b.read + n <= b.used)
    BY <1>1, <1>2
  <2>3. Read(b, n).ok = FALSE /\ Read(b, n).buf = b
    BY <2>1
  <2>. QED BY <2>2, <2>3, Zenon DEF IsRead
<1>3. CASE ~(b.read + n > b.used)
  <2>1. Read(b, n) = [ok    |-> TRUE,
                      value |-> SubSeq(b.bytes, b.read + 1, b.read + n),
                      buf   |-> SetReadPos(b, b.read + n)]
    BY <1>3, Zenon DEF Read
  <2>2. b.read + n \in 0..b.used
    BY <1>1, <1>3
  <2>3. SetReadPos(b, b.read + n) \in Buffer(size)
    BY <2>2, SetReadPosType
  <2>4. \A i \in 1 .. b.read + n : b.bytes[i] \in Byte
    BY <1>1, <1>3
  <2>5. b.read \in Nat
    BY <1>1
  <2>6. PICK v : v = SubSeq(b.bytes, b.read + 1, b.read + n)
    OBVIOUS
  <2>7. v \in Seq(Byte) /\ Len(v) = n /\ \A i \in 1..n : v[i] = b.bytes[b.read + i]
    <3>1. PICK at \in Nat : at = b.read
      BY <2>5
    <3>2. \A i \in 1 .. at + n : b.bytes[i] \in Byte
      BY <2>4, <3>1, Zenon
    <3>3. /\ SubSeq(b.bytes, at + 1, at + n) \in Seq(Byte) /\ Len(SubSeq(b.bytes, at + 1, at + n)) = n
          /\ \A i \in 1..n : SubSeq(b.bytes, at + 1, at + n)[i] = b.bytes[at + i]
      BY <3>2, SliceIs
    <3>. QED BY <2>6, <3>1, <3>3, Zenon
  <2>8. /\ Read(b, n).ok = TRUE /\ Read(b, n).value = v
        /\ Read(b, n).buf = SetReadPos(b, b.read + n)
    <3>1. PICK c : c = SetReadPos(b, b.read + n)
      OBVIOUS
    <3>2. Read(b, n) = [ok |-> TRUE, value |-> v, buf |-> c]
      BY <2>1, <2>6, <3>1, Zenon
    <3>. QED BY <3>1, <3>2
  <2>9. b.read + n <= b.used
    BY <1>1, <1>3
  <2>. QED BY <2>3, <2>7, <2>8, <2>9, Zenon DEF IsRead
<1>. QED BY <1>2, <1>3

\* The bytes that come next in a buffer.
Lies(b, data) ==
  /\ b.read + Len(data) <= b.used
  /\ \A i \in 1..Len(data) : b.bytes[b.read + i] = data[i]

Got(b, value, n) == [ok |-> TRUE, value |-> value, buf |-> SetReadPos(b, b.read + n)]

LEMMA ReadGets ==
  ASSUME NEW size \in Nat, NEW b \in Buffer(size), NEW data \in Seq(Byte), Lies(b, data)
  PROVE  Read(b, Len(data)) = Got(b, data, Len(data))
<1>1. Len(data) \in Nat
  BY LenProperties
<1>2. PICK n \in Nat : n = Len(data)
  BY <1>1
<1>3. b.read + n <= b.used /\ \A i \in 1..n : b.bytes[b.read + i] = data[i]
  BY <1>2 DEF Lies
<1>4. ~(b.read + n > b.used)
  BY <1>3, BufferParts
<1>5. Read(b, n) = [ok    |-> TRUE,
                    value |-> SubSeq(b.bytes, b.read + 1, b.read + n),
                    buf   |-> SetReadPos(b, b.read + n)]
  BY <1>4, Zenon DEF Read
<1>6. PICK v \in Seq(Byte) : /\ v = Read(b, n).value /\ Len(v) = n
                             /\ \A i \in 1..n : v[i] = b.bytes[b.read + i]
  <2>1. IsRead(Read(b, n), size, b, n)
    BY ReadIs
  <2>. QED BY <1>3, <2>1, Zenon DEF IsRead
<1>7. v = data
  <2>1. Len(v) = Len(data) /\ \A i \in 1..Len(v) : v[i] = data[i]
    BY <1>2, <1>3, <1>6
  <2>. QED BY <2>1, SeqEqual
<1>8. Read(b, n).value = SubSeq(b.bytes, b.read + 1, b.read + n)
  <2>1. PICK u : u = SubSeq(b.bytes, b.read + 1, b.read + n)
    OBVIOUS
  <2>2. PICK c : c = SetReadPos(b, b.read + n)
    OBVIOUS
  <2>3. Read(b, n) = [ok |-> TRUE, value |-> u, buf |-> c]
    BY <1>5, <2>1, <2>2, Zenon
  <2>4. Read(b, n).value = u
    BY <2>3
  <2>. QED BY <2>1, <2>4
<1>. QED BY <1>2, <1>5, <1>6, <1>7, <1>8, Zenon DEF Got

\* After it comes what comes after.
LEMMA LiesOn ==
  ASSUME NEW size \in Nat, NEW b \in Buffer(size), NEW s \in Seq(Byte), NEW t \in Seq(Byte),
         Lies(b, s \o t)
  PROVE  /\ Lies(b, s)
         /\ SetReadPos(b, b.read + Len(s)) \in Buffer(size)
         /\ SetReadPos(b, b.read + Len(s)).read = b.read + Len(s)
         /\ Lies(SetReadPos(b, b.read + Len(s)), t)
<1>1. PICK m \in Nat, n \in Nat : m = Len(s) /\ n = Len(t)
  BY LenProperties
<1>2. /\ Len(s \o t) = m + n
      /\ \A i \in 1 .. m + n : (s \o t)[i] = IF i <= m THEN s[i] ELSE t[i - m]
  BY <1>1, ConcatProperties
<1>3. /\ b.read + (m + n) <= b.used
      /\ \A i \in 1 .. m + n : b.bytes[b.read + i] = (s \o t)[i]
  BY <1>2 DEF Lies
<1>4. b.read \in Nat /\ b.used \in Nat
  BY BufferParts
<1>5. Lies(b, s)
  <2>1. b.read + m <= b.used
    BY <1>3, <1>4
  <2>2. \A i \in 1..m : b.bytes[b.read + i] = s[i]
    BY <1>2, <1>3
  <2>. QED BY <1>1, <2>1, <2>2 DEF Lies
<1>6. PICK c \in Buffer(size) : /\ c = SetReadPos(b, b.read + m)
                                /\ c.bytes = b.bytes /\ c.used = b.used /\ c.read = b.read + m
  <2>1. b.read + m \in 0..b.used
    BY <1>3, <1>4
  <2>. QED BY <2>1, SetReadPosType
<1>7. Lies(c, t)
  <2>1. c.read + n <= c.used
    BY <1>3, <1>4, <1>6
  <2>2. ASSUME NEW i \in 1..n
        PROVE  c.bytes[c.read + i] = t[i]
    <3>1. m + i \in 1 .. m + n /\ ~(m + i <= m) /\ (m + i) - m = i /\ b.read + (m + i) = c.read + i
      BY <1>4, <1>6
    <3>2. b.bytes[b.read + (m + i)] = t[(m + i) - m]
      BY <1>2, <1>3, <3>1
    <3>. QED BY <1>6, <3>1, <3>2
  <2>. QED BY <1>1, <2>1, <2>2 DEF Lies
<1>. QED BY <1>1, <1>5, <1>6, <1>7

\* What is read back of a short and of an int.
LEMMA ShortDecodes ==
  ASSUME NEW s \in Nat, s < 65536
  PROVE  (s % 256) + 256 * ((s \div 256) % 256) = s
<1>1. PICK q \in Int : q = s \div 256
  BY SMT
<1>2. s = (s % 256) + 256 * q /\ s % 256 \in 0..255
  BY <1>1, SMT
<1>3. q \in 0..255
  BY <1>2, SMT
<1>4. q % 256 = q
  BY <1>3, SMT
<1>. QED BY <1>1, <1>2, <1>4, SMT

LEMMA Divided ==
  ASSUME NEW x \in Int
  PROVE  x \div 256 \in Int /\ x % 256 \in 0..255 /\ x = (x % 256) + 256 * (x \div 256)
BY SMT

LEMMA DividedTwice ==
  ASSUME NEW x \in Int, NEW q \in Int, q = x \div 256
  PROVE  x \div 65536 \in Int /\ x \div 65536 = q \div 256
<1>1. x = (x % 256) + 256 * q /\ x % 256 \in 0..255
  BY Divided
<1>2. PICK r \in Int : r = q \div 256 /\ q = (q % 256) + 256 * r /\ q % 256 \in 0..255
  BY Divided
<1>3. PICK low \in Int : low = (x % 256) + 256 * (q % 256)
  BY <1>1, <1>2, SMT
<1>4. 0 <= low /\ low < 65536
  BY <1>1, <1>2, <1>3, SMT
<1>5. x = low + 65536 * r
  BY <1>1, <1>2, <1>3, SMT
<1>6. x \div 65536 = r
  BY <1>4, <1>5, SMT
<1>. QED BY <1>2, <1>6

LEMMA Weighs ==
  ASSUME NEW n \in Int, NEW m \in Int, NEW h \in Int, NEW g \in Int,
         NEW a \in Int, NEW b \in Int, NEW c \in Int,
         n = a + 256 * m, m = b + 256 * h, h = c + 256 * g
  PROVE  n = a + 256 * b + 65536 * c + 16777216 * g
BY SMT

LEMMA SignedIs ==
  ASSUME NEW h \in Int, -32768 <= h, h < 32768, NEW g \in Int, g = h \div 256
  PROVE  Signed(g % 256, 256) = g
<1>1. h = (h % 256) + 256 * g /\ h % 256 \in 0..255
  BY Divided
<1>2. -128 <= g /\ g < 128
  BY <1>1, SMT
<1>. QED BY <1>2, SMT DEF Signed

LEMMA IntDecodes ==
  ASSUME NEW n \in Int32, NEW a, NEW b, NEW c, NEW e,
         a = n % 256, b = (n \div 256) % 256, c = High(n) % 256,
         e = (High(n) \div 256) % 256
  PROVE  a + 256 * b + 65536 * c + 16777216 * Signed(e, 256) = n
<1>1. n \in Int /\ -32768 <= High(n) /\ High(n) < 32768
  BY SMT DEF Int32, High
<1>2. PICK m \in Int : m = n \div 256
  BY <1>1, Divided
<1>3. PICK h \in Int : h = High(n) /\ h = m \div 256
  BY <1>1, <1>2, DividedTwice, SMT DEF High
<1>4. PICK g \in Int : g = h \div 256
  BY Divided
<1>5. a \in Int /\ n = a + 256 * m
  BY <1>1, <1>2, Divided
<1>6. b \in Int /\ m = b + 256 * h
  BY <1>2, <1>3, Divided
<1>7. c \in Int /\ h = c + 256 * g
  BY <1>3, <1>4, Divided
<1>8. Signed(e, 256) = g
  <2>1. e = g % 256 /\ -32768 <= h /\ h < 32768
    BY <1>1, <1>3, <1>4, SMT
  <2>. QED BY <1>4, <2>1, SignedIs, SMT
<1>9. n = a + 256 * b + 65536 * c + 16777216 * g
  BY <1>1, <1>5, <1>6, <1>7, Weighs, SMT
<1>. QED BY <1>8, <1>9, SMT

\* Reading of any bytes.
LEMMA ReadCharIs ==
  ASSUME NEW size \in Nat, NEW b \in Buffer(size)
  PROVE  /\ ReadChar(b).ok \in BOOLEAN /\ ReadChar(b).buf \in Buffer(size)
         /\ ReadChar(b).ok <=> b.read + 1 <= b.used
         /\ ReadChar(b).ok => /\ ReadChar(b).value = Signed(b.bytes[b.read + 1], 256)
                              /\ ReadChar(b).buf = SetReadPos(b, b.read + 1)
         /\ ~ReadChar(b).ok => ReadChar(b).buf = b
<1>1. PICK r : r = Read(b, 1)
  OBVIOUS
<1>2. /\ r.ok \in BOOLEAN /\ r.buf \in Buffer(size)
      /\ r.ok <=> b.read + 1 <= b.used
      /\ r.ok => /\ r.value[1] = b.bytes[b.read + 1]
                 /\ r.buf = SetReadPos(b, b.read + 1)
  <2>1. IsRead(r, size, b, 1)
    BY <1>1, ReadIs
  <2>2. 1 \in 1..1
    OBVIOUS
  <2>. QED BY <2>1, <2>2, Zenon DEF IsRead
<1>3. CASE r.ok
  <2>1. PICK v : v = Signed(r.value[1], 256)
    OBVIOUS
  <2>2. PICK c : r = [ok |-> TRUE, value |-> c, buf |-> SetReadPos(b, b.read + 1)]
    BY <1>1, <1>2, <1>3, BufferParts DEF Read
  <2>3. ReadChar(b) = [r EXCEPT !.value = v]
    BY <1>1, <1>3, <2>1, Zenon DEF ReadChar
  <2>4. ReadChar(b).ok = r.ok /\ ReadChar(b).buf = r.buf /\ ReadChar(b).value = v
    BY <2>2, <2>3
  <2>. QED BY <1>2, <1>3, <2>1, <2>4, Zenon
<1>4. CASE ~r.ok
  <2>1. ReadChar(b) = r
    BY <1>1, <1>4, Zenon DEF ReadChar
  <2>2. r.buf = b
    BY <1>1, <1>2, <1>4, BufferParts DEF Read
  <2>. QED BY <1>2, <1>4, <2>1, <2>2, Zenon
<1>. QED BY <1>2, <1>3, <1>4

LEMMA ReadShortIs ==
  ASSUME NEW size \in Nat, NEW b \in Buffer(size)
  PROVE  /\ ReadShort(b).ok \in BOOLEAN /\ ReadShort(b).buf \in Buffer(size)
         /\ ReadShort(b).ok <=> b.read + 2 <= b.used
         /\ ReadShort(b).ok => /\ ReadShort(b).value = b.bytes[b.read + 1] + 256 * b.bytes[b.read + 2]
                               /\ ReadShort(b).value \in Nat
                               /\ ReadShort(b).buf = SetReadPos(b, b.read + 2)
<1>1. PICK r : r = Read(b, 2)
  OBVIOUS
<1>2. /\ r.ok \in BOOLEAN /\ r.buf \in Buffer(size)
      /\ r.ok <=> b.read + 2 <= b.used
      /\ r.ok => /\ r.value[1] = b.bytes[b.read + 1] /\ r.value[2] = b.bytes[b.read + 2]
                 /\ r.buf = SetReadPos(b, b.read + 2)
  <2>1. IsRead(r, size, b, 2)
    BY <1>1, ReadIs
  <2>2. 1 \in 1..2 /\ 2 \in 1..2
    OBVIOUS
  <2>. QED BY <2>1, <2>2, Zenon DEF IsRead
<1>3. CASE r.ok
  <2>1. PICK v : v = r.value[1] + 256 * r.value[2]
    OBVIOUS
  <2>2. PICK c : r = [ok |-> TRUE, value |-> c, buf |-> SetReadPos(b, b.read + 2)]
    BY <1>1, <1>2, <1>3, BufferParts DEF Read
  <2>3. ReadShort(b) = [r EXCEPT !.value = v]
    BY <1>1, <1>3, <2>1, Zenon DEF ReadShort
  <2>4. ReadShort(b).ok = r.ok /\ ReadShort(b).buf = r.buf /\ ReadShort(b).value = v
    BY <2>2, <2>3
  <2>5. v \in Nat
    <3>1. b.read + 1 \in 1..size /\ b.read + 2 \in 1..size
      BY <1>2, <1>3, BufferParts
    <3>2. b.bytes[b.read + 1] \in Byte /\ b.bytes[b.read + 2] \in Byte
      BY <3>1, BufferParts
    <3>3. PICK x \in Byte, y \in Byte : x = b.bytes[b.read + 1] /\ y = b.bytes[b.read + 2]
      BY <3>2, Zenon
    <3>4. v = x + 256 * y
      BY <1>2, <1>3, <2>1, <3>3, Zenon
    <3>. QED BY <3>4 DEF Byte
  <2>6. ReadShort(b).ok \in BOOLEAN /\ ReadShort(b).buf \in Buffer(size)
    BY <1>2, <2>4, Zenon
  <2>7. ReadShort(b).ok <=> b.read + 2 <= b.used
    BY <1>2, <2>4, Zenon
  <2>8. ReadShort(b).value = b.bytes[b.read + 1] + 256 * b.bytes[b.read + 2]
    BY <1>2, <1>3, <2>1, <2>4, Zenon
  <2>9. ReadShort(b).value \in Nat /\ ReadShort(b).buf = SetReadPos(b, b.read + 2)
    BY <1>2, <1>3, <2>4, <2>5, Zenon
  <2>. QED BY <2>6, <2>7, <2>8, <2>9, Zenon
<1>4. CASE ~r.ok
  <2>1. ReadShort(b) = r
    BY <1>1, <1>4, Zenon DEF ReadShort
  <2>. QED BY <1>2, <1>4, <2>1, Zenon
<1>. QED BY <1>2, <1>3, <1>4

\* The four bytes of an int.
Word(w, x, y, z) == w + 256 * x + 65536 * y + 16777216 * Signed(z, 256)

LEMMA WordType ==
  ASSUME NEW w \in Byte, NEW x \in Byte, NEW y \in Byte, NEW z \in Byte
  PROVE  Word(w, x, y, z) \in Int
<1>1. Signed(z, 256) \in Int
  BY SMT DEF Signed, Byte
<1>2. PICK s \in Int : s = Signed(z, 256)
  BY <1>1
<1>3. w \in Int /\ x \in Int /\ y \in Int
  BY SMT DEF Byte
<1>4. w + 256 * x + 65536 * y + 16777216 * s \in Int
  BY <1>2, <1>3, SMT
<1>. QED BY <1>2, <1>4, SMT DEF Word

LEMMA FourBytes ==
  ASSUME NEW size \in Nat, NEW bytes \in [1..size -> Byte], NEW at \in Nat, at + 4 <= size
  PROVE  /\ bytes[at + 1] \in Byte /\ bytes[at + 2] \in Byte
         /\ bytes[at + 3] \in Byte /\ bytes[at + 4] \in Byte
<1>1. at + 1 \in 1..size /\ at + 2 \in 1..size /\ at + 3 \in 1..size /\ at + 4 \in 1..size
  OBVIOUS
<1>. QED BY <1>1

LEMMA ReadIntIs ==
  ASSUME NEW size \in Nat, NEW b \in Buffer(size)
  PROVE  /\ ReadInt(b).ok \in BOOLEAN /\ ReadInt(b).buf \in Buffer(size)
         /\ ReadInt(b).ok <=> b.read + 4 <= b.used
         /\ ReadInt(b).ok =>
              /\ ReadInt(b).value = Word(b.bytes[b.read + 1], b.bytes[b.read + 2],
                                         b.bytes[b.read + 3], b.bytes[b.read + 4])
              /\ ReadInt(b).value \in Int
              /\ ReadInt(b).buf = SetReadPos(b, b.read + 4)
<1>1. PICK r : r = Read(b, 4)
  OBVIOUS
<1>2. /\ r.ok \in BOOLEAN /\ r.buf \in Buffer(size)
      /\ r.ok <=> b.read + 4 <= b.used
      /\ r.ok => /\ r.value[1] = b.bytes[b.read + 1] /\ r.value[2] = b.bytes[b.read + 2]
                 /\ r.value[3] = b.bytes[b.read + 3] /\ r.value[4] = b.bytes[b.read + 4]
                 /\ r.buf = SetReadPos(b, b.read + 4)
  <2>1. IsRead(r, size, b, 4)
    BY <1>1, ReadIs
  <2>2. 1 \in 1..4 /\ 2 \in 1..4 /\ 3 \in 1..4 /\ 4 \in 1..4
    OBVIOUS
  <2>. QED BY <2>1, <2>2, Zenon DEF IsRead
<1>3. CASE r.ok
  <2>1. PICK v : v = Word(r.value[1], r.value[2], r.value[3], r.value[4])
    OBVIOUS
  <2>2. PICK c : r = [ok |-> TRUE, value |-> c, buf |-> SetReadPos(b, b.read + 4)]
    BY <1>1, <1>2, <1>3, BufferParts DEF Read
  <2>3. ReadInt(b) = [r EXCEPT !.value = v]
    BY <1>1, <1>3, <2>1, SMT DEF ReadInt, Word
  <2>4. ReadInt(b).ok = r.ok /\ ReadInt(b).buf = r.buf /\ ReadInt(b).value = v
    BY <2>2, <2>3
  <2>5. v = Word(b.bytes[b.read + 1], b.bytes[b.read + 2], b.bytes[b.read + 3], b.bytes[b.read + 4])
    BY <1>2, <1>3, <2>1, Zenon
  <2>6. v \in Int
    <3>1. PICK at \in Nat, bytes \in [1..size -> Byte] :
            at = b.read /\ bytes = b.bytes /\ at + 4 <= size
      <4>1. PICK at \in Nat, used \in 0..size : at = b.read /\ used = b.used /\ at + 4 <= used
        BY <1>2, <1>3, BufferParts
      <4>2. at + 4 <= size
        BY <4>1
      <4>. QED BY <4>1, <4>2, BufferParts
    <3>2. /\ bytes[at + 1] \in Byte /\ bytes[at + 2] \in Byte
          /\ bytes[at + 3] \in Byte /\ bytes[at + 4] \in Byte
      BY <3>1, FourBytes
    <3>3. Word(bytes[at + 1], bytes[at + 2], bytes[at + 3], bytes[at + 4]) \in Int
      BY <3>2, WordType
    <3>. QED BY <2>5, <3>1, <3>3, Zenon
  <2>. QED BY <1>2, <1>3, <2>4, <2>5, <2>6, Zenon
<1>4. CASE ~r.ok
  <2>1. ReadInt(b) = r
    BY <1>1, <1>4, SMT DEF ReadInt
  <2>. QED BY <1>2, <1>4, <2>1, Zenon
<1>. QED BY <1>2, <1>3, <1>4

LEMMA ReadStringIs ==
  ASSUME NEW size \in Nat, NEW b \in Buffer(size)
  PROVE  /\ ReadString(b).ok \in BOOLEAN /\ ReadString(b).buf \in Buffer(size)
         /\ ReadString(b).ok => ReadString(b).value \in Seq(Byte)
<1>1. PICK r : r = ReadShort(b)
  OBVIOUS
<1>2. /\ r.ok \in BOOLEAN /\ r.buf \in Buffer(size)
      /\ r.ok => r.value \in Nat
  BY <1>1, ReadShortIs
<1>3. CASE r.ok
  <2>1. PICK n \in Nat, c \in Buffer(size) : n = r.value /\ c = r.buf
    BY <1>2, <1>3
  <2>2. ReadString(b) = Read(c, n)
    BY <1>1, <1>3, <2>1, Zenon DEF ReadString
  <2>3. IsRead(Read(c, n), size, c, n)
    BY ReadIs
  <2>. QED BY <2>2, <2>3, Zenon DEF IsRead
<1>4. CASE ~r.ok
  <2>1. ReadString(b) = r
    BY <1>1, <1>4, Zenon DEF ReadString
  <2>. QED BY <1>2, <1>4, <2>1, Zenon
<1>. QED BY <1>2, <1>3, <1>4

-----------------------------------------------------------------------------
\* What has been read of a packet: a field is a text or an int.
Value == Seq(Byte) \cup Int

Progress(size) == [ok : BOOLEAN, fields : Seq(Value), buf : Buffer(size)]

LEMMA AppendType ==
  ASSUME NEW S, NEW s \in Seq(S), NEW e \in S
  PROVE  Append(s, e) \in Seq(S) /\ Len(Append(s, e)) = Len(s) + 1 /\ Append(s, e)[Len(s) + 1] = e
BY AppendProperties, LenProperties

LEMMA ReadFieldIs ==
  ASSUME NEW size \in Nat, NEW r \in Progress(size), NEW kind \in {"string", "int"}
  PROVE  /\ ReadField(r, kind) \in Progress(size)
         /\ ReadField(r, kind).ok =>
              /\ r.ok /\ Len(ReadField(r, kind).fields) = Len(r.fields) + 1
              /\ kind = "int" => ReadField(r, kind).fields[Len(r.fields) + 1] \in Int
<1>1. r.ok \in BOOLEAN /\ r.fields \in Seq(Value) /\ r.buf \in Buffer(size)
  BY DEF Progress
<1>2. CASE ~r.ok
  <2>1. ReadField(r, kind) = r
    BY <1>2, Zenon DEF ReadField
  <2>. QED BY <1>2, <2>1
<1>3. CASE r.ok
  <2>1. PICK f : f = IF kind = "string" THEN ReadString(r.buf) ELSE ReadInt(r.buf)
    OBVIOUS
  <2>2. /\ f.ok \in BOOLEAN /\ f.buf \in Buffer(size)
        /\ f.ok => f.value \in Value
        /\ f.ok /\ kind = "int" => f.value \in Int
    <3>1. PICK c \in Buffer(size) : c = r.buf
      BY <1>1
    <3>2. CASE kind = "string"
      <4>1. f = ReadString(c)
        BY <2>1, <3>1, <3>2
      <4>2. f.ok \in BOOLEAN /\ f.buf \in Buffer(size) /\ (f.ok => f.value \in Seq(Byte))
        BY <4>1, ReadStringIs, Zenon
      <4>3. kind # "int"
        BY <3>2
      <4>. QED BY <4>2, <4>3, Zenon DEF Value
    <3>3. CASE kind = "int"
      <4>1. f = ReadInt(c)
        BY <2>1, <3>1, <3>3
      <4>2. f.ok \in BOOLEAN /\ f.buf \in Buffer(size) /\ (f.ok => f.value \in Int)
        BY <4>1, ReadIntIs, Zenon
      <4>. QED BY <4>2, Zenon DEF Value
    <3>. QED BY <3>2, <3>3
  <2>3. PICK g : g = IF f.ok THEN Append(r.fields, f.value) ELSE r.fields
    OBVIOUS
  <2>4. ReadField(r, kind) = [ok |-> f.ok, fields |-> g, buf |-> f.buf]
    BY <1>3, <2>1, <2>3, Zenon DEF ReadField
  <2>5. CASE f.ok
    <3>1. PICK s \in Seq(Value), e \in Value : s = r.fields /\ e = f.value
      BY <1>1, <2>2, <2>5
    <3>2. g = Append(s, e)
      BY <2>3, <2>5, <3>1
    <3>3. g \in Seq(Value) /\ Len(g) = Len(s) + 1 /\ g[Len(s) + 1] = e
      <4> HIDE DEF Value
      <4>. QED BY <3>2, AppendType
    <3>4. PICK v \in Seq(Value), c \in Buffer(size) : v = g /\ c = f.buf
      BY <2>2, <3>3
    <3>5. ReadField(r, kind) = [ok |-> TRUE, fields |-> v, buf |-> c]
      BY <2>4, <2>2, <2>5, <3>4
    <3>6. ReadField(r, kind) \in Progress(size) /\ ReadField(r, kind).fields = v
      <4> HIDE DEF Value
      <4>. QED BY <3>3, <3>4, <3>5 DEF Progress
    <3>. QED BY <1>3, <2>2, <2>5, <3>1, <3>3, <3>4, <3>6
  <2>6. CASE ~f.ok
    <3>1. PICK v \in Seq(Value), c \in Buffer(size) : v = r.fields /\ c = f.buf
      BY <1>1, <2>2
    <3>2. ReadField(r, kind) = [ok |-> FALSE, fields |-> v, buf |-> c]
      BY <2>2, <2>3, <2>4, <2>6, <3>1
    <3>. QED BY <3>2 DEF Progress
  <2>. QED BY <2>5, <2>6
<1>. QED BY <1>1, <1>2, <1>3

\* readImpl, field by field.
LEMMA ReadSteps ==
  ASSUME NEW size \in Nat, NEW kinds \in Seq({"string", "int"}), NEW base \in Progress(size)
  PROVE  \E f \in [0..Len(kinds) -> Progress(size)] :
           /\ f[0] = base /\ f[Len(kinds)] = FoldLeft(ReadField, base, kinds)
           /\ \A k \in 1..Len(kinds) : f[k] = ReadField(f[k - 1], kinds[k])
<1> DEFINE n == Len(kinds)
           T == Progress(size)
           G == [x \in (1..n) \X T |-> ReadField(x[2], kinds[x[1]])]
           IsIt(it) == it = [u \in SUBSET (DOMAIN kinds) |->
                               IF u = {} THEN base ELSE ReadField(it[u \ {Max(u)}], kinds[Max(u)])]
           iter == CHOOSE it : IsIt(it)
<1>1. n \in Nat /\ DOMAIN kinds = 1..n /\ \A i \in 1..n : kinds[i] \in {"string", "int"}
  BY LenProperties, ElementOfSeq
<1>2. FoldLeft(ReadField, base, kinds) = iter[DOMAIN kinds]
  BY DEF FoldLeft, MapThenFoldSet
<1>3. base \in T
  OBVIOUS
<1>4. ASSUME NEW r \in T, NEW k \in 1..n
      PROVE  ReadField(r, kinds[k]) \in T
  BY <1>1, ReadFieldIs
<1> HIDE DEF n, T
<1>5. G \in [(1..n) \X T -> T]
  <2>1. \A x \in (1..n) \X T : ReadField(x[2], kinds[x[1]]) \in T
    BY <1>4
  <2>. QED BY <2>1
<1>6. PICK it \in [SUBSET (1..n) -> T] : IsFold(it, n, base, G)
  <2> HIDE DEF G
  <2>. QED BY <1>1, <1>3, <1>5, FoldExists
<1>7. IsIt(it)
  <2>1. ASSUME NEW u \in SUBSET (1..n), u # {}
        PROVE  G[<<Max(u), it[u \ {Max(u)}]>>] = ReadField(it[u \ {Max(u)}], kinds[Max(u)])
    <3>1. Max(u) \in 1..n /\ it[u \ {Max(u)}] \in T
      BY <1>1, <2>1, MaxOf
    <3>. QED BY <3>1
  <2>. QED BY <1>1, <1>6, <2>1 DEF IsFold
<1>8. IsIt(iter)
  <2> HIDE DEF IsIt
  <2>. QED BY <1>7
<1> HIDE DEF iter
<1>9. iter[{}] = base
  BY <1>1, <1>8
<1>10. ASSUME NEW u \in SUBSET (1..n), u # {}, iter[u \ {Max(u)}] \in T
       PROVE  iter[u] = G[<<Max(u), iter[u \ {Max(u)}]>>]
  <2>1. Max(u) \in 1..n
    BY <1>1, <1>10, MaxOf
  <2>2. iter[u] = ReadField(iter[u \ {Max(u)}], kinds[Max(u)])
    BY <1>1, <1>8, <1>10
  <2>. QED BY <1>10, <2>1, <2>2
<1>11. PICK f \in [0..n -> T] : f[n] = iter[1..n] /\ IsChain(f, n, base, G)
  <2>1. IsFoldIn(iter, n, base, G, T)
    <3> HIDE DEF G
    <3>. QED BY <1>9, <1>10 DEF IsFoldIn
  <2> HIDE DEF G
  <2>. QED BY <1>1, <1>3, <1>5, <2>1, Iterated
<1>12. f[0] = base /\ \A k \in 1..n : f[k] = G[<<k, f[k - 1]>>]
  BY <1>11 DEF IsChain
<1>13. ASSUME NEW k \in 1..n
       PROVE  f[k] = ReadField(f[k - 1], kinds[k])
  <2>1. k - 1 \in 0..n /\ f[k - 1] \in T
    BY <1>1
  <2>. QED BY <1>12, <2>1
<1>. QED BY <1>1, <1>2, <1>11, <1>12, <1>13 DEF n, T

\* Where each field of a packet leaves the reading of it.
ReadsOn(f, size, base, kinds) ==
  /\ f \in [0..Len(kinds) -> Progress(size)]
  /\ f[0] = base /\ f[Len(kinds)] = FoldLeft(ReadField, base, kinds)
  /\ \A k \in 1..Len(kinds) : f[k] = ReadField(f[k - 1], kinds[k])

LEMMA ReadsAlong ==
  ASSUME NEW size \in Nat, NEW kinds \in Seq({"string", "int"}), NEW base \in Progress(size)
  PROVE  \E f : ReadsOn(f, size, base, kinds)
<1>1. PICK f \in [0..Len(kinds) -> Progress(size)] :
             /\ f[0] = base /\ f[Len(kinds)] = FoldLeft(ReadField, base, kinds)
             /\ \A k \in 1..Len(kinds) : f[k] = ReadField(f[k - 1], kinds[k])
  BY ReadSteps, Zenon
<1>. QED BY <1>1, Zenon DEF ReadsOn

LEMMA FieldsReadType ==
  ASSUME NEW size \in Nat, NEW kinds \in Seq({"string", "int"}), NEW base \in Progress(size)
  PROVE  FoldLeft(ReadField, base, kinds) \in Progress(size)
<1>1. Len(kinds) \in Nat
  BY LenProperties
<1>2. PICK f \in [0..Len(kinds) -> Progress(size)] :
             /\ f[0] = base /\ f[Len(kinds)] = FoldLeft(ReadField, base, kinds)
             /\ \A k \in 1..Len(kinds) : f[k] = ReadField(f[k - 1], kinds[k])
  BY ReadSteps, Zenon
<1>. QED BY <1>1, <1>2

\* The ports asked for: no more than announced.
LEMMA PortFieldsIs ==
  ASSUME NEW size \in Nat, NEW b \in Buffer(size), NEW announced \in Int
  PROVE  /\ PortFields(announced, b) \in Seq({"string", "int"})
         /\ announced \in Nat /\ 8 * announced <= b.used - b.read
              => PortFields(announced, b) = [i \in 1 .. 2 * announced |-> "int"]
<1> DEFINE room == RemainingReadSize(b) \div 8 + 1
           asked == Min({announced, room})
<1>1. b.used - b.read \in Nat /\ RemainingReadSize(b) = b.used - b.read
  BY BufferParts DEF RemainingReadSize
<1>2. PICK left \in Nat : left = b.used - b.read
  BY <1>1
<1>3. room \in Int /\ \A a \in Int : 8 * a <= left => a <= room
  <2>1. left = 8 * (left \div 8) + (left % 8) /\ left % 8 < 8 /\ left \div 8 \in Int
    OBVIOUS
  <2>2. PICK q \in Int : q = left \div 8
    BY <2>1
  <2>3. \A a \in Int : 8 * a <= left => a <= q + 1
    BY <2>1, <2>2
  <2>. QED BY <1>1, <1>2, <2>2, <2>3
<1>4. PortFields(announced, b) = [i \in 1 .. 2 * asked |-> "int"]
  BY DEF PortFields
<1> HIDE DEF room
<1>5. asked \in {announced, room} /\ asked <= announced /\ asked <= room
  <2>1. \E x \in {announced, room} : \A y \in {announced, room} : x <= y
    BY <1>3
  <2>. QED BY <2>1 DEF Min
<1> HIDE DEF asked
<1>6. asked \in Int
  BY <1>3, <1>5
<1>7. PortFields(announced, b) \in Seq({"string", "int"})
  <2>1. CASE asked <= 0
    <3>1. 1 .. 2 * asked = 1..0
      BY <1>6, <2>1
    <3>2. PortFields(announced, b) = [i \in 1..0 |-> "int"]
      BY <1>4, <3>1
    <3>. QED BY <3>2
  <2>2. CASE asked > 0
    <3>1. 2 * asked \in Nat
      BY <1>6, <2>2
    <3>2. PICK m \in Nat : m = 2 * asked
      BY <3>1
    <3>3. [i \in 1..m |-> "int"] \in Seq({"string", "int"})
      OBVIOUS
    <3>. QED BY <1>4, <3>2, <3>3
  <2>. QED BY <1>6, <2>1, <2>2
<1>8. ASSUME announced \in Nat, 8 * announced <= b.used - b.read
      PROVE  asked = announced
  <2>1. announced <= room
    BY <1>2, <1>3, <1>8
  <2>. QED BY <1>3, <1>5, <2>1
<1>. QED BY <1>4, <1>7, <1>8

\* Whatever the bytes are, reading leaves a buffer.
LEMMA ReadImplType ==
  ASSUME NEW size \in Nat, NEW b \in Buffer(size), NEW d \in Directions, NEW o \in Registered
  PROVE  ReadImpl(b, d, o) \in Progress(size)
<1> DEFINE base == [ok |-> TRUE, fields |-> <<>>, buf |-> b]
<1>1. PICK kinds \in Seq({"string", "int"}) : /\ kinds = ReadAs(d, o)
                                              /\ IsNodeInfo(d, o) => kinds = <<"string", "int">>
  BY KindsIs
<1>2. base \in Progress(size)
  <2>1. <<>> \in Seq(Value)
    <3> HIDE DEF Value
    <3>. QED OBVIOUS
  <2> HIDE DEF Value
  <2>. QED BY <2>1 DEF Progress
<1>3. PICK fixed \in Progress(size) : fixed = FoldLeft(ReadField, base, kinds)
  <2> HIDE DEF base
  <2>. QED BY <1>2, FieldsReadType
<1>4. ReadImpl(b, d, o) = IF fixed.ok /\ IsNodeInfo(d, o)
                          THEN FoldLeft(ReadField, fixed, PortFields(fixed.fields[2], fixed.buf))
                          ELSE fixed
  BY <1>1, <1>3, Zenon DEF ReadImpl
<1>5. CASE fixed.ok /\ IsNodeInfo(d, o)
  <2>1. Len(kinds) = 2 /\ kinds[1] = "string" /\ kinds[2] = "int"
    BY <1>1, <1>5
  <2>2. PICK f \in [0..Len(kinds) -> Progress(size)] :
               /\ f[0] = base /\ f[Len(kinds)] = fixed
               /\ \A k \in 1..Len(kinds) : f[k] = ReadField(f[k - 1], kinds[k])
    <3> HIDE DEF base
    <3>1. PICK f : ReadsOn(f, size, base, kinds)
      BY <1>2, ReadsAlong
    <3>. QED BY <1>3, <3>1, Zenon DEF ReadsOn
  <2>3. PICK r0 \in Progress(size), r1 \in Progress(size) : r0 = f[0] /\ r1 = f[1]
    BY <2>1, <2>2
  <2>4. r1 = ReadField(r0, "string") /\ fixed = ReadField(r1, "int")
    <3>1. f[1] = ReadField(f[1 - 1], kinds[1]) /\ f[2] = ReadField(f[2 - 1], kinds[2])
      BY <2>1, <2>2
    <3>2. 1 - 1 = 0 /\ 2 - 1 = 1
      OBVIOUS
    <3>. QED BY <2>1, <2>2, <2>3, <3>1, <3>2
  <2>5. r0.fields = <<>>
    BY <2>2, <2>3
  <2>6. fixed.ok => r1.ok /\ fixed.fields[Len(r1.fields) + 1] \in Int
    BY <2>4, ReadFieldIs, Zenon
  <2>7. r1.ok => Len(r1.fields) = Len(r0.fields) + 1
    BY <2>4, ReadFieldIs, Zenon
  <2>8. Len(r0.fields) = 0
    BY <2>5
  <2>9. fixed.fields[2] \in Int
    <3>1. PICK l : l = Len(r1.fields)
      OBVIOUS
    <3>2. l = 0 + 1
      BY <1>5, <2>6, <2>7, <2>8, <3>1, Zenon
    <3>3. l + 1 = 2
      BY <3>2
    <3>. QED BY <1>5, <2>6, <3>1, <3>3, Zenon
  <2>10. PICK a \in Int, c \in Buffer(size) : a = fixed.fields[2] /\ c = fixed.buf
    BY <2>9 DEF Progress
  <2>11. PICK ports \in Seq({"string", "int"}) : ports = PortFields(a, c)
    BY PortFieldsIs
  <2>12. ReadImpl(b, d, o) = FoldLeft(ReadField, fixed, ports)
    BY <1>4, <1>5, <2>10, <2>11, Zenon
  <2>. QED BY <2>12, FieldsReadType
<1>6. CASE ~(fixed.ok /\ IsNodeInfo(d, o))
  BY <1>4, <1>6
<1>. QED BY <1>5, <1>6

-----------------------------------------------------------------------------
(* Reading back what was written.                                            *)

\* What the two bytes of a length can hold.
IsShort(n) == n < 65536

LEMMA SetReadPosTwice ==
  ASSUME NEW size \in Nat, NEW b \in Buffer(size), NEW x, NEW y
  PROVE  SetReadPos(SetReadPos(b, x), y) = SetReadPos(b, y)
BY DEF SetReadPos, Buffer

LEMMA ReadShortGets ==
  ASSUME NEW size \in Nat, NEW b \in Buffer(size), NEW s \in Nat, IsShort(s),
         Lies(b, ShortBytes(s))
  PROVE  ReadShort(b) = Got(b, s, 2)
<1>1. PICK data \in Seq(Byte) : /\ data = ShortBytes(s) /\ Len(data) = 2
                                /\ data[1] = s % 256 /\ data[2] = (s \div 256) % 256
  BY ShortBytesIs
<1>2. Read(b, 2) = Got(b, data, 2)
  <2>1. Read(b, Len(data)) = Got(b, data, Len(data))
    BY <1>1, ReadGets
  <2>. QED BY <1>1, <2>1
<1>3. PICK v : v = data[1] + 256 * data[2]
  OBVIOUS
<1>4. v = s
  BY <1>1, <1>3, ShortDecodes, SMT DEF IsShort
<1>5. PICK r, c : r = Read(b, 2) /\ c = SetReadPos(b, b.read + 2)
  OBVIOUS
<1>6. r = [ok |-> TRUE, value |-> data, buf |-> c]
  BY <1>2, <1>5 DEF Got
<1>7. ReadShort(b) = [r EXCEPT !.value = v]
  <2>1. r.ok /\ r.value = data
    BY <1>6
  <2>. QED BY <1>3, <1>5, <2>1, Zenon DEF ReadShort
<1>8. ReadShort(b) = [ok |-> TRUE, value |-> v, buf |-> c]
  BY <1>6, <1>7
<1>. QED BY <1>4, <1>5, <1>8, Zenon DEF Got

LEMMA ReadIntGets ==
  ASSUME NEW size \in Nat, NEW b \in Buffer(size), NEW n \in Int32, Lies(b, IntBytes(n))
  PROVE  ReadInt(b) = Got(b, n, 4)
<1>1. n \in Int
  BY Int32IsInt
<1>2. PICK data \in Seq(Byte) : data = IntBytes(n) /\ Len(data) = 4
  BY <1>1, IntBytesType
<1>3. Read(b, 4) = Got(b, data, 4)
  <2>1. Read(b, Len(data)) = Got(b, data, Len(data))
    BY <1>2, ReadGets
  <2>. QED BY <1>2, <2>1, Zenon
<1>4. PICK v : v = Word(data[1], data[2], data[3], data[4])
  OBVIOUS
<1>5. v = n
  <2>1. /\ IntBytes(n)[1] = n % 256
        /\ IntBytes(n)[2] = (n \div 256) % 256
        /\ IntBytes(n)[3] = High(n) % 256
        /\ IntBytes(n)[4] = (High(n) \div 256) % 256
    BY <1>1, IntBytesIs
  <2>2. /\ data[1] = n % 256 /\ data[2] = (n \div 256) % 256
        /\ data[3] = High(n) % 256 /\ data[4] = (High(n) \div 256) % 256
    BY <1>2, <2>1, Zenon
  <2>. QED BY <1>4, <2>2, IntDecodes, SMT DEF Word
<1>6. PICK r, c : r = Read(b, 4) /\ c = SetReadPos(b, b.read + 4)
  OBVIOUS
<1>7. r = [ok |-> TRUE, value |-> data, buf |-> c]
  BY <1>3, <1>6, Zenon DEF Got
<1>8. ReadInt(b) = [r EXCEPT !.value = v]
  <2>1. r.ok /\ r.value = data
    BY <1>7
  <2>. QED BY <1>4, <1>6, <2>1, SMT DEF ReadInt, Word
<1>9. ReadInt(b) = [ok |-> TRUE, value |-> v, buf |-> c]
  BY <1>7, <1>8
<1>. QED BY <1>5, <1>6, <1>9, Zenon DEF Got

LEMMA ReadStringGets ==
  ASSUME NEW size \in Nat, NEW b \in Buffer(size), NEW t \in Seq(Byte), IsShort(Len(t)),
         Lies(b, ShortBytes(Len(t)) \o t)
  PROVE  ReadString(b) = Got(b, t, 2 + Len(t))
<1>1. PICK n \in Nat : n = Len(t)
  BY LenProperties
<1>2. PICK data \in Seq(Byte) : data = ShortBytes(n) /\ Len(data) = 2
  BY <1>1, ShortBytesIs
<1>3. PICK c \in Buffer(size) : /\ c = SetReadPos(b, b.read + 2) /\ c.read = b.read + 2
                                /\ Lies(b, data) /\ Lies(c, t)
  <2>1. Lies(b, data \o t)
    BY <1>1, <1>2, Zenon
  <2>2. /\ Lies(b, data)
        /\ SetReadPos(b, b.read + Len(data)) \in Buffer(size)
        /\ SetReadPos(b, b.read + Len(data)).read = b.read + Len(data)
        /\ Lies(SetReadPos(b, b.read + Len(data)), t)
    BY <2>1, LiesOn
  <2>. QED BY <1>2, <2>2, Zenon
<1>4. ReadShort(b) = Got(b, n, 2)
  <2>1. IsShort(n)
    BY <1>1, Zenon
  <2>2. Lies(b, ShortBytes(n))
    BY <1>2, <1>3, Zenon
  <2>. QED BY <2>1, <2>2, ReadShortGets, Zenon
<1>5. PICK r : r = ReadShort(b)
  OBVIOUS
<1>6. r = [ok |-> TRUE, value |-> n, buf |-> c]
  BY <1>3, <1>4, <1>5, Zenon DEF Got
<1>7. ReadString(b) = Read(c, n)
  <2>1. r.ok /\ r.value = n /\ r.buf = c
    BY <1>6
  <2>. QED BY <1>5, <2>1, Zenon DEF ReadString
<1>8. Read(c, n) = Got(c, t, n)
  BY <1>1, <1>3, ReadGets
<1>9. SetReadPos(c, c.read + n) = SetReadPos(b, b.read + (2 + n))
  <2>1. PICK x : x = c.read + n
    OBVIOUS
  <2>2. x = b.read + (2 + n)
    BY <1>3, <2>1, BufferParts
  <2>3. SetReadPos(c, x) = SetReadPos(b, x)
    BY <1>3, SetReadPosTwice
  <2>. QED BY <2>1, <2>2, <2>3, Zenon
<1>10. Got(c, t, n) = Got(b, t, 2 + n)
  BY <1>9, Zenon DEF Got
<1>. QED BY <1>1, <1>7, <1>8, <1>10, Zenon

LEMMA FieldGets ==
  ASSUME NEW d \in Directions, NEW p, WellFormed(d, p), NEW i \in 1..Len(p.fields),
         NEW size \in Nat, IsShort(size), NEW b \in Buffer(size), Lies(b, Field(d, p, i)), NEW fs
  PROVE  ReadField([ok |-> TRUE, fields |-> fs, buf |-> b], KindOf(d, p, i))
           = [ok     |-> TRUE,
              fields |-> Append(fs, p.fields[i]),
              buf    |-> SetReadPos(b, b.read + Len(Field(d, p, i)))]
<1> DEFINE n == Len(Field(d, p, i))
           after == SetReadPos(b, b.read + n)
<1>1. PICK r : r = [ok |-> TRUE, fields |-> fs, buf |-> b]
  OBVIOUS
<1>2. r.ok /\ r.fields = fs /\ r.buf = b
  BY <1>1
<1>3. PICK f : f = IF KindOf(d, p, i) = "string" THEN ReadString(b) ELSE ReadInt(b)
  OBVIOUS
<1>4. f = Got(b, p.fields[i], n)
  <2>1. CASE KindOf(d, p, i) = "string" /\ p.fields[i] \in Seq(Byte)
    <3>1. PICK t \in Seq(Byte) : t = p.fields[i]
      BY <2>1
    <3>2. Field(d, p, i) = ShortBytes(Len(t)) \o t
      BY <2>1, <3>1 DEF Field, Coded
    <3>3. n = 2 + Len(t) /\ Len(t) \in Nat
      <4>1. PICK l \in Nat : l = Len(t) /\ l \in Int
        BY LenProperties
      <4>2. PICK s \in Seq(Byte) : s = ShortBytes(l) /\ Len(s) = 2
        <5>1. ShortBytes(l) \in Seq(Byte) /\ Len(ShortBytes(l)) = 2
          BY <4>1, ShortBytesType
        <5>. QED BY <5>1
      <4>3. Len(s \o t) = Len(s) + Len(t)
        BY ConcatProperties
      <4>. QED BY <3>2, <4>1, <4>2, <4>3
    <3>4. IsShort(Len(t))
      <4>1. PICK l \in Nat, u \in Nat, w \in Nat : l = Len(t) /\ u = b.used /\ w = b.read
        BY <3>3, BufferParts
      <4>2. b.read + n <= b.used /\ b.used <= size
        BY BufferParts DEF Lies
      <4>3. w + (2 + l) <= u /\ u <= size
        BY <3>3, <4>1, <4>2, Zenon
      <4>4. IsShort(l)
        BY <4>3, SMT DEF IsShort
      <4>. QED BY <4>1, <4>4, Zenon
    <3>5. Lies(b, ShortBytes(Len(t)) \o t)
      BY <3>2, Zenon
    <3>6. ReadString(b) = Got(b, t, 2 + Len(t))
      BY <3>4, <3>5, ReadStringGets, Zenon
    <3>. QED BY <1>3, <2>1, <3>1, <3>3, <3>6, Zenon
  <2>2. CASE KindOf(d, p, i) = "int" /\ p.fields[i] \in Int32
    <3>1. PICK v \in Int32 : v = p.fields[i]
      BY <2>2, Zenon
    <3>2. KindOf(d, p, i) # "string"
      BY <2>2
    <3>3. Field(d, p, i) = IntBytes(v)
      BY <3>1, <3>2, Zenon DEF Field, Coded
    <3>4. n = 4
      <4>1. v \in Int
        BY Int32IsInt
      <4>. QED BY <3>3, <4>1, IntBytesType
    <3>5. ReadInt(b) = Got(b, v, 4)
      <4>1. Lies(b, IntBytes(v))
        BY <3>3, Zenon
      <4>. QED BY <4>1, ReadIntGets, Zenon
    <3>6. f = ReadInt(b)
      BY <1>3, <3>2, Zenon
    <3>. QED BY <3>1, <3>4, <3>5, <3>6, Zenon
  <2>. QED BY <2>1, <2>2, FieldsIs, Zenon
<1> HIDE DEF n
<1>5. PICK v, c : v = p.fields[i] /\ c = after
  OBVIOUS
<1>6. f = [ok |-> TRUE, value |-> v, buf |-> c]
  BY <1>4, <1>5, Zenon DEF Got
<1>7. f.ok /\ f.value = v /\ f.buf = c /\ f.ok = TRUE
  BY <1>6
<1>8. ReadField(r, KindOf(d, p, i)) = [ok |-> f.ok, fields |-> Append(fs, v), buf |-> c]
  BY <1>2, <1>3, <1>7, Zenon DEF ReadField
<1>. QED BY <1>1, <1>5, <1>7, <1>8, Zenon DEF n

LEMMA PrefixGrows ==
  ASSUME NEW S, NEW s \in Seq(S), NEW k \in 1..Len(s)
  PROVE  SubSeq(s, 1, k) = Append(SubSeq(s, 1, k - 1), s[k])
<1>1. PICK n \in Nat : n = Len(s)
  BY LenProperties
<1>2. k \in 0..Len(s) /\ k - 1 \in 0..Len(s) /\ s[k] \in S
  BY <1>1, ElementOfSeq
<1>3. PICK a \in Seq(S), b \in Seq(S) : /\ a = SubSeq(s, 1, k) /\ Len(a) = k
                                        /\ b = SubSeq(s, 1, k - 1) /\ Len(b) = k - 1
  BY <1>2, PrefixType
<1>4. /\ \A i \in 1..k : a[i] = s[i]
      /\ \A i \in 1..k - 1 : b[i] = s[i]
  <2>1. \A i \in 1..k : s[i] \in S
    BY <1>1, ElementOfSeq
  <2>2. 1 \in Int /\ k \in Int /\ k - 1 \in Int /\ k - 1 + 1 = k /\ (k - 1) - 1 + 1 = k - 1
    BY <1>1
  <2>3. \A i \in 1..k - 1 : i \in 1..k
    OBVIOUS
  <2>4. \A i \in 1 .. k - 1 + 1 : SubSeq(s, 1, k)[i] = s[1 + i - 1]
    BY <2>1, <2>2, SubSeqProperties
  <2>5. \A i \in 1 .. (k - 1) - 1 + 1 : SubSeq(s, 1, k - 1)[i] = s[1 + i - 1]
    <3>1. \A i \in 1..k - 1 : s[i] \in S
      BY <2>1, <2>3
    <3>. QED BY <2>2, <3>1, SubSeqProperties
  <2>6. \A i \in Nat : 1 + i - 1 = i
    OBVIOUS
  <2>7. \A i \in 1..k : i \in Nat
    OBVIOUS
  <2>. QED BY <1>3, <2>2, <2>3, <2>4, <2>5, <2>6, <2>7
<1>5. PICK e \in S : e = s[k]
  BY <1>2
<1>6. PICK c \in Seq(S) : c = Append(b, e)
  BY AppendProperties
<1>7. /\ Len(c) = Len(b) + 1 /\ c[Len(b) + 1] = e
      /\ \A i \in 1..Len(b) : c[i] = b[i]
  BY <1>6, AppendProperties
<1>8. Len(c) = Len(a)
  BY <1>1, <1>3, <1>7
<1>9. \A i \in 1..Len(a) : a[i] = c[i]
  <2>1. ASSUME NEW i \in 1..Len(a)
        PROVE  a[i] = c[i]
    <3>1. CASE i = k
      <4>1. Len(b) + 1 = k /\ k \in 1..k
        BY <1>1, <1>3
      <4>2. c[k] = e /\ a[k] = s[k]
        BY <1>4, <1>7, <4>1, Zenon
      <4>. QED BY <1>5, <3>1, <4>2
    <3>2. CASE i # k
      <4>1. i \in 1..k - 1 /\ i \in 1..k
        BY <1>1, <1>3, <3>2
      <4>2. a[i] = s[i] /\ b[i] = s[i]
        BY <1>4, <4>1
      <4>3. c[i] = b[i]
        BY <1>3, <1>7, <4>1
      <4>. QED BY <4>2, <4>3
    <3>. QED BY <3>1, <3>2
  <2>. QED BY <2>1
<1>10. a = c
  BY <1>8, <1>9, SeqEqual
<1>. QED BY <1>3, <1>5, <1>6, <1>10

\* Where reading stands after some of the fields.
Reached(fl, p, b, k) ==
  [ok     |-> TRUE,
   fields |-> SubSeq(p.fields, 1, k),
   buf    |-> SetReadPos(b, b.read + Len(fl[k]))]

LEMMA ValuesAre ==
  ASSUME NEW d \in Directions, NEW p, WellFormed(d, p)
  PROVE  p.fields \in Seq(Value) /\ Len(p.fields) \in Nat
<1>1. PICK n \in Nat : n = Len(p.fields) /\ p.fields = [i \in 1..n |-> p.fields[i]]
  BY FieldsIs
<1>2. \A i \in 1..n : p.fields[i] \in Value
  BY <1>1, FieldsIs, Int32IsInt DEF Value
<1> HIDE DEF Value
<1>3. p.fields \in [1..n -> Value]
  BY <1>1, <1>2
<1>4. p.fields \in Seq(Value)
  BY <1>3
<1>. QED BY <1>1, <1>4

LEMMA ReachedIs ==
  ASSUME NEW d \in Directions, NEW p, WellFormed(d, p), NEW fl, IsLaid(fl, d, p),
         NEW size \in Nat, NEW b \in Buffer(size), Lies(b, fl[Len(p.fields)]),
         NEW k \in 0..Len(p.fields), NEW c, c = SetReadPos(b, b.read + Len(fl[k]))
  PROVE  /\ c \in Buffer(size) /\ c.bytes = b.bytes /\ c.used = b.used
         /\ c.read = b.read + Len(fl[k])
         /\ Reached(fl, p, b, k) \in Progress(size)
<1>1. PICK n \in Nat : n = Len(p.fields)
  BY FieldsIs
<1>2. Len(fl[k]) \in Nat /\ Len(fl[n]) \in Nat /\ Len(fl[k]) <= Len(fl[n])
  <2>1. n \in 0..Len(p.fields) /\ k \in 0..n
    BY <1>1
  <2>. QED BY <2>1, LaidOutGrows
<1>3. b.read + Len(fl[k]) \in 0..b.used
  <2>1. b.read + Len(fl[n]) <= b.used
    BY <1>1 DEF Lies
  <2>. QED BY <1>2, <2>1, BufferParts
<1>4. /\ c \in Buffer(size) /\ c.bytes = b.bytes /\ c.used = b.used
      /\ c.read = b.read + Len(fl[k])
  BY <1>3, SetReadPosType
<1>5. PICK fs \in Seq(Value) : fs = SubSeq(p.fields, 1, k)
  <2> HIDE DEF Value
  <2>. QED BY ValuesAre, PrefixType
<1>6. Reached(fl, p, b, k) = [ok |-> TRUE, fields |-> fs, buf |-> c]
  BY <1>5, Zenon DEF Reached
<1>7. Reached(fl, p, b, k) \in Progress(size)
  <2> HIDE DEF Value
  <2>. QED BY <1>4, <1>6 DEF Progress
<1>. QED BY <1>4, <1>7

\* The next field is the next that was written.
GetsField(d, p, i, b, fs) ==
  ReadField([ok |-> TRUE, fields |-> fs, buf |-> b], KindOf(d, p, i))
    = [ok     |-> TRUE,
       fields |-> Append(fs, p.fields[i]),
       buf    |-> SetReadPos(b, b.read + Len(Field(d, p, i)))]

LEMMA FieldIsGot ==
  ASSUME NEW d \in Directions, NEW p, WellFormed(d, p), NEW i \in 1..Len(p.fields),
         NEW size \in Nat, IsShort(size), NEW b \in Buffer(size), Lies(b, Field(d, p, i)), NEW fs
  PROVE  GetsField(d, p, i, b, fs)
BY FieldGets, Zenon DEF GetsField

LEMMA Within ==
  ASSUME NEW x \in Nat, NEW y \in Nat, NEW z \in Nat, NEW l \in Nat, NEW r \in Nat,
         y = x + z, y <= l, NEW i \in 1..z
  PROVE  \E j \in 1..y : j = x + i /\ j \in 1..l /\ r + j = (r + x) + i
<1>1. x + i \in 1..y /\ x + i \in 1..l /\ r + (x + i) = (r + x) + i
  OBVIOUS
<1>. QED BY <1>1

LEMMA ReachesNext ==
  ASSUME NEW d \in Directions, NEW p, WellFormed(d, p), NEW fl, IsLaid(fl, d, p),
         NEW size \in Nat, IsShort(size), NEW b \in Buffer(size), Lies(b, fl[Len(p.fields)]),
         NEW k \in 1..Len(p.fields)
  PROVE  ReadField(Reached(fl, p, b, k - 1), KindOf(d, p, k)) = Reached(fl, p, b, k)
<1>1. PICK n \in Nat : n = Len(p.fields)
  BY FieldsIs
<1>2. /\ k - 1 \in 0..Len(p.fields) /\ k \in 0..Len(p.fields)
      /\ Len(fl[k - 1]) \in Nat /\ Len(fl[k]) \in Nat /\ Len(Field(d, p, k)) \in Nat
      /\ Len(fl[k]) = Len(fl[k - 1]) + Len(Field(d, p, k))
      /\ \A i \in 1..Len(Field(d, p, k)) : fl[k][Len(fl[k - 1]) + i] = Field(d, p, k)[i]
  <2>1. LaysField(fl, d, p, k)
    BY FieldIsLaid
  <2>. QED BY <2>1, Zenon DEF LaysField
<1>3. PICK x \in Nat, y \in Nat, z \in Nat : /\ x = Len(fl[k - 1]) /\ y = Len(fl[k])
                                             /\ z = Len(Field(d, p, k)) /\ y = x + z
  BY <1>2
<1>4. PICK data \in Seq(Byte) : data = Field(d, p, k) /\ Len(data) = z
  BY <1>3, FieldType
<1>5. PICK c \in Buffer(size) : /\ c = SetReadPos(b, b.read + x)
                                /\ c.bytes = b.bytes /\ c.used = b.used /\ c.read = b.read + x
  BY <1>2, <1>3, ReachedIs
<1>6. /\ Len(fl[n]) \in Nat /\ y <= Len(fl[n])
      /\ \A i \in 1..y : fl[n][i] = fl[k][i]
  <2>1. n \in 0..Len(p.fields) /\ k \in 0..n
    BY <1>1
  <2>2. /\ Len(fl[n]) \in Nat /\ Len(fl[k]) <= Len(fl[n])
        /\ \A i \in 1..Len(fl[k]) : fl[n][i] = fl[k][i]
    BY <2>1, LaidOutGrows
  <2>. QED BY <1>3, <2>2, Zenon
<1>7. /\ b.read + Len(fl[n]) <= b.used
      /\ \A i \in 1..Len(fl[n]) : b.bytes[b.read + i] = fl[n][i]
  BY <1>1 DEF Lies
<1>8. PICK r \in Nat, u \in Nat, l \in Nat : r = b.read /\ u = b.used /\ l = Len(fl[n])
  BY <1>6, BufferParts
<1>9. Lies(c, data)
  <2>1. c.read = r + x /\ c.used = u /\ r + l <= u /\ y <= l
    BY <1>5, <1>6, <1>7, <1>8, Zenon
  <2>2. c.read + z <= c.used
    BY <1>3, <2>1
  <2>3. ASSUME NEW i \in 1..z
        PROVE  c.bytes[c.read + i] = data[i]
    <3>1. PICK j \in 1..y : j = x + i /\ j \in 1..l /\ r + j = (r + x) + i
      <4>1. y = x + z /\ y <= l
        BY <1>3, <2>1
      <4>. QED BY <4>1, Within
    <3>2. j = x + i /\ j \in 1..Len(fl[n]) /\ b.read + j = c.read + i
      BY <1>8, <2>1, <3>1, Zenon
    <3>3. fl[n][j] = fl[k][j] /\ b.bytes[b.read + j] = fl[n][j]
      BY <1>6, <1>7, <3>2
    <3>4. fl[k][j] = data[i]
      BY <1>2, <1>3, <1>4, <3>2
    <3>. QED BY <1>5, <3>2, <3>3, <3>4
  <2>. QED BY <1>4, <2>2, <2>3 DEF Lies
<1>10. PICK fs : fs = SubSeq(p.fields, 1, k - 1)
  OBVIOUS
<1>11. Reached(fl, p, b, k - 1) = [ok |-> TRUE, fields |-> fs, buf |-> c]
  BY <1>3, <1>5, <1>10, Zenon DEF Reached
<1>12. ReadField([ok |-> TRUE, fields |-> fs, buf |-> c], KindOf(d, p, k))
         = [ok |-> TRUE, fields |-> Append(fs, p.fields[k]), buf |-> SetReadPos(c, c.read + z)]
  <2>1. Lies(c, Field(d, p, k))
    BY <1>4, <1>9, Zenon
  <2>2. ReadField([ok |-> TRUE, fields |-> fs, buf |-> c], KindOf(d, p, k))
          = [ok     |-> TRUE,
             fields |-> Append(fs, p.fields[k]),
             buf    |-> SetReadPos(c, c.read + Len(Field(d, p, k)))]
    <3>1. GetsField(d, p, k, c, fs)
      BY <2>1, FieldIsGot
    <3>. QED BY <3>1, Zenon DEF GetsField
  <2>. QED BY <1>3, <2>2, Zenon
<1>13. Append(fs, p.fields[k]) = SubSeq(p.fields, 1, k)
  BY <1>10, ValuesAre, PrefixGrows, Zenon
<1>14. SetReadPos(c, c.read + z) = SetReadPos(b, b.read + Len(fl[k]))
  <2>1. PICK at : at = c.read + z
    OBVIOUS
  <2>2. at = b.read + y
    <3>1. (r + x) + z = r + y
      BY <1>3
    <3>. QED BY <1>5, <1>8, <2>1, <3>1, Zenon
  <2>3. SetReadPos(c, at) = SetReadPos(b, at)
    BY <1>5, SetReadPosTwice
  <2>. QED BY <1>3, <2>1, <2>2, <2>3, Zenon
<1>. QED BY <1>11, <1>12, <1>13, <1>14, Zenon DEF Reached

\* The next fields are the next that were written.
LEMMA FieldsRead ==
  ASSUME NEW d \in Directions, NEW p, WellFormed(d, p), NEW fl, IsLaid(fl, d, p),
         NEW size \in Nat, IsShort(size), NEW b \in Buffer(size), Lies(b, fl[Len(p.fields)]),
         NEW j \in 0..Len(p.fields), NEW kinds \in Seq({"string", "int"}),
         j + Len(kinds) <= Len(p.fields),
         \A i \in 1..Len(kinds) : kinds[i] = KindOf(d, p, j + i)
  PROVE  FoldLeft(ReadField, Reached(fl, p, b, j), kinds) = Reached(fl, p, b, j + Len(kinds))
<1>1. PICK n \in Nat, m \in Nat : n = Len(p.fields) /\ m = Len(kinds)
  BY FieldsIs, LenProperties
<1>2. PICK base \in Progress(size) : base = Reached(fl, p, b, j)
  BY ReachedIs
<1>3. PICK f \in [0..Len(kinds) -> Progress(size)] :
             /\ f[0] = base /\ f[Len(kinds)] = FoldLeft(ReadField, base, kinds)
             /\ \A k \in 1..Len(kinds) : f[k] = ReadField(f[k - 1], kinds[k])
  <2>1. PICK f : ReadsOn(f, size, base, kinds)
    BY ReadsAlong
  <2>. QED BY <2>1, Zenon DEF ReadsOn
<1> DEFINE S == {k \in Nat : k <= m => f[k] = Reached(fl, p, b, j + k)}
<1>4. 0 \in S
  <2>1. j + 0 = j
    OBVIOUS
  <2>. QED BY <1>2, <1>3, <2>1
<1>5. ASSUME NEW k \in S
      PROVE  k + 1 \in S
  <2>1. k \in Nat /\ k + 1 \in Nat
    OBVIOUS
  <2> SUFFICES ASSUME k + 1 <= m
               PROVE  f[k + 1] = Reached(fl, p, b, j + (k + 1))
    BY <2>1
  <2>2. PICK i \in 1..m : i = k + 1 /\ i - 1 = k
    BY <2>1
  <2>3. PICK l \in 1..n : l = j + i /\ l - 1 = j + k
    BY <1>1, <2>1, <2>2
  <2>4. f[k] = Reached(fl, p, b, l - 1)
    <3>1. k <= m
      BY <2>1
    <3>2. f[k] = Reached(fl, p, b, j + k)
      BY <3>1
    <3>. QED BY <2>3, <3>2, Zenon
  <2>5. f[i] = ReadField(f[k], KindOf(d, p, l))
    BY <1>1, <1>3, <2>2, <2>3
  <2>6. ReadField(Reached(fl, p, b, l - 1), KindOf(d, p, l)) = Reached(fl, p, b, l)
    BY <1>1, ReachesNext
  <2>. QED BY <2>2, <2>3, <2>4, <2>5, <2>6, Zenon
<1> HIDE DEF S
<1>6. \A k \in Nat : k \in S
  <2>1. S \in SUBSET Nat
    BY DEF S
  <2>. QED BY <1>4, <1>5, <2>1, Induct
<1>7. f[m] = Reached(fl, p, b, j + m)
  <2>1. m \in S /\ m <= m
    BY <1>6
  <2>. QED BY <2>1 DEF S
<1>. QED BY <1>1, <1>2, <1>3, <1>7, Zenon

\* A port takes eight bytes.
LEMMA PortsLie ==
  ASSUME NEW d \in Directions, NEW p, WellFormed(d, p), NEW fl, IsLaid(fl, d, p),
         IsNodeInfo(d, p.opcode)
  PROVE  /\ 2 \in 1..Len(p.fields) /\ p.fields[2] \in Nat
         /\ Len(p.fields) = 2 + 2 * p.fields[2]
         /\ \A i \in 1 .. 2 * p.fields[2] : KindOf(d, p, 2 + i) = "int"
         /\ Len(fl[2]) \in Nat
         /\ Len(fl[Len(p.fields)]) = Len(fl[2]) + 8 * p.fields[2]
<1>1. PICK n \in Nat : n = Len(p.fields)
  BY FieldsIs
<1>2. PICK ks \in Seq({"string", "int"}) : ks = Written(d, p.opcode) /\ ks = <<"string", "int">>
  BY KindsIs, FieldsIs
<1>3. Len(ks) = 2 /\ DOMAIN ks = 1..2 /\ ks[2] = "int"
  BY <1>2
<1>4. 2 <= n /\ n = 2 + 2 * p.fields[2]
  <2>1. /\ Len(Written(d, p.opcode)) <= Len(p.fields)
        /\ Len(p.fields) = Len(Written(d, p.opcode))
                           + IF IsNodeInfo(d, p.opcode) THEN 2 * p.fields[2] ELSE 0
    BY Zenon DEF WellFormed
  <2>. QED BY <1>1, <1>2, <1>3, <2>1, Zenon
<1>5. 2 \in 1..n
  BY <1>4
<1>6. p.fields[2] \in Int
  <2>1. KindOf(d, p, 2) = "int"
    <3>1. 2 \in DOMAIN ks
      BY <1>3
    <3>. QED BY <1>2, <1>3, <3>1, Zenon DEF KindOf
  <2>2. KindOf(d, p, 2) # "string"
    BY <2>1
  <2>. QED BY <1>1, <1>5, <2>2, FieldsIs, Int32IsInt, Zenon
<1>7. PICK a \in Nat : a = p.fields[2] /\ n = 2 + 2 * a
  <2>1. PICK a \in Int : a = p.fields[2]
    BY <1>6
  <2>2. n = 2 + 2 * a /\ 2 <= n
    BY <1>4, <2>1, Zenon
  <2>3. a \in Nat
    BY <2>2
  <2>. QED BY <2>1, <2>2, <2>3
<1>8. ASSUME NEW i \in 1 .. 2 * a
      PROVE  2 + i \in 1..n /\ KindOf(d, p, 2 + i) = "int"
  <2>1. 2 + i \in 1..n /\ 2 + i \notin 1..2
    BY <1>7
  <2>. QED BY <1>2, <1>3, <2>1 DEF KindOf
<1>9. Len(fl[2]) \in Nat
  <2>1. LaysField(fl, d, p, 2)
    BY <1>1, <1>5, FieldIsLaid
  <2>. QED BY <2>1, Zenon DEF LaysField
<1> DEFINE S == {i \in Nat : i <= 2 * a => Len(fl[2 + i]) = Len(fl[2]) + 4 * i}
<1>10. 0 \in S
  <2>1. 2 + 0 = 2 /\ Len(fl[2]) + 4 * 0 = Len(fl[2])
    BY <1>9
  <2>. QED BY <2>1
<1>11. ASSUME NEW i \in S
       PROVE  i + 1 \in S
  <2>1. i \in Nat /\ i + 1 \in Nat
    OBVIOUS
  <2> SUFFICES ASSUME i + 1 <= 2 * a
               PROVE  Len(fl[2 + (i + 1)]) = Len(fl[2]) + 4 * (i + 1)
    BY <2>1
  <2>2. i <= 2 * a /\ i + 1 \in 1 .. 2 * a
    BY <2>1
  <2>3. Len(fl[2 + i]) = Len(fl[2]) + 4 * i
    BY <2>2
  <2>4. PICK k \in 1..n : k = 2 + (i + 1) /\ k - 1 = 2 + i
    BY <1>8, <2>2
  <2>5. KindOf(d, p, k) = "int"
    BY <1>8, <2>2, <2>4
  <2>6. Len(Field(d, p, k)) = 4
    <3>1. KindOf(d, p, k) # "string"
      BY <2>5
    <3>2. PICK v \in Int : v = p.fields[k]
      BY <1>1, <3>1, FieldsIs, Int32IsInt, Zenon
    <3>3. Field(d, p, k) = IntBytes(v)
      BY <3>1, <3>2, Zenon DEF Field, Coded
    <3>. QED BY <3>3, IntBytesType
  <2>7. Len(fl[k]) = Len(fl[k - 1]) + Len(Field(d, p, k))
    <3>1. LaysField(fl, d, p, k)
      BY <1>1, FieldIsLaid
    <3>. QED BY <3>1, Zenon DEF LaysField
  <2>8. PICK x \in Nat : x = Len(fl[2])
    BY <1>9
  <2>9. Len(fl[k]) = (x + 4 * i) + 4
    BY <2>3, <2>4, <2>6, <2>7, <2>8, Zenon
  <2>10. (x + 4 * i) + 4 = x + 4 * (i + 1)
    BY <2>1
  <2>. QED BY <2>4, <2>8, <2>9, <2>10, Zenon
<1> HIDE DEF S
<1>12. \A i \in Nat : i \in S
  <2>1. S \in SUBSET Nat
    BY DEF S
  <2>. QED BY <1>10, <1>11, <2>1, Induct
<1>13. Len(fl[n]) = Len(fl[2]) + 8 * a
  <2>1. PICK i \in Nat : i = 2 * a /\ i <= 2 * a /\ 4 * i = 8 * a /\ 2 + i = n
    BY <1>7
  <2>2. Len(fl[2 + i]) = Len(fl[2]) + 4 * i
    BY <1>12, <2>1 DEF S
  <2>. QED BY <2>1, <2>2
<1>. QED BY <1>1, <1>5, <1>7, <1>8, <1>9, <1>13

\* A content that is all there is read back as the packet's fields.
LEMMA ReadImplGets ==
  ASSUME NEW d \in Directions, NEW p, WellFormed(d, p),
         NEW size \in Nat, IsShort(size), NEW b \in Buffer(size), Lies(b, BodyOf(d, p))
  PROVE  ReadImpl(b, d, p.opcode)
           = [ok |-> TRUE, fields |-> p.fields, buf |-> SetReadPos(b, b.read + Len(BodyOf(d, p)))]
<1>1. PICK n \in Nat : n = Len(p.fields)
  BY FieldsIs
<1>2. PICK fl : IsLaid(fl, d, p) /\ fl[n] = BodyOf(d, p)
  BY <1>1, LaidOut, Zenon
<1>3. Lies(b, fl[Len(p.fields)])
  BY <1>1, <1>2, Zenon
<1>4. PICK o \in Registered : o = p.opcode
  BY FieldsIs
<1>5. PICK ks \in Seq({"string", "int"}) : ks = Written(d, o) /\ ks = ReadAs(d, o)
  BY KindsIs, Zenon
<1>6. PICK m \in Nat : m = Len(ks) /\ DOMAIN ks = 1..m
  BY LenProperties
<1>7. /\ m <= n
      /\ n = m + IF IsNodeInfo(d, o) THEN 2 * p.fields[2] ELSE 0
  BY <1>1, <1>4, <1>5, <1>6, Zenon DEF WellFormed
<1>8. [ok |-> TRUE, fields |-> <<>>, buf |-> b] = Reached(fl, p, b, 0)
  <2>1. SubSeq(p.fields, 1, 0) = <<>>
    BY SubSeqEmpty
  <2>2. fl[0] = <<>> /\ Len(fl[0]) = 0
    BY <1>2, EmptySeq DEF IsLaid
  <2>3. SetReadPos(b, b.read + 0) = b
    <3>1. b.read + 0 = b.read
      BY BufferParts
    <3>2. SetReadPos(b, b.read) = b
      BY DEF SetReadPos, Buffer
    <3>. QED BY <3>1, <3>2, Zenon
  <2>. QED BY <2>1, <2>2, <2>3, Zenon DEF Reached
<1>9. FoldLeft(ReadField, Reached(fl, p, b, 0), ks) = Reached(fl, p, b, m)
  <2>1. 0 \in 0..Len(p.fields) /\ 0 + Len(ks) = m /\ 0 + Len(ks) <= Len(p.fields)
    BY <1>1, <1>6, <1>7
  <2>2. ASSUME NEW i \in 1..Len(ks)
        PROVE  ks[i] = KindOf(d, p, 0 + i)
    <3>1. 0 + i = i /\ i \in DOMAIN ks
      BY <1>6
    <3>. QED BY <1>4, <1>5, <3>1, Zenon DEF KindOf
  <2>3. FoldLeft(ReadField, Reached(fl, p, b, 0), ks) = Reached(fl, p, b, 0 + Len(ks))
    BY <1>2, <1>3, <2>1, <2>2, FieldsRead
  <2>. QED BY <2>1, <2>3
<1>10. PICK c \in Buffer(size) : /\ c = SetReadPos(b, b.read + Len(fl[m]))
                                 /\ c.used = b.used /\ c.read = b.read + Len(fl[m])
  <2>1. m \in 0..Len(p.fields)
    BY <1>1, <1>7
  <2>. QED BY <1>2, <1>3, <2>1, ReachedIs
<1>11. PICK fixed : /\ fixed = Reached(fl, p, b, m) /\ fixed.ok
                    /\ fixed.fields = SubSeq(p.fields, 1, m) /\ fixed.buf = c
  <2>1. PICK fs : fs = SubSeq(p.fields, 1, m)
    OBVIOUS
  <2>2. PICK fixed : fixed = [ok |-> TRUE, fields |-> fs, buf |-> c]
    OBVIOUS
  <2>3. fixed = Reached(fl, p, b, m)
    BY <1>10, <2>1, <2>2, Zenon DEF Reached
  <2>4. fixed.ok /\ fixed.fields = fs /\ fixed.buf = c
    BY <2>2
  <2>. QED BY <2>1, <2>3, <2>4, Zenon
<1>12. ReadImpl(b, d, o) = IF IsNodeInfo(d, o)
                           THEN FoldLeft(ReadField, fixed, PortFields(fixed.fields[2], c))
                           ELSE fixed
  BY <1>5, <1>8, <1>9, <1>11, Zenon DEF ReadImpl
<1>13. ReadImpl(b, d, o) = Reached(fl, p, b, n)
  <2>1. CASE ~IsNodeInfo(d, o)
    <3>1. n = m
      BY <1>7, <2>1
    <3>. QED BY <1>11, <1>12, <2>1, <3>1, Zenon
  <2>2. CASE IsNodeInfo(d, o)
    <3>1. /\ 2 \in 1..Len(p.fields) /\ p.fields[2] \in Nat
          /\ Len(p.fields) = 2 + 2 * p.fields[2]
          /\ \A i \in 1 .. 2 * p.fields[2] : KindOf(d, p, 2 + i) = "int"
          /\ Len(fl[2]) \in Nat
          /\ Len(fl[Len(p.fields)]) = Len(fl[2]) + 8 * p.fields[2]
      BY <1>2, <1>4, <2>2, PortsLie
    <3>2. PICK a \in Nat : a = p.fields[2] /\ n = 2 + 2 * a
      BY <1>1, <3>1
    <3>3. m = 2
      <4>1. ks = <<"string", "int">>
        BY <1>5, <2>2, KindsIs, Zenon
      <4>. QED BY <1>6, <4>1
    <3>4. fixed.fields[2] = a
      <4>1. PICK s \in Seq(Value) : s = p.fields
        BY ValuesAre
      <4>2. \A i \in 1..2 : s[i] \in Value
        <5> HIDE DEF Value
        <5>1. \A i \in 1..2 : i \in 1..Len(s)
          <6>1. Len(s) = n /\ 2 <= n
            BY <1>1, <1>7, <3>3, <4>1, Zenon
          <6>. QED BY <6>1
        <5>. QED BY <5>1, ElementOfSeq
      <4>3. SubSeq(s, 1, 2)[2] = s[1 + 2 - 1]
        <5> HIDE DEF Value
        <5>1. 2 \in 1 .. 2 - 1 + 1
          OBVIOUS
        <5>. QED BY <4>2, <5>1, SubSeqProperties
      <4>4. 1 + 2 - 1 = 2
        OBVIOUS
      <4>. QED BY <1>11, <3>2, <3>3, <4>1, <4>3, <4>4, Zenon
    <3>5. 8 * a <= c.used - c.read
      <4>1. PICK r \in Nat, u \in Nat, x \in Nat : r = b.read /\ u = b.used /\ x = Len(fl[2])
        BY <3>1, BufferParts
      <4>2. Len(fl[Len(p.fields)]) = x + 8 * a
        BY <3>1, <3>2, <4>1, Zenon
      <4>3. r + (x + 8 * a) <= u
        BY <1>3, <4>1, <4>2, Zenon DEF Lies
      <4>4. c.used = u /\ c.read = r + x
        BY <1>10, <3>3, <4>1, Zenon
      <4>. QED BY <4>3, <4>4
    <3>6. PICK ports : ports = PortFields(a, c) /\ ports = [i \in 1 .. 2 * a |-> "int"]
      <4>1. PICK e \in Int : e = a
        OBVIOUS
      <4>2. e \in Nat /\ 8 * e <= c.used - c.read
        BY <3>5, <4>1
      <4>3. PortFields(e, c) = [i \in 1 .. 2 * e |-> "int"]
        BY <4>2, PortFieldsIs, Zenon
      <4>. QED BY <4>1, <4>3, Zenon
    <3>7. ports \in Seq({"string", "int"})
      <4>1. PICK e \in Int : e = a
        OBVIOUS
      <4>2. PortFields(e, c) \in Seq({"string", "int"})
        BY PortFieldsIs
      <4>. QED BY <3>6, <4>1, <4>2, Zenon
    <3>8. Len(ports) = 2 * a /\ \A i \in 1..Len(ports) : ports[i] = "int"
      <4>1. PICK l \in Nat : l = 2 * a
        OBVIOUS
      <4>2. ports = [i \in 1..l |-> "int"]
        BY <3>6, <4>1
      <4>. QED BY <4>1, <4>2
    <3>9. 2 + Len(ports) = n /\ 2 + Len(ports) <= Len(p.fields) /\ 2 \in 0..Len(p.fields)
      BY <1>1, <3>2, <3>8
    <3>10. \A i \in 1..Len(ports) : ports[i] = KindOf(d, p, 2 + i)
      BY <3>1, <3>2, <3>8
    <3>11. FoldLeft(ReadField, Reached(fl, p, b, 2), ports) = Reached(fl, p, b, 2 + Len(ports))
      BY <1>2, <1>3, <3>7, <3>9, <3>10, FieldsRead
    <3>12. ReadImpl(b, d, o) = FoldLeft(ReadField, Reached(fl, p, b, 2), ports)
      BY <1>11, <1>12, <2>2, <3>3, <3>4, <3>6, Zenon
    <3>. QED BY <3>9, <3>11, <3>12
  <2>. QED BY <2>1, <2>2
<1>14. SubSeq(p.fields, 1, n) = p.fields
  <2> HIDE DEF Value
  <2>. QED BY <1>1, ValuesAre, SubSeqFull
<1>. QED BY <1>2, <1>4, <1>13, <1>14, Zenon DEF Reached

-----------------------------------------------------------------------------
(* handlePacket.                                                             *)

LEMMA CompactIs ==
  ASSUME NEW size \in Nat, NEW b \in Buffer(size)
  PROVE  /\ Compact(b) \in Buffer(size)
         /\ Compact(b).read = 0 /\ Compact(b).used = b.used - b.read
         /\ \A i \in 1 .. b.used - b.read : Compact(b).bytes[i] = b.bytes[b.read + i]
<1>1. PICK n \in Nat : n = b.used - b.read /\ n <= size
  BY BufferParts
<1>2. PICK data \in Seq(Byte) : /\ data = Unread(b) /\ Len(data) = n
                                /\ \A i \in 1..n : data[i] = b.bytes[b.read + i]
  BY <1>1, UnreadIs
<1>3. PICK empty \in [1..size -> Byte] : empty = Reset(b).bytes
  BY ResetIs, BufferParts
<1>4. PICK bytes \in [1..size -> Byte] : /\ bytes = Overwrite(empty, 0, data)
                                         /\ \A i \in 1..n : bytes[0 + i] = data[i]
  <2>1. 0 + Len(data) <= size
    BY <1>1, <1>2
  <2>. QED BY <1>2, <2>1, OverwriteIs
<1>5. Compact(b) = [bytes |-> bytes, read |-> 0, used |-> n]
  BY <1>1, <1>2, <1>3, <1>4, Zenon DEF Compact, RemainingReadSize
<1>6. Compact(b) \in Buffer(size) /\ Compact(b).bytes = bytes
  BY <1>1, <1>5 DEF Buffer
<1>7. \A i \in 1..n : bytes[i] = b.bytes[b.read + i]
  BY <1>2, <1>4
<1>. QED BY <1>1, <1>5, <1>6, <1>7

Outcomes == {"packet", "none", "throws", "undefined"}

LEMMA HandledIs ==
  ASSUME NEW what \in Outcomes, NEW size, NEW c \in Buffer(size)
  PROVE  /\ Handled(what, c).outcome = what /\ Handled(what, c).outcome \in Outcomes
         /\ Handled(what, c).buf = c /\ Handled(what, c).buf \in Buffer(size)
BY DEF Handled

LEMMA HandledPacketIs ==
  ASSUME NEW p, NEW size, NEW c \in Buffer(size)
  PROVE  /\ HandledPacket(p, c).outcome = "packet" /\ HandledPacket(p, c).outcome \in Outcomes
         /\ HandledPacket(p, c).packet = p
         /\ HandledPacket(p, c).buf = c /\ HandledPacket(p, c).buf \in Buffer(size)
BY DEF HandledPacket, Outcomes

LEMMA MakePacketType ==
  ASSUME NEW size \in Nat, NEW b \in Buffer(size), NEW d \in Directions, NEW o,
         NEW h, h = MakePacket(o, b, d)
  PROVE  h.buf \in Buffer(size) /\ h.outcome \in Outcomes
<1>1. PICK impl : impl = ReadImpl(b, d, o)
  OBVIOUS
<1>2. "undefined" \in Outcomes /\ "throws" \in Outcomes
  BY DEF Outcomes
<1>3. CASE o < 0
  <2>1. h = Handled("undefined", b)
    BY <1>3, Zenon DEF MakePacket
  <2>2. Handled("undefined", b).buf \in Buffer(size) /\ Handled("undefined", b).outcome \in Outcomes
    BY <1>2, HandledIs
  <2>. QED BY <2>1, <2>2, Zenon
<1>4. CASE ~(o < 0) /\ o \notin Registered
  <2>1. h = Handled("throws", b)
    BY <1>4, Zenon DEF MakePacket
  <2>2. Handled("throws", b).buf \in Buffer(size) /\ Handled("throws", b).outcome \in Outcomes
    BY <1>2, HandledIs
  <2>. QED BY <2>1, <2>2, Zenon
<1>5. CASE ~(o < 0) /\ o \in Registered
  <2>1. PICK c \in Buffer(size) : c = impl.buf
    <3>1. impl \in Progress(size)
      BY <1>1, <1>5, ReadImplType, Zenon
    <3>. QED BY <3>1 DEF Progress
  <2>2. CASE ~impl.ok
    <3>1. h = Handled("throws", c)
      BY <1>1, <1>5, <2>1, <2>2, Zenon DEF MakePacket
    <3>2. Handled("throws", c).buf \in Buffer(size) /\ Handled("throws", c).outcome \in Outcomes
      BY <1>2, HandledIs
    <3>. QED BY <3>1, <3>2, Zenon
  <2>3. CASE impl.ok
    <3>1. PICK p : p = [opcode |-> o, fields |-> impl.fields]
      OBVIOUS
    <3>2. h = HandledPacket(p, c)
      BY <1>1, <1>5, <2>1, <2>3, <3>1, Zenon DEF MakePacket
    <3>3. HandledPacket(p, c).buf \in Buffer(size) /\ HandledPacket(p, c).outcome \in Outcomes
      BY HandledPacketIs
    <3>. QED BY <3>2, <3>3, Zenon
  <2>. QED BY <2>2, <2>3
<1>. QED BY <1>3, <1>4, <1>5

\* Whatever the bytes are, handling leaves a buffer.
LEMMA HandleType ==
  ASSUME NEW size \in Nat, NEW b \in Buffer(size), NEW d \in Directions,
         NEW h, h = HandlePacket(b, d)
  PROVE  h.buf \in Buffer(size) /\ h.outcome \in Outcomes
<1>1. PICK opcode, length : opcode = ReadChar(b) /\ length = ReadShort(opcode.buf)
  OBVIOUS
<1>2. PICK c \in Buffer(size) : c = length.buf
  <2>1. PICK a \in Buffer(size) : a = opcode.buf
    BY <1>1, ReadCharIs
  <2>. QED BY <1>1, <2>1, ReadShortIs
<1>3. PICK e \in Buffer(size) : e = Compact(b)
  BY CompactIs
<1>4. "none" \in Outcomes /\ "throws" \in Outcomes
  BY DEF Outcomes
<1>5. \/ h = Handled("none", b)
      \/ h = Handled("throws", c)
      \/ h = Handled("none", e)
      \/ h = MakePacket(opcode.value, c, d)
  BY <1>1, <1>2, <1>3, Zenon DEF HandlePacket
<1>6. CASE h = MakePacket(opcode.value, c, d)
  BY <1>6, MakePacketType, Zenon
<1>7. /\ Handled("none", b).buf \in Buffer(size) /\ Handled("none", b).outcome \in Outcomes
      /\ Handled("throws", c).buf \in Buffer(size) /\ Handled("throws", c).outcome \in Outcomes
      /\ Handled("none", e).buf \in Buffer(size) /\ Handled("none", e).outcome \in Outcomes
  BY <1>4, HandledIs
<1>. QED BY <1>5, <1>6, <1>7, Zenon

\* The header is read back.
LEMMA HeaderGets ==
  ASSUME NEW size \in Nat, NEW b \in Buffer(size), b.read + 3 <= b.used,
         NEW o \in Registered, NEW l \in Nat, IsShort(l),
         b.bytes[b.read + 1] = o,
         b.bytes[b.read + 2] = ShortBytes(l)[1], b.bytes[b.read + 3] = ShortBytes(l)[2]
  PROVE  /\ ReadChar(b).value = o
         /\ SetReadPos(b, b.read + 3) \in Buffer(size)
         /\ SetReadPos(b, b.read + 3).read = b.read + 3
         /\ SetReadPos(b, b.read + 3).used = b.used
         /\ SetReadPos(b, b.read + 3).bytes = b.bytes
         /\ ReadShort(ReadChar(b).buf) = [ok |-> TRUE, value |-> l, buf |-> SetReadPos(b, b.read + 3)]
<1>1. PICK r \in Nat, u \in Nat : r = b.read /\ u = b.used /\ r + 3 <= u
  BY BufferParts
<1>2. ReadChar(b).ok
  <2>1. b.read + 1 <= b.used
    BY <1>1
  <2>. QED BY <2>1, ReadCharIs, Zenon
<1>3. ReadChar(b).value = o
  <2>1. ReadChar(b).value = Signed(b.bytes[b.read + 1], 256)
    BY <1>2, ReadCharIs, Zenon
  <2>2. Signed(o, 256) = o
    BY SMT DEF Signed, Registered
  <2>. QED BY <2>1, <2>2, Zenon
<1>4. PICK a \in Buffer(size) : /\ a = ReadChar(b).buf /\ a = SetReadPos(b, b.read + 1)
                                /\ a.bytes = b.bytes /\ a.used = u /\ a.read = r + 1
  <2>1. b.read + 1 \in 0..b.used
    BY <1>1
  <2>2. ReadChar(b).buf = SetReadPos(b, b.read + 1)
    BY <1>2, ReadCharIs, Zenon
  <2>3. PICK at \in 0..b.used : at = b.read + 1
    BY <2>1
  <2>4. /\ SetReadPos(b, at) \in Buffer(size)
        /\ SetReadPos(b, at).bytes = b.bytes
        /\ SetReadPos(b, at).used = b.used
        /\ SetReadPos(b, at).read = at
    BY SetReadPosType
  <2>. QED BY <1>1, <2>2, <2>3, <2>4, Zenon
<1>5. PICK c \in Buffer(size) : /\ c = SetReadPos(b, b.read + 3)
                                /\ c.bytes = b.bytes /\ c.used = b.used /\ c.read = b.read + 3
  <2>1. PICK at \in 0..b.used : at = b.read + 3
    BY <1>1
  <2>2. /\ SetReadPos(b, at) \in Buffer(size)
        /\ SetReadPos(b, at).bytes = b.bytes
        /\ SetReadPos(b, at).used = b.used
        /\ SetReadPos(b, at).read = at
    BY SetReadPosType
  <2>. QED BY <2>1, <2>2, Zenon
<1>6. Lies(a, ShortBytes(l))
  <2>1. PICK data : data = ShortBytes(l) /\ Len(data) = 2
    <3>1. l \in Int
      OBVIOUS
    <3>. QED BY <3>1, ShortBytesIs
  <2>2. a.read + 2 <= a.used
    BY <1>1, <1>4
  <2>3. a.bytes[a.read + 1] = data[1] /\ a.bytes[a.read + 2] = data[2]
    <3>1. (r + 1) + 1 = r + 2 /\ (r + 1) + 2 = r + 3
      OBVIOUS
    <3>. QED BY <1>1, <1>4, <2>1, <3>1, Zenon
  <2>4. \A i \in 1..2 : i = 1 \/ i = 2
    OBVIOUS
  <2>. QED BY <2>1, <2>2, <2>3, <2>4, Zenon DEF Lies
<1>7. ReadShort(a) = [ok |-> TRUE, value |-> l, buf |-> SetReadPos(a, a.read + 2)]
  BY <1>6, ReadShortGets, Zenon DEF Got
<1>8. SetReadPos(a, a.read + 2) = c
  <2>1. (r + 1) + 2 = r + 3
    OBVIOUS
  <2>2. SetReadPos(SetReadPos(b, b.read + 1), r + 3) = SetReadPos(b, r + 3)
    BY SetReadPosTwice
  <2>. QED BY <1>1, <1>4, <1>5, <2>1, <2>2, Zenon
<1>. QED BY <1>3, <1>4, <1>5, <1>7, <1>8, Zenon

\* A packet that is all there is made.
LEMMA HandleWhole ==
  ASSUME NEW d \in Directions, NEW p, WellFormed(d, p),
         NEW size \in Nat, IsShort(size), NEW b \in Buffer(size), Lies(b, EncodedIn(d, p)),
         NEW h, h = HandlePacket(b, d)
  PROVE  /\ h.outcome = "packet" /\ h.packet = p
         /\ h.buf \in Buffer(size) /\ h.buf.bytes = b.bytes /\ h.buf.used = b.used
         /\ h.buf.read = b.read + Len(EncodedIn(d, p))
<1>1. PICK e \in Seq(Byte), body \in Seq(Byte), l \in Nat :
             /\ e = EncodedIn(d, p) /\ body = BodyOf(d, p) /\ l = Len(body)
             /\ Len(e) = 3 + l /\ e[1] = p.opcode
             /\ e[2] = ShortBytes(l)[1] /\ e[3] = ShortBytes(l)[2]
             /\ \A i \in 1..l : e[3 + i] = body[i]
  BY EncodedIs DEF Header
<1>2. PICK r \in Nat, u \in Nat : r = b.read /\ u = b.used /\ u <= size
  BY BufferParts
<1>3. r + (3 + l) <= u /\ \A i \in 1 .. 3 + l : b.bytes[r + i] = e[i]
  BY <1>1, <1>2, Zenon DEF Lies
<1>4. PICK o \in Registered : o = p.opcode
  BY FieldsIs
<1>5. IsShort(l)
  BY <1>2, <1>3, SMT DEF IsShort
<1>6. r + 3 <= u /\ b.bytes[r + 1] = o /\ b.bytes[r + 2] = ShortBytes(l)[1] /\ b.bytes[r + 3] = ShortBytes(l)[2]
  <2>1. 1 \in 1 .. 3 + l /\ 2 \in 1 .. 3 + l /\ 3 \in 1 .. 3 + l
    OBVIOUS
  <2>2. r + 3 <= u
    BY <1>3
  <2>. QED BY <1>1, <1>3, <1>4, <2>1, <2>2, Zenon
<1>7. PICK c \in Buffer(size) : /\ c.read = r + 3 /\ c.used = u /\ c.bytes = b.bytes
                                /\ c = SetReadPos(b, r + 3) /\ ReadChar(b).value = o
                                /\ ReadShort(ReadChar(b).buf) = [ok |-> TRUE, value |-> l, buf |-> c]
  <2>1. /\ b.read + 3 <= b.used /\ b.bytes[b.read + 1] = o
        /\ b.bytes[b.read + 2] = ShortBytes(l)[1] /\ b.bytes[b.read + 3] = ShortBytes(l)[2]
    BY <1>2, <1>6, Zenon
  <2>2. /\ ReadChar(b).value = o
        /\ SetReadPos(b, b.read + 3) \in Buffer(size)
        /\ SetReadPos(b, b.read + 3).read = b.read + 3
        /\ SetReadPos(b, b.read + 3).used = b.used
        /\ SetReadPos(b, b.read + 3).bytes = b.bytes
        /\ ReadShort(ReadChar(b).buf) = [ok |-> TRUE, value |-> l, buf |-> SetReadPos(b, b.read + 3)]
    BY <1>5, <2>1, HeaderGets
  <2>. QED BY <1>2, <2>2, Zenon
<1>8. Lies(c, body)
  <2>1. c.read + l <= c.used
    BY <1>3, <1>7
  <2>2. ASSUME NEW i \in 1..l
        PROVE  c.bytes[c.read + i] = body[i]
    <3>1. 3 + i \in 1 .. 3 + l /\ r + (3 + i) = (r + 3) + i
      OBVIOUS
    <3>2. b.bytes[r + (3 + i)] = e[3 + i] /\ e[3 + i] = body[i]
      BY <1>1, <1>3, <3>1
    <3>. QED BY <1>7, <3>1, <3>2
  <2>. QED BY <1>1, <2>1, <2>2 DEF Lies
<1>9. PICK after : after = SetReadPos(c, c.read + l)
  OBVIOUS
<1>10. ReadImpl(c, d, o) = [ok |-> TRUE, fields |-> p.fields, buf |-> after]
  <2>1. Lies(c, BodyOf(d, p))
    BY <1>1, <1>8, Zenon
  <2>. QED BY <1>1, <1>4, <1>9, <2>1, ReadImplGets, Zenon
<1>11. /\ after \in Buffer(size) /\ after.bytes = b.bytes /\ after.used = u
       /\ after.read = r + (3 + l)
  <2>1. PICK at \in 0..c.used : at = c.read + l /\ at = r + (3 + l)
    BY <1>3, <1>7
  <2>2. /\ SetReadPos(c, at) \in Buffer(size)
        /\ SetReadPos(c, at).bytes = c.bytes
        /\ SetReadPos(c, at).used = c.used
        /\ SetReadPos(c, at).read = at
    BY SetReadPosType
  <2>. QED BY <1>7, <1>9, <2>1, <2>2, Zenon
<1>12. MakePacket(o, c, d) = HandledPacket(p, after)
  <2>1. PICK impl, fs : impl = ReadImpl(c, d, o) /\ fs = p.fields
    OBVIOUS
  <2>2. impl = [ok |-> TRUE, fields |-> fs, buf |-> after]
    BY <1>10, <2>1, Zenon
  <2>3. impl.ok /\ impl.fields = fs /\ impl.buf = after
    BY <2>2
  <2>4. ~(o < 0)
    BY DEF Registered
  <2>5. MakePacket(o, c, d) = HandledPacket([opcode |-> o, fields |-> fs], after)
    BY <2>1, <2>3, <2>4, Zenon DEF MakePacket
  <2>6. p = [opcode |-> o, fields |-> fs]
    BY <1>4, <2>1, FieldsIs, Zenon
  <2>. QED BY <2>5, <2>6, Zenon
<1>13. HandlePacket(b, d) = MakePacket(o, c, d)
  <2>1. PICK opcode, length : opcode = ReadChar(b) /\ length = ReadShort(opcode.buf)
    OBVIOUS
  <2>2. length = [ok |-> TRUE, value |-> l, buf |-> c]
    BY <1>7, <2>1, Zenon
  <2>3. length.ok /\ length.value = l /\ length.buf = c
    BY <2>2
  <2>4. RemainingReadSize(b) # 0
    BY <1>2, <1>3 DEF RemainingReadSize
  <2>5. ~(l > Size(b) /\ b.read = 0)
    <3>1. Size(b) = size
      BY BufferParts
    <3>2. l <= size
      BY <1>2, <1>3
    <3>3. ~(l > size)
      BY <3>2
    <3>. QED BY <3>1, <3>3, Zenon
  <2>6. ~(l > RemainingReadSize(c))
    BY <1>3, <1>7 DEF RemainingReadSize
  <2>. QED BY <1>7, <2>1, <2>3, <2>4, <2>5, <2>6, Zenon DEF HandlePacket
<1>14. /\ HandledPacket(p, after).outcome = "packet" /\ HandledPacket(p, after).packet = p
       /\ HandledPacket(p, after).buf = after
  BY <1>11, HandledPacketIs
<1>15. h = HandledPacket(p, after)
  BY <1>12, <1>13, Zenon
<1>16. h.outcome = "packet" /\ h.packet = p /\ h.buf = after
  BY <1>14, <1>15, Zenon
<1>17. r + (3 + l) = b.read + Len(EncodedIn(d, p))
  BY <1>1, <1>2, Zenon
<1>. QED BY <1>2, <1>11, <1>16, <1>17, Zenon

\* A packet that is not all there yet is left, and moved to the front.
LEMMA HandlePart ==
  ASSUME NEW d \in Directions, NEW p, WellFormed(d, p),
         NEW size \in Nat, IsShort(size), NEW b \in Buffer(size),
         b.read + 3 <= b.used, b.used < b.read + Len(EncodedIn(d, p)), Len(EncodedIn(d, p)) <= size,
         \A i \in 1..3 : b.bytes[b.read + i] = EncodedIn(d, p)[i],
         NEW h, h = HandlePacket(b, d)
  PROVE  h.outcome = "none" /\ h.buf = Compact(b)
<1>1. PICK e \in Seq(Byte), l \in Nat :
             /\ e = EncodedIn(d, p)
             /\ Len(e) = 3 + l /\ e[1] = p.opcode
             /\ e[2] = ShortBytes(l)[1] /\ e[3] = ShortBytes(l)[2]
  BY EncodedIs DEF Header
<1>2. PICK r \in Nat, u \in Nat : r = b.read /\ u = b.used
  BY BufferParts
<1>3. r + 3 <= u /\ u < r + (3 + l) /\ 3 + l <= size
  BY <1>1, <1>2, Zenon
<1>4. PICK o \in Registered : o = p.opcode
  BY FieldsIs
<1>5. IsShort(l)
  BY <1>3, SMT DEF IsShort
<1>6. b.bytes[r + 1] = o /\ b.bytes[r + 2] = ShortBytes(l)[1] /\ b.bytes[r + 3] = ShortBytes(l)[2]
  <2>1. 1 \in 1..3 /\ 2 \in 1..3 /\ 3 \in 1..3
    OBVIOUS
  <2>. QED BY <1>1, <1>2, <1>4, <2>1, Zenon
<1>7. PICK c \in Buffer(size) : /\ c.read = r + 3 /\ c.used = u /\ ReadChar(b).value = o
                                /\ ReadShort(ReadChar(b).buf) = [ok |-> TRUE, value |-> l, buf |-> c]
  <2>1. /\ b.read + 3 <= b.used /\ b.bytes[b.read + 1] = o
        /\ b.bytes[b.read + 2] = ShortBytes(l)[1] /\ b.bytes[b.read + 3] = ShortBytes(l)[2]
    BY <1>2, <1>3, <1>6, Zenon
  <2>2. /\ ReadChar(b).value = o
        /\ SetReadPos(b, b.read + 3) \in Buffer(size)
        /\ SetReadPos(b, b.read + 3).read = b.read + 3
        /\ SetReadPos(b, b.read + 3).used = b.used
        /\ SetReadPos(b, b.read + 3).bytes = b.bytes
        /\ ReadShort(ReadChar(b).buf) = [ok |-> TRUE, value |-> l, buf |-> SetReadPos(b, b.read + 3)]
    BY <1>5, <2>1, HeaderGets
  <2>. QED BY <1>2, <2>2, Zenon
<1>8. HandlePacket(b, d) = Handled("none", Compact(b))
  <2>1. PICK opcode, length : opcode = ReadChar(b) /\ length = ReadShort(opcode.buf)
    OBVIOUS
  <2>2. length = [ok |-> TRUE, value |-> l, buf |-> c]
    BY <1>7, <2>1, Zenon
  <2>3. length.ok /\ length.value = l /\ length.buf = c
    BY <2>2
  <2>4. RemainingReadSize(b) # 0
    BY <1>2, <1>3 DEF RemainingReadSize
  <2>5. ~(l > Size(b) /\ b.read = 0)
    <3>1. Size(b) = size
      BY BufferParts
    <3>2. ~(l > size)
      BY <1>3
    <3>. QED BY <3>1, <3>2, Zenon
  <2>6. l > RemainingReadSize(c)
    BY <1>3, <1>7 DEF RemainingReadSize
  <2>. QED BY <2>1, <2>3, <2>4, <2>5, <2>6, Zenon DEF HandlePacket
<1>9. PICK e1 \in Buffer(size) : e1 = Compact(b)
  BY CompactIs
<1>10. "none" \in Outcomes
  BY DEF Outcomes
<1>11. Handled("none", e1).outcome = "none" /\ Handled("none", e1).buf = e1
  BY <1>10, HandledIs
<1>. QED BY <1>8, <1>9, <1>11, Zenon

-----------------------------------------------------------------------------
(* A session: the bytes a buffer still holds lie in the stream from the last *)
(* packet made to the last byte received.                                    *)

Holds(b, st, from, to) ==
  /\ b.used - b.read = to - from
  /\ \A i \in 1 .. to - from : b.bytes[b.read + i] = st[from + i]

Follows(d, st, se, en, at, b, from, hd) ==
  \E k \in 0..Len(se) :
    /\ hd \in Seq(Messages[d]) /\ k + Len(hd) <= Len(se)
    /\ from = Place(en, k)
    /\ \A i \in 1..Len(hd) : hd[i] = se[k + i]
    /\ Place(en, k + Len(hd)) <= at
    /\ Holds(b, st, Place(en, k + Len(hd)), at)

EachWhole(d, se) == \A i \in 1..Len(se) : Len(EncodedIn(d, se[i])) < SizeOf(d)

LEMMA StreamedParts ==
  ASSUME NEW d \in Directions, NEW st, NEW se, NEW en, Streamed(d, st, se, en)
  PROVE  /\ st \in Seq(Byte) /\ Len(st) \in Nat
         /\ se \in Seq(Messages[d]) /\ Len(se) \in Nat
         /\ en \in Seq(Nat) /\ Len(en) = Len(se)
         /\ Len(st) = Place(en, Len(se))
         /\ \A k \in 0..Len(se) : Place(en, k) \in 0..Len(st) /\ Place(en, k) \in Nat
         /\ \A i \in 1..Len(se) : se[i] \in Messages[d]
<1>1. /\ st \in Seq(Byte) /\ se \in Seq(Messages[d]) /\ en \in Seq(Nat)
      /\ Len(en) = Len(se) /\ Len(st) = Place(en, Len(se))
      /\ \A k \in 0..Len(se) : Place(en, k) \in 0..Len(st)
  BY DEF Streamed
<1>2. Len(st) \in Nat /\ Len(se) \in Nat
  BY <1>1, LenProperties
<1>3. \A i \in 1..Len(se) : se[i] \in Messages[d]
  BY <1>1, ElementOfSeq
<1>. QED BY <1>1, <1>2, <1>3

LEMMA PieceIs ==
  ASSUME NEW st \in Seq(Byte), NEW at \in Nat, NEW n \in Nat, at + n <= Len(st)
  PROVE  /\ SubSeq(st, at + 1, at + n) \in Seq(Byte)
         /\ Len(SubSeq(st, at + 1, at + n)) = n
         /\ \A i \in 1..n : SubSeq(st, at + 1, at + n)[i] = st[at + i]
<1>1. Len(st) \in Nat
  BY LenProperties
<1>2. /\ at + 1 \in Int /\ at + n \in Int
      /\ \A i \in at + 1 .. at + n : i \in 1..Len(st)
  BY <1>1
<1>3. \A i \in at + 1 .. at + n : st[i] \in Byte
  BY <1>2, ElementOfSeq
<1>4. /\ (IF at + 1 <= at + n THEN (at + n) - (at + 1) + 1 ELSE 0) = n
      /\ (at + n) - (at + 1) + 1 = n
      /\ \A i \in 1..n : (at + 1) + i - 1 = at + i
  OBVIOUS
<1>. QED BY <1>2, <1>3, <1>4, SubSeqProperties

\* More bytes of the stream behind those that are there.
LEMMA ReceiveHolds ==
  ASSUME NEW size \in Nat, NEW b \in Buffer(size), NEW st \in Seq(Byte),
         NEW at \in Nat, NEW n \in Nat, at + n <= Len(st), b.used + n <= size,
         NEW full, full = Receive(b, SubSeq(st, at + 1, at + n))
  PROVE  /\ full \in Buffer(size) /\ full.used = b.used + n /\ full.read = b.read
         /\ \A from \in 0..at : Holds(b, st, from, at) => Holds(full, st, from, at + n)
<1>1. PICK data \in Seq(Byte) : /\ data = SubSeq(st, at + 1, at + n) /\ Len(data) = n
                                /\ \A i \in 1..n : data[i] = st[at + i]
  BY PieceIs
<1>2. PICK r \in Nat, u \in Nat : r = b.read /\ u = b.used /\ r <= u
  BY BufferParts
<1>3. /\ full \in Buffer(size) /\ full.used = u + n /\ full.read = r
      /\ \A i \in 1..u : full.bytes[i] = b.bytes[i]
      /\ \A i \in 1..n : full.bytes[u + i] = data[i]
  <2>1. b.used + Len(data) <= size
    BY <1>1
  <2>2. /\ full \in Buffer(size) /\ full.used = b.used + Len(data) /\ full.read = b.read
        /\ \A i \in 1..b.used : full.bytes[i] = b.bytes[i]
        /\ \A i \in 1..Len(data) : full.bytes[b.used + i] = data[i]
    <3>1. full = Receive(b, data)
      BY <1>1, Zenon
    <3>2. /\ Receive(b, data) \in Buffer(size)
          /\ Receive(b, data).used = b.used + Len(data)
          /\ Receive(b, data).read = b.read
          /\ \A i \in 1..b.used : Receive(b, data).bytes[i] = b.bytes[i]
          /\ \A i \in 1..Len(data) : Receive(b, data).bytes[b.used + i] = data[i]
      BY <2>1, ReceiveIs
    <3>. QED BY <3>1, <3>2, Zenon
  <2>. QED BY <1>1, <1>2, <2>2, Zenon
<1>4. ASSUME NEW from \in 0..at, Holds(b, st, from, at)
      PROVE  Holds(full, st, from, at + n)
  <2>1. u - r = at - from /\ \A i \in 1 .. at - from : b.bytes[r + i] = st[from + i]
    BY <1>2, <1>4, Zenon DEF Holds
  <2>2. full.used - full.read = (at + n) - from
    <3>1. (u + n) - r = (at + n) - from
      BY <2>1
    <3>. QED BY <1>3, <3>1, Zenon
  <2>3. ASSUME NEW i \in 1 .. (at + n) - from
        PROVE  full.bytes[full.read + i] = st[from + i]
    <3>1. CASE i <= at - from
      <4>1. i \in 1 .. at - from /\ r + i \in 1..u
        BY <2>1, <3>1
      <4>. QED BY <1>3, <2>1, <4>1
    <3>2. CASE ~(i <= at - from)
      <4>1. PICK j \in 1..n : j = i - (at - from) /\ r + i = u + j /\ from + i = at + j
        BY <2>1, <3>2
      <4>2. full.bytes[u + j] = data[j] /\ data[j] = st[at + j]
        BY <1>1, <1>3
      <4>. QED BY <1>3, <4>1, <4>2, Zenon
    <3>. QED BY <3>1, <3>2
  <2>. QED BY <2>2, <2>3 DEF Holds
<1>. QED BY <1>2, <1>3, <1>4

LEMMA Behind ==
  ASSUME NEW r \in Nat, NEW u \in Nat, NEW at \in Nat, NEW to \in Nat, NEW n \in Nat,
         u - r = to - at
  PROVE  u - (r + n) = to - (at + n)
OBVIOUS

\* What is handled is the next packet of the stream, when it is all there.
LEMMA HandlesNext ==
  ASSUME NEW d \in Directions, NEW st, NEW se, NEW en, Streamed(d, st, se, en), EachWhole(d, se),
         NEW b \in Buffer(BufferSize), NEW k \in 0..Len(se), NEW to \in 0..Len(st),
         Place(en, k) + 3 <= to, Holds(b, st, Place(en, k), to),
         NEW h, h = HandlePacket(b, d)
  PROVE  \/ /\ h.outcome = "packet" /\ k + 1 \in 1..Len(se) /\ h.packet = se[k + 1]
            /\ Place(en, k + 1) <= to /\ Holds(h.buf, st, Place(en, k + 1), to)
         \/ h.outcome = "none" /\ Holds(h.buf, st, Place(en, k), to)
<1>1. PICK m \in Nat, l \in Nat : m = Len(se) /\ l = Len(st)
  BY StreamedParts
<1>2. PICK at \in Nat : at = Place(en, k) /\ at + 3 <= to
  BY StreamedParts
<1>3. k + 1 \in 1..m
  <2>1. k # m
    BY <1>1, <1>2, StreamedParts
  <2>. QED BY <1>1, <2>1
<1>4. PICK i \in 1..m : i = k + 1 /\ i - 1 = k
  BY <1>1, <1>3
<1>5. PICK p \in Messages[d] : p = se[i] /\ WellFormed(d, p)
  BY <1>1, StreamedParts, MessagesFit
<1>6. PICK e \in Seq(Byte), n \in Nat :
             /\ e = EncodedIn(d, p) /\ e = Packed(d, p) /\ n = Len(e) /\ 3 <= n /\ n < SizeOf(d)
  <2>1. Len(EncodedIn(d, p)) < SizeOf(d)
    BY <1>1, <1>5 DEF EachWhole
  <2>2. Packed(d, p) = EncodedIn(d, p)
    BY <1>5, <2>1, ImageIs DEF Packed
  <2>3. Packed(d, p) \in Seq(Byte) /\ Len(Packed(d, p)) \in Nat /\ 3 <= Len(Packed(d, p))
    BY PackedIs
  <2>. QED BY <2>1, <2>2, <2>3
<1>7. Place(en, i) = at + n /\ \A j \in 1..n : st[at + j] = e[j]
  <2>1. /\ Place(en, i) = Place(en, i - 1) + Len(Packed(d, se[i]))
        /\ \A j \in 1..Len(Packed(d, se[i])) : st[Place(en, i - 1) + j] = Packed(d, se[i])[j]
    BY <1>1 DEF Streamed
  <2>. QED BY <1>2, <1>4, <1>5, <1>6, <2>1, Zenon
<1>8. IsShort(BufferSize) /\ BufferSize \in Nat /\ n <= BufferSize
  <2>1. SizeOf(d) \in Nat /\ SizeOf(d) <= BufferSize /\ BufferSize \in Nat
    BY SizeIs, SMT
  <2>2. n <= BufferSize
    BY <1>6, <2>1
  <2>3. IsShort(BufferSize)
    BY SizeIs, SMT DEF IsShort
  <2>. QED BY <2>1, <2>2, <2>3
<1>9. PICK r \in Nat, u \in Nat : r = b.read /\ u = b.used
  BY <1>8, BufferParts
<1>10. u - r = to - at /\ \A j \in 1 .. to - at : b.bytes[r + j] = st[at + j]
  BY <1>2, <1>9, Zenon DEF Holds
<1>11. CASE at + n <= to
  <2>1. Lies(b, EncodedIn(d, p))
    <3>1. r + n <= u
      BY <1>10, <1>11
    <3>2. \A j \in 1..n : j \in 1 .. to - at
      BY <1>11
    <3>3. \A j \in 1..n : b.bytes[r + j] = e[j]
      BY <1>7, <1>10, <3>2
    <3>. QED BY <1>6, <1>9, <3>1, <3>3, Zenon DEF Lies
  <2>2. /\ h.outcome = "packet" /\ h.packet = p
        /\ h.buf.bytes = b.bytes /\ h.buf.used = b.used
        /\ h.buf.read = b.read + Len(EncodedIn(d, p))
    BY <1>5, <1>8, <2>1, HandleWhole
  <2>3. h.buf.used = u /\ h.buf.read = r + n
    BY <1>6, <1>9, <2>2, Zenon
  <2>4. h.buf.used - h.buf.read = to - (at + n)
    <3>1. u - r = to - at /\ to \in Nat
      BY <1>1, <1>10
    <3>2. u - (r + n) = to - (at + n)
      BY <3>1, Behind
    <3>. QED BY <2>3, <3>2, Zenon
  <2>5. ASSUME NEW j \in 1 .. to - (at + n)
        PROVE  h.buf.bytes[h.buf.read + j] = st[(at + n) + j]
    <3>1. PICK q \in 1 .. to - at : q = n + j /\ r + q = (r + n) + j /\ at + q = (at + n) + j
      OBVIOUS
    <3>2. b.bytes[r + q] = st[at + q]
      BY <1>10
    <3>. QED BY <2>2, <2>3, <3>1, <3>2
  <2>6. Holds(h.buf, st, at + n, to)
    BY <2>4, <2>5 DEF Holds
  <2>7. k + 1 = i /\ i \in 1..Len(se)
    BY <1>1, <1>4
  <2>. QED BY <1>5, <1>7, <1>11, <2>2, <2>6, <2>7, Zenon
<1>12. CASE ~(at + n <= to)
  <2>1. r + 3 <= u /\ u < r + n
    BY <1>2, <1>10, <1>12
  <2>2. \A j \in 1..3 : b.bytes[r + j] = e[j]
    <3>1. \A j \in 1..3 : j \in 1 .. to - at /\ j \in 1..n
      BY <1>2, <1>6
    <3>. QED BY <1>7, <1>10, <3>1
  <2>3. /\ b.read + 3 <= b.used /\ b.used < b.read + Len(EncodedIn(d, p))
        /\ Len(EncodedIn(d, p)) <= BufferSize
        /\ \A j \in 1..3 : b.bytes[b.read + j] = EncodedIn(d, p)[j]
    BY <1>6, <1>8, <1>9, <2>1, <2>2, Zenon
  <2>4. h.outcome = "none" /\ h.buf = Compact(b)
    BY <1>5, <1>8, <2>3, HandlePart
  <2>5. PICK c : c = Compact(b)
    OBVIOUS
  <2>6. /\ c.read = 0 /\ c.used = u - r
        /\ \A j \in 1 .. u - r : c.bytes[j] = b.bytes[r + j]
    BY <1>8, <1>9, <2>5, CompactIs
  <2>7. Holds(c, st, at, to)
    <3>1. c.used - c.read = to - at
      BY <1>10, <2>6
    <3>2. ASSUME NEW j \in 1 .. to - at
          PROVE  c.bytes[c.read + j] = st[at + j]
      <4>1. c.read + j = j /\ j \in 1 .. u - r
        BY <1>10, <2>6
      <4>. QED BY <1>10, <2>6, <4>1
    <3>. QED BY <3>1, <3>2 DEF Holds
  <2>. QED BY <1>2, <2>4, <2>5, <2>7, Zenon
<1>. QED BY <1>11, <1>12

\* One receive of a session, that did not end inside a header.
LEMMA FollowsNext ==
  ASSUME NEW d \in Directions, NEW st, NEW se, NEW en, Streamed(d, st, se, en), EachWhole(d, se),
         NEW b \in Buffer(BufferSize), NEW at \in Nat, NEW n \in Nat, at + n <= Len(st),
         b.used + n <= BufferSize, NEW from, NEW hd, Follows(d, st, se, en, at, b, from, hd),
         NEW full, full = Receive(b, SubSeq(st, at + 1, at + n)), RemainingReadSize(full) >= Header,
         NEW h, h = HandlePacket(full, d)
  PROVE  \/ /\ h.outcome = "packet"
            /\ Follows(d, st, se, en, at + n, h.buf, from, Append(hd, h.packet))
         \/ h.outcome = "none" /\ Follows(d, st, se, en, at + n, h.buf, from, hd)
<1>1. PICK m \in Nat : m = Len(se)
  BY StreamedParts
<1>2. PICK k \in 0..m, l \in Nat :
             /\ l = Len(hd) /\ hd \in Seq(Messages[d]) /\ k + l <= m
             /\ from = Place(en, k)
             /\ \A i \in 1..l : hd[i] = se[k + i]
             /\ Place(en, k + l) <= at
             /\ Holds(b, st, Place(en, k + l), at)
  <2>1. PICK k \in 0..m :
               /\ hd \in Seq(Messages[d]) /\ k + Len(hd) <= m
               /\ from = Place(en, k)
               /\ \A i \in 1..Len(hd) : hd[i] = se[k + i]
               /\ Place(en, k + Len(hd)) <= at
               /\ Holds(b, st, Place(en, k + Len(hd)), at)
    BY <1>1, Zenon DEF Follows
  <2>2. PICK l \in Nat : l = Len(hd)
    BY <2>1, LenProperties
  <2>. QED BY <2>1, <2>2, Zenon
<1>3. PICK j \in 0..m : j = k + l
  BY <1>2
<1>4. PICK p \in Nat : p = Place(en, j) /\ p <= at /\ p \in 0..at
  BY <1>1, <1>2, <1>3, StreamedParts
<1>5. BufferSize \in Nat /\ st \in Seq(Byte)
  BY SizeIs, StreamedParts, SMT
<1>6. full \in Buffer(BufferSize) /\ Holds(full, st, p, at + n)
  <2>1. Holds(b, st, p, at)
    BY <1>2, <1>3, <1>4, Zenon
  <2>. QED BY <1>4, <1>5, <2>1, ReceiveHolds
<1>7. p + 3 <= at + n
  <2>1. PICK r \in Nat, u \in Nat : r = full.read /\ u = full.used
    BY <1>5, <1>6, BufferParts
  <2>2. u - r = (at + n) - p
    BY <1>6, <2>1, Zenon DEF Holds
  <2>3. u - r >= 3
    BY <2>1, Zenon DEF RemainingReadSize, Header
  <2>. QED BY <2>2, <2>3
<1>8. PICK to \in 0..Len(st) : to = at + n
  BY StreamedParts
<1>9. \/ /\ h.outcome = "packet" /\ j + 1 \in 1..Len(se) /\ h.packet = se[j + 1]
         /\ Place(en, j + 1) <= to /\ Holds(h.buf, st, Place(en, j + 1), to)
      \/ h.outcome = "none" /\ Holds(h.buf, st, p, to)
  <2>1. /\ Place(en, j) + 3 <= to /\ Holds(full, st, Place(en, j), to) /\ j \in 0..Len(se)
    BY <1>1, <1>4, <1>6, <1>7, <1>8, Zenon
  <2>2. \/ /\ h.outcome = "packet" /\ j + 1 \in 1..Len(se) /\ h.packet = se[j + 1]
           /\ Place(en, j + 1) <= to /\ Holds(h.buf, st, Place(en, j + 1), to)
        \/ h.outcome = "none" /\ Holds(h.buf, st, Place(en, j), to)
    BY <1>6, <2>1, HandlesNext
  <2>. QED BY <1>4, <2>2, Zenon
<1>10. CASE /\ h.outcome = "packet" /\ j + 1 \in 1..Len(se) /\ h.packet = se[j + 1]
            /\ Place(en, j + 1) <= to /\ Holds(h.buf, st, Place(en, j + 1), to)
  <2>1. PICK e \in Messages[d] : e = se[j + 1] /\ e = h.packet
    BY <1>10, StreamedParts
  <2>2. PICK hd1 \in Seq(Messages[d]) : hd1 = Append(hd, e)
    BY <1>2, AppendType
  <2>3. /\ Len(hd1) = l + 1 /\ hd1[l + 1] = e
        /\ \A i \in 1..l : hd1[i] = hd[i]
    BY <1>2, <2>2, AppendProperties
  <2>4. k + (l + 1) = j + 1 /\ k + (l + 1) <= m
    BY <1>1, <1>3, <1>10
  <2>5. ASSUME NEW i \in 1..l + 1
        PROVE  hd1[i] = se[k + i]
    <3>1. CASE i = l + 1
      BY <2>1, <2>3, <2>4, <3>1, Zenon
    <3>2. CASE i # l + 1
      <4>1. i \in 1..l
        BY <3>2
      <4>. QED BY <1>2, <2>3, <4>1
    <3>. QED BY <3>1, <3>2
  <2>6. Follows(d, st, se, en, to, h.buf, from, hd1)
    BY <1>1, <1>2, <1>10, <2>3, <2>4, <2>5, Zenon DEF Follows
  <2>. QED BY <1>8, <1>10, <2>1, <2>2, <2>6, Zenon
<1>11. CASE h.outcome = "none" /\ Holds(h.buf, st, p, to)
  <2>1. p <= to
    BY <1>4, <1>8
  <2>2. Follows(d, st, se, en, to, h.buf, from, hd)
    BY <1>1, <1>2, <1>3, <1>4, <1>11, <2>1, Zenon DEF Follows
  <2>. QED BY <1>8, <1>11, <2>2, Zenon
<1>. QED BY <1>9, <1>10, <1>11

\* A session that begins where a packet does.
LEMMA FollowsFresh ==
  ASSUME NEW d \in Directions, NEW st, NEW se, NEW en, Streamed(d, st, se, en),
         NEW size \in Nat, NEW b \in Buffer(size), b = NewBuffer(size),
         NEW at \in Nat, at \in {0} \cup Range(en)
  PROVE  Follows(d, st, se, en, at, b, at, <<>>)
<1>1. PICK m \in Nat : m = Len(se) /\ m = Len(en)
  BY StreamedParts
<1>2. PICK k \in 0..m : at = Place(en, k)
  <2>1. CASE at = 0
    <3>1. 0 \in 0..m
      OBVIOUS
    <3>. QED BY <2>1, <3>1 DEF Place
  <2>2. CASE at \in Range(en)
    <3>1. PICK k \in DOMAIN en : at = en[k]
      BY <2>2 DEF Range
    <3>2. k \in 1..m
      BY <1>1, <3>1, StreamedParts
    <3>3. k \in 0..m /\ k # 0
      BY <3>2
    <3>. QED BY <3>1, <3>3, Zenon DEF Place
  <2>. QED BY <2>1, <2>2
<1>3. b.used = 0 /\ b.read = 0
  BY DEF NewBuffer
<1>4. Holds(b, st, at, at)
  <2>1. b.used - b.read = at - at
    BY <1>3
  <2>2. 1 .. at - at = {}
    OBVIOUS
  <2>. QED BY <2>1, <2>2 DEF Holds
<1>5. <<>> \in Seq(Messages[d]) /\ Len(<<>>) = 0 /\ k + 0 = k /\ k + 0 <= m /\ at <= at /\ 1..0 = {}
  OBVIOUS
<1>6. \A i \in 1..0 : <<>>[i] = se[k + i]
  BY <1>5
<1>. QED BY <1>1, <1>2, <1>4, <1>5, <1>6, Zenon DEF Follows

\* The places of packets stay, whatever is sent behind them.
LEMMA PlacesStay ==
  ASSUME NEW d \in Directions, NEW st, NEW se, NEW en, Streamed(d, st, se, en),
         NEW st1, NEW se1, NEW en1, Streamed(d, st1, se1, en1),
         Len(se) <= Len(se1), \A i \in 1..Len(se) : se1[i] = se[i]
  PROVE  \A k \in 0..Len(se) : Place(en1, k) = Place(en, k)
<1>1. PICK m \in Nat, m1 \in Nat : m = Len(se) /\ m1 = Len(se1)
  BY StreamedParts
<1> DEFINE S == {k \in Nat : k <= m => Place(en1, k) = Place(en, k)}
<1>2. 0 \in S
  BY DEF Place
<1>3. ASSUME NEW k \in S
      PROVE  k + 1 \in S
  <2>1. k \in Nat /\ k + 1 \in Nat
    OBVIOUS
  <2> SUFFICES ASSUME k + 1 <= m
               PROVE  Place(en1, k + 1) = Place(en, k + 1)
    BY <2>1
  <2>2. PICK i \in 1..m : i = k + 1 /\ i - 1 = k /\ i \in 1..m1 /\ k <= m
    BY <1>1, <2>1
  <2>3. Place(en, i) = Place(en, i - 1) + Len(Packed(d, se[i]))
    BY <1>1 DEF Streamed
  <2>4. Place(en1, i) = Place(en1, i - 1) + Len(Packed(d, se1[i]))
    BY <1>1, <2>2 DEF Streamed
  <2>5. Place(en1, k) = Place(en, k)
    BY <2>2
  <2>6. se1[i] = se[i]
    BY <1>1
  <2>. QED BY <2>2, <2>3, <2>4, <2>5, <2>6, Zenon
<1> HIDE DEF S
<1>4. \A k \in Nat : k \in S
  <2>1. S \in SUBSET Nat
    BY DEF S
  <2>. QED BY <1>2, <1>3, <2>1, Induct
<1>5. \A k \in 0..m : k \in Nat /\ k <= m
  OBVIOUS
<1>. QED BY <1>1, <1>4, <1>5 DEF S

\* What is sent behind does not disturb a session.
LEMMA FollowsGrows ==
  ASSUME NEW d \in Directions, NEW st, NEW se, NEW en, Streamed(d, st, se, en),
         NEW st1, NEW se1, NEW en1, Streamed(d, st1, se1, en1),
         Len(se) <= Len(se1), \A i \in 1..Len(se) : se1[i] = se[i],
         \A i \in 1..Len(st) : st1[i] = st[i],
         NEW at \in 0..Len(st), NEW b, NEW from, NEW hd, Follows(d, st, se, en, at, b, from, hd)
  PROVE  Follows(d, st1, se1, en1, at, b, from, hd)
<1>1. PICK m \in Nat, m1 \in Nat : m = Len(se) /\ m1 = Len(se1) /\ m <= m1
  BY StreamedParts
<1>2. PICK k \in 0..m, l \in Nat :
             /\ l = Len(hd) /\ hd \in Seq(Messages[d]) /\ k + l <= m
             /\ from = Place(en, k)
             /\ \A i \in 1..l : hd[i] = se[k + i]
             /\ Place(en, k + l) <= at
             /\ Holds(b, st, Place(en, k + l), at)
  <2>1. PICK k \in 0..m :
               /\ hd \in Seq(Messages[d]) /\ k + Len(hd) <= m
               /\ from = Place(en, k)
               /\ \A i \in 1..Len(hd) : hd[i] = se[k + i]
               /\ Place(en, k + Len(hd)) <= at
               /\ Holds(b, st, Place(en, k + Len(hd)), at)
    BY <1>1, Zenon DEF Follows
  <2>2. PICK l \in Nat : l = Len(hd)
    BY <2>1, LenProperties
  <2>. QED BY <2>1, <2>2, Zenon
<1>3. PICK j \in 0..m : j = k + l
  BY <1>2
<1>4. Place(en1, k) = Place(en, k) /\ Place(en1, j) = Place(en, j)
  BY <1>1, PlacesStay
<1>5. PICK p \in Nat : p = Place(en, j) /\ p <= at
  BY <1>1, <1>2, <1>3, StreamedParts
<1>6. Holds(b, st1, p, at)
  <2>1. Holds(b, st, p, at)
    BY <1>2, <1>3, <1>5, Zenon
  <2>2. ASSUME NEW i \in 1 .. at - p
        PROVE  st1[p + i] = st[p + i]
    <3>1. p + i \in 1..Len(st)
      BY <1>5, StreamedParts
    <3>. QED BY <3>1
  <2>3. b.used - b.read = at - p /\ \A i \in 1 .. at - p : b.bytes[b.read + i] = st[p + i]
    BY <2>1, Zenon DEF Holds
  <2>. QED BY <2>2, <2>3, Zenon DEF Holds
<1>7. k \in 0..m1 /\ k + l <= m1
  BY <1>1, <1>2
<1>8. \A i \in 1..l : hd[i] = se1[k + i]
  <2>1. \A i \in 1..l : k + i \in 1..m
    BY <1>2
  <2>. QED BY <1>1, <1>2, <2>1
<1>. QED BY <1>1, <1>2, <1>3, <1>4, <1>5, <1>6, <1>7, <1>8, Zenon DEF Follows

-----------------------------------------------------------------------------
(* The steps.                                                                *)

Extends(s, s1) == Len(s) <= Len(s1) /\ \A i \in 1..Len(s) : s1[i] = s[i]

LEMMA CatExtends ==
  ASSUME NEW S, NEW s \in Seq(S), NEW t \in Seq(S)
  PROVE  s \o t \in Seq(S) /\ Extends(s, s \o t)
<1>1. PICK m \in Nat, n \in Nat : m = Len(s) /\ n = Len(t)
  BY LenProperties
<1>2. /\ s \o t \in Seq(S) /\ Len(s \o t) = Len(s) + Len(t)
      /\ \A i \in 1 .. Len(s) + Len(t) : (s \o t)[i] = IF i <= Len(s) THEN s[i] ELSE t[i - Len(s)]
  BY ConcatProperties
<1>3. /\ Len(s \o t) = m + n
      /\ \A i \in 1 .. m + n : (s \o t)[i] = IF i <= m THEN s[i] ELSE t[i - m]
  BY <1>1, <1>2, Zenon
<1>4. \A i \in 1..m : (s \o t)[i] = s[i]
  BY <1>3
<1>5. m <= Len(s \o t)
  BY <1>3
<1>. QED BY <1>1, <1>2, <1>4, <1>5, Zenon DEF Extends

\* Both senders only add to what was sent.
LEMMA SendersExtend ==
  ASSUME dir \in Directions, Streamed(dir, stream, sent, ends), queue \in Seq(Messages[dir]),
         ClientSends \/ SelectorSends
  PROVE  Extends(sent, sent') /\ Extends(stream, stream')
<1>1. stream \in Seq(Byte) /\ sent \in Seq(Messages[dir])
  BY StreamedParts
<1>2. CASE ClientSends
  <2>1. PICK p \in Messages[dir] : p = Head(queue)
    BY <1>2, HeadTailProperties DEF ClientSends
  <2>2. PICK one \in Seq(Messages[dir]) : one = <<p>>
    BY Singleton
  <2>3. PICK x \in Seq(Byte) : x = Content(OnePacket(p))
    <3>1. OnePacket(p) = Image(dir, p)
      BY DEF OnePacket, Image, SizeOf
    <3>. QED BY <3>1, PackedIs DEF Packed
  <2>4. stream' = stream \o x /\ sent' = sent \o one
    BY <1>2, <2>1, <2>2, <2>3, Zenon DEF ClientSends, Note
  <2>. QED BY <1>1, <2>4, CatExtends
<1>3. CASE SelectorSends
  <2>1. PICK q \in Seq(Messages[dir]) : q = queue
    OBVIOUS
  <2>2. PICK base \in Acc : base = [out |-> <<>>, buf |-> NewBuffer(BufferSize)]
    <3>1. BufferSize \in Nat
      BY SizeIs, SMT
    <3>2. PICK b \in Buffer(BufferSize) : b = NewBuffer(BufferSize)
      BY <3>1, NewBufferType
    <3>3. <<>> \in Seq(Byte)
      OBVIOUS
    <3>. QED BY <3>2, <3>3 DEF Acc
  <2>3. PICK all : all = FoldLeft(Collect, base, q)
    OBVIOUS
  <2>4. all \in Acc
    <3>1. PICK f \in [0..Len(q) -> Acc] :
                 /\ f[0] = base /\ f[Len(q)] = FoldLeft(Collect, base, q)
                 /\ \A k \in 1..Len(q) : f[k] = Collect(f[k - 1], q[k])
      BY CollectSteps, Zenon
    <3>2. Len(q) \in 0..Len(q)
      <4>1. Len(q) \in Nat
        BY LenProperties
      <4>. QED BY <4>1
    <3>. QED BY <2>3, <3>1, <3>2
  <2>5. PICK x \in Seq(Byte), y \in Seq(Byte) : x = all.out /\ y = Content(all.buf)
    <3>1. all.out \in Seq(Byte) /\ all.buf \in Buffer(BufferSize)
      BY <2>4 DEF Acc
    <3>2. BufferSize \in Nat
      BY SizeIs, SMT
    <3>. QED BY <3>1, <3>2, ContentIs
  <2>6. stream' = Cat(Cat(stream, x), y) /\ sent' = sent \o q
    BY <1>3, <2>1, <2>2, <2>3, <2>5, Zenon DEF SelectorSends, Note, Cat
  <2>7. stream' = Cat(stream, Cat(x, y))
    BY <1>1, <2>6, CatAssociative
  <2>8. PICK z \in Seq(Byte) : z = Cat(x, y)
    BY ConcatProperties DEF Cat
  <2>9. stream' = stream \o z
    BY <2>7, <2>8, Zenon DEF Cat
  <2>. QED BY <1>1, <2>1, <2>6, <2>9, CatExtends
<1>. QED BY <1>2, <1>3

\* What holds of the sender, of the reader's variables, and of the session.
SenderInv ==
  /\ dir \in Directions
  /\ queue \in Seq(Messages[dir])
  /\ Streamed(dir, stream, sent, ends)

ReaderInv ==
  /\ arrived \in 0..Len(stream)
  /\ buffer \in Buffer(BufferSize)
  /\ reader \in {"up", "gone"}
  /\ start \in 0..arrived
  /\ sound \in BOOLEAN

SessionInv ==
  sound /\ EachWhole(dir, sent) =>
    /\ reader = "up"
    /\ Follows(dir, stream, sent, ends, arrived, buffer, start, handed)

WireInv == SenderInv /\ ReaderInv /\ SessionInv

LEMMA BufferSizeIsNat == BufferSize \in Nat
BY WireAssumption

LEMMA InitInv == Init => WireInv
<1> SUFFICES ASSUME Init
             PROVE  WireInv
  OBVIOUS
<1>1. dir \in Directions /\ BufferSize \in Nat
  BY SizeIs, SMT DEF Init
<1>2. Streamed(dir, <<>>, <<>>, <<>>)
  <2>1. /\ <<>> \in Seq(Byte) /\ <<>> \in Seq(Messages[dir]) /\ <<>> \in Seq(Nat)
        /\ Len(<<>>) = 0 /\ Place(<<>>, 0) = 0
    BY DEF Place
  <2>2. \A k \in 0..0 : k = 0
    OBVIOUS
  <2>3. 1..0 = {}
    OBVIOUS
  <2>4. ~(0 < 0) /\ 0 \in 0..0
    OBVIOUS
  <2>. QED BY <2>1, <2>2, <2>3, <2>4 DEF Streamed
<1>3. SenderInv
  <2>1. stream = <<>> /\ sent = <<>> /\ ends = <<>> /\ queue = <<>>
    BY DEF Init
  <2>2. <<>> \in Seq(Messages[dir])
    OBVIOUS
  <2>. QED BY <1>1, <1>2, <2>1, <2>2, Zenon DEF SenderInv
<1>4. PICK b \in Buffer(BufferSize) : b = NewBuffer(BufferSize) /\ b = buffer
  BY <1>1, NewBufferType DEF Init
<1>5. ReaderInv
  <2>1. Len(stream) = 0
    BY DEF Init
  <2>. QED BY <1>4, <2>1 DEF Init, ReaderInv
<1>6. Follows(dir, stream, sent, ends, 0, b, 0, <<>>)
  <2>1. 0 \in Nat /\ 0 \in {0} \cup Range(ends)
    OBVIOUS
  <2>. QED BY <1>1, <1>3, <1>4, <2>1, FollowsFresh DEF SenderInv
<1>7. SessionInv
  BY <1>4, <1>6, Zenon DEF Init, SessionInv
<1>. QED BY <1>3, <1>5, <1>7 DEF WireInv

\* What is received goes on in the session of the buffer, when it began at a
\* packet and this receive did not end inside a header.
LEMMA ReceiveInv ==
  ASSUME SenderInv, arrived \in 0..Len(stream),
         NEW b \in Buffer(BufferSize), NEW n \in 1..InFlight, NEW from \in 0..arrived,
         NEW hd, NEW so \in BOOLEAN,
         so /\ EachWhole(dir, sent) => Follows(dir, stream, sent, ends, arrived, b, from, hd),
         ReceivesInto(b, n, [start |-> from, handed |-> hd, sound |-> so])
  PROVE  WireInv'
<1>1. /\ dir \in Directions /\ queue \in Seq(Messages[dir])
      /\ Streamed(dir, stream, sent, ends) /\ stream \in Seq(Byte)
  BY StreamedParts DEF SenderInv
<1>2. BufferSize \in Nat
  BY BufferSizeIsNat
<1>3. n \in Nat /\ arrived \in Nat /\ arrived + n <= Len(stream)
  <2>1. Len(stream) \in Nat
    BY <1>1, LenProperties
  <2>. QED BY <2>1 DEF InFlight
<1>4. PICK full, h : /\ full = Receive(b, SubSeq(stream, arrived + 1, arrived + n))
                     /\ h = HandlePacket(full, dir)
  OBVIOUS
<1>5. /\ n <= RemainingWriteSize(b)
      /\ arrived' = arrived + n
      /\ buffer' = h.buf
      /\ start' = from
      /\ handed' = IF h.outcome = "packet" THEN Append(hd, h.packet) ELSE hd
      /\ sound' = (so /\ RemainingReadSize(full) >= Header)
      /\ reader' \in AfterReceive(h.outcome)
      /\ UNCHANGED <<dir, senderVars>>
  BY <1>4, Zenon DEF ReceivesInto
<1>6. b.used + n <= BufferSize
  <2>1. PICK u \in Nat : u = b.used /\ Size(b) = BufferSize
    BY <1>2, BufferParts
  <2>2. n <= BufferSize - u
    BY <1>5, <2>1, Zenon DEF RemainingWriteSize
  <2>3. u + n <= BufferSize
    BY <1>2, <1>3, <2>1, <2>2
  <2>. QED BY <2>1, <2>3, Zenon
<1>7. h.buf \in Buffer(BufferSize) /\ h.outcome \in Outcomes
  <2>1. full \in Buffer(BufferSize)
    BY <1>1, <1>2, <1>3, <1>4, <1>6, ReceiveHolds
  <2>. QED BY <1>1, <1>2, <1>4, <2>1, HandleType
<1>8. UNCHANGED <<dir, queue, sent, ends, stream>>
  BY <1>5, Zenon DEF senderVars
<1>9. SenderInv'
  BY <1>1, <1>8, Zenon DEF SenderInv
<1>10. ReaderInv'
  <2>1. arrived' \in 0..Len(stream') /\ start' \in 0..arrived'
    <3>1. PICK l \in Nat : l = Len(stream) /\ l = Len(stream')
      BY <1>1, <1>8, LenProperties
    <3>. QED BY <1>3, <1>5, <3>1
  <2>2. reader' \in {"up", "gone"}
    <3>1. AfterReceive(h.outcome) \subseteq {"up", "gone"}
      BY <1>7 DEF AfterReceive, AfterThrow, Outcomes
    <3>. QED BY <1>5, <3>1, Zenon
  <2>3. sound' \in BOOLEAN
    BY <1>5, Zenon
  <2>4. buffer' \in Buffer(BufferSize)
    BY <1>5, <1>7, Zenon
  <2>. QED BY <2>1, <2>2, <2>3, <2>4, Zenon DEF ReaderInv
<1>11. SessionInv'
  <2> SUFFICES ASSUME sound', EachWhole(dir', sent')
               PROVE  /\ reader' = "up"
                      /\ Follows(dir', stream', sent', ends', arrived', buffer', start', handed')
    BY DEF SessionInv
  <2>1. so /\ RemainingReadSize(full) >= Header
    BY <1>5, Zenon
  <2>2. EachWhole(dir, sent) /\ Follows(dir, stream, sent, ends, arrived, b, from, hd)
    BY <1>8, <2>1, Zenon
  <2>3. \/ /\ h.outcome = "packet"
           /\ Follows(dir, stream, sent, ends, arrived + n, h.buf, from, Append(hd, h.packet))
        \/ /\ h.outcome = "none"
           /\ Follows(dir, stream, sent, ends, arrived + n, h.buf, from, hd)
    BY <1>1, <1>3, <1>4, <1>6, <2>1, <2>2, FollowsNext
  <2>4. reader' = "up"
    <3>1. AfterReceive(h.outcome) = {"up"}
      BY <2>3 DEF AfterReceive
    <3>. QED BY <1>5, <3>1, Zenon
  <2>5. "packet" # "none"
    OBVIOUS
  <2>6. Follows(dir, stream, sent, ends, arrived', buffer', start', handed')
    BY <1>5, <2>3, <2>5, Zenon
  <2>. QED BY <1>8, <2>4, <2>6, Zenon
<1>. QED BY <1>9, <1>10, <1>11 DEF WireInv

\* What is sent goes behind what the reader has received.
LEMMA SendInv ==
  ASSUME WireInv, ClientSends \/ SelectorSends
  PROVE  WireInv'
<1>1. /\ dir \in Directions /\ queue \in Seq(Messages[dir])
      /\ Streamed(dir, stream, sent, ends)
  BY DEF WireInv, SenderInv
<1>2. UNCHANGED <<dir, arrived, buffer, reader, start, handed, sound>>
  BY DEF ClientSends, SelectorSends, readerVars
<1>3. Streamed(dir, stream', sent', ends') /\ queue' \in Seq(Messages[dir])
  <2>1. CASE ClientSends
    <3>1. queue # <<>> /\ queue' = Tail(queue)
      BY <2>1 DEF ClientSends
    <3>2. queue' \in Seq(Messages[dir])
      BY <1>1, <3>1, HeadTailProperties
    <3>. QED BY <1>1, <2>1, <3>2, ClientStream
  <2>2. CASE SelectorSends
    <3>1. queue' = <<>>
      BY <2>2 DEF SelectorSends
    <3>2. queue' \in Seq(Messages[dir])
      BY <3>1
    <3>. QED BY <1>1, <2>2, <3>2, SelectorStream
  <2>. QED BY <2>1, <2>2
<1>4. Extends(sent, sent') /\ Extends(stream, stream')
  BY <1>1, SendersExtend
<1>5. SenderInv'
  BY <1>1, <1>2, <1>3, Zenon DEF SenderInv
<1>6. arrived \in 0..Len(stream)
  BY DEF WireInv, ReaderInv
<1>7. ReaderInv'
  <2>1. PICK m \in Nat, m1 \in Nat : m = Len(stream) /\ m1 = Len(stream') /\ m <= m1
    <3>1. Len(stream) \in Nat
      BY <1>1, StreamedParts
    <3>2. Len(stream') \in Nat
      BY <1>1, <1>3, StreamedParts
    <3>. QED BY <1>4, <3>1, <3>2 DEF Extends
  <2>2. arrived' \in 0..Len(stream')
    BY <1>2, <1>6, <2>1
  <2>. QED BY <1>2, <2>2, Zenon DEF WireInv, ReaderInv
<1>8. SessionInv'
  <2> SUFFICES ASSUME sound', EachWhole(dir', sent')
               PROVE  /\ reader' = "up"
                      /\ Follows(dir', stream', sent', ends', arrived', buffer', start', handed')
    BY DEF SessionInv
  <2>1. EachWhole(dir, sent)
    <3>1. PICK m \in Nat, m1 \in Nat : m = Len(sent) /\ m1 = Len(sent') /\ m <= m1
      <4>1. Len(sent) \in Nat
        BY <1>1, StreamedParts
      <4>2. Len(sent') \in Nat
        BY <1>1, <1>3, StreamedParts
      <4>. QED BY <1>4, <4>1, <4>2 DEF Extends
    <3>2. \A i \in 1..m : i \in 1..m1
      BY <3>1
    <3>3. \A i \in 1..m1 : Len(EncodedIn(dir, sent'[i])) < SizeOf(dir)
      BY <1>2, <3>1, Zenon DEF EachWhole
    <3>4. \A i \in 1..m : sent'[i] = sent[i]
      BY <1>4, <3>1, Zenon DEF Extends
    <3>5. \A i \in 1..m : Len(EncodedIn(dir, sent[i])) < SizeOf(dir)
      BY <3>2, <3>3, <3>4, Zenon
    <3>. QED BY <3>1, <3>5, Zenon DEF EachWhole
  <2>2. reader = "up" /\ Follows(dir, stream, sent, ends, arrived, buffer, start, handed)
    BY <1>2, <2>1, Zenon DEF WireInv, SessionInv
  <2>3. Follows(dir, stream', sent', ends', arrived, buffer, start, handed)
    BY <1>1, <1>3, <1>4, <1>6, <2>2, FollowsGrows DEF Extends
  <2>. QED BY <1>2, <2>2, <2>3, Zenon
<1>. QED BY <1>5, <1>7, <1>8 DEF WireInv

\* A session that begins with an empty buffer.
LEMMA BegunInv ==
  ASSUME WireInv
  PROVE  /\ Begun.start = arrived /\ Begun.handed = <<>> /\ Begun.sound = (arrived \in Begins)
         /\ Reset(buffer) \in Buffer(BufferSize)
         /\ arrived \in Begins
              => Follows(dir, stream, sent, ends, arrived, Reset(buffer), arrived, <<>>)
<1>1. dir \in Directions /\ Streamed(dir, stream, sent, ends)
  BY DEF WireInv, SenderInv
<1>2. buffer \in Buffer(BufferSize) /\ arrived \in 0..Len(stream)
  BY DEF WireInv, ReaderInv
<1>3. Begun.start = arrived /\ Begun.handed = <<>> /\ Begun.sound = (arrived \in Begins)
  BY DEF Begun
<1>4. arrived \in Nat
  BY <1>1, <1>2, StreamedParts
<1>5. Reset(buffer) = NewBuffer(BufferSize) /\ Reset(buffer) \in Buffer(BufferSize)
  BY <1>2, BufferSizeIsNat, ResetIs
<1>6. ASSUME arrived \in Begins
      PROVE  Follows(dir, stream, sent, ends, arrived, Reset(buffer), arrived, <<>>)
  <2>1. arrived \in {0} \cup Range(ends)
    BY <1>6 DEF Begins
  <2>2. PICK b \in Buffer(BufferSize) : b = Reset(buffer) /\ b = NewBuffer(BufferSize)
    BY <1>5
  <2>3. Follows(dir, stream, sent, ends, arrived, b, arrived, <<>>)
    BY <1>1, <1>4, <2>1, <2>2, BufferSizeIsNat, FollowsFresh
  <2>. QED BY <2>2, <2>3, Zenon
<1>. QED BY <1>3, <1>5, <1>6

LEMMA MemberIsTruth ==
  ASSUME NEW x, NEW S
  PROVE  (x \in S) \in BOOLEAN
<1>1. CASE x \in S
  <2>1. (x \in S) = TRUE
    BY <1>1
  <2>. QED BY <2>1
<1>2. CASE x \notin S
  <2>1. (x \in S) = FALSE
    BY <1>2
  <2>. QED BY <2>1
<1>. QED BY <1>1, <1>2

LEMMA StepInv == WireInv /\ [Next]_vars => WireInv'
<1> SUFFICES ASSUME WireInv, [Next]_vars
             PROVE  WireInv'
  OBVIOUS
<1>1. /\ dir \in Directions /\ queue \in Seq(Messages[dir])
      /\ Streamed(dir, stream, sent, ends) /\ SenderInv
  BY DEF WireInv, SenderInv
<1>2. /\ arrived \in 0..Len(stream) /\ buffer \in Buffer(BufferSize)
      /\ reader \in {"up", "gone"} /\ start \in 0..arrived /\ sound \in BOOLEAN
  BY DEF WireInv, ReaderInv
<1>3. ASSUME NEW p \in Messages[dir], SendPacket(p)
      PROVE  WireInv'
  <2>1. /\ queue' = Append(queue, p)
        /\ UNCHANGED <<dir, sent, ends, stream>>
        /\ UNCHANGED <<arrived, buffer, reader, start, handed, sound>>
    BY <1>3, Zenon DEF SendPacket, readerVars
  <2>2. queue' \in Seq(Messages[dir])
    BY <1>1, <2>1, AppendProperties
  <2>3. SenderInv'
    BY <1>1, <2>1, <2>2, Zenon DEF SenderInv
  <2>4. ReaderInv'
    BY <2>1, Zenon DEF WireInv, ReaderInv
  <2>5. SessionInv'
    BY <2>1, Zenon DEF WireInv, SessionInv
  <2>. QED BY <2>3, <2>4, <2>5 DEF WireInv
<1>4. CASE ClientSends \/ SelectorSends
  BY <1>4, SendInv
<1>5. CASE SelectorReceives
  <2>1. PICK n \in 1..InFlight :
          ReceivesInto(buffer, n, [start |-> start, handed |-> handed, sound |-> sound])
    BY <1>5 DEF SelectorReceives
  <2>2. sound /\ EachWhole(dir, sent)
          => Follows(dir, stream, sent, ends, arrived, buffer, start, handed)
    BY DEF WireInv, SessionInv
  <2>. QED BY <1>1, <1>2, <2>1, <2>2, ReceiveInv
<1>6. CASE NextSession
  <2>1. /\ buffer' = Reset(buffer)
        /\ start' = arrived /\ handed' = <<>> /\ sound' = (arrived \in Begins)
        /\ reader = "up"
        /\ UNCHANGED <<dir, queue, sent, ends, stream, arrived, reader>>
    BY <1>6, BegunInv, Zenon DEF NextSession, senderVars
  <2>2. SenderInv'
    BY <1>1, <2>1, Zenon DEF SenderInv
  <2>3. ReaderInv'
    <3>1. arrived \in 0..arrived
      BY <1>1, <1>2, StreamedParts
    <3>2. buffer' \in Buffer(BufferSize)
      BY <2>1, BegunInv
    <3>3. sound' \in BOOLEAN
      BY <2>1, MemberIsTruth, Zenon
    <3>. QED BY <1>2, <2>1, <3>1, <3>2, <3>3, Zenon DEF ReaderInv
  <2>4. SessionInv'
    <3>1. sound' => Follows(dir, stream, sent, ends, arrived, Reset(buffer), arrived, <<>>)
      BY <2>1, BegunInv, Zenon
    <3>. QED BY <2>1, <3>1, Zenon DEF SessionInv
  <2>. QED BY <2>2, <2>3, <2>4 DEF WireInv
<1>7. CASE ClientReceives
  <2>1. PICK so \in BOOLEAN : so = (arrived \in Begins)
    BY MemberIsTruth, Zenon
  <2>2. PICK b \in Buffer(BufferSize) : b = Reset(buffer)
    BY BegunInv
  <2>3. Begun = [start |-> arrived, handed |-> <<>>, sound |-> so]
    BY <2>1, Zenon DEF Begun
  <2>4. PICK n \in 1..InFlight :
          ReceivesInto(b, n, [start |-> arrived, handed |-> <<>>, sound |-> so])
    BY <1>7, <2>2, <2>3, Zenon DEF ClientReceives
  <2>5. arrived \in 0..arrived
    BY <1>1, <1>2, StreamedParts
  <2>6. so => Follows(dir, stream, sent, ends, arrived, b, arrived, <<>>)
    BY <2>1, <2>2, BegunInv, Zenon
  <2>. QED BY <1>1, <1>2, <2>4, <2>5, <2>6, ReceiveInv
<1>8. CASE UNCHANGED vars
  <2>1. UNCHANGED <<dir, queue, sent, ends, stream, arrived, buffer, reader, start, handed, sound>>
    BY <1>8, Zenon DEF vars, senderVars, readerVars
  <2>. QED BY <2>1, Zenon DEF WireInv, SenderInv, ReaderInv, SessionInv
<1>. QED BY <1>3, <1>4, <1>5, <1>6, <1>7, <1>8 DEF Next

LEMMA WireInductive == Spec => []WireInv
<1>. QED BY InitInv, StepInv, PTL DEF Spec

-----------------------------------------------------------------------------
(* The properties.                                                           *)

LEMMA StreamFacts ==
  ASSUME WireInv
  PROVE  /\ dir \in Directions /\ Streamed(dir, stream, sent, ends)
         /\ stream \in Seq(Byte) /\ Len(stream) \in Nat
         /\ Len(sent) \in Nat /\ Len(ends) = Len(sent)
         /\ DOMAIN sent = 1..Len(sent) /\ DOMAIN ends = 1..Len(sent)
         /\ \A i \in 1..Len(sent) : sent[i] \in Messages[dir]
<1>1. dir \in Directions /\ Streamed(dir, stream, sent, ends)
  BY DEF WireInv, SenderInv
<1>2. /\ sent \in Seq(Messages[dir]) /\ ends \in Seq(Nat) /\ stream \in Seq(Byte)
      /\ Len(sent) \in Nat /\ Len(ends) = Len(sent) /\ Len(stream) \in Nat
      /\ \A i \in 1..Len(sent) : sent[i] \in Messages[dir]
  BY <1>1, StreamedParts
<1>. QED BY <1>1, <1>2, LenProperties

LEMMA WireTypeHolds == WireInv => WireTypeOK
<1> SUFFICES ASSUME WireInv
             PROVE  WireTypeOK
  OBVIOUS
<1>1. /\ dir \in Directions /\ queue \in Seq(Messages[dir])
      /\ Streamed(dir, stream, sent, ends)
  BY DEF WireInv, SenderInv
<1>2. /\ arrived \in 0..Len(stream) /\ buffer \in Buffer(BufferSize)
      /\ reader \in {"up", "gone"} /\ start \in 0..arrived /\ sound \in BOOLEAN
  BY DEF WireInv, ReaderInv
<1>3. /\ stream \in Seq(Byte) /\ sent \in Seq(Messages[dir])
      /\ ends \in Seq(Nat) /\ Len(ends) = Len(sent)
  BY <1>1, StreamedParts
<1>4. /\ buffer.bytes \in Seq(Byte) /\ Size(buffer) = BufferSize
      /\ buffer.used \in 0..BufferSize /\ buffer.read \in 0..buffer.used
  <2>1. PICK r \in Nat, u \in Nat : /\ r = buffer.read /\ u = buffer.used /\ r <= u
                                    /\ u \in 0..BufferSize
    BY <1>2, BufferSizeIsNat, BufferParts
  <2>2. r \in 0..u
    BY <2>1
  <2>3. buffer.bytes \in Seq(Byte) /\ Size(buffer) = BufferSize
    BY <1>2, BufferSizeIsNat, BufferParts
  <2>. QED BY <2>1, <2>2, <2>3, Zenon
<1>. QED BY <1>1, <1>2, <1>3, <1>4, Zenon DEF WireTypeOK

\* Where a packet of the run lies.
LEMMA PlaceIs ==
  ASSUME WireInv, NEW i \in 1..Len(sent)
  PROVE  /\ BeginOf(i) = Place(ends, i - 1) /\ ends[i] = Place(ends, i)
         /\ Place(ends, i - 1) \in Nat /\ Place(ends, i) \in Nat /\ Place(ends, i) <= Len(stream)
         /\ Place(ends, i) = Place(ends, i - 1) + Len(Packed(dir, sent[i]))
         /\ \A j \in 1..Len(Packed(dir, sent[i])) :
              stream[Place(ends, i - 1) + j] = Packed(dir, sent[i])[j]
<1>1. Streamed(dir, stream, sent, ends) /\ dir \in Directions /\ Len(stream) \in Nat
  BY StreamFacts
<1>2. i \in Nat /\ i # 0 /\ i - 1 \in 0..Len(sent) /\ i \in 0..Len(sent) /\ (i = 1 <=> i - 1 = 0)
  BY StreamFacts
<1>3. BeginOf(i) = Place(ends, i - 1) /\ ends[i] = Place(ends, i)
  BY <1>2, Zenon DEF BeginOf, Place
<1>4. /\ Place(ends, i - 1) \in Nat /\ Place(ends, i) \in Nat /\ Place(ends, i) \in 0..Len(stream)
  BY <1>1, <1>2, StreamedParts
<1>5. /\ Place(ends, i) = Place(ends, i - 1) + Len(Packed(dir, sent[i]))
      /\ \A j \in 1..Len(Packed(dir, sent[i])) :
           stream[Place(ends, i - 1) + j] = Packed(dir, sent[i])[j]
  BY <1>1 DEF Streamed
<1>6. Place(ends, i) <= Len(stream)
  BY <1>1, <1>4
<1>. QED BY <1>3, <1>4, <1>5, <1>6

LEMMA HeadersHold == WireInv => HeadersDelimit
<1> SUFFICES ASSUME WireInv
             PROVE  HeadersDelimit
  OBVIOUS
<1>1. PICK m \in Nat : m = Len(sent) /\ m = Len(ends)
  BY StreamFacts
<1>2. Len(stream) = IF ends = <<>> THEN 0 ELSE Last(ends)
  <2>1. Len(stream) = Place(ends, m)
    BY <1>1, StreamFacts DEF Streamed
  <2>2. ends \in Seq(Nat)
    BY StreamFacts, StreamedParts
  <2>3. CASE m = 0
    <3>1. ends = <<>>
      BY <1>1, <2>2, <2>3, EmptySeq
    <3>. QED BY <2>1, <2>3, <3>1, Zenon DEF Place
  <2>4. CASE m # 0
    <3>1. ends # <<>>
      BY <1>1, <2>4
    <3>. QED BY <1>1, <2>1, <2>4, <3>1, Zenon DEF Place, Last
  <2>. QED BY <2>3, <2>4
<1>3. ASSUME NEW i \in 1..m
      PROVE  /\ stream[BeginOf(i) + 1] = sent[i].opcode
             /\ ShortBytes(ends[i] - BeginOf(i) - Header)
                  = SubSeq(stream, BeginOf(i) + 2, BeginOf(i) + 3)
  <2>1. PICK p \in Messages[dir] : p = sent[i]
    BY <1>1, StreamFacts
  <2>2. PICK e \in Seq(Byte), n \in Nat :
               /\ e = Packed(dir, p) /\ n = Len(e) /\ 3 <= n
               /\ e[1] = p.opcode
               /\ e[2] = ShortBytes(n - Header)[1]
               /\ e[3] = ShortBytes(n - Header)[2]
    <3>1. dir \in Directions
      BY StreamFacts
    <3>2. /\ Packed(dir, p) \in Seq(Byte) /\ Len(Packed(dir, p)) \in Nat
          /\ 3 <= Len(Packed(dir, p))
          /\ Packed(dir, p)[1] = p.opcode
          /\ Packed(dir, p)[2] = ShortBytes(Len(Packed(dir, p)) - Header)[1]
          /\ Packed(dir, p)[3] = ShortBytes(Len(Packed(dir, p)) - Header)[2]
      BY <3>1, PackedIs
    <3>. QED BY <3>2
  <2>3. PICK at \in Nat, to \in Nat : /\ at = BeginOf(i) /\ to = ends[i] /\ to = at + n
                                      /\ to <= Len(stream)
                                      /\ \A j \in 1..n : stream[at + j] = e[j]
    <3>1. /\ BeginOf(i) = Place(ends, i - 1) /\ ends[i] = Place(ends, i)
          /\ Place(ends, i - 1) \in Nat /\ Place(ends, i) \in Nat /\ Place(ends, i) <= Len(stream)
          /\ Place(ends, i) = Place(ends, i - 1) + Len(Packed(dir, sent[i]))
          /\ \A j \in 1..Len(Packed(dir, sent[i])) :
               stream[Place(ends, i - 1) + j] = Packed(dir, sent[i])[j]
      BY <1>1, PlaceIs
    <3>2. PICK at \in Nat, to \in Nat : at = Place(ends, i - 1) /\ to = Place(ends, i)
      BY <3>1
    <3>. QED BY <2>1, <2>2, <3>1, <3>2, Zenon
  <2>4. 1 \in 1..n /\ 2 \in 1..n /\ 3 \in 1..n
    BY <2>2
  <2>5. stream[at + 1] = p.opcode
    BY <2>2, <2>3, <2>4
  <2>6. PICK sh \in Seq(Byte) : sh = ShortBytes(n - Header) /\ Len(sh) = 2
    <3>1. n - Header \in Int
      BY DEF Header
    <3>2. ShortBytes(n - Header) \in Seq(Byte) /\ Len(ShortBytes(n - Header)) = 2
      BY <3>1, ShortBytesType
    <3>. QED BY <3>2
  <2>7. PICK from \in Nat : /\ from = at + 1 /\ from + 1 = at + 2 /\ from + 2 = at + 3
                            /\ from + 2 <= Len(stream)
    <3>1. PICK l \in Nat : l = Len(stream)
      BY StreamFacts
    <3>. QED BY <2>2, <2>3, <3>1
  <2>8. PICK cut \in Seq(Byte) : /\ cut = SubSeq(stream, from + 1, from + 2) /\ Len(cut) = 2
                                 /\ \A j \in 1..2 : cut[j] = stream[from + j]
    <3>1. stream \in Seq(Byte)
      BY StreamFacts
    <3>2. 2 \in Nat
      OBVIOUS
    <3>3. /\ SubSeq(stream, from + 1, from + 2) \in Seq(Byte)
          /\ Len(SubSeq(stream, from + 1, from + 2)) = 2
          /\ \A j \in 1..2 : SubSeq(stream, from + 1, from + 2)[j] = stream[from + j]
      BY <2>7, <3>1, <3>2, PieceIs
    <3>. QED BY <3>3
  <2>9. sh = cut
    <3>1. ASSUME NEW j \in 1..2
          PROVE  sh[j] = cut[j]
      <4>1. CASE j = 1
        <5>1. cut[j] = stream[at + 2]
          BY <2>7, <2>8, <4>1
        <5>2. stream[at + 2] = e[2]
          BY <2>3, <2>4
        <5>. QED BY <2>2, <2>6, <4>1, <5>1, <5>2, Zenon
      <4>2. CASE j = 2
        <5>1. cut[j] = stream[at + 3]
          BY <2>7, <2>8, <4>2
        <5>2. stream[at + 3] = e[3]
          BY <2>3, <2>4
        <5>. QED BY <2>2, <2>6, <4>2, <5>1, <5>2, Zenon
      <4>. QED BY <4>1, <4>2
    <3>. QED BY <2>6, <2>8, <3>1, SeqEqual
  <2>10. to - at = n
    BY <2>3
  <2>. QED BY <2>1, <2>3, <2>5, <2>6, <2>7, <2>8, <2>9, <2>10, Zenon
<1>4. \A i \in DOMAIN sent : i \in 1..m
  BY <1>1, StreamFacts
<1>. QED BY <1>2, <1>3, <1>4, Zenon DEF HeadersDelimit

\* The encoding the properties speak of is the one the proofs are about.
LEMMA EncodedSame ==
  ASSUME NEW p
  PROVE  Encoded(p) = EncodedIn(dir, p)
<1>1. \A i : FieldBytes(p, i) = Field(dir, p, i)
  BY DEF FieldBytes, Field, Coded
<1>2. [i \in DOMAIN p.fields |-> FieldBytes(p, i)] = [i \in DOMAIN p.fields |-> Field(dir, p, i)]
  BY <1>1, Zenon
<1>3. Body(p) = BodyOf(dir, p)
  BY <1>2, Zenon DEF Body, BodyOf
<1>. QED BY <1>3, Zenon DEF Encoded, EncodedIn

LEMMA WholeSame ==
  ASSUME WireInv, AllWhole
  PROVE  EachWhole(dir, sent)
<1>1. \A i \in 1..Len(sent) : i \in DOMAIN sent
  BY StreamFacts
<1>2. SenderSize = SizeOf(dir)
  BY DEF SenderSize, SizeOf
<1>3. ASSUME NEW i \in 1..Len(sent)
      PROVE  Len(EncodedIn(dir, sent[i])) < SizeOf(dir)
  <2>1. Len(Encoded(sent[i])) < SenderSize
    BY <1>1, Zenon DEF AllWhole, Whole
  <2>2. Encoded(sent[i]) = EncodedIn(dir, sent[i])
    BY EncodedSame
  <2>. QED BY <1>2, <2>1, <2>2, Zenon
<1>. QED BY <1>3 DEF EachWhole

LEMMA GoneHolds == WireInv => GoneOnlyOverCuts
<1> SUFFICES ASSUME WireInv, reader = "gone", sound, AllWhole
             PROVE  FALSE
  BY DEF GoneOnlyOverCuts
<1>1. reader = "up"
  BY WholeSame DEF WireInv, SessionInv
<1>. QED BY <1>1

\* Packets that end at a place of the stream are counted by it.
LEMMA BeforePlace ==
  ASSUME WireInv, NEW k \in 0..Len(sent)
  PROVE  PacketsBefore(Place(ends, k)) = k
<1>1. PICK m \in Nat : m = Len(sent) /\ DOMAIN ends = 1..m
  BY StreamFacts
<1>2. /\ \A i \in 0..m : Place(ends, i) \in Nat
      /\ \A i, j \in 0..m : i < j => Place(ends, i) < Place(ends, j)
  BY <1>1, StreamFacts, StreamedParts DEF Streamed
<1>3. PICK at \in Nat : at = Place(ends, k)
  BY <1>1, <1>2
<1>4. \A i \in 1..m : i \in 0..m /\ ends[i] = Place(ends, i)
  <2>1. \A i \in 1..m : i \in 0..m /\ i # 0
    OBVIOUS
  <2>. QED BY <2>1, Zenon DEF Place
<1>5. ASSUME NEW i \in 1..m
      PROVE  ends[i] <= at <=> i <= k
  <2>1. PICK x \in Nat : x = Place(ends, i) /\ x = ends[i]
    BY <1>2, <1>4
  <2>2. CASE i <= k
    <3>1. i = k \/ i < k
      BY <1>1, <2>2
    <3>2. x = at \/ x < at
      BY <1>1, <1>2, <1>3, <1>4, <2>1, <3>1
    <3>. QED BY <2>1, <2>2, <3>2
  <2>3. CASE ~(i <= k)
    <3>1. k < i
      BY <1>1, <2>3
    <3>2. at < x
      BY <1>1, <1>2, <1>3, <1>4, <2>1, <3>1
    <3>. QED BY <2>1, <2>3, <3>2
  <2>. QED BY <2>2, <2>3
<1>6. {i \in DOMAIN ends : ends[i] <= at} = 1..k
  <2>1. \A i : i \in 1..k <=> i \in 1..m /\ i <= k
    BY <1>1
  <2>. QED BY <1>1, <1>5, <2>1
<1>7. Cardinality(1..k) = k
  <2>1. k \in Int /\ 1 \in Int /\ k - 1 + 1 = k /\ (1 > k => k = 0)
    BY <1>1
  <2>2. Cardinality(1..k) = IF 1 > k THEN 0 ELSE k - 1 + 1
    BY <2>1, FS_Interval
  <2>. QED BY <2>1, <2>2
<1>. QED BY <1>3, <1>6, <1>7, Zenon DEF PacketsBefore

\* The session, with the counting of the properties.
LEMMA SessionIs ==
  ASSUME WireInv, sound, AllWhole
  PROVE  /\ PacketsBefore(start) \in Nat /\ handed \in Seq(Messages[dir])
         /\ PacketsBefore(start) + Len(handed) \in 0..Len(sent)
         /\ \A i \in 1..Len(handed) : handed[i] = sent[PacketsBefore(start) + i]
         /\ HandedEnd = Place(ends, PacketsBefore(start) + Len(handed))
         /\ HandedEnd <= arrived
         /\ Holds(buffer, stream, HandedEnd, arrived)
<1>1. Follows(dir, stream, sent, ends, arrived, buffer, start, handed)
  BY WholeSame DEF WireInv, SessionInv
<1>2. PICK m \in Nat : m = Len(sent)
  BY StreamFacts
<1>3. PICK k \in 0..m :
        /\ handed \in Seq(Messages[dir]) /\ k + Len(handed) <= m
        /\ start = Place(ends, k)
        /\ \A i \in 1..Len(handed) : handed[i] = sent[k + i]
        /\ Place(ends, k + Len(handed)) <= arrived
        /\ Holds(buffer, stream, Place(ends, k + Len(handed)), arrived)
  BY <1>1, <1>2, Zenon DEF Follows
<1>4. PacketsBefore(start) = k
  BY <1>2, <1>3, BeforePlace
<1>5. PICK l \in Nat : l = Len(handed)
  BY <1>3, LenProperties
<1>6. HandedEnd = Place(ends, k + l)
  BY <1>4, <1>5, Zenon DEF HandedEnd, Place
<1>7. k \in Nat /\ k + l \in 0..m
  BY <1>3, <1>5
<1>. QED BY <1>2, <1>3, <1>4, <1>5, <1>6, <1>7, Zenon

LEMMA OrderHolds == WireInv => SessionInOrder
<1> SUFFICES ASSUME WireInv, sound, AllWhole
             PROVE  /\ PacketsBefore(start) + Len(handed) <= Len(sent)
                    /\ \A i \in DOMAIN handed : handed[i] = sent[PacketsBefore(start) + i]
  BY Zenon DEF SessionInOrder
<1>1. PICK n \in 0..Len(sent) : n = PacketsBefore(start) + Len(handed)
  BY SessionIs
<1>2. n <= Len(sent)
  BY <1>1, StreamFacts
<1>3. DOMAIN handed = 1..Len(handed)
  BY SessionIs, LenProperties
<1>4. \A i \in 1..Len(handed) : handed[i] = sent[PacketsBefore(start) + i]
  BY SessionIs
<1>. QED BY <1>1, <1>2, <1>3, <1>4, Zenon

LEMMA PlaceHolds == WireInv => SessionKeepsPlace
<1> SUFFICES ASSUME WireInv, sound, AllWhole
             PROVE  Unread(buffer) = SubSeq(stream, HandedEnd + 1, arrived)
  BY Zenon DEF SessionKeepsPlace
<1>1. buffer \in Buffer(BufferSize) /\ arrived \in 0..Len(stream)
  BY DEF WireInv, ReaderInv
<1>2. stream \in Seq(Byte) /\ Len(stream) \in Nat
  BY StreamFacts
<1>3. PICK at \in Nat : at = HandedEnd /\ at <= arrived /\ Holds(buffer, stream, at, arrived)
  <2>1. PICK n \in 0..Len(sent) : n = PacketsBefore(start) + Len(handed)
    BY SessionIs
  <2>2. Place(ends, n) \in Nat
    BY StreamFacts, StreamedParts
  <2>3. /\ HandedEnd = Place(ends, PacketsBefore(start) + Len(handed))
        /\ HandedEnd <= arrived /\ Holds(buffer, stream, HandedEnd, arrived)
    BY SessionIs
  <2>4. HandedEnd \in Nat
    BY <2>1, <2>2, <2>3, Zenon
  <2>. QED BY <2>3, <2>4
<1>4. PICK n \in Nat : n = arrived - at /\ at + n = arrived /\ at + n <= Len(stream)
  BY <1>1, <1>2, <1>3
<1>5. PICK r : r = buffer.read
  OBVIOUS
<1>6. buffer.used - buffer.read = n /\ \A i \in 1..n : buffer.bytes[r + i] = stream[at + i]
  BY <1>3, <1>4, <1>5, Zenon DEF Holds
<1>7. PICK u \in Seq(Byte) : /\ u = Unread(buffer) /\ Len(u) = n
                             /\ \A i \in 1..n : u[i] = buffer.bytes[r + i]
  <2>1. /\ Unread(buffer) \in Seq(Byte) /\ Len(Unread(buffer)) = buffer.used - buffer.read
        /\ \A i \in 1..buffer.used - buffer.read : Unread(buffer)[i] = buffer.bytes[buffer.read + i]
    BY <1>1, BufferSizeIsNat, UnreadIs
  <2>. QED BY <1>5, <1>6, <2>1, Zenon
<1>8. PICK v \in Seq(Byte) : /\ v = SubSeq(stream, at + 1, at + n) /\ Len(v) = n
                             /\ \A i \in 1..n : v[i] = stream[at + i]
  <2>1. /\ SubSeq(stream, at + 1, at + n) \in Seq(Byte)
        /\ Len(SubSeq(stream, at + 1, at + n)) = n
        /\ \A i \in 1..n : SubSeq(stream, at + 1, at + n)[i] = stream[at + i]
    BY <1>2, <1>4, PieceIs
  <2>. QED BY <2>1, Zenon
<1>9. u = v
  <2>1. \A i \in 1..n : u[i] = v[i]
    BY <1>6, <1>7, <1>8
  <2>. QED BY <1>7, <1>8, <2>1, SeqEqual
<1>. QED BY <1>3, <1>4, <1>7, <1>8, <1>9, Zenon

LEMMA EncodedHolds == WireInv => StreamIsEncoded
<1> SUFFICES ASSUME WireInv, AllWhole
             PROVE  stream = FlattenSeq([i \in DOMAIN sent |-> Encoded(sent[i])])
  BY Zenon DEF StreamIsEncoded
<1>1. PICK m \in Nat, l \in Nat : m = Len(sent) /\ DOMAIN sent = 1..m /\ l = Len(stream)
  BY StreamFacts
<1>2. /\ stream \in Seq(Byte) /\ l = Place(ends, m)
      /\ \A k \in 0..m : Place(ends, k) \in 0..l
  BY <1>1, StreamFacts DEF Streamed
<1>3. PICK seqs : seqs = [i \in DOMAIN sent |-> Encoded(sent[i])]
  OBVIOUS
<1>4. ASSUME NEW i \in 1..m
      PROVE  seqs[i] = Packed(dir, sent[i]) /\ seqs[i] \in Seq(Byte)
  <2>1. sent[i] \in Messages[dir] /\ WellFormed(dir, sent[i]) /\ dir \in Directions
    BY <1>1, StreamFacts, MessagesFit
  <2>2. Len(EncodedIn(dir, sent[i])) < SizeOf(dir)
    BY <1>1, WholeSame DEF EachWhole
  <2>3. Packed(dir, sent[i]) = EncodedIn(dir, sent[i])
    BY <2>1, <2>2, ImageIs DEF Packed
  <2>4. Packed(dir, sent[i]) \in Seq(Byte)
    BY <2>1, PackedIs
  <2>5. seqs[i] = Encoded(sent[i])
    BY <1>1, <1>3
  <2>. QED BY <2>3, <2>4, <2>5, EncodedSame, Zenon
<1>5. seqs \in Seq(Seq(Byte)) /\ Len(seqs) = m
  <2>1. seqs = [i \in 1..m |-> seqs[i]]
    BY <1>1, <1>3
  <2>2. seqs \in [1..m -> Seq(Byte)]
    BY <1>4, <2>1
  <2>. QED BY <2>2
<1>6. PICK grown : grown = [k \in 0..m |-> SubSeq(stream, 1, Place(ends, k))]
  OBVIOUS
<1>7. ASSUME NEW k \in 0..m
      PROVE  /\ grown[k] \in Seq(Byte) /\ Len(grown[k]) = Place(ends, k)
             /\ Place(ends, k) \in Nat /\ Place(ends, k) <= l
             /\ \A i \in 1..Place(ends, k) : grown[k][i] = stream[i]
  <2>1. PICK n \in Nat : n = Place(ends, k) /\ n <= l
    BY <1>2
  <2>2. 0 + n <= Len(stream)
    BY <1>1, <2>1
  <2>3. /\ SubSeq(stream, 0 + 1, 0 + n) \in Seq(Byte)
        /\ Len(SubSeq(stream, 0 + 1, 0 + n)) = n
        /\ \A i \in 1..n : SubSeq(stream, 0 + 1, 0 + n)[i] = stream[0 + i]
    <3>1. 0 \in Nat
      OBVIOUS
    <3>. QED BY <1>2, <2>2, <3>1, PieceIs
  <2>4. grown[k] = SubSeq(stream, 1, n) /\ 0 + 1 = 1 /\ 0 + n = n /\ \A i \in 1..n : 0 + i = i
    BY <1>6, <2>1
  <2>. QED BY <2>1, <2>3, <2>4, Zenon
<1>8. grown \in [0..m -> Seq(Byte)]
  <2>1. grown = [k \in 0..m |-> grown[k]]
    BY <1>6
  <2>. QED BY <1>7, <2>1
<1>9. grown[0] = <<>>
  <2>1. 0 \in 0..m /\ Place(ends, 0) = 0
    BY DEF Place
  <2>2. Len(grown[0]) = 0 /\ grown[0] \in Seq(Byte)
    BY <1>7, <2>1
  <2>. QED BY <2>2, EmptySeq
<1>10. ASSUME NEW k \in 1..m
       PROVE  grown[k] = grown[k - 1] \o seqs[k]
  <2>1. k \in 0..m /\ k - 1 \in 0..m
    OBVIOUS
  <2>2. PICK e \in Seq(Byte), n \in Nat : e = seqs[k] /\ n = Len(e)
    BY <1>4, LenProperties
  <2>3. PICK at \in Nat, to \in Nat : /\ at = Place(ends, k - 1) /\ to = Place(ends, k)
                                      /\ to = at + n
                                      /\ \A j \in 1..n : stream[at + j] = e[j]
    <3>1. Place(ends, k - 1) \in Nat /\ Place(ends, k) \in Nat
      BY <1>7, <2>1
    <3>2. PICK at \in Nat, to \in Nat : at = Place(ends, k - 1) /\ to = Place(ends, k)
      BY <3>1
    <3>3. /\ Place(ends, k) = Place(ends, k - 1) + Len(Packed(dir, sent[k]))
          /\ \A j \in 1..Len(Packed(dir, sent[k])) :
               stream[Place(ends, k - 1) + j] = Packed(dir, sent[k])[j]
      BY <1>1, PlaceIs
    <3>4. e = Packed(dir, sent[k])
      BY <1>4, <2>2
    <3>5. to = at + n
      BY <2>2, <3>2, <3>3, <3>4, Zenon
    <3>6. \A j \in 1..n : stream[at + j] = e[j]
      BY <2>2, <3>2, <3>3, <3>4, Zenon
    <3>. QED BY <3>2, <3>5, <3>6, Zenon
  <2>4. PICK g \in Seq(Byte) : /\ g = grown[k - 1] /\ Len(g) = at
                               /\ \A i \in 1..at : g[i] = stream[i]
    BY <1>7, <2>1, <2>3
  <2>5. PICK h \in Seq(Byte) : /\ h = grown[k] /\ Len(h) = to
                               /\ \A i \in 1..to : h[i] = stream[i]
    BY <1>7, <2>1, <2>3
  <2>6. PICK c \in Seq(Byte) :
          /\ c = g \o e /\ Len(c) = at + n
          /\ \A i \in 1 .. at + n : c[i] = IF i <= at THEN g[i] ELSE e[i - at]
    <3>1. /\ g \o e \in Seq(Byte) /\ Len(g \o e) = Len(g) + Len(e)
          /\ \A i \in 1 .. Len(g) + Len(e) :
               (g \o e)[i] = IF i <= Len(g) THEN g[i] ELSE e[i - Len(g)]
      BY ConcatProperties
    <3>2. PICK c \in Seq(Byte) : c = g \o e
      BY <3>1
    <3>3. Len(c) = at + n
      BY <2>2, <2>4, <3>1, <3>2, Zenon
    <3>4. \A i \in 1 .. at + n : c[i] = IF i <= at THEN g[i] ELSE e[i - at]
      BY <2>2, <2>4, <3>1, <3>2, Zenon
    <3>. QED BY <3>2, <3>3, <3>4, Zenon
  <2>7. ASSUME NEW i \in 1..to
        PROVE  h[i] = c[i]
    <3>1. CASE i <= at
      <4>1. i \in 1..at /\ i \in 1 .. at + n
        BY <2>3, <3>1
      <4>. QED BY <2>4, <2>5, <2>6, <3>1, <4>1
    <3>2. CASE ~(i <= at)
      <4>1. PICK j \in 1..n : j = i - at /\ i = at + j
        BY <2>3, <3>2
      <4>2. c[i] = e[j] /\ h[i] = stream[i] /\ stream[at + j] = e[j]
        BY <2>3, <2>5, <2>6, <3>2, <4>1
      <4>. QED BY <4>1, <4>2
    <3>. QED BY <3>1, <3>2
  <2>8. h = c
    <3>1. Len(h) = Len(c) /\ \A i \in 1..Len(h) : h[i] = c[i]
      BY <2>3, <2>5, <2>6, <2>7, Zenon
    <3>. QED BY <3>1, SeqEqual
  <2>. QED BY <2>2, <2>4, <2>5, <2>6, <2>8, Zenon
<1>11. FlattenSeq(seqs) = grown[m]
  <2>1. /\ grown \in [0..Len(seqs) -> Seq(Byte)]
        /\ \A k \in 1..Len(seqs) : grown[k] = grown[k - 1] \o seqs[k]
    BY <1>5, <1>8, <1>10
  <2>2. FlattenSeq(seqs) = grown[Len(seqs)]
    BY <1>5, <1>9, <2>1, Flattened
  <2>. QED BY <1>5, <2>2
<1>12. grown[m] = stream
  <2>1. m \in 0..m
    OBVIOUS
  <2>2. PICK g \in Seq(Byte) : /\ g = grown[m] /\ Len(g) = l
                               /\ \A i \in 1..l : g[i] = stream[i]
    BY <1>2, <1>7, <2>1
  <2>3. g = stream
    BY <1>1, <1>2, <2>2, SeqEqual
  <2>. QED BY <2>2, <2>3
<1>. QED BY <1>3, <1>11, <1>12, Zenon

-----------------------------------------------------------------------------
(* The theorems, for every set of packets and every size of the buffers.     *)

\* Type correctness: what is buffered lies within the buffer, what has arrived
\* within the stream.
THEOREM WireTypeCorrect == Spec => []WireTypeOK
BY WireInductive, WireTypeHolds, PTL

\* The headers cut the stream into the packets sent, also those whose last
\* fields did not fit the buffer they were written to.
THEOREM HeadersDelimitCorrect == Spec => []HeadersDelimit
BY WireInductive, HeadersHold, PTL

\* While every packet fits, sendLoop's single sends and writeToConnection's
\* collected ones make the same stream: the encodings, in the order sent.
THEOREM StreamIsEncodedCorrect == Spec => []StreamIsEncoded
BY WireInductive, EncodedHolds, PTL

\* However the stream is cut between headers, a session that began at a packet
\* makes exactly the packets sent from there on, in order.
THEOREM SessionInOrderCorrect == Spec => []SessionInOrder
BY WireInductive, OrderHolds, PTL

\* Such a session skips no byte and reads none twice.
THEOREM SessionKeepsPlaceCorrect == Spec => []SessionKeepsPlace
BY WireInductive, PlaceHolds, PTL

\* The node's process ends over what it receives only when a receive began or
\* ended inside a packet, or a packet was written short.
THEOREM GoneOnlyOverCutsCorrect == Spec => []GoneOnlyOverCuts
BY WireInductive, GoneHolds, PTL
=============================================================================
