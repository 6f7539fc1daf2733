---------------------------- MODULE BufferProofs ----------------------------
(***************************************************************************)
(* Proofs about module Buffer, for a char and strings of any size: no byte   *)
(* is written outside the sender's buffer, and the buffer that is sent is     *)
(* less than twice what was written unless it is an authentication frame.    *)
(* With a char of at least four bits (a header is below half its range),     *)
(* every packet with short strings that one recv takes is read back.         *)
(***************************************************************************)
EXTENDS Buffer, SequenceTheorems, TLAPS

\* A buffer whose array has the length it keeps, written up to writeIndex.
IsBuffer(b) ==
    /\ b = [data |-> b.data, length |-> b.length, readIndex |-> b.readIndex,
            writeIndex |-> b.writeIndex]
    /\ b.length \in Nat /\ b.length > 0 /\ b.writeIndex \in Nat
    /\ DOMAIN b.data = 0 .. b.length - 1
    /\ b.writeIndex <= b.length

\* The strengthening: what the sender's buffer is between two bytes.
IInv ==
    /\ pending \in Seq(Byte)
    /\ IsBuffer(out)
    /\ FrameAtMostDoubles

(* The four chars of an int are chars, and there are four of them.            *)
LEMMA IntBytesType ==
    ASSUME NEW v \in Nat
    PROVE  IntBytes(v) \in Seq(Byte) /\ Len(IntBytes(v)) = 4
<1> USE BufferAssumption
<1>1. \A i \in 1 .. 4 : Weight[i] \in Nat /\ Weight[i] > 0
  <2>1. Base * Base \in Nat /\ Base * Base > 0
    OBVIOUS
  <2> DEFINE Square == Base * Base
  <2>2. Square * Base \in Nat /\ Square * Base > 0
    <3> HIDE DEF Square
    <3>1. Square \in Nat /\ Square > 0
      BY <2>1 DEF Square
    <3> QED BY <3>1
  <2> QED BY <2>1, <2>2 DEF Weight
<1>2. \A i \in 1 .. 4 : (v \div Weight[i]) % Base \in Byte
  <2> SUFFICES ASSUME NEW i \in 1 .. 4 PROVE (v \div Weight[i]) % Base \in Byte
    OBVIOUS
  <2> DEFINE w == Weight[i]
             q == v \div w
  <2>1. w \in Nat /\ w > 0
    BY <1>1
  <2> HIDE DEF w
  <2>2. q \in Int
    BY <2>1
  <2> HIDE DEF q
  <2>3. q % Base \in 0 .. Base - 1
    BY <2>2
  <2> QED BY <2>3 DEF Byte, q, w
<1> QED BY <1>2 DEF IntBytes, IntSize

(* A length followed by its string is a sequence of chars, four longer.       *)
LEMMA FieldType ==
    ASSUME NEW s \in Seq(Byte)
    PROVE  Field(s) \in Seq(Byte) /\ Len(Field(s)) = 4 + Len(s)
<1>1. Len(s) \in Nat
  OBVIOUS
<1>2. IntBytes(Len(s)) \in Seq(Byte) /\ Len(IntBytes(Len(s))) = 4
  BY <1>1, IntBytesType
<1> DEFINE b == IntBytes(Len(s))
<1> HIDE DEF b
<1>3. b \in Seq(Byte) /\ Len(b) = 4
  BY <1>2 DEF b
<1>4. b \o s \in Seq(Byte) /\ Len(b \o s) = Len(b) + Len(s)
  BY <1>3, ConcatProperties
<1> QED BY <1>3, <1>4 DEF Field, b

(* Serialize writes more than half as many bytes as GetSize says; GetSize is   *)
(* never zero.                                                               *)
LEMMA PacketType ==
    ASSUME NEW p \in Packet
    PROVE  /\ Serialize(p) \in Seq(Byte)
           /\ Serialize(p) # <<>>
           /\ GetSize(p) \in Nat /\ GetSize(p) > 0
           /\ GetSize(p) < 2 * Len(Serialize(p))
<1> DEFINE h == IntBytes(p.header)
           f1 == p.fields[1]
           f2 == p.fields[2]
<1>1. /\ p.header \in Nat /\ f1 \in Seq(Byte)
      /\ Fields(p.header) = 2 => f2 \in Seq(Byte)
  <2>1. CASE p \in {[header |-> k, fields |-> f] :
                       k \in {0} \cup 4 .. 7, f \in [1 .. 1 -> Text]}
    BY <2>1, BufferAssumption DEF Fields
  <2>2. CASE p \in {[header |-> k, fields |-> f] : k \in 1 .. 3, f \in [1 .. 2 -> Text]}
    BY <2>2, BufferAssumption
  <2> QED BY <2>1, <2>2 DEF Packet
<1>2. h \in Seq(Byte) /\ Len(h) = 4
  BY <1>1, IntBytesType
<1>3. Field(f1) \in Seq(Byte) /\ Len(Field(f1)) = 4 + Len(f1) /\ Len(f1) \in Nat
  BY <1>1, FieldType, LenProperties
<1> HIDE DEF h, f1, f2
<1>4. h \o Field(f1) \in Seq(Byte) /\ Len(h \o Field(f1)) = 8 + Len(f1)
  <2>1. Len(h \o Field(f1)) = Len(h) + Len(Field(f1)) /\ h \o Field(f1) \in Seq(Byte)
    BY <1>2, <1>3, ConcatProperties
  <2> QED BY <2>1, <1>2, <1>3
<1>5. CASE Fields(p.header) = 2
  <2>1. /\ f2 \in Seq(Byte) /\ Len(f2) \in Nat
        /\ Field(f2) \in Seq(Byte) /\ Len(Field(f2)) = 4 + Len(f2)
    BY <1>1, <1>5, FieldType, LenProperties
  <2> DEFINE s == (h \o Field(f1)) \o Field(f2)
  <2>2. s \in Seq(Byte) /\ Len(s) = 12 + Len(f1) + Len(f2)
    <3>1. s \in Seq(Byte) /\ Len(s) = Len(h \o Field(f1)) + Len(Field(f2))
      BY <1>4, <2>1, ConcatProperties
    <3> QED BY <3>1, <1>3, <1>4, <2>1
  <2>3. Serialize(p) = s
    BY <1>5 DEF Serialize, h, f1, f2
  <2>4. GetSize(p) = 4 + Len(f1) + Len(f2)
    BY <1>5 DEF GetSize, IntSize, f1, f2
  <2> HIDE DEF s
  <2>5. s # <<>>
    BY <2>2, <1>3, <2>1, EmptySeq
  <2> QED BY <2>1, <2>2, <2>3, <2>4, <2>5, <1>3
<1>6. CASE Fields(p.header) # 2
  <2> DEFINE s == h \o Field(f1)
  <2>1. s \in Seq(Byte) /\ Len(s) = 8 + Len(f1)
    BY <1>4
  <2>2. Serialize(p) = s \o <<>>
    BY <1>6 DEF Serialize, h, f1, f2
  <2>3. s \o <<>> = s
    BY <2>1, ConcatEmptySeq
  <2>4. GetSize(p) = 4 + Len(f1)
    <3>1. GetSize(p) = 4 + Len(f1) + 0
      BY <1>6 DEF GetSize, IntSize, f1
    <3> QED BY <3>1, <1>3
  <2> HIDE DEF s
  <2>5. s # <<>>
    BY <2>1, <1>3, EmptySeq
  <2> QED BY <2>1, <2>2, <2>3, <2>4, <2>5, <1>3
<1> QED BY <1>5, <1>6

-----------------------------------------------------------------------------

(* InsertByte at writeIndex stays inside the array, which it doubles exactly   *)
(* when it is full (Buffer.cpp:139-147).                                      *)
LEMMA InsertByteAtEnd ==
    ASSUME NEW b, IsBuffer(b), NEW byte
    PROVE  LET after == [InsertByte(b, b.writeIndex, byte) EXCEPT !.writeIndex = @ + 1]
           IN /\ IsBuffer(after)
              /\ after.writeIndex = b.writeIndex + 1
              /\ after.length = IF b.writeIndex = b.length THEN 2 * b.length
                                ELSE b.length
<1> DEFINE grown == IF b.writeIndex >= b.length THEN Resize(b, b.length * 2) ELSE b
           stored == Store(grown, b.writeIndex, byte)
           after == [stored EXCEPT !.writeIndex = @ + 1]
<1>1. /\ IsBuffer(grown)
      /\ grown.writeIndex = b.writeIndex
      /\ b.writeIndex < grown.length
      /\ grown.length = IF b.writeIndex = b.length THEN 2 * b.length ELSE b.length
  <2>1. CASE b.writeIndex = b.length
    <3>1. grown = [data |-> [i \in 0 .. b.length * 2 - 1 |->
                                IF i < b.length THEN b.data[i] ELSE Uninit],
                   length |-> b.length * 2,
                   readIndex |-> b.readIndex, writeIndex |-> b.writeIndex]
      BY <2>1 DEF Resize, IsBuffer
    <3> QED BY <3>1, <2>1 DEF IsBuffer
  <2>2. CASE b.writeIndex < b.length
    BY <2>2 DEF IsBuffer
  <2> QED BY <2>1, <2>2 DEF IsBuffer
<1> HIDE DEF grown
<1> DEFINE d == [i \in DOMAIN grown.data \cup {b.writeIndex} |->
                   IF i = b.writeIndex THEN byte ELSE grown.data[i]]
<1>2. stored = [data |-> d, length |-> grown.length,
                readIndex |-> grown.readIndex, writeIndex |-> grown.writeIndex]
  <2>1. stored = [grown EXCEPT !.data = d]
    BY DEF Store
  <2> HIDE DEF d, stored
  <2> QED BY <2>1, <1>1 DEF IsBuffer
<1>3. DOMAIN d = 0 .. grown.length - 1
  BY <1>1 DEF IsBuffer
<1> HIDE DEF d
<1> HIDE DEF stored
<1>4. after = [data |-> stored.data, length |-> grown.length,
               readIndex |-> grown.readIndex, writeIndex |-> b.writeIndex + 1]
  BY <1>1, <1>2
<1>5. DOMAIN after.data = 0 .. grown.length - 1
  BY <1>2, <1>3, <1>4
<1>6. after = [InsertByte(b, b.writeIndex, byte) EXCEPT !.writeIndex = @ + 1]
  BY DEF InsertByte, stored, grown
<1> HIDE DEF after
<1>7. IsBuffer(after)
  BY <1>1, <1>4, <1>5 DEF IsBuffer
<1> QED BY <1>1, <1>4, <1>6, <1>7

(* A new buffer is one, and nothing is written in it.                         *)
LEMMA NewBufferType ==
    ASSUME NEW size \in Nat, size > 0
    PROVE  /\ IsBuffer(NewBuffer(size))
           /\ NewBuffer(size).length = size /\ NewBuffer(size).writeIndex = 0
BY DEF NewBuffer, IsBuffer

(* The first buffer satisfies the invariant.                                  *)
LEMMA InitIInv == Init => IInv
<1> SUFFICES ASSUME Init PROVE IInv
  OBVIOUS
<1>1. IsBuffer(out) /\ out.length = 4
  BY NewBufferType DEF Init, IntSize
<1>2. FrameAtMostDoubles
  BY <1>1, BufferAssumption DEF FrameAtMostDoubles, IntSize
<1>3. pending \in Seq(Byte)
  BY EmptySeq DEF Init
<1> QED BY <1>1, <1>2, <1>3 DEF IInv

(* Every step preserves the invariant: only a new packet and an inserted byte  *)
(* touch the sender's buffer.                                                *)
LEMMA StepIInv == IInv /\ [Next]_vars => IInv'
<1> SUFFICES ASSUME IInv, [Next]_vars PROVE IInv'
  OBVIOUS
<1>1. CASE NewPacket
  <2>1. PICK p \in Packet :
           /\ out' = NewBuffer(IF IsAuth(p.header) THEN RecvLen ELSE GetSize(p))
           /\ pending' = Serialize(p)
    BY <1>1 DEF NewPacket
  <2> DEFINE size == IF IsAuth(p.header) THEN RecvLen ELSE GetSize(p)
  <2>2. size \in Nat /\ size > 0
    BY PacketType, BufferAssumption DEF IntSize
  <2>3. size <= RecvLen \/ size < 2 * Len(Serialize(p))
    BY PacketType, BufferAssumption
  <2> HIDE DEF size
  <2>4. IsBuffer(out)' /\ out'.length = size /\ out'.writeIndex = 0
    BY <2>1, <2>2, NewBufferType DEF size, IsBuffer
  <2>5. pending' \in Seq(Byte) /\ Len(pending') \in Nat
    BY <2>1, PacketType, LenProperties
  <2>6. FrameAtMostDoubles'
    BY <2>1, <2>3, <2>4, <2>5 DEF FrameAtMostDoubles
  <2> QED BY <2>4, <2>5, <2>6 DEF IInv
<1>2. CASE WriteByte
  <2>1. /\ pending # <<>>
        /\ pending' = Tail(pending)
        /\ out' = [InsertByte(out, out.writeIndex, Head(pending))
                      EXCEPT !.writeIndex = @ + 1]
    BY <1>2 DEF WriteByte
  <2>2. /\ IsBuffer(out)' /\ out'.writeIndex = out.writeIndex + 1
        /\ out'.length = IF out.writeIndex = out.length THEN 2 * out.length ELSE out.length
    <3> DEFINE after == [InsertByte(out, out.writeIndex, Head(pending))
                           EXCEPT !.writeIndex = @ + 1]
    <3>1. /\ IsBuffer(after) /\ after.writeIndex = out.writeIndex + 1
          /\ after.length = IF out.writeIndex = out.length THEN 2 * out.length
                            ELSE out.length
      BY InsertByteAtEnd DEF IInv
    <3> HIDE DEF after
    <3>2. out' = after
      BY <2>1 DEF after
    <3> QED BY <3>1, <3>2 DEF IsBuffer
  <2>3. /\ pending' \in Seq(Byte) /\ Len(pending') \in Nat
        /\ Len(pending) = Len(pending') + 1
    BY <2>1, HeadTailProperties, LenProperties DEF IInv
  <2>4. FrameAtMostDoubles'
    BY <2>2, <2>3, BufferAssumption DEF IInv, FrameAtMostDoubles, IsBuffer
  <2> QED BY <2>2, <2>3, <2>4 DEF IInv
<1>3. CASE UNCHANGED <<out, pending>>
  BY <1>3 DEF IInv, IsBuffer, FrameAtMostDoubles
<1>4. Recv \/ ReadHeader \/ ReadField \/ Handle \/ UNCHANGED vars
        => UNCHANGED <<out, pending>>
  BY DEF Recv, ReadHeader, ReadField, ReadUndefined, Handle, vars
<1> QED BY <1>1, <1>2, <1>3, <1>4 DEF Next

(* No packet, however long its strings, is written past the end of its buffer. *)
THEOREM NeverPastTheEnd == Spec => []WithinBuffer
<1>1. IInv => WithinBuffer
  BY DEF IInv, IsBuffer, WithinBuffer
<1> QED BY <1>1, InitIInv, StepIInv, PTL DEF Spec

(* The frame on the wire is an authentication frame or less than twice its     *)
(* content.                                                                  *)
THEOREM FramesBounded == Spec => []FrameAtMostDoubles
<1>1. IInv => FrameAtMostDoubles
  BY DEF IInv
<1> QED BY <1>1, InitIInv, StepIInv, PTL DEF Spec

-----------------------------------------------------------------------------
(* What is read is what was written.                                        *)

\* Where a reader of packet p is after the header and k fields.
Offset(p, k) ==
    IF k = 0 THEN 4
    ELSE IF k = 1 THEN 8 + Len(p.fields[1])
    ELSE 12 + Len(p.fields[1]) + Len(p.fields[2])

\* The array starts with the bytes of packet p from the first to the n-th.
StartsWith(data, p, n) == \A i \in 0 .. n - 1 : data[i] = Serialize(p)[i + 1]

\* The bytes are being inserted: some are in the array, the others pending.
Writing ==
    /\ pending # <<>> /\ wire = <<>> /\ rx = "recv" /\ got = Nothing
    /\ out.writeIndex + Len(pending) = Len(Serialize(sent))
    /\ StartsWith(out.data, sent, out.writeIndex)
    /\ \A i \in 1 .. Len(pending) : pending[i] = Serialize(sent)[out.writeIndex + i]

\* The whole buffer is under way, and one recv takes it.
UnderWay ==
    /\ pending = <<>> /\ rx = "recv" /\ got = Nothing
    /\ DOMAIN wire = 1 .. Len(wire) /\ Len(wire) \in Nat
    /\ Len(wire) <= RecvLen /\ Len(Serialize(sent)) <= Len(wire)
    /\ \A i \in 1 .. Len(Serialize(sent)) : wire[i] = Serialize(sent)[i]

\* The frame is in the receiver's buffer and read up to some field.
Reading ==
    /\ pending = <<>> /\ wire = <<>>
    /\ Len(Serialize(sent)) <= RecvLen
    /\ StartsWith(in.data, sent, Len(Serialize(sent)))
    /\ \/ rx = "header" /\ in.readIndex = 0
       \/ /\ rx = "fields"
          /\ got.header = sent.header
          /\ got = [header |-> got.header, fields |-> got.fields]
          /\ got.fields \in Seq(Seq(Byte)) /\ Len(got.fields) <= Fields(sent.header)
          /\ \A k \in 1 .. Len(got.fields) : got.fields[k] = sent.fields[k]
          /\ in.readIndex = Offset(sent, Len(got.fields))

\* The packet has been read, and nothing is left of it.
Received == pending = <<>> /\ wire = <<>> /\ rx = "recv" /\ got = sent

\* The strengthening for ReadBack: how far the packet under way has come, and
\* that the receiver starts every recv at the beginning of its buffer.
RInv ==
    /\ in = [data |-> in.data, length |-> in.length, readIndex |-> in.readIndex,
             writeIndex |-> in.writeIndex]
    /\ DOMAIN in.data = 0 .. RecvLen - 1
    /\ rx = "recv" => in.readIndex = 0
    /\ sent \in Packet \cup {Nothing}
    /\ Faithful(sent) => Writing \/ UnderWay \/ Reading \/ Received

(* A number below half a char's range is one char and three zeros.            *)
LEMMA SmallInt ==
    ASSUME NEW v \in Nat, v < Base \div 2
    PROVE  /\ v < Base /\ Base \div 2 \in Nat /\ Base \div 2 > 0
           /\ IntBytes(v)[1] = v /\ IntBytes(v)[2] = 0
           /\ IntBytes(v)[3] = 0 /\ IntBytes(v)[4] = 0
<1>1. \A b \in Nat : b > 1 => b \div 2 \in Nat /\ b \div 2 > 0 /\ b \div 2 < b
  OBVIOUS
<1>2. Base \in Nat /\ Base > 1 /\ Base \div 2 \in Nat /\ Base \div 2 > 0 /\ v < Base
  BY <1>1, BufferAssumption
<1>3. \A a, b \in Nat : a < b => a \div b = 0 /\ a % b = a
  OBVIOUS
<1>4. \A a, b \in Nat : b > 1 => a * b >= a /\ a * b \in Nat
  OBVIOUS
<1>5. Base * Base \in Nat /\ Base * Base >= Base
  BY <1>2, <1>4
<1> DEFINE Square == Base * Base
<1>6. Square * Base \in Nat /\ Square * Base >= Base
  <2> HIDE DEF Square
  <2>1. Square \in Nat /\ Square >= Base
    BY <1>5 DEF Square
  <2>2. Square * Base \in Nat /\ Square * Base >= Square
    BY <1>2, <1>4, <2>1
  <2> QED BY <1>2, <2>1, <2>2
<1>7. Weight[1] = 1 /\ Weight[2] = Base /\ Weight[3] = Square /\ Weight[4] = Square * Base
  BY DEF Weight
<1> DEFINE Cube == Square * Base
<1>8. /\ v \div Base = 0 /\ v % Base = v /\ 0 % Base = 0
      /\ v \div Square = 0 /\ v \div Cube = 0
  <2>1. v < Base /\ v < Square /\ v < Cube /\ Square \in Nat /\ Cube \in Nat
    BY <1>2, <1>5, <1>6
  <2> HIDE DEF Square, Cube
  <2> QED BY <1>2, <1>3, <2>1
<1>9. \A i \in 1 .. 4 : IntBytes(v)[i] = (v \div Weight[i]) % Base
  BY DEF IntBytes, IntSize
<1>10. v \div 1 = v
  OBVIOUS
<1>11. /\ (v \div Weight[1]) % Base = v /\ (v \div Weight[2]) % Base = 0
       /\ (v \div Weight[3]) % Base = 0 /\ (v \div Weight[4]) % Base = 0
  BY <1>7, <1>8, <1>10
<1> QED BY <1>2, <1>9, <1>11

(* ReadInt returns such a number: no sign bit of one byte spreads into the     *)
(* bytes above it.                                                           *)
LEMMA ReadSmallInt ==
    ASSUME NEW b, b.readIndex \in Nat,
           NEW v \in Nat, v < Base \div 2,
           \A i \in 0 .. 3 : b.data[b.readIndex + i] = IntBytes(v)[i + 1]
    PROVE  ReadInt(b) = v
<1> DEFINE raw(i) == b.data[b.readIndex + i]
           half == Base \div 2
           byte(i) == IF \E j \in 0 .. i - 1 : raw(j) >= half THEN Base - 1 ELSE raw(i)
<1>1. raw(0) = v /\ raw(1) = 0 /\ raw(2) = 0 /\ raw(3) = 0
  <2>1. /\ raw(0) = IntBytes(v)[0 + 1] /\ raw(1) = IntBytes(v)[1 + 1]
        /\ raw(2) = IntBytes(v)[2 + 1] /\ raw(3) = IntBytes(v)[3 + 1]
    OBVIOUS
  <2> HIDE DEF raw
  <2>2. 0 + 1 = 1 /\ 1 + 1 = 2 /\ 2 + 1 = 3 /\ 3 + 1 = 4
    OBVIOUS
  <2> QED BY <2>1, <2>2, SmallInt
<1>2. half \in Nat /\ half > 0 /\ v < half
  BY SmallInt
<1> HIDE DEF raw, half
<1>3. \A j \in 0 .. 3 : ~(raw(j) >= half)
  BY <1>1, <1>2
<1>4. byte(0) = v /\ byte(1) = 0 /\ byte(2) = 0 /\ byte(3) = 0
  BY <1>1, <1>3
<1> DEFINE top == byte(4 - 1)
<1>5. top = 0
  BY <1>4
<1>6. ReadInt(b) = byte(0) * Weight[1] + byte(1) * Weight[2] + byte(2) * Weight[3]
         + (IF top >= half THEN top - Base ELSE top) * Weight[4]
  BY DEF ReadInt, IntSize, raw, half
<1> HIDE DEF byte, top
<1>7. Weight[1] = 1 /\ \A i \in 2 .. 4 : Weight[i] \in Nat
  <2>1. Base \in Nat /\ Base * Base \in Nat
    BY BufferAssumption
  <2> DEFINE Square == Base * Base
  <2>2. Square * Base \in Nat
    <3> HIDE DEF Square
    <3>1. Square \in Nat
      BY <2>1 DEF Square
    <3> QED BY <2>1, <3>1
  <2> QED BY <2>1, <2>2 DEF Weight
<1>8. \A x, y, z \in Nat : v * 1 + 0 * x + 0 * y + 0 * z = v
  OBVIOUS
<1>9. ReadInt(b) = v * 1 + 0 * Weight[2] + 0 * Weight[3] + 0 * Weight[4]
  <2>1. (IF top >= half THEN top - Base ELSE top) = 0
    BY <1>2, <1>5
  <2> QED BY <1>4, <1>6, <1>7, <2>1
<1> QED BY <1>7, <1>8, <1>9

(* A function on 1 .. n is a sequence of length n.                            *)
LEMMA FunctionIsSeq ==
    ASSUME NEW S, NEW n \in Nat, NEW f \in [1 .. n -> S]
    PROVE  f \in Seq(S) /\ Len(f) = n
<1>1. [1 .. n -> S] \in {[1 .. m -> S] : m \in Nat}
  OBVIOUS
<1>2. f \in UNION {[1 .. m -> S] : m \in Nat}
  BY <1>1
<1>3. f \in Seq(S)
  <2> DEFINE all == UNION {[1 .. m -> S] : m \in Nat}
  <2>1. f \in all
    BY <1>2
  <2>2. Seq(S) = all
    BY SeqDef
  <2> HIDE DEF all
  <2> QED BY <2>1, <2>2
<1>4. DOMAIN f = 1 .. Len(f) /\ Len(f) \in Nat /\ DOMAIN f = 1 .. n
  BY <1>3, LenProperties
<1> QED BY <1>3, <1>4

(* Where the length and the characters of one field are in its bytes.          *)
LEMMA FieldBytes ==
    ASSUME NEW s \in Seq(Byte)
    PROVE  /\ \A i \in 1 .. 4 : Field(s)[i] = IntBytes(Len(s))[i]
           /\ \A i \in 1 .. Len(s) : Field(s)[4 + i] = s[i]
<1>1. Len(s) \in Nat
  OBVIOUS
<1>2. IntBytes(Len(s)) \in Seq(Byte) /\ Len(IntBytes(Len(s))) = 4
  BY <1>1, IntBytesType
<1> DEFINE b == IntBytes(Len(s))
<1> HIDE DEF b
<1>3. b \in Seq(Byte) /\ Len(b) = 4
  BY <1>2 DEF b
<1>4. \A i \in 1 .. Len(b) + Len(s) :
         (b \o s)[i] = IF i <= Len(b) THEN b[i] ELSE s[i - Len(b)]
  BY <1>3, ConcatProperties
<1>5. \A i \in 1 .. 4 : (b \o s)[i] = b[i]
  <2> SUFFICES ASSUME NEW i \in 1 .. 4 PROVE (b \o s)[i] = b[i]
    OBVIOUS
  <2>1. i \in 1 .. Len(b) + Len(s) /\ i <= Len(b)
    BY <1>1, <1>3
  <2> QED BY <1>4, <2>1
<1>6. \A i \in 1 .. Len(s) : (b \o s)[4 + i] = s[i]
  <2> SUFFICES ASSUME NEW i \in 1 .. Len(s) PROVE (b \o s)[4 + i] = s[i]
    OBVIOUS
  <2>1. 4 + i \in 1 .. Len(b) + Len(s) /\ ~(4 + i <= Len(b)) /\ (4 + i) - Len(b) = i
    BY <1>1, <1>3
  <2> QED BY <1>4, <2>1
<1> QED BY <1>5, <1>6 DEF Field, b

(* The header, then the first field, then the second one of the packets that   *)
(* have two.                                                                 *)
LEMMA PacketBytes ==
    ASSUME NEW p \in Packet
    PROVE  /\ p.header \in 0 .. 7
           /\ p.fields \in Seq(Seq(Byte)) /\ Len(p.fields) = Fields(p.header)
           /\ Fields(p.header) \in {1, 2}
           /\ p = [header |-> p.header, fields |-> p.fields]
           /\ Serialize(p) \in Seq(Byte)
           /\ Len(Serialize(p)) = Offset(p, Fields(p.header))
           /\ \A i \in 1 .. 4 : Serialize(p)[i] = IntBytes(p.header)[i]
           /\ \A k \in 0 .. Fields(p.header) - 1 :
                \A i \in 1 .. 4 + Len(p.fields[k + 1]) :
                    Serialize(p)[Offset(p, k) + i] = Field(p.fields[k + 1])[i]
<1> DEFINE h == IntBytes(p.header)
           f1 == p.fields[1]
           f2 == p.fields[2]
<1>1. /\ p.header \in 0 .. 7 /\ p = [header |-> p.header, fields |-> p.fields]
      /\ Fields(p.header) \in {1, 2}
      /\ p.fields \in Seq(Seq(Byte)) /\ Len(p.fields) = Fields(p.header)
      /\ f1 \in Seq(Byte)
      /\ Fields(p.header) = 2 => f2 \in Seq(Byte)
  <2>1. CASE p \in {[header |-> k, fields |-> f] :
                       k \in {0} \cup 4 .. 7, f \in [1 .. 1 -> Text]}
    <3>1. PICK k \in {0} \cup 4 .. 7, f \in [1 .. 1 -> Text] :
             p = [header |-> k, fields |-> f]
      BY <2>1
    <3>2. f \in Seq(Seq(Byte)) /\ Len(f) = 1
      <4>1. f \in [1 .. 1 -> Seq(Byte)] /\ 1 \in Nat
        BY BufferAssumption
      <4> QED BY <4>1, FunctionIsSeq
    <3> QED BY <3>1, <3>2, BufferAssumption DEF Fields
  <2>2. CASE p \in {[header |-> k, fields |-> f] : k \in 1 .. 3, f \in [1 .. 2 -> Text]}
    <3>1. PICK k \in 1 .. 3, f \in [1 .. 2 -> Text] : p = [header |-> k, fields |-> f]
      BY <2>2
    <3>2. f \in Seq(Seq(Byte)) /\ Len(f) = 2
      <4>1. f \in [1 .. 2 -> Seq(Byte)] /\ 2 \in Nat
        BY BufferAssumption
      <4> QED BY <4>1, FunctionIsSeq
    <3> QED BY <3>1, <3>2, BufferAssumption DEF Fields
  <2>3. \/ p \in {[header |-> k, fields |-> f] : k \in {0} \cup 4 .. 7, f \in [1 .. 1 -> Text]}
        \/ p \in {[header |-> k, fields |-> f] : k \in 1 .. 3, f \in [1 .. 2 -> Text]}
    BY DEF Packet
  <2> HIDE DEF h, f1, f2
  <2> QED BY <2>1, <2>2, <2>3
<1>2. h \in Seq(Byte) /\ Len(h) = 4
  <2>1. p.header \in Nat
    BY <1>1
  <2> QED BY <2>1, IntBytesType
<1>3. Field(f1) \in Seq(Byte) /\ Len(Field(f1)) = 4 + Len(f1) /\ Len(f1) \in Nat
  BY <1>1, FieldType, LenProperties
<1> HIDE DEF h, f1, f2
<1> DEFINE g == Field(f1)
<1> HIDE DEF g
<1>4. g \in Seq(Byte) /\ Len(g) = 4 + Len(f1)
  BY <1>3 DEF g
<1> DEFINE s1 == h \o g
<1>5. /\ s1 \in Seq(Byte) /\ Len(s1) = 8 + Len(f1)
      /\ \A i \in 1 .. 4 : s1[i] = h[i]
      /\ \A i \in 1 .. 4 + Len(f1) : s1[4 + i] = g[i]
  <2>1. s1 \in Seq(Byte) /\ Len(s1) = Len(h) + Len(g)
    BY <1>2, <1>4, ConcatProperties
  <2>2. \A i \in 1 .. Len(h) + Len(g) : s1[i] = IF i <= Len(h) THEN h[i] ELSE g[i - Len(h)]
    <3>1. \A i \in 1 .. Len(h) + Len(g) :
             (h \o g)[i] = IF i <= Len(h) THEN h[i] ELSE g[i - Len(h)]
      <4>1. h \in Seq(Byte) /\ g \in Seq(Byte)
        BY <1>2, <1>4
      <4> QED BY <4>1, ConcatProperties
    <3> QED BY <3>1
  <2> HIDE DEF s1
  <2>3. \A i \in 1 .. 4 : s1[i] = h[i]
    BY <1>2, <1>3, <1>4, <2>2
  <2>4. \A i \in 1 .. 4 + Len(f1) : s1[4 + i] = g[i]
    <3> SUFFICES ASSUME NEW i \in 1 .. 4 + Len(f1) PROVE s1[4 + i] = g[i]
      OBVIOUS
    <3>1. 4 + i \in 1 .. Len(h) + Len(g) /\ ~(4 + i <= Len(h)) /\ (4 + i) - Len(h) = i
      BY <1>2, <1>3, <1>4
    <3> QED BY <2>2, <3>1
  <2> QED BY <1>2, <1>3, <1>4, <2>1, <2>3, <2>4
<1> HIDE DEF s1
<1>6. CASE Fields(p.header) = 2
  <2>1. /\ f2 \in Seq(Byte) /\ Len(f2) \in Nat
        /\ Field(f2) \in Seq(Byte) /\ Len(Field(f2)) = 4 + Len(f2)
    BY <1>1, <1>6, FieldType, LenProperties
  <2> DEFINE e == Field(f2)
             s == s1 \o e
  <2> HIDE DEF e
  <2>2. e \in Seq(Byte) /\ Len(e) = 4 + Len(f2)
    BY <2>1 DEF e
  <2>3. s \in Seq(Byte) /\ Len(s) = Len(s1) + Len(e)
    BY <1>5, <2>2, ConcatProperties
  <2>4. \A i \in 1 .. Len(s1) + Len(e) :
           s[i] = IF i <= Len(s1) THEN s1[i] ELSE e[i - Len(s1)]
    BY <1>5, <2>2, ConcatProperties
  <2>5. Serialize(p) = s
    BY <1>6 DEF Serialize, h, f1, f2, s1, g, e
  <2> HIDE DEF s
  <2>6. \A i \in 1 .. 8 + Len(f1) : s[i] = s1[i]
    BY <1>3, <1>5, <2>1, <2>2, <2>4
  <2>7. \A i \in 1 .. 4 + Len(f2) : s[(8 + Len(f1)) + i] = e[i]
    <3> SUFFICES ASSUME NEW i \in 1 .. 4 + Len(f2) PROVE s[(8 + Len(f1)) + i] = e[i]
      OBVIOUS
    <3> DEFINE n == 8 + Len(f1)
    <3>1. n + i \in 1 .. n + Len(e) /\ ~(n + i <= n) /\ (n + i) - n = i
      BY <1>3, <2>1, <2>2
    <3> QED BY <1>5, <2>4, <3>1
  <2>8. \A i \in 1 .. 4 : s[i] = h[i]
    BY <1>3, <1>5, <2>6
  <2>9. \A i \in 1 .. 4 + Len(f1) : s[4 + i] = g[i]
    <3> SUFFICES ASSUME NEW i \in 1 .. 4 + Len(f1) PROVE s[4 + i] = g[i]
      OBVIOUS
    <3>1. 4 + i \in 1 .. 8 + Len(f1)
      BY <1>3
    <3> QED BY <1>5, <2>6, <3>1
  <2>10. /\ Offset(p, 0) = 4 /\ Offset(p, 1) = 8 + Len(f1)
         /\ Offset(p, 2) = 12 + Len(f1) + Len(f2)
    BY DEF Offset, f1, f2
  <2>11. Len(s) = Offset(p, 2)
    BY <1>3, <1>5, <2>1, <2>2, <2>3, <2>10
  <2>12. ASSUME NEW k \in 0 .. 1
         PROVE  \A i \in 1 .. 4 + Len(p.fields[k + 1]) :
                    s[Offset(p, k) + i] = Field(p.fields[k + 1])[i]
    <3>1. CASE k = 0
      <4>1. p.fields[k + 1] = f1 /\ Field(p.fields[k + 1]) = g
        BY <3>1 DEF f1, g
      <4> QED BY <2>9, <2>10, <3>1, <4>1
    <3>2. CASE k = 1
      <4>1. p.fields[k + 1] = f2 /\ Field(p.fields[k + 1]) = e
        BY <3>2 DEF f2, e
      <4> QED BY <2>7, <2>10, <3>2, <4>1
    <3> QED BY <3>1, <3>2
  <2>13. 0 .. Fields(p.header) - 1 = 0 .. 1
    BY <1>6
  <2> QED BY <1>1, <1>6, <2>3, <2>5, <2>8, <2>11, <2>12, <2>13 DEF h
<1>7. CASE Fields(p.header) # 2
  <2>1. Fields(p.header) = 1 /\ 0 .. Fields(p.header) - 1 = {0}
    BY <1>1, <1>7
  <2>2. Serialize(p) = s1 \o <<>>
    BY <1>7 DEF Serialize, h, f1, f2, s1, g
  <2>3. Serialize(p) = s1
    BY <1>5, <2>2, ConcatEmptySeq
  <2>4. Offset(p, 0) = 4 /\ Offset(p, 1) = 8 + Len(f1)
    BY DEF Offset, f1, f2
  <2>5. ASSUME NEW k \in {0}
        PROVE  \A i \in 1 .. 4 + Len(p.fields[k + 1]) :
                   s1[Offset(p, k) + i] = Field(p.fields[k + 1])[i]
    <3>1. k = 0 /\ p.fields[k + 1] = f1 /\ Field(p.fields[k + 1]) = g
      BY DEF f1, g
    <3> QED BY <1>5, <2>4, <3>1
  <2> QED BY <1>1, <1>5, <2>1, <2>3, <2>4, <2>5 DEF h
<1> QED BY <1>6, <1>7

(* A field ends where the next one starts, within the bytes of the packet.     *)
LEMMA NextOffset ==
    ASSUME NEW p \in Packet, NEW k \in 0 .. Fields(p.header) - 1
    PROVE  /\ k + 1 \in 1 .. Fields(p.header)
           /\ p.fields[k + 1] \in Seq(Byte) /\ Len(p.fields[k + 1]) \in Nat
           /\ Offset(p, k) \in Nat /\ Offset(p, k) >= 4
           /\ Offset(p, k + 1) = Offset(p, k) + 4 + Len(p.fields[k + 1])
           /\ Offset(p, k + 1) <= Len(Serialize(p))
<1>1. /\ Fields(p.header) \in {1, 2} /\ Len(p.fields) = Fields(p.header)
      /\ p.fields \in Seq(Seq(Byte))
      /\ Len(Serialize(p)) = Offset(p, Fields(p.header))
  BY PacketBytes
<1>2. \A j \in 1 .. Fields(p.header) : p.fields[j] \in Seq(Byte) /\ Len(p.fields[j]) \in Nat
  BY <1>1, ElementOfSeq, LenProperties
<1>3. k + 1 \in 1 .. Fields(p.header)
  BY <1>1
<1>4. CASE k = 0
  <2>1. k + 1 = 1 /\ Len(p.fields[1]) \in Nat /\ p.fields[1] \in Seq(Byte)
    BY <1>1, <1>2, <1>4
  <2>2. Offset(p, 0) = 4 /\ Offset(p, 1) = 8 + Len(p.fields[1])
    BY DEF Offset
  <2>3. Offset(p, 1) <= Len(Serialize(p))
    <3>1. CASE Fields(p.header) = 1
      BY <1>1, <2>1, <2>2, <3>1
    <3>2. CASE Fields(p.header) = 2
      <4>1. Len(p.fields[2]) \in Nat
        BY <1>2, <3>2
      <4>2. Offset(p, 2) = 12 + Len(p.fields[1]) + Len(p.fields[2])
        BY DEF Offset
      <4>3. Offset(p, 1) <= Offset(p, 2)
        <5> DEFINE a == Offset(p, 1)
                   z == Offset(p, 2)
                   m == Len(p.fields[1])
                   n == Len(p.fields[2])
        <5>1. a = 8 + m /\ z = 12 + m + n /\ m \in Nat /\ n \in Nat
          BY <2>1, <2>2, <4>1, <4>2
        <5> HIDE DEF a, z, m, n
        <5>2. a <= z
          BY <5>1
        <5> QED BY <5>2 DEF a, z
      <4>4. Offset(p, 2) = Len(Serialize(p))
        BY <1>1, <3>2
      <4> QED BY <4>3, <4>4
    <3> QED BY <1>1, <3>1, <3>2
  <2> QED BY <1>3, <1>4, <2>1, <2>2, <2>3
<1>5. CASE k = 1
  <2>1. Fields(p.header) = 2 /\ k + 1 = 2
    BY <1>1, <1>5
  <2>2. /\ p.fields[1] \in Seq(Byte) /\ Len(p.fields[1]) \in Nat
        /\ p.fields[2] \in Seq(Byte) /\ Len(p.fields[2]) \in Nat
    BY <1>2, <2>1
  <2>3. /\ Offset(p, 1) = 8 + Len(p.fields[1])
        /\ Offset(p, 2) = 12 + Len(p.fields[1]) + Len(p.fields[2])
    BY DEF Offset
  <2>4. Offset(p, 2) = Len(Serialize(p))
    BY <1>1, <2>1
  <2> DEFINE a == Offset(p, 1)
             z == Offset(p, 2)
             m == Len(p.fields[1])
             n == Len(p.fields[2])
  <2>5. a = 8 + m /\ z = 12 + m + n /\ m \in Nat /\ n \in Nat
    BY <2>2, <2>3
  <2> HIDE DEF a, z, m, n
  <2>6. a \in Nat /\ a >= 4 /\ z = a + 4 + n /\ z <= z
    BY <2>5
  <2>7. /\ Offset(p, 1) \in Nat /\ Offset(p, 1) >= 4
        /\ Offset(p, 2) = Offset(p, 1) + 4 + Len(p.fields[2])
        /\ Offset(p, 2) <= Len(Serialize(p))
    BY <2>4, <2>6 DEF a, z, n
  <2>8. k + 1 = 2 /\ p.fields[k + 1] = p.fields[2]
    BY <1>5
  <2>9. Offset(p, k) = Offset(p, 1) /\ Offset(p, k + 1) = Offset(p, 2)
    <3>1. k + 1 = 2
      BY <1>5
    <3> QED BY <1>5, <3>1
  <2>10. /\ Offset(p, k) \in Nat /\ Offset(p, k) >= 4
         /\ Offset(p, k + 1) = Offset(p, k) + 4 + Len(p.fields[k + 1])
         /\ Offset(p, k + 1) <= Len(Serialize(p))
    <3> HIDE DEF a, z, m, n
    <3> QED BY <2>7, <2>8, <2>9
  <2>11. p.fields[k + 1] \in Seq(Byte) /\ Len(p.fields[k + 1]) \in Nat
    BY <1>2, <1>3
  <2> QED BY <1>3, <2>10, <2>11
<1> QED BY <1>1, <1>4, <1>5

(* In an array that starts with a packet, a field is where its offset says,    *)
(* and no char of it is missing.                                             *)
LEMMA FieldInArray ==
    ASSUME NEW p \in Packet, NEW k \in 0 .. Fields(p.header) - 1, NEW data,
           DOMAIN data = 0 .. RecvLen - 1, Len(Serialize(p)) <= RecvLen,
           StartsWith(data, p, Len(Serialize(p))),
           NEW i \in 1 .. 4 + Len(p.fields[k + 1])
    PROVE  /\ Offset(p, k) + i - 1 \in DOMAIN data
           /\ data[Offset(p, k) + i - 1] = Field(p.fields[k + 1])[i]
           /\ data[Offset(p, k) + i - 1] # Uninit
<1> DEFINE o == Offset(p, k)
           f == p.fields[k + 1]
           n == Len(Serialize(p))
<1>1. /\ f \in Seq(Byte) /\ Len(f) \in Nat /\ o \in Nat
      /\ o + 4 + Len(f) <= n /\ n \in Nat
  <2>1. /\ f \in Seq(Byte) /\ Len(f) \in Nat /\ o \in Nat
        /\ Offset(p, k + 1) = o + 4 + Len(f) /\ Offset(p, k + 1) <= n
    BY NextOffset
  <2>2. n \in Nat
    BY PacketBytes, LenProperties
  <2> QED BY <2>1, <2>2
<1>2. Serialize(p)[o + i] = Field(f)[i]
  BY PacketBytes
<1>3. Field(f)[i] \in Byte
  BY <1>1, FieldType, ElementOfSeq
<1>4. \A j \in 0 .. n - 1 : data[j] = Serialize(p)[j + 1]
  BY DEF StartsWith
<1> HIDE DEF o, f, n
<1>5. i \in Nat /\ i >= 1 /\ i <= 4 + Len(f)
  BY <1>1 DEF f
<1>6. o + i - 1 \in 0 .. n - 1 /\ (o + i - 1) + 1 = o + i
  BY <1>1, <1>5
<1>7. data[o + i - 1] = Field(f)[i]
  BY <1>2, <1>4, <1>6
<1>8. o + i - 1 \in 0 .. RecvLen - 1
  BY <1>1, <1>6, BufferAssumption DEF n
<1>9. Field(f)[i] # Uninit
  <2>1. \A b \in Byte : b # -1
    BY BufferAssumption DEF Byte
  <2> QED BY <1>3, <2>1 DEF Uninit
<1> QED BY <1>7, <1>8, <1>9 DEF o, f

(* The same for the header, which ReadHeader therefore reads back when a char  *)
(* has four bits or more.                                                    *)
LEMMA HeaderInArray ==
    ASSUME Base >= 16, NEW p \in Packet, NEW b,
           b.readIndex = 0, DOMAIN b.data = 0 .. RecvLen - 1,
           Len(Serialize(p)) <= RecvLen, StartsWith(b.data, p, Len(Serialize(p)))
    PROVE  Defined(b, IntSize) /\ ReadInt(b) = p.header
<1> DEFINE n == Len(Serialize(p))
<1>1. p.header \in 0 .. 7 /\ Serialize(p) \in Seq(Byte) /\ n \in Nat
  BY PacketBytes, LenProperties
<1>2. 4 <= n
  <2>1. 0 \in 0 .. Fields(p.header) - 1
    BY PacketBytes
  <2>3. /\ Offset(p, 0 + 1) = Offset(p, 0) + 4 + Len(p.fields[0 + 1])
        /\ Len(p.fields[0 + 1]) \in Nat /\ Offset(p, 0) \in Nat
        /\ Offset(p, 0 + 1) <= n
    BY <2>1, NextOffset
  <2> DEFINE a == Offset(p, 0)
             z == Offset(p, 0 + 1)
             m == Len(p.fields[0 + 1])
  <2>4. z = a + 4 + m /\ m \in Nat /\ a \in Nat /\ z <= n
    BY <2>3
  <2> HIDE DEF n, a, z, m
  <2> QED BY <1>1, <2>4
<1>3. \A i \in 0 .. 3 : b.data[i] = IntBytes(p.header)[i + 1] /\ b.data[i] \in Byte
  <2> SUFFICES ASSUME NEW i \in 0 .. 3
               PROVE  b.data[i] = IntBytes(p.header)[i + 1] /\ b.data[i] \in Byte
    OBVIOUS
  <2>1. i \in 0 .. n - 1 /\ i + 1 \in 1 .. 4 /\ i + 1 \in 1 .. n
    BY <1>1, <1>2
  <2>2. b.data[i] = Serialize(p)[i + 1]
    BY <2>1 DEF StartsWith
  <2>3. Serialize(p)[i + 1] = IntBytes(p.header)[i + 1]
    BY <2>1, PacketBytes
  <2>4. Serialize(p)[i + 1] \in Byte
    BY <1>1, <2>1, ElementOfSeq
  <2> QED BY <2>2, <2>3, <2>4
<1>4. Defined(b, IntSize)
  <2> SUFFICES ASSUME NEW i \in 0 .. 3 PROVE i \in 0 .. RecvLen - 1 /\ b.data[i] # -1
    BY DEF Defined, IntSize, Uninit
  <2>1. \A c \in Byte : c # -1
    BY BufferAssumption DEF Byte
  <2>2. 4 <= RecvLen
    BY BufferAssumption DEF IntSize
  <2> QED BY <1>3, <2>1, <2>2, BufferAssumption
<1>5. p.header \in Nat /\ p.header < Base \div 2
  <2>1. \A c \in Nat : c >= 16 => c \div 2 >= 8
    OBVIOUS
  <2>2. Base \div 2 >= 8 /\ Base \div 2 \in Nat
    BY <2>1, BufferAssumption
  <2> QED BY <1>1, <2>2
<1>6. \A i \in 0 .. 3 : b.data[b.readIndex + i] = IntBytes(p.header)[i + 1]
  BY <1>3
<1>7. b.readIndex \in Nat
  OBVIOUS
<1> QED BY <1>4, <1>5, <1>6, <1>7, ReadSmallInt

\* The bytes g lie in the array from index o on, n of them after the first four.
FieldAt(data, o, g, n) ==
    \A i \in 1 .. 4 + n : /\ o + i - 1 \in DOMAIN data
                         /\ data[o + i - 1] = g[i]
                         /\ data[o + i - 1] # Uninit

\* The bytes g are the length n and the string s.
LengthAndString(g, n, s) ==
    /\ \A i \in 1 .. 4 : g[i] = IntBytes(n)[i]
    /\ \A i \in 1 .. n : g[4 + i] = s[i]

(* A length of four chars and a string of as many as it says, wherever they    *)
(* are in an array, are read as ReadField reads them.                        *)
LEMMA ReadLengthAndString ==
    ASSUME NEW b, NEW s, NEW g, NEW n \in Nat, NEW o \in Nat, n < Base \div 2,
           s \in [1 .. n -> Byte],
           b.readIndex = o, FieldAt(b.data, o, g, n), LengthAndString(g, n, s),
           NEW rest, rest.data = b.data, rest.readIndex = o + 4
    PROVE  /\ Defined(b, IntSize) /\ ReadInt(b) = n
           /\ Defined(rest, n) /\ ReadString(rest, n) = s
<1> USE DEF FieldAt, LengthAndString
<1>1. Defined(b, IntSize)
  <2> SUFFICES ASSUME NEW i \in o .. o + 4 - 1 PROVE i \in DOMAIN b.data /\ b.data[i] # Uninit
    BY DEF Defined, IntSize
  <2> DEFINE j == i - o + 1
  <2>1. j \in 1 .. 4 + n /\ o + j - 1 = i
    OBVIOUS
  <2> HIDE DEF j
  <2> QED BY <2>1
<1>2. \A i \in 0 .. 3 : b.data[b.readIndex + i] = IntBytes(n)[i + 1]
  <2> SUFFICES ASSUME NEW i \in 0 .. 3 PROVE b.data[o + i] = IntBytes(n)[i + 1]
    OBVIOUS
  <2> DEFINE j == i + 1
  <2>1. j \in 1 .. 4 /\ j \in 1 .. 4 + n /\ o + j - 1 = o + i
    OBVIOUS
  <2>2. b.data[o + j - 1] = IntBytes(n)[j]
    <3> HIDE DEF j
    <3> QED BY <2>1
  <2> QED BY <2>1, <2>2
<1>3. ReadInt(b) = n
  BY <1>2, ReadSmallInt
<1>4. Defined(rest, n)
  <2> SUFFICES ASSUME NEW i \in o + 4 .. o + 4 + n - 1
               PROVE  i \in DOMAIN b.data /\ b.data[i] # Uninit
    BY DEF Defined
  <2> DEFINE j == i - o + 1
  <2>1. j \in 1 .. 4 + n /\ o + j - 1 = i
    OBVIOUS
  <2> HIDE DEF j
  <2> QED BY <2>1
<1>5. ReadString(rest, n) = s
  <2>1. ReadString(rest, n) = [i \in 1 .. n |-> b.data[o + 4 + i - 1]]
    BY DEF ReadString
  <2>2. ASSUME NEW i \in 1 .. n PROVE b.data[o + 4 + i - 1] = s[i]
    <3> DEFINE j == 4 + i
    <3>1. j \in 1 .. 4 + n /\ o + j - 1 = o + 4 + i - 1
      OBVIOUS
    <3>2. b.data[o + j - 1] = g[j]
      <4> HIDE DEF j
      <4> QED BY <3>1
    <3> QED BY <3>1, <3>2
  <2> QED BY <2>1, <2>2
<1> QED BY <1>1, <1>3, <1>4, <1>5

(* ReadField's reads of one field: the length, and then the string.            *)
LEMMA FieldReadBack ==
    ASSUME NEW p \in Packet, NEW k \in 0 .. Fields(p.header) - 1, NEW b,
           b = [data |-> b.data, length |-> b.length, readIndex |-> b.readIndex,
                writeIndex |-> b.writeIndex],
           b.readIndex = Offset(p, k), DOMAIN b.data = 0 .. RecvLen - 1,
           Len(Serialize(p)) <= RecvLen, StartsWith(b.data, p, Len(Serialize(p))),
           Len(p.fields[k + 1]) < Base \div 2
    PROVE  LET rest == [b EXCEPT !.readIndex = @ + IntSize]
           IN /\ Defined(b, IntSize) /\ ReadInt(b) = Len(p.fields[k + 1])
              /\ Defined(rest, Len(p.fields[k + 1]))
              /\ ReadString(rest, Len(p.fields[k + 1])) = p.fields[k + 1]
              /\ rest.readIndex = Offset(p, k) + 4
<1> DEFINE o == Offset(p, k)
           f == p.fields[k + 1]
           n == Len(f)
           rest == [b EXCEPT !.readIndex = @ + IntSize]
<1>1. f \in Seq(Byte) /\ n \in Nat /\ o \in Nat
  BY NextOffset
<1>2. \A i \in 1 .. 4 + n :
         /\ o + i - 1 \in DOMAIN b.data
         /\ b.data[o + i - 1] = Field(f)[i]
         /\ b.data[o + i - 1] # Uninit
  BY FieldInArray
<1>3. /\ \A i \in 1 .. 4 : Field(f)[i] = IntBytes(n)[i]
      /\ \A i \in 1 .. n : Field(f)[4 + i] = f[i]
  BY <1>1, FieldBytes
<1>4. rest.data = b.data /\ rest.readIndex = o + 4
  BY DEF IntSize
<1>5. f \in [1 .. n -> Byte] /\ n < Base \div 2 /\ b.readIndex = o
  BY <1>1, LenProperties
<1> DEFINE g == Field(f)
<1> HIDE DEF o, f, n, rest
<1>6. FieldAt(b.data, o, g, n) /\ LengthAndString(g, n, f)
  BY <1>2, <1>3 DEF FieldAt, LengthAndString
<1> HIDE DEF g
<1>7. /\ Defined(b, IntSize) /\ ReadInt(b) = n
      /\ Defined(rest, n) /\ ReadString(rest, n) = f
  <2>1. n \in Nat /\ o \in Nat /\ n < Base \div 2 /\ f \in [1 .. n -> Byte]
    BY <1>1, <1>5
  <2> QED BY <1>4, <1>5, <1>6, <2>1, ReadLengthAndString
<1> QED BY <1>4, <1>7 DEF f, n, o, rest

(* A byte inserted at writeIndex is where it was inserted, and every byte       *)
(* before it is as it was.                                                   *)
LEMMA InsertedByte ==
    ASSUME NEW b, IsBuffer(b), NEW byte
    PROVE  LET after == [InsertByte(b, b.writeIndex, byte) EXCEPT !.writeIndex = @ + 1]
           IN /\ after.data[b.writeIndex] = byte
              /\ \A i \in 0 .. b.writeIndex - 1 : after.data[i] = b.data[i]
<1> DEFINE grown == IF b.writeIndex >= b.length THEN Resize(b, b.length * 2) ELSE b
           stored == Store(grown, b.writeIndex, byte)
           after == [stored EXCEPT !.writeIndex = @ + 1]
           d == [i \in DOMAIN grown.data \cup {b.writeIndex} |->
                   IF i = b.writeIndex THEN byte ELSE grown.data[i]]
<1>1. /\ grown = [data |-> grown.data, length |-> grown.length,
                  readIndex |-> grown.readIndex, writeIndex |-> grown.writeIndex]
      /\ \A i \in 0 .. b.writeIndex - 1 : i \in DOMAIN grown.data /\ grown.data[i] = b.data[i]
  <2>1. CASE b.writeIndex = b.length
    <3>1. grown = [data |-> [i \in 0 .. b.length * 2 - 1 |->
                                IF i < b.length THEN b.data[i] ELSE Uninit],
                   length |-> b.length * 2,
                   readIndex |-> b.readIndex, writeIndex |-> b.writeIndex]
      BY <2>1 DEF Resize, IsBuffer
    <3> QED BY <3>1, <2>1 DEF IsBuffer
  <2>2. CASE b.writeIndex < b.length
    BY <2>2 DEF IsBuffer
  <2> QED BY <2>1, <2>2 DEF IsBuffer
<1> HIDE DEF grown
<1>2. stored.data = d /\ after.data = d
  <2>1. stored = [grown EXCEPT !.data = d]
    BY DEF Store
  <2> HIDE DEF d, stored
  <2>2. stored = [data |-> d, length |-> grown.length,
                  readIndex |-> grown.readIndex, writeIndex |-> grown.writeIndex]
    BY <1>1, <2>1
  <2> QED BY <2>2
<1>3. after = [InsertByte(b, b.writeIndex, byte) EXCEPT !.writeIndex = @ + 1]
  BY DEF InsertByte, stored, grown
<1> HIDE DEF after, stored
<1>4. d[b.writeIndex] = byte
  OBVIOUS
<1>5. \A i \in 0 .. b.writeIndex - 1 : d[i] = b.data[i]
  <2>1. \A i \in 0 .. b.writeIndex - 1 : i # b.writeIndex
    BY DEF IsBuffer
  <2> QED BY <1>1, <2>1
<1> QED BY <1>2, <1>3, <1>4, <1>5

(* Nothing has been sent at first.                                            *)
LEMMA InitRInv == Init => RInv
<1> SUFFICES ASSUME Init PROVE RInv
  OBVIOUS
<1>1. in = Clear(NewBuffer(RecvLen)) /\ sent = Nothing
  BY DEF Init
<1>2. in = [data |-> [i \in 0 .. RecvLen - 1 |-> 0], length |-> RecvLen,
            readIndex |-> 0, writeIndex |-> 0]
  BY <1>1 DEF Clear, NewBuffer
<1>3. ~Faithful(sent)
  BY <1>1 DEF Faithful
<1> QED BY <1>1, <1>2, <1>3 DEF RInv

(* A new packet has all of its bytes to be inserted.                           *)
LEMMA NewPacketRInv == RInv /\ NewPacket => RInv'
<1> SUFFICES ASSUME RInv, NewPacket PROVE RInv'
  OBVIOUS
<1>1. PICK p \in Packet :
         /\ sent' = p
         /\ out' = NewBuffer(IF IsAuth(p.header) THEN RecvLen ELSE GetSize(p))
         /\ pending' = Serialize(p)
  BY DEF NewPacket
<1>2. /\ wire = <<>> /\ rx = "recv" /\ got' = Nothing /\ UNCHANGED <<wire, in, rx>>
  BY DEF NewPacket
<1>3. out'.writeIndex = 0
  BY <1>1 DEF NewBuffer
<1>4. Serialize(p) \in Seq(Byte) /\ Serialize(p) # <<>> /\ Len(Serialize(p)) \in Nat
  BY PacketType, LenProperties
<1> DEFINE s == Serialize(p)
           n == Len(s)
<1>5. Writing'
  <2>1. out'.writeIndex + Len(pending') = Len(Serialize(sent'))
    <3>1. n \in Nat /\ Len(pending') = n /\ Len(Serialize(sent')) = n
      BY <1>1, <1>4
    <3> HIDE DEF n
    <3> QED BY <1>3, <3>1
  <2>2. StartsWith(out'.data, sent', out'.writeIndex)
    BY <1>3 DEF StartsWith
  <2>3. \A i \in 1 .. Len(pending') : pending'[i] = Serialize(sent')[out'.writeIndex + i]
    <3>1. \A i \in 1 .. n : 0 + i = i
      BY <1>4
    <3>2. pending' = s /\ Serialize(sent') = s
      BY <1>1
    <3> HIDE DEF s
    <3> QED BY <1>3, <3>1, <3>2
  <2> QED BY <1>1, <1>2, <1>4, <2>1, <2>2, <2>3 DEF Writing
<1> QED BY <1>1, <1>2, <1>5 DEF RInv

(* A byte is moved from what is pending to the end of the array; with the last  *)
(* one the buffer is sent.                                                   *)
LEMMA WriteByteRInv == IInv /\ IInv' /\ RInv /\ WriteByte => RInv'
<1> SUFFICES ASSUME IInv, IInv', RInv, WriteByte PROVE RInv'
  OBVIOUS
<1>1. /\ pending # <<>> /\ pending' = Tail(pending) /\ UNCHANGED <<sent, in, rx, got>>
      /\ out' = [InsertByte(out, out.writeIndex, Head(pending)) EXCEPT !.writeIndex = @ + 1]
      /\ wire' = IF pending' = <<>> THEN [i \in 1 .. out'.length |-> out'.data[i - 1]]
                 ELSE <<>>
  BY DEF WriteByte
<1>2. SUFFICES ASSUME Faithful(sent) PROVE Writing' \/ UnderWay'
  BY <1>1 DEF RInv
<1>3. Writing
  BY <1>1, <1>2 DEF RInv, UnderWay, Reading, Received
<1> DEFINE s == Serialize(sent)
           n == Len(s)
           w == out.writeIndex
<1>4. /\ sent \in Packet /\ s \in Seq(Byte) /\ n \in Nat
  <2>1. sent \in Packet
    BY <1>2 DEF RInv, Faithful
  <2> QED BY <2>1, PacketType, LenProperties
<1>5. /\ out'.writeIndex = w + 1 /\ w \in Nat
      /\ out'.data[w] = Head(pending)
      /\ \A i \in 0 .. w - 1 : out'.data[i] = out.data[i]
  <2> DEFINE after == [InsertByte(out, out.writeIndex, Head(pending))
                         EXCEPT !.writeIndex = @ + 1]
  <2>1. /\ after.writeIndex = out.writeIndex + 1
        /\ after.data[out.writeIndex] = Head(pending)
        /\ \A i \in 0 .. out.writeIndex - 1 : after.data[i] = out.data[i]
    BY InsertByteAtEnd, InsertedByte DEF IInv
  <2> HIDE DEF after
  <2>2. out' = after
    BY <1>1 DEF after
  <2> QED BY <2>1, <2>2 DEF IInv, IsBuffer
<1>6. /\ Head(pending) = pending[1] /\ Len(pending') \in Nat
      /\ Len(pending) = Len(pending') + 1
      /\ \A i \in 1 .. Len(pending') : pending'[i] = pending[i + 1]
      /\ pending' \in Seq(Byte)
  BY <1>1, HeadTailProperties, LenProperties DEF IInv
<1>7. /\ w + Len(pending) = n
      /\ \A i \in 0 .. w - 1 : out.data[i] = s[i + 1]
      /\ \A i \in 1 .. Len(pending) : pending[i] = s[w + i]
      /\ rx = "recv" /\ got = Nothing
  BY <1>3 DEF Writing, StartsWith
<1> HIDE DEF s, n, w
<1> DEFINE rest == Len(pending')
<1>8. rest \in Nat /\ Len(pending) = rest + 1 /\ w + 1 + rest = n
  <2>1. rest \in Nat /\ Len(pending) = rest + 1
    BY <1>6
  <2> HIDE DEF rest
  <2> QED BY <1>5, <1>7, <2>1
<1> HIDE DEF rest
<1>9. \A i \in 0 .. w : out'.data[i] = s[i + 1]
  <2> SUFFICES ASSUME NEW i \in 0 .. w PROVE out'.data[i] = s[i + 1]
    OBVIOUS
  <2>1. CASE i = w
    <3>1. 1 \in 1 .. Len(pending)
      BY <1>8
    <3> QED BY <1>5, <1>6, <1>7, <2>1, <3>1
  <2>2. CASE i # w
    <3>1. i \in 0 .. w - 1
      BY <1>5, <2>2
    <3> QED BY <1>5, <1>7, <3>1
  <2> QED BY <2>1, <2>2
<1>10. CASE pending' # <<>>
  <2>1. wire' = <<>>
    BY <1>1, <1>10
  <2>2. StartsWith(out'.data, sent', out'.writeIndex)
    <3>1. w + 1 - 1 = w
      BY <1>5
    <3> QED BY <1>1, <1>5, <1>9, <3>1 DEF StartsWith, s
  <2>3. \A i \in 1 .. rest : pending'[i] = s[(w + 1) + i]
    <3> SUFFICES ASSUME NEW i \in 1 .. rest PROVE pending'[i] = s[(w + 1) + i]
      OBVIOUS
    <3>1. i + 1 \in 1 .. Len(pending) /\ w + (i + 1) = (w + 1) + i
      BY <1>5, <1>8
    <3> QED BY <1>6, <1>7, <3>1 DEF rest
  <2> QED BY <1>1, <1>5, <1>7, <1>8, <1>10, <2>1, <2>2, <2>3 DEF Writing, rest, s, n
<1>11. CASE pending' = <<>>
  <2>1. rest = 0 /\ n = w + 1
    <3>1. rest = 0
      BY <1>11, EmptySeq DEF rest
    <3> QED BY <1>5, <1>8, <3>1
  <2>2. out'.length \in Nat /\ out'.writeIndex <= out'.length
    BY DEF IInv, IsBuffer
  <2> DEFINE size == out'.length
  <2>3. n <= size
    BY <1>5, <2>1, <2>2
  <2>4. size <= RecvLen
    <3>1. 2 * n <= RecvLen
      BY <1>2 DEF Faithful, s, n
    <3>2. size <= RecvLen \/ size < 2 * (out'.writeIndex + rest)
      BY DEF IInv, FrameAtMostDoubles, rest
    <3>3. out'.writeIndex + rest = n
      BY <1>5, <2>1
    <3>4. size <= RecvLen \/ size < 2 * n
      BY <3>2, <3>3
    <3> HIDE DEF size
    <3> QED BY <1>4, <2>2, <3>1, <3>4, BufferAssumption DEF size, n
  <2>5. wire' = [i \in 1 .. size |-> out'.data[i - 1]]
    BY <1>1, <1>11
  <2> HIDE DEF size
  <2>6. Len(wire') = size /\ DOMAIN wire' = 1 .. size /\ size \in Nat
    <3> DEFINE V == {out'.data[i - 1] : i \in 1 .. size}
    <3>1. wire' \in [1 .. size -> V]
      BY <2>5
    <3> HIDE DEF V
    <3>2. size \in Nat
      BY <2>2 DEF size
    <3> QED BY <2>5, <3>1, <3>2, FunctionIsSeq
  <2>7. \A i \in 1 .. n : wire'[i] = s[i]
    <3> SUFFICES ASSUME NEW i \in 1 .. n PROVE wire'[i] = s[i]
      OBVIOUS
    <3>1. i \in 1 .. size /\ i - 1 \in 0 .. w /\ (i - 1) + 1 = i
      BY <1>5, <2>1, <2>3, <2>6
    <3> QED BY <1>9, <2>5, <3>1
  <2> QED BY <1>1, <1>7, <1>11, <2>3, <2>4, <2>6, <2>7 DEF UnderWay, s, n
<1> QED BY <1>10, <1>11

(* One recv takes the whole buffer to the start of the receiver's array.        *)
LEMMA RecvRInv == RInv /\ Recv => RInv'
<1> SUFFICES ASSUME RInv, Recv PROVE RInv'
  OBVIOUS
<1> DEFINE n == IF Len(wire) < RecvLen THEN Len(wire) ELSE RecvLen
           filled == [i \in DOMAIN in.data |-> IF i < n THEN wire[i + 1] ELSE in.data[i]]
<1>1. /\ rx = "recv" /\ wire # <<>>
      /\ in' = [in EXCEPT !.data = filled]
      /\ wire' = SubSeq(wire, n + 1, Len(wire))
      /\ rx' = "header" /\ got' = Nothing
      /\ UNCHANGED <<sent, out, pending>>
  BY DEF Recv
<1>2. /\ in' = [data |-> filled, length |-> in.length, readIndex |-> in.readIndex,
                writeIndex |-> in.writeIndex]
      /\ in.readIndex = 0
  <2> HIDE DEF filled
  <2> QED BY <1>1 DEF RInv
<1>3. DOMAIN filled = 0 .. RecvLen - 1
  BY DEF RInv
<1> HIDE DEF filled
<1>4. /\ in' = [data |-> in'.data, length |-> in'.length, readIndex |-> in'.readIndex,
                writeIndex |-> in'.writeIndex]
      /\ DOMAIN in'.data = 0 .. RecvLen - 1
      /\ in'.data = filled /\ in'.readIndex = 0
  BY <1>2, <1>3
<1>5. ASSUME Faithful(sent) PROVE Reading'
  <2>1. UnderWay
    BY <1>1, <1>5 DEF RInv, Writing, Reading, Received
  <2> DEFINE l == Len(wire)
             s == Serialize(sent)
             m == Len(s)
  <2>2. /\ pending = <<>> /\ l \in Nat /\ l <= RecvLen /\ m <= l
        /\ \A i \in 1 .. m : wire[i] = s[i]
    BY <2>1 DEF UnderWay
  <2>3. m \in Nat
    <3>1. sent \in Packet
      BY <1>5 DEF RInv, Faithful
    <3> QED BY <3>1, PacketType, LenProperties
  <2>4. n = l
    <3> HIDE DEF l
    <3>1. n = IF l < RecvLen THEN l ELSE RecvLen
      BY DEF l
    <3> HIDE DEF n
    <3> QED BY <2>2, <3>1, BufferAssumption
  <2>5. wire' = <<>>
    <3> HIDE DEF n, l
    <3>1. wire' = SubSeq(wire, l + 1, l)
      BY <1>1, <2>4 DEF l
    <3>2. l + 1 \in Int /\ l \in Int /\ l < l + 1
      BY <2>2
    <3> QED BY <3>1, <3>2, SubSeqEmpty
  <2> HIDE DEF l, m, s, n
  <2>6. m <= RecvLen
    BY <2>2, <2>3, BufferAssumption
  <2>7. ASSUME NEW i \in 0 .. m - 1 PROVE filled[i] = s[i + 1]
    <3>1. i \in 0 .. RecvLen - 1 /\ i < n /\ i + 1 \in 1 .. m
      BY <2>2, <2>3, <2>4, <2>6, BufferAssumption
    <3>2. filled[i] = wire[i + 1]
      BY <3>1 DEF filled, RInv
    <3> QED BY <2>2, <3>1, <3>2
  <2>8. StartsWith(in'.data, sent', Len(Serialize(sent')))
    BY <1>1, <1>4, <2>7 DEF StartsWith, m, s
  <2> QED BY <1>1, <1>4, <2>2, <2>5, <2>6, <2>8 DEF Reading, m, s
<1> QED BY <1>1, <1>4, <1>5 DEF RInv

(* The header that is read is the one that was written.                       *)
LEMMA ReadHeaderRInv == ASSUME Base >= 16 PROVE RInv /\ ReadHeader => RInv'
<1> SUFFICES ASSUME RInv, ReadHeader PROVE RInv'
  OBVIOUS
<1>1. rx = "header" /\ UNCHANGED <<sent, out, pending, wire>>
  BY DEF ReadHeader, ReadUndefined
<1>2. /\ in' = [data |-> in.data, length |-> in.length, readIndex |-> in'.readIndex,
                writeIndex |-> in.writeIndex]
      /\ rx' # "recv"
  BY DEF ReadHeader, ReadUndefined, RInv
<1>3. /\ in' = [data |-> in'.data, length |-> in'.length, readIndex |-> in'.readIndex,
                writeIndex |-> in'.writeIndex]
      /\ in'.data = in.data /\ DOMAIN in'.data = 0 .. RecvLen - 1
  BY <1>2 DEF RInv
<1>4. ASSUME Faithful(sent) PROVE Reading'
  <2>1. /\ pending = <<>> /\ wire = <<>>
        /\ Len(Serialize(sent)) <= RecvLen
        /\ StartsWith(in.data, sent, Len(Serialize(sent)))
        /\ in.readIndex = 0
    BY <1>1, <1>4 DEF RInv, Writing, UnderWay, Reading, Received
  <2>2. sent \in Packet /\ DOMAIN in.data = 0 .. RecvLen - 1
    BY <1>4 DEF RInv, Faithful
  <2>3. Defined(in, IntSize) /\ ReadInt(in) = sent.header
    BY <2>1, <2>2, HeaderInArray
  <2>4. /\ got' = [header |-> sent.header, fields |-> <<>>]
        /\ in' = [in EXCEPT !.readIndex = @ + IntSize]
        /\ rx' = "fields"
    BY <2>3 DEF ReadHeader
  <2>5. in'.readIndex = 4
    BY <2>1, <2>4 DEF RInv, IntSize
  <2>6. /\ <<>> \in Seq(Seq(Byte)) /\ Len(<<>>) = 0 /\ 0 <= Fields(sent.header)
        /\ Offset(sent, 0) = 4
    BY DEF Fields, Offset
  <2>7. /\ got'.header = sent'.header
        /\ got' = [header |-> got'.header, fields |-> got'.fields]
        /\ got'.fields = <<>>
    BY <1>1, <2>4
  <2>8. StartsWith(in'.data, sent', Len(Serialize(sent')))
        /\ Len(Serialize(sent')) <= RecvLen /\ pending' = <<>> /\ wire' = <<>>
    BY <1>1, <1>3, <2>1
  <2>9. \A k \in 1 .. Len(got'.fields) : got'.fields[k] = sent'.fields[k]
    BY <2>6, <2>7
  <2>10. in'.readIndex = Offset(sent', Len(got'.fields))
    BY <1>1, <2>5, <2>6, <2>7
  <2> QED BY <1>1, <2>4, <2>6, <2>7, <2>8, <2>9, <2>10 DEF Reading
<1> QED BY <1>1, <1>2, <1>3, <1>4 DEF RInv

(* Every field that is read is the one that was written.                       *)
LEMMA ReadFieldRInv == RInv /\ ReadField => RInv'
<1> SUFFICES ASSUME RInv, ReadField PROVE RInv'
  OBVIOUS
<1> DEFINE length == ReadInt(in)
           rest == [in EXCEPT !.readIndex = @ + IntSize]
<1>1. /\ rx = "fields" /\ Len(got.fields) < Fields(got.header)
      /\ IF ~Defined(in, IntSize) THEN ReadUndefined
         ELSE IF length < 0 \/ ~Defined(rest, length) THEN ReadUndefined
         ELSE /\ got' = [got EXCEPT !.fields = Append(@, ReadString(rest, length))]
              /\ in' = [rest EXCEPT !.readIndex = @ + length]
              /\ UNCHANGED <<sent, out, pending, wire, rx>>
  BY DEF ReadField
<1>2. rest = [data |-> in.data, length |-> in.length, readIndex |-> rest.readIndex,
              writeIndex |-> in.writeIndex]
  BY DEF RInv
<1> HIDE DEF rest, length
<1>3. /\ UNCHANGED <<sent, out, pending, wire>>
      /\ in' = [data |-> in.data, length |-> in.length, readIndex |-> in'.readIndex,
                writeIndex |-> in.writeIndex]
      /\ rx' # "recv"
  BY <1>1, <1>2 DEF ReadUndefined, RInv
<1>4. /\ in' = [data |-> in'.data, length |-> in'.length, readIndex |-> in'.readIndex,
                writeIndex |-> in'.writeIndex]
      /\ in'.data = in.data /\ DOMAIN in'.data = 0 .. RecvLen - 1
  BY <1>3 DEF RInv
<1>5. ASSUME Faithful(sent) PROVE Reading'
  <2> DEFINE k == Len(got.fields)
             f == sent.fields[k + 1]
  <2>1. /\ pending = <<>> /\ wire = <<>>
        /\ Len(Serialize(sent)) <= RecvLen
        /\ StartsWith(in.data, sent, Len(Serialize(sent)))
        /\ got.header = sent.header
        /\ got = [header |-> got.header, fields |-> got.fields]
        /\ got.fields \in Seq(Seq(Byte))
        /\ \A j \in 1 .. k : got.fields[j] = sent.fields[j]
        /\ in.readIndex = Offset(sent, k)
    BY <1>1, <1>5 DEF RInv, Writing, UnderWay, Reading, Received
  <2>2. sent \in Packet
    BY <1>5 DEF RInv, Faithful
  <2>3. /\ Fields(sent.header) \in {1, 2} /\ Len(sent.fields) = Fields(sent.header)
        /\ sent.fields \in Seq(Seq(Byte))
    BY <2>2, PacketBytes
  <2>4. k \in Nat
    BY <2>1, LenProperties
  <2>5. k \in 0 .. Fields(sent.header) - 1
    <3>1. k < Fields(sent.header)
      BY <1>1, <2>1
    <3> HIDE DEF k
    <3> QED BY <2>3, <2>4, <3>1
  <2>6. /\ f \in Seq(Byte) /\ Len(f) \in Nat /\ Offset(sent, k) \in Nat
        /\ k + 1 \in 1 .. Fields(sent.header)
        /\ Offset(sent, k + 1) = Offset(sent, k) + 4 + Len(f)
    <3> HIDE DEF k
    <3> QED BY <2>2, <2>5, NextOffset
  <2>7. Len(f) < Base \div 2
    <3>1. DOMAIN sent.fields = 1 .. Fields(sent.header)
      BY <2>3, LenProperties
    <3> QED BY <1>5, <2>6, <3>1 DEF Faithful
  <2>8. /\ Defined(in, IntSize) /\ length = Len(f)
        /\ Defined(rest, Len(f)) /\ ReadString(rest, Len(f)) = f
        /\ rest.readIndex = Offset(sent, k) + 4
    <3> HIDE DEF k
    <3>1. /\ DOMAIN in.data = 0 .. RecvLen - 1
          /\ in = [data |-> in.data, length |-> in.length, readIndex |-> in.readIndex,
                   writeIndex |-> in.writeIndex]
      BY DEF RInv
    <3> QED BY <2>1, <2>2, <2>5, <2>7, <3>1, FieldReadBack DEF rest, length
  <2> HIDE DEF f
  <2>9. /\ got' = [got EXCEPT !.fields = Append(@, f)]
        /\ in' = [rest EXCEPT !.readIndex = @ + Len(f)]
        /\ rx' = "fields"
    <3>1. ~(Len(f) < 0)
      BY <2>6
    <3> QED BY <1>1, <2>8, <3>1
  <2>10. in'.readIndex = Offset(sent, k + 1)
    <3>1. in'.readIndex = rest.readIndex + Len(f)
      BY <1>2, <2>9
    <3> HIDE DEF k
    <3> QED BY <2>6, <2>8, <3>1
  <2>11. /\ got' = [header |-> sent.header, fields |-> Append(got.fields, f)]
    BY <2>1, <2>9
  <2> DEFINE fs == got.fields
             gs == Append(fs, f)
  <2>12. /\ gs \in Seq(Seq(Byte)) /\ Len(gs) = k + 1 /\ gs[k + 1] = f
         /\ \A j \in 1 .. k : gs[j] = fs[j]
    <3> HIDE DEF fs
    <3>1. fs \in Seq(Seq(Byte)) /\ f \in Seq(Byte) /\ k = Len(fs)
      BY <2>1, <2>6 DEF fs
    <3> QED BY <3>1, AppendProperties
  <2> HIDE DEF gs, fs, k
  <2>13. \A j \in 1 .. k + 1 : gs[j] = sent.fields[j]
    <3> SUFFICES ASSUME NEW j \in 1 .. k + 1 PROVE gs[j] = sent.fields[j]
      OBVIOUS
    <3>1. CASE j = k + 1
      BY <2>12, <3>1 DEF f
    <3>2. CASE j # k + 1
      <4>1. j \in 1 .. k
        BY <2>4, <3>2
      <4> QED BY <2>1, <2>12, <4>1 DEF fs
    <3> QED BY <3>1, <3>2
  <2>14. /\ got'.header = sent'.header /\ got'.fields = gs
         /\ got' = [header |-> got'.header, fields |-> got'.fields]
    BY <1>3, <2>11 DEF gs, fs
  <2>15. Len(gs) <= Fields(sent'.header)
    <3>1. k + 1 <= Fields(sent.header)
      BY <2>3, <2>4, <2>6
    <3> QED BY <1>3, <2>12, <3>1
  <2>16. /\ StartsWith(in'.data, sent', Len(Serialize(sent')))
         /\ Len(Serialize(sent')) <= RecvLen /\ pending' = <<>> /\ wire' = <<>>
    BY <1>3, <1>4, <2>1
  <2>17. /\ \A j \in 1 .. Len(gs) : gs[j] = sent'.fields[j]
         /\ in'.readIndex = Offset(sent', Len(gs))
    BY <1>3, <2>10, <2>12, <2>13
  <2> QED BY <2>9, <2>12, <2>14, <2>15, <2>16, <2>17 DEF Reading
<1> QED BY <1>3, <1>4, <1>5 DEF RInv

(* A packet that has been read is the packet that was sent.                    *)
LEMMA HandleRInv == RInv /\ Handle => RInv'
<1> SUFFICES ASSUME RInv, Handle PROVE RInv'
  OBVIOUS
<1>1. /\ rx = "fields" /\ Len(got.fields) = Fields(got.header)
      /\ in' = Clear(in) /\ rx' = "recv"
      /\ UNCHANGED <<sent, out, pending, wire, got>>
  BY DEF Handle
<1>2. in' = [data |-> [i \in DOMAIN in.data |-> 0], length |-> in.length,
             readIndex |-> 0, writeIndex |-> 0]
  BY <1>1 DEF Clear, RInv
<1>3. /\ in' = [data |-> in'.data, length |-> in'.length, readIndex |-> in'.readIndex,
                writeIndex |-> in'.writeIndex]
      /\ DOMAIN in'.data = 0 .. RecvLen - 1 /\ in'.readIndex = 0
  BY <1>2 DEF RInv
<1>4. ASSUME Faithful(sent) PROVE Received'
  <2>1. /\ pending = <<>> /\ wire = <<>>
        /\ got.header = sent.header
        /\ got = [header |-> got.header, fields |-> got.fields]
        /\ got.fields \in Seq(Seq(Byte))
        /\ \A j \in 1 .. Len(got.fields) : got.fields[j] = sent.fields[j]
    BY <1>1, <1>4 DEF RInv, Writing, UnderWay, Reading, Received
  <2>2. sent \in Packet
    BY <1>4 DEF RInv, Faithful
  <2>3. /\ sent = [header |-> sent.header, fields |-> sent.fields]
        /\ Len(sent.fields) = Fields(sent.header) /\ sent.fields \in Seq(Seq(Byte))
    BY <2>2, PacketBytes
  <2>4. Len(got.fields) = Len(sent.fields)
    BY <1>1, <2>1, <2>3
  <2>5. got.fields = sent.fields
    BY <2>1, <2>3, <2>4, SeqEqual
  <2>6. got = sent
    BY <2>1, <2>3, <2>5
  <2> QED BY <1>1, <2>1, <2>6 DEF Received
<1> QED BY <1>1, <1>3, <1>4 DEF RInv

(* Every step takes the packet under way one stage further or leaves it alone. *)
LEMMA StepRInv ==
    ASSUME Base >= 16
    PROVE  IInv /\ IInv' /\ RInv /\ [Next]_vars => RInv'
<1> SUFFICES ASSUME IInv, IInv', RInv, [Next]_vars PROVE RInv'
  OBVIOUS
<1>1. CASE UNCHANGED vars
  BY <1>1 DEF vars, RInv, Writing, UnderWay, Reading, Received
<1> QED BY <1>1, NewPacketRInv, WriteByteRInv, RecvRInv, ReadHeaderRInv,
           ReadFieldRInv, HandleRInv DEF Next

(* With a char of four bits or more, a packet with short strings that one recv *)
(* takes is read as it was written, and nothing of it is taken for another.   *)
THEOREM AlwaysReadBack == ASSUME Base >= 16 PROVE Spec => []ReadBack
<1>1. RInv => ReadBack
  <2> SUFFICES ASSUME RInv, Faithful(sent)
               PROVE  /\ rx # "undefined"
                      /\ rx = "fields" => got.header = sent.header
                      /\ rx = "recv" /\ got # Nothing => got = sent /\ wire = <<>>
    BY DEF ReadBack
  <2> QED BY DEF RInv, Writing, UnderWay, Reading, Received
<1>2. IInv /\ RInv /\ [Next]_vars => IInv' /\ RInv'
  BY StepIInv, StepRInv
<1> QED BY <1>1, <1>2, InitIInv, InitRInv, PTL DEF Spec
=============================================================================
