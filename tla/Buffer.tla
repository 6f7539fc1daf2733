------------------------------- MODULE Buffer -------------------------------
(***************************************************************************)
(* The byte buffer every packet travels in (NetworkUtils/Buffer.cpp) and     *)
(* the two ends that use it: a sender that serialises a packet into a new    *)
(* buffer, one byte at a time, and sends the whole buffer; and a receiver    *)
(* that recvs into its own buffer, reads header and fields, and clears it.   *)
(*                                                                          *)
(* A char has Base values and is signed, an int has four chars.  The bytes   *)
(* of a buffer that were never written hold whatever was in memory.          *)
(***************************************************************************)
EXTENDS Integers, Sequences

CONSTANTS
    Base,          \* values of a char (256)
    RecvLen,       \* DEFAULT_BUFLEN: the receiver's buffer and auth frames (512)
    Text           \* the strings packets carry: sequences of bytes; nothing
                   \* applies maxStringSize (Buffer.cpp:8)

IntSize == 4
Byte == 0 .. Base - 1
Uninit == -1             \* a char that was never written

ASSUME BufferAssumption ==
    /\ Base \in Nat /\ Base > 1 /\ Base % 2 = 0
    /\ RecvLen \in Nat /\ RecvLen >= IntSize
    /\ Text \subseteq Seq(Byte)

VARIABLES
    sent,     \* the packet under way
    out,      \* the sender's buffer
    pending,  \* the bytes Serialize has still to insert
    wire,     \* bytes sent and not yet received
    in,       \* the receiver's buffer
    rx,       \* what the receiver is doing
    got       \* the packet the receiver has read so far

vars == <<sent, out, pending, wire, in, rx, got>>

\* Packet headers 0-3 are the chat packets; 4-7 carry one serialised message.
Fields(header) == IF header \in 1 .. 3 THEN 2 ELSE 1
IsAuth(header) == header \in 4 .. 7

Packet == {[header |-> h, fields |-> f] : h \in {0} \cup 4 .. 7, f \in [1 .. 1 -> Text]}
          \cup {[header |-> h, fields |-> f] : h \in 1 .. 3, f \in [1 .. 2 -> Text]}

-----------------------------------------------------------------------------
(* The buffer.                                                              *)

NewBuffer(size) ==
    [data |-> [i \in 0 .. size - 1 |-> Uninit], length |-> size,
     readIndex |-> 0, writeIndex |-> 0]

\* Mutation: the buffer grows twice.
ResizeTwice(b, length) ==
    [b EXCEPT !.data = [i \in 0 .. 2 * length - 1 |->
                            IF i < b.length THEN b.data[i] ELSE Uninit],
              !.length = 2 * length]

Resize(b, length) ==
    [b EXCEPT !.data = [i \in 0 .. length - 1 |->
                            IF i < b.length THEN b.data[i] ELSE Uninit],
              !.length = length]

\* data[index] = byte, wherever index points.
Store(b, index, byte) ==
    [b EXCEPT !.data = [i \in DOMAIN b.data \cup {index} |->
                            IF i = index THEN byte ELSE b.data[i]]]

\* Mutation: the buffer is resized one byte late.
InsertByteLate(b, index, byte) ==
    Store(IF index > b.length THEN Resize(b, b.length * 2) ELSE b, index, byte)

InsertByte(b, index, byte) ==
    Store(IF index >= b.length THEN Resize(b, b.length * 2) ELSE b, index, byte)

\* Mutation: only the contents are cleared, not the indices.
ClearData(b) == [b EXCEPT !.data = [i \in DOMAIN b.data |-> 0]]

Clear(b) ==
    [b EXCEPT !.data = [i \in DOMAIN b.data |-> 0], !.readIndex = 0, !.writeIndex = 0]

\* The weights of the chars of an int.
Weight == <<1, Base, Base * Base, Base * Base * Base>>

\* WriteInt: (char) value, (char)(value >> 8), ...
IntBytes(v) == [i \in 1 .. IntSize |-> (v \div Weight[i]) % Base]

\* The next n bytes of b lie in the buffer and were written.
Defined(b, n) ==
    \A i \in b.readIndex .. b.readIndex + n - 1 :
        i \in DOMAIN b.data /\ b.data[i] # Uninit

\* ReadInt: the bytes are sign-extended before they are shifted and or-ed, so
\* a byte of Base/2 or more turns every bit above it on.
ReadInt(b) ==
    LET raw(i) == b.data[b.readIndex + i]
        byte(i) == IF \E j \in 0 .. i - 1 : raw(j) >= Base \div 2 THEN Base - 1
                   ELSE raw(i)
        top == byte(IntSize - 1)
    IN byte(0) * Weight[1] + byte(1) * Weight[2] + byte(2) * Weight[3]
         + (IF top >= Base \div 2 THEN top - Base ELSE top) * Weight[4]

ReadString(b, n) == [i \in 1 .. n |-> b.data[b.readIndex + i - 1]]

-----------------------------------------------------------------------------
(* The packets.                                                             *)

\* IPacket::GetSize and its overrides: the header and the strings, without
\* the int that precedes each string.
GetSize(p) ==
    IntSize + Len(p.fields[1]) + (IF Fields(p.header) = 2 THEN Len(p.fields[2]) ELSE 0)

Field(s) == IntBytes(Len(s)) \o s

Serialize(p) ==
    IntBytes(p.header) \o Field(p.fields[1])
        \o (IF Fields(p.header) = 2 THEN Field(p.fields[2]) ELSE <<>>)

Nothing == [header |-> 0, fields |-> <<>>]

Init ==
    /\ sent = Nothing
    /\ out = NewBuffer(IntSize)
    /\ pending = <<>> /\ wire = <<>>
    /\ in = Clear(NewBuffer(RecvLen))
    /\ rx = "recv"
    /\ got = Nothing

\* A packet is constructed and a buffer for it: of GetSize bytes for the chat
\* packets, of DEFAULT_BUFLEN bytes for the authentication packets.
NewPacket == \E p \in Packet :
    /\ pending = <<>> /\ wire = <<>> /\ rx = "recv"
    /\ sent' = p
    /\ out' = NewBuffer(IF IsAuth(p.header) THEN RecvLen ELSE GetSize(p))
    /\ pending' = Serialize(p)
    /\ got' = Nothing
    /\ UNCHANGED <<wire, in, rx>>

\* One InsertByte of WriteInt or WriteString; send() follows the last one and
\* takes the whole buffer.
WriteByte ==
    /\ pending # <<>>
    /\ out' = [InsertByte(out, out.writeIndex, Head(pending)) EXCEPT !.writeIndex = @ + 1]
    /\ pending' = Tail(pending)
    /\ wire' = IF pending' = <<>> THEN [i \in 1 .. out'.length |-> out'.data[i - 1]]
               ELSE <<>>
    /\ UNCHANGED <<sent, in, rx, got>>

\* recv: at most RecvLen bytes.
Recv ==
    LET n == IF Len(wire) < RecvLen THEN Len(wire) ELSE RecvLen
    IN /\ rx = "recv" /\ wire # <<>>
       /\ in' = [in EXCEPT !.data = [i \in DOMAIN @ |-> IF i < n THEN wire[i + 1] ELSE @[i]]]
       /\ wire' = SubSeq(wire, n + 1, Len(wire))
       /\ rx' = "header"
       /\ got' = Nothing
       /\ UNCHANGED <<sent, out, pending>>

\* A read of bytes outside the buffer or of garbage: no further promise.
ReadUndefined ==
    /\ rx' = "undefined"
    /\ UNCHANGED <<sent, out, pending, wire, in, got>>

ReadHeader ==
    /\ rx = "header"
    /\ IF ~Defined(in, IntSize) THEN ReadUndefined
       ELSE /\ got' = [header |-> ReadInt(in), fields |-> <<>>]
            /\ in' = [in EXCEPT !.readIndex = @ + IntSize]
            /\ rx' = "fields"
            /\ UNCHANGED <<sent, out, pending, wire>>

\* Deserialize reads a length and as many characters.
ReadField ==
    LET length == ReadInt(in)
        rest == [in EXCEPT !.readIndex = @ + IntSize]
    IN /\ rx = "fields" /\ Len(got.fields) < Fields(got.header)
       /\ IF ~Defined(in, IntSize) THEN ReadUndefined
          ELSE IF length < 0 \/ ~Defined(rest, length) THEN ReadUndefined
          ELSE /\ got' = [got EXCEPT !.fields = Append(@, ReadString(rest, length))]
               /\ in' = [rest EXCEPT !.readIndex = @ + length]
               /\ UNCHANGED <<sent, out, pending, wire, rx>>

\* The packet is handled and the buffer cleared.
Handle ==
    /\ rx = "fields" /\ Len(got.fields) = Fields(got.header)
    /\ in' = Clear(in)
    /\ rx' = "recv"
    /\ UNCHANGED <<sent, out, pending, wire, got>>

Next == NewPacket \/ WriteByte \/ Recv \/ ReadHeader \/ ReadField \/ Handle

Spec == Init /\ [][Next]_vars

-----------------------------------------------------------------------------
(* What the buffer promises.                                                *)

(* No byte is written outside the allocated array, although GetSize leaves   *)
(* out the length fields and InsertByte grows the array at most once.        *)
WithinBuffer ==
    /\ DOMAIN out.data = 0 .. out.length - 1
    /\ out.writeIndex <= out.length

\* The packets the encoding is made for: lengths below half a char's range and
\* frames that one recv takes.
Faithful(p) ==
    /\ p # Nothing
    /\ \A k \in DOMAIN p.fields : Len(p.fields[k]) < Base \div 2
    /\ 2 * Len(Serialize(p)) <= RecvLen

(* A packet with short strings is read as it was written, from one recv, and  *)
(* leaves nothing behind that would be taken for another packet.             *)
ReadBack ==
    Faithful(sent) =>
        /\ rx # "undefined"
        /\ rx = "fields" => got.header = sent.header
        /\ rx = "recv" /\ got # Nothing => got = sent /\ wire = <<>>

(* The buffer that is sent is no larger than the larger of DEFAULT_BUFLEN and  *)
(* twice what was written: the doubling happens only when a byte needs it.   *)
FrameAtMostDoubles ==
    out.length <= RecvLen \/ out.length < 2 * (out.writeIndex + Len(pending))
=============================================================================
