-------------------------------- MODULE Wire --------------------------------
(***************************************************************************)
(* The packets the three programs exchange (NetworkUtils/Packet*.{h,cpp})   *)
(* and what the TCP streams between them do with a frame.                   *)
(*                                                                          *)
(* A frame is a record.  Byte layout is the subject of module Buffer; here   *)
(* a frame keeps its type and the fields the handlers read.  A stream is    *)
(* the sequence of frames written by one side and not yet read by the       *)
(* other.  Every socket the server uses is non-blocking and a failed send   *)
(* is only printed, so a frame written to a full stream is lost.            *)
(***************************************************************************)
EXTENDS Naturals, Sequences, SequencesExt

CONSTANT StreamCap      \* frames a stream holds before send() fails

ASSUME StreamCapAssumption == StreamCap \in Nat \ {0}

\* Packet.h:15-22, the header value that starts every frame.
SEND_MESSAGE     == 0
RECEIVE_MESSAGE  == 1
JOIN_ROOM        == 2
LEAVE_ROOM       == 3
LOGIN_REQUEST    == 4
REGISTER_REQUEST == 5
LOGIN_RESULT     == 6
REGISTER_RESULT  == 7

PacketSendMessage(m)       == [type |-> SEND_MESSAGE, message |-> m]
PacketReceiveMessage(n, m) == [type |-> RECEIVE_MESSAGE, name |-> n, message |-> m]
PacketJoinRoom(r, n)       == [type |-> JOIN_ROOM, room |-> r, name |-> n]
PacketLeaveRoom(r, n)      == [type |-> LEAVE_ROOM, room |-> r, name |-> n]

PacketLoginRequest(id, e, p)    == [type |-> LOGIN_REQUEST, requestId |-> id,
                                    email |-> e, password |-> p]
PacketRegisterRequest(id, e, p) == [type |-> REGISTER_REQUEST, requestId |-> id,
                                    email |-> e, password |-> p]
PacketLoginResult(id, ok, e)    == [type |-> LOGIN_RESULT, requestId |-> id,
                                    success |-> ok, email |-> e]
PacketRegisterResult(id, ok)    == [type |-> REGISTER_RESULT, requestId |-> id,
                                    success |-> ok]

\* The frames the server sends to the members of a room.
RoomFrame(Room, Name, Message) ==
    [type : {RECEIVE_MESSAGE}, name : Name, message : Message]
        \cup [type : {JOIN_ROOM, LEAVE_ROOM}, room : Room, name : Name]

\* Authentication packets go out in a 512-byte Buffer (DEFAULT_BUFLEN), the
\* size of one recv; the chat packets are shorter.
FullFrame(p) == p.type \in LOGIN_REQUEST .. REGISTER_RESULT

(***************************************************************************)
(* The numbers of frames one recv of 512 bytes may take from a non-empty    *)
(* stream: a full frame alone, otherwise one or more of the short frames    *)
(* that have arrived, in order.  Every receiver handles the first frame it  *)
(* got and throws the others away (Buffer::Clear).                          *)
(***************************************************************************)
RecvCounts(stream) ==
    IF FullFrame(Head(stream)) THEN {1}
    ELSE {k \in 1 .. Len(stream) : \A i \in 1 .. k : ~FullFrame(stream[i])}

AfterRecv(stream, k) == SubSeq(stream, k + 1, Len(stream))

\* The stream after the frames fs are sent one by one: those that do not fit
\* are lost.
Deliver(stream, fs) ==
    IF Len(stream \o fs) <= StreamCap THEN stream \o fs
    ELSE SubSeq(stream \o fs, 1, StreamCap)
=============================================================================
