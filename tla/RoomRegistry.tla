---------------------------- MODULE RoomRegistry ----------------------------
(***************************************************************************)
(* The room handlers under the most general environment: any connected       *)
(* client may have any chat packet handled at any time, may be slow to read *)
(* what it is sent, and may disconnect between any two packets.              *)
(***************************************************************************)
EXTENDS Rooms

CONSTANT EntryCap       \* bound: entries of all member lists together

ASSUME EntryCapAssumption == EntryCap \in Nat \ {0}

vars == <<rooms, clientToRoomMap, name, toClient, live, up>>

RoomOrNone == RoomName \cup {NoRoom}

TypeOK ==
    /\ DOMAIN rooms \subseteq RoomName
    /\ rooms \in [DOMAIN rooms -> Seq(Client)]
    /\ DOMAIN clientToRoomMap \subseteq Client
    /\ clientToRoomMap \in [DOMAIN clientToRoomMap -> RoomName]
    /\ name \in [Client -> Name]
    /\ toClient \in [Client -> Seq(RoomFrame(RoomOrNone, Name, Message))]
    /\ live \in [Client -> BOOLEAN]
    /\ up \in BOOLEAN

Init ==
    /\ rooms = [r \in {} |-> <<>>]
    /\ clientToRoomMap = [c \in {} |-> NoRoom]
    /\ name \in [Client -> Name]
    /\ toClient = [c \in Client |-> <<>>]
    /\ live = [c \in Client |-> TRUE]
    /\ up = TRUE

\* Bound: when the lists together hold EntryCap entries no further one is added.
Entries(rs) == UNION {{<<r, i>> : i \in DOMAIN rs[r]} : r \in DOMAIN rs}
BelowEntryCap(c) == Cardinality(Entries(RoomsWithout(c))) < EntryCap

HandleJoinRoom(c, r, n) ==
    /\ up /\ live[c] /\ BelowEntryCap(c)
    /\ JoinRoom(c, r, n)
    /\ UNCHANGED <<live, up>>

HandleLeaveRoom(c, r, n) ==
    /\ up /\ live[c]
    /\ LeaveRoom(c, r, n)
    /\ UNCHANGED <<live, up>>

HandleSendMessage(c) ==
    /\ up /\ live[c]
    /\ \/ \E m \in Message : SendMessage(c, m)
       \/ SendMessageRoomNotFound(c)
    /\ UNCHANGED live

ClientRecv(c) ==
    /\ live[c] /\ toClient[c] # <<>>
    /\ \E k \in RecvCounts(toClient[c]) :
          toClient' = [toClient EXCEPT ![c] = AfterRecv(@, k)]
    /\ UNCHANGED <<rooms, clientToRoomMap, name, live, up>>

\* The server removes the client from its vector of clients
\* (Server.cpp:247-263); neither map is told.
Disconnect(c) ==
    /\ live[c]
    /\ live' = [live EXCEPT ![c] = FALSE]
    /\ toClient' = [toClient EXCEPT ![c] = <<>>]
    /\ UNCHANGED <<rooms, clientToRoomMap, name, up>>

ClientStep(c) ==
    \/ \E r \in RoomName, n \in Name : HandleJoinRoom(c, r, n)
    \/ HandleSendMessage(c)
    \/ ClientRecv(c)
    \/ Disconnect(c)

\* A Leave packet may name any room, whether or not the client is in it.
Next == \E c \in Client :
            \/ ClientStep(c)
            \/ \E r \in RoomName, n \in Name : HandleLeaveRoom(c, r, n)

Spec == Init /\ [][Next]_vars

\* A client whose view agrees with the server's leaves the room it is in.
InSyncNext == \E c \in Client :
            \/ ClientStep(c)
            \/ /\ FindClientRoom(c) # NoRoom
               /\ \E n \in Name : HandleLeaveRoom(c, FindClientRoom(c), n)

InSyncSpec == Init /\ [][InSyncNext]_vars

-----------------------------------------------------------------------------
(* Safety.                                                                  *)

(* Every entry of clientToRoomMap is backed by the member list it names: a    *)
(* client is never mapped to a room whose broadcasts skip it, whatever       *)
(* packets clients send in whatever order (JoinRoom and LeaveRoom update the *)
(* two maps separately, Server.cpp:456-502).                                 *)
MapImpliesMember ==
    \A c \in DOMAIN clientToRoomMap :
        \E i \in 1 .. Len(Members(rooms, clientToRoomMap[c])) :
            rooms[clientToRoomMap[c]][i] = c

(* No client is listed twice in one room, and it is listed in a room only if *)
(* the map names that room for it: the member lists and the map describe     *)
(* the same assignment of clients to rooms.                                  *)
NoStrayMember ==
    \A r \in DOMAIN rooms :
        /\ \A i, j \in 1 .. Len(rooms[r]) : rooms[r][i] = rooms[r][j] => i = j
        /\ \A i \in 1 .. Len(rooms[r]) : FindClientRoom(rooms[r][i]) = r

RoomConsistent == MapImpliesMember /\ NoStrayMember

(* Server.h:62 says clientToRoomMap "holds what room a client is in": a client *)
(* that is listed in a room has that room as its entry.                      *)
MapHoldsRoom ==
    \A r \in DOMAIN rooms : \A i \in 1 .. Len(rooms[r]) :
        FindClientRoom(rooms[r][i]) = r

\* What a step that handles a Send packet of c does to the others in its room.
MessageHeard ==
    \A c \in Client, m \in Message :
        c \in DOMAIN clientToRoomMap /\ SendMessage(c, m) =>
            \A d \in DOMAIN clientToRoomMap \ {c} :
                /\ live[d]
                /\ clientToRoomMap[d] = clientToRoomMap[c]
                /\ Len(toClient[d]) < StreamCap
                => /\ Len(toClient'[d]) > Len(toClient[d])
                   /\ toClient'[d][Len(toClient[d]) + 1]
                          = PacketReceiveMessage(name[c], m)

(* A message a client sends is put at the end of the stream of every other   *)
(* connected client that is mapped to the sender's room and has space, even  *)
(* when sends to other members fail (Server.cpp:437-451).                    *)
HeardInRoom == [][MessageHeard]_vars

-----------------------------------------------------------------------------
(* The rooms of in-sync clients implement the abstract lobby.               *)

LobbySpec == INSTANCE Lobby WITH
    InboxCap <- StreamCap,
    Heard <- PacketReceiveMessage, Entered <- PacketJoinRoom, Left <- PacketLeaveRoom,
    room <- [c \in Client |-> FindClientRoom(c)],
    called <- name, inbox <- toClient, present <- live

(* Each handler step is the step of the lobby: one notice or message to each  *)
(* occupant, none to anybody else, in the order leave before join.           *)
ImplementsLobby == LobbySpec!Spec
=============================================================================
