------------------------------- MODULE Rooms --------------------------------
(***************************************************************************)
(* The room bookkeeping of the chat server (Server/Server.cpp:402-513 and    *)
(* the three Packet*RoomHandler / PacketSendMessageHandler classes): the    *)
(* map from room names to member lists, the reverse map from clients to     *)
(* rooms, and the handlers that change them and broadcast.                  *)
(*                                                                          *)
(* A client is a Client object: one accepted connection.  Objects of         *)
(* authenticated clients are never freed, so a member of a room may be a     *)
(* client whose connection is gone.                                         *)
(***************************************************************************)
EXTENDS Wire

CONSTANTS
    Client,     \* Client objects
    RoomName,   \* room names a Join packet may carry
    NoRoom,     \* the empty string: what FindClientRoom returns for "none"
    Name,       \* display names
    Message     \* chat texts

VARIABLES
    rooms,            \* std::map<std::string, std::vector<Client*>>
    clientToRoomMap,  \* std::map<Client*, std::string>
    name,             \* Client::name
    toClient,         \* frames sent to a client and not yet received by it
    live,             \* whether the client's end of the connection is open
    up                \* whether the server process is running

roomVars == <<rooms, clientToRoomMap, name, toClient>>

-----------------------------------------------------------------------------
(* Reading and updating the two maps.                                       *)

FindClientRoom(c) ==
    IF c \in DOMAIN clientToRoomMap THEN clientToRoomMap[c] ELSE NoRoom

Members(rs, r) == IF r \in DOMAIN rs THEN rs[r] ELSE <<>>

\* rooms[r].push_back(c): operator[] creates the room when it is new.
PushMember(rs, c, r) ==
    [q \in DOMAIN rs \cup {r} |->
        IF q = r THEN Append(Members(rs, r), c) ELSE rs[q]]

\* Mutation: erase-remove of the last member, a swap-and-pop gone wrong.
EraseLast(rs, c, r) ==
    IF r \in DOMAIN rs /\ Contains(rs[r], c)
    THEN [rs EXCEPT ![r] = Front(@)] ELSE rs

\* std::find and erase: the first occurrence, if the room and the client exist.
EraseMember(rs, c, r) ==
    IF r \in DOMAIN rs THEN [rs EXCEPT ![r] = RemoveFirst(@, c)] ELSE rs

\* Mutation: only the entry of a client that has one is set.
UpdateEntry(m, c, r) == IF c \in DOMAIN m THEN [m EXCEPT ![c] = r] ELSE m

\* std::map::insert: an entry that is there already is kept.
InsertEntry(m, c, r) ==
    IF c \in DOMAIN m THEN m
    ELSE [d \in DOMAIN m \cup {c} |-> IF d = c THEN r ELSE m[d]]

\* Mutation: the entry is set to "" instead of being erased.
BlankEntry(m, c) == IF c \in DOMAIN m THEN [m EXCEPT ![c] = NoRoom] ELSE m

EraseEntry(m, c) == [d \in DOMAIN m \ {c} |-> m[d]]

-----------------------------------------------------------------------------
(* Sending.  A frame to a connection whose other end is gone goes nowhere.  *)

SendToClient(streams, c, f) ==
    [streams EXCEPT ![c] = IF live[c] THEN Deliver(@, <<f>>) ELSE @]

Occurrences(members, c) == Cardinality({i \in 1 .. Len(members) : members[i] = c})

Copies(f, n) == [i \in 1 .. n |-> f]

\* Mutation: a loop that stops one member early.
BroadcastToAllButLast(streams, members, f) ==
    [c \in Client |->
        IF live[c] /\ members # <<>>
        THEN Deliver(streams[c], Copies(f, Occurrences(Front(members), c)))
        ELSE streams[c]]

\* BroadcastToRoom: one copy per entry of the member list, in any list order.
Broadcast(streams, members, f) ==
    [c \in Client |->
        IF live[c] THEN Deliver(streams[c], Copies(f, Occurrences(members, c)))
        ELSE streams[c]]

\* Mutation: a failed send ends the loop instead of continuing it.
BroadcastUntilFailure(streams, members, exclude, f) ==
    LET Fails(i) == members[i] # exclude /\ live[members[i]]
                        /\ Len(streams[members[i]]) >= StreamCap
    IN [c \in Client |->
          IF live[c] /\ c # exclude
             /\ \E i \in 1 .. Len(members) :
                    members[i] = c /\ \A j \in 1 .. i - 1 : ~Fails(j)
          THEN Deliver(streams[c], <<f>>) ELSE streams[c]]

\* BroadcastToRoomExcludeClient: the same without the excluded object.
BroadcastExclude(streams, members, exclude, f) ==
    [c \in Client |->
        IF live[c] /\ c # exclude
        THEN Deliver(streams[c], Copies(f, Occurrences(members, c)))
        ELSE streams[c]]

-----------------------------------------------------------------------------
(* The handlers.                                                            *)

\* The streams after LeaveRoom's two sends; rs is rooms after the erase.
LeaveNotices(rs, c, r, n) ==
    LET notice == PacketLeaveRoom(r, n)
    IN Broadcast(SendToClient(toClient, c, notice), Members(rs, r), notice)

LeaveRoom(c, r, n) ==
    /\ rooms' = EraseMember(rooms, c, r)
    /\ clientToRoomMap' = EraseEntry(clientToRoomMap, c)
    /\ toClient' = LeaveNotices(rooms', c, r, n)
    /\ UNCHANGED name

\* Mutation: the client joins its next room without leaving the last one.
RoomsStillWith(c) == rooms

\* What is left of rooms, of the map and of the streams once JoinRoom has made
\* the client leave the room it was found in (nothing changes if that is "").
RoomsWithout(c) ==
    IF FindClientRoom(c) = NoRoom THEN rooms
    ELSE EraseMember(rooms, c, FindClientRoom(c))

MapWithout(c) ==
    IF FindClientRoom(c) = NoRoom THEN clientToRoomMap
    ELSE EraseEntry(clientToRoomMap, c)

StreamsWithout(c, n) ==
    IF FindClientRoom(c) = NoRoom THEN toClient
    ELSE LeaveNotices(RoomsWithout(c), c, FindClientRoom(c), n)

JoinRoom(c, r, n) ==
    /\ rooms' = PushMember(RoomsWithout(c), c, r)
    /\ clientToRoomMap' = InsertEntry(MapWithout(c), c, r)
    /\ name' = [name EXCEPT ![c] = n]
    /\ toClient' = Broadcast(StreamsWithout(c, n), Members(rooms', r),
                             PacketJoinRoom(r, n))

\* PacketSendMessageHandler when the sender's room exists.
SendMessage(c, m) ==
    /\ FindClientRoom(c) \in DOMAIN rooms
    /\ toClient' = BroadcastExclude(toClient, rooms[FindClientRoom(c)], c,
                                    PacketReceiveMessage(name[c], m))
    /\ UNCHANGED <<rooms, clientToRoomMap, name, up>>

\* ... and when it does not: printf is given a std::string for %s, which is
\* undefined; the process prints something or dies.
SendMessageRoomNotFound(c) ==
    /\ FindClientRoom(c) \notin DOMAIN rooms
    /\ up' \in {TRUE, FALSE}
    /\ UNCHANGED roomVars
=============================================================================
