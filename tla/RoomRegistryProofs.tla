------------------------- MODULE RoomRegistryProofs -------------------------
(***************************************************************************)
(* Proofs about the room bookkeeping, for any clients, rooms, names,         *)
(* messages and bounds: its maps agree, and it implements module Lobby.      *)
(***************************************************************************)
EXTENDS RoomRegistry, WireProofs

-----------------------------------------------------------------------------
(* Lemmas about the streams and the two maps.                               *)

Frame == RoomFrame(RoomOrNone, Name, Message)

\* The three ways to send keep the streams well-typed.
LEMMA SendType ==
    ASSUME NEW F, NEW streams \in [Client -> Seq(F)], NEW f \in F,
           NEW l \in Seq(Client), NEW c \in Client
    PROVE  /\ SendToClient(streams, c, f) \in [Client -> Seq(F)]
           /\ Broadcast(streams, l, f) \in [Client -> Seq(F)]
           /\ BroadcastExclude(streams, l, c, f) \in [Client -> Seq(F)]
<1>1. \A d \in Client : Copies(f, Occurrences(l, d)) \in Seq(F)
  BY OccurrencesType, CopiesType
<1>2. \A d \in Client :
          Deliver(streams[d], Copies(f, Occurrences(l, d))) \in Seq(F)
  BY <1>1, DeliverType
<1>3. Deliver(streams[c], <<f>>) \in Seq(F)
  <2>1. <<f>> \in Seq(F) /\ streams[c] \in Seq(F)
    OBVIOUS
  <2>. QED
    BY <2>1, DeliverType
<1>4. SendToClient(streams, c, f) \in [Client -> Seq(F)]
  BY <1>3 DEF SendToClient
<1>5. Broadcast(streams, l, f) \in [Client -> Seq(F)]
  BY <1>2 DEF Broadcast
<1>6. BroadcastExclude(streams, l, c, f) \in [Client -> Seq(F)]
  BY <1>2 DEF BroadcastExclude
<1>. QED
  BY <1>4, <1>5, <1>6

\* The types of the two maps, of which the rest of TypeOK is independent.
RoomsType(rs) == DOMAIN rs \subseteq RoomName /\ rs \in [DOMAIN rs -> Seq(Client)]

MapType(m) == DOMAIN m \subseteq Client /\ m \in [DOMAIN m -> RoomName]

\* The member list of any room name, known or not, is a list of clients.
LEMMA MembersType ==
    ASSUME NEW rs, RoomsType(rs), NEW r
    PROVE  Members(rs, r) \in Seq(Client)
  BY EmptySeq DEF RoomsType, Members

\* Erasing a member changes one list and keeps the type.
LEMMA EraseMemberType ==
    ASSUME NEW rs, RoomsType(rs), NEW c \in Client, NEW r
    PROVE  /\ RoomsType(EraseMember(rs, c, r))
           /\ DOMAIN EraseMember(rs, c, r) = DOMAIN rs
           /\ \A q \in DOMAIN rs :
                 EraseMember(rs, c, r)[q]
                     = IF q = r THEN RemoveFirst(rs[r], c) ELSE rs[q]
<1>1. \A q \in DOMAIN rs : RemoveFirst(rs[q], c) \in Seq(Client)
  BY RemoveFirstProperties DEF RoomsType
<1>. QED
  BY <1>1 DEF RoomsType, EraseMember

\* Pushing a member changes one list, creates it if need be, and keeps the type.
LEMMA PushMemberType ==
    ASSUME NEW rs, RoomsType(rs), NEW c \in Client, NEW r \in RoomName
    PROVE  /\ RoomsType(PushMember(rs, c, r))
           /\ DOMAIN PushMember(rs, c, r) = DOMAIN rs \cup {r}
           /\ \A q \in DOMAIN rs \cup {r} :
                 PushMember(rs, c, r)[q]
                     = IF q = r THEN Append(Members(rs, r), c) ELSE rs[q]
<1>1. Append(Members(rs, r), c) \in Seq(Client)
  BY MembersType, AppendProperties
<1>. QED
  BY <1>1 DEF RoomsType, PushMember

\* Erasing and inserting a map entry.
LEMMA EntryType ==
    ASSUME NEW m, MapType(m), NEW c \in Client, NEW r \in RoomName
    PROVE  /\ MapType(EraseEntry(m, c))
           /\ MapType(InsertEntry(m, c, r))
  BY DEF MapType, EraseEntry, InsertEntry

-----------------------------------------------------------------------------
(* Type correctness.                                                        *)

\* Both notices of LeaveRoom, sent after the erase, keep the streams typed.
LEMMA LeaveNoticesType ==
    ASSUME TypeOK, NEW rs, RoomsType(rs), NEW c \in Client,
           NEW r \in RoomOrNone, NEW n \in Name
    PROVE  LeaveNotices(rs, c, r, n) \in [Client -> Seq(Frame)]
<1>. DEFINE f == PacketLeaveRoom(r, n)
            sent == SendToClient(toClient, c, f)
<1>1. f \in Frame
  BY DEF PacketLeaveRoom, Frame, RoomFrame
<1>2. toClient \in [Client -> Seq(Frame)]
  BY DEF TypeOK, Frame
<1>3. Members(rs, r) \in Seq(Client)
  BY MembersType
<1>. HIDE DEF f
<1>4. sent \in [Client -> Seq(Frame)]
  BY <1>1, <1>2, <1>3, SendType
<1>. HIDE DEF sent
<1>5. Broadcast(sent, Members(rs, r), f) \in [Client -> Seq(Frame)]
  BY <1>1, <1>3, <1>4, SendType
<1>. QED
  BY <1>5 DEF LeaveNotices, sent, f

\* What JoinRoom keeps of the rooms, the map and the streams is typed.
LEMMA WithoutType ==
    ASSUME TypeOK, NEW c \in Client, NEW n \in Name
    PROVE  /\ RoomsType(RoomsWithout(c))
           /\ MapType(MapWithout(c))
           /\ StreamsWithout(c, n) \in [Client -> Seq(Frame)]
<1>1. RoomsType(rooms) /\ MapType(clientToRoomMap)
  BY DEF TypeOK, RoomsType, MapType
<1>2. FindClientRoom(c) \in RoomOrNone
  BY DEF TypeOK, FindClientRoom, RoomOrNone
<1>3. RoomsType(RoomsWithout(c))
  BY <1>1, EraseMemberType DEF RoomsWithout
<1>4. MapType(MapWithout(c))
  BY <1>1 DEF MapWithout, MapType, EraseEntry
<1>5. StreamsWithout(c, n) \in [Client -> Seq(Frame)]
  <2>1. toClient \in [Client -> Seq(Frame)]
    BY DEF TypeOK, Frame
  <2>. QED
    BY <1>2, <1>3, <2>1, LeaveNoticesType DEF StreamsWithout
<1>. QED
  BY <1>3, <1>4, <1>5

\* The Join handler keeps the types.
LEMMA JoinRoomType ==
    ASSUME TypeOK, NEW c \in Client, NEW r \in RoomName, NEW n \in Name,
           HandleJoinRoom(c, r, n)
    PROVE  TypeOK'
<1>1. /\ rooms' = PushMember(RoomsWithout(c), c, r)
      /\ clientToRoomMap' = InsertEntry(MapWithout(c), c, r)
      /\ name' = [name EXCEPT ![c] = n]
      /\ toClient' = Broadcast(StreamsWithout(c, n), Members(rooms', r),
                               PacketJoinRoom(r, n))
      /\ live' = live /\ up' = up
  BY DEF HandleJoinRoom, JoinRoom
<1>2. RoomsType(rooms')
  BY <1>1, WithoutType, PushMemberType
<1>3. MapType(clientToRoomMap')
  BY <1>1, WithoutType, EntryType
<1>4. toClient' \in [Client -> Seq(Frame)]
  <2>. DEFINE f == PacketJoinRoom(r, n)
              l == Members(rooms', r)
              streams == StreamsWithout(c, n)
  <2>1. f \in Frame
    BY DEF PacketJoinRoom, Frame, RoomFrame, RoomOrNone
  <2>2. l \in Seq(Client)
    BY <1>2, MembersType
  <2>3. streams \in [Client -> Seq(Frame)]
    BY WithoutType
  <2>4. toClient' = Broadcast(streams, l, f)
    BY <1>1
  <2>. HIDE DEF f, l, streams
  <2>. QED
    BY <2>1, <2>2, <2>3, <2>4, SendType
<1>. QED
  BY <1>1, <1>2, <1>3, <1>4 DEF TypeOK, RoomsType, MapType, Frame

\* The Leave handler keeps the types.
LEMMA LeaveRoomType ==
    ASSUME TypeOK, NEW c \in Client, NEW r \in RoomOrNone, NEW n \in Name,
           HandleLeaveRoom(c, r, n)
    PROVE  TypeOK'
<1>1. /\ rooms' = EraseMember(rooms, c, r)
      /\ clientToRoomMap' = EraseEntry(clientToRoomMap, c)
      /\ toClient' = LeaveNotices(rooms', c, r, n)
      /\ name' = name /\ live' = live /\ up' = up
  BY DEF HandleLeaveRoom, LeaveRoom
<1>2. RoomsType(rooms')
  BY <1>1, EraseMemberType DEF TypeOK, RoomsType
<1>3. MapType(clientToRoomMap')
  BY <1>1 DEF TypeOK, MapType, EraseEntry
<1>4. toClient' \in [Client -> Seq(Frame)]
  BY <1>1, <1>2, LeaveNoticesType
<1>. QED
  BY <1>1, <1>2, <1>3, <1>4 DEF TypeOK, RoomsType, MapType, Frame

\* The Send handler keeps the types, whether or not it finds the room.
LEMMA SendMessageType ==
    ASSUME TypeOK, NEW c \in Client, HandleSendMessage(c)
    PROVE  TypeOK'
<1>1. CASE \E m \in Message : SendMessage(c, m)
  <2>1. PICK m \in Message : SendMessage(c, m)
    BY <1>1
  <2>. DEFINE f == PacketReceiveMessage(name[c], m)
              l == rooms[FindClientRoom(c)]
  <2>2. f \in Frame
    BY DEF PacketReceiveMessage, Frame, RoomFrame, TypeOK
  <2>3. l \in Seq(Client)
    BY <2>1 DEF SendMessage, TypeOK
  <2>4. toClient \in [Client -> Seq(Frame)]
    BY DEF TypeOK, Frame
  <2>5. toClient' = BroadcastExclude(toClient, l, c, f)
    BY <2>1 DEF SendMessage
  <2>. HIDE DEF f, l
  <2>6. toClient' \in [Client -> Seq(Frame)]
    BY <2>2, <2>3, <2>4, <2>5, SendType
  <2>. QED
    BY <2>1, <2>6 DEF HandleSendMessage, SendMessage, TypeOK, Frame
<1>2. CASE SendMessageRoomNotFound(c)
  BY <1>2 DEF HandleSendMessage, SendMessageRoomNotFound, roomVars, TypeOK
<1>. QED
  BY <1>1, <1>2 DEF HandleSendMessage

\* A client that receives keeps the types.
LEMMA ClientRecvType ==
    ASSUME TypeOK, NEW c \in Client, ClientRecv(c)
    PROVE  TypeOK'
<1>1. PICK k \in RecvCounts(toClient[c]) :
          toClient' = [toClient EXCEPT ![c] = AfterRecv(@, k)]
  BY DEF ClientRecv
<1>2. toClient \in [Client -> Seq(Frame)] /\ toClient[c] # <<>>
  BY DEF TypeOK, ClientRecv, Frame
<1>3. AfterRecv(toClient[c], k) \in Seq(Frame)
  BY <1>1, <1>2, AfterRecvType
<1>. QED
  BY <1>1, <1>2, <1>3 DEF TypeOK, ClientRecv, Frame

\* The types hold of the empty server.
LEMMA InitType == Init => TypeOK
<1>1. <<>> \in Seq(Frame)
  BY EmptySeq
<1>. QED
  BY <1>1 DEF Init, TypeOK, Frame

\* A step of either specification keeps the types.
LEMMA StepType ==
    ASSUME TypeOK, [Next \/ InSyncNext]_vars
    PROVE  TypeOK'
<1>1. ASSUME NEW c \in Client, ClientStep(c)
      PROVE  TypeOK'
  <2>1. CASE \E r \in RoomName, n \in Name : HandleJoinRoom(c, r, n)
    BY <2>1, JoinRoomType
  <2>2. CASE HandleSendMessage(c)
    BY <2>2, SendMessageType
  <2>3. CASE ClientRecv(c)
    BY <2>3, ClientRecvType
  <2>4. CASE Disconnect(c)
    <3>1. <<>> \in Seq(Frame)
      BY EmptySeq
    <3>. QED
      BY <2>4, <3>1 DEF Disconnect, TypeOK, Frame
  <2>. QED
    BY <1>1, <2>1, <2>2, <2>3, <2>4 DEF ClientStep
<1>2. ASSUME NEW c \in Client, NEW r \in RoomName, NEW n \in Name,
             HandleLeaveRoom(c, r, n)
      PROVE  TypeOK'
  BY <1>2, LeaveRoomType DEF RoomOrNone
<1>3. ASSUME NEW c \in Client, NEW n \in Name,
             HandleLeaveRoom(c, FindClientRoom(c), n)
      PROVE  TypeOK'
  <2>1. FindClientRoom(c) \in RoomOrNone
    BY DEF TypeOK, FindClientRoom, RoomOrNone
  <2>. QED
    BY <1>3, <2>1, LeaveRoomType
<1>4. CASE UNCHANGED vars
  BY <1>4 DEF vars, TypeOK
<1>. QED
  BY <1>1, <1>2, <1>3, <1>4 DEF Next, InSyncNext

(* The rooms, the reverse map and the streams keep their types whatever       *)
(* packets the clients send (Server.cpp:402-513).                            *)
THEOREM TypeCorrect == Spec => []TypeOK
<1>1. TypeOK /\ [Next]_vars => TypeOK'
  BY StepType
<1>. QED
  BY InitType, <1>1, PTL DEF Spec

\* The same under in-sync clients, for the consistency proof below.
LEMMA TypeCorrectInSync == InSyncSpec => []TypeOK
<1>1. TypeOK /\ [InSyncNext]_vars => TypeOK'
  BY StepType
<1>. QED
  BY InitType, <1>1, PTL DEF InSyncSpec

-----------------------------------------------------------------------------
(* The map never names a room that does not list the client.                *)

Lists(rs, r, c) == \E i \in 1 .. Len(Members(rs, r)) : Members(rs, r)[i] = c

\* MapImpliesMember for any value of the two maps.
Backed(rs, m) == \A c \in DOMAIN m : Lists(rs, m[c], c)

\* On well-typed states Backed is the property the runs check.
LEMMA BackedIsMapImpliesMember ==
    ASSUME TypeOK
    PROVE  MapImpliesMember <=> Backed(rooms, clientToRoomMap)
<1>1. ASSUME NEW r
      PROVE  \A i \in 1 .. Len(Members(rooms, r)) : Members(rooms, r)[i] = rooms[r][i]
  BY EmptySeq DEF Members
<1>. QED
  BY <1>1 DEF MapImpliesMember, Backed, Lists

\* Erasing a client takes no other client off any list.
LEMMA EraseKeepsOthers ==
    ASSUME NEW rs, RoomsType(rs), NEW c \in Client, NEW d \in Client, d # c,
           NEW r, NEW q, Lists(rs, q, d)
    PROVE  Lists(EraseMember(rs, c, r), q, d)
<1>1. q \in DOMAIN rs
  BY EmptySeq DEF Lists, Members
<1>2. CASE q = r
  <2>. DEFINE l == rs[r]
              t == RemoveFirst(l, c)
  <2>1. l \in Seq(Client)
    BY <1>1, <1>2 DEF RoomsType
  <2>2. Members(rs, q) = l /\ Members(EraseMember(rs, c, r), q) = t
    BY <1>1, <1>2, EraseMemberType DEF Members
  <2>. HIDE DEF l
  <2>3. PICK i \in 1 .. Len(l) : l[i] = d
    BY <2>2 DEF Lists
  <2>4. \E j \in 1 .. Len(t) : t[j] = l[i]
    BY <2>1, <2>3, RemoveFirstProperties
  <2>. HIDE DEF t
  <2>. QED
    BY <2>2, <2>3, <2>4 DEF Lists
<1>3. CASE q # r
  BY <1>1, <1>3, EraseMemberType DEF Lists, Members
<1>. QED
  BY <1>2, <1>3

\* Pushing a member keeps every list entry and adds the pushed one.
LEMMA PushKeeps ==
    ASSUME NEW rs, RoomsType(rs), NEW c \in Client, NEW r \in RoomName
    PROVE  /\ Lists(PushMember(rs, c, r), r, c)
           /\ \A q, d : Lists(rs, q, d) => Lists(PushMember(rs, c, r), q, d)
<1>. DEFINE l == Members(rs, r)
            t == PushMember(rs, c, r)
<1>1. l \in Seq(Client) /\ Len(l) \in Nat
  BY MembersType, LenProperties
<1>2. /\ Len(Append(l, c)) = Len(l) + 1
      /\ \A i \in 1 .. Len(l) : Append(l, c)[i] = l[i]
      /\ Append(l, c)[Len(l) + 1] = c
  BY <1>1, AppendProperties
<1>0. /\ DOMAIN t = DOMAIN rs \cup {r}
      /\ \A q \in DOMAIN rs \cup {r} : t[q] = IF q = r THEN Append(l, c) ELSE rs[q]
  BY DEF PushMember
<1>. HIDE DEF l, t
<1>3. Members(t, r) = Append(l, c)
  BY <1>0 DEF Members
<1>4. ASSUME NEW q, q # r
      PROVE  Members(t, q) = Members(rs, q)
  BY <1>0, <1>4 DEF Members
<1>5. Lists(t, r, c)
  BY <1>1, <1>2, <1>3 DEF Lists
<1>6. ASSUME NEW q, NEW d, Lists(rs, q, d)
      PROVE  Lists(t, q, d)
  <2>1. CASE q = r
    BY <2>1, <1>1, <1>2, <1>3, <1>6 DEF Lists, l
  <2>2. CASE q # r
    BY <2>2, <1>4, <1>6 DEF Lists
  <2>. QED
    BY <2>1, <2>2
<1>. QED
  BY <1>5, <1>6 DEF t

\* Erasing the client from a list and from the map, as LeaveRoom does, keeps
\* the map backed.
LEMMA EraseKeepsBacked ==
    ASSUME NEW rs, RoomsType(rs), NEW m, MapType(m), Backed(rs, m),
           NEW c \in Client, NEW r
    PROVE  Backed(EraseMember(rs, c, r), EraseEntry(m, c))
<1>. SUFFICES ASSUME NEW d \in DOMAIN EraseEntry(m, c)
              PROVE  Lists(EraseMember(rs, c, r), EraseEntry(m, c)[d], d)
  BY DEF Backed
<1>1. d \in DOMAIN m /\ d # c /\ d \in Client /\ EraseEntry(m, c)[d] = m[d]
  BY DEF EraseEntry, MapType
<1>2. Lists(rs, m[d], d)
  BY <1>1 DEF Backed
<1>. QED
  BY <1>1, <1>2, EraseKeepsOthers

\* Inserting a client into a list and into the map, as JoinRoom does, keeps
\* the map backed.
LEMMA InsertKeepsBacked ==
    ASSUME NEW rs, RoomsType(rs), NEW m, MapType(m), Backed(rs, m),
           NEW c \in Client, NEW r \in RoomName
    PROVE  Backed(PushMember(rs, c, r), InsertEntry(m, c, r))
<1>. SUFFICES ASSUME NEW d \in DOMAIN InsertEntry(m, c, r)
              PROVE  Lists(PushMember(rs, c, r), InsertEntry(m, c, r)[d], d)
  BY DEF Backed
<1>1. CASE d \in DOMAIN m
  <2>1. InsertEntry(m, c, r)[d] = m[d]
    BY <1>1 DEF InsertEntry
  <2>2. Lists(rs, m[d], d)
    BY <1>1 DEF Backed
  <2>. QED
    BY <2>1, <2>2, PushKeeps
<1>2. CASE d \notin DOMAIN m
  <2>1. d = c /\ InsertEntry(m, c, r)[d] = r
    BY <1>2 DEF InsertEntry
  <2>. QED
    BY <2>1, PushKeeps
<1>. QED
  BY <1>1, <1>2

\* A step of either specification keeps the map backed.
LEMMA StepBacked ==
    ASSUME TypeOK, Backed(rooms, clientToRoomMap), [Next \/ InSyncNext]_vars
    PROVE  Backed(rooms', clientToRoomMap')
<1>1. RoomsType(rooms) /\ MapType(clientToRoomMap)
  BY DEF TypeOK, RoomsType, MapType
<1>2. ASSUME NEW c \in Client, NEW r \in RoomName, NEW n \in Name,
             HandleJoinRoom(c, r, n)
      PROVE  Backed(rooms', clientToRoomMap')
  <2>1. RoomsType(RoomsWithout(c)) /\ MapType(MapWithout(c))
    BY WithoutType
  <2>2. Backed(RoomsWithout(c), MapWithout(c))
    BY <1>1, EraseKeepsBacked DEF RoomsWithout, MapWithout
  <2>3. /\ rooms' = PushMember(RoomsWithout(c), c, r)
        /\ clientToRoomMap' = InsertEntry(MapWithout(c), c, r)
    BY <1>2 DEF HandleJoinRoom, JoinRoom
  <2>. QED
    BY <2>1, <2>2, <2>3, InsertKeepsBacked
<1>3. ASSUME NEW c \in Client, NEW r, NEW n, HandleLeaveRoom(c, r, n)
      PROVE  Backed(rooms', clientToRoomMap')
  BY <1>1, <1>3, EraseKeepsBacked DEF HandleLeaveRoom, LeaveRoom
<1>4. ASSUME rooms' = rooms, clientToRoomMap' = clientToRoomMap
      PROVE  Backed(rooms', clientToRoomMap')
  BY <1>4
<1>5. ASSUME NEW c \in Client, ClientStep(c)
      PROVE  Backed(rooms', clientToRoomMap')
  BY <1>2, <1>4, <1>5 DEF ClientStep, HandleSendMessage, SendMessage,
     SendMessageRoomNotFound, roomVars, ClientRecv, Disconnect
<1>. QED
  BY <1>3, <1>4, <1>5 DEF Next, InSyncNext, vars

(* Whatever packets the clients send, a client that has an entry in           *)
(* clientToRoomMap is a member of the room the entry names, so that the      *)
(* broadcasts of its room reach it (Server.cpp:456-502).                     *)
THEOREM MapAlwaysBacked == Spec => []MapImpliesMember
<1>1. Init => Backed(rooms, clientToRoomMap)
  BY DEF Init, Backed
<1>2. /\ TypeOK /\ TypeOK' /\ Backed(rooms, clientToRoomMap) /\ [Next]_vars
      => Backed(rooms, clientToRoomMap)'
  BY StepBacked
<1>3. TypeOK /\ Backed(rooms, clientToRoomMap) => MapImpliesMember
  BY BackedIsMapImpliesMember
<1>. QED
  BY TypeCorrect, <1>1, <1>2, <1>3, PTL DEF Spec

-----------------------------------------------------------------------------
(* Messages are heard.                                                      *)

\* Delivering one or more copies of a frame to a stream that has space puts the
\* frame behind what was there.
LEMMA DeliverCopies ==
    ASSUME NEW F, NEW s \in Seq(F), NEW f \in F, NEW n \in Nat \ {0},
           Len(s) < StreamCap
    PROVE  /\ Len(Deliver(s, Copies(f, n))) > Len(s)
           /\ Deliver(s, Copies(f, n))[Len(s) + 1] = f
<1>. DEFINE fs == Copies(f, n)
            t == s \o fs
<1>1. fs \in Seq(F) /\ Len(fs) = n /\ fs[1] = f
  BY DEF Copies
<1>. HIDE DEF fs
<1>2. /\ t \in Seq(F) /\ Len(t) = Len(s) + n
      /\ t[Len(s) + 1] = fs[1]
  <2>1. /\ t \in Seq(F) /\ Len(t) = Len(s) + Len(fs)
        /\ \A i \in 1 .. Len(s) + Len(fs) :
              t[i] = IF i <= Len(s) THEN s[i] ELSE fs[i - Len(s)]
    BY <1>1, ConcatProperties
  <2>. DEFINE k == Len(s)
  <2>2. k \in Nat
    BY LenProperties
  <2>. HIDE DEF k, t
  <2>3. /\ k + 1 \in 1 .. k + n /\ ~(k + 1 <= k) /\ (k + 1) - k = 1
    BY <2>2
  <2>4. t[k + 1] = IF k + 1 <= k THEN s[k + 1] ELSE fs[(k + 1) - k]
    BY <1>1, <2>1, <2>3 DEF k
  <2>. QED
    BY <1>1, <2>1, <2>3, <2>4 DEF k
<1>. HIDE DEF t
<1>3. Len(s) \in Nat /\ StreamCap \in Nat
  BY LenProperties, StreamCapAssumption
<1>4. t[Len(s) + 1] = f
  BY <1>1, <1>2
<1>5. CASE Len(t) <= StreamCap
  <2>1. Deliver(s, fs) = t
    BY <1>5 DEF Deliver, t
  <2>. QED
    BY <1>2, <1>3, <1>4, <2>1 DEF fs
<1>6. CASE ~(Len(t) <= StreamCap)
  <2>1. Deliver(s, fs) = SubSeq(t, 1, StreamCap)
    BY <1>6 DEF Deliver, t
  <2>2. /\ Len(SubSeq(t, 1, StreamCap)) = StreamCap
        /\ SubSeq(t, 1, StreamCap)[Len(s) + 1] = t[Len(s) + 1]
    BY <1>2, <1>3, <1>6
  <2>. QED
    BY <1>3, <1>4, <2>1, <2>2 DEF fs
<1>. QED
  BY <1>5, <1>6

\* A client on a list occurs on it.
LEMMA OccursOnList ==
    ASSUME NEW l \in Seq(Client), NEW c, \E i \in 1 .. Len(l) : l[i] = c
    PROVE  Occurrences(l, c) \in Nat \ {0}
<1>. DEFINE S == {i \in 1 .. Len(l) : l[i] = c}
<1>0. IsFiniteSet(1 .. Len(l))
  <2>1. Len(l) \in Nat
    BY LenProperties
  <2>. QED
    BY <2>1, FS_Interval
<1>1. IsFiniteSet(S)
  BY <1>0, FS_Subset
<1>2. S # {}
  OBVIOUS
<1>. QED
  BY <1>1, <1>2, FS_EmptySet, FS_CardinalityType DEF Occurrences

\* With the map backed, whoever is mapped to the sender's room is on its list.
LEMMA StepHeard ==
    ASSUME TypeOK, MapImpliesMember
    PROVE  MessageHeard
<1>. SUFFICES ASSUME NEW c \in Client, NEW m \in Message,
                     c \in DOMAIN clientToRoomMap, SendMessage(c, m),
                     NEW d \in DOMAIN clientToRoomMap \ {c}, live[d],
                     clientToRoomMap[d] = clientToRoomMap[c],
                     Len(toClient[d]) < StreamCap
              PROVE  /\ Len(toClient'[d]) > Len(toClient[d])
                     /\ toClient'[d][Len(toClient[d]) + 1]
                            = PacketReceiveMessage(name[c], m)
  BY DEF MessageHeard
<1>. DEFINE r == clientToRoomMap[c]
            l == rooms[r]
            f == PacketReceiveMessage(name[c], m)
<1>1. d \in Client /\ FindClientRoom(c) = r
  BY DEF TypeOK, FindClientRoom
<1>2. r \in DOMAIN rooms /\ l \in Seq(Client)
  BY <1>1 DEF SendMessage, TypeOK
<1>3. \E i \in 1 .. Len(l) : l[i] = d
  BY <1>2 DEF MapImpliesMember, Members
<1>4. Occurrences(l, d) \in Nat \ {0}
  BY <1>2, <1>3, OccursOnList
<1>5. f \in Frame /\ toClient[d] \in Seq(Frame)
  BY <1>1 DEF TypeOK, Frame, RoomFrame, PacketReceiveMessage
<1>6. toClient'[d] = Deliver(toClient[d], Copies(f, Occurrences(l, d)))
  BY <1>1 DEF SendMessage, BroadcastExclude
<1>. QED
  BY <1>4, <1>5, <1>6, DeliverCopies

(* Whatever packets the clients send, a message reaches every other connected  *)
(* client that is mapped to the sender's room and has space, behind what it  *)
(* was sent before (Server.cpp:437-451).                                     *)
THEOREM MessagesHeard == Spec => HeardInRoom
<1>1. TypeOK /\ MapImpliesMember => MessageHeard
  BY StepHeard
<1>. QED
  BY TypeCorrect, MapAlwaysBacked, <1>1, PTL DEF HeardInRoom

-----------------------------------------------------------------------------
(* In-sync clients: the member lists and the map are the same assignment.   *)

\* NoStrayMember for any value of the two maps.
Exact(rs, m) ==
    \A q \in DOMAIN rs :
        /\ \A i, j \in 1 .. Len(rs[q]) : rs[q][i] = rs[q][j] => i = j
        /\ \A i \in 1 .. Len(rs[q]) : rs[q][i] \in DOMAIN m /\ m[rs[q][i]] = q

\* On well-typed states Exact is the property the runs check.
LEMMA ExactIsNoStrayMember ==
    ASSUME TypeOK, NoRoom \notin RoomName
    PROVE  NoStrayMember <=> Exact(rooms, clientToRoomMap)
<1>1. \A r \in DOMAIN rooms : r # NoRoom
  BY DEF TypeOK
<1>. QED
  BY <1>1 DEF NoStrayMember, Exact, FindClientRoom

\* Leaving the room the map names takes the client off the only list it was
\* on.
LEMMA EraseKeepsExact ==
    ASSUME NEW rs, RoomsType(rs), NEW m, MapType(m), Exact(rs, m),
           NEW c \in DOMAIN m
    PROVE  Exact(EraseMember(rs, c, m[c]), EraseEntry(m, c))
<1>. DEFINE r == m[c]
            ns == EraseMember(rs, c, r)
            nm == EraseEntry(m, c)
<1>1. c \in Client
  BY DEF MapType
<1>2. /\ DOMAIN ns = DOMAIN rs
      /\ \A q \in DOMAIN rs : ns[q] = IF q = r THEN RemoveFirst(rs[r], c) ELSE rs[q]
  BY <1>1, EraseMemberType
<1>3. \A d \in DOMAIN m : d # c => d \in DOMAIN nm /\ nm[d] = m[d]
  BY DEF EraseEntry
<1>. SUFFICES ASSUME NEW q \in DOMAIN rs
              PROVE  /\ \A i, j \in 1 .. Len(ns[q]) : ns[q][i] = ns[q][j] => i = j
                     /\ \A i \in 1 .. Len(ns[q]) :
                           ns[q][i] \in DOMAIN nm /\ nm[ns[q][i]] = q
  BY <1>2 DEF Exact
<1>. HIDE DEF ns, nm
<1>4. CASE q = r
  <2>. DEFINE l == rs[q]
              t == RemoveFirst(l, c)
  <2>1. l \in Seq(Client)
    BY DEF RoomsType
  <2>2. /\ \A i, j \in 1 .. Len(l) : l[i] = l[j] => i = j
        /\ \A i \in 1 .. Len(l) : l[i] \in DOMAIN m /\ m[l[i]] = q
    BY DEF Exact
  <2>3. ns[q] = t
    BY <1>2, <1>4
  <2>. HIDE DEF l
  <2>4. /\ \A j \in 1 .. Len(t) : \E i \in 1 .. Len(l) : t[j] = l[i]
        /\ \A i, j \in 1 .. Len(t) : t[i] = t[j] => i = j
        /\ \A i \in 1 .. Len(t) : t[i] # c
    <3>1. \A j \in 1 .. Len(t) : \E i \in 1 .. Len(l) : t[j] = l[i]
      BY <2>1, RemoveFirstProperties
    <3>2. (\A i, j \in 1 .. Len(l) : l[i] = l[j] => i = j)
             => /\ \A i, j \in 1 .. Len(t) : t[i] = t[j] => i = j
                /\ \A i \in 1 .. Len(t) : t[i] # c
      BY <2>1, RemoveFirstProperties, Zenon
    <3>. QED
      BY <2>2, <3>1, <3>2, Zenon
  <2>. HIDE DEF t
  <2>5. ASSUME NEW i \in 1 .. Len(t)
        PROVE  t[i] \in DOMAIN nm /\ nm[t[i]] = q
    <3>1. PICK k \in 1 .. Len(l) : t[i] = l[k]
      BY <2>4
    <3>. QED
      BY <2>2, <2>4, <3>1, <1>3
  <2>. QED
    BY <2>3, <2>4, <2>5
<1>5. CASE q # r
  <2>1. ns[q] = rs[q]
    BY <1>2, <1>5
  <2>2. \A i \in 1 .. Len(rs[q]) : rs[q][i] \in DOMAIN m /\ m[rs[q][i]] = q
    BY DEF Exact
  <2>3. \A i \in 1 .. Len(rs[q]) : rs[q][i] # c
    BY <2>2, <1>5
  <2>. QED
    BY <2>1, <2>2, <2>3, <1>3 DEF Exact
<1>. QED
  BY <1>4, <1>5

\* A client without an entry is on no list, so that one push lists it once.
LEMMA PushKeepsExact ==
    ASSUME NEW rs, RoomsType(rs), NEW m, MapType(m), Exact(rs, m),
           NEW c \in Client, c \notin DOMAIN m, NEW r \in RoomName
    PROVE  Exact(PushMember(rs, c, r), InsertEntry(m, c, r))
<1>. DEFINE ns == PushMember(rs, c, r)
            nm == InsertEntry(m, c, r)
            l == Members(rs, r)
<1>1. /\ DOMAIN ns = DOMAIN rs \cup {r}
      /\ \A q \in DOMAIN rs \cup {r} : ns[q] = IF q = r THEN Append(l, c) ELSE rs[q]
  BY DEF PushMember
<1>2. /\ c \in DOMAIN nm /\ nm[c] = r
      /\ \A d \in DOMAIN m : d \in DOMAIN nm /\ nm[d] = m[d]
  BY DEF InsertEntry
<1>3. /\ l \in Seq(Client) /\ Len(l) \in Nat
      /\ \A i, j \in 1 .. Len(l) : l[i] = l[j] => i = j
      /\ \A i \in 1 .. Len(l) : l[i] \in DOMAIN m /\ m[l[i]] = r
  <2>1. l \in Seq(Client)
    BY MembersType
  <2>2. CASE r \in DOMAIN rs
    BY <2>1, <2>2, LenProperties DEF Exact, Members
  <2>3. CASE r \notin DOMAIN rs
    BY <2>1, <2>3, EmptySeq DEF Members
  <2>. QED
    BY <2>2, <2>3
<1>. SUFFICES ASSUME NEW q \in DOMAIN rs \cup {r}
              PROVE  /\ \A i, j \in 1 .. Len(ns[q]) : ns[q][i] = ns[q][j] => i = j
                     /\ \A i \in 1 .. Len(ns[q]) :
                           ns[q][i] \in DOMAIN nm /\ nm[ns[q][i]] = q
  BY <1>1 DEF Exact
<1>. HIDE DEF ns, nm, l
<1>4. CASE q = r
  <2>. DEFINE t == Append(l, c)
  <2>1. /\ Len(t) = Len(l) + 1
        /\ \A i \in 1 .. Len(l) : t[i] = l[i]
        /\ t[Len(l) + 1] = c
    BY <1>3, AppendProperties
  <2>2. ns[q] = t
    BY <1>1, <1>4
  <2>. HIDE DEF t
  <2>3. \A i \in 1 .. Len(t) : i \in 1 .. Len(l) \/ i = Len(l) + 1
    BY <1>3, <2>1
  <2>4. ASSUME NEW i \in 1 .. Len(t), NEW j \in 1 .. Len(t), t[i] = t[j]
        PROVE  i = j
    BY <1>3, <2>1, <2>3, <2>4
  <2>5. ASSUME NEW i \in 1 .. Len(t)
        PROVE  t[i] \in DOMAIN nm /\ nm[t[i]] = q
    BY <1>2, <1>3, <1>4, <2>1, <2>3
  <2>. QED
    BY <2>2, <2>4, <2>5
<1>5. CASE q # r
  <2>1. ns[q] = rs[q] /\ q \in DOMAIN rs
    BY <1>1, <1>5
  <2>. QED
    BY <2>1, <1>2 DEF Exact
<1>. QED
  BY <1>4, <1>5

\* A step of in-sync clients keeps list entries the map's, and single.
LEMMA StepExact ==
    ASSUME TypeOK, Exact(rooms, clientToRoomMap), NoRoom \notin RoomName,
           [InSyncNext]_vars
    PROVE  Exact(rooms', clientToRoomMap')
<1>1. RoomsType(rooms) /\ MapType(clientToRoomMap)
  BY DEF TypeOK, RoomsType, MapType
<1>2. \A c : FindClientRoom(c) # NoRoom =>
             c \in DOMAIN clientToRoomMap /\ FindClientRoom(c) = clientToRoomMap[c]
  BY DEF FindClientRoom
<1>3. \A c \in DOMAIN clientToRoomMap : FindClientRoom(c) # NoRoom
  BY DEF FindClientRoom, TypeOK
<1>4. ASSUME NEW c \in Client, NEW r \in RoomName, NEW n \in Name,
             HandleJoinRoom(c, r, n)
      PROVE  Exact(rooms', clientToRoomMap')
  <2>1. RoomsType(RoomsWithout(c)) /\ MapType(MapWithout(c))
    BY WithoutType
  <2>2. Exact(RoomsWithout(c), MapWithout(c)) /\ c \notin DOMAIN MapWithout(c)
    <3>1. CASE FindClientRoom(c) = NoRoom
      BY <1>3, <3>1 DEF RoomsWithout, MapWithout
    <3>2. CASE FindClientRoom(c) # NoRoom
      <4>1. c \notin DOMAIN EraseEntry(clientToRoomMap, c)
        BY DEF EraseEntry
      <4>. QED
        BY <1>1, <1>2, <3>2, <4>1, EraseKeepsExact DEF RoomsWithout, MapWithout
    <3>. QED
      BY <3>1, <3>2
  <2>3. /\ rooms' = PushMember(RoomsWithout(c), c, r)
        /\ clientToRoomMap' = InsertEntry(MapWithout(c), c, r)
    BY <1>4 DEF HandleJoinRoom, JoinRoom
  <2>. QED
    BY <2>1, <2>2, <2>3, PushKeepsExact
<1>5. ASSUME NEW c \in Client, NEW n \in Name, FindClientRoom(c) # NoRoom,
             HandleLeaveRoom(c, FindClientRoom(c), n)
      PROVE  Exact(rooms', clientToRoomMap')
  BY <1>1, <1>2, <1>5, EraseKeepsExact DEF HandleLeaveRoom, LeaveRoom
<1>6. ASSUME rooms' = rooms, clientToRoomMap' = clientToRoomMap
      PROVE  Exact(rooms', clientToRoomMap')
  BY <1>6
<1>7. ASSUME NEW c \in Client, ClientStep(c)
      PROVE  Exact(rooms', clientToRoomMap')
  BY <1>4, <1>6, <1>7 DEF ClientStep, HandleSendMessage, SendMessage,
     SendMessageRoomNotFound, roomVars, ClientRecv, Disconnect
<1>. QED
  BY <1>5, <1>6, <1>7 DEF InSyncNext, vars

(* When clients leave only the room they are in and no room has the empty     *)
(* name, a client is in a member list exactly when the map names that room   *)
(* for it, and it is there once, so that it gets each broadcast once.        *)
THEOREM RoomsAlwaysConsistent ==
    ASSUME NoRoom \notin RoomName
    PROVE  InSyncSpec => []RoomConsistent
<1>. DEFINE Inv == /\ Backed(rooms, clientToRoomMap)
                   /\ Exact(rooms, clientToRoomMap)
<1>1. Init => Inv
  BY DEF Init, Backed, Exact
<1>2. TypeOK /\ Inv /\ [InSyncNext]_vars => Inv'
  BY StepBacked, StepExact
<1>3. TypeOK /\ Inv => RoomConsistent
  BY BackedIsMapImpliesMember, ExactIsNoStrayMember DEF RoomConsistent
<1>. QED
  BY TypeCorrectInSync, <1>1, <1>2, <1>3, PTL DEF InSyncSpec

-----------------------------------------------------------------------------
(* The handlers implement module Lobby when clients leave only the room they  *)
(* are in.  First: several deliveries to a stream are one.                  *)

\* What does not fit does not come to fit by what is sent after it.
LEMMA FitTwice ==
    ASSUME NEW F, NEW x \in Seq(F), NEW b \in Seq(F)
    PROVE  Fit(Fit(x) \o b) = Fit(x \o b)
<1>. DEFINE y == Fit(x)
            u == y \o b
            v == x \o b
<1>1. /\ y \in Seq(F)
      /\ Len(y) = IF Len(x) < StreamCap THEN Len(x) ELSE StreamCap
      /\ \A i \in 1 .. Len(y) : y[i] = x[i]
      /\ Len(x) <= StreamCap => y = x
  BY FitProperties
<1>. HIDE DEF y
<1>2. Len(x) \in Nat /\ Len(b) \in Nat /\ Len(y) \in Nat /\ StreamCap \in Nat
  BY <1>1, LenProperties, StreamCapAssumption
<1>3. CASE Len(x) <= StreamCap
  BY <1>1, <1>3 DEF y
<1>4. CASE ~(Len(x) <= StreamCap)
  <2>1. Len(y) = StreamCap /\ StreamCap < Len(x)
    BY <1>1, <1>2, <1>4
  <2>2. /\ u \in Seq(F) /\ Len(u) = Len(y) + Len(b)
        /\ \A i \in 1 .. Len(y) + Len(b) :
              u[i] = IF i <= Len(y) THEN y[i] ELSE b[i - Len(y)]
    BY <1>1, ConcatProperties
  <2>3. /\ v \in Seq(F) /\ Len(v) = Len(x) + Len(b)
        /\ \A i \in 1 .. Len(x) + Len(b) :
              v[i] = IF i <= Len(x) THEN x[i] ELSE b[i - Len(x)]
    BY ConcatProperties
  <2>. HIDE DEF u, v
  <2>4. ~(Len(u) < StreamCap) /\ ~(Len(v) < StreamCap)
    BY <1>2, <2>1, <2>2, <2>3
  <2>5. \A i \in 1 .. StreamCap : u[i] = y[i] /\ v[i] = x[i] /\ y[i] = x[i]
    <3>1. \A m, n, k \in Nat : \A i \in 1 .. k :
             m = k /\ k < n => /\ i \in 1 .. m /\ i <= m /\ i <= n
      OBVIOUS
    <3>2. \A m, n \in Nat : \A i \in 1 .. m : i \in 1 .. m + n
      OBVIOUS
    <3>3. \A m, n, k \in Nat : \A i \in 1 .. k : k < m => i \in 1 .. m + n
      OBVIOUS
    <3>4. ASSUME NEW i \in 1 .. StreamCap
          PROVE  /\ i \in 1 .. Len(y) /\ i <= Len(y) /\ i <= Len(x)
                 /\ i \in 1 .. Len(y) + Len(b) /\ i \in 1 .. Len(x) + Len(b)
      <4>1. i \in 1 .. Len(y) /\ i <= Len(y) /\ i <= Len(x)
        BY <1>2, <2>1, <3>1
      <4>2. i \in 1 .. Len(y) + Len(b)
        BY <1>2, <3>2, <4>1
      <4>3. i \in 1 .. Len(x) + Len(b)
        BY <1>2, <2>1, <3>3
      <4>. QED
        BY <4>1, <4>2, <4>3
    <3>5. \A i \in 1 .. StreamCap : u[i] = y[i] /\ v[i] = x[i]
      BY <2>2, <2>3, <3>4
    <3>6. \A i \in 1 .. StreamCap : y[i] = x[i]
      BY <1>1, <3>4
    <3>. QED
      BY <3>5, <3>6
  <2>6. /\ Fit(u) \in Seq(F) /\ Len(Fit(u)) = StreamCap
        /\ \A i \in 1 .. StreamCap : Fit(u)[i] = u[i]
    BY <2>2, <2>4, FitProperties
  <2>7. /\ Fit(v) \in Seq(F) /\ Len(Fit(v)) = StreamCap
        /\ \A i \in 1 .. StreamCap : Fit(v)[i] = v[i]
    BY <2>3, <2>4, FitProperties
  <2>8. Fit(u) = Fit(v)
    BY <2>5, <2>6, <2>7, SeqEqual
  <2>. QED
    BY <2>8 DEF u, v, y
<1>. QED
  BY <1>3, <1>4

\* Two deliveries are one of both; so are three of which one is empty.
LEMMA DeliverTwice ==
    ASSUME NEW F, NEW s \in Seq(F), NEW a \in Seq(F), NEW b \in Seq(F)
    PROVE  Deliver(Deliver(s, a), b) = Fit(s \o (a \o b))
<1>1. s \o a \in Seq(F) /\ (s \o a) \o b = s \o (a \o b)
  BY ConcatProperties, ConcatAssociative
<1>2. Deliver(s, a) = Fit(s \o a)
  BY DeliverIsFit
<1>3. Fit(s \o a) \in Seq(F)
  BY <1>1, FitProperties
<1>4. Deliver(Fit(s \o a), b) = Fit(Fit(s \o a) \o b)
  BY <1>3, DeliverIsFit
<1>. QED
  BY <1>1, <1>2, <1>4, FitTwice

\* Delivering nothing after a delivery changes nothing.
LEMMA DeliverNothing ==
    ASSUME NEW F, NEW s \in Seq(F), NEW a \in Seq(F)
    PROVE  Deliver(Deliver(s, a), <<>>) = Deliver(s, a)
<1>1. <<>> \in Seq(F) /\ a \o <<>> = a
  BY EmptySeq, ConcatEmptySeq
<1>2. Deliver(Deliver(s, a), <<>>) = Fit(s \o (a \o <<>>))
  BY <1>1, DeliverTwice
<1>. QED
  BY <1>1, <1>2, DeliverIsFit

-----------------------------------------------------------------------------
(* Member lists: a client is once on the list of its room and on no other.  *)

RoomIn(m, c) == IF c \in DOMAIN m THEN m[c] ELSE NoRoom

\* In consistent maps a client occurs once in its room, and nowhere else.
LEMMA OnceInRoom ==
    ASSUME NEW rs, RoomsType(rs), NEW m, MapType(m), Backed(rs, m), Exact(rs, m),
           NEW q \in RoomName, NoRoom \notin RoomName, NEW d \in Client
    PROVE  Occurrences(Members(rs, q), d) = IF RoomIn(m, d) = q THEN 1 ELSE 0
<1>. DEFINE l == Members(rs, q)
            S == {i \in 1 .. Len(l) : l[i] = d}
<1>1. CASE RoomIn(m, d) = q
  <2>1. d \in DOMAIN m /\ m[d] = q
    BY <1>1 DEF RoomIn
  <2>2. PICK i \in 1 .. Len(l) : l[i] = d
    BY <2>1 DEF Backed, Lists
  <2>3. q \in DOMAIN rs /\ l = rs[q]
    BY <2>2, EmptySeq DEF Members
  <2>4. \A j \in 1 .. Len(l) : l[j] = d => j = i
    BY <2>2, <2>3 DEF Exact
  <2>5. S = {i}
    BY <2>2, <2>4
  <2>. QED
    BY <1>1, <2>5, FS_Singleton DEF Occurrences
<1>2. CASE RoomIn(m, d) # q
  <2>1. ASSUME NEW i \in 1 .. Len(l), l[i] = d PROVE FALSE
    <3>1. q \in DOMAIN rs /\ l = rs[q]
      BY <2>1, EmptySeq DEF Members
    <3>2. d \in DOMAIN m /\ m[d] = q
      BY <2>1, <3>1 DEF Exact
    <3>. QED
      BY <1>2, <3>2 DEF RoomIn
  <2>2. S = {}
    BY <2>1
  <2>. QED
    BY <1>2, <2>2, FS_EmptySet DEF Occurrences
<1>. QED
  BY <1>1, <1>2

\* One copy is the frame, none is nothing.
LEMMA CopiesOneOrNone ==
    ASSUME NEW f
    PROVE  Copies(f, 1) = <<f>> /\ Copies(f, 0) = <<>>
BY DEF Copies

-----------------------------------------------------------------------------
(* Each handler does what the lobby does.                                   *)

Consistent(rs, m) == RoomsType(rs) /\ MapType(m) /\ Backed(rs, m) /\ Exact(rs, m)

SInv == TypeOK /\ Backed(rooms, clientToRoomMap) /\ Exact(rooms, clientToRoomMap)

\* A step that delivers fs[d] to every client d posts fs.
LEMMA PostsFrames ==
    ASSUME TypeOK, TypeOK', NEW fs \in [Client -> Seq(Frame)],
           \A d \in Client : toClient'[d] = IF live[d] THEN Fit(toClient[d] \o fs[d])
                                           ELSE toClient[d]
    PROVE  LobbySpec!Post(fs)
<1>1. toClient' \in [Client -> Seq(Frame)]
  BY DEF TypeOK, Frame, RoomOrNone
<1>2. toClient' = [d \in Client |-> toClient'[d]]
  BY <1>1
<1>. QED
  BY <1>2 DEF LobbySpec!Post, Fit

\* The notices of a leave, sent when the client is off the list already: one to
\* the client and one to each client still in the room.
LEMMA NoticesOnce ==
    ASSUME TypeOK, NoRoom \notin RoomName, NEW rs, NEW m, Consistent(rs, m),
           NEW c \in Client, c \notin DOMAIN m, NEW r \in RoomName, NEW n \in Name,
           NEW d \in Client
    PROVE  LeaveNotices(rs, c, r, n)[d] =
              IF live[d]
              THEN Deliver(toClient[d], IF d = c \/ RoomIn(m, d) = r
                                        THEN <<PacketLeaveRoom(r, n)>> ELSE <<>>)
              ELSE toClient[d]
<1>. DEFINE L == PacketLeaveRoom(r, n)
            sent == SendToClient(toClient, c, L)
            k == Occurrences(Members(rs, r), d)
<1>1. toClient \in [Client -> Seq(Frame)] /\ L \in Frame
  BY DEF TypeOK, Frame, RoomFrame, PacketLeaveRoom, RoomOrNone
<1>. HIDE DEF L
<1>2. k = IF RoomIn(m, d) = r THEN 1 ELSE 0
  BY OnceInRoom DEF Consistent
<1>3. LeaveNotices(rs, c, r, n)[d] = IF live[d] THEN Deliver(sent[d], Copies(L, k)) ELSE sent[d]
  BY DEF LeaveNotices, Broadcast, L
<1>4. sent[d] = IF d = c /\ live[d] THEN Deliver(toClient[d], <<L>>) ELSE toClient[d]
  BY <1>1 DEF SendToClient
<1>. HIDE DEF sent, k
<1>5. CASE d = c /\ live[d]
  <2>1. k = 0 /\ Copies(L, k) = <<>>
    BY <1>2, <1>5, CopiesOneOrNone DEF RoomIn
  <2>2. toClient[d] \in Seq(Frame) /\ <<L>> \in Seq(Frame)
    BY <1>1
  <2>3. Deliver(Deliver(toClient[d], <<L>>), <<>>) = Deliver(toClient[d], <<L>>)
    BY <2>2, DeliverNothing
  <2>. QED
    BY <1>3, <1>4, <1>5, <2>1, <2>3 DEF L
<1>6. CASE d # c /\ live[d]
  <2>1. Copies(L, k) = IF RoomIn(m, d) = r THEN <<L>> ELSE <<>>
    BY <1>2, CopiesOneOrNone
  <2>. QED
    BY <1>3, <1>4, <1>6, <2>1 DEF L
<1>7. CASE ~live[d]
  BY <1>3, <1>4, <1>7
<1>. QED
  BY <1>5, <1>6, <1>7

\* Taking a client out of its room leaves consistent maps without it.
LEMMA ErasedConsistent ==
    ASSUME NEW rs, NEW m, Consistent(rs, m), NEW c \in DOMAIN m
    PROVE  /\ Consistent(EraseMember(rs, c, m[c]), EraseEntry(m, c))
           /\ c \notin DOMAIN EraseEntry(m, c)
           /\ \A d : RoomIn(EraseEntry(m, c), d) = IF d = c THEN NoRoom ELSE RoomIn(m, d)
<1>1. c \in Client /\ m[c] \in RoomName
  BY DEF Consistent, MapType
<1>2. RoomsType(EraseMember(rs, c, m[c])) /\ MapType(EraseEntry(m, c))
  BY <1>1, EraseMemberType, EntryType DEF Consistent
<1>3. Backed(EraseMember(rs, c, m[c]), EraseEntry(m, c))
  BY <1>1, EraseKeepsBacked DEF Consistent
<1>4. Exact(EraseMember(rs, c, m[c]), EraseEntry(m, c))
  BY EraseKeepsExact DEF Consistent
<1>. QED
  BY <1>2, <1>3, <1>4 DEF Consistent, EraseEntry, RoomIn

\* LeaveRoom is the lobby's Exit.
LEMMA LeaveIsExit ==
    ASSUME SInv, TypeOK', NoRoom \notin RoomName, NEW c \in Client, NEW n \in Name,
           FindClientRoom(c) # NoRoom, HandleLeaveRoom(c, FindClientRoom(c), n)
    PROVE  LobbySpec!Exit(c, n)
<1>. DEFINE m == clientToRoomMap
            r == m[c]
            room == [d \in Client |-> FindClientRoom(d)]
            fs == [d \in Client |-> IF d = c \/ (room[c] # NoRoom /\ room[d] = room[c])
                                    THEN <<PacketLeaveRoom(room[c], n)>> ELSE <<>>]
<1>1. c \in DOMAIN m /\ FindClientRoom(c) = r
  BY DEF FindClientRoom
<1>2. Consistent(rooms, m) /\ r \in RoomName
  BY <1>1 DEF SInv, TypeOK, Consistent, RoomsType, MapType
<1>3. /\ rooms' = EraseMember(rooms, c, r)
      /\ clientToRoomMap' = EraseEntry(m, c)
      /\ toClient' = LeaveNotices(rooms', c, r, n)
      /\ UNCHANGED <<name, live>>
  BY <1>1 DEF HandleLeaveRoom, LeaveRoom
<1>4. /\ Consistent(rooms', clientToRoomMap') /\ c \notin DOMAIN clientToRoomMap'
      /\ \A d : RoomIn(clientToRoomMap', d) = IF d = c THEN NoRoom ELSE RoomIn(m, d)
  BY <1>1, <1>2, <1>3, ErasedConsistent
<1>5. \A d \in Client : room[d] = RoomIn(m, d) /\ room'[d] = RoomIn(clientToRoomMap', d)
  BY DEF FindClientRoom, RoomIn
<1>6. room' = [room EXCEPT ![c] = NoRoom]
  BY <1>4, <1>5
<1>7. room[c] = r /\ r # NoRoom
  BY <1>1, <1>2
<1>8. fs \in [Client -> Seq(Frame)] /\ toClient \in [Client -> Seq(Frame)]
  <2>1. PacketLeaveRoom(r, n) \in Frame
    BY <1>2 DEF Frame, RoomFrame, PacketLeaveRoom, RoomOrNone
  <2>. QED
    BY <1>7, <2>1, EmptySeq DEF SInv, TypeOK, Frame
<1>9. ASSUME NEW d \in Client
      PROVE  toClient'[d] = IF live[d] THEN Fit(toClient[d] \o fs[d]) ELSE toClient[d]
  <2>1. fs[d] = IF d = c \/ RoomIn(clientToRoomMap', d) = r
                THEN <<PacketLeaveRoom(r, n)>> ELSE <<>>
    BY <1>4, <1>5, <1>7
  <2>. HIDE DEF fs
  <2>2. toClient'[d] = IF live[d] THEN Deliver(toClient[d], fs[d]) ELSE toClient[d]
    BY <1>2, <1>3, <1>4, <2>1, NoticesOnce DEF SInv
  <2>3. Deliver(toClient[d], fs[d]) = Fit(toClient[d] \o fs[d])
    BY <1>8, DeliverIsFit
  <2>. QED
    BY <2>2, <2>3
<1>10. LobbySpec!Post(fs)
  BY <1>8, <1>9, PostsFrames DEF SInv
<1>. QED
  BY <1>3, <1>6, <1>7, <1>10 DEF LobbySpec!Exit, LobbySpec!In

\* What JoinRoom keeps of the maps is consistent and does not know the client.
LEMMA WithoutConsistent ==
    ASSUME SInv, NoRoom \notin RoomName, NEW c \in Client
    PROVE  /\ Consistent(RoomsWithout(c), MapWithout(c))
           /\ c \notin DOMAIN MapWithout(c)
           /\ \A d : RoomIn(MapWithout(c), d)
                         = IF d = c THEN NoRoom ELSE RoomIn(clientToRoomMap, d)
<1>1. Consistent(rooms, clientToRoomMap)
  BY DEF SInv, TypeOK, Consistent, RoomsType, MapType
<1>2. CASE FindClientRoom(c) = NoRoom
  <2>1. c \notin DOMAIN clientToRoomMap
    BY <1>1, <1>2 DEF FindClientRoom, Consistent, MapType
  <2>. QED
    BY <1>1, <1>2, <2>1 DEF RoomsWithout, MapWithout, RoomIn
<1>3. CASE FindClientRoom(c) # NoRoom
  <2>1. c \in DOMAIN clientToRoomMap /\ FindClientRoom(c) = clientToRoomMap[c]
    BY <1>3 DEF FindClientRoom
  <2>. QED
    BY <1>1, <1>3, <2>1, ErasedConsistent DEF RoomsWithout, MapWithout
<1>. QED
  BY <1>2, <1>3

\* Putting a client without an entry into a room keeps the maps consistent.
LEMMA PushedConsistent ==
    ASSUME NEW rs, NEW m, Consistent(rs, m), NEW c \in Client, c \notin DOMAIN m,
           NEW r \in RoomName
    PROVE  /\ Consistent(PushMember(rs, c, r), InsertEntry(m, c, r))
           /\ \A d : RoomIn(InsertEntry(m, c, r), d) = IF d = c THEN r ELSE RoomIn(m, d)
<1>1. RoomsType(PushMember(rs, c, r)) /\ MapType(InsertEntry(m, c, r))
  BY PushMemberType, EntryType DEF Consistent
<1>2. Backed(PushMember(rs, c, r), InsertEntry(m, c, r))
  BY InsertKeepsBacked DEF Consistent
<1>3. Exact(PushMember(rs, c, r), InsertEntry(m, c, r))
  BY PushKeepsExact DEF Consistent
<1>. QED
  BY <1>1, <1>2, <1>3 DEF Consistent, InsertEntry, RoomIn

\* Frames sent after the notices of the leave that JoinRoom begins with.
LEMMA AfterNotices ==
    ASSUME SInv, NoRoom \notin RoomName, NEW c \in Client, NEW n \in Name,
           NEW d \in Client, live[d], NEW b \in Seq(Frame)
    PROVE  Deliver(StreamsWithout(c, n)[d], b)
               = Fit(toClient[d] \o
                     ((IF /\ FindClientRoom(c) # NoRoom
                          /\ d = c \/ FindClientRoom(d) = FindClientRoom(c)
                       THEN <<PacketLeaveRoom(FindClientRoom(c), n)>> ELSE <<>>) \o b))
<1>. DEFINE r == FindClientRoom(c)
            L == PacketLeaveRoom(r, n)
            a == IF r # NoRoom /\ (d = c \/ FindClientRoom(d) = r) THEN <<L>> ELSE <<>>
            rs == RoomsWithout(c)
            m == MapWithout(c)
<1>1. toClient[d] \in Seq(Frame) /\ r \in RoomOrNone
  BY DEF SInv, TypeOK, Frame, FindClientRoom, RoomOrNone
<1>2. a \in Seq(Frame)
  <2>1. L \in Frame
    BY <1>1 DEF Frame, RoomFrame, PacketLeaveRoom
  <2>. HIDE DEF L
  <2>. QED
    BY <2>1, EmptySeq
<1>3. CASE r = NoRoom
  <2>1. StreamsWithout(c, n) = toClient /\ a = <<>> /\ <<>> \o b = b
    BY <1>3, ConcatEmptySeq DEF StreamsWithout
  <2>. QED
    BY <1>1, <2>1, DeliverIsFit
<1>4. CASE r # NoRoom
  <2>1. r \in RoomName
    BY <1>1, <1>4 DEF RoomOrNone
  <2>2. /\ Consistent(rs, m) /\ c \notin DOMAIN m
        /\ RoomIn(m, d) = IF d = c THEN NoRoom ELSE FindClientRoom(d)
    BY WithoutConsistent DEF RoomIn, FindClientRoom
  <2>3. StreamsWithout(c, n)[d] = LeaveNotices(rs, c, r, n)[d]
    BY <1>4 DEF StreamsWithout
  <2>4. a = IF d = c \/ RoomIn(m, d) = r THEN <<L>> ELSE <<>>
    BY <1>4, <2>2
  <2>. HIDE DEF rs, m, r
  <2>5. LeaveNotices(rs, c, r, n)[d]
            = Deliver(toClient[d], IF d = c \/ RoomIn(m, d) = r THEN <<L>> ELSE <<>>)
    BY <2>1, <2>2, NoticesOnce DEF SInv
  <2>6. StreamsWithout(c, n)[d] = Deliver(toClient[d], a)
    BY <2>3, <2>4, <2>5
  <2>. HIDE DEF a
  <2>7. Deliver(StreamsWithout(c, n)[d], b) = Fit(toClient[d] \o (a \o b))
    BY <1>1, <1>2, <2>6, DeliverTwice
  <2>. QED
    BY <2>7 DEF a, r
<1>. QED
  BY <1>3, <1>4

\* JoinRoom is the lobby's Enter.
LEMMA JoinIsEnter ==
    ASSUME SInv, TypeOK', NoRoom \notin RoomName, NEW c \in Client,
           NEW r \in RoomName, NEW n \in Name, HandleJoinRoom(c, r, n)
    PROVE  LobbySpec!Enter(c, r, n)
<1>. DEFINE rs == RoomsWithout(c)
            m == MapWithout(c)
            room == [d \in Client |-> FindClientRoom(d)]
            J == PacketJoinRoom(r, n)
            a(d) == IF room[c] # NoRoom /\ (d = c \/ (room[c] # NoRoom /\ room[d] = room[c]))
                    THEN <<PacketLeaveRoom(room[c], n)>> ELSE <<>>
            b(d) == IF d = c \/ (r # NoRoom /\ room[d] = r) THEN <<J>> ELSE <<>>
            fs == [d \in Client |-> a(d) \o b(d)]
<1>1. /\ rooms' = PushMember(rs, c, r)
      /\ clientToRoomMap' = InsertEntry(m, c, r)
      /\ name' = [name EXCEPT ![c] = n]
      /\ toClient' = Broadcast(StreamsWithout(c, n), Members(rooms', r), J)
      /\ live' = live
  BY DEF HandleJoinRoom, JoinRoom
<1>2. /\ Consistent(rs, m) /\ c \notin DOMAIN m
      /\ \A d : RoomIn(m, d) = IF d = c THEN NoRoom ELSE RoomIn(clientToRoomMap, d)
  BY WithoutConsistent
<1>. HIDE DEF rs, m
<1>3. /\ Consistent(rooms', clientToRoomMap')
      /\ \A d : RoomIn(clientToRoomMap', d) = IF d = c THEN r ELSE RoomIn(m, d)
  BY <1>1, <1>2, PushedConsistent
<1>4. \A d \in Client : room[d] = RoomIn(clientToRoomMap, d)
                        /\ room'[d] = RoomIn(clientToRoomMap', d)
  BY DEF FindClientRoom, RoomIn
<1>5. room' = [room EXCEPT ![c] = r]
  BY <1>2, <1>3, <1>4
<1>6. r # NoRoom /\ J \in Frame /\ \A d \in Client : FindClientRoom(d) \in RoomOrNone
  BY DEF SInv, TypeOK, Frame, RoomFrame, PacketJoinRoom, RoomOrNone, FindClientRoom
<1>. HIDE DEF J
<1>7. ASSUME NEW d \in Client
      PROVE  /\ fs[d] \in Seq(Frame)
             /\ toClient'[d] = IF live[d] THEN Fit(toClient[d] \o fs[d]) ELSE toClient[d]
  <2>1. b(d) \in Seq(Frame)
    BY <1>6, EmptySeq
  <2>2. a(d) \in Seq(Frame)
    <3>1. PacketLeaveRoom(room[c], n) \in Frame
      BY <1>6 DEF Frame, RoomFrame, PacketLeaveRoom
    <3>. QED
      BY <3>1, EmptySeq
  <2>3. fs[d] = a(d) \o b(d)
    OBVIOUS
  <2>4. a(d) = IF /\ FindClientRoom(c) # NoRoom
                  /\ d = c \/ FindClientRoom(d) = FindClientRoom(c)
               THEN <<PacketLeaveRoom(FindClientRoom(c), n)>> ELSE <<>>
    OBVIOUS
  <2>5. fs[d] \in Seq(Frame)
    <3>. HIDE DEF a, b, fs
    <3>. QED
      BY <2>1, <2>2, <2>3, ConcatProperties
  <2>6. CASE live[d]
    <3>. DEFINE k == Occurrences(Members(rooms', r), d)
    <3>1. k = IF RoomIn(clientToRoomMap', d) = r THEN 1 ELSE 0
      BY <1>3, OnceInRoom DEF Consistent
    <3>2. RoomIn(clientToRoomMap', d) = r <=> (d = c \/ room[d] = r)
      BY <1>2, <1>3, <1>4
    <3>. HIDE DEF k, room
    <3>3. Copies(J, k) = b(d)
      BY <1>6, <3>1, <3>2, CopiesOneOrNone
    <3>4. toClient'[d] = Deliver(StreamsWithout(c, n)[d], Copies(J, k))
      BY <1>1, <2>6 DEF Broadcast, k
    <3>. HIDE DEF a, b, fs
    <3>5. Deliver(StreamsWithout(c, n)[d], b(d)) = Fit(toClient[d] \o (a(d) \o b(d)))
      BY <2>1, <2>4, <2>6, AfterNotices
    <3>. QED
      BY <2>3, <2>6, <2>5, <3>3, <3>4, <3>5
  <2>7. CASE ~live[d]
    <3>1. toClient'[d] = StreamsWithout(c, n)[d]
      BY <1>1, <2>7 DEF Broadcast
    <3>2. StreamsWithout(c, n)[d] = toClient[d]
      BY <2>7 DEF StreamsWithout, LeaveNotices, Broadcast, SendToClient, SInv, TypeOK
    <3>. QED
      BY <2>7, <2>5, <3>1, <3>2
  <2>. QED
    BY <2>6, <2>7
<1>8. fs \in [Client -> Seq(Frame)]
  BY <1>7
<1>9. LobbySpec!Post(fs)
  <2>. HIDE DEF fs
  <2>. QED
    BY <1>7, <1>8, PostsFrames DEF SInv
<1>. QED
  BY <1>1, <1>5, <1>9 DEF LobbySpec!Enter, LobbySpec!In, J

\* No stream holds more than StreamCap frames.
Short == \A c \in Client : Len(toClient[c]) <= StreamCap

\* What is delivered is short.
LEMMA DeliverIsShort ==
    ASSUME NEW F, NEW s \in Seq(F), NEW fs \in Seq(F)
    PROVE  Len(Deliver(s, fs)) <= StreamCap
<1>. DEFINE x == s \o fs
<1>1. x \in Seq(F) /\ Deliver(s, fs) = Fit(x)
  BY ConcatProperties, DeliverIsFit
<1>. HIDE DEF x
<1>2. Len(Fit(x)) = IF Len(x) < StreamCap THEN Len(x) ELSE StreamCap
  BY <1>1, FitProperties
<1>3. Len(x) \in Nat /\ StreamCap \in Nat
  BY <1>1, LenProperties, StreamCapAssumption
<1>. QED
  BY <1>1, <1>2, <1>3

\* A message of a client to its room is the lobby's Say.
LEMMA MessageIsSay ==
    ASSUME SInv, TypeOK', Short, NoRoom \notin RoomName, NEW c \in Client,
           NEW msg \in Message, SendMessage(c, msg), live' = live
    PROVE  LobbySpec!Say(c, msg)
<1>. DEFINE m == clientToRoomMap
            r == FindClientRoom(c)
            room == [d \in Client |-> FindClientRoom(d)]
            f == PacketReceiveMessage(name[c], msg)
            fs == [d \in Client |-> IF d # c /\ (room[c] # NoRoom /\ room[d] = room[c])
                                    THEN <<f>> ELSE <<>>]
            k(d) == Occurrences(rooms[r], d)
<1>1. Consistent(rooms, m) /\ r \in DOMAIN rooms /\ r \in RoomName
  BY DEF SInv, TypeOK, Consistent, RoomsType, MapType, SendMessage
<1>2. Members(rooms, r) = rooms[r] /\ r # NoRoom /\ room[c] = r
  BY <1>1 DEF Members
<1>3. \A d \in Client : room[d] = RoomIn(m, d)
  BY DEF FindClientRoom, RoomIn
<1>4. toClient \in [Client -> Seq(Frame)] /\ f \in Frame
  BY DEF SInv, TypeOK, Frame, RoomFrame, PacketReceiveMessage
<1>. HIDE DEF f
<1>5. fs \in [Client -> Seq(Frame)]
  BY <1>4, EmptySeq
<1>6. toClient' = [d \in Client |-> IF live[d] /\ d # c
                                    THEN Deliver(toClient[d], Copies(f, k(d)))
                                    ELSE toClient[d]]
  BY DEF SendMessage, BroadcastExclude, f
<1>7. ASSUME NEW d \in Client
      PROVE  toClient'[d] = IF live[d] THEN Fit(toClient[d] \o fs[d]) ELSE toClient[d]
  <2>1. k(d) = IF room[d] = r THEN 1 ELSE 0
    <3>1. Occurrences(Members(rooms, r), d) = IF RoomIn(m, d) = r THEN 1 ELSE 0
      BY <1>1, OnceInRoom DEF Consistent
    <3>. QED
      BY <1>2, <1>3, <3>1
  <2>2. CASE live[d] /\ d # c
    <3>1. fs[d] = IF room[d] = r THEN <<f>> ELSE <<>>
      BY <1>2, <2>2
    <3>. HIDE DEF k, room, fs
    <3>2. Copies(f, k(d)) = fs[d]
      BY <2>1, <3>1, CopiesOneOrNone
    <3>3. Deliver(toClient[d], fs[d]) = Fit(toClient[d] \o fs[d])
      BY <1>4, <1>5, DeliverIsFit
    <3>. QED
      BY <1>6, <2>2, <3>2, <3>3
  <2>3. CASE live[d] /\ d = c
    <3>1. fs[d] = <<>> /\ toClient'[d] = toClient[d]
      BY <1>6, <2>3
    <3>. HIDE DEF fs
    <3>2. toClient[d] \in Seq(Frame) /\ Len(toClient[d]) <= StreamCap
      BY <1>4 DEF Short
    <3>3. toClient[d] \o fs[d] = toClient[d] /\ Fit(toClient[d]) = toClient[d]
      BY <3>1, <3>2, ConcatEmptySeq, FitProperties
    <3>. QED
      BY <2>3, <3>1, <3>3
  <2>4. CASE ~live[d]
    BY <1>6, <2>4
  <2>. QED
    BY <2>2, <2>3, <2>4
<1>8. LobbySpec!Post(fs)
  <2>. HIDE DEF fs
  <2>. QED
    BY <1>5, <1>7, PostsFrames DEF SInv
<1>9. room' = room
  BY DEF SendMessage, FindClientRoom
<1>. QED
  BY <1>8, <1>9 DEF SendMessage, LobbySpec!Say, LobbySpec!In, f

\* What a client receives it takes out of its inbox.
LEMMA RecvIsTake ==
    ASSUME TypeOK, NEW c \in Client, ClientRecv(c)
    PROVE  LobbySpec!Take(c)
<1>1. PICK k \in RecvCounts(toClient[c]) :
          toClient' = [toClient EXCEPT ![c] = AfterRecv(@, k)]
  BY DEF ClientRecv
<1>2. toClient[c] \in Seq(Frame) /\ toClient[c] # <<>>
  BY DEF TypeOK, ClientRecv, Frame
<1>3. k \in 1 .. Len(toClient[c])
  BY <1>1, <1>2, LenProperties, EmptySeq DEF RecvCounts
<1>4. toClient' = [toClient EXCEPT ![c] = SubSeq(@, k + 1, Len(@))]
  BY <1>1 DEF AfterRecv
<1>5. [d \in Client |-> FindClientRoom(d)]' = [d \in Client |-> FindClientRoom(d)]
  BY DEF ClientRecv, FindClientRoom
<1>. QED
  BY <1>3, <1>4, <1>5 DEF ClientRecv, LobbySpec!Take

\* A broadcast leaves short streams, if those of absent clients were short.
LEMMA BroadcastShort ==
    ASSUME NEW streams \in [Client -> Seq(Frame)], NEW l \in Seq(Client),
           NEW f \in Frame, \A d \in Client : ~live[d] => Len(streams[d]) <= StreamCap
    PROVE  \A d \in Client : Len(Broadcast(streams, l, f)[d]) <= StreamCap
<1>. SUFFICES ASSUME NEW d \in Client
              PROVE  Len(Broadcast(streams, l, f)[d]) <= StreamCap
  OBVIOUS
<1>1. CASE live[d]
  <2>1. Copies(f, Occurrences(l, d)) \in Seq(Frame)
    BY OccurrencesType, CopiesType
  <2>2. Len(Deliver(streams[d], Copies(f, Occurrences(l, d)))) <= StreamCap
    BY <2>1, DeliverIsShort
  <2>. QED
    BY <1>1, <2>2 DEF Broadcast
<1>2. CASE ~live[d]
  BY <1>2 DEF Broadcast
<1>. QED
  BY <1>1, <1>2

\* A step of in-sync clients keeps the streams short.
LEMMA StepShort ==
    ASSUME TypeOK, Short, [InSyncNext]_vars
    PROVE  Short'
<1>1. toClient \in [Client -> Seq(Frame)]
  BY DEF TypeOK, Frame
<1>2. RoomsType(rooms) /\ \A d : FindClientRoom(d) \in RoomOrNone \/ d \notin Client
  BY DEF TypeOK, RoomsType, RoomOrNone, FindClientRoom
<1>3. ASSUME NEW c \in Client, NEW r \in RoomOrNone, NEW n \in Name, NEW rs, RoomsType(rs)
      PROVE  \A d \in Client : Len(LeaveNotices(rs, c, r, n)[d]) <= StreamCap
  <2>. DEFINE f == PacketLeaveRoom(r, n)
              sent == SendToClient(toClient, c, f)
              l == Members(rs, r)
  <2>1. f \in Frame /\ l \in Seq(Client)
    BY <1>3, MembersType DEF PacketLeaveRoom, Frame, RoomFrame
  <2>2. LeaveNotices(rs, c, r, n) = Broadcast(sent, l, f)
    BY DEF LeaveNotices
  <2>. HIDE DEF f, l
  <2>3. sent \in [Client -> Seq(Frame)]
    BY <1>1, <2>1, SendType
  <2>4. \A d \in Client : ~live[d] => sent[d] = toClient[d]
    BY <1>1 DEF SendToClient
  <2>. HIDE DEF sent
  <2>. QED
    BY <2>1, <2>2, <2>3, <2>4, BroadcastShort DEF Short
<1>4. ASSUME NEW c \in Client, NEW r \in RoomName, NEW n \in Name, HandleJoinRoom(c, r, n)
      PROVE  Short'
  <2>. DEFINE f == PacketJoinRoom(r, n)
              streams == StreamsWithout(c, n)
              l == Members(PushMember(RoomsWithout(c), c, r), r)
  <2>1. f \in Frame /\ l \in Seq(Client) /\ streams \in [Client -> Seq(Frame)]
    BY WithoutType, PushMemberType, MembersType
       DEF PacketJoinRoom, Frame, RoomFrame, RoomOrNone
  <2>2. toClient' = Broadcast(streams, l, f)
    BY <1>4 DEF HandleJoinRoom, JoinRoom
  <2>3. \A d \in Client : Len(streams[d]) <= StreamCap
    BY <1>2, <1>3, WithoutType DEF StreamsWithout, Short
  <2>. HIDE DEF f, l, streams
  <2>. QED
    BY <2>1, <2>2, <2>3, BroadcastShort DEF Short
<1>5. ASSUME NEW c \in Client, NEW n \in Name, HandleLeaveRoom(c, FindClientRoom(c), n)
      PROVE  Short'
  <2>1. RoomsType(rooms') /\ toClient' = LeaveNotices(rooms', c, FindClientRoom(c), n)
    BY <1>2, <1>5, EraseMemberType DEF HandleLeaveRoom, LeaveRoom
  <2>. QED
    BY <1>2, <1>3, <2>1 DEF Short
<1>6. ASSUME NEW c \in Client, NEW msg \in Message, SendMessage(c, msg)
      PROVE  Short'
  <2>. DEFINE f == PacketReceiveMessage(name[c], msg)
              l == rooms[FindClientRoom(c)]
  <2>1. f \in Frame /\ l \in Seq(Client)
    BY <1>6 DEF SendMessage, TypeOK, PacketReceiveMessage, Frame, RoomFrame
  <2>2. toClient' = BroadcastExclude(toClient, l, c, f)
    BY <1>6 DEF SendMessage
  <2>. HIDE DEF f, l
  <2>3. ASSUME NEW d \in Client
        PROVE  Len(toClient'[d]) <= StreamCap
    <3>1. Copies(f, Occurrences(l, d)) \in Seq(Frame)
      BY <2>1, OccurrencesType, CopiesType
    <3>2. Len(Deliver(toClient[d], Copies(f, Occurrences(l, d)))) <= StreamCap
      BY <1>1, <3>1, DeliverIsShort
    <3>. QED
      BY <2>2, <3>2 DEF BroadcastExclude, Short
  <2>. QED
    BY <2>3 DEF Short
<1>7. ASSUME NEW c \in Client, ClientRecv(c)
      PROVE  Short'
  <2>1. PICK k \in 1 .. Len(toClient[c]) :
            toClient' = [toClient EXCEPT ![c] = SubSeq(@, k + 1, Len(@))]
    BY <1>7, RecvIsTake DEF LobbySpec!Take
  <2>. DEFINE s == toClient[c]
  <2>2. s \in Seq(Frame) /\ Len(s) \in Nat /\ \A i \in 1 .. Len(s) : s[i] \in Frame
    BY <1>1, LenProperties, ElementOfSeq
  <2>. HIDE DEF s
  <2>3. k + 1 \in Int /\ Len(s) \in Int /\ \A i \in k + 1 .. Len(s) : s[i] \in Frame
    BY <2>1, <2>2 DEF s
  <2>4. Len(SubSeq(s, k + 1, Len(s))) = IF k + 1 <= Len(s) THEN Len(s) - (k + 1) + 1 ELSE 0
    BY <2>2, <2>3, SubSeqProperties
  <2>5. Len(SubSeq(s, k + 1, Len(s))) <= Len(s)
    BY <2>1, <2>2, <2>4
  <2>6. Len(s) <= StreamCap /\ StreamCap \in Nat
    BY StreamCapAssumption DEF Short, s
  <2>7. Len(SubSeq(s, k + 1, Len(s))) <= StreamCap
    <3>1. Len(SubSeq(s, k + 1, Len(s))) \in Nat
      BY <2>1, <2>2, <2>4
    <3>. QED
      BY <2>2, <2>5, <2>6, <3>1
  <2>8. \A d \in Client : toClient'[d] = IF d = c THEN SubSeq(s, k + 1, Len(s)) ELSE toClient[d]
    BY <1>1, <2>1 DEF s
  <2>. QED
    BY <2>7, <2>8 DEF Short
<1>8. ASSUME NEW c \in Client, Disconnect(c)
      PROVE  Short'
  <2>1. Len(<<>>) = 0 /\ StreamCap \in Nat
    BY StreamCapAssumption
  <2>. QED
    BY <1>1, <1>8, <2>1 DEF Disconnect, Short
<1>9. ASSUME toClient' = toClient
      PROVE  Short'
  BY <1>9 DEF Short
<1>10. ASSUME NEW c \in Client, ClientStep(c)
       PROVE  Short'
  BY <1>4, <1>6, <1>7, <1>8, <1>9, <1>10 DEF ClientStep, HandleSendMessage,
     SendMessageRoomNotFound, roomVars
<1>. QED
  BY <1>5, <1>9, <1>10 DEF InSyncNext, vars

\* Every step of in-sync clients is a step of the lobby or changes nothing in it.
LEMMA StepIsLobbyStep ==
    ASSUME SInv, TypeOK', Short, NoRoom \notin RoomName, [InSyncNext]_vars
    PROVE  [LobbySpec!Next]_LobbySpec!vars
<1>1. ASSUME NEW c \in Client, ClientStep(c)
      PROVE  [LobbySpec!Next]_LobbySpec!vars
  <2>1. CASE \E r \in RoomName, n \in Name : HandleJoinRoom(c, r, n)
    BY <2>1, JoinIsEnter DEF LobbySpec!Next
  <2>2. CASE HandleSendMessage(c)
    <3>1. live' = live
      BY <2>2 DEF HandleSendMessage
    <3>2. CASE \E msg \in Message : SendMessage(c, msg)
      BY <3>1, <3>2, MessageIsSay DEF LobbySpec!Next
    <3>3. CASE SendMessageRoomNotFound(c)
      BY <3>1, <3>3 DEF SendMessageRoomNotFound, roomVars, LobbySpec!vars, FindClientRoom
    <3>. QED
      BY <2>2, <3>2, <3>3 DEF HandleSendMessage
  <2>3. CASE ClientRecv(c)
    BY <2>3, RecvIsTake DEF LobbySpec!Next, SInv
  <2>4. CASE Disconnect(c)
    BY <2>4 DEF Disconnect, LobbySpec!Next, LobbySpec!Vanish, FindClientRoom
  <2>. QED
    BY <1>1, <2>1, <2>2, <2>3, <2>4 DEF ClientStep
<1>2. ASSUME NEW c \in Client, NEW n \in Name, FindClientRoom(c) # NoRoom,
             HandleLeaveRoom(c, FindClientRoom(c), n)
      PROVE  [LobbySpec!Next]_LobbySpec!vars
  BY <1>2, LeaveIsExit DEF LobbySpec!Next
<1>3. CASE UNCHANGED vars
  BY <1>3 DEF vars, LobbySpec!vars, FindClientRoom
<1>. QED
  BY <1>1, <1>2, <1>3 DEF InSyncNext

(* When clients leave only the room they are in and no room has the empty     *)
(* name, the handlers of Server.cpp:402-513 implement the lobby: a client is  *)
(* in one room at a time, and every notice and every message reaches each    *)
(* client it is for exactly once, in order, and nobody else.                 *)
THEOREM RoomsImplementLobby ==
    ASSUME NoRoom \notin RoomName
    PROVE  InSyncSpec => ImplementsLobby
<1>. DEFINE Maps == Backed(rooms, clientToRoomMap) /\ Exact(rooms, clientToRoomMap)
            LobbyStep == [LobbySpec!Next]_LobbySpec!vars
<1>1. Init => Maps /\ Short /\ LobbySpec!Init
  <2>1. Len(<<>>) = 0 /\ 0 <= StreamCap
    BY StreamCapAssumption
  <2>. QED
    BY <2>1 DEF Init, Backed, Exact, Short, LobbySpec!Init, FindClientRoom
<1>2. TypeOK /\ Maps /\ [InSyncNext]_vars => Maps'
  BY StepBacked, StepExact
<1>3. TypeOK /\ Short /\ [InSyncNext]_vars => Short'
  BY StepShort
<1>4. TypeOK /\ TypeOK' /\ Maps /\ Short /\ [InSyncNext]_vars => LobbyStep
  BY StepIsLobbyStep DEF SInv
<1>. HIDE DEF Maps
<1>. QED
  BY TypeCorrectInSync, <1>1, <1>2, <1>3, <1>4, PTL
     DEF InSyncSpec, ImplementsLobby, LobbySpec!Spec
=============================================================================
