------------------------- MODULE ChatSessionProofs --------------------------
(***************************************************************************)
(* Proofs about the clients of the chat server, for any number of them: each *)
(* login or registration is answered to the client that asked for it, and    *)
(* whoever sends a message is in a room, which lists it once; every variable *)
(* keeps its type, and no request is lost between the two servers.           *)
(***************************************************************************)
EXTENDS ChatSystemProofs

-----------------------------------------------------------------------------
(* Sessions.  The second invariant follows the request of a client from its   *)
(* stream to the link, through the authentication server and back.           *)

Request == [type : {LOGIN_REQUEST, REGISTER_REQUEST}, requestId : Nat, email : Name,
            password : Password]
Answer == [type : {LOGIN_RESULT}, requestId : Nat, success : BOOLEAN, email : Name]
          \cup [type : {REGISTER_RESULT}, requestId : Nat, success : BOOLEAN]

asks == toAuth[AuthLink]
answers == fromAuth[AuthLink]
IdSeq(s) == [i \in DOMAIN s |-> s[i].requestId]
Pending == ToSet(IdSeq(asks)) \cup ToSet(IdSeq(answers))

\* The clients that are not logged in, as far as the server knows.
Outside == Queued \cup Unauthenticated

Welcome(p, e) == p = PacketLoginResult(p.requestId, TRUE, e)
Refusal(p) == p \in Answer /\ ~(p.type = LOGIN_RESULT /\ p.success)

SessionTypes ==
    /\ typed \in [Client -> Name \cup {NoRoom}] /\ name = [c \in Client |-> name[c]]
    /\ toClient = [c \in Client |-> toClient[c]]
    /\ \A c \in Client : toClient[c] \in Seq(ToSet(toClient[c]))
    /\ toAuth = [s \in Link |-> toAuth[s]] /\ asks \in Seq(Request)
    /\ fromAuth = [s \in Link |-> fromAuth[s]] /\ answers \in Seq(Answer)
    /\ \A c \in Client : live[c] <=> user[c] \notin {"off", "gone"}

\* A request is under way once, under an id that was given out; it carries what
\* its client's user typed, and what precedes or follows it is not there.
OnTheWay ==
    /\ Once(IdSeq(asks)) /\ Once(IdSeq(answers))
    /\ ToSet(IdSeq(asks)) \cap ToSet(IdSeq(answers)) = {}
    /\ Pending \subseteq 0 .. currentUnauthenticatedClientId - 1
    /\ \A i \in DOMAIN asks : asks[i].requestId \in Ids =>
          asks[i].email = typed[unauthenticatedClients[asks[i].requestId]]
    /\ \A i \in DOMAIN answers :
          answers[i].requestId \in Ids /\ answers[i].type = LOGIN_RESULT =>
          answers[i].email = typed[unauthenticatedClients[answers[i].requestId]]
    /\ \A id \in Ids \cap Pending :
          /\ fromClient[unauthenticatedClients[id]] = <<>>
          /\ toClient[unauthenticatedClients[id]] = <<>>
          /\ user[unauthenticatedClients[id]] # "idle"

\* A client outside has sent a request or been refused one, not both.
Asking(c) ==
    /\ user[c] \in {"idle", "waiting", "gone"}
    /\ \/ fromClient[c] = <<>>
       \/ /\ fromClient[c] = <<fromClient[c][1]>>
          /\ fromClient[c][1] \in Request /\ fromClient[c][1].email = typed[c]
          /\ toClient[c] = <<>>
    /\ toClient[c] = <<>> \/ (toClient[c] = <<toClient[c][1]>> /\ Refusal(toClient[c][1]))

\* A client inside is who its user said, has its welcome before anything else,
\* and joins under its name.
Admitted(c) ==
    /\ name[c] = typed[c] /\ typed[c] \in Name
    /\ user[c] \in {"waiting", "in", "leaving", "gone"}
    /\ user[c] = "waiting" => toClient[c] # <<>> /\ Welcome(toClient[c][1], typed[c])
    /\ \A i \in DOMAIN toClient[c] : FullFrame(toClient[c][i]) => user[c] = "waiting" /\ i = 1
    /\ \A i \in DOMAIN fromClient[c] :
          fromClient[c][i].type = JOIN_ROOM => fromClient[c][i].name = typed[c]

SInv ==
    /\ SessionTypes /\ OnTheWay
    /\ \A c \in Outside : Asking(c)
    /\ \A c \in Authenticated : Admitted(c)
    /\ \A c \in Client : user[c] \in {"off", "idle"} => fromClient[c] = <<>> /\ toClient[c] = <<>>

-----------------------------------------------------------------------------
(* Streams of ids.                                                          *)

\* The ids of frames.
LEMMA IdSeqType ==
    ASSUME NEW S, NEW s \in Seq(S), \A x \in S : x.requestId \in Nat
    PROVE  IdSeq(s) \in Seq(Nat) /\ Len(IdSeq(s)) = Len(s) /\ DOMAIN IdSeq(s) = DOMAIN s
<1>1. Len(s) \in Nat /\ DOMAIN s = 1 .. Len(s) /\ \A i \in 1 .. Len(s) : s[i] \in S
  BY LenProperties, ElementOfSeq
<1>2. IdSeq(s) \in [1 .. Len(s) -> Nat]
  BY <1>1 DEF IdSeq
<1>3. IdSeq(s) \in Seq(Nat)
  BY <1>1, <1>2, SeqDef
<1>. QED
  BY <1>1, <1>2, <1>3, LenProperties

\* A frame at the end.
LEMMA IdSeqAppend ==
    ASSUME NEW S, NEW s \in Seq(S), \A x \in S : x.requestId \in Nat, NEW p \in S
    PROVE  IdSeq(Append(s, p)) = Append(IdSeq(s), p.requestId)
<1>. DEFINE t == Append(s, p)
            u == IdSeq(s)
            v == Append(u, p.requestId)
            w == IdSeq(t)
<1>1. /\ t \in Seq(S) /\ Len(t) = Len(s) + 1 /\ t[Len(s) + 1] = p
      /\ \A i \in 1 .. Len(s) : t[i] = s[i]
  BY AppendProperties
<1>2. Len(s) \in Nat /\ DOMAIN s = 1 .. Len(s) /\ DOMAIN t = 1 .. Len(s) + 1
  BY <1>1, LenProperties
<1>3. u \in Seq(Nat) /\ Len(u) = Len(s) /\ \A i \in 1 .. Len(s) : u[i] = s[i].requestId
  BY <1>2, IdSeqType DEF IdSeq
<1>. HIDE DEF u
<1>4. /\ v \in Seq(Nat) /\ Len(v) = Len(s) + 1 /\ v[Len(s) + 1] = p.requestId
      /\ \A i \in 1 .. Len(s) : v[i] = u[i]
  BY <1>3, AppendProperties
<1>. HIDE DEF t, v
<1>5. w \in Seq(Nat) /\ Len(w) = Len(s) + 1
      /\ \A i \in 1 .. Len(s) + 1 : w[i] = t[i].requestId
  BY <1>1, <1>2, IdSeqType DEF IdSeq
<1>. HIDE DEF w
<1>6. ASSUME NEW i \in 1 .. Len(s) + 1 PROVE w[i] = v[i]
  <2>1. i \in 1 .. Len(s) \/ i = Len(s) + 1
    BY <1>2
  <2>. QED
    BY <1>1, <1>3, <1>4, <1>5, <2>1
<1>7. w = v
  BY <1>4, <1>5, <1>6, SeqEqual
<1>. QED
  BY <1>7 DEF t, u, v, w

\* The first frame taken away.
LEMMA IdSeqTail ==
    ASSUME NEW S, NEW s \in Seq(S), \A x \in S : x.requestId \in Nat, s # <<>>
    PROVE  /\ IdSeq(Tail(s)) = Tail(IdSeq(s)) /\ Head(IdSeq(s)) = Head(s).requestId
           /\ IdSeq(s) # <<>> /\ Head(s) \in S /\ Tail(s) \in Seq(S)
           /\ \A i \in DOMAIN Tail(s) : i + 1 \in DOMAIN s /\ Tail(s)[i] = s[i + 1]
<1>. DEFINE t == Tail(s)
            u == IdSeq(s)
            v == Tail(u)
            w == IdSeq(t)
<1>1. /\ t \in Seq(S) /\ Len(t) = Len(s) - 1 /\ Head(s) \in S
      /\ \A i \in 1 .. Len(t) : t[i] = s[i + 1]
  BY HeadTailProperties
<1>2. /\ Len(s) \in Nat \ {0} /\ DOMAIN s = 1 .. Len(s) /\ DOMAIN t = 1 .. Len(s) - 1
  BY <1>1, LenProperties, EmptySeq
<1>3. u \in Seq(Nat) /\ Len(u) = Len(s) /\ \A i \in 1 .. Len(s) : u[i] = s[i].requestId
  BY <1>2, IdSeqType DEF IdSeq
<1>. HIDE DEF u
<1>4. u # <<>>
  BY <1>2, <1>3, EmptySeq
<1>5. v \in Seq(Nat) /\ Len(v) = Len(s) - 1 /\ \A i \in 1 .. Len(s) - 1 : v[i] = u[i + 1]
  BY <1>3, <1>4, HeadTailProperties
<1>. HIDE DEF t, v
<1>6. w \in Seq(Nat) /\ Len(w) = Len(s) - 1
      /\ \A i \in 1 .. Len(s) - 1 : w[i] = t[i].requestId
  BY <1>1, <1>2, IdSeqType DEF IdSeq
<1>. HIDE DEF w
<1>7. \A i \in 1 .. Len(s) - 1 : i + 1 \in 1 .. Len(s)
  BY <1>2
<1>8. ASSUME NEW i \in 1 .. Len(s) - 1 PROVE w[i] = v[i]
  BY <1>1, <1>2, <1>3, <1>5, <1>6, <1>7
<1>9. w = v
  BY <1>5, <1>6, <1>8, SeqEqual
<1>10. Head(u) = u[1] /\ Head(s) = s[1] /\ 1 \in 1 .. Len(s)
  BY <1>2
<1>11. Head(u) = Head(s).requestId
  BY <1>3, <1>10
<1>. QED
  BY <1>1, <1>2, <1>4, <1>7, <1>9, <1>11 DEF t, u, v, w

-----------------------------------------------------------------------------
(* What the room handlers send.                                             *)

\* The clients that are sent nothing.
Aside == {d \in Client : ~live[d] \/ d \in Outside}

Streams(x) == x = [c \in Client |-> x[c]] /\ \A c \in Client : x[c] \in Seq(ToSet(x[c]))

Calm(x) == \A d \in Aside : live[d] => Len(x[d]) <= StreamCap

\* From streams x to streams y room frames are added at most, and behind.
Adds(x, y) == \A d \in Client :
    /\ d \in Aside => y[d] = x[d]
    /\ x[d] # <<>> => y[d] # <<>> /\ y[d][1] = x[d][1]
    /\ \A i \in DOMAIN y[d] : (i \in DOMAIN x[d] /\ y[d][i] = x[d][i]) \/ ~FullFrame(y[d][i])

\* Adding twice is adding.
LEMMA AddsTwice ==
    ASSUME NEW x, NEW y, NEW z, Calm(x), Adds(x, y), Adds(y, z)
    PROVE  Calm(y) /\ Adds(x, z)
<1>1. Calm(y)
  BY DEF Calm, Adds, Aside
<1>2. ASSUME NEW d \in Client
      PROVE  /\ d \in Aside => z[d] = x[d]
             /\ x[d] # <<>> => z[d] # <<>> /\ z[d][1] = x[d][1]
             /\ \A i \in DOMAIN z[d] :
                   (i \in DOMAIN x[d] /\ z[d][i] = x[d][i]) \/ ~FullFrame(z[d][i])
  <2>1. d \in Aside => z[d] = x[d]
    BY DEF Adds
  <2>2. x[d] # <<>> => z[d] # <<>> /\ z[d][1] = x[d][1]
    BY DEF Adds
  <2>3. ASSUME NEW i \in DOMAIN z[d]
        PROVE  (i \in DOMAIN x[d] /\ z[d][i] = x[d][i]) \/ ~FullFrame(z[d][i])
    BY DEF Adds
  <2>. QED
    BY <2>1, <2>2, <2>3
<1>. QED
  BY <1>1, <1>2 DEF Adds

\* One delivery of a room frame.
LEMMA DeliverAdds ==
    ASSUME NEW s, s \in Seq(ToSet(s)), NEW f, ~FullFrame(f), NEW fs \in Seq({f})
    PROVE  LET t == Deliver(s, fs) IN
           /\ t \in Seq(ToSet(t))
           /\ s # <<>> => t # <<>> /\ t[1] = s[1]
           /\ \A i \in DOMAIN t : (i \in DOMAIN s /\ t[i] = s[i]) \/ ~FullFrame(t[i])
           /\ fs = <<>> /\ Len(s) <= StreamCap => t = s
<1>. DEFINE F == ToSet(s) \cup {f}
            t == Deliver(s, fs)
<1>1. s \in Seq(F) /\ fs \in Seq(F) /\ ToSet(fs) \subseteq {f}
  <2>1. \A A, B : A \subseteq B => Seq(A) \subseteq Seq(B)
    OBVIOUS
  <2>2. \A i \in DOMAIN fs : fs[i] \in {f}
    BY LenProperties, ElementOfSeq
  <2>3. ToSet(fs) \subseteq {f}
    BY <2>2 DEF ToSet
  <2>. QED
    BY <2>1, <2>3
<1>. HIDE DEF F
<1>2. /\ t \in Seq(F)
      /\ \A i \in DOMAIN t : (i \in DOMAIN s /\ t[i] = s[i]) \/ t[i] \in ToSet(fs)
      /\ s # <<>> => t # <<>> /\ t[1] = s[1]
      /\ fs = <<>> /\ Len(s) <= StreamCap => t = s
  BY <1>1, DeliverKeeps
<1>. HIDE DEF t
<1>3. t \in Seq(ToSet(t))
  BY <1>2, SeqOfItsSet
<1>. QED
  BY <1>1, <1>2, <1>3 DEF t

\* A broadcast to a list, whether or not one is excluded from it.
LEMMA BroadcastAdds ==
    ASSUME NEW x, Streams(x), Calm(x), NEW l \in Seq(Client), NEW e,
           NEW f, ~FullFrame(f), ToSet(l) \cap Outside = {}
    PROVE  /\ Streams(Broadcast(x, l, f)) /\ Adds(x, Broadcast(x, l, f))
           /\ Streams(BroadcastExclude(x, l, e, f)) /\ Adds(x, BroadcastExclude(x, l, e, f))
<1>1. ASSUME NEW d \in Client
      PROVE  LET t == Deliver(x[d], Copies(f, Occurrences(l, d))) IN
             /\ t \in Seq(ToSet(t))
             /\ live[d] /\ d \in Aside => t = x[d]
             /\ x[d] # <<>> => t # <<>> /\ t[1] = x[d][1]
             /\ \A i \in DOMAIN t : (i \in DOMAIN x[d] /\ t[i] = x[d][i]) \/ ~FullFrame(t[i])
  <2>. DEFINE fs == Copies(f, Occurrences(l, d))
  <2>1. fs \in Seq({f})
    BY OccurrencesType, CopiesType
  <2>2. x[d] \in Seq(ToSet(x[d]))
    BY DEF Streams
  <2>3. ASSUME live[d], d \in Aside PROVE fs = <<>> /\ Len(x[d]) <= StreamCap
    <3>1. d \notin ToSet(l)
      BY <2>3 DEF Aside
    <3>2. {i \in 1 .. Len(l) : l[i] = d} = {}
      BY <3>1, LenProperties DEF ToSet
    <3>3. Occurrences(l, d) = 0
      BY <3>2, FS_EmptySet DEF Occurrences
    <3>4. Copies(f, 0) = <<>>
      BY DEF Copies
    <3>. QED
      BY <2>3, <3>3, <3>4 DEF Calm
  <2>. HIDE DEF fs
  <2>4. LET t == Deliver(x[d], fs) IN
        /\ t \in Seq(ToSet(t))
        /\ x[d] # <<>> => t # <<>> /\ t[1] = x[d][1]
        /\ \A i \in DOMAIN t : (i \in DOMAIN x[d] /\ t[i] = x[d][i]) \/ ~FullFrame(t[i])
        /\ fs = <<>> /\ Len(x[d]) <= StreamCap => t = x[d]
    BY <2>1, <2>2, DeliverAdds
  <2>. QED
    BY <2>3, <2>4 DEF fs
<1>2. ASSUME NEW y, y = [d \in Client |-> y[d]],
             \A d \in Client : \/ y[d] = x[d]
                               \/ live[d] /\ y[d] = Deliver(x[d], Copies(f, Occurrences(l, d)))
      PROVE  Streams(y) /\ Adds(x, y)
  <2>1. ASSUME NEW d \in Client
        PROVE  /\ y[d] \in Seq(ToSet(y[d]))
               /\ d \in Aside => y[d] = x[d]
               /\ x[d] # <<>> => y[d] # <<>> /\ y[d][1] = x[d][1]
               /\ \A i \in DOMAIN y[d] :
                     (i \in DOMAIN x[d] /\ y[d][i] = x[d][i]) \/ ~FullFrame(y[d][i])
    <3>1. CASE y[d] = x[d]
      BY <3>1 DEF Streams
    <3>2. CASE live[d] /\ y[d] = Deliver(x[d], Copies(f, Occurrences(l, d)))
      BY <1>1, <3>2
    <3>. QED
      BY <1>2, <3>1, <3>2
  <2>. QED
    BY <1>2, <2>1 DEF Streams, Adds
<1>3. Streams(Broadcast(x, l, f)) /\ Adds(x, Broadcast(x, l, f))
  <2>. DEFINE y == Broadcast(x, l, f)
  <2>1. /\ y = [d \in Client |-> y[d]]
        /\ \A d \in Client : \/ y[d] = x[d]
                             \/ live[d] /\ y[d] = Deliver(x[d], Copies(f, Occurrences(l, d)))
    BY DEF Broadcast
  <2>. HIDE DEF y
  <2>2. Streams(y) /\ Adds(x, y)
    BY <1>2, <2>1
  <2>. QED
    BY <2>2 DEF y
<1>4. Streams(BroadcastExclude(x, l, e, f)) /\ Adds(x, BroadcastExclude(x, l, e, f))
  <2>. DEFINE y == BroadcastExclude(x, l, e, f)
  <2>1. /\ y = [d \in Client |-> y[d]]
        /\ \A d \in Client : \/ y[d] = x[d]
                             \/ live[d] /\ y[d] = Deliver(x[d], Copies(f, Occurrences(l, d)))
    BY DEF BroadcastExclude
  <2>. HIDE DEF y
  <2>2. Streams(y) /\ Adds(x, y)
    BY <1>2, <2>1
  <2>. QED
    BY <2>2 DEF y
<1>. QED
  BY <1>3, <1>4

\* A room frame sent to one client that is not outside.
LEMMA SendAdds ==
    ASSUME NEW x, Streams(x), NEW c \in Client, c \notin Outside, NEW f, ~FullFrame(f)
    PROVE  Streams(SendToClient(x, c, f)) /\ Adds(x, SendToClient(x, c, f))
<1>. DEFINE y == SendToClient(x, c, f)
            t == Deliver(x[c], <<f>>)
<1>1. /\ t \in Seq(ToSet(t))
      /\ x[c] # <<>> => t # <<>> /\ t[1] = x[c][1]
      /\ \A i \in DOMAIN t : (i \in DOMAIN x[c] /\ t[i] = x[c][i]) \/ ~FullFrame(t[i])
  <2>1. <<f>> \in Seq({f}) /\ x[c] \in Seq(ToSet(x[c]))
    BY DEF Streams
  <2>. QED
    BY <2>1, DeliverAdds
<1>2. /\ y = [d \in Client |-> y[d]]
      /\ \A d \in Client : y[d] = IF d = c /\ live[c] THEN t ELSE x[d]
  BY DEF SendToClient, Streams
<1>. HIDE DEF t, y
<1>3. ASSUME NEW d \in Client
      PROVE  /\ y[d] \in Seq(ToSet(y[d]))
             /\ d \in Aside => y[d] = x[d]
             /\ x[d] # <<>> => y[d] # <<>> /\ y[d][1] = x[d][1]
             /\ \A i \in DOMAIN y[d] :
                   (i \in DOMAIN x[d] /\ y[d][i] = x[d][i]) \/ ~FullFrame(y[d][i])
  <2>1. CASE d = c /\ live[c]
    BY <1>1, <1>2, <2>1 DEF Aside
  <2>2. CASE ~(d = c /\ live[c])
    BY <1>2, <2>2 DEF Streams
  <2>. QED
    BY <2>1, <2>2
<1>4. Streams(y) /\ Adds(x, y)
  BY <1>2, <1>3 DEF Streams, Adds
<1>. QED
  BY <1>4 DEF y

\* The members of a room are among those listed.
LEMMA MembersLists ==
    ASSUME NEW rs, Lists(rs), NEW r
    PROVE  Members(rs, r) \in Seq(Client) /\ ToSet(Members(rs, r)) \subseteq Listed(rs)
<1>1. CASE r \in DOMAIN rs
  BY <1>1 DEF Members, Lists, Listed
<1>2. CASE r \notin DOMAIN rs
  BY <1>2, EmptySeq DEF Members, ToSet
<1>. QED
  BY <1>1, <1>2

\* The frames the handlers send are room frames.
LEMMA RoomFrames ==
    \A r, n, m : /\ ~FullFrame(PacketLeaveRoom(r, n)) /\ ~FullFrame(PacketJoinRoom(r, n))
                 /\ ~FullFrame(PacketReceiveMessage(n, m))
<1>1. 1 \notin 4 .. 7 /\ 2 \notin 4 .. 7 /\ 3 \notin 4 .. 7
  OBVIOUS
<1>. QED
  BY <1>1 DEF FullFrame, PacketLeaveRoom, PacketJoinRoom, PacketReceiveMessage, LEAVE_ROOM,
     JOIN_ROOM, RECEIVE_MESSAGE, LOGIN_REQUEST, REGISTER_RESULT

\* The notices of a leave.
LEMMA LeaveNoticesAdds ==
    ASSUME Streams(toClient), Calm(toClient), NEW rs, Lists(rs), Listed(rs) \cap Outside = {},
           NEW c \in Client, c \notin Outside, NEW r, NEW n
    PROVE  /\ Streams(LeaveNotices(rs, c, r, n)) /\ Calm(LeaveNotices(rs, c, r, n))
           /\ Adds(toClient, LeaveNotices(rs, c, r, n))
<1>. DEFINE f == PacketLeaveRoom(r, n)
            x == toClient
            y == SendToClient(x, c, f)
            l == Members(rs, r)
            z == Broadcast(y, l, f)
<1>1. ~FullFrame(f)
  BY RoomFrames
<1>2. l \in Seq(Client) /\ ToSet(l) \cap Outside = {}
  BY MembersLists
<1>. HIDE DEF f, l
<1>3. Streams(y) /\ Adds(x, y)
  BY <1>1, SendAdds
<1>. HIDE DEF y
<1>4. Calm(y)
  BY <1>3, AddsTwice DEF Calm, Adds, Aside
<1>5. Streams(z) /\ Adds(y, z)
  BY <1>1, <1>2, <1>3, <1>4, BroadcastAdds
<1>. HIDE DEF z
<1>6. Calm(z)
  BY <1>4, <1>5 DEF Calm, Adds, Aside
<1>7. Adds(x, z)
  BY <1>3, <1>4, <1>5, AddsTwice
<1>8. LeaveNotices(rs, c, r, n) = z
  BY DEF LeaveNotices, z, y, l, f
<1>. QED
  BY <1>5, <1>6, <1>7, <1>8

\* A packet sends room frames, to clients inside that are connected.
LEMMA HandlePacketAdds ==
    ASSUME Streams(toClient), Calm(toClient), Lists(rooms), Listed(rooms) \cap Outside = {},
           NEW c \in Client, c \notin Outside, NEW p, HandlePacket(c, p)
    PROVE  Streams(toClient') /\ Adds(toClient, toClient')
<1>1. ASSUME NEW r, NEW n, JoinRoom(c, r, n)
      PROVE  Streams(toClient') /\ Adds(toClient, toClient')
  <2>. DEFINE y == StreamsWithout(c, n)
              rs == PushMember(RoomsWithout(c), c, r)
              l == Members(rs, r)
              f == PacketJoinRoom(r, n)
  <2>1. Lists(RoomsWithout(c)) /\ Listed(RoomsWithout(c)) \subseteq Listed(rooms)
    BY EraseMemberLists DEF RoomsWithout
  <2>2. Lists(rs) /\ Listed(rs) \subseteq Listed(RoomsWithout(c)) \cup {c}
    BY <2>1, PushMemberLists
  <2>3. toClient' = Broadcast(y, l, f)
    BY <1>1 DEF JoinRoom
  <2>4. Streams(y) /\ Calm(y) /\ Adds(toClient, y)
    <3>1. Adds(toClient, toClient)
      BY DEF Adds
    <3>2. Listed(RoomsWithout(c)) \cap Outside = {}
      BY <2>1
    <3>. QED
      BY <2>1, <3>1, <3>2, LeaveNoticesAdds DEF StreamsWithout
  <2>5. l \in Seq(Client) /\ ToSet(l) \cap Outside = {}
    <3>. HIDE DEF rs
    <3>1. l \in Seq(Client) /\ ToSet(l) \subseteq Listed(rs)
      BY <2>2, MembersLists
    <3>. QED
      BY <2>1, <2>2, <3>1
  <2>6. ~FullFrame(f)
    BY RoomFrames
  <2>. HIDE DEF y, l, f, rs
  <2>7. Streams(Broadcast(y, l, f)) /\ Adds(y, Broadcast(y, l, f))
    BY <2>4, <2>5, <2>6, BroadcastAdds
  <2>8. Adds(toClient, Broadcast(y, l, f))
    BY <2>4, <2>7, AddsTwice
  <2>. QED
    BY <2>3, <2>7, <2>8
<1>2. ASSUME NEW r, NEW n, LeaveRoom(c, r, n)
      PROVE  Streams(toClient') /\ Adds(toClient, toClient')
  <2>. DEFINE rs == EraseMember(rooms, c, r)
  <2>1. toClient' = LeaveNotices(rs, c, r, n)
    BY <1>2 DEF LeaveRoom
  <2>2. Lists(rs) /\ Listed(rs) \subseteq Listed(rooms)
    BY EraseMemberLists
  <2>. HIDE DEF rs
  <2>3. Listed(rs) \cap Outside = {}
    BY <2>2
  <2>. QED
    BY <2>1, <2>2, <2>3, LeaveNoticesAdds
<1>3. ASSUME NEW m, SendMessage(c, m)
      PROVE  Streams(toClient') /\ Adds(toClient, toClient')
  <2>. DEFINE l == rooms[FindClientRoom(c)]
              f == PacketReceiveMessage(name[c], m)
  <2>1. toClient' = BroadcastExclude(toClient, l, c, f)
    BY <1>3 DEF SendMessage
  <2>2. l \in Seq(Client) /\ ToSet(l) \cap Outside = {}
    BY <1>3 DEF SendMessage, Lists, Listed
  <2>3. ~FullFrame(f)
    BY RoomFrames
  <2>. HIDE DEF l, f
  <2>. QED
    BY <2>1, <2>2, <2>3, BroadcastAdds
<1>4. ASSUME UNCHANGED toClient
      PROVE  Streams(toClient') /\ Adds(toClient, toClient')
  BY <1>4 DEF Adds
<1>5. CASE p.type = JOIN_ROOM
  BY <1>1, <1>5 DEF HandlePacket, JOIN_ROOM, SEND_MESSAGE
<1>6. CASE p.type = LEAVE_ROOM
  BY <1>2, <1>6 DEF HandlePacket, JOIN_ROOM, LEAVE_ROOM, SEND_MESSAGE
<1>7. CASE p.type = SEND_MESSAGE
  BY <1>3, <1>4, <1>7 DEF HandlePacket, SendMessageRoomNotFound, roomVars
<1>8. CASE p.type \notin {JOIN_ROOM, LEAVE_ROOM, SEND_MESSAGE}
  BY <1>4, <1>8 DEF HandlePacket, roomVars
<1>. QED
  BY <1>5, <1>6, <1>7, <1>8

-----------------------------------------------------------------------------
(* Steps and sessions: the server.                                          *)

\* What a session is made of.
session == <<typed, name, toClient, toAuth, fromAuth, live, user,
             currentUnauthenticatedClientId, fromClient>>

\* A step that moves nothing and takes clients out at most.
LEMMA FewerSInv ==
    ASSUME SInv, UNCHANGED session,
           Ids' \subseteq Ids,
           \A id \in Ids' : unauthenticatedClients'[id] = unauthenticatedClients[id],
           Outside' \subseteq Outside, Authenticated' \subseteq Authenticated
    PROVE  SInv'
<1>1. asks' = asks /\ answers' = answers /\ Pending' = Pending
  BY DEF session, asks, answers, Pending
<1>2. SessionTypes'
  BY <1>1 DEF SInv, SessionTypes, session
<1>3. OnTheWay'
  BY <1>1 DEF SInv, OnTheWay, session
<1>4. \A c \in Outside' : Asking(c)'
  BY DEF SInv, Asking, session
<1>5. \A c \in Authenticated' : Admitted(c)'
  BY DEF SInv, Admitted, session, Welcome
<1>6. \A c \in Client : user'[c] \in {"off", "idle"} => fromClient'[c] = <<>> /\ toClient'[c] = <<>>
  BY DEF SInv, session
<1>. QED
  BY <1>2, <1>3, <1>4, <1>5, <1>6 DEF SInv

\* The start.
LEMMA InitSInv == ASSUME Init PROVE SInv
<1>1. /\ name = [c \in Client |-> NoRoom] /\ toClient = [c \in Client |-> <<>>]
      /\ fromClient = [c \in Client |-> <<>>] /\ live = [c \in Client |-> FALSE]
      /\ user = [c \in Client |-> "off"] /\ typed = [c \in Client |-> NoRoom]
      /\ clients = <<>> /\ backlog = <<>> /\ unauthenticatedClients = [id \in {} |-> <<>>]
      /\ toAuth = [s \in Link |-> <<>>] /\ fromAuth = [s \in Link |-> <<>>]
  BY DEF Init, ServerInit, LinksInit
<1>2. asks = <<>> /\ answers = <<>>
  BY <1>1 DEF asks, answers, Link
<1>3. IdSeq(<<>>) = <<>> /\ ToSet(<<>>) = {} /\ \A S : <<>> \in Seq(S)
  BY EmptySeq DEF IdSeq, ToSet
<1>4. Ids = {} /\ Outside = {} /\ Authenticated = {} /\ Pending = {}
  BY <1>1, <1>2, <1>3 DEF Ids, Outside, Queued, Unauthenticated, Authenticated, Pending
<1>5. SessionTypes
  BY <1>1, <1>2, <1>3 DEF SessionTypes
<1>6. OnTheWay
  <2>1. Once(<<>>)
    BY DEF Once
  <2>. QED
    BY <1>2, <1>3, <1>4, <2>1 DEF OnTheWay
<1>. QED
  BY <1>1, <1>4, <1>5, <1>6 DEF SInv

\* A client accepted is outside as before, under an id that was not given out.
LEMMA AcceptSInv == ASSUME HInv, SInv, Accept, UNCHANGED userVars PROVE SInv'
<1>. DEFINE c == Head(backlog)
            n == currentUnauthenticatedClientId
<1>1. UNCHANGED <<typed, name, toClient, toAuth, fromAuth, live, user, fromClient, clients>>
      /\ backlog' = Tail(backlog) /\ pc = "accept"
  BY DEF Accept, roomVars, userVars, authVars
<1>2. c \in Queued /\ Queued' = Queued \ {c}
  <2>1. backlog # <<>>
    BY <1>1 DEF HInv, Loop
  <2>. QED
    BY <1>1, <2>1, TailOnce DEF HInv, HomeTypes, Kept, Queued
<1>3. Authenticated' = Authenticated
  BY <1>1 DEF Authenticated
<1>4. CASE up' = FALSE /\ UNCHANGED <<unauthenticatedClients, currentUnauthenticatedClientId>>
  <2>1. Ids' = Ids /\ Outside' \subseteq Outside
    BY <1>2, <1>4 DEF Ids, Outside, Unauthenticated
  <2>. QED
    BY <1>1, <1>3, <1>4, <2>1, FewerSInv DEF session
<1>5. CASE NewClient(c) /\ UNCHANGED up
  <2>1. /\ unauthenticatedClients' =
              [id \in Ids \cup {n} |-> IF id = n THEN c ELSE unauthenticatedClients[id]]
        /\ currentUnauthenticatedClientId' = n + 1
    BY <1>5 DEF NewClient
  <2>2. n \in Nat /\ n \notin Ids /\ n \notin Pending /\ Pending \subseteq 0 .. (n + 1) - 1
    <3>1. \A m \in Nat : m \notin 0 .. m - 1 /\ 0 .. m - 1 \subseteq 0 .. (m + 1) - 1
      OBVIOUS
    <3>2. n \in Nat /\ Ids \subseteq 0 .. n - 1 /\ Pending \subseteq 0 .. n - 1
      BY DEF HInv, HomeTypes, SInv, OnTheWay
    <3>. HIDE DEF n
    <3>. QED
      BY <3>1, <3>2
  <2>. HIDE DEF c, n
  <2>3. /\ Ids' = Ids \cup {n} /\ unauthenticatedClients'[n] = c
        /\ \A id \in Ids : unauthenticatedClients'[id] = unauthenticatedClients[id]
    BY <2>1, <2>2 DEF Ids
  <2>4. Outside' = Outside
    <3>1. Unauthenticated' = Unauthenticated \cup {c}
      BY <2>3 DEF Unauthenticated
    <3>. QED
      BY <1>2, <3>1 DEF Outside
  <2>5. asks' = asks /\ answers' = answers /\ Pending' = Pending
    BY <1>1 DEF asks, answers, Pending
  <2>6. SessionTypes'
    BY <1>1, <2>5 DEF SInv, SessionTypes
  <2>7. OnTheWay'
    <3>1. Ids' \cap Pending' = Ids \cap Pending
      BY <2>2, <2>3, <2>5
    <3>2. /\ \A i \in DOMAIN asks : asks[i].requestId \in Pending
          /\ \A i \in DOMAIN answers : answers[i].requestId \in Pending
      BY DEF Pending, IdSeq, ToSet
    <3>3. \A i \in DOMAIN asks' : asks'[i].requestId \in Ids' =>
             asks'[i].email = typed'[unauthenticatedClients'[asks'[i].requestId]]
      BY <1>1, <2>2, <2>3, <2>5, <3>2 DEF SInv, OnTheWay
    <3>4. \A i \in DOMAIN answers' :
             answers'[i].requestId \in Ids' /\ answers'[i].type = LOGIN_RESULT =>
             answers'[i].email = typed'[unauthenticatedClients'[answers'[i].requestId]]
      BY <1>1, <2>2, <2>3, <2>5, <3>2 DEF SInv, OnTheWay
    <3>5. \A id \in Ids' \cap Pending' :
             /\ fromClient'[unauthenticatedClients'[id]] = <<>>
             /\ toClient'[unauthenticatedClients'[id]] = <<>>
             /\ user'[unauthenticatedClients'[id]] # "idle"
      BY <1>1, <2>3, <3>1 DEF SInv, OnTheWay
    <3>. QED
      BY <2>1, <2>2, <2>5, <3>3, <3>4, <3>5 DEF SInv, OnTheWay
  <2>8. \A d \in Outside' : Asking(d)'
    BY <1>1, <2>4 DEF SInv, Asking
  <2>9. \A d \in Authenticated' : Admitted(d)'
    BY <1>1, <1>3 DEF SInv, Admitted, Welcome
  <2>. QED
    BY <1>1, <2>6, <2>7, <2>8, <2>9 DEF SInv
<1>. QED
  BY <1>4, <1>5 DEF Accept

\* Requests and answers carry ids.
LEMMA FrameIds ==
    /\ \A p \in Request : p.requestId \in Nat /\ FullFrame(p)
    /\ \A p \in Answer : p.requestId \in Nat /\ FullFrame(p)
<1>1. \A k \in {4, 5, 6, 7} : k \in 4 .. 7
  OBVIOUS
<1>. QED
  BY <1>1 DEF Request, Answer, FullFrame, LOGIN_REQUEST, REGISTER_REQUEST, LOGIN_RESULT,
     REGISTER_RESULT

\* An answer taken from the link is of one client at most, and was its only
\* frame.
LEMMA AnswerTaken ==
    ASSUME HomeTypes, Once(unauthenticatedClients), SessionTypes, OnTheWay, answers # <<>>,
           answers' = Tail(answers),
           UNCHANGED <<typed, user, toAuth, fromClient, currentUnauthenticatedClientId>>,
           Ids' \subseteq Ids,
           \A id \in Ids' : unauthenticatedClients'[id] = unauthenticatedClients[id],
           \A id \in Ids : id # Head(answers).requestId =>
               toClient'[unauthenticatedClients[id]] = toClient[unauthenticatedClients[id]]
    PROVE  /\ OnTheWay' /\ answers' \in Seq(Answer) /\ asks' \in Seq(Request)
           /\ Head(answers) \in Answer /\ Head(answers).requestId \in Pending
           /\ 1 \in DOMAIN answers /\ Head(answers) = answers[1]
<1>. DEFINE p == Head(answers)
            j == p.requestId
            u == IdSeq(answers)
<1>1. answers \in Seq(Answer) /\ \A x \in Answer : x.requestId \in Nat
  BY FrameIds DEF SessionTypes
<1>2. /\ IdSeq(answers') = Tail(u) /\ Head(u) = j /\ u # <<>> /\ p \in Answer
      /\ answers' \in Seq(Answer)
      /\ \A i \in DOMAIN answers' : i + 1 \in DOMAIN answers /\ answers'[i] = answers[i + 1]
  BY <1>1, IdSeqTail
<1>3. u \in Seq(Nat) /\ Once(u)
  BY <1>1, IdSeqType DEF OnTheWay
<1>4. 1 \in DOMAIN answers /\ p = answers[1]
  <2>1. Len(answers) \in Nat \ {0} /\ DOMAIN answers = 1 .. Len(answers)
    BY <1>1, LenProperties, EmptySeq
  <2>2. \A n \in Nat \ {0} : 1 \in 1 .. n
    OBVIOUS
  <2>. QED
    BY <1>1, <2>1, <2>2
<1>. HIDE DEF u, p, j
<1>5. /\ j \in ToSet(u) /\ Once(IdSeq(answers')) /\ ToSet(IdSeq(answers')) = ToSet(u) \ {j}
  BY <1>2, <1>3, TailOnce
<1>6. asks' = asks
  BY DEF asks
<1>7. Pending' = Pending \ {j} /\ j \in Pending
  <2>1. ToSet(IdSeq(asks)) \cap ToSet(u) = {}
    BY DEF OnTheWay, u
  <2>. QED
    BY <1>5, <1>6, <2>1 DEF Pending, u
<1>8. \A i \in DOMAIN asks' : asks'[i].requestId \in Ids' =>
         asks'[i].email = typed'[unauthenticatedClients'[asks'[i].requestId]]
  BY <1>6 DEF OnTheWay
<1>9. \A i \in DOMAIN answers' :
         answers'[i].requestId \in Ids' /\ answers'[i].type = LOGIN_RESULT =>
         answers'[i].email = typed'[unauthenticatedClients'[answers'[i].requestId]]
  BY <1>2 DEF OnTheWay
<1>10. ASSUME NEW id \in Ids' \cap Pending'
       PROVE  /\ fromClient'[unauthenticatedClients'[id]] = <<>>
              /\ toClient'[unauthenticatedClients'[id]] = <<>>
              /\ user'[unauthenticatedClients'[id]] # "idle"
  <2>1. id \in Ids \cap Pending /\ id # j
    BY <1>7
  <2>2. toClient'[unauthenticatedClients[id]] = toClient[unauthenticatedClients[id]]
    BY <2>1 DEF p, j
  <2>. QED
    BY <2>1, <2>2 DEF OnTheWay
<1>11. OnTheWay'
  <2>1. Once(IdSeq(asks')) /\ ToSet(IdSeq(asks')) \cap ToSet(IdSeq(answers')) = {}
    BY <1>5, <1>6 DEF OnTheWay, u
  <2>2. Pending' \subseteq 0 .. currentUnauthenticatedClientId' - 1
    BY <1>7 DEF OnTheWay
  <2>. QED
    BY <1>5, <1>8, <1>9, <1>10, <2>1, <2>2 DEF OnTheWay
<1>. QED
  BY <1>2, <1>4, <1>6, <1>7, <1>11 DEF SessionTypes, p, j

\* A result reaches the client that asked, with nothing before it: a success
\* lets it in under the email its user typed, a failure is a refusal.
LEMMA AuthRecvSInv == ASSUME HInv, SInv, AuthRecv, UNCHANGED userVars PROVE SInv'
<1>. DEFINE p == Head(answers)
            j == p.requestId
            c == unauthenticatedClients[j]
<1>1. /\ UNCHANGED <<typed, toAuth, live, user, fromClient, currentUnauthenticatedClientId,
                     backlog>>
  BY DEF AuthRecv, userVars
<1>2. Queued' = Queued
  BY <1>1 DEF Queued
<1>3. CASE UNCHANGED <<fromAuth, unauthenticatedClients, name, clients, toClient>>
  <2>1. Ids' = Ids /\ Outside' = Outside /\ Authenticated' = Authenticated
    BY <1>2, <1>3 DEF Ids, Outside, Unauthenticated, Authenticated
  <2>. QED
    BY <1>1, <1>3, <2>1, FewerSInv DEF session
<1>4. CASE /\ answers # <<>> /\ DispatchResult(p)
           /\ fromAuth' = [fromAuth EXCEPT ![AuthLink] = Tail(@)]
  <2>1. answers' = Tail(answers) /\ fromAuth' = [s \in Link |-> fromAuth'[s]]
    BY <1>4 DEF SInv, SessionTypes, answers, Link
  <2>2. HomeTypes /\ Once(unauthenticatedClients) /\ SessionTypes /\ OnTheWay
    BY DEF HInv, Kept, SInv
  <2>3. /\ Streams(toClient) /\ toAuth' = [s \in Link |-> toAuth'[s]]
        /\ typed' \in [Client -> Name \cup {NoRoom}]
        /\ \A d \in Client : live'[d] <=> user'[d] \notin {"off", "gone"}
    BY <1>1, <2>2 DEF SessionTypes, Streams
  <2>4. CASE j \notin Ids
    <3>1. UNCHANGED <<unauthenticatedClients, name, clients, toClient>>
      BY <1>4, <2>4 DEF DispatchResult
    <3>2. Ids' = Ids /\ Outside' = Outside /\ Authenticated' = Authenticated
      BY <1>2, <3>1 DEF Ids, Outside, Unauthenticated, Authenticated
    <3>3. OnTheWay' /\ answers' \in Seq(Answer) /\ asks' \in Seq(Request)
      BY <1>1, <1>4, <2>1, <2>2, <3>1, <3>2, AnswerTaken
    <3>4. SessionTypes'
      BY <1>1, <2>1, <2>2, <2>3, <3>1, <3>3 DEF SessionTypes
    <3>5. \A d \in Outside' : Asking(d)'
      BY <1>1, <3>1, <3>2 DEF SInv, Asking
    <3>6. \A d \in Authenticated' : Admitted(d)'
      BY <1>1, <3>1, <3>2 DEF SInv, Admitted, Welcome
    <3>. QED
      BY <1>1, <3>1, <3>3, <3>4, <3>5, <3>6 DEF SInv
  <2>5. CASE j \in Ids
    <3>1. /\ toClient' = SendToClient(toClient, c, p)
          /\ \/ /\ p.type = LOGIN_RESULT /\ p.success
                /\ unauthenticatedClients' = [id \in Ids \ {j} |-> unauthenticatedClients[id]]
                /\ name' = [name EXCEPT ![c] = p.email]
                /\ clients' = Append(clients, c)
             \/ /\ ~(p.type = LOGIN_RESULT /\ p.success)
                /\ UNCHANGED <<unauthenticatedClients, name, clients>>
      BY <1>4, <2>5 DEF DispatchResult, LoginResult, RegisterResult
    <3>2. /\ Ids' \subseteq Ids
          /\ \A id \in Ids' : unauthenticatedClients'[id] = unauthenticatedClients[id]
      BY <3>1 DEF Ids
    <3>3. /\ \A id \in Ids : unauthenticatedClients[id] \in Client
          /\ \A id \in Ids : id # j => unauthenticatedClients[id] # c
          /\ c \in Unauthenticated /\ c \in Outside
      BY <2>2, <2>5 DEF HomeTypes, Once, Ids, Unauthenticated, Outside
    <3>. HIDE DEF c
    <3>4. \A d \in Client : d # c => toClient'[d] = toClient[d]
      BY <2>3, <3>1 DEF SendToClient, Streams
    <3>5. \A id \in Ids : id # p.requestId =>
             toClient'[unauthenticatedClients[id]] = toClient[unauthenticatedClients[id]]
      BY <3>3, <3>4
    <3>6. /\ OnTheWay' /\ answers' \in Seq(Answer) /\ asks' \in Seq(Request)
          /\ p \in Answer /\ j \in Pending /\ 1 \in DOMAIN answers /\ p = answers[1]
      BY <1>1, <1>4, <2>1, <2>2, <3>2, <3>5, AnswerTaken
    <3>. HIDE DEF p
    <3>7. /\ fromClient[c] = <<>> /\ toClient[c] = <<>> /\ user[c] \in {"waiting", "gone"}
          /\ p.type = LOGIN_RESULT => p.email = typed[c]
          /\ c \in Client
      BY <2>5, <3>3, <3>6 DEF SInv, OnTheWay, Asking, c, j
    <3>8. /\ toClient'[c] = IF live[c] THEN <<p>> ELSE <<>>
          /\ toClient' = [d \in Client |-> toClient'[d]]
          /\ toClient'[c] \in Seq(ToSet(toClient'[c]))
      <4>1. <<>> \in Seq({p}) /\ <<p>> \in Seq({p}) /\ Len(<<p>>) = 1
        OBVIOUS
      <4>2. Deliver(<<>>, <<p>>) = <<p>>
        BY <4>1, DeliverKeeps
      <4>3. toClient = [d \in Client |-> toClient[d]]
        BY <2>3 DEF Streams
      <4>4. /\ toClient'[c] = IF live[c] THEN <<p>> ELSE <<>>
            /\ toClient' = [d \in Client |-> toClient'[d]]
        BY <3>1, <3>7, <4>2, <4>3 DEF SendToClient
      <4>. QED
        BY <4>1, <4>4, SeqOfItsSet
    <3>9. Streams(toClient')
      BY <2>3, <3>4, <3>8 DEF Streams
    <3>10. \A d \in Client : user'[d] \in {"off", "idle"} => fromClient'[d] = <<>> /\ toClient'[d] = <<>>
      BY <1>1, <3>4, <3>7 DEF SInv
    <3>11. ASSUME NEW d \in Client, d # c, name'[d] = name[d]
           PROVE  /\ Asking(d) => Asking(d)'
                  /\ Admitted(d) => Admitted(d)'
      BY <1>1, <3>4, <3>11 DEF Asking, Admitted, Welcome
    <3>0. PICK b \in Client : b = c
      BY <3>7
    <3>12. Outside \subseteq Client /\ Authenticated \subseteq Client
           /\ c \notin Authenticated /\ Outside = Queued \cup Unauthenticated
      BY <3>3, PlacesAreClients DEF HInv, Kept, Outside
    <3>13. CASE /\ ~(p.type = LOGIN_RESULT /\ p.success)
                /\ UNCHANGED <<unauthenticatedClients, name, clients>>
      <4>1. Ids' = Ids /\ Outside' = Outside /\ Authenticated' = Authenticated
        BY <1>2, <3>13 DEF Ids, Outside, Unauthenticated, Authenticated
      <4>2. Asking(b)'
        <5>1. toClient'[c] = <<>> \/ (toClient'[c] = <<toClient'[c][1]>> /\ Refusal(toClient'[c][1]))
          BY <3>6, <3>8, <3>13 DEF Refusal
        <5>. QED
          BY <1>1, <3>0, <3>7, <5>1 DEF Asking
      <4>3. \A d \in Outside' : Asking(d)'
        BY <3>0, <3>11, <3>12, <3>13, <4>1, <4>2 DEF SInv
      <4>4. \A d \in Authenticated' : Admitted(d)'
        BY <3>11, <3>12, <3>13, <4>1 DEF SInv
      <4>5. SessionTypes'
        BY <1>1, <2>1, <2>2, <2>3, <3>6, <3>9, <3>13 DEF SessionTypes, Streams
      <4>. QED
        BY <3>6, <3>10, <4>3, <4>4, <4>5 DEF SInv
    <3>14. CASE /\ p.type = LOGIN_RESULT /\ p.success
                /\ unauthenticatedClients' = [id \in Ids \ {j} |-> unauthenticatedClients[id]]
                /\ name' = [name EXCEPT ![c] = p.email]
                /\ clients' = Append(clients, c)
      <4>1. Outside' = Outside \ {c} /\ Authenticated' = Authenticated \cup {c}
        <5>1. Ids' = Ids \ {j} /\ \A id \in Ids' : unauthenticatedClients'[id] = unauthenticatedClients[id]
          BY <3>14 DEF Ids
        <5>2. Unauthenticated' = Unauthenticated \ {c}
          BY <3>3, <5>1 DEF Unauthenticated, c
        <5>3. c \notin Queued
          BY <3>3 DEF HInv, Kept
        <5>4. Authenticated' = Authenticated \cup {c}
          BY <3>7, <3>12, <3>14, AppendOnce DEF HInv, HomeTypes, Kept, Authenticated
        <5>. QED
          BY <1>2, <5>2, <5>3, <5>4 DEF Outside
      <4>2. name = [d \in Client |-> name[d]]
        BY <2>2 DEF SessionTypes
      <4>3. /\ name'[c] = typed[c] /\ \A d \in Client : d # c => name'[d] = name[d]
            /\ name' = [d \in Client |-> name'[d]]
        BY <3>7, <3>14, <4>2
      <4>4. typed[c] \in Name
        <5>1. p.email \in Name
          BY <3>6, <3>14 DEF Answer, LOGIN_RESULT, REGISTER_RESULT
        <5>. QED
          BY <3>7, <3>14, <5>1
      <4>5. Welcome(p, typed[c])
        BY <3>6, <3>7, <3>14 DEF Welcome, Answer, PacketLoginResult, LOGIN_RESULT, REGISTER_RESULT
      <4>6. Admitted(b)'
        <5>1. user[c] = "waiting" => live[c]
          BY <2>2, <3>7 DEF SessionTypes
        <5>2. user[c] = "gone" => ~live[c]
          BY <2>2, <3>7 DEF SessionTypes
        <5>3. user'[c] = "waiting" => toClient'[c] # <<>> /\ Welcome(toClient'[c][1], typed'[c])
          <6>1. user'[c] = "waiting" => toClient'[c] = <<p>>
            BY <1>1, <3>8, <5>1
          <6>2. <<p>> # <<>> /\ <<p>>[1] = p /\ typed' = typed
            BY <1>1
          <6>. QED
            BY <4>5, <6>1, <6>2
        <5>4. \A i \in DOMAIN toClient'[c] :
                 FullFrame(toClient'[c][i]) => user'[c] = "waiting" /\ i = 1
          BY <1>1, <3>7, <3>8, <5>2
        <5>5. \A i \in DOMAIN fromClient'[c] :
                 fromClient'[c][i].type = JOIN_ROOM => fromClient'[c][i].name = typed'[c]
          BY <1>1, <3>7
        <5>. QED
          BY <1>1, <3>0, <3>7, <4>3, <4>4, <5>3, <5>4, <5>5 DEF Admitted
      <4>7. \A d \in Outside' : Asking(d)'
        BY <3>11, <3>12, <4>1, <4>3 DEF SInv
      <4>8. \A d \in Authenticated' : Admitted(d)'
        BY <3>0, <3>11, <3>12, <4>1, <4>3, <4>6 DEF SInv
      <4>9. SessionTypes'
        BY <1>1, <2>1, <2>2, <2>3, <3>6, <3>9, <4>3 DEF SessionTypes, Streams
      <4>. QED
        BY <3>6, <3>10, <4>7, <4>8, <4>9 DEF SInv
    <3>. QED
      BY <3>1, <3>13, <3>14 DEF p
  <2>. QED
    BY <2>4, <2>5
<1>. QED
  BY <1>3, <1>4 DEF AuthRecv, answers

\* A packet changes no name but its sender's, by a join, to the one it carries.
LEMMA HandlePacketNames ==
    ASSUME NEW c, NEW p, HandlePacket(c, p)
    PROVE  name' = name \/ (p.type = JOIN_ROOM /\ name' = [name EXCEPT ![c] = p.name])
<1>1. CASE p.type = JOIN_ROOM
  BY <1>1 DEF HandlePacket, JoinRoom, JOIN_ROOM, SEND_MESSAGE
<1>2. CASE p.type = LEAVE_ROOM
  BY <1>2 DEF HandlePacket, LeaveRoom, JOIN_ROOM, LEAVE_ROOM, SEND_MESSAGE
<1>3. CASE p.type = SEND_MESSAGE
  BY <1>3 DEF HandlePacket, SendMessage, SendMessageRoomNotFound, roomVars
<1>4. CASE p.type \notin {JOIN_ROOM, LEAVE_ROOM, SEND_MESSAGE}
  BY <1>4 DEF HandlePacket, roomVars
<1>. QED
  BY <1>1, <1>2, <1>3, <1>4

\* A recv leaves frames that were there, and none of a single one.
LEMMA RecvLeaves ==
    ASSUME HomeTypes, NEW c \in Client, RecvGets(c)
    PROVE  /\ 1 \in DOMAIN fromClient[c] /\ Head(fromClient[c]) = fromClient[c][1]
           /\ \A d \in Client : d # c => fromClient'[d] = fromClient[d]
           /\ \A i \in DOMAIN fromClient'[c] :
                 \E j \in DOMAIN fromClient[c] : fromClient'[c][i] = fromClient[c][j]
           /\ fromClient[c] = <<fromClient[c][1]>> => fromClient'[c] = <<>>
<1>1. PICK k \in RecvCounts(fromClient[c]) :
            fromClient' = [fromClient EXCEPT ![c] = AfterRecv(@, k)]
  BY DEF RecvGets
<1>2. /\ fromClient[c] # <<>> /\ fromClient[c] \in Seq(ToSet(fromClient[c]))
      /\ fromClient = [d \in Client |-> fromClient[d]]
  BY DEF RecvGets, HomeTypes
<1>. DEFINE s == fromClient[c]
            t == AfterRecv(s, k)
<1>3. /\ \A i \in DOMAIN t : \E j \in DOMAIN s : j # 1 /\ t[i] = s[j]
      /\ Len(s) = 1 => t = <<>>
  BY <1>1, <1>2, AfterRecvKeeps
<1>4. 1 \in DOMAIN s /\ Head(s) = s[1]
  <2>1. s \in Seq(ToSet(s)) /\ s # <<>>
    BY <1>2
  <2>. HIDE DEF s
  <2>2. Len(s) \in Nat \ {0} /\ DOMAIN s = 1 .. Len(s)
    BY <2>1, LenProperties, EmptySeq
  <2>. QED
    BY <2>1, <2>2
<1>. HIDE DEF t
<1>5. fromClient' = [d \in Client |-> IF d = c THEN t ELSE fromClient[d]]
  BY <1>1, <1>2 DEF t
<1>6. s = <<s[1]>> => Len(s) = 1
  OBVIOUS
<1>. QED
  BY <1>3, <1>4, <1>5, <1>6

\* What the server sends to clients outside is nothing, so that the streams of
\* these never fill up.
LEMMA OutsideCalm ==
    ASSUME HInv, SInv, up
    PROVE  /\ Streams(toClient) /\ Calm(toClient) /\ Lists(rooms)
           /\ Listed(rooms) \cap Outside = {} /\ Authenticated \cap Outside = {}
           /\ \A d \in Client : user[d] \in {"off", "idle"} => d \in Aside
<1>1. Streams(toClient)
  BY DEF SInv, SessionTypes, Streams
<1>2. Calm(toClient)
  <2>. SUFFICES ASSUME NEW d \in Aside, live[d] PROVE Len(toClient[d]) <= StreamCap
    BY DEF Calm
  <2>1. toClient[d] = <<>> \/ toClient[d] = <<toClient[d][1]>>
    <3>1. d \in Outside
      BY DEF Aside
    <3>. QED
      BY <3>1 DEF SInv, Asking
  <2>2. Len(toClient[d]) \in {0, 1}
    <3>1. Len(<<>>) = 0 /\ \A x : Len(<<x>>) = 1
      OBVIOUS
    <3>2. CASE toClient[d] = <<>>
      BY <3>1, <3>2
    <3>3. CASE toClient[d] = <<toClient[d][1]>>
      BY <3>1, <3>3, Zenon
    <3>. QED
      BY <2>1, <3>2, <3>3
  <2>3. 0 <= StreamCap /\ 1 <= StreamCap
    BY StreamCapAssumption
  <2>. QED
    BY <2>2, <2>3
<1>3. Lists(rooms) /\ Listed(rooms) \cap Outside = {} /\ Authenticated \cap Outside = {}
  BY DEF HInv, HomeTypes, Gone, Roomed, Kept, Outside
<1>4. ASSUME NEW d \in Client, user[d] \in {"off", "idle"} PROVE d \in Aside
  <2>1. CASE user[d] = "off"
    BY <2>1 DEF SInv, SessionTypes, Aside
  <2>2. CASE user[d] = "idle"
    <3>1. live[d] /\ d \in Home
      BY <2>2 DEF SInv, SessionTypes, HInv, Kept
    <3>2. d \notin Authenticated
      BY <2>2 DEF SInv, Admitted
    <3>. QED
      BY <3>1, <3>2 DEF Home, Outside, Aside
  <2>. QED
    BY <1>4, <2>1, <2>2
<1>. QED
  BY <1>1, <1>2, <1>3, <1>4

\* The frames of a logged-in client's packet are taken, the room frames go to
\* clients inside, and its name stays what its user typed.
LEMMA ServedSInv ==
    ASSUME HInv, SInv, up, NEW c \in Authenticated, RecvGets(c),
           HandlePacket(c, Head(fromClient[c])),
           UNCHANGED <<clients, unauthenticatedClients, currentUnauthenticatedClientId,
                       backlog, toAuth, fromAuth, live, user, typed>>
    PROVE  SInv'
<1>1. /\ Ids' = Ids /\ Outside' = Outside /\ Authenticated' = Authenticated
      /\ asks' = asks /\ answers' = answers /\ Pending' = Pending
  BY DEF Ids, Outside, Queued, Unauthenticated, Authenticated, asks, answers, Pending
<1>2. c \in Client /\ Outside \subseteq Client /\ Authenticated \subseteq Client
  BY PlacesAreClients DEF HInv, Outside
<1>3. /\ Streams(toClient) /\ Calm(toClient) /\ Lists(rooms) /\ Listed(rooms) \cap Outside = {}
      /\ Authenticated \cap Outside = {} /\ c \notin Outside
      /\ \A d \in Client : user[d] \in {"off", "idle"} => d \in Aside
  BY OutsideCalm
<1>4. Streams(toClient') /\ Adds(toClient, toClient')
  BY <1>2, <1>3, HandlePacketAdds
<1>5. /\ 1 \in DOMAIN fromClient[c] /\ Head(fromClient[c]) = fromClient[c][1]
      /\ \A d \in Client : d # c => fromClient'[d] = fromClient[d]
      /\ \A i \in DOMAIN fromClient'[c] :
            \E j \in DOMAIN fromClient[c] : fromClient'[c][i] = fromClient[c][j]
  BY <1>2, RecvLeaves DEF HInv
<1>6. /\ name' = [d \in Client |-> name'[d]] /\ name'[c] = typed[c]
      /\ \A d \in Client : d # c => name'[d] = name[d]
  <2>1. \/ name' = name
        \/ /\ Head(fromClient[c]).type = JOIN_ROOM
           /\ name' = [name EXCEPT ![c] = Head(fromClient[c]).name]
    BY HandlePacketNames
  <2>2. Admitted(c) /\ name = [d \in Client |-> name[d]]
    BY DEF SInv, SessionTypes
  <2>3. fromClient[c][1].type = JOIN_ROOM => fromClient[c][1].name = typed[c]
    BY <1>5, <2>2 DEF Admitted
  <2>4. name[c] = typed[c]
    BY <2>2 DEF Admitted
  <2>. QED
    BY <1>2, <1>5, <2>1, <2>2, <2>3, <2>4
<1>7. \A d \in Outside : toClient'[d] = toClient[d] /\ fromClient'[d] = fromClient[d] /\ d # c
  BY <1>2, <1>3, <1>4, <1>5 DEF Adds, Aside
<1>8. SessionTypes'
  BY <1>1, <1>4, <1>6 DEF SInv, SessionTypes, Streams
<1>9. OnTheWay'
  <2>1. \A id \in Ids : unauthenticatedClients[id] \in Outside
    BY DEF Outside, Unauthenticated
  <2>2. \A id \in Ids' \cap Pending' :
           /\ fromClient'[unauthenticatedClients'[id]] = <<>>
           /\ toClient'[unauthenticatedClients'[id]] = <<>>
           /\ user'[unauthenticatedClients'[id]] # "idle"
    BY <1>1, <1>7, <2>1 DEF SInv, OnTheWay
  <2>. QED
    BY <1>1, <2>2 DEF SInv, OnTheWay
<1>10. \A d \in Outside' : Asking(d)'
  BY <1>1, <1>7 DEF SInv, Asking
<1>11. ASSUME NEW d \in Authenticated PROVE Admitted(d)'
  <2>1. Admitted(d) /\ d \in Client
    BY <1>2 DEF SInv
  <2>2. name'[d] = typed'[d] /\ typed'[d] \in Name /\ user'[d] \in {"waiting", "in", "leaving", "gone"}
    BY <1>6, <2>1 DEF Admitted
  <2>3. /\ toClient[d] # <<>> => toClient'[d] # <<>> /\ toClient'[d][1] = toClient[d][1]
        /\ \A i \in DOMAIN toClient'[d] :
              (i \in DOMAIN toClient[d] /\ toClient'[d][i] = toClient[d][i])
              \/ ~FullFrame(toClient'[d][i])
    BY <1>4, <2>1 DEF Adds
  <2>4. user'[d] = "waiting" => toClient'[d] # <<>> /\ Welcome(toClient'[d][1], typed'[d])
    BY <2>1, <2>3 DEF Admitted
  <2>5. \A i \in DOMAIN toClient'[d] :
           FullFrame(toClient'[d][i]) => user'[d] = "waiting" /\ i = 1
    BY <2>1, <2>3 DEF Admitted
  <2>6. \A i \in DOMAIN fromClient'[d] :
           fromClient'[d][i].type = JOIN_ROOM => fromClient'[d][i].name = typed'[d]
    <3>1. CASE d = c
      BY <1>5, <2>1, <3>1 DEF Admitted
    <3>2. CASE d # c
      BY <1>5, <2>1, <3>2 DEF Admitted
    <3>. QED
      BY <3>1, <3>2
  <2>. QED
    BY <2>2, <2>4, <2>5, <2>6 DEF Admitted
<1>12. ASSUME NEW d \in Client, user'[d] \in {"off", "idle"}
       PROVE  fromClient'[d] = <<>> /\ toClient'[d] = <<>>
  <2>1. d \in Aside /\ fromClient[d] = <<>> /\ toClient[d] = <<>>
    BY <1>3, <1>12 DEF SInv
  <2>2. d # c
    BY <1>12 DEF SInv, Admitted
  <2>. QED
    BY <1>4, <1>5, <2>1, <2>2 DEF Adds
<1>. QED
  BY <1>1, <1>8, <1>9, <1>10, <1>11, <1>12 DEF SInv

\* The client served is one of the vector.
LEMMA ServedPosition ==
    ASSUME HInv, ServeClient
    PROVE  /\ Max(ClientsToServe) \in 1 .. Len(clients)
           /\ clients[Max(ClientsToServe)] \in Authenticated
<1>. DEFINE k == Max(ClientsToServe)
<1>1. k \in 1 .. Len(clients) /\ clients \in Seq(Client)
  <2>1. cursor \in 0 .. Len(clients) /\ Len(clients) \in Nat
    BY LenProperties DEF ServeClient, HInv, Loop, HomeTypes
  <2>2. \A n \in Nat : \A m \in 0 .. n : m \in Nat /\ 1 .. m \subseteq 1 .. n
    OBVIOUS
  <2>3. /\ ClientsToServe \subseteq 1 .. cursor /\ ClientsToServe # {} /\ cursor \in Nat
        /\ 1 .. cursor \subseteq 1 .. Len(clients)
    BY <2>1, <2>2 DEF ClientsToServe, ServeClient
  <2>4. k \in ClientsToServe
    BY <2>3, MaxOfPositions
  <2>. HIDE DEF k
  <2>. QED
    BY <2>3, <2>4 DEF HInv, HomeTypes
<1>. HIDE DEF k
<1>2. DOMAIN clients = 1 .. Len(clients)
  BY <1>1, LenProperties
<1>3. clients[k] \in Authenticated
  BY <1>1, <1>2 DEF Authenticated, ToSet
<1>. QED
  BY <1>1, <1>3 DEF k

\* Swap-remove adds nobody to the vector.
LEMMA SwapRemoveShrinks ==
    ASSUME HInv, NEW k \in 1 .. Len(clients), clients' = SwapRemove(k)
    PROVE  Authenticated' \subseteq Authenticated
<1>. DEFINE t == Front(ReplaceAt(clients, k, Last(clients)))
<1>1. clients \in Seq(Client) /\ Once(clients)
  BY DEF HInv, HomeTypes, Kept
<1>2. ToSet(t) = ToSet(clients) \ {clients[k]}
  BY <1>1, SwapRemoveOnce, Zenon
<1>. QED
  BY <1>2 DEF SwapRemove, Authenticated

\* The vector: a packet is handled, or a client that is gone is taken out.
LEMMA ServeClientSInv == ASSUME HInv, SInv, ServeClient, UNCHANGED userVars PROVE SInv'
<1>. DEFINE k == Max(ClientsToServe)
            c == clients[k]
<1>1. /\ UNCHANGED <<live, unauthenticatedClients, currentUnauthenticatedClientId, backlog,
                     toAuth, fromAuth, user, typed>>
      /\ up
      /\ \/ RecvGets(c) /\ HandlePacket(c, Head(fromClient[c])) /\ UNCHANGED clients
         \/ clients' = SwapRemove(k) /\ UNCHANGED <<roomVars, fromClient>>
  BY DEF ServeClient, userVars, authVars
<1>2. k \in 1 .. Len(clients) /\ c \in Authenticated
  BY ServedPosition
<1>. HIDE DEF k, c
<1>3. CASE RecvGets(c) /\ HandlePacket(c, Head(fromClient[c])) /\ UNCHANGED clients
  <2>1. PICK b \in Authenticated : b = c
    BY <1>2
  <2>2. RecvGets(b) /\ HandlePacket(b, Head(fromClient[b]))
    BY <1>3, <2>1
  <2>. QED
    BY <1>1, <1>3, <2>2, ServedSInv
<1>4. CASE clients' = SwapRemove(k) /\ UNCHANGED <<roomVars, fromClient>>
  <2>1. Authenticated' \subseteq Authenticated
    BY <1>2, <1>4, SwapRemoveShrinks
  <2>2. Ids' = Ids /\ Outside' = Outside
    BY <1>1 DEF Ids, Outside, Queued, Unauthenticated
  <2>3. UNCHANGED session
    BY <1>1, <1>4 DEF session, roomVars
  <2>. QED
    BY <1>1, <2>1, <2>2, <2>3, FewerSInv
<1>. QED
  BY <1>1, <1>3, <1>4

\* A client of which nothing changes is asking, or admitted, as before.
LEMMA SameForIt ==
    ASSUME NEW d, user'[d] = user[d], typed'[d] = typed[d], name'[d] = name[d],
           toClient'[d] = toClient[d], fromClient'[d] = fromClient[d]
    PROVE  (Asking(d) => Asking(d)') /\ (Admitted(d) => Admitted(d)')
BY DEF Asking, Admitted

\* A frame under an id that no frame has goes behind the others.
LEMMA FreshFrame ==
    ASSUME NEW S, NEW s \in Seq(S), \A x \in S : x.requestId \in Nat, NEW p \in S,
           Once(IdSeq(s)), p.requestId \notin ToSet(IdSeq(s))
    PROVE  /\ Append(s, p) \in Seq(S) /\ Once(IdSeq(Append(s, p)))
           /\ ToSet(IdSeq(Append(s, p))) = ToSet(IdSeq(s)) \cup {p.requestId}
           /\ \A i \in DOMAIN Append(s, p) :
                 Append(s, p)[i] = p \/ (i \in DOMAIN s /\ Append(s, p)[i] = s[i])
<1>. DEFINE t == Append(s, p)
            u == IdSeq(s)
            j == p.requestId
<1>1. u \in Seq(Nat) /\ j \in Nat /\ IdSeq(t) = Append(u, j)
  BY IdSeqType, IdSeqAppend
<1>2. Once(u) /\ j \notin ToSet(u)
  OBVIOUS
<1>. HIDE DEF u, j
<1>3. Once(Append(u, j)) /\ ToSet(Append(u, j)) = ToSet(u) \cup {j}
  BY <1>1, <1>2, AppendOnce
<1>4. /\ t \in Seq(S) /\ Len(t) = Len(s) + 1 /\ t[Len(s) + 1] = p
      /\ \A i \in 1 .. Len(s) : t[i] = s[i]
  BY AppendProperties
<1>5. Len(s) \in Nat /\ DOMAIN s = 1 .. Len(s) /\ DOMAIN t = 1 .. Len(s) + 1
  BY <1>4, LenProperties
<1>. HIDE DEF t
<1>6. ASSUME NEW i \in DOMAIN t PROVE t[i] = p \/ (i \in DOMAIN s /\ t[i] = s[i])
  <2>1. \A n \in Nat : \A m \in 1 .. n + 1 : m \in 1 .. n \/ m = n + 1
    OBVIOUS
  <2>2. i \in 1 .. Len(s) \/ i = Len(s) + 1
    BY <1>5, <2>1
  <2>. QED
    BY <1>4, <1>5, <2>2
<1>. QED
  BY <1>1, <1>3, <1>4, <1>6 DEF t, u, j

\* A request leaves its stream for the link, under the id of its client.
LEMMA ForwardedSInv ==
    ASSUME HInv, SInv, NEW id \in Ids, NEW c, c = unauthenticatedClients[id],
           RecvGets(c), Forward(id, Head(fromClient[c])),
           UNCHANGED <<clients, unauthenticatedClients, currentUnauthenticatedClientId,
                       backlog, fromAuth, live, user, typed, name, toClient>>
    PROVE  SInv'
<1>. DEFINE f == fromClient[c][1]
            q == [type |-> f.type, requestId |-> id, email |-> f.email,
                  password |-> f.password]
<1>1. /\ Ids' = Ids /\ Outside' = Outside /\ Authenticated' = Authenticated
      /\ answers' = answers
  BY DEF Ids, Outside, Queued, Unauthenticated, Authenticated, answers
<1>2. c \in Client /\ c \in Outside /\ c \notin Authenticated /\ Authenticated \subseteq Client
      /\ Outside \subseteq Client
  BY PlacesAreClients DEF HInv, HomeTypes, Kept, Outside, Unauthenticated
<1>3. /\ fromClient[c] # <<>> /\ Head(fromClient[c]) = f
      /\ \A d \in Client : d # c => fromClient'[d] = fromClient[d]
      /\ fromClient[c] = <<f>> => fromClient'[c] = <<>>
  BY <1>2, RecvLeaves DEF HInv, RecvGets
<1>4. /\ fromClient[c] = <<f>> /\ f \in Request /\ f.email = typed[c] /\ toClient[c] = <<>>
      /\ user[c] # "idle"
  BY <1>2, <1>3 DEF SInv, Asking
<1>5. fromClient'[c] = <<>>
  BY <1>3, <1>4
<1>. HIDE DEF f
<1>6. id \in Nat /\ id \in 0 .. currentUnauthenticatedClientId - 1 /\ id \notin Pending
  <2>1. \A n \in Nat : \A m \in 0 .. n - 1 : m \in Nat
    OBVIOUS
  <2>2. id \notin Pending
    BY <1>3 DEF SInv, OnTheWay
  <2>. QED
    BY <2>1, <2>2 DEF HInv, HomeTypes
<1>7. q \in Request /\ q.requestId = id /\ q.email = typed[c]
  BY <1>4, <1>6 DEF Request
<1>8. /\ asks' = asks \/ asks' = Append(asks, q)
      /\ toAuth' = [s \in Link |-> toAuth'[s]]
  <2>1. AuthLink \in Link /\ toAuth = [s \in Link |-> toAuth[s]]
    BY DEF Link, SInv, SessionTypes
  <2>2. SendToAuthServer(q)
    <3>1. f.type = LOGIN_REQUEST => q = PacketLoginRequest(id, f.email, f.password)
      BY DEF PacketLoginRequest
    <3>2. f.type = REGISTER_REQUEST => q = PacketRegisterRequest(id, f.email, f.password)
      BY DEF PacketRegisterRequest
    <3>3. f.type = LOGIN_REQUEST \/ (f.type = REGISTER_REQUEST /\ f.type # LOGIN_REQUEST)
      BY <1>4 DEF Request, LOGIN_REQUEST, REGISTER_REQUEST
    <3>. HIDE DEF q
    <3>. QED
      BY <1>3, <3>1, <3>2, <3>3 DEF Forward
  <2>. HIDE DEF q
  <2>. QED
    BY <2>1, <2>2 DEF SendToAuthServer, asks
<1>. HIDE DEF q
<1>9. CASE asks' = asks
  <2>1. Pending' = Pending
    BY <1>1, <1>9 DEF Pending
  <2>2. SessionTypes'
    BY <1>1, <1>8, <1>9 DEF SInv, SessionTypes
  <2>3. \A i \in Ids' \cap Pending' :
           /\ fromClient'[unauthenticatedClients'[i]] = <<>>
           /\ toClient'[unauthenticatedClients'[i]] = <<>>
           /\ user'[unauthenticatedClients'[i]] # "idle"
    BY <1>1, <1>3, <1>5, <2>1 DEF SInv, OnTheWay, HInv, HomeTypes
  <2>4. OnTheWay'
    BY <1>1, <1>9, <2>1, <2>3 DEF SInv, OnTheWay
  <2>5. \A d \in Outside' : Asking(d)'
    BY <1>1, <1>2, <1>3, <1>5 DEF SInv, Asking
  <2>6. \A d \in Authenticated' : Admitted(d)'
    <3>1. ASSUME NEW d \in Authenticated PROVE Admitted(d)'
      <4>1. Admitted(d) /\ fromClient'[d] = fromClient[d]
        BY <1>2, <1>3 DEF SInv
      <4>. QED
        BY <4>1, SameForIt
    <3>. QED
      BY <1>1, <3>1
  <2>7. \A d \in Client : user'[d] \in {"off", "idle"} => fromClient'[d] = <<>> /\ toClient'[d] = <<>>
    BY <1>3, <1>5 DEF SInv
  <2>. QED
    BY <2>2, <2>4, <2>5, <2>6, <2>7 DEF SInv
<1>10. CASE asks' = Append(asks, q)
  <2>1. /\ asks' \in Seq(Request) /\ Once(IdSeq(asks'))
        /\ ToSet(IdSeq(asks')) = ToSet(IdSeq(asks)) \cup {id}
        /\ \A i \in DOMAIN asks' : asks'[i] = q \/ (i \in DOMAIN asks /\ asks'[i] = asks[i])
    <3>1. /\ asks \in Seq(Request) /\ Once(IdSeq(asks)) /\ id \notin ToSet(IdSeq(asks))
          /\ \A x \in Request : x.requestId \in Nat
      BY <1>6, FrameIds DEF SInv, SessionTypes, OnTheWay, Pending
    <3>. QED
      BY <1>7, <1>10, <3>1, FreshFrame
  <2>2. Pending' = Pending \cup {id}
    BY <1>1, <2>1 DEF Pending
  <2>3. SessionTypes'
    BY <1>1, <1>8, <2>1 DEF SInv, SessionTypes
  <2>4. \A i \in Ids' \cap Pending' :
           /\ fromClient'[unauthenticatedClients'[i]] = <<>>
           /\ toClient'[unauthenticatedClients'[i]] = <<>>
           /\ user'[unauthenticatedClients'[i]] # "idle"
    BY <1>1, <1>3, <1>4, <1>5, <2>2 DEF SInv, OnTheWay, HInv, HomeTypes
  <2>5. \A i \in DOMAIN asks' : asks'[i].requestId \in Ids' =>
           asks'[i].email = typed'[unauthenticatedClients'[asks'[i].requestId]]
    BY <1>1, <1>7, <2>1 DEF SInv, OnTheWay
  <2>6. /\ ToSet(IdSeq(asks')) \cap ToSet(IdSeq(answers')) = {}
        /\ Pending' \subseteq 0 .. currentUnauthenticatedClientId' - 1
    BY <1>1, <1>6, <2>1, <2>2 DEF SInv, OnTheWay, Pending
  <2>7. OnTheWay'
    BY <1>1, <2>1, <2>4, <2>5, <2>6 DEF SInv, OnTheWay
  <2>8. \A d \in Outside' : Asking(d)'
    BY <1>1, <1>2, <1>3, <1>5 DEF SInv, Asking
  <2>9. \A d \in Authenticated' : Admitted(d)'
    <3>1. ASSUME NEW d \in Authenticated PROVE Admitted(d)'
      <4>1. Admitted(d) /\ fromClient'[d] = fromClient[d]
        BY <1>2, <1>3 DEF SInv
      <4>. QED
        BY <4>1, SameForIt
    <3>. QED
      BY <1>1, <3>1
  <2>10. \A d \in Client : user'[d] \in {"off", "idle"} => fromClient'[d] = <<>> /\ toClient'[d] = <<>>
    BY <1>3, <1>5 DEF SInv
  <2>. QED
    BY <2>3, <2>7, <2>8, <2>9, <2>10 DEF SInv
<1>. QED
  BY <1>8, <1>9, <1>10

\* The map: a request is forwarded, or a client that is gone is flagged.
LEMMA ServeUnauthenticatedSInv ==
    ASSUME HInv, SInv, ServeUnauthenticated, UNCHANGED userVars PROVE SInv'
<1>. DEFINE id == Min(UnauthToServe)
            c == unauthenticatedClients[id]
<1>1. /\ UNCHANGED <<clients, unauthenticatedClients, currentUnauthenticatedClientId,
                     backlog, fromAuth, live, user, typed, name, toClient>>
      /\ UnauthToServe # {}
      /\ \/ RecvGets(c) /\ Forward(id, Head(fromClient[c]))
         \/ UNCHANGED <<fromClient, toAuth>>
  BY DEF ServeUnauthenticated, roomVars, userVars
<1>2. id \in Ids
  <2>1. Ids \subseteq Nat
    <3>1. \A n \in Nat : \A m \in 0 .. n - 1 : m \in Nat
      OBVIOUS
    <3>. QED
      BY <3>1 DEF HInv, HomeTypes
  <2>2. UnauthToServe \in SUBSET Nat
    BY <2>1 DEF UnauthToServe
  <2>3. id \in UnauthToServe
    BY <1>1, <2>2, MinOfNaturals
  <2>. HIDE DEF id
  <2>. QED
    BY <2>3 DEF UnauthToServe
<1>. HIDE DEF id
<1>3. CASE RecvGets(c) /\ Forward(id, Head(fromClient[c]))
  <2>1. PICK i \in Ids : i = id
    BY <1>2
  <2>2. PICK b \in {c} : b = unauthenticatedClients[i]
    BY <2>1
  <2>3. RecvGets(b) /\ Forward(i, Head(fromClient[b]))
    BY <1>3, <2>1, <2>2
  <2>. QED
    BY <1>1, <2>2, <2>3, ForwardedSInv
<1>4. CASE UNCHANGED <<fromClient, toAuth>>
  <2>1. Ids' = Ids /\ Outside' = Outside /\ Authenticated' = Authenticated
    BY <1>1 DEF Ids, Outside, Queued, Unauthenticated, Authenticated
  <2>2. UNCHANGED session
    BY <1>1, <1>4 DEF session
  <2>. QED
    BY <1>1, <2>1, <2>2, FewerSInv
<1>. QED
  BY <1>1, <1>3, <1>4

\* The flagged clients are taken out.
LEMMA RemoveInvalidSInv == ASSUME HInv, SInv, RemoveInvalid, UNCHANGED userVars PROVE SInv'
<1>1. /\ UNCHANGED session /\ UNCHANGED <<clients, backlog>>
      /\ unauthenticatedClients' =
            [id \in Ids \ clientsToRemove |-> unauthenticatedClients[id]]
  BY DEF RemoveInvalid, roomVars, authVars, userVars, session
<1>2. /\ Ids' \subseteq Ids
      /\ \A id \in Ids' : unauthenticatedClients'[id] = unauthenticatedClients[id]
  BY <1>1 DEF Ids
<1>3. Outside' \subseteq Outside /\ Authenticated' = Authenticated
  BY <1>1, <1>2 DEF Outside, Queued, Unauthenticated, Authenticated
<1>. QED
  BY <1>1, <1>2, <1>3, FewerSInv

\* A step of the server's thread.
LEMMA ServerSInv == ASSUME HInv, SInv, ServerStep PROVE SInv'
<1>1. UNCHANGED userVars
  BY DEF ServerStep
<1>2. ASSUME UNCHANGED session,
             UNCHANGED <<clients, backlog, unauthenticatedClients>>
      PROVE  SInv'
  <2>1. Ids' = Ids /\ Outside' = Outside /\ Authenticated' = Authenticated
    BY <1>2 DEF Ids, Outside, Queued, Unauthenticated, Authenticated
  <2>. QED
    BY <1>2, <2>1, FewerSInv
<1>3. CASE Select
  BY <1>1, <1>2, <1>3 DEF Select, session, roomVars, homeVars, authVars, userVars
<1>4. CASE ClientsServed
  BY <1>1, <1>2, <1>4 DEF ClientsServed, session, roomVars, homeVars, authVars, userVars
<1>. QED
  BY <1>1, <1>3, <1>4, AcceptSInv, AuthRecvSInv, ServeClientSInv, ServeUnauthenticatedSInv,
     RemoveInvalidSInv DEF ServerStep, Server

-----------------------------------------------------------------------------
(* Steps and sessions: the authentication server and the client programs.   *)

\* An answer takes the place of its request.
LEMMA AuthReplySInv == ASSUME HInv, SInv, AuthReply PROVE SInv'
<1>. DEFINE p == Head(asks)
            j == p.requestId
<1>1. /\ UNCHANGED <<typed, name, toClient, live, user, currentUnauthenticatedClientId,
                     fromClient, clients, backlog, unauthenticatedClients>>
      /\ asks # <<>> /\ toAuth' = [toAuth EXCEPT ![AuthLink] = Tail(@)]
  BY DEF AuthReply, asks, roomVars, homeVars, userVars
<1>2. PICK ok \in BOOLEAN :
         fromAuth' = [fromAuth EXCEPT ![AuthLink] = Append(@, Result(p, ok))]
  BY DEF AuthReply, asks
<1>. DEFINE q == Result(p, ok)
<1>3. /\ Ids' = Ids /\ Outside' = Outside /\ Authenticated' = Authenticated
  BY <1>1 DEF Ids, Outside, Queued, Unauthenticated, Authenticated
<1>4. /\ asks' = Tail(asks) /\ answers' = Append(answers, q)
      /\ toAuth' = [s \in Link |-> toAuth'[s]] /\ fromAuth' = [s \in Link |-> fromAuth'[s]]
  <2>1. /\ AuthLink \in Link /\ toAuth = [s \in Link |-> toAuth[s]]
        /\ fromAuth = [s \in Link |-> fromAuth[s]]
    BY DEF Link, SInv, SessionTypes
  <2>. HIDE DEF q, p
  <2>. QED
    BY <1>1, <1>2, <2>1 DEF asks, answers, q
<1>5. /\ asks \in Seq(Request) /\ Once(IdSeq(asks)) /\ Once(IdSeq(answers))
      /\ answers \in Seq(Answer)
      /\ \A x \in Request : x.requestId \in Nat
      /\ \A x \in Answer : x.requestId \in Nat
  BY FrameIds DEF SInv, SessionTypes, OnTheWay
<1>6. /\ IdSeq(asks') = Tail(IdSeq(asks)) /\ Head(IdSeq(asks)) = j
      /\ IdSeq(asks) # <<>> /\ p \in Request /\ asks' \in Seq(Request)
      /\ \A i \in DOMAIN asks' : i + 1 \in DOMAIN asks /\ asks'[i] = asks[i + 1]
      /\ IdSeq(asks) \in Seq(Nat)
  BY <1>1, <1>4, <1>5, IdSeqTail, IdSeqType
<1>7. /\ j \in ToSet(IdSeq(asks)) /\ Once(IdSeq(asks'))
      /\ ToSet(IdSeq(asks')) = ToSet(IdSeq(asks)) \ {j}
  <2>. DEFINE u == IdSeq(asks)
  <2>1. u \in Seq(Nat) /\ Once(u) /\ u # <<>>
    BY <1>5, <1>6
  <2>. HIDE DEF u
  <2>2. Head(u) \in ToSet(u) /\ Once(Tail(u)) /\ ToSet(Tail(u)) = ToSet(u) \ {Head(u)}
    BY <2>1, TailOnce
  <2>. QED
    BY <1>6, <2>2 DEF u
<1>8. 1 \in DOMAIN asks /\ p = asks[1]
  <2>1. Len(asks) \in Nat \ {0} /\ DOMAIN asks = 1 .. Len(asks)
    BY <1>1, <1>5, LenProperties, EmptySeq
  <2>2. \A n \in Nat \ {0} : 1 \in 1 .. n
    OBVIOUS
  <2>. QED
    BY <1>5, <2>1, <2>2
<1>9. /\ q \in Answer /\ q.requestId = j
      /\ q.type = LOGIN_RESULT => q.email = p.email
  <2>. HIDE DEF p
  <2>1. CASE p.type = LOGIN_REQUEST
    <3>1. q = PacketLoginResult(p.requestId, ok, p.email)
      BY <2>1 DEF Result
    <3>. HIDE DEF q
    <3>. QED
      BY <1>6, <3>1 DEF PacketLoginResult, Request, Answer
  <2>2. CASE p.type # LOGIN_REQUEST
    <3>1. q = PacketRegisterResult(p.requestId, ok)
      BY <2>2 DEF Result
    <3>2. REGISTER_RESULT # LOGIN_RESULT
      BY DEF REGISTER_RESULT, LOGIN_RESULT
    <3>. HIDE DEF q
    <3>. QED
      BY <1>6, <3>1, <3>2 DEF PacketRegisterResult, Request, Answer
  <2>. QED
    BY <2>1, <2>2
<1>. HIDE DEF q, p, j
<1>10. /\ answers' \in Seq(Answer) /\ Once(IdSeq(answers'))
       /\ ToSet(IdSeq(answers')) = ToSet(IdSeq(answers)) \cup {j}
       /\ \A i \in DOMAIN answers' :
             answers'[i] = q \/ (i \in DOMAIN answers /\ answers'[i] = answers[i])
  <2>1. q.requestId \notin ToSet(IdSeq(answers))
    BY <1>7, <1>9 DEF SInv, OnTheWay
  <2>. QED
    BY <1>4, <1>5, <1>9, <2>1, FreshFrame
<1>11. Pending' = Pending
  BY <1>7, <1>10 DEF Pending
<1>12. OnTheWay'
  <2>1. \A i \in DOMAIN asks' : asks'[i].requestId \in Ids' =>
           asks'[i].email = typed'[unauthenticatedClients'[asks'[i].requestId]]
    BY <1>1, <1>3, <1>6 DEF SInv, OnTheWay
  <2>2. p.requestId \in Ids => p.email = typed[unauthenticatedClients[p.requestId]]
    BY <1>8 DEF SInv, OnTheWay
  <2>3. \A i \in DOMAIN answers' :
           answers'[i].requestId \in Ids' /\ answers'[i].type = LOGIN_RESULT =>
           answers'[i].email = typed'[unauthenticatedClients'[answers'[i].requestId]]
    BY <1>1, <1>3, <1>9, <1>10, <2>2 DEF SInv, OnTheWay, j
  <2>4. ToSet(IdSeq(asks')) \cap ToSet(IdSeq(answers')) = {}
    BY <1>7, <1>10 DEF SInv, OnTheWay
  <2>5. /\ Pending' \subseteq 0 .. currentUnauthenticatedClientId' - 1
        /\ \A id \in Ids' \cap Pending' :
              /\ fromClient'[unauthenticatedClients'[id]] = <<>>
              /\ toClient'[unauthenticatedClients'[id]] = <<>>
              /\ user'[unauthenticatedClients'[id]] # "idle"
    BY <1>1, <1>3, <1>11 DEF SInv, OnTheWay
  <2>. QED
    BY <1>7, <1>10, <2>1, <2>3, <2>4, <2>5 DEF OnTheWay
<1>13. SessionTypes'
  BY <1>1, <1>4, <1>6, <1>10 DEF SInv, SessionTypes
<1>14. ASSUME NEW d PROVE (Asking(d) => Asking(d)') /\ (Admitted(d) => Admitted(d)')
  BY <1>1, SameForIt
<1>15. \A d \in Client : user'[d] \in {"off", "idle"} => fromClient'[d] = <<>> /\ toClient'[d] = <<>>
  BY <1>1 DEF SInv
<1>. QED
  BY <1>3, <1>12, <1>13, <1>14, <1>15 DEF SInv

\* A step of one client program: what concerns the others stays.
LEMMA ProgramSInv ==
    ASSUME HInv, SInv, NEW c \in Client,
           UNCHANGED <<name, clients, unauthenticatedClients, currentUnauthenticatedClientId,
                       toAuth, fromAuth>>,
           Outside' \subseteq Outside \cup {c},
           \A d \in Client : d # c => /\ user'[d] = user[d] /\ typed'[d] = typed[d]
                                      /\ toClient'[d] = toClient[d]
                                      /\ fromClient'[d] = fromClient[d]
                                      /\ live'[d] = live[d],
           typed' \in [Client -> Name \cup {NoRoom}], live'[c] <=> user'[c] \notin {"off", "gone"},
           toClient' = [d \in Client |-> toClient'[d]], toClient'[c] \in Seq(ToSet(toClient'[c])),
           c \in Outside' => Asking(c)', c \in Authenticated => Admitted(c)',
           user'[c] \in {"off", "idle"} => fromClient'[c] = <<>> /\ toClient'[c] = <<>>,
           \A id \in Ids \cap Pending : unauthenticatedClients[id] = c =>
              /\ typed'[c] = typed[c] /\ fromClient'[c] = <<>> /\ toClient'[c] = <<>>
              /\ user'[c] # "idle"
    PROVE  SInv'
<1>1. Ids' = Ids /\ Authenticated' = Authenticated /\ asks' = asks /\ answers' = answers
      /\ Pending' = Pending
  BY DEF Ids, Authenticated, asks, answers, Pending
<1>2. Outside' \subseteq Client /\ Outside \subseteq Client /\ Authenticated \subseteq Client
  BY PlacesAreClients DEF HInv, Outside
<1>3. ASSUME NEW d \in Client
      PROVE  /\ toClient'[d] \in Seq(ToSet(toClient'[d]))
             /\ live'[d] <=> user'[d] \notin {"off", "gone"}
             /\ user'[d] \in {"off", "idle"} => fromClient'[d] = <<>> /\ toClient'[d] = <<>>
  <2>1. CASE d = c
    BY <2>1
  <2>2. CASE d # c
    BY <2>2 DEF SInv, SessionTypes
  <2>. QED
    BY <2>1, <2>2
<1>4. SessionTypes'
  BY <1>1, <1>3 DEF SInv, SessionTypes
<1>5. \A id \in Ids : unauthenticatedClients[id] \in Client
  BY DEF HInv, HomeTypes
<1>6. \A id \in Ids \cap Pending :
         typed'[unauthenticatedClients[id]] = typed[unauthenticatedClients[id]]
  BY <1>5
<1>7. OnTheWay'
  <2>1. /\ \A i \in DOMAIN asks : asks[i].requestId \in Pending
        /\ \A i \in DOMAIN answers : answers[i].requestId \in Pending
    BY DEF Pending, IdSeq, ToSet
  <2>2. \A i \in DOMAIN asks' : asks'[i].requestId \in Ids' =>
           asks'[i].email = typed'[unauthenticatedClients'[asks'[i].requestId]]
    BY <1>1, <1>6, <2>1 DEF SInv, OnTheWay
  <2>3. \A i \in DOMAIN answers' :
           answers'[i].requestId \in Ids' /\ answers'[i].type = LOGIN_RESULT =>
           answers'[i].email = typed'[unauthenticatedClients'[answers'[i].requestId]]
    BY <1>1, <1>6, <2>1 DEF SInv, OnTheWay
  <2>4. \A id \in Ids' \cap Pending' :
           /\ fromClient'[unauthenticatedClients'[id]] = <<>>
           /\ toClient'[unauthenticatedClients'[id]] = <<>>
           /\ user'[unauthenticatedClients'[id]] # "idle"
    BY <1>1, <1>5 DEF SInv, OnTheWay
  <2>. QED
    BY <1>1, <2>2, <2>3, <2>4 DEF SInv, OnTheWay
<1>8. ASSUME NEW d \in Client, d # c
      PROVE  (Asking(d) => Asking(d)') /\ (Admitted(d) => Admitted(d)')
  BY <1>8, SameForIt
<1>9. \A d \in Outside' : Asking(d)'
  BY <1>2, <1>8 DEF SInv
<1>10. \A d \in Authenticated' : Admitted(d)'
  BY <1>1, <1>2, <1>8 DEF SInv
<1>. QED
  BY <1>3, <1>4, <1>7, <1>9, <1>10 DEF SInv

\* A program starts: it is outside, and nothing was sent.
LEMMA ConnectSInv == ASSUME HInv, SInv, NEW c \in Client, Connect(c) PROVE SInv'
<1>1. /\ UNCHANGED <<name, clients, unauthenticatedClients, currentUnauthenticatedClientId,
                     toAuth, fromAuth, typed, toClient, fromClient>>
      /\ user[c] = "off" /\ live' = [live EXCEPT ![c] = TRUE]
      /\ backlog' = Append(backlog, c) /\ user' = [user EXCEPT ![c] = "idle"]
  BY DEF Connect, roomVars, homeVars, authVars
<1>2. c \notin Home
  BY <1>1 DEF HInv, Gone
<1>3. Outside' = Outside \cup {c}
  <2>1. Queued' = Queued \cup {c}
    BY <1>1, <1>2, AppendOnce DEF HInv, HomeTypes, Kept, Queued, Home
  <2>. QED
    BY <1>1, <2>1 DEF Outside, Unauthenticated, Ids
<1>4. user'[c] = "idle" /\ live'[c] /\ \A d \in Client : d # c => user'[d] = user[d] /\ live'[d] = live[d]
  BY <1>1 DEF HInv, HomeTypes
<1>5. fromClient'[c] = <<>> /\ toClient'[c] = <<>>
  BY <1>1 DEF SInv
<1>6. Asking(c)'
  BY <1>4, <1>5 DEF Asking
<1>7. /\ typed' \in [Client -> Name \cup {NoRoom}] /\ toClient' = [d \in Client |-> toClient'[d]]
      /\ toClient'[c] \in Seq(ToSet(toClient'[c]))
  BY <1>1 DEF SInv, SessionTypes
<1>8. c \notin Authenticated /\ \A id \in Ids : unauthenticatedClients[id] # c
  BY <1>2 DEF Home, Unauthenticated
<1>. QED
  BY <1>1, <1>3, <1>4, <1>5, <1>6, <1>7, <1>8, ProgramSInv

\* What Send leaves alone, and what the stream becomes.
LEMMA FrameSent ==
    ASSUME HInv, SInv, NEW c \in Client, NEW p, SendFrame(c, p)
    PROVE  /\ UNCHANGED <<name, clients, unauthenticatedClients, backlog,
                          currentUnauthenticatedClientId, toAuth, fromAuth, toClient, live>>
           /\ up /\ live[c]
           /\ fromClient'[c] = Append(fromClient[c], p)
           /\ fromClient[c] \in Seq(ToSet(fromClient[c]))
           /\ \A d \in Client : d # c => fromClient'[d] = fromClient[d]
           /\ Outside' = Outside
           /\ toClient' = [d \in Client |-> toClient'[d]]
           /\ toClient'[c] \in Seq(ToSet(toClient'[c]))
<1>1. /\ UNCHANGED <<name, clients, unauthenticatedClients, backlog,
                     currentUnauthenticatedClientId, toAuth, fromAuth, toClient, live>>
      /\ up /\ live[c]
      /\ fromClient' = [fromClient EXCEPT ![c] = Append(@, p)]
  BY DEF SendFrame, Send, homeVars, authVars
<1>2. /\ fromClient = [d \in Client |-> fromClient[d]]
      /\ fromClient[c] \in Seq(ToSet(fromClient[c]))
  BY DEF HInv, HomeTypes
<1>3. Outside' = Outside
  BY <1>1 DEF Outside, Queued, Unauthenticated, Ids
<1>4. /\ toClient' = [d \in Client |-> toClient'[d]]
      /\ toClient'[c] \in Seq(ToSet(toClient'[c]))
  BY <1>1 DEF SInv, SessionTypes
<1>. QED
  BY <1>1, <1>2, <1>3, <1>4

\* A user logs in or registers: the request is all there is.
LEMMA AskSInv ==
    ASSUME HInv, SInv, NEW c \in Client, NEW p \in Request, SendFrame(c, p)
    PROVE  SInv'
<1>1. /\ UNCHANGED <<name, clients, unauthenticatedClients, backlog,
                     currentUnauthenticatedClientId, toAuth, fromAuth, toClient, live>>
      /\ live[c]
      /\ fromClient'[c] = Append(fromClient[c], p)
      /\ \A d \in Client : d # c => fromClient'[d] = fromClient[d]
      /\ Outside' = Outside
      /\ toClient' = [d \in Client |-> toClient'[d]]
      /\ toClient'[c] \in Seq(ToSet(toClient'[c]))
  BY FrameSent
<1>2. /\ user[c] = "idle" /\ typed' = [typed EXCEPT ![c] = p.email]
      /\ user' = [user EXCEPT ![c] = "waiting"]
  <2>1. U!Sends(c, p)
    BY DEF SendFrame
  <2>2. p.type \notin {JOIN_ROOM, LEAVE_ROOM, SEND_MESSAGE}
    BY DEF Request, LOGIN_REQUEST, REGISTER_REQUEST, JOIN_ROOM, LEAVE_ROOM, SEND_MESSAGE
  <2>3. U!JOIN_ROOM = JOIN_ROOM /\ U!LEAVE_ROOM = LEAVE_ROOM /\ U!SEND_MESSAGE = SEND_MESSAGE
    BY DEF JOIN_ROOM, LEAVE_ROOM, SEND_MESSAGE, U!JOIN_ROOM, U!LEAVE_ROOM, U!SEND_MESSAGE
  <2>. QED
    BY <2>1, <2>2, <2>3 DEF U!Sends, U!Ask, U!Join, U!Chat, U!Leave
<1>3. /\ user'[c] = "waiting" /\ typed'[c] = p.email /\ p.email \in Name
      /\ \A d \in Client : d # c => user'[d] = user[d] /\ typed'[d] = typed[d]
      /\ typed' \in [Client -> Name \cup {NoRoom}]
  BY <1>2 DEF Request, HInv, HomeTypes, SInv, SessionTypes
<1>4. fromClient[c] = <<>> /\ toClient'[c] = <<>>
  BY <1>1, <1>2 DEF SInv
<1>5. fromClient'[c] = <<p>>
  BY <1>1, <1>4
<1>6. Asking(c)'
  BY <1>3, <1>4, <1>5 DEF Asking
<1>7. c \notin Authenticated
  BY <1>2 DEF SInv, Admitted
<1>8. \A id \in Ids \cap Pending : unauthenticatedClients[id] # c
  BY <1>2 DEF SInv, OnTheWay
<1>. QED
  BY <1>1, <1>3, <1>6, <1>7, <1>8, ProgramSInv

\* A program in its rooms sends: it joins under the name it logged in with.
LEMMA RoomSendSInv ==
    ASSUME HInv, SInv, NEW c \in Client, NEW p, SendFrame(c, p),
           p.type \notin {LOGIN_REQUEST, REGISTER_REQUEST}
    PROVE  SInv'
<1>1. /\ UNCHANGED <<name, clients, unauthenticatedClients, backlog,
                     currentUnauthenticatedClientId, toAuth, fromAuth, toClient, live>>
      /\ live[c]
      /\ fromClient'[c] = Append(fromClient[c], p)
      /\ fromClient[c] \in Seq(ToSet(fromClient[c]))
      /\ \A d \in Client : d # c => fromClient'[d] = fromClient[d]
      /\ Outside' = Outside
      /\ toClient' = [d \in Client |-> toClient'[d]]
      /\ toClient'[c] \in Seq(ToSet(toClient'[c]))
  BY FrameSent
<1>2. /\ user[c] = "in" /\ typed' = typed
      /\ user' = user \/ user' = [user EXCEPT ![c] = "leaving"]
      /\ p.type = JOIN_ROOM => p.name = typed[c]
  <2>1. U!Sends(c, p)
    BY DEF SendFrame
  <2>2. /\ U!JOIN_ROOM = 2 /\ U!LEAVE_ROOM = 3 /\ U!SEND_MESSAGE = 0 /\ JOIN_ROOM = 2
        /\ U!LOGIN_REQUEST = LOGIN_REQUEST /\ U!REGISTER_REQUEST = REGISTER_REQUEST
    BY DEF LOGIN_REQUEST, REGISTER_REQUEST, U!JOIN_ROOM, U!LEAVE_ROOM, U!SEND_MESSAGE, JOIN_ROOM, U!LOGIN_REQUEST,
       U!REGISTER_REQUEST
  <2>. QED
    BY <2>1, <2>2 DEF U!Sends, U!Ask, U!Join, U!Chat, U!Leave, U!userVars
<1>3. /\ user'[c] \in {"in", "leaving"}
      /\ \A d \in Client : d # c => user'[d] = user[d]
  BY <1>2 DEF HInv, HomeTypes
<1>4. c \notin Outside /\ \A id \in Ids : unauthenticatedClients[id] # c
  BY <1>2 DEF SInv, Asking, Outside, Unauthenticated
<1>5. c \in Authenticated => Admitted(c)'
  <2>. SUFFICES ASSUME c \in Authenticated PROVE Admitted(c)'
    OBVIOUS
  <2>1. Admitted(c)
    BY DEF SInv
  <2>2. \A i \in DOMAIN fromClient'[c] :
           fromClient'[c][i].type = JOIN_ROOM => fromClient'[c][i].name = typed[c]
    <3>. DEFINE s == fromClient[c]
                t == Append(s, p)
    <3>1. s \in Seq(ToSet(s) \cup {p})
      <4>1. s \in Seq(ToSet(s))
        BY <1>1
      <4>2. \A A, B : A \subseteq B => Seq(A) \subseteq Seq(B)
        OBVIOUS
      <4>. HIDE DEF s
      <4>. QED
        BY <4>1, <4>2
    <3>2. \A i \in DOMAIN s : s[i].type = JOIN_ROOM => s[i].name = typed[c]
      BY <2>1 DEF Admitted
    <3>. HIDE DEF s
    <3>3. /\ t \in Seq(ToSet(s) \cup {p}) /\ Len(t) = Len(s) + 1 /\ t[Len(s) + 1] = p
          /\ \A i \in 1 .. Len(s) : t[i] = s[i]
      BY <3>1, AppendProperties
    <3>4. Len(s) \in Nat /\ DOMAIN s = 1 .. Len(s) /\ DOMAIN t = 1 .. Len(s) + 1
      BY <3>1, <3>3, LenProperties
    <3>. HIDE DEF t
    <3>5. \A n \in Nat : \A m \in 1 .. n + 1 : m \in 1 .. n \/ m = n + 1
      OBVIOUS
    <3>6. \A i \in DOMAIN t : t[i].type = JOIN_ROOM => t[i].name = typed[c]
      BY <1>2, <3>2, <3>3, <3>4, <3>5
    <3>. QED
      BY <1>1, <3>6 DEF s, t
  <2>3. \A i \in DOMAIN toClient'[c] : ~FullFrame(toClient'[c][i])
    BY <1>1, <1>2, <2>1 DEF Admitted
  <2>4. name'[c] = typed'[c] /\ typed'[c] \in Name
    BY <1>1, <1>2, <2>1 DEF Admitted
  <2>. QED
    BY <1>2, <1>3, <2>2, <2>3, <2>4 DEF Admitted
<1>6. typed' \in [Client -> Name \cup {NoRoom}] /\ typed'[c] = typed[c]
  BY <1>2 DEF SInv, SessionTypes
<1>. QED
  BY <1>1, <1>2, <1>3, <1>4, <1>5, <1>6, ProgramSInv

\* A program ends: its stream is gone, what it sent may still be read.
LEMMA CloseSInv == ASSUME HInv, SInv, NEW c \in Client, Close(c) PROVE SInv'
<1>1. /\ UNCHANGED <<name, clients, unauthenticatedClients, backlog,
                     currentUnauthenticatedClientId, toAuth, fromAuth, fromClient, typed>>
      /\ live' = [live EXCEPT ![c] = FALSE]
      /\ toClient' = [toClient EXCEPT ![c] = <<>>]
      /\ user' = [user EXCEPT ![c] = "gone"]
  BY DEF Close, U!Ends, homeVars, authVars
<1>2. /\ user'[c] = "gone" /\ toClient'[c] = <<>> /\ ~live'[c]
      /\ \A d \in Client : d # c => user'[d] = user[d] /\ toClient'[d] = toClient[d]
                                    /\ live'[d] = live[d]
      /\ toClient' = [d \in Client |-> toClient'[d]]
      /\ typed' \in [Client -> Name \cup {NoRoom}]
  BY <1>1 DEF HInv, HomeTypes, SInv, SessionTypes
<1>3. Outside' = Outside
  BY <1>1 DEF Outside, Queued, Unauthenticated, Ids
<1>4. c \in Outside => Asking(c)'
  BY <1>1, <1>2 DEF SInv, Asking
<1>5. c \in Authenticated => Admitted(c)'
  BY <1>1, <1>2 DEF SInv, Admitted
<1>6. \A id \in Ids \cap Pending : unauthenticatedClients[id] = c => fromClient'[c] = <<>>
  BY <1>1 DEF SInv, OnTheWay
<1>7. <<>> \in Seq(ToSet(<<>>))
  OBVIOUS
<1>. QED
  BY <1>1, <1>2, <1>3, <1>4, <1>5, <1>6, <1>7, ProgramSInv

\* A program reads: the refusal it waited for and nothing else while outside, the
\* welcome and then room frames once inside.
LEMMA ClientRecvSInv == ASSUME HInv, SInv, up, NEW c \in Client, ClientRecv(c) PROVE SInv'
<1>. DEFINE s == toClient[c]
            p == Head(s)
<1>1. /\ UNCHANGED <<name, clients, unauthenticatedClients, backlog, live,
                     currentUnauthenticatedClientId, toAuth, fromAuth, fromClient, typed>>
      /\ live[c] /\ s # <<>> /\ user[c] \in {"waiting", "in", "leaving"}
      /\ user' = [user EXCEPT ![c] = U!UserAfter(c, p)]
  BY DEF ClientRecv, U!Receives, homeVars, authVars
<1>2. PICK k \in RecvCounts(s) : toClient' = [toClient EXCEPT ![c] = AfterRecv(@, k)]
  BY DEF ClientRecv
<1>. DEFINE t == AfterRecv(s, k)
<1>3. s \in Seq(ToSet(s)) /\ toClient = [d \in Client |-> toClient[d]]
  BY DEF SInv, SessionTypes
<1>4. /\ t \in Seq(ToSet(s))
      /\ \A i \in DOMAIN t : \E j \in DOMAIN s : j # 1 /\ t[i] = s[j]
      /\ Len(s) = 1 => t = <<>>
  BY <1>1, <1>2, <1>3, AfterRecvKeeps
<1>5. 1 \in DOMAIN s /\ p = s[1]
  <2>. HIDE DEF s
  <2>1. Len(s) \in Nat \ {0} /\ DOMAIN s = 1 .. Len(s)
    BY <1>1, <1>3, LenProperties, EmptySeq
  <2>2. \A n \in Nat \ {0} : 1 \in 1 .. n
    OBVIOUS
  <2>. QED
    BY <1>3, <2>1, <2>2 DEF p
<1>. HIDE DEF p, t
<1>6. /\ toClient'[c] = t /\ toClient' = [d \in Client |-> toClient'[d]]
      /\ \A d \in Client : d # c => toClient'[d] = toClient[d]
  BY <1>2, <1>3 DEF t
<1>7. t \in Seq(ToSet(t))
  BY <1>4, SeqOfItsSet
<1>8. /\ user'[c] = U!UserAfter(c, p)
      /\ \A d \in Client : d # c => user'[d] = user[d]
      /\ typed' \in [Client -> Name \cup {NoRoom}]
  BY <1>1 DEF HInv, HomeTypes, SInv, SessionTypes
<1>9. Outside' = Outside
  BY <1>1 DEF Outside, Queued, Unauthenticated, Ids
<1>10. /\ U!LOGIN_RESULT = LOGIN_RESULT /\ U!REGISTER_RESULT = REGISTER_RESULT
       /\ LOGIN_RESULT = 6 /\ REGISTER_RESULT = 7
  BY DEF LOGIN_RESULT, REGISTER_RESULT, U!LOGIN_RESULT, U!REGISTER_RESULT
<1>11. c \in Outside \/ c \in Authenticated
  BY <1>1 DEF HInv, Kept, Home, Outside
<1>12. \A id \in Ids \cap Pending : unauthenticatedClients[id] # c
  BY <1>1 DEF SInv, OnTheWay
<1>13. CASE c \in Outside
  <2>1. Asking(c) /\ s = <<p>> /\ Refusal(p) /\ fromClient[c] = <<>>
    BY <1>1, <1>5, <1>13 DEF SInv, Asking
  <2>2. t = <<>>
    <3>1. \A x : Len(<<x>>) = 1
      OBVIOUS
    <3>. HIDE DEF s
    <3>. QED
      BY <1>4, <2>1, <3>1
  <2>3. user'[c] = "idle"
    <3>1. p.type \in {LOGIN_RESULT, REGISTER_RESULT} /\ ~(p.type = LOGIN_RESULT /\ p.success)
      BY <2>1 DEF Refusal, Answer
    <3>2. user[c] = "waiting"
      BY <1>1, <2>1 DEF Asking
    <3>. QED
      BY <1>8, <1>10, <3>1, <3>2 DEF U!UserAfter
  <2>4. Asking(c)'
    BY <1>1, <1>6, <2>1, <2>2, <2>3 DEF Asking
  <2>5. c \notin Authenticated
    BY <1>13 DEF HInv, Kept, Outside
  <2>. QED
    BY <1>1, <1>6, <1>7, <1>8, <1>9, <1>12, <2>1, <2>2, <2>3, <2>4, <2>5, ProgramSInv
<1>14. CASE c \in Authenticated
  <2>1. Admitted(c)
    BY <1>14 DEF SInv
  <2>2. user'[c] \in {"in", "leaving"}
    <3>1. CASE user[c] = "waiting"
      <4>1. p = PacketLoginResult(p.requestId, TRUE, typed[c])
        BY <1>5, <2>1, <3>1 DEF Admitted, Welcome
      <4>2. p.type = LOGIN_RESULT /\ p.success
        BY <4>1 DEF PacketLoginResult
      <4>. QED
        BY <1>8, <1>10, <3>1, <4>2 DEF U!UserAfter
    <3>2. CASE user[c] \in {"in", "leaving"}
      BY <1>8, <3>2 DEF U!UserAfter
    <3>. QED
      BY <1>1, <3>1, <3>2
  <2>3. \A i \in DOMAIN toClient'[c] : ~FullFrame(toClient'[c][i])
    BY <1>4, <1>6, <2>1 DEF Admitted
  <2>4. Admitted(c)'
    BY <1>1, <2>1, <2>2, <2>3 DEF Admitted
  <2>5. c \notin Outside
    BY <1>14 DEF HInv, Kept, Outside
  <2>. QED
    BY <1>1, <1>6, <1>7, <1>8, <1>9, <1>12, <2>2, <2>4, <2>5, ProgramSInv
<1>. QED
  BY <1>11, <1>13, <1>14

\* A step of a client program.
LEMMA UserSInv == ASSUME HInv, SInv, up, NEW c \in Client, User(c) PROVE SInv'
<1>1. CASE AskToLogin(c)
  <2>1. PICK e \in Name, w \in Password :
           \/ SendFrame(c, PacketLoginRequest(0, e, w))
           \/ SendFrame(c, PacketRegisterRequest(0, e, w))
    BY <1>1 DEF AskToLogin
  <2>2. PacketLoginRequest(0, e, w) \in Request /\ PacketRegisterRequest(0, e, w) \in Request
    BY DEF Request, PacketLoginRequest, PacketRegisterRequest
  <2>. QED
    BY <2>1, <2>2, AskSInv
<1>2. ASSUME NEW p, SendFrame(c, p), p.type \in {JOIN_ROOM, SEND_MESSAGE, LEAVE_ROOM}
      PROVE  SInv'
  <2>1. p.type \notin {LOGIN_REQUEST, REGISTER_REQUEST}
    BY <1>2 DEF JOIN_ROOM, SEND_MESSAGE, LEAVE_ROOM, LOGIN_REQUEST, REGISTER_REQUEST
  <2>. QED
    BY <1>2, <2>1, RoomSendSInv
<1>3. /\ \A r, n : /\ PacketJoinRoom(r, n).type = JOIN_ROOM
                   /\ PacketLeaveRoom(r, n).type = LEAVE_ROOM
      /\ \A m : PacketSendMessage(m).type = SEND_MESSAGE
  BY DEF PacketJoinRoom, PacketLeaveRoom, PacketSendMessage
<1>4. CASE SendJoin(c)
  BY <1>2, <1>3, <1>4 DEF SendJoin
<1>5. CASE SendChat(c)
  BY <1>2, <1>3, <1>5 DEF SendChat
<1>6. CASE SendLeave(c)
  BY <1>2, <1>3, <1>6 DEF SendLeave
<1>. QED
  BY <1>1, <1>4, <1>5, <1>6, ConnectSInv, ClientRecvSInv, CloseSInv DEF User

\* A step that moves nothing of a session.
LEMMA UnseenSInv ==
    ASSUME SInv, UNCHANGED session, UNCHANGED <<clients, backlog, unauthenticatedClients>>
    PROVE  SInv'
<1>1. Ids' = Ids /\ Outside' = Outside /\ Authenticated' = Authenticated
  BY DEF Ids, Outside, Queued, Unauthenticated, Authenticated
<1>. QED
  BY <1>1, FewerSInv

\* The second invariant is inductive relative to the first.
LEMMA StepSInv == ASSUME HInv, SInv, [Next]_vars PROVE SInv'
<1>1. CASE AuthDown
  BY <1>1, UnseenSInv DEF AuthDown, session, roomVars, homeVars, userVars
<1>2. CASE UNCHANGED vars
  BY <1>2, UnseenSInv DEF vars, serverVars, session, homeVars, authVars, userVars
<1>3. ASSUME up, NEW c \in Client, User(c) PROVE SInv'
  BY <1>3, UserSInv
<1>. QED
  BY <1>1, <1>2, <1>3, ServerSInv, AuthReplySInv DEF Next

\* Both hold throughout.
LEMMA AlwaysSInv == Spec => [](HInv /\ SInv)
<1>1. Init => SInv
  BY InitSInv
<1>2. HInv /\ SInv /\ [Next]_vars => SInv'
  BY StepSInv
<1>. QED
  BY <1>1, <1>2, AlwaysHInv, PTL DEF Spec

\* A client is authenticated only for the account its own user entered: results
\* are matched to requests by ids that no two requests under way share and that
\* are never given out again.
THEOREM AlwaysAuthenticatedAsTyped == Spec => []AuthenticatedAsTyped
<1>1. SInv => AuthenticatedAsTyped
  BY DEF SInv, Admitted, AuthenticatedAsTyped
<1>. QED
  BY <1>1, AlwaysSInv, PTL

\* The server and a connected client agree on whether it is logged in, up to the
\* result that is on its way.
THEOREM AlwaysSessionAgrees == Spec => []SessionAgrees
<1>1. ASSUME HInv, SInv PROVE SessionAgrees
  <2>. SUFFICES ASSUME NEW c \in Client, up, live[c]
                PROVE  /\ user[c] \in {"in", "leaving"} => c \in Authenticated
                       /\ c \in Authenticated =>
                             \/ user[c] \in {"in", "leaving"}
                             \/ user[c] = "waiting" /\ toClient[c] # <<>>
                                /\ Welcome(toClient[c][1], typed[c])
    BY DEF SessionAgrees, Welcome
  <2>1. c \in Outside \/ c \in Authenticated
    BY <1>1 DEF HInv, Kept, Home, Outside
  <2>2. user[c] # "gone"
    BY <1>1 DEF SInv, SessionTypes
  <2>3. c \in Outside => user[c] \notin {"in", "leaving"}
    BY <1>1 DEF SInv, Asking
  <2>4. c \in Authenticated => Admitted(c)
    BY <1>1 DEF SInv
  <2>. QED
    BY <2>1, <2>2, <2>3, <2>4 DEF Admitted
<1>. QED
  BY <1>1, AlwaysSInv, PTL

\* While its user is asked to log in, nothing is on its way to a client.
THEOREM AlwaysNothingToRead == Spec => []NothingToRead
<1>1. SInv => NothingToRead
  BY DEF SInv, NothingToRead
<1>. QED
  BY <1>1, AlwaysSInv, PTL

-----------------------------------------------------------------------------
(* Rooms.  A third invariant says in which order the packets of a client go:  *)
(* the first joins a room, the one that leaves is the last.                   *)

Joined(c) == c \in DOMAIN clientToRoomMap
AboutToJoin(c) == fromClient[c] # <<>> /\ fromClient[c][1].type = JOIN_ROOM

RoomOrder(c) ==
    /\ fromClient[c] = <<>> \/ Joined(c) \/ AboutToJoin(c)
    /\ user[c] = "in" /\ currentRoom[c] # NoRoom => Joined(c) \/ AboutToJoin(c)
    /\ \A i \in DOMAIN fromClient[c] : fromClient[c][i].type = LEAVE_ROOM =>
          i = Len(fromClient[c]) /\ user[c] \in {"leaving", "gone"}

RInv ==
    /\ \A c \in DOMAIN clientToRoomMap : clientToRoomMap[c] \in DOMAIN rooms
    /\ currentRoom = [c \in Client |-> currentRoom[c]]
    /\ \A c \in Client : user[c] \in {"off", "idle", "waiting"} => currentRoom[c] = NoRoom
    /\ \A c \in Authenticated : RoomOrder(c)

\* What a recv leaves is the end of the stream.
LEMMA AfterRecvEnd ==
    ASSUME NEW F, NEW s \in Seq(F), s # <<>>, NEW k \in RecvCounts(s)
    PROVE  LET t == AfterRecv(s, k) IN
           /\ \A i \in DOMAIN t : i + k \in DOMAIN s /\ t[i] = s[i + k]
           /\ \A i \in DOMAIN t : i + k = Len(s) => i = Len(t)
           /\ 1 = Len(s) => t = <<>>
<1>. DEFINE t == AfterRecv(s, k)
<1>1. Len(s) \in Nat \ {0} /\ DOMAIN s = 1 .. Len(s) /\ \A i \in 1 .. Len(s) : s[i] \in F
  BY LenProperties, ElementOfSeq, EmptySeq
<1>2. k \in 1 .. Len(s)
  <2>1. \A n \in Nat \ {0} : 1 \in 1 .. n
    OBVIOUS
  <2>. QED
    BY <1>1, <2>1 DEF RecvCounts
<1>3. t = SubSeq(s, k + 1, Len(s))
  BY DEF AfterRecv
<1>. DEFINE n == Len(s)
<1>4. /\ DOMAIN t = 1 .. n - k /\ Len(t) = n - k
      /\ \A i \in 1 .. n - k : t[i] = s[i + k] /\ i + k \in 1 .. n
  <2>1. \A m \in Nat \ {0} : \A l \in 1 .. m :
           \A i \in 1 .. m - l : (l + 1) + i - 1 = i + l /\ i + l \in 1 .. m
    OBVIOUS
  <2>6. \A m \in Nat \ {0} : \A l \in 1 .. m :
           m - (l + 1) + 1 = m - l /\ m - l \in Nat /\ (l + 1 <= m \/ m - l = 0)
    OBVIOUS
  <2>2. /\ Len(t) = IF k + 1 <= n THEN n - (k + 1) + 1 ELSE 0
        /\ \A i \in 1 .. n - (k + 1) + 1 : t[i] = s[(k + 1) + i - 1]
        /\ t \in Seq(F)
    <3>1. \A i \in k + 1 .. n : s[i] \in F
      BY <1>1, <1>2
    <3>2. k + 1 \in Int /\ n \in Int
      BY <1>1, <1>2
    <3>. QED
      BY <1>3, <3>1, <3>2, SubSeqProperties
  <2>. HIDE DEF t, n
  <2>3. n - (k + 1) + 1 = n - k /\ n - k \in Nat /\ (k + 1 <= n \/ n - k = 0)
    <3>1. n \in Nat \ {0} /\ k \in 1 .. n
      BY <1>1, <1>2 DEF n
    <3>. QED
      BY <2>6, <3>1
  <2>4. /\ Len(t) = n - k /\ DOMAIN t = 1 .. n - k
        /\ \A i \in 1 .. n - k : t[i] = s[i + k]
    <3>1. \A i \in 1 .. n - k : (k + 1) + i - 1 = i + k
      BY <1>1, <1>2, <2>1 DEF n
    <3>2. Len(t) = n - k
      BY <2>2, <2>3
    <3>3. DOMAIN t = 1 .. n - k
      BY <2>2, <3>2, LenProperties
    <3>. QED
      BY <2>2, <2>3, <3>1, <3>2, <3>3
  <2>5. \A i \in 1 .. n - k : i + k \in 1 .. n
    BY <1>1, <1>2, <2>1 DEF n
  <2>. QED
    BY <2>3, <2>4, <2>5
<1>. HIDE DEF t
<1>5. \A m \in Nat \ {0} : \A l \in 1 .. m : \A i \in 1 .. m - l : i + l = m => i = m - l
  OBVIOUS
<1>6. n = 1 => t = <<>>
  <2>1. \A l \in 1 .. 1 : 1 - l = 0
    OBVIOUS
  <2>2. t \in Seq(F)
    BY AfterRecvKeeps DEF t
  <2>. QED
    BY <1>2, <1>4, <2>1, <2>2, EmptySeq
<1>. QED
  BY <1>1, <1>2, <1>4, <1>5, <1>6 DEF t

\* What a packet does to the map and to the set of rooms.
LEMMA HandlePacketMap ==
    ASSUME NEW c, NEW p, HandlePacket(c, p),
           \A d \in DOMAIN clientToRoomMap : clientToRoomMap[d] \in DOMAIN rooms
    PROVE  /\ \A d \in DOMAIN clientToRoomMap' : clientToRoomMap'[d] \in DOMAIN rooms'
           /\ \A d : d # c => (d \in DOMAIN clientToRoomMap' <=> d \in DOMAIN clientToRoomMap)
           /\ p.type = JOIN_ROOM => c \in DOMAIN clientToRoomMap'
           /\ p.type # LEAVE_ROOM /\ Joined(c) => c \in DOMAIN clientToRoomMap'
<1>1. ASSUME NEW r, NEW n, JoinRoom(c, r, n)
      PROVE  /\ DOMAIN clientToRoomMap' = DOMAIN clientToRoomMap \cup {c}
             /\ \A d \in DOMAIN clientToRoomMap' : clientToRoomMap'[d] \in DOMAIN rooms'
  <2>1. DOMAIN rooms' = DOMAIN rooms \cup {r}
    BY <1>1 DEF JoinRoom, PushMember, RoomsWithout, EraseMember
  <2>2. clientToRoomMap' = InsertEntry(MapWithout(c), c, r)
    BY <1>1 DEF JoinRoom
  <2>3. CASE FindClientRoom(c) = NoRoom
    <3>1. MapWithout(c) = clientToRoomMap
      BY <2>3 DEF MapWithout
    <3>. QED
      BY <2>1, <2>2, <3>1 DEF InsertEntry
  <2>4. CASE FindClientRoom(c) # NoRoom
    <3>1. MapWithout(c) = EraseEntry(clientToRoomMap, c)
      BY <2>4 DEF MapWithout
    <3>. QED
      BY <2>1, <2>2, <3>1 DEF InsertEntry, EraseEntry
  <2>. QED
    BY <2>3, <2>4
<1>2. ASSUME NEW r, NEW n, LeaveRoom(c, r, n)
      PROVE  /\ DOMAIN clientToRoomMap' = DOMAIN clientToRoomMap \ {c}
             /\ \A d \in DOMAIN clientToRoomMap' : clientToRoomMap'[d] \in DOMAIN rooms'
  BY <1>2 DEF LeaveRoom, EraseEntry, EraseMember
<1>3. CASE UNCHANGED <<rooms, clientToRoomMap>> /\ p.type # JOIN_ROOM
  BY <1>3 DEF Joined
<1>4. CASE p.type = JOIN_ROOM
  <2>1. JoinRoom(c, p.room, p.name)
    BY <1>4 DEF HandlePacket, JOIN_ROOM, SEND_MESSAGE
  <2>. QED
    BY <1>1, <2>1
<1>5. CASE p.type = LEAVE_ROOM
  <2>1. LeaveRoom(c, p.room, p.name) /\ p.type # JOIN_ROOM
    BY <1>5 DEF HandlePacket, JOIN_ROOM, LEAVE_ROOM, SEND_MESSAGE
  <2>. QED
    BY <1>2, <1>5, <2>1
<1>6. CASE p.type \notin {JOIN_ROOM, LEAVE_ROOM}
  BY <1>3, <1>6 DEF HandlePacket, SendMessage, SendMessageRoomNotFound, roomVars
<1>. QED
  BY <1>4, <1>5, <1>6

\* The start.
LEMMA InitRInv == ASSUME Init PROVE RInv
<1>1. Authenticated = {}
  BY DEF Init, ServerInit, Authenticated, ToSet
<1>. QED
  BY <1>1 DEF Init, ServerInit, RInv

\* A step that is not about rooms.
LEMMA StillRInv ==
    ASSUME RInv, UNCHANGED <<rooms, clientToRoomMap, user, currentRoom>>,
           \A d \in Authenticated' : d \in Authenticated /\ fromClient'[d] = fromClient[d]
    PROVE  RInv'
BY DEF RInv, RoomOrder, Joined, AboutToJoin

\* A packet: the one that leaves has nothing behind it.
LEMMA ServedRInv ==
    ASSUME HInv, RInv, NEW c \in Authenticated, RecvGets(c),
           HandlePacket(c, Head(fromClient[c])), UNCHANGED <<clients, user, currentRoom>>
    PROVE  RInv'
<1>. DEFINE s == fromClient[c]
            p == Head(s)
<1>1. c \in Client /\ Authenticated \subseteq Client
  BY PlacesAreClients DEF HInv
<1>2. PICK k \in RecvCounts(s) : fromClient' = [fromClient EXCEPT ![c] = AfterRecv(@, k)]
  BY DEF RecvGets
<1>3. s # <<>> /\ s \in Seq(ToSet(s)) /\ fromClient = [d \in Client |-> fromClient[d]]
  BY <1>1 DEF RecvGets, HInv, HomeTypes
<1>. DEFINE t == AfterRecv(s, k)
<1>4. /\ \A i \in DOMAIN t : i + k \in DOMAIN s /\ t[i] = s[i + k]
      /\ \A i \in DOMAIN t : i + k = Len(s) => i = Len(t)
      /\ 1 = Len(s) => t = <<>>
  BY <1>2, <1>3, AfterRecvEnd
<1>5. 1 \in DOMAIN s /\ p = s[1]
  BY <1>1, RecvLeaves DEF HInv
<1>6. fromClient'[c] = t /\ \A d \in Client : d # c => fromClient'[d] = fromClient[d]
  BY <1>1, <1>2, <1>3
<1>. HIDE DEF t, p
<1>7. RoomOrder(c)
  BY DEF RInv
<1>8. /\ \A d \in DOMAIN clientToRoomMap' : clientToRoomMap'[d] \in DOMAIN rooms'
      /\ \A d : d # c => (d \in DOMAIN clientToRoomMap' <=> d \in DOMAIN clientToRoomMap)
      /\ p.type = JOIN_ROOM => c \in DOMAIN clientToRoomMap'
      /\ p.type # LEAVE_ROOM /\ Joined(c) => c \in DOMAIN clientToRoomMap'
  BY HandlePacketMap DEF RInv, p
<1>9. Joined(c) \/ p.type = JOIN_ROOM
  BY <1>3, <1>5, <1>7 DEF RoomOrder, AboutToJoin
<1>10. p.type = LEAVE_ROOM => t = <<>> /\ user[c] \in {"leaving", "gone"}
  BY <1>4, <1>5, <1>7 DEF RoomOrder
<1>11. RoomOrder(c)'
  <2>1. c \in DOMAIN clientToRoomMap' \/ (t = <<>> /\ user[c] \in {"leaving", "gone"})
    BY <1>8, <1>9, <1>10
  <2>2. ASSUME NEW i \in DOMAIN t, t[i].type = LEAVE_ROOM
        PROVE  i = Len(t) /\ user[c] \in {"leaving", "gone"}
    BY <1>4, <1>7, <2>2 DEF RoomOrder
  <2>. QED
    BY <1>6, <2>1, <2>2 DEF RoomOrder, Joined
<1>12. ASSUME NEW d \in Authenticated, d # c PROVE RoomOrder(d)'
  <2>1. RoomOrder(d) /\ fromClient'[d] = fromClient[d]
    BY <1>1, <1>6, <1>12 DEF RInv
  <2>. QED
    BY <1>8, <1>12, <2>1 DEF RoomOrder, Joined, AboutToJoin
<1>13. Authenticated' = Authenticated
  BY DEF Authenticated
<1>. QED
  BY <1>8, <1>11, <1>12, <1>13 DEF RInv

\* A client that is let in has sent nothing yet.
LEMMA AuthRecvRInv ==
    ASSUME HInv, SInv, RInv, AuthRecv, UNCHANGED userVars
    PROVE  RInv'
<1>1. UNCHANGED <<rooms, clientToRoomMap, user, currentRoom, fromClient>>
  BY DEF AuthRecv, userVars
<1>2. CASE UNCHANGED clients
  <2>1. Authenticated' = Authenticated
    BY <1>2 DEF Authenticated
  <2>. QED
    BY <1>1, <2>1, StillRInv
<1>3. CASE /\ answers # <<>> /\ Head(answers).requestId \in Ids
           /\ clients' = Append(clients, unauthenticatedClients[Head(answers).requestId])
  <2>1. 1 \in DOMAIN answers /\ Head(answers) = answers[1]
    <3>1. answers \in Seq(Answer)
      BY DEF SInv, SessionTypes
    <3>2. Len(answers) \in Nat \ {0} /\ DOMAIN answers = 1 .. Len(answers)
      BY <1>3, <3>1, LenProperties, EmptySeq
    <3>3. \A n \in Nat \ {0} : 1 \in 1 .. n
      OBVIOUS
    <3>. QED
      BY <3>1, <3>2, <3>3
  <2>2. Head(answers).requestId \in Pending
    BY <2>1 DEF Pending, IdSeq, ToSet
  <2>3. PICK c \in Client : /\ c = unauthenticatedClients[Head(answers).requestId]
                            /\ c \in Unauthenticated /\ fromClient[c] = <<>>
    <3>. DEFINE j == Head(answers).requestId
    <3>1. j \in Ids \cap Pending
      BY <1>3, <2>2
    <3>. HIDE DEF j
    <3>2. unauthenticatedClients[j] \in Client /\ unauthenticatedClients[j] \in Unauthenticated
      BY <3>1 DEF HInv, HomeTypes, Unauthenticated
    <3>3. fromClient[unauthenticatedClients[j]] = <<>>
      BY <3>1 DEF SInv, OnTheWay
    <3>. QED
      BY <3>2, <3>3 DEF j
  <2>4. user[c] # "in" /\ c \notin Authenticated
    BY <2>3 DEF SInv, Asking, Outside, HInv, Kept
  <2>5. Authenticated' = Authenticated \cup {c}
    BY <1>3, <2>3, <2>4, AppendOnce DEF HInv, HomeTypes, Kept, Authenticated
  <2>6. RoomOrder(c)'
    BY <1>1, <2>3, <2>4 DEF RoomOrder
  <2>7. ASSUME NEW d \in Authenticated PROVE RoomOrder(d)'
    BY <1>1 DEF RInv, RoomOrder, Joined, AboutToJoin
  <2>. QED
    BY <1>1, <2>5, <2>6, <2>7 DEF RInv
<1>. QED
  BY <1>2, <1>3 DEF AuthRecv, DispatchResult, LoginResult, RegisterResult, answers

\* A step of the server's thread.
LEMMA ServerRInv == ASSUME HInv, SInv, RInv, ServerStep PROVE RInv'
<1>1. UNCHANGED userVars
  BY DEF ServerStep
<1>2. ASSUME UNCHANGED <<rooms, clientToRoomMap, clients, fromClient>> PROVE RInv'
  <2>1. Authenticated' = Authenticated
    BY <1>2 DEF Authenticated
  <2>. QED
    BY <1>1, <1>2, <2>1, StillRInv DEF userVars
<1>3. CASE Select \/ Accept \/ ClientsServed \/ RemoveInvalid
  BY <1>2, <1>3 DEF Select, Accept, ClientsServed, RemoveInvalid, roomVars, homeVars
<1>4. CASE ServeUnauthenticated
  <2>. DEFINE id == Min(UnauthToServe)
              c == unauthenticatedClients[id]
  <2>1. UNCHANGED <<rooms, clientToRoomMap, clients>>
        /\ (RecvGets(c) \/ UNCHANGED fromClient) /\ UnauthToServe # {}
    BY <1>4 DEF ServeUnauthenticated, roomVars
  <2>2. id \in Ids
    <3>1. Ids \subseteq Nat
      <4>1. \A n \in Nat : \A m \in 0 .. n - 1 : m \in Nat
        OBVIOUS
      <4>. QED
        BY <4>1 DEF HInv, HomeTypes
    <3>2. UnauthToServe \in SUBSET Nat /\ UnauthToServe \subseteq Ids
      BY <3>1 DEF UnauthToServe
    <3>3. id \in UnauthToServe
      BY <2>1, <3>2, MinOfNaturals
    <3>. QED
      BY <3>2, <3>3
  <2>. HIDE DEF id
  <2>3. c \in Client /\ c \notin Authenticated
    BY <2>2 DEF HInv, HomeTypes, Kept, Unauthenticated
  <2>4. \A d \in Client : d # c => fromClient'[d] = fromClient[d]
    <3>. HIDE DEF c
    <3>. QED
      BY <2>1, <2>3, RecvLeaves DEF HInv
  <2>5. Authenticated' = Authenticated /\ Authenticated \subseteq Client
    BY <2>1, PlacesAreClients DEF Authenticated, HInv
  <2>. HIDE DEF c
  <2>. QED
    BY <1>1, <2>1, <2>3, <2>4, <2>5, StillRInv DEF userVars
<1>5. CASE ServeClient
  <2>. DEFINE k == Max(ClientsToServe)
              c == clients[k]
  <2>1. \/ RecvGets(c) /\ HandlePacket(c, Head(fromClient[c])) /\ UNCHANGED clients
        \/ clients' = SwapRemove(k) /\ UNCHANGED <<rooms, clientToRoomMap, fromClient>>
    BY <1>5 DEF ServeClient, roomVars
  <2>2. k \in 1 .. Len(clients) /\ c \in Authenticated
    BY <1>5, ServedPosition
  <2>. HIDE DEF k
  <2>3. CASE RecvGets(c) /\ HandlePacket(c, Head(fromClient[c])) /\ UNCHANGED clients
    <3>1. PICK b \in Authenticated : b = c
      BY <2>2
    <3>2. RecvGets(b) /\ HandlePacket(b, Head(fromClient[b]))
      BY <2>3, <3>1
    <3>. QED
      BY <1>1, <2>3, <3>2, ServedRInv DEF userVars
  <2>4. CASE clients' = SwapRemove(k) /\ UNCHANGED <<rooms, clientToRoomMap, fromClient>>
    <3>1. Authenticated' \subseteq Authenticated
      BY <2>2, <2>4, SwapRemoveShrinks
    <3>. QED
      BY <1>1, <2>4, <3>1, StillRInv DEF userVars
  <2>. QED
    BY <2>1, <2>3, <2>4
<1>. QED
  BY <1>1, <1>3, <1>4, <1>5, AuthRecvRInv DEF ServerStep, Server

\* A step of one client program: its order is what counts.
LEMMA ProgramRInv ==
    ASSUME HInv, RInv, NEW c \in Client, UNCHANGED <<rooms, clientToRoomMap, clients>>,
           \A d \in Client : d # c => /\ user'[d] = user[d] /\ currentRoom'[d] = currentRoom[d]
                                      /\ fromClient'[d] = fromClient[d],
           currentRoom' = [d \in Client |-> currentRoom'[d]],
           user'[c] \in {"off", "idle", "waiting"} => currentRoom'[c] = NoRoom,
           c \in Authenticated => RoomOrder(c)'
    PROVE  RInv'
<1>1. Authenticated' = Authenticated /\ Authenticated \subseteq Client
  BY PlacesAreClients DEF Authenticated, HInv
<1>2. ASSUME NEW d \in Authenticated, d # c PROVE RoomOrder(d)'
  <2>1. RoomOrder(d) /\ d \in Client
    BY <1>1 DEF RInv
  <2>. QED
    BY <1>2, <2>1 DEF RoomOrder, Joined, AboutToJoin
<1>. QED
  BY <1>1, <1>2 DEF RInv

\* What a program sends, and what its user did for it.
LEMMA SendRInv ==
    ASSUME HInv, SInv, RInv, NEW c \in Client, NEW p, SendFrame(c, p)
    PROVE  RInv'
<1>1. /\ UNCHANGED <<rooms, clientToRoomMap, clients>>
      /\ fromClient'[c] = Append(fromClient[c], p)
      /\ fromClient[c] \in Seq(ToSet(fromClient[c]))
      /\ \A d \in Client : d # c => fromClient'[d] = fromClient[d]
  BY FrameSent DEF SendFrame, Send, homeVars
<1>2. \/ /\ user[c] = "idle" /\ user' = [user EXCEPT ![c] = "waiting"] /\ currentRoom' = currentRoom
      \/ /\ user[c] = "in" /\ user' = user /\ p.type = JOIN_ROOM
         /\ currentRoom' = [currentRoom EXCEPT ![c] = p.room]
      \/ /\ user[c] = "in" /\ user' = user /\ p.type = SEND_MESSAGE
         /\ currentRoom[c] # NoRoom /\ currentRoom' = currentRoom
      \/ /\ user[c] = "in" /\ user' = [user EXCEPT ![c] = "leaving"] /\ p.type = LEAVE_ROOM
         /\ currentRoom[c] # NoRoom /\ currentRoom' = currentRoom
  <2>1. U!Sends(c, p)
    BY DEF SendFrame
  <2>2. /\ U!JOIN_ROOM = JOIN_ROOM /\ U!LEAVE_ROOM = LEAVE_ROOM /\ U!SEND_MESSAGE = SEND_MESSAGE
    BY DEF JOIN_ROOM, LEAVE_ROOM, SEND_MESSAGE, U!JOIN_ROOM, U!LEAVE_ROOM, U!SEND_MESSAGE
  <2>. QED
    BY <2>1, <2>2 DEF U!Sends, U!Ask, U!Join, U!Chat, U!Leave, U!userVars
<1>3. /\ \A d \in Client : d # c => user'[d] = user[d] /\ currentRoom'[d] = currentRoom[d]
      /\ currentRoom' = [d \in Client |-> currentRoom'[d]]
      /\ user' = [d \in Client |-> user'[d]]
  BY <1>2 DEF HInv, HomeTypes, RInv
<1>4. /\ user'[c] = "waiting" => user[c] = "idle" /\ currentRoom'[c] = NoRoom
      /\ user'[c] \in {"waiting", "in", "leaving"}
  BY <1>2 DEF HInv, HomeTypes, RInv
<1>5. ASSUME c \in Authenticated PROVE RoomOrder(c)'
  <2>1. user[c] = "in" /\ RoomOrder(c)
    BY <1>2, <1>5 DEF SInv, Admitted, RInv
  <2>. DEFINE s == fromClient[c]
              t == Append(s, p)
  <2>2. /\ t # <<>> /\ DOMAIN t = 1 .. Len(s) + 1 /\ Len(t) = Len(s) + 1
        /\ t[Len(s) + 1] = p /\ \A i \in DOMAIN s : t[i] = s[i]
        /\ DOMAIN s = 1 .. Len(s) /\ Len(s) \in Nat
        /\ s = <<>> => t[1] = p
        /\ s # <<>> => t[1] = s[1]
    <3>1. s \in Seq(ToSet(s) \cup {p})
      <4>1. s \in Seq(ToSet(s))
        BY <1>1
      <4>2. \A A, B : A \subseteq B => Seq(A) \subseteq Seq(B)
        OBVIOUS
      <4>. HIDE DEF s
      <4>. QED
        BY <4>1, <4>2
    <3>. HIDE DEF s
    <3>2. /\ t \in Seq(ToSet(s) \cup {p}) /\ Len(t) = Len(s) + 1 /\ t[Len(s) + 1] = p
          /\ \A i \in 1 .. Len(s) : t[i] = s[i]
      BY <3>1, AppendProperties
    <3>3. Len(s) \in Nat /\ DOMAIN s = 1 .. Len(s) /\ DOMAIN t = 1 .. Len(s) + 1
      BY <3>1, <3>2, LenProperties
    <3>. HIDE DEF t
    <3>4. t # <<>>
      <4>1. \A n \in Nat : n + 1 # 0
        OBVIOUS
      <4>. QED
        BY <3>2, <3>3, <4>1, EmptySeq
    <3>5. s = <<>> => Len(s) = 0 /\ 0 + 1 = 1
      BY <3>1, EmptySeq
    <3>6. s # <<>> => 1 \in 1 .. Len(s)
      <4>1. \A n \in Nat \ {0} : 1 \in 1 .. n
        OBVIOUS
      <4>. QED
        BY <3>1, <3>3, <4>1, EmptySeq
    <3>. QED
      BY <3>2, <3>3, <3>4, <3>5, <3>6
  <2>3. \A i \in DOMAIN s : s[i].type # LEAVE_ROOM
    BY <2>1 DEF RoomOrder
  <2>. HIDE DEF s, t
  <2>4. ASSUME NEW i \in DOMAIN t, t[i].type = LEAVE_ROOM PROVE i = Len(t) /\ p.type = LEAVE_ROOM
    <3>1. \A n \in Nat : \A m \in 1 .. n + 1 : m \in 1 .. n \/ m = n + 1
      OBVIOUS
    <3>2. i \in DOMAIN s \/ i = Len(s) + 1
      BY <2>2, <3>1
    <3>. QED
      BY <2>2, <2>3, <2>4, <3>2
  <2>5. p.type = LEAVE_ROOM => user'[c] = "leaving"
    BY <1>2, <2>1 DEF HInv, HomeTypes, JOIN_ROOM, LEAVE_ROOM, SEND_MESSAGE
  <2>6. Joined(c) \/ t[1].type = JOIN_ROOM
    <3>1. CASE p.type = JOIN_ROOM
      BY <2>1, <2>2, <3>1 DEF RoomOrder, AboutToJoin, s
    <3>2. CASE currentRoom[c] # NoRoom
      BY <2>1, <2>2, <3>2 DEF RoomOrder, AboutToJoin, s
    <3>. QED
      BY <1>2, <2>1, <3>1, <3>2
  <2>7. fromClient'[c] = t
    BY <1>1 DEF s, t
  <2>. QED
    BY <1>1, <2>2, <2>4, <2>5, <2>6, <2>7 DEF RoomOrder, Joined, AboutToJoin
<1>6. user'[c] \in {"off", "idle", "waiting"} => currentRoom'[c] = NoRoom
  BY <1>4
<1>. QED
  BY <1>1, <1>3, <1>5, <1>6, ProgramRInv

\* A step of a client program.
LEMMA UserRInv == ASSUME HInv, SInv, RInv, SInv', up, NEW c \in Client, User(c) PROVE RInv'
<1>1. ASSUME UNCHANGED <<rooms, clientToRoomMap, clients, fromClient, currentRoom>>,
             \A d \in Client : d # c => user'[d] = user[d],
             user'[c] \in {"off", "idle", "waiting"} => currentRoom[c] = NoRoom,
             c \in Authenticated => (user'[c] = "in" => user[c] = "in" \/ currentRoom[c] = NoRoom)
                                    /\ (user[c] \in {"leaving", "gone"} => user'[c] \in {"leaving", "gone"})
      PROVE  RInv'
  <2>1. c \in Authenticated => RoomOrder(c)'
    BY <1>1 DEF RInv, RoomOrder, Joined, AboutToJoin
  <2>2. currentRoom' = [d \in Client |-> currentRoom'[d]]
    BY <1>1 DEF RInv
  <2>. QED
    BY <1>1, <2>1, <2>2, ProgramRInv
<1>2. CASE Connect(c)
  <2>1. /\ UNCHANGED <<rooms, clientToRoomMap, clients, fromClient, currentRoom>>
        /\ user[c] = "off" /\ user' = [user EXCEPT ![c] = "idle"]
    BY <1>2 DEF Connect, roomVars, homeVars
  <2>2. user'[c] = "idle" /\ \A d \in Client : d # c => user'[d] = user[d]
    BY <2>1 DEF HInv, HomeTypes
  <2>3. currentRoom[c] = NoRoom
    BY <2>1 DEF RInv
  <2>. QED
    BY <1>1, <2>1, <2>2, <2>3
<1>3. CASE ClientRecv(c)
  <2>1. /\ UNCHANGED <<rooms, clientToRoomMap, clients, fromClient, currentRoom>>
        /\ user[c] \in {"waiting", "in", "leaving"} /\ live[c]
        /\ user' = [user EXCEPT ![c] = U!UserAfter(c, Head(toClient[c]))]
    BY <1>3 DEF ClientRecv, U!Receives, homeVars
  <2>2. /\ user[c] # "waiting" => user'[c] = user[c]
        /\ user'[c] \in {"waiting", "in", "idle", "leaving"}
        /\ \A d \in Client : d # c => user'[d] = user[d]
    BY <2>1 DEF HInv, HomeTypes, U!UserAfter
  <2>3. user[c] = "waiting" => currentRoom[c] = NoRoom
    BY DEF RInv
  <2>. QED
    BY <1>1, <2>1, <2>2, <2>3
<1>4. CASE Close(c)
  <2>1. /\ UNCHANGED <<rooms, clientToRoomMap, clients, fromClient, currentRoom>>
        /\ user' = [user EXCEPT ![c] = "gone"]
    BY <1>4 DEF Close, U!Ends, homeVars
  <2>2. user'[c] = "gone" /\ \A d \in Client : d # c => user'[d] = user[d]
    BY <2>1 DEF HInv, HomeTypes
  <2>. QED
    BY <1>1, <2>1, <2>2
<1>5. (\E p : SendFrame(c, p)) => RInv'
  BY SendRInv
<1>6. AskToLogin(c) \/ SendJoin(c) \/ SendChat(c) \/ SendLeave(c) => \E p : SendFrame(c, p)
  BY DEF AskToLogin, SendJoin, SendChat, SendLeave
<1>. QED
  BY <1>2, <1>3, <1>4, <1>5, <1>6 DEF User

\* The third invariant is inductive relative to the others.
LEMMA StepRInv == ASSUME HInv, SInv, RInv, SInv', [Next]_vars PROVE RInv'
<1>1. CASE AuthReply \/ AuthDown
  BY <1>1, StillRInv DEF AuthReply, AuthDown, roomVars, homeVars, userVars, Authenticated
<1>2. CASE UNCHANGED vars
  BY <1>2, StillRInv DEF vars, serverVars, homeVars, userVars, Authenticated
<1>3. ASSUME up, NEW c \in Client, User(c) PROVE RInv'
  BY <1>3, UserRInv
<1>. QED
  BY <1>1, <1>2, <1>3, ServerRInv DEF Next

\* It holds throughout.
LEMMA AlwaysRInv == Spec => []RInv
<1>1. HInv /\ SInv /\ RInv /\ SInv' /\ [Next]_vars => RInv'
  BY StepRInv
<1>. QED
  BY InitRInv, <1>1, AlwaysSInv, PTL DEF Spec

\* A message is read when the server has its sender in a room, so that the
\* undefined printf is never reached, although a Join packet that was sent
\* together with another may be dropped: the first that is sent is not.
THEOREM AlwaysSenderInRoom == Spec => []SenderInRoom
<1>1. ASSUME HInv, RInv PROVE SenderInRoom
  <2>. SUFFICES ASSUME NEW c \in Authenticated, fromClient[c] # <<>>,
                       Head(fromClient[c]).type = SEND_MESSAGE
                PROVE  FindClientRoom(c) \in DOMAIN rooms
    BY DEF SenderInRoom
  <2>1. fromClient[c] \in Seq(ToSet(fromClient[c]))
    BY <1>1, PlacesAreClients DEF HInv, HomeTypes
  <2>2. Head(fromClient[c]) = fromClient[c][1]
    BY <2>1
  <2>3. SEND_MESSAGE # JOIN_ROOM
    BY DEF SEND_MESSAGE, JOIN_ROOM
  <2>4. Joined(c)
    BY <1>1, <2>2, <2>3 DEF RInv, RoomOrder, AboutToJoin
  <2>. QED
    BY <1>1, <2>4 DEF RInv, Joined, FindClientRoom
<1>. QED
  BY <1>1, AlwaysHInv, AlwaysRInv, PTL

-----------------------------------------------------------------------------
(* Entries.  A fourth invariant: every entry of a client that does not leave  *)
(* is the one its map entry names.                                          *)

\* In the rooms rs client d is listed at most once, in room r.
ListedIn(rs, r, d) ==
    \A q \in DOMAIN rs : \A i \in DOMAIN rs[q] :
        rs[q][i] = d => q = r /\ \A j \in DOMAIN rs[q] : rs[q][j] = d => i = j

Settled(d) == ListedIn(rooms, FindClientRoom(d), d)

EInv ==
    /\ NoRoom \notin DOMAIN rooms
    /\ \A c \in Client : \A i \in DOMAIN fromClient[c] :
          fromClient[c][i].type = JOIN_ROOM => fromClient[c][i].room # NoRoom
    /\ \A c \in Client : user[c] \notin {"leaving", "gone"} => Settled(c)

\* Removing a first occurrence closes one gap.
LEMMA RemoveFirstShifts ==
    ASSUME NEW S, NEW s \in Seq(S), NEW e
    PROVE  LET t == RemoveFirst(s, e) IN
           /\ \A i \in DOMAIN t : \E a \in DOMAIN s : t[i] = s[a]
           /\ \A i, j \in DOMAIN t : i # j =>
                 \E a, b \in DOMAIN s : a # b /\ t[i] = s[a] /\ t[j] = s[b]
           /\ (\A a, b \in DOMAIN s : s[a] = e /\ s[b] = e => a = b)
                 => \A i \in DOMAIN t : t[i] # e
<1>. DEFINE t == RemoveFirst(s, e)
<1>1. DOMAIN s = 1 .. Len(s) /\ Len(s) \in Nat
  BY LenProperties
<1>2. CASE \A i \in 1 .. Len(s) : s[i] # e
  <2>1. t = s
    BY <1>2 DEF RemoveFirst
  <2>. QED
    BY <1>1, <1>2, <2>1
<1>3. CASE \E i \in 1 .. Len(s) : s[i] = e
  <2>1. PICK k \in 1 .. Len(s) :
              /\ s[k] = e
              /\ t \in Seq(S) /\ Len(t) = Len(s) - 1
              /\ \A i \in 1 .. Len(s) - 1 : t[i] = IF i < k THEN s[i] ELSE s[i + 1]
    BY <1>3, RemoveFirstGap
  <2>. HIDE DEF t
  <2>2. DOMAIN t = 1 .. Len(s) - 1
    BY <2>1, LenProperties
  <2>. DEFINE g(i) == IF i < k THEN i ELSE i + 1
  <2>3. \A i \in DOMAIN t : g(i) \in DOMAIN s /\ g(i) # k /\ t[i] = s[g(i)]
    <3>1. \A n \in Nat : \A m \in 1 .. n : \A i \in 1 .. n - 1 :
             /\ i < m => i \in 1 .. n /\ i # m
             /\ ~(i < m) => i + 1 \in 1 .. n /\ i + 1 # m
      OBVIOUS
    <3>. QED
      BY <1>1, <2>1, <2>2, <3>1
  <2>4. \A i, j \in DOMAIN t : i # j => g(i) # g(j)
    BY <1>1, <2>2
  <2>. HIDE DEF g
  <2>5. \A i, j \in DOMAIN t : i # j =>
           \E a, b \in DOMAIN s : a # b /\ t[i] = s[a] /\ t[j] = s[b]
    BY <2>3, <2>4
  <2>. QED
    BY <1>1, <2>1, <2>3, <2>5 DEF t
<1>. QED
  BY <1>1, <1>2, <1>3

\* Removing a client from a room leaves every other where it was, and the
\* client nowhere if it was listed there and only once.
LEMMA EraseListedIn ==
    ASSUME NEW rs, Lists(rs), NEW c, NEW q, NEW r, NEW d, ListedIn(rs, r, d)
    PROVE  LET es == EraseMember(rs, c, q) IN
           /\ ListedIn(es, r, d)
           /\ d = c /\ q = r => \A x \in DOMAIN es : \A i \in DOMAIN es[x] : es[x][i] # c
<1>. DEFINE es == EraseMember(rs, c, q)
<1>1. DOMAIN es = DOMAIN rs
      /\ \A x \in DOMAIN rs : es[x] = IF x = q THEN RemoveFirst(rs[q], c) ELSE rs[x]
  BY DEF EraseMember, Lists
<1>2. \A x \in DOMAIN rs : rs[x] \in Seq(Client)
  BY DEF Lists
<1>. HIDE DEF es
<1>3. ASSUME NEW x \in DOMAIN es, x # q
      PROVE  /\ \A i \in DOMAIN es[x] : es[x][i] = d =>
                   x = r /\ \A j \in DOMAIN es[x] : es[x][j] = d => i = j
             /\ d = c /\ q = r => \A i \in DOMAIN es[x] : es[x][i] # c
  BY <1>1, <1>3 DEF ListedIn
<1>4. ASSUME q \in DOMAIN es
      PROVE  /\ \A i \in DOMAIN es[q] : es[q][i] = d =>
                   q = r /\ \A j \in DOMAIN es[q] : es[q][j] = d => i = j
             /\ d = c /\ q = r => \A i \in DOMAIN es[q] : es[q][i] # c
  <2>. DEFINE s == rs[q]
              t == RemoveFirst(s, c)
  <2>1. es[q] = t /\ s \in Seq(Client)
    BY <1>1, <1>2, <1>4
  <2>2. \A i \in DOMAIN s : s[i] = d => q = r /\ \A j \in DOMAIN s : s[j] = d => i = j
    BY <1>1, <1>4 DEF ListedIn
  <2>. HIDE DEF s
  <2>3. /\ \A i \in DOMAIN t : \E a \in DOMAIN s : t[i] = s[a]
        /\ \A i, j \in DOMAIN t : i # j =>
              \E a, b \in DOMAIN s : a # b /\ t[i] = s[a] /\ t[j] = s[b]
        /\ (\A a, b \in DOMAIN s : s[a] = c /\ s[b] = c => a = b) => \A i \in DOMAIN t : t[i] # c
    BY <2>1, RemoveFirstShifts
  <2>. HIDE DEF t
  <2>4. ASSUME NEW i \in DOMAIN t, t[i] = d
        PROVE  q = r /\ \A j \in DOMAIN t : t[j] = d => i = j
    BY <2>2, <2>3, <2>4
  <2>5. d = c => \A i \in DOMAIN t : t[i] # c
    BY <2>2, <2>3
  <2>. QED
    BY <2>1, <2>4, <2>5
<1>5. ListedIn(es, r, d)
  BY <1>3, <1>4 DEF ListedIn
<1>. QED
  BY <1>3, <1>4, <1>5 DEF es

\* A client that is pushed is listed in that room if it was in none; another
\* stays where it was.
LEMMA PushListedIn ==
    ASSUME NEW rs, Lists(rs), NEW c \in Client, NEW q, NEW r, NEW d,
           \/ d # c /\ ListedIn(rs, r, d)
           \/ d = c /\ q = r /\ \A x \in DOMAIN rs : \A i \in DOMAIN rs[x] : rs[x][i] # c
    PROVE  ListedIn(PushMember(rs, c, q), r, d)
<1>. DEFINE ps == PushMember(rs, c, q)
            s == Members(rs, q)
            t == Append(s, c)
<1>1. DOMAIN ps = DOMAIN rs \cup {q} /\ \A x \in DOMAIN ps : ps[x] = IF x = q THEN t ELSE rs[x]
  BY DEF PushMember
<1>2. s \in Seq(Client)
  BY EmptySeq DEF Members, Lists
<1>3. /\ d # c => \A i \in DOMAIN s : s[i] = d => q = r /\ \A j \in DOMAIN s : s[j] = d => i = j
      /\ d = c => \A i \in DOMAIN s : s[i] # c
  BY DEF Members, ListedIn
<1>. HIDE DEF s, ps
<1>4. /\ DOMAIN t = 1 .. Len(s) + 1 /\ DOMAIN s = 1 .. Len(s) /\ Len(s) \in Nat
      /\ \A i \in 1 .. Len(s) : t[i] = s[i]
      /\ t[Len(s) + 1] = c
  <2>1. /\ t \in Seq(Client) /\ Len(t) = Len(s) + 1 /\ t[Len(s) + 1] = c
        /\ \A i \in 1 .. Len(s) : t[i] = s[i]
    BY <1>2, AppendProperties
  <2>. HIDE DEF t
  <2>. QED
    BY <1>2, <2>1, LenProperties
<1>. HIDE DEF t
<1>5. \A i \in DOMAIN t : i \in DOMAIN s \/ i = Len(s) + 1
  <2>1. \A n \in Nat : \A i \in 1 .. n + 1 : i \in 1 .. n \/ i = n + 1
    OBVIOUS
  <2>. QED
    BY <1>4, <2>1
<1>6. ASSUME NEW i \in DOMAIN t, t[i] = d
      PROVE  q = r /\ \A j \in DOMAIN t : t[j] = d => i = j
  BY <1>3, <1>4, <1>5, <1>6
<1>7. ASSUME NEW x \in DOMAIN ps, x # q, NEW i \in DOMAIN ps[x], ps[x][i] = d
      PROVE  x = r /\ \A j \in DOMAIN ps[x] : ps[x][j] = d => i = j
  BY <1>1, <1>7 DEF ListedIn
<1>. QED
  BY <1>1, <1>6, <1>7 DEF ListedIn, ps


\* A packet keeps the entries of all but the client that leaves by it.
LEMMA HandlePacketEntries ==
    ASSUME Lists(rooms), NoRoom \notin DOMAIN rooms,
           \A d \in DOMAIN clientToRoomMap : clientToRoomMap[d] \in DOMAIN rooms,
           NEW c \in Client, NEW p, HandlePacket(c, p),
           p.type = JOIN_ROOM => p.room # NoRoom
    PROVE  /\ NoRoom \notin DOMAIN rooms'
           /\ \A d : Settled(d) /\ (d = c => p.type # LEAVE_ROOM) => Settled(d)'
<1>1. ASSUME NEW r, NEW n, r # NoRoom, JoinRoom(c, r, n)
      PROVE  NoRoom \notin DOMAIN rooms' /\ \A d : Settled(d) => Settled(d)'
  <2>. DEFINE ws == RoomsWithout(c)
              own == FindClientRoom(c)
  <2>1. rooms' = PushMember(ws, c, r) /\ clientToRoomMap' = InsertEntry(MapWithout(c), c, r)
    BY <1>1 DEF JoinRoom
  <2>2. DOMAIN ws = DOMAIN rooms
    BY DEF RoomsWithout, EraseMember
  <2>3. Lists(ws)
    BY EraseMemberLists DEF RoomsWithout
  <2>4. own = NoRoom => c \notin DOMAIN clientToRoomMap
    BY DEF FindClientRoom
  <2>5. /\ clientToRoomMap' = [d \in DOMAIN clientToRoomMap' |-> clientToRoomMap'[d]]
        /\ DOMAIN clientToRoomMap' = DOMAIN clientToRoomMap \cup {c}
        /\ clientToRoomMap'[c] = r
        /\ \A d : d # c => FindClientRoom(d)' = FindClientRoom(d)
    <3>1. CASE own = NoRoom
      <4>1. MapWithout(c) = clientToRoomMap
        BY <3>1 DEF MapWithout
      <4>. QED
        BY <2>1, <2>4, <3>1, <4>1 DEF InsertEntry, FindClientRoom
    <3>2. CASE own # NoRoom
      <4>1. MapWithout(c) = EraseEntry(clientToRoomMap, c) /\ c \in DOMAIN clientToRoomMap
        BY <3>2 DEF MapWithout, FindClientRoom
      <4>. QED
        BY <2>1, <4>1 DEF InsertEntry, EraseEntry, FindClientRoom
    <3>. QED
      BY <3>1, <3>2
  <2>6. FindClientRoom(c)' = r
    BY <2>5 DEF FindClientRoom
  <2>7. ASSUME NEW d, Settled(d), d # c PROVE Settled(d)'
    <3>1. ListedIn(rooms, FindClientRoom(d), d)
      BY <2>7 DEF Settled
    <3>2. ListedIn(ws, FindClientRoom(d), d)
      <4>1. ListedIn(EraseMember(rooms, c, own), FindClientRoom(d), d)
        BY <3>1, EraseListedIn
      <4>. QED
        BY <3>1, <4>1 DEF RoomsWithout
    <3>. HIDE DEF ws
    <3>3. ListedIn(PushMember(ws, c, r), FindClientRoom(d), d)
      BY <2>3, <2>7, <3>2, PushListedIn
    <3>. QED
      BY <2>1, <2>5, <2>7, <3>3 DEF Settled
  <2>8. ASSUME Settled(c) PROVE Settled(c)'
    <3>1. ListedIn(rooms, own, c)
      BY <2>8 DEF Settled
    <3>2. \A x \in DOMAIN ws : \A i \in DOMAIN ws[x] : ws[x][i] # c
      <4>1. CASE own = NoRoom
        <5>1. ws = rooms
          BY <4>1 DEF RoomsWithout
        <5>. HIDE DEF ws
        <5>. QED
          BY <3>1, <4>1, <5>1 DEF ListedIn
      <4>2. CASE own # NoRoom
        <5>1. ws = EraseMember(rooms, c, own)
          BY <4>2 DEF RoomsWithout
        <5>. HIDE DEF ws
        <5>. QED
          BY <3>1, <5>1, EraseListedIn
      <4>. QED
        BY <4>1, <4>2
    <3>. HIDE DEF ws
    <3>3. ListedIn(PushMember(ws, c, r), r, c)
      BY <2>3, <3>2, PushListedIn
    <3>. QED
      BY <2>1, <2>6, <3>3 DEF Settled
  <2>9. DOMAIN rooms' = DOMAIN rooms \cup {r}
    <3>. HIDE DEF ws
    <3>. QED
      BY <2>1, <2>2 DEF PushMember
  <2>. QED
    BY <1>1, <2>7, <2>8, <2>9
<1>2. ASSUME NEW r, NEW n, LeaveRoom(c, r, n)
      PROVE  NoRoom \notin DOMAIN rooms' /\ \A d : Settled(d) /\ d # c => Settled(d)'
  <2>1. /\ rooms' = EraseMember(rooms, c, r)
        /\ clientToRoomMap' = EraseEntry(clientToRoomMap, c)
    BY <1>2 DEF LeaveRoom
  <2>2. DOMAIN rooms' = DOMAIN rooms
    BY <2>1 DEF EraseMember
  <2>3. ASSUME NEW d, Settled(d), d # c PROVE Settled(d)'
    <3>1. ListedIn(EraseMember(rooms, c, r), FindClientRoom(d), d)
      BY <2>3, EraseListedIn DEF Settled
    <3>2. FindClientRoom(d)' = FindClientRoom(d)
      BY <2>1, <2>3 DEF FindClientRoom, EraseEntry
    <3>. QED
      BY <2>1, <3>1, <3>2 DEF Settled
  <2>. QED
    BY <2>2, <2>3
<1>3. CASE p.type = JOIN_ROOM
  <2>1. JoinRoom(c, p.room, p.name) /\ p.room # NoRoom
    BY <1>3 DEF HandlePacket, JOIN_ROOM, SEND_MESSAGE
  <2>. QED
    BY <1>1, <2>1
<1>4. CASE p.type = LEAVE_ROOM
  <2>1. LeaveRoom(c, p.room, p.name)
    BY <1>4 DEF HandlePacket, JOIN_ROOM, LEAVE_ROOM, SEND_MESSAGE
  <2>. QED
    BY <1>2, <1>4, <2>1
<1>5. CASE p.type \notin {JOIN_ROOM, LEAVE_ROOM}
  <2>1. UNCHANGED <<rooms, clientToRoomMap>>
    BY <1>5 DEF HandlePacket, SendMessage, SendMessageRoomNotFound, roomVars
  <2>. QED
    BY <2>1 DEF Settled, FindClientRoom
<1>. QED
  BY <1>3, <1>4, <1>5

\* A step that takes no packet out of a room's order: the rooms stay, streams
\* only lose frames or gain one that does not join the room without name, and
\* who does not leave has not left before.
LEMMA StillEInv ==
    ASSUME EInv, UNCHANGED <<rooms, clientToRoomMap>>,
           \A c \in Client : \A i \in DOMAIN fromClient'[c] :
              \/ \E j \in DOMAIN fromClient[c] : fromClient'[c][i] = fromClient[c][j]
              \/ fromClient'[c][i].type = JOIN_ROOM => fromClient'[c][i].room # NoRoom,
           \A c \in Client : user[c] \in {"leaving", "gone"} => user'[c] \in {"leaving", "gone"}
    PROVE  EInv'
<1>1. ASSUME NEW c \in Client, NEW i \in DOMAIN fromClient'[c], fromClient'[c][i].type = JOIN_ROOM
      PROVE  fromClient'[c][i].room # NoRoom
  BY <1>1 DEF EInv
<1>2. ASSUME NEW c \in Client, user'[c] \notin {"leaving", "gone"} PROVE Settled(c)'
  BY <1>2 DEF EInv, Settled, FindClientRoom
<1>3. NoRoom \notin DOMAIN rooms'
  BY DEF EInv
<1>. QED
  BY <1>1, <1>2, <1>3 DEF EInv

\* A packet read: the one that leaves comes from a client that is leaving.
LEMMA ServedEInv ==
    ASSUME HInv, RInv, EInv, NEW c \in Authenticated, RecvGets(c),
           HandlePacket(c, Head(fromClient[c])), UNCHANGED user
    PROVE  EInv'
<1>1. c \in Client
  BY PlacesAreClients DEF HInv
<1>2. PICK p : p = Head(fromClient[c])
  OBVIOUS
<1>3. /\ 1 \in DOMAIN fromClient[c] /\ p = fromClient[c][1]
      /\ \A d \in Client : d # c => fromClient'[d] = fromClient[d]
      /\ \A i \in DOMAIN fromClient'[c] :
            \E j \in DOMAIN fromClient[c] : fromClient'[c][i] = fromClient[c][j]
  BY <1>1, <1>2, RecvLeaves DEF HInv
<1>4. p.type = LEAVE_ROOM => user[c] \in {"leaving", "gone"}
  BY <1>3 DEF RInv, RoomOrder
<1>5. p.type = JOIN_ROOM => p.room # NoRoom
  BY <1>1, <1>3 DEF EInv
<1>6. HandlePacket(c, p)
  BY <1>2
<1>7. Lists(rooms) /\ NoRoom \notin DOMAIN rooms
      /\ \A d \in DOMAIN clientToRoomMap : clientToRoomMap[d] \in DOMAIN rooms
  BY DEF HInv, HomeTypes, RInv, EInv
<1>8. /\ NoRoom \notin DOMAIN rooms'
      /\ \A d : Settled(d) /\ (d = c => p.type # LEAVE_ROOM) => Settled(d)'
  BY <1>1, <1>5, <1>6, <1>7, HandlePacketEntries
<1>9. ASSUME NEW d \in Client, user'[d] \notin {"leaving", "gone"} PROVE Settled(d)'
  BY <1>4, <1>8, <1>9 DEF EInv
<1>10. ASSUME NEW d \in Client, NEW i \in DOMAIN fromClient'[d], fromClient'[d][i].type = JOIN_ROOM
       PROVE  fromClient'[d][i].room # NoRoom
  BY <1>3, <1>10 DEF EInv
<1>. QED
  BY <1>8, <1>9, <1>10 DEF EInv


\* A step of the server's thread and entries.
LEMMA ServerEInv == ASSUME HInv, RInv, EInv, ServerStep PROVE EInv'
<1>1. UNCHANGED user
  BY DEF ServerStep, userVars
<1>2. ASSUME UNCHANGED <<rooms, clientToRoomMap, fromClient>> PROVE EInv'
  BY <1>1, <1>2, StillEInv
<1>3. CASE Select \/ Accept \/ AuthRecv \/ ClientsServed \/ RemoveInvalid
  BY <1>2, <1>3 DEF Select, Accept, AuthRecv, ClientsServed, RemoveInvalid, roomVars
<1>4. CASE ServeUnauthenticated
  <2>. DEFINE id == Min(UnauthToServe)
              c == unauthenticatedClients[id]
  <2>1. UNCHANGED <<rooms, clientToRoomMap>>
        /\ (RecvGets(c) \/ UNCHANGED fromClient) /\ UnauthToServe # {}
    BY <1>4 DEF ServeUnauthenticated, roomVars
  <2>2. id \in Ids
    <3>1. Ids \subseteq Nat
      <4>1. \A n \in Nat : \A m \in 0 .. n - 1 : m \in Nat
        OBVIOUS
      <4>. QED
        BY <4>1 DEF HInv, HomeTypes
    <3>2. UnauthToServe \in SUBSET Nat /\ UnauthToServe \subseteq Ids
      BY <3>1 DEF UnauthToServe
    <3>3. id \in UnauthToServe
      BY <2>1, <3>2, MinOfNaturals
    <3>. QED
      BY <3>2, <3>3
  <2>. HIDE DEF id
  <2>3. c \in Client
    BY <2>2 DEF HInv, HomeTypes
  <2>. HIDE DEF c
  <2>4. CASE RecvGets(c)
    <3>1. \A d \in Client : \A i \in DOMAIN fromClient'[d] :
             \E j \in DOMAIN fromClient[d] : fromClient'[d][i] = fromClient[d][j]
      BY <2>3, <2>4, RecvLeaves DEF HInv
    <3>. QED
      BY <1>1, <2>1, <3>1, StillEInv
  <2>. QED
    BY <1>2, <2>1, <2>4
<1>5. CASE ServeClient
  <2>. DEFINE k == Max(ClientsToServe)
              c == clients[k]
  <2>1. \/ RecvGets(c) /\ HandlePacket(c, Head(fromClient[c]))
        \/ UNCHANGED <<rooms, clientToRoomMap, fromClient>>
    BY <1>5 DEF ServeClient, roomVars
  <2>2. c \in Authenticated
    BY <1>5, ServedPosition
  <2>. HIDE DEF k
  <2>3. PICK b \in Authenticated : b = c
    BY <2>2
  <2>4. \/ RecvGets(b) /\ HandlePacket(b, Head(fromClient[b]))
        \/ UNCHANGED <<rooms, clientToRoomMap, fromClient>>
    BY <2>1, <2>3
  <2>. QED
    BY <1>1, <1>2, <2>4, ServedEInv
<1>. QED
  BY <1>3, <1>4, <1>5 DEF ServerStep, Server

\* A step of a client program and entries.
LEMMA UserEInv ==
    ASSUME NoRoom \notin RoomName, HInv, SInv, EInv, up, NEW c \in Client, User(c)
    PROVE  EInv'
<1>1. ASSUME UNCHANGED <<rooms, clientToRoomMap, fromClient>>,
             \A d \in Client : user[d] \in {"leaving", "gone"} => user'[d] \in {"leaving", "gone"}
      PROVE  EInv'
  BY <1>1, StillEInv
<1>2. user = [d \in Client |-> user[d]]
  BY DEF HInv, HomeTypes
<1>3. CASE Connect(c)
  <2>1. /\ UNCHANGED <<rooms, clientToRoomMap, fromClient>>
        /\ user[c] = "off" /\ user' = [user EXCEPT ![c] = "idle"]
    BY <1>3 DEF Connect, roomVars
  <2>. QED
    BY <1>1, <1>2, <2>1
<1>4. CASE ClientRecv(c)
  <2>1. /\ UNCHANGED <<rooms, clientToRoomMap, fromClient>>
        /\ user' = [user EXCEPT ![c] = U!UserAfter(c, Head(toClient[c]))]
        /\ user[c] \in {"waiting", "in", "leaving"}
    BY <1>4 DEF ClientRecv, U!Receives
  <2>2. user[c] = "leaving" => user'[c] = "leaving"
    BY <2>1, <1>2 DEF U!UserAfter
  <2>. QED
    BY <1>1, <1>2, <2>1, <2>2
<1>5. CASE Close(c)
  <2>1. /\ UNCHANGED <<rooms, clientToRoomMap, fromClient>>
        /\ user' = [user EXCEPT ![c] = "gone"]
    BY <1>5 DEF Close, U!Ends
  <2>. QED
    BY <1>1, <1>2, <2>1
<1>6. ASSUME NEW p, SendFrame(c, p), p.type = JOIN_ROOM => p.room # NoRoom
      PROVE  EInv'
  <2>1. /\ UNCHANGED <<rooms, clientToRoomMap>>
        /\ user[c] \in {"idle", "in"} /\ \E u : user' = [user EXCEPT ![c] = u] \/ user' = user
    BY <1>6 DEF SendFrame, Send, U!Sends, U!Ask, U!Join, U!Chat, U!Leave, U!userVars
  <2>2. /\ fromClient'[c] = Append(fromClient[c], p)
        /\ fromClient[c] \in Seq(ToSet(fromClient[c]))
        /\ \A d \in Client : d # c => fromClient'[d] = fromClient[d]
    BY <1>6, FrameSent
  <2>. DEFINE s == fromClient[c]
              t == Append(s, p)
  <2>3. \A i \in DOMAIN t : (\E j \in DOMAIN s : t[i] = s[j]) \/ t[i] = p
    <3>1. s \in Seq(ToSet(s) \cup {p})
      <4>1. \A A, B : A \subseteq B => Seq(A) \subseteq Seq(B)
        OBVIOUS
      <4>2. s \in Seq(ToSet(s))
        BY <2>2
      <4>. HIDE DEF s
      <4>. QED
        BY <4>1, <4>2
    <3>. HIDE DEF s
    <3>2. /\ t \in Seq(ToSet(s) \cup {p}) /\ Len(t) = Len(s) + 1 /\ t[Len(s) + 1] = p
          /\ \A i \in 1 .. Len(s) : t[i] = s[i]
      BY <3>1, AppendProperties
    <3>. HIDE DEF t
    <3>3. Len(s) \in Nat /\ DOMAIN s = 1 .. Len(s) /\ DOMAIN t = 1 .. Len(s) + 1
      BY <3>1, <3>2, LenProperties
    <3>4. \A n \in Nat : \A m \in 1 .. n + 1 : m \in 1 .. n \/ m = n + 1
      OBVIOUS
    <3>. QED
      BY <3>2, <3>3, <3>4
  <2>. HIDE DEF s, t
  <2>4. fromClient'[c] = t
    BY <2>2 DEF s, t
  <2>5. \A d \in Client : \A i \in DOMAIN fromClient'[d] :
           \/ \E j \in DOMAIN fromClient[d] : fromClient'[d][i] = fromClient[d][j]
           \/ fromClient'[d][i].type = JOIN_ROOM => fromClient'[d][i].room # NoRoom
    <3>1. ASSUME NEW i \in DOMAIN fromClient'[c]
          PROVE  \/ \E j \in DOMAIN fromClient[c] : fromClient'[c][i] = fromClient[c][j]
                 \/ fromClient'[c][i].type = JOIN_ROOM => fromClient'[c][i].room # NoRoom
      BY <1>6, <2>3, <2>4 DEF s
    <3>. QED
      BY <2>2, <3>1
  <2>6. \A d \in Client : user[d] \in {"leaving", "gone"} => user'[d] \in {"leaving", "gone"}
    BY <1>2, <2>1
  <2>. QED
    BY <2>1, <2>5, <2>6, StillEInv
<1>7. AskToLogin(c) \/ SendJoin(c) \/ SendChat(c) \/ SendLeave(c)
        => \E p : SendFrame(c, p) /\ (p.type = JOIN_ROOM => p.room # NoRoom)
  <2>1. CASE AskToLogin(c)
    <3>1. PICK e \in Name, w \in Password :
             \/ SendFrame(c, PacketLoginRequest(0, e, w))
             \/ SendFrame(c, PacketRegisterRequest(0, e, w))
      BY <2>1 DEF AskToLogin
    <3>2. /\ PacketLoginRequest(0, e, w).type # JOIN_ROOM
          /\ PacketRegisterRequest(0, e, w).type # JOIN_ROOM
      BY DEF PacketLoginRequest, PacketRegisterRequest, LOGIN_REQUEST, REGISTER_REQUEST, JOIN_ROOM
    <3>. QED
      BY <3>1, <3>2
  <2>2. CASE SendJoin(c)
    <3>1. PICK r \in RoomName : SendFrame(c, PacketJoinRoom(r, typed[c]))
      BY <2>2 DEF SendJoin
    <3>2. PacketJoinRoom(r, typed[c]).room # NoRoom
      BY <3>1 DEF PacketJoinRoom
    <3>. QED
      BY <3>1, <3>2
  <2>3. CASE SendChat(c)
    <3>1. PICK m \in Message : SendFrame(c, PacketSendMessage(m))
      BY <2>3 DEF SendChat
    <3>2. PacketSendMessage(m).type # JOIN_ROOM
      BY DEF PacketSendMessage, SEND_MESSAGE, JOIN_ROOM
    <3>. QED
      BY <3>1, <3>2
  <2>4. CASE SendLeave(c)
    <3>1. PacketLeaveRoom(currentRoom[c], typed[c]).type # JOIN_ROOM
      BY DEF PacketLeaveRoom, LEAVE_ROOM, JOIN_ROOM
    <3>. QED
      BY <2>4, <3>1 DEF SendLeave
  <2>. QED
    BY <2>1, <2>2, <2>3, <2>4
<1>. QED
  BY <1>3, <1>4, <1>5, <1>6, <1>7 DEF User

\* The fourth invariant is inductive relative to the others.
LEMMA StepEInv ==
    ASSUME NoRoom \notin RoomName, HInv, SInv, RInv, EInv, [Next]_vars
    PROVE  EInv'
<1>1. CASE AuthReply \/ AuthDown
  BY <1>1, StillEInv DEF AuthReply, AuthDown, roomVars, userVars
<1>2. CASE UNCHANGED vars
  BY <1>2, StillEInv DEF vars, serverVars, userVars
<1>3. ASSUME up, NEW c \in Client, User(c) PROVE EInv'
  BY <1>3, UserEInv
<1>. QED
  BY <1>1, <1>2, <1>3, ServerEInv DEF Next

\* While a client program is in its rooms, the server lists it once, in the
\* room of its map entry, if no room has the empty name: packets it sent
\* together with others are dropped, but none of them was its Leave.
THEOREM AlwaysRoomsAgreeWhileIn ==
    ASSUME NoRoom \notin RoomName
    PROVE  Spec => []RoomsAgreeWhileIn
<1>1. Init => EInv
  BY DEF Init, ServerInit, EInv, Settled, ListedIn
<1>2. HInv /\ SInv /\ RInv /\ EInv /\ [Next]_vars => EInv'
  BY StepEInv
<1>3. HInv /\ EInv => RoomsAgreeWhileIn
  <2>. SUFFICES ASSUME HInv, EInv, NEW r \in DOMAIN rooms, NEW i \in 1 .. Len(rooms[r]),
                       user[rooms[r][i]] = "in"
                PROVE  /\ FindClientRoom(rooms[r][i]) = r
                       /\ \A j \in 1 .. Len(rooms[r]) : rooms[r][i] = rooms[r][j] => i = j
    BY DEF RoomsAgreeWhileIn
  <2>1. rooms[r] \in Seq(Client)
    BY DEF HInv, HomeTypes, Lists
  <2>2. DOMAIN rooms[r] = 1 .. Len(rooms[r]) /\ rooms[r][i] \in Client
    BY <2>1, LenProperties, ElementOfSeq
  <2>3. Settled(rooms[r][i])
    BY <2>2 DEF EInv
  <2>. QED
    BY <2>2, <2>3 DEF Settled, ListedIn
<1>. QED
  BY <1>1, <1>2, <1>3, AlwaysSInv, AlwaysRInv, PTL DEF Spec

-----------------------------------------------------------------------------
(* Bounds.  What the rooms and the loop hold is of its type, and streams and *)
(* counters stay within their bounds.                                       *)

RoomTypes ==
    /\ DOMAIN rooms \subseteq RoomOrNone
    /\ clientToRoomMap \in [DOMAIN clientToRoomMap -> RoomOrNone]
    /\ name \in [Client -> Name \cup {NoRoom}]
    /\ currentRoom \in [Client -> RoomOrNone]
    /\ \A c \in Client : \A i \in DOMAIN fromClient[c] :
          fromClient[c][i].type = JOIN_ROOM => fromClient[c][i].room \in RoomName

Lengths ==
    /\ \A c \in Client : Len(toClient[c]) <= StreamCap /\ Len(fromClient[c]) <= SendCap
    /\ Len(asks) <= AuthCap

LoopTypes ==
    /\ up \in BOOLEAN /\ authUp \in BOOLEAN
    /\ pc \in {"select", "accept", "auth", "clients", "unauth"}
    /\ readSet \subseteq Client \cup {Listener, AuthLink}
    /\ pc \in {"select", "accept", "auth", "clients"} => cursor \in 0 .. Len(clients)
    /\ pc = "unauth" => cursor \in 0 .. currentUnauthenticatedClientId

\* The clients that were accepted: each was given an id once, and only they are
\* in the map or the vector.
Accepted == {c \in Client : user[c] # "off"} \ Queued
Served == Authenticated \cup Unauthenticated

Counts ==
    /\ currentUnauthenticatedClientId <= Cardinality(Accepted)
    /\ Cardinality(Served) <= currentUnauthenticatedClientId

\* A sequence without repetitions is as long as the set of its elements is large.
LEMMA OnceLength ==
    ASSUME NEW S, NEW s \in Seq(S), Once(s)
    PROVE  IsFiniteSet(ToSet(s)) /\ Cardinality(ToSet(s)) = Len(s)
<1>1. Len(s) \in Nat /\ DOMAIN s = 1 .. Len(s) /\ s = [i \in 1 .. Len(s) |-> s[i]]
  BY LenProperties
<1>2. s \in [1 .. Len(s) -> ToSet(s)]
  BY <1>1 DEF ToSet
<1>3. s \in Bijection(1 .. Len(s), ToSet(s))
  <2>1. \A i, j \in 1 .. Len(s) : s[i] = s[j] => i = j
    BY <1>1 DEF Once
  <2>2. \A x \in ToSet(s) : \E i \in 1 .. Len(s) : s[i] = x
    BY <1>1 DEF ToSet
  <2>3. s \in Injection(1 .. Len(s), ToSet(s))
    BY <1>1, <1>2, <2>1 DEF Injection, IsInjective
  <2>4. s \in Surjection(1 .. Len(s), ToSet(s))
    BY <1>2, <2>2 DEF Surjection
  <2>. QED
    BY <2>3, <2>4 DEF Bijection
<1>4. ExistsBijection(1 .. Len(s), ToSet(s))
  BY <1>3 DEF ExistsBijection
<1>. QED
  BY <1>1, <1>4, FS_CountingElements, FS_NatBijection

\* Appending adds the element behind the others.
LEMMA AppendElements ==
    ASSUME NEW s, s \in Seq(ToSet(s)), NEW p
    PROVE  /\ Append(s, p) # <<>> /\ Len(Append(s, p)) = Len(s) + 1 /\ Len(s) \in Nat
           /\ \A i \in DOMAIN Append(s, p) :
                 (\E j \in DOMAIN s : Append(s, p)[i] = s[j]) \/ Append(s, p)[i] = p
<1>. DEFINE t == Append(s, p)
<1>1. s \in Seq(ToSet(s) \cup {p})
  <2>1. \A A, B : A \subseteq B => Seq(A) \subseteq Seq(B)
    OBVIOUS
  <2>. QED
    BY <2>1
<1>2. /\ t \in Seq(ToSet(s) \cup {p}) /\ Len(t) = Len(s) + 1 /\ t[Len(s) + 1] = p
      /\ \A i \in 1 .. Len(s) : t[i] = s[i]
  BY <1>1, AppendProperties
<1>. HIDE DEF t
<1>3. Len(s) \in Nat /\ DOMAIN s = 1 .. Len(s) /\ DOMAIN t = 1 .. Len(s) + 1
  BY <1>1, <1>2, LenProperties
<1>4. \A n \in Nat : (n + 1 # 0) /\ \A m \in 1 .. n + 1 : m \in 1 .. n \/ m = n + 1
  OBVIOUS
<1>5. t # <<>>
  BY <1>2, <1>3, <1>4, EmptySeq
<1>. QED
  BY <1>2, <1>3, <1>4, <1>5 DEF t

\* A recv takes a frame at least.
LEMMA AfterRecvShorter ==
    ASSUME NEW s, s \in Seq(ToSet(s)), s # <<>>, NEW k \in RecvCounts(s)
    PROVE  Len(AfterRecv(s, k)) \in Nat /\ Len(AfterRecv(s, k)) < Len(s) /\ Len(s) \in Nat
<1>1. Len(s) \in Nat \ {0} /\ \A i \in 1 .. Len(s) : s[i] \in ToSet(s)
  BY LenProperties, ElementOfSeq, EmptySeq
<1>2. k \in 1 .. Len(s)
  <2>1. \A n \in Nat \ {0} : 1 \in 1 .. n
    OBVIOUS
  <2>. QED
    BY <1>1, <2>1 DEF RecvCounts
<1>. DEFINE n == Len(s)
            t == SubSeq(s, k + 1, n)
<1>3. Len(t) = IF k + 1 <= n THEN n - (k + 1) + 1 ELSE 0
  <2>1. \A i \in k + 1 .. n : s[i] \in ToSet(s)
    BY <1>1, <1>2
  <2>2. k + 1 \in Int /\ n \in Int
    BY <1>1, <1>2
  <2>. QED
    BY <2>1, <2>2, SubSeqProperties
<1>4. \A m \in Nat \ {0} : \A l \in 1 .. m :
         LET x == IF l + 1 <= m THEN m - (l + 1) + 1 ELSE 0 IN x \in Nat /\ x < m
  OBVIOUS
<1>. HIDE DEF t, n
<1>5. Len(t) \in Nat /\ Len(t) < n /\ n \in Nat
  <2>1. n \in Nat \ {0} /\ k \in 1 .. n
    BY <1>1, <1>2 DEF n
  <2>. QED
    BY <1>3, <1>4, <2>1
<1>. QED
  BY <1>5 DEF AfterRecv, t, n

\* Streams within their bound.
Bounded(x) == Streams(x) /\ \A d \in Client : Len(x[d]) <= StreamCap

\* A delivery leaves a stream within its bound.
LEMMA DeliverBounded ==
    ASSUME NEW s, s \in Seq(ToSet(s)), NEW f, NEW fs \in Seq({f})
    PROVE  /\ Deliver(s, fs) \in Seq(ToSet(Deliver(s, fs)))
           /\ Len(Deliver(s, fs)) <= StreamCap
<1>. DEFINE F == ToSet(s) \cup {f}
            t == Deliver(s, fs)
            x == s \o fs
<1>1. s \in Seq(F) /\ fs \in Seq(F)
  <2>1. \A A, B : A \subseteq B => Seq(A) \subseteq Seq(B)
    OBVIOUS
  <2>. QED
    BY <2>1
<1>. HIDE DEF F
<1>2. t \in Seq(F) /\ t = Fit(x)
  BY <1>1, DeliverKeeps, DeliverIsFit
<1>3. x \in Seq(F)
  BY <1>1, ConcatProperties
<1>. HIDE DEF x, t
<1>4. Len(t) = IF Len(x) < StreamCap THEN Len(x) ELSE StreamCap
  BY <1>2, <1>3, FitProperties
<1>5. Len(x) \in Nat /\ StreamCap \in Nat
  BY <1>3, LenProperties, StreamCapAssumption
<1>6. Len(t) <= StreamCap
  BY <1>4, <1>5
<1>7. t \in Seq(ToSet(t))
  BY <1>2, SeqOfItsSet
<1>. QED
  BY <1>6, <1>7 DEF t

\* So do the ways of sending.
LEMMA SendsBounded ==
    ASSUME NEW x, Bounded(x), NEW f
    PROVE  /\ \A c \in Client : Bounded(SendToClient(x, c, f))
           /\ \A l \in Seq(Client) : Bounded(Broadcast(x, l, f))
           /\ \A l \in Seq(Client) : \A e : Bounded(BroadcastExclude(x, l, e, f))
<1>1. ASSUME NEW y, y = [d \in Client |-> y[d]],
             \A d \in Client : y[d] = x[d] \/ \E fs \in Seq({f}) : y[d] = Deliver(x[d], fs)
      PROVE  Bounded(y)
  <2>1. ASSUME NEW d \in Client PROVE y[d] \in Seq(ToSet(y[d])) /\ Len(y[d]) <= StreamCap
    <3>1. x[d] \in Seq(ToSet(x[d])) /\ Len(x[d]) <= StreamCap
      BY DEF Bounded, Streams
    <3>2. CASE y[d] = x[d]
      BY <3>1, <3>2
    <3>3. ASSUME NEW fs \in Seq({f}), y[d] = Deliver(x[d], fs)
          PROVE  y[d] \in Seq(ToSet(y[d])) /\ Len(y[d]) <= StreamCap
      BY <3>1, <3>3, DeliverBounded
    <3>. QED
      BY <1>1, <3>2, <3>3
  <2>. QED
    BY <1>1, <2>1 DEF Bounded, Streams
<1>2. ASSUME NEW c \in Client PROVE Bounded(SendToClient(x, c, f))
  <2>. DEFINE y == SendToClient(x, c, f)
  <2>1. <<f>> \in Seq({f})
    OBVIOUS
  <2>2. /\ y = [d \in Client |-> y[d]]
        /\ \A d \in Client : y[d] = IF d = c /\ live[c] THEN Deliver(x[c], <<f>>) ELSE x[d]
    BY DEF SendToClient, Bounded, Streams
  <2>. HIDE DEF y
  <2>3. Bounded(y)
    BY <1>1, <2>1, <2>2
  <2>. QED
    BY <2>3 DEF y
<1>3. \A l \in Seq(Client) : \A d : Copies(f, Occurrences(l, d)) \in Seq({f})
  BY OccurrencesType, CopiesType
<1>4. ASSUME NEW l \in Seq(Client) PROVE Bounded(Broadcast(x, l, f))
  <2>. DEFINE y == Broadcast(x, l, f)
  <2>1. /\ y = [d \in Client |-> y[d]]
        /\ \A d \in Client : y[d] = x[d] \/ y[d] = Deliver(x[d], Copies(f, Occurrences(l, d)))
    BY DEF Broadcast
  <2>. HIDE DEF y
  <2>2. Bounded(y)
    BY <1>1, <1>3, <2>1
  <2>. QED
    BY <2>2 DEF y
<1>5. ASSUME NEW l \in Seq(Client), NEW e PROVE Bounded(BroadcastExclude(x, l, e, f))
  <2>. DEFINE y == BroadcastExclude(x, l, e, f)
  <2>1. /\ y = [d \in Client |-> y[d]]
        /\ \A d \in Client : y[d] = x[d] \/ y[d] = Deliver(x[d], Copies(f, Occurrences(l, d)))
    BY DEF BroadcastExclude
  <2>. HIDE DEF y
  <2>2. Bounded(y)
    BY <1>1, <1>3, <2>1
  <2>. QED
    BY <2>2 DEF y
<1>. QED
  BY <1>2, <1>4, <1>5

\* And the handlers.
LEMMA HandlePacketBounded ==
    ASSUME Bounded(toClient), Lists(rooms), NEW c \in Client, NEW p, HandlePacket(c, p)
    PROVE  Bounded(toClient')
<1>1. ASSUME NEW rs, Lists(rs), NEW r, NEW n PROVE Bounded(LeaveNotices(rs, c, r, n))
  <2>1. Members(rs, r) \in Seq(Client)
    BY <1>1, MembersLists
  <2>. QED
    BY <2>1, SendsBounded DEF LeaveNotices
<1>2. ASSUME NEW r, NEW n, JoinRoom(c, r, n) PROVE Bounded(toClient')
  <2>. DEFINE ws == RoomsWithout(c)
              rs == PushMember(ws, c, r)
              y == StreamsWithout(c, n)
              l == Members(rs, r)
              f == PacketJoinRoom(r, n)
  <2>1. Lists(ws)
    BY EraseMemberLists DEF RoomsWithout
  <2>2. Bounded(y)
    <3>1. Bounded(LeaveNotices(ws, c, FindClientRoom(c), n))
      BY <1>1, <2>1
    <3>. QED
      BY <3>1 DEF StreamsWithout
  <2>. HIDE DEF ws, y
  <2>3. Lists(rs)
    BY <2>1, PushMemberLists
  <2>. HIDE DEF rs
  <2>4. l \in Seq(Client)
    BY <2>3, MembersLists
  <2>5. toClient' = Broadcast(y, l, f)
    BY <1>2 DEF JoinRoom, ws, rs, y
  <2>. HIDE DEF l, f
  <2>. QED
    BY <2>2, <2>4, <2>5, SendsBounded
<1>3. ASSUME NEW r, NEW n, LeaveRoom(c, r, n) PROVE Bounded(toClient')
  <2>1. Lists(EraseMember(rooms, c, r))
    BY EraseMemberLists
  <2>2. toClient' = LeaveNotices(EraseMember(rooms, c, r), c, r, n)
    BY <1>3 DEF LeaveRoom
  <2>. QED
    BY <1>1, <2>1, <2>2
<1>4. ASSUME NEW m, SendMessage(c, m) PROVE Bounded(toClient')
  <2>1. rooms[FindClientRoom(c)] \in Seq(Client)
    BY <1>4 DEF SendMessage, Lists
  <2>. QED
    BY <1>4, <2>1, SendsBounded DEF SendMessage
<1>5. CASE p.type = JOIN_ROOM
  BY <1>2, <1>5 DEF HandlePacket, JOIN_ROOM, SEND_MESSAGE
<1>6. CASE p.type = LEAVE_ROOM
  BY <1>3, <1>6 DEF HandlePacket, JOIN_ROOM, LEAVE_ROOM, SEND_MESSAGE
<1>7. CASE p.type = SEND_MESSAGE
  BY <1>4, <1>7 DEF HandlePacket, SendMessageRoomNotFound, roomVars
<1>8. CASE p.type \notin {JOIN_ROOM, LEAVE_ROOM, SEND_MESSAGE}
  BY <1>8 DEF HandlePacket, roomVars
<1>. QED
  BY <1>5, <1>6, <1>7, <1>8

\* The client the section of the unauthenticated clients serves is one of them.
LEMMA ServedId ==
    ASSUME HInv, ServeUnauthenticated
    PROVE  /\ Min(UnauthToServe) \in Ids
           /\ unauthenticatedClients[Min(UnauthToServe)] \in Client \ Authenticated
<1>1. Ids \subseteq Nat
  <2>1. \A n \in Nat : \A m \in 0 .. n - 1 : m \in Nat
    OBVIOUS
  <2>. QED
    BY <2>1 DEF HInv, HomeTypes
<1>2. UnauthToServe \in SUBSET Nat /\ UnauthToServe \subseteq Ids /\ UnauthToServe # {}
  BY <1>1 DEF UnauthToServe, ServeUnauthenticated
<1>3. Min(UnauthToServe) \in Ids
  BY <1>2, MinOfNaturals
<1>. HIDE DEF Min
<1>. QED
  BY <1>3 DEF HInv, HomeTypes, Kept, Unauthenticated

\* A recv shortens the stream.
LEMMA RecvShortens ==
    ASSUME HomeTypes, NEW c \in Client, RecvGets(c)
    PROVE  /\ Len(fromClient'[c]) \in Nat /\ Len(fromClient[c]) \in Nat
           /\ Len(fromClient'[c]) < Len(fromClient[c])
<1>1. PICK k \in RecvCounts(fromClient[c]) :
            fromClient' = [fromClient EXCEPT ![c] = AfterRecv(@, k)]
  BY DEF RecvGets
<1>2. /\ fromClient[c] # <<>> /\ fromClient[c] \in Seq(ToSet(fromClient[c]))
      /\ fromClient = [d \in Client |-> fromClient[d]]
  BY DEF RecvGets, HomeTypes
<1>3. fromClient'[c] = AfterRecv(fromClient[c], k)
  BY <1>1, <1>2
<1>. QED
  BY <1>1, <1>2, <1>3, AfterRecvShorter

\* A step that sends nothing.
LEMMA StillLengths ==
    ASSUME Lengths, UNCHANGED toClient,
           \A c \in Client : fromClient'[c] = fromClient[c] \/ Len(fromClient'[c]) <= SendCap,
           asks' = asks \/ Len(asks') <= AuthCap
    PROVE  Lengths'
<1>1. ASSUME NEW c \in Client PROVE Len(toClient'[c]) <= StreamCap /\ Len(fromClient'[c]) <= SendCap
  BY DEF Lengths
<1>2. Len(asks') <= AuthCap
  BY DEF Lengths
<1>. QED
  BY <1>1, <1>2 DEF Lengths

\* Streams and the server's thread: each send stops at the bound.
LEMMA ServerLengths == ASSUME HInv, SInv, Lengths, ServerStep PROVE Lengths'
<1>1. \A n \in Nat, m \in Nat, b \in Nat : n < m /\ m <= b => n <= b
  OBVIOUS
<1>2. SendCap \in Nat /\ AuthCap \in Nat
  BY SystemAssumption, LinksAssumption
<1>3. Bounded(toClient)
  BY DEF Lengths, SInv, SessionTypes, Bounded, Streams
<1>4. CASE Select \/ Accept \/ ClientsServed \/ RemoveInvalid
  BY <1>4, StillLengths DEF Select, Accept, ClientsServed, RemoveInvalid, roomVars, authVars, asks
<1>5. CASE AuthRecv
  <2>1. /\ UNCHANGED <<fromClient, toAuth>>
        /\ \/ UNCHANGED toClient
           \/ /\ Head(answers).requestId \in Ids
              /\ toClient' = SendToClient(toClient, unauthenticatedClients[Head(answers).requestId],
                                          Head(answers))
    BY <1>5 DEF AuthRecv, DispatchResult, LoginResult, RegisterResult, answers
  <2>2. \A id \in Ids : unauthenticatedClients[id] \in Client
    BY DEF HInv, HomeTypes
  <2>3. Bounded(toClient')
    BY <1>3, <2>1, <2>2, SendsBounded
  <2>. QED
    BY <2>1, <2>3 DEF Lengths, Bounded, asks
<1>6. CASE ServeClient
  <2>. DEFINE k == Max(ClientsToServe)
  <2>1. k \in 1 .. Len(clients) /\ clients[k] \in Authenticated
    BY <1>6, ServedPosition
  <2>2. PICK c \in Client : c = clients[k]
    BY <2>1, PlacesAreClients DEF HInv
  <2>3. /\ toAuth' = toAuth
        /\ \/ RecvGets(c) /\ HandlePacket(c, Head(fromClient[c]))
           \/ UNCHANGED <<toClient, fromClient>>
    BY <1>6, <2>2 DEF ServeClient, roomVars, authVars
  <2>4. CASE RecvGets(c) /\ HandlePacket(c, Head(fromClient[c]))
    <3>1. Bounded(toClient')
      BY <1>3, <2>4, HandlePacketBounded DEF HInv, HomeTypes
    <3>2. Len(fromClient'[c]) <= SendCap
      <4>1. /\ Len(fromClient'[c]) \in Nat /\ Len(fromClient[c]) \in Nat
            /\ Len(fromClient'[c]) < Len(fromClient[c]) /\ Len(fromClient[c]) <= SendCap
        BY <2>4, RecvShortens DEF HInv, Lengths
      <4>. QED
        BY <1>1, <1>2, <4>1
    <3>3. \A d \in Client : d # c => fromClient'[d] = fromClient[d]
      BY <2>4, RecvLeaves DEF HInv
    <3>4. asks' = asks
      BY <2>3 DEF asks
    <3>. QED
      BY <3>1, <3>2, <3>3, <3>4 DEF Lengths, Bounded
  <2>5. CASE UNCHANGED <<toClient, fromClient>>
    BY <2>3, <2>5, StillLengths DEF asks
  <2>. QED
    BY <2>3, <2>4, <2>5
<1>7. CASE ServeUnauthenticated
  <2>. DEFINE id == Min(UnauthToServe)
  <2>1. id \in Ids /\ unauthenticatedClients[id] \in Client
    BY <1>7, ServedId
  <2>2. PICK c \in Client : c = unauthenticatedClients[id]
    BY <2>1
  <2>3. /\ UNCHANGED toClient
        /\ \/ RecvGets(c) /\ Forward(id, Head(fromClient[c]))
           \/ UNCHANGED <<fromClient, toAuth>>
    BY <1>7, <2>2 DEF ServeUnauthenticated, roomVars
  <2>. HIDE DEF id
  <2>4. CASE RecvGets(c) /\ Forward(id, Head(fromClient[c]))
    <3>1. Len(fromClient'[c]) <= SendCap
      <4>1. /\ Len(fromClient'[c]) \in Nat /\ Len(fromClient[c]) \in Nat
            /\ Len(fromClient'[c]) < Len(fromClient[c]) /\ Len(fromClient[c]) <= SendCap
        BY <2>4, RecvShortens DEF HInv, Lengths
      <4>. QED
        BY <1>1, <1>2, <4>1
    <3>2. \A d \in Client : d # c => fromClient'[d] = fromClient[d]
      BY <2>4, RecvLeaves DEF HInv
    <3>3. UNCHANGED toAuth \/ \E p : SendToAuthServer(p)
      BY <2>4 DEF Forward
    <3>4. asks' = asks \/ Len(asks') <= AuthCap
      <4>1. asks' = asks \/ \E p : asks' = Append(asks, p) /\ Len(asks) < AuthCap
        <5>1. AuthLink \in Link
          BY DEF Link
        <5>. QED
          BY <3>3, <5>1 DEF SendToAuthServer, SInv, SessionTypes, asks
      <4>2. asks \in Seq(ToSet(asks))
        BY SeqOfItsSet DEF SInv, SessionTypes
      <4>3. ASSUME NEW p, asks' = Append(asks, p), Len(asks) < AuthCap PROVE Len(asks') <= AuthCap
        <5>1. Len(asks') = Len(asks) + 1 /\ Len(asks) \in Nat
          BY <4>2, <4>3, AppendElements
        <5>2. \A n \in Nat, b \in Nat : n < b => n + 1 <= b
          OBVIOUS
        <5>. QED
          BY <1>2, <4>3, <5>1, <5>2
      <4>. QED
        BY <4>1, <4>3
    <3>. QED
      BY <2>3, <3>1, <3>2, <3>4, StillLengths
  <2>5. CASE UNCHANGED <<fromClient, toAuth>>
    BY <2>3, <2>5, StillLengths DEF asks
  <2>. QED
    BY <2>3, <2>4, <2>5
<1>. QED
  BY <1>4, <1>5, <1>6, <1>7 DEF ServerStep, Server

\* Streams and a client program.
LEMMA UserLengths == ASSUME HInv, SInv, Lengths, NEW c \in Client, User(c) PROVE Lengths'
<1>1. asks' = asks
  BY DEF User, Connect, AskToLogin, SendJoin, SendChat, SendLeave, SendFrame, Send, ClientRecv,
     Close, authVars, asks
<1>2. CASE Connect(c)
  BY <1>1, <1>2, StillLengths DEF Connect, roomVars
<1>3. ASSUME NEW p, SendFrame(c, p) PROVE Lengths'
  <2>1. /\ UNCHANGED toClient /\ fromClient'[c] = Append(fromClient[c], p)
        /\ fromClient[c] \in Seq(ToSet(fromClient[c]))
        /\ \A d \in Client : d # c => fromClient'[d] = fromClient[d]
    BY <1>3, FrameSent
  <2>2. Len(fromClient[c]) < SendCap
    BY <1>3 DEF SendFrame, Send
  <2>3. Len(fromClient'[c]) = Len(fromClient[c]) + 1 /\ Len(fromClient[c]) \in Nat
    BY <2>1, AppendElements
  <2>4. \A n \in Nat, b \in Nat : n < b => n + 1 <= b
    OBVIOUS
  <2>5. Len(fromClient'[c]) <= SendCap
    BY <2>2, <2>3, <2>4, SystemAssumption
  <2>. QED
    BY <1>1, <2>1, <2>5, StillLengths
<1>4. CASE ClientRecv(c)
  <2>1. PICK k \in RecvCounts(toClient[c]) :
            toClient' = [toClient EXCEPT ![c] = AfterRecv(@, k)]
    BY <1>4 DEF ClientRecv
  <2>2. /\ UNCHANGED fromClient /\ toClient[c] # <<>>
        /\ toClient[c] \in Seq(ToSet(toClient[c])) /\ toClient = [d \in Client |-> toClient[d]]
    BY <1>4 DEF ClientRecv, SInv, SessionTypes
  <2>3. /\ toClient'[c] = AfterRecv(toClient[c], k)
        /\ \A d \in Client : d # c => toClient'[d] = toClient[d]
    BY <2>1, <2>2
  <2>4. /\ Len(toClient'[c]) \in Nat /\ Len(toClient[c]) \in Nat
        /\ Len(toClient'[c]) < Len(toClient[c]) /\ Len(toClient[c]) <= StreamCap
    BY <2>1, <2>2, <2>3, AfterRecvShorter DEF Lengths
  <2>5. \A n \in Nat, m \in Nat, b \in Nat : n < m /\ m <= b => n <= b
    OBVIOUS
  <2>6. Len(toClient'[c]) <= StreamCap
    BY <2>4, <2>5, StreamCapAssumption
  <2>. QED
    BY <1>1, <2>2, <2>3, <2>6 DEF Lengths
<1>5. CASE Close(c)
  <2>1. /\ UNCHANGED fromClient /\ toClient'[c] = <<>>
        /\ \A d \in Client : d # c => toClient'[d] = toClient[d]
    BY <1>5 DEF Close, SInv, SessionTypes
  <2>2. Len(<<>>) = 0 /\ 0 <= StreamCap
    BY StreamCapAssumption
  <2>. QED
    BY <1>1, <2>1, <2>2 DEF Lengths
<1>. QED
  BY <1>2, <1>3, <1>4, <1>5 DEF User, AskToLogin, SendJoin, SendChat, SendLeave

\* What a packet makes of the maps and the names is of their type.
LEMMA HandlePacketTypes ==
    ASSUME RoomTypes, NEW c \in Client, NEW p, HandlePacket(c, p),
           p.type = JOIN_ROOM => p.room \in RoomName /\ p.name \in Name
    PROVE  /\ DOMAIN rooms' \subseteq RoomOrNone
           /\ clientToRoomMap' \in [DOMAIN clientToRoomMap' -> RoomOrNone]
           /\ name' \in [Client -> Name \cup {NoRoom}]
<1>1. ASSUME NEW r \in RoomName, NEW n \in Name, JoinRoom(c, r, n)
      PROVE  /\ DOMAIN rooms' \subseteq RoomOrNone
             /\ clientToRoomMap' \in [DOMAIN clientToRoomMap' -> RoomOrNone]
             /\ name' \in [Client -> Name \cup {NoRoom}]
  <2>1. DOMAIN rooms' = DOMAIN rooms \cup {r}
    BY <1>1 DEF JoinRoom, PushMember, RoomsWithout, EraseMember
  <2>2. MapWithout(c) \in [DOMAIN MapWithout(c) -> RoomOrNone]
    BY DEF RoomTypes, MapWithout, EraseEntry
  <2>3. clientToRoomMap' = InsertEntry(MapWithout(c), c, r)
    BY <1>1 DEF JoinRoom
  <2>. DEFINE m == MapWithout(c)
  <2>. HIDE DEF m
  <2>4. r \in RoomOrNone
    BY DEF RoomOrNone
  <2>5. InsertEntry(m, c, r) \in [DOMAIN InsertEntry(m, c, r) -> RoomOrNone]
    BY <2>2, <2>4 DEF m, InsertEntry
  <2>6. name' \in [Client -> Name \cup {NoRoom}]
    BY <1>1 DEF JoinRoom, RoomTypes
  <2>. QED
    BY <2>1, <2>3, <2>4, <2>5, <2>6 DEF m, RoomTypes
<1>2. ASSUME NEW r, NEW n, LeaveRoom(c, r, n)
      PROVE  /\ DOMAIN rooms' \subseteq RoomOrNone
             /\ clientToRoomMap' \in [DOMAIN clientToRoomMap' -> RoomOrNone]
             /\ name' \in [Client -> Name \cup {NoRoom}]
  BY <1>2 DEF LeaveRoom, EraseMember, EraseEntry, RoomTypes
<1>3. CASE p.type = JOIN_ROOM
  BY <1>1, <1>3 DEF HandlePacket, JOIN_ROOM, SEND_MESSAGE
<1>4. CASE p.type = LEAVE_ROOM
  BY <1>2, <1>4 DEF HandlePacket, JOIN_ROOM, LEAVE_ROOM, SEND_MESSAGE
<1>5. CASE p.type \notin {JOIN_ROOM, LEAVE_ROOM}
  BY <1>5 DEF HandlePacket, SendMessage, SendMessageRoomNotFound, roomVars, RoomTypes
<1>. QED
  BY <1>3, <1>4, <1>5

\* A step that leaves the maps alone; what it sends joins rooms that there are.
LEMMA StillRoomTypes ==
    ASSUME RoomTypes, UNCHANGED <<rooms, clientToRoomMap>>,
           name' \in [Client -> Name \cup {NoRoom}], currentRoom' \in [Client -> RoomOrNone],
           \A c \in Client : \A i \in DOMAIN fromClient'[c] :
              \/ \E j \in DOMAIN fromClient[c] : fromClient'[c][i] = fromClient[c][j]
              \/ fromClient'[c][i].type = JOIN_ROOM => fromClient'[c][i].room \in RoomName
    PROVE  RoomTypes'
<1>1. ASSUME NEW c \in Client, NEW i \in DOMAIN fromClient'[c], fromClient'[c][i].type = JOIN_ROOM
      PROVE  fromClient'[c][i].room \in RoomName
  BY <1>1 DEF RoomTypes
<1>. QED
  BY <1>1 DEF RoomTypes

\* The types of the rooms and the server's thread: a client is in the vector
\* before a packet of it is read, and joins under the name of its account.
LEMMA ServerRoomTypes == ASSUME HInv, SInv, RoomTypes, ServerStep PROVE RoomTypes'
<1>1. /\ UNCHANGED currentRoom /\ currentRoom \in [Client -> RoomOrNone]
      /\ name \in [Client -> Name \cup {NoRoom}]
  BY DEF ServerStep, userVars, RoomTypes
<1>2. ASSUME UNCHANGED <<rooms, clientToRoomMap, name>>,
             \A c \in Client : \A i \in DOMAIN fromClient'[c] :
                \E j \in DOMAIN fromClient[c] : fromClient'[c][i] = fromClient[c][j]
      PROVE  RoomTypes'
  BY <1>1, <1>2, StillRoomTypes
<1>3. CASE Select \/ Accept \/ ClientsServed \/ RemoveInvalid
  BY <1>2, <1>3 DEF Select, Accept, ClientsServed, RemoveInvalid, roomVars
<1>4. CASE AuthRecv
  <2>1. /\ UNCHANGED <<rooms, clientToRoomMap, fromClient>>
        /\ \/ UNCHANGED name
           \/ /\ answers # <<>> /\ Head(answers).type = LOGIN_RESULT
              /\ \E c : name' = [name EXCEPT ![c] = Head(answers).email]
    BY <1>4 DEF AuthRecv, DispatchResult, LoginResult, RegisterResult, answers
  <2>2. ASSUME answers # <<>>, Head(answers).type = LOGIN_RESULT PROVE Head(answers).email \in Name
    <3>1. answers \in Seq(Answer)
      BY DEF SInv, SessionTypes
    <3>2. Head(answers) \in Answer
      BY <2>2, <3>1, HeadTailProperties
    <3>. QED
      BY <2>2, <3>2 DEF Answer, LOGIN_RESULT, REGISTER_RESULT
  <2>3. name' \in [Client -> Name \cup {NoRoom}]
    BY <1>1, <2>1, <2>2
  <2>. QED
    BY <1>1, <2>1, <2>3, StillRoomTypes
<1>5. CASE ServeClient
  <2>. DEFINE k == Max(ClientsToServe)
  <2>1. k \in 1 .. Len(clients) /\ clients[k] \in Authenticated
    BY <1>5, ServedPosition
  <2>2. PICK c \in Authenticated : c = clients[k]
    BY <2>1
  <2>3. \/ RecvGets(c) /\ HandlePacket(c, Head(fromClient[c]))
        \/ UNCHANGED <<rooms, clientToRoomMap, name, fromClient>>
    BY <1>5, <2>2 DEF ServeClient, roomVars
  <2>4. c \in Client
    BY PlacesAreClients DEF HInv
  <2>. HIDE DEF k
  <2>5. CASE RecvGets(c) /\ HandlePacket(c, Head(fromClient[c]))
    <3>1. PICK p : p = Head(fromClient[c])
      OBVIOUS
    <3>2. /\ 1 \in DOMAIN fromClient[c] /\ p = fromClient[c][1]
          /\ \A d \in Client : d # c => fromClient'[d] = fromClient[d]
          /\ \A i \in DOMAIN fromClient'[c] :
                \E j \in DOMAIN fromClient[c] : fromClient'[c][i] = fromClient[c][j]
      BY <2>4, <2>5, <3>1, RecvLeaves DEF HInv
    <3>3. p.type = JOIN_ROOM => p.room \in RoomName /\ p.name \in Name
      BY <2>4, <3>2 DEF RoomTypes, SInv, Admitted
    <3>4. HandlePacket(c, p)
      BY <2>5, <3>1
    <3>5. /\ DOMAIN rooms' \subseteq RoomOrNone
          /\ clientToRoomMap' \in [DOMAIN clientToRoomMap' -> RoomOrNone]
          /\ name' \in [Client -> Name \cup {NoRoom}]
      BY <2>4, <3>3, <3>4, HandlePacketTypes
    <3>6. \A d \in Client : \A i \in DOMAIN fromClient'[d] :
             fromClient'[d][i].type = JOIN_ROOM => fromClient'[d][i].room \in RoomName
      BY <2>4, <3>2 DEF RoomTypes
    <3>. QED
      BY <1>1, <3>5, <3>6 DEF RoomTypes
  <2>. QED
    BY <1>2, <2>3, <2>5
<1>6. CASE ServeUnauthenticated
  <2>. DEFINE id == Min(UnauthToServe)
  <2>1. id \in Ids /\ unauthenticatedClients[id] \in Client
    BY <1>6, ServedId
  <2>2. PICK c \in Client : c = unauthenticatedClients[id]
    BY <2>1
  <2>3. UNCHANGED <<rooms, clientToRoomMap, name>> /\ (RecvGets(c) \/ UNCHANGED fromClient)
    BY <1>6, <2>2 DEF ServeUnauthenticated, roomVars
  <2>. HIDE DEF id
  <2>4. \A d \in Client : \A i \in DOMAIN fromClient'[d] :
           \E j \in DOMAIN fromClient[d] : fromClient'[d][i] = fromClient[d][j]
    <3>1. CASE RecvGets(c)
      BY <3>1, RecvLeaves DEF HInv
    <3>2. CASE UNCHANGED fromClient
      BY <3>2
    <3>. QED
      BY <2>3, <3>1, <3>2
  <2>. QED
    BY <1>2, <2>3, <2>4
<1>. QED
  BY <1>3, <1>4, <1>5, <1>6 DEF ServerStep, Server

\* The types of the rooms and a client program.
LEMMA UserRoomTypes == ASSUME HInv, SInv, RoomTypes, NEW c \in Client, User(c) PROVE RoomTypes'
<1>1. /\ UNCHANGED <<rooms, clientToRoomMap, name>>
      /\ currentRoom \in [Client -> RoomOrNone] /\ name \in [Client -> Name \cup {NoRoom}]
  BY DEF User, Connect, AskToLogin, SendJoin, SendChat, SendLeave, SendFrame, Send, ClientRecv,
     Close, roomVars, RoomTypes
<1>2. CASE Connect(c) \/ ClientRecv(c) \/ Close(c)
  <2>1. UNCHANGED <<fromClient, currentRoom>>
    BY <1>2 DEF Connect, ClientRecv, Close, U!Receives, U!Ends
  <2>. QED
    BY <1>1, <2>1, StillRoomTypes
<1>3. ASSUME NEW p, SendFrame(c, p), p.type = JOIN_ROOM => p.room \in RoomName PROVE RoomTypes'
  <2>1. /\ fromClient'[c] = Append(fromClient[c], p)
        /\ fromClient[c] \in Seq(ToSet(fromClient[c]))
        /\ \A d \in Client : d # c => fromClient'[d] = fromClient[d]
    BY <1>3, FrameSent
  <2>2. currentRoom' \in [Client -> RoomOrNone]
    <3>1. \/ currentRoom' = currentRoom
          \/ p.type = U!JOIN_ROOM /\ currentRoom' = [currentRoom EXCEPT ![c] = p.room]
      BY <1>3 DEF SendFrame, U!Sends, U!Ask, U!Join, U!Chat, U!Leave, U!userVars
    <3>2. U!JOIN_ROOM = JOIN_ROOM
      BY DEF U!JOIN_ROOM, JOIN_ROOM
    <3>. QED
      BY <1>1, <1>3, <3>1, <3>2 DEF RoomOrNone
  <2>3. \A i \in DOMAIN fromClient'[c] :
           (\E j \in DOMAIN fromClient[c] : fromClient'[c][i] = fromClient[c][j])
           \/ fromClient'[c][i] = p
    BY <2>1, AppendElements
  <2>4. \A d \in Client : \A i \in DOMAIN fromClient'[d] :
           \/ \E j \in DOMAIN fromClient[d] : fromClient'[d][i] = fromClient[d][j]
           \/ fromClient'[d][i].type = JOIN_ROOM => fromClient'[d][i].room \in RoomName
    BY <1>3, <2>1, <2>3
  <2>. QED
    BY <1>1, <2>2, <2>4, StillRoomTypes
<1>4. CASE AskToLogin(c)
  <2>1. PICK e \in Name, w \in Password :
           \/ SendFrame(c, PacketLoginRequest(0, e, w))
           \/ SendFrame(c, PacketRegisterRequest(0, e, w))
    BY <1>4 DEF AskToLogin
  <2>2. /\ PacketLoginRequest(0, e, w).type # JOIN_ROOM
        /\ PacketRegisterRequest(0, e, w).type # JOIN_ROOM
    BY DEF PacketLoginRequest, PacketRegisterRequest, LOGIN_REQUEST, REGISTER_REQUEST, JOIN_ROOM
  <2>. QED
    BY <1>3, <2>1, <2>2
<1>5. CASE SendJoin(c)
  <2>1. PICK r \in RoomName : SendFrame(c, PacketJoinRoom(r, typed[c]))
    BY <1>5 DEF SendJoin
  <2>2. PacketJoinRoom(r, typed[c]).room \in RoomName
    BY DEF PacketJoinRoom
  <2>. QED
    BY <1>3, <2>1, <2>2
<1>6. CASE SendChat(c) \/ SendLeave(c)
  <2>1. /\ \A m : PacketSendMessage(m).type # JOIN_ROOM
        /\ \A r, n : PacketLeaveRoom(r, n).type # JOIN_ROOM
    BY DEF PacketSendMessage, PacketLeaveRoom, SEND_MESSAGE, LEAVE_ROOM, JOIN_ROOM
  <2>. QED
    BY <1>3, <1>6, <2>1 DEF SendChat, SendLeave
<1>. QED
  BY <1>2, <1>4, <1>5, <1>6 DEF User

\* A step that is not of the loop.
LEMMA StillLoopTypes ==
    ASSUME LoopTypes, UNCHANGED <<up, pc, readSet, cursor, clients>>, authUp' \in BOOLEAN,
           currentUnauthenticatedClientId' = currentUnauthenticatedClientId
    PROVE  LoopTypes'
BY DEF LoopTypes

\* A packet ends the process at most.
LEMMA HandlePacketUp ==
    ASSUME NEW c, NEW p, HandlePacket(c, p), up \in BOOLEAN
    PROVE  up' \in BOOLEAN
BY DEF HandlePacket, SendMessage, SendMessageRoomNotFound

\* What select reports are sockets it watches, and the loop variables stay
\* within what they walk.
LEMMA ServerLoopTypes == ASSUME HInv, LoopTypes, ServerStep PROVE LoopTypes'
<1>1. /\ clients \in Seq(Client) /\ Len(clients) \in Nat /\ DOMAIN clients = 1 .. Len(clients)
      /\ currentUnauthenticatedClientId \in Nat
      /\ Ids \subseteq 0 .. currentUnauthenticatedClientId - 1
      /\ unauthenticatedClients \in [Ids -> Client]
  BY LenProperties DEF HInv, HomeTypes
<1>2. \A n \in Nat : 0 \in 0 .. n /\ n \in 0 .. n
  OBVIOUS
<1>3. up \in BOOLEAN /\ authUp \in BOOLEAN /\ readSet \subseteq Client \cup {Listener, AuthLink}
  BY DEF LoopTypes
<1>4. CASE Select
  <2>1. Watched \subseteq Client
    <3>1. \A k \in 1 .. Len(clients) : clients[k] \in Client
      BY <1>1, ElementOfSeq
    <3>2. \A id \in Ids : unauthenticatedClients[id] \in Client
      BY <1>1
    <3>. QED
      BY <3>1, <3>2 DEF Watched
  <2>2. Readable \subseteq Client \cup {Listener, AuthLink}
    BY <2>1 DEF Readable
  <2>3. /\ readSet' = Readable /\ pc' = SectionAfterSelect(Readable) /\ cursor' = Len(clients)
        /\ UNCHANGED <<up, authUp, clients, currentUnauthenticatedClientId>>
    BY <1>4 DEF Select, homeVars, authVars
  <2>4. pc' \in {"accept", "auth", "clients"}
    BY <2>3 DEF SectionAfterSelect
  <2>. QED
    BY <1>1, <1>2, <1>3, <2>2, <2>3, <2>4 DEF LoopTypes
<1>5. CASE Accept
  <2>1. /\ up' \in BOOLEAN /\ UNCHANGED <<readSet, cursor, clients, authUp>> /\ pc = "accept"
        /\ pc' = SectionAfterSelect(readSet \ {Listener})
    BY <1>3, <1>5 DEF Accept, authVars
  <2>2. pc' \in {"auth", "clients"}
    BY <2>1 DEF SectionAfterSelect
  <2>. QED
    BY <1>3, <2>1, <2>2 DEF LoopTypes
<1>6. CASE AuthRecv
  <2>1. /\ up' \in BOOLEAN /\ UNCHANGED <<readSet, authUp>> /\ pc' = "clients"
        /\ cursor' = Len(clients')
    BY <1>3, <1>6 DEF AuthRecv
  <2>2. Len(clients') \in Nat
    <3>1. clients' = clients \/ \E x : clients' = Append(clients, x)
      BY <1>6 DEF AuthRecv, DispatchResult, LoginResult, RegisterResult
    <3>2. clients \in Seq(ToSet(clients))
      BY <1>1, SeqOfItsSet
    <3>3. ASSUME NEW x, clients' = Append(clients, x) PROVE Len(clients') \in Nat
      <4>1. Len(clients') = Len(clients) + 1
        BY <3>2, <3>3, AppendElements
      <4>. QED
        BY <1>1, <4>1
    <3>. QED
      BY <1>1, <3>1, <3>3
  <2>. QED
    BY <1>2, <1>3, <2>1, <2>2 DEF LoopTypes
<1>7. CASE ServeClient
  <2>. DEFINE k == Max(ClientsToServe)
  <2>1. k \in 1 .. Len(clients) /\ k \in 1 .. cursor
    <3>1. k \in 1 .. Len(clients)
      BY <1>7, ServedPosition
    <3>2. cursor \in 0 .. Len(clients)
      BY <1>7 DEF ServeClient, LoopTypes
    <3>3. cursor \in Nat
      BY <1>1, <3>2
    <3>4. ClientsToServe \subseteq 1 .. cursor /\ ClientsToServe # {}
      BY <1>7 DEF ClientsToServe, ServeClient
    <3>5. k \in ClientsToServe
      BY <3>3, <3>4, MaxOfPositions
    <3>. QED
      BY <3>1, <3>4, <3>5
  <2>2. PICK c : c = clients[k]
    OBVIOUS
  <2>3. /\ UNCHANGED <<pc, readSet, authUp>> /\ pc = "clients" /\ cursor' = k - 1
        /\ \/ HandlePacket(c, Head(fromClient[c])) /\ UNCHANGED clients
           \/ clients' = SwapRemove(k) /\ UNCHANGED up
    BY <1>7, <2>2 DEF ServeClient, authVars
  <2>. HIDE DEF k
  <2>4. up' \in BOOLEAN
    BY <1>3, <2>3, HandlePacketUp
  <2>5. clients' = clients \/ Len(clients') = Len(clients) - 1
    <3>1. Once(clients) /\ SwapRemove(k) = Front(ReplaceAt(clients, k, Last(clients)))
      BY DEF HInv, Kept, SwapRemove
    <3>2. Len(Front(ReplaceAt(clients, k, Last(clients)))) = Len(clients) - 1
      BY <1>1, <2>1, <3>1, SwapRemoveOnce, Zenon
    <3>. QED
      BY <2>3, <3>1, <3>2
  <2>6. \A n \in Nat : \A j \in 1 .. n : j - 1 \in 0 .. n /\ j - 1 \in 0 .. n - 1
    OBVIOUS
  <2>7. k - 1 \in 0 .. Len(clients')
    <3>1. Len(clients) \in Nat /\ k \in 1 .. Len(clients)
      BY <1>1, <2>1
    <3>2. k - 1 \in 0 .. Len(clients) /\ k - 1 \in 0 .. Len(clients) - 1
      BY <2>6, <3>1
    <3>. QED
      BY <2>5, <3>2
  <2>. QED
    BY <1>3, <2>3, <2>4, <2>7 DEF LoopTypes
<1>8. CASE ClientsServed
  BY <1>1, <1>2, <1>3, <1>8 DEF ClientsServed, LoopTypes, homeVars, authVars
<1>9. CASE ServeUnauthenticated
  <2>. DEFINE id == Min(UnauthToServe)
  <2>1. id \in Ids
    BY <1>9, ServedId
  <2>2. /\ UNCHANGED <<pc, readSet, authUp, up, clients, currentUnauthenticatedClientId>>
        /\ pc = "unauth" /\ cursor' = id + 1
    BY <1>9 DEF ServeUnauthenticated
  <2>. HIDE DEF id
  <2>3. \A n \in Nat : \A j \in 0 .. n - 1 : j + 1 \in 0 .. n
    OBVIOUS
  <2>4. id + 1 \in 0 .. currentUnauthenticatedClientId
    BY <1>1, <2>1, <2>3
  <2>. QED
    BY <1>3, <2>2, <2>4 DEF LoopTypes
<1>10. CASE RemoveInvalid
  BY <1>1, <1>2, <1>3, <1>10 DEF RemoveInvalid, LoopTypes, authVars
<1>. QED
  BY <1>4, <1>5, <1>6, <1>7, <1>8, <1>9, <1>10 DEF ServerStep, Server

\* A client program does not touch the loop.
LEMMA UserLoopTypes == ASSUME LoopTypes, NEW c \in Client, User(c) PROVE LoopTypes'
<1>1. UNCHANGED <<up, pc, readSet, cursor, clients, authUp, currentUnauthenticatedClientId>>
  BY DEF User, Connect, AskToLogin, SendJoin, SendChat, SendLeave, SendFrame, Send, ClientRecv,
     Close, loopVars, homeVars, authVars
<1>. QED
  BY <1>1, StillLoopTypes DEF LoopTypes

\* A step that accepts nobody, or nobody but a client it does not keep.
LEMMA StillCounts ==
    ASSUME IsFiniteSet(Client), HomeTypes, Counts, Accepted \subseteq Accepted',
           Served' \subseteq Served,
           currentUnauthenticatedClientId' = currentUnauthenticatedClientId
    PROVE  Counts'
<1>1. Accepted' \subseteq Client /\ Served \subseteq Client
  BY PlacesAreClients DEF Accepted, Served
<1>2. IsFiniteSet(Accepted') /\ IsFiniteSet(Served)
  BY <1>1, FS_Subset
<1>3. /\ Cardinality(Accepted) <= Cardinality(Accepted')
      /\ Cardinality(Served') <= Cardinality(Served)
  BY <1>2, FS_Subset
<1>4. /\ IsFiniteSet(Accepted) /\ IsFiniteSet(Served')
  BY <1>2, FS_Subset
<1>5. /\ Cardinality(Accepted) \in Nat /\ Cardinality(Accepted') \in Nat
      /\ Cardinality(Served) \in Nat /\ Cardinality(Served') \in Nat
  BY <1>2, <1>4, FS_CardinalityType
<1>6. \A a, b, c \in Nat : a <= b /\ b <= c => a <= c
  OBVIOUS
<1>7. currentUnauthenticatedClientId \in Nat
  BY DEF HomeTypes
<1>. QED
  BY <1>3, <1>5, <1>6, <1>7 DEF Counts

\* accept() gives the next id to the client it takes out of the queue.
LEMMA AcceptCounts ==
    ASSUME IsFiniteSet(Client), HInv, Counts, Accept, UNCHANGED user
    PROVE  Counts'
<1>1. /\ backlog \in Seq(Client) /\ Once(backlog) /\ backlog # <<>>
      /\ Queued \subseteq Client
  BY PlacesAreClients DEF HInv, HomeTypes, Kept, Loop, Accept
<1>2. PICK c : c = Head(backlog)
  OBVIOUS
<1>3. c \in Queued /\ ToSet(Tail(backlog)) = Queued \ {c}
  BY <1>1, <1>2, TailOnce DEF Queued
<1>4. Queued' = Queued \ {c}
  BY <1>3 DEF Accept, Queued
<1>5. user[c] # "off" /\ c \in Client
  BY <1>1, <1>3 DEF HInv, Gone, Home
<1>6. Accepted' = Accepted \cup {c} /\ c \notin Accepted
  BY <1>3, <1>4, <1>5 DEF Accepted
<1>7. Authenticated' = Authenticated
  BY DEF Accept, Authenticated
<1>8. CASE UNCHANGED <<unauthenticatedClients, currentUnauthenticatedClientId>>
  <2>1. Served' = Served
    BY <1>7, <1>8 DEF Served, Unauthenticated, Ids
  <2>. QED
    BY <1>6, <1>8, <2>1, StillCounts DEF HInv
<1>9. CASE NewClient(c)
  <2>1. /\ Served' \subseteq Served \cup {c}
        /\ currentUnauthenticatedClientId' = currentUnauthenticatedClientId + 1
    BY <1>7, <1>9 DEF NewClient, Served, Unauthenticated, Ids
  <2>2. Accepted \subseteq Client /\ Served \subseteq Client
    BY PlacesAreClients DEF Accepted, Served, HInv
  <2>3. IsFiniteSet(Accepted) /\ IsFiniteSet(Served)
    BY <2>2, FS_Subset
  <2>4. Cardinality(Accepted') = Cardinality(Accepted) + 1
    BY <1>6, <2>3, FS_AddElement
  <2>5. /\ Cardinality(Served \cup {c}) <= Cardinality(Served) + 1
        /\ Cardinality(Served \cup {c}) \in Nat /\ Cardinality(Served') \in Nat
        /\ Cardinality(Served') <= Cardinality(Served \cup {c})
    <3>1. IsFiniteSet(Served \cup {c}) /\ Cardinality(Served) \in Nat
      BY <2>3, FS_AddElement, FS_CardinalityType
    <3>2. IsFiniteSet(Served')
      BY <2>1, <3>1, FS_Subset
    <3>3. /\ Cardinality(Served \cup {c}) \in Nat /\ Cardinality(Served') \in Nat
          /\ Cardinality(Served') <= Cardinality(Served \cup {c})
      BY <2>1, <3>1, <3>2, FS_Subset, FS_CardinalityType
    <3>4. Cardinality(Served \cup {c}) = IF c \in Served THEN Cardinality(Served)
                                         ELSE Cardinality(Served) + 1
      BY <2>3, FS_AddElement
    <3>5. \A n \in Nat : n <= n + 1 /\ n + 1 <= n + 1
      OBVIOUS
    <3>. QED
      BY <3>1, <3>3, <3>4, <3>5
  <2>6. Cardinality(Accepted) \in Nat /\ Cardinality(Served) \in Nat
        /\ currentUnauthenticatedClientId \in Nat
    BY <2>3, FS_CardinalityType DEF HInv, HomeTypes
  <2>7. \A i, a, s, t, u \in Nat : i <= a /\ s <= i /\ t <= s + 1 /\ u <= t
           => i + 1 <= a + 1 /\ u <= i + 1
    OBVIOUS
  <2>8. /\ currentUnauthenticatedClientId <= Cardinality(Accepted)
        /\ Cardinality(Served) <= currentUnauthenticatedClientId
    BY DEF Counts
  <2>9. /\ currentUnauthenticatedClientId + 1 <= Cardinality(Accepted) + 1
        /\ Cardinality(Served') <= currentUnauthenticatedClientId + 1
    BY <2>5, <2>6, <2>7, <2>8
  <2>. QED
    BY <2>1, <2>4, <2>9 DEF Counts
<1>. QED
  BY <1>2, <1>8, <1>9 DEF Accept

\* Ids and the server's thread.
LEMMA ServerCounts ==
    ASSUME IsFiniteSet(Client), HInv, Counts, ServerStep
    PROVE  Counts'
<1>1. UNCHANGED user
  BY DEF ServerStep, userVars
<1>2. ASSUME UNCHANGED <<backlog, currentUnauthenticatedClientId>>, Served' \subseteq Served
      PROVE  Counts'
  <2>1. Accepted' = Accepted
    BY <1>1, <1>2 DEF Accepted, Queued
  <2>. QED
    BY <1>2, <2>1, StillCounts DEF HInv
<1>3. CASE Select \/ ClientsServed \/ ServeUnauthenticated
  <2>1. UNCHANGED <<backlog, currentUnauthenticatedClientId, clients, unauthenticatedClients>>
    BY <1>3 DEF Select, ClientsServed, ServeUnauthenticated, homeVars
  <2>. QED
    BY <1>2, <2>1 DEF Served, Authenticated, Unauthenticated, Ids
<1>4. CASE AuthRecv
  <2>1. UNCHANGED <<backlog, currentUnauthenticatedClientId>>
    BY <1>4 DEF AuthRecv
  <2>2. Served' \subseteq Served
    <3>1. CASE UNCHANGED <<clients, unauthenticatedClients>>
      BY <3>1 DEF Served, Authenticated, Unauthenticated, Ids
    <3>2. ASSUME NEW id \in Ids, clients' = Append(clients, unauthenticatedClients[id]),
                 unauthenticatedClients' = [i \in Ids \ {id} |-> unauthenticatedClients[i]]
          PROVE  Served' \subseteq Served
      <4>1. Unauthenticated' \subseteq Unauthenticated /\ unauthenticatedClients[id] \in Unauthenticated
        BY <3>2 DEF Unauthenticated, Ids
      <4>2. /\ clients \in Seq(ToSet(clients))
            /\ \A i \in DOMAIN clients' : (\E j \in DOMAIN clients : clients'[i] = clients[j])
                                          \/ clients'[i] = unauthenticatedClients[id]
        BY <3>2, SeqOfItsSet, AppendElements DEF HInv, HomeTypes
      <4>3. Authenticated' \subseteq Authenticated \cup {unauthenticatedClients[id]}
        BY <4>2 DEF Authenticated, ToSet
      <4>. QED
        BY <4>1, <4>3 DEF Served
    <3>3. \/ UNCHANGED <<clients, unauthenticatedClients>>
          \/ \E id \in Ids : /\ clients' = Append(clients, unauthenticatedClients[id])
                             /\ unauthenticatedClients' =
                                    [i \in Ids \ {id} |-> unauthenticatedClients[i]]
      BY <1>4 DEF AuthRecv, DispatchResult, LoginResult, RegisterResult
    <3>. QED
      BY <3>1, <3>2, <3>3
  <2>. QED
    BY <1>2, <2>1, <2>2
<1>5. CASE ServeClient
  <2>1. /\ UNCHANGED <<backlog, currentUnauthenticatedClientId, unauthenticatedClients>>
        /\ clients' = clients \/ clients' = SwapRemove(Max(ClientsToServe))
    BY <1>5 DEF ServeClient
  <2>2. Authenticated' \subseteq Authenticated
    <3>1. CASE clients' = clients
      BY <3>1 DEF Authenticated
    <3>2. CASE clients' = SwapRemove(Max(ClientsToServe))
      BY <1>5, <3>2, ServedPosition, SwapRemoveShrinks
    <3>. QED
      BY <2>1, <3>1, <3>2
  <2>. QED
    BY <1>2, <2>1, <2>2 DEF Served, Unauthenticated, Ids
<1>6. CASE RemoveInvalid
  <2>1. /\ UNCHANGED <<backlog, currentUnauthenticatedClientId, clients>>
        /\ unauthenticatedClients' =
              [id \in Ids \ clientsToRemove |-> unauthenticatedClients[id]]
    BY <1>6 DEF RemoveInvalid
  <2>. QED
    BY <1>2, <2>1 DEF Served, Authenticated, Unauthenticated, Ids
<1>. QED
  BY <1>1, <1>3, <1>4, <1>5, <1>6, AcceptCounts DEF ServerStep, Server

\* Ids and a client program.
LEMMA UserCounts ==
    ASSUME IsFiniteSet(Client), HInv, Counts, NEW c \in Client, User(c)
    PROVE  Counts'
<1>1. UNCHANGED <<clients, unauthenticatedClients, currentUnauthenticatedClientId>>
  BY DEF User, Connect, AskToLogin, SendJoin, SendChat, SendLeave, SendFrame, Send, ClientRecv,
     Close, homeVars
<1>2. Served' = Served
  BY <1>1 DEF Served, Authenticated, Unauthenticated, Ids
<1>3. user \in [Client -> UserState] /\ backlog \in Seq(Client) /\ Once(backlog)
  BY DEF HInv, HomeTypes, Kept
<1>4. Accepted \subseteq Accepted'
  <2>1. CASE Connect(c)
    <3>1. /\ user[c] = "off" /\ user' = [user EXCEPT ![c] = "idle"]
          /\ backlog' = Append(backlog, c)
      BY <2>1 DEF Connect
    <3>2. c \notin Queued
      BY <3>1 DEF HInv, Gone, Home
    <3>3. Queued' = Queued \cup {c}
      BY <1>3, <3>1, <3>2, AppendOnce DEF Queued
    <3>. QED
      BY <1>3, <3>1, <3>3 DEF Accepted
  <2>2. CASE ~Connect(c)
    <3>1. /\ backlog' = backlog
          /\ (\E p : U!Sends(c, p) \/ U!Receives(c, p)) \/ U!Ends(c)
      BY <2>2 DEF User, AskToLogin, SendJoin, SendChat, SendLeave, SendFrame, Send, ClientRecv,
         Close
    <3>2. \A d \in Client : user[d] # "off" => user'[d] # "off"
      BY <1>3, <3>1, UserGoesOn
    <3>. QED
      BY <3>1, <3>2 DEF Accepted, Queued
  <2>. QED
    BY <2>1, <2>2
<1>. QED
  BY <1>1, <1>2, <1>4, StillCounts DEF HInv

\* The fourth invariant.
BInv == RoomTypes /\ Lengths /\ LoopTypes /\ Counts

\* What it is about, besides the link to the authentication server.
bounded == <<rooms, clientToRoomMap, name, currentRoom, fromClient, toClient, up, pc, readSet,
             cursor, clients, unauthenticatedClients, currentUnauthenticatedClientId, backlog,
             user>>

\* A step of the authentication server reads a request at most.
LEMMA AsideBInv ==
    ASSUME BInv, asks \in Seq(Request), UNCHANGED bounded, authUp' \in BOOLEAN,
           asks' = asks \/ (asks # <<>> /\ asks' = Tail(asks))
    PROVE  BInv'
<1>1. /\ UNCHANGED <<rooms, clientToRoomMap, name, currentRoom, fromClient, toClient>>
      /\ UNCHANGED <<up, pc, readSet, cursor, clients, currentUnauthenticatedClientId>>
      /\ UNCHANGED <<unauthenticatedClients, backlog, user>>
  BY DEF bounded
<1>2. RoomTypes'
  BY <1>1 DEF BInv, RoomTypes
<1>3. LoopTypes'
  BY <1>1, StillLoopTypes DEF BInv
<1>4. Counts'
  <2>1. Accepted' = Accepted /\ Served' = Served
    BY <1>1 DEF Accepted, Served, Queued, Authenticated, Unauthenticated, Ids
  <2>. QED
    BY <1>1, <2>1 DEF BInv, Counts
<1>5. asks' = asks \/ Len(asks') <= AuthCap
  <2>1. CASE asks # <<>> /\ asks' = Tail(asks)
    <3>1. Len(asks) \in Nat /\ AuthCap \in Nat /\ Len(asks) <= AuthCap
      BY LenProperties, LinksAssumption DEF BInv, Lengths
    <3>2. Len(Tail(asks)) = Len(asks) - 1
      BY <2>1, HeadTailProperties
    <3>3. \A n, m \in Nat : n <= m => n - 1 <= m
      OBVIOUS
    <3>4. Len(asks) - 1 <= AuthCap
      BY <3>1, <3>3
    <3>5. PICK t : t = Tail(asks)
      OBVIOUS
    <3>6. Len(t) <= AuthCap
      BY <3>2, <3>4, <3>5
    <3>7. asks' = t
      BY <2>1, <3>5
    <3>. QED
      BY <3>6, <3>7
  <2>. QED
    BY <2>1
<1>6. Lengths'
  BY <1>1, <1>5, StillLengths DEF BInv
<1>. QED
  BY <1>2, <1>3, <1>4, <1>6 DEF BInv

\* The start.
LEMMA InitBInv == ASSUME IsFiniteSet(Client), Init PROVE BInv
<1>1. /\ rooms = [r \in {} |-> <<>>] /\ clientToRoomMap = [c \in {} |-> NoRoom]
      /\ name = [c \in Client |-> NoRoom] /\ toClient = [c \in Client |-> <<>>]
      /\ fromClient = [c \in Client |-> <<>>] /\ currentRoom = [c \in Client |-> NoRoom]
      /\ up = TRUE /\ pc = "select" /\ readSet = {} /\ cursor = 0 /\ clients = <<>>
      /\ unauthenticatedClients = [id \in {} |-> <<>>]
      /\ currentUnauthenticatedClientId = 0
      /\ user = [c \in Client |-> "off"] /\ asks = <<>> /\ authUp = TRUE
  BY DEF Init, ServerInit, LinksInit, asks, Link
<1>2. Len(<<>>) = 0 /\ 0 <= StreamCap /\ 0 <= SendCap /\ 0 <= AuthCap
  BY StreamCapAssumption, SystemAssumption, LinksAssumption
<1>3. RoomTypes
  BY <1>1 DEF RoomTypes, RoomOrNone
<1>4. Lengths
  BY <1>1, <1>2 DEF Lengths
<1>5. LoopTypes
  BY <1>1, <1>2 DEF LoopTypes
<1>6. Counts
  <2>1. Served = {} /\ Accepted = {}
    BY <1>1 DEF Served, Accepted, Authenticated, Unauthenticated, Ids, ToSet
  <2>2. Cardinality(Served) = 0 /\ Cardinality(Accepted) = 0
    BY <2>1, FS_EmptySet
  <2>. QED
    BY <1>1, <2>2 DEF Counts
<1>. QED
  BY <1>3, <1>4, <1>5, <1>6 DEF BInv

\* The server.
LEMMA ServerBInv ==
    ASSUME IsFiniteSet(Client), HInv, SInv, BInv, ServerStep
    PROVE  BInv'
BY ServerRoomTypes, ServerLengths, ServerLoopTypes, ServerCounts DEF BInv

\* A client program.
LEMMA UserBInv ==
    ASSUME IsFiniteSet(Client), HInv, SInv, BInv, NEW c \in Client, User(c)
    PROVE  BInv'
BY UserRoomTypes, UserLengths, UserLoopTypes, UserCounts DEF BInv

\* The invariant is inductive relative to those of homes and sessions.
LEMMA StepBInv ==
    ASSUME IsFiniteSet(Client), HInv, SInv, BInv, [Next]_vars
    PROVE  BInv'
<1>1. asks \in Seq(Request) /\ authUp \in BOOLEAN
  BY DEF SInv, SessionTypes, BInv, LoopTypes
<1>2. CASE AuthReply
  <2>1. /\ asks # <<>> /\ toAuth' = [toAuth EXCEPT ![AuthLink] = Tail(@)]
        /\ UNCHANGED bounded /\ authUp' = authUp
    BY <1>2 DEF AuthReply, asks, bounded, roomVars, loopVars, homeVars, userVars
  <2>2. toAuth = [s \in Link |-> toAuth[s]] /\ AuthLink \in Link
    BY DEF SInv, SessionTypes, Link
  <2>3. asks' = Tail(asks)
    BY <2>1, <2>2 DEF asks
  <2>. QED
    BY <1>1, <2>1, <2>3, AsideBInv
<1>3. CASE AuthDown
  <2>1. UNCHANGED bounded /\ asks' = asks /\ authUp' \in BOOLEAN
    BY <1>3 DEF AuthDown, asks, bounded, roomVars, loopVars, homeVars, userVars
  <2>. QED
    BY <1>1, <2>1, AsideBInv
<1>4. CASE UNCHANGED vars
  <2>1. UNCHANGED bounded /\ asks' = asks /\ authUp' \in BOOLEAN
    BY <1>1, <1>4 DEF vars, serverVars, asks, bounded, loopVars, homeVars, authVars, userVars
  <2>. QED
    BY <1>1, <2>1, AsideBInv
<1>. QED
  BY <1>2, <1>3, <1>4, ServerBInv, UserBInv DEF Next

\* What the invariants say of the counters.
LEMMA CountsBound ==
    ASSUME IsFiniteSet(Client), HInv, SInv, BInv
    PROVE  /\ currentUnauthenticatedClientId \in 0 .. Cardinality(Client)
           /\ Len(clients) \in 0 .. currentUnauthenticatedClientId
           /\ Cardinality(Pending) <= currentUnauthenticatedClientId
           /\ IsFiniteSet(Pending)
<1>. DEFINE n == currentUnauthenticatedClientId
<1>1. n \in Nat /\ clients \in Seq(Client) /\ Once(clients)
  BY DEF HInv, HomeTypes, Kept
<1>2. /\ Accepted \subseteq Client /\ Served \subseteq Client /\ ToSet(clients) \subseteq Served
  BY PlacesAreClients DEF HInv, Accepted, Served, Authenticated
<1>3. /\ IsFiniteSet(Accepted) /\ IsFiniteSet(Served)
      /\ Cardinality(Accepted) <= Cardinality(Client)
      /\ Cardinality(ToSet(clients)) <= Cardinality(Served)
  BY <1>2, FS_Subset
<1>4. /\ Cardinality(Accepted) \in Nat /\ Cardinality(Client) \in Nat
      /\ Cardinality(Served) \in Nat
  BY <1>3, FS_CardinalityType
<1>5. n <= Cardinality(Accepted) /\ Cardinality(Served) <= n
  BY DEF BInv, Counts
<1>6. Cardinality(ToSet(clients)) = Len(clients) /\ Len(clients) \in Nat
  BY <1>1, OnceLength, LenProperties
<1>7. \A i, a, c \in Nat : i <= a /\ a <= c => i \in 0 .. c
  OBVIOUS
<1>8. n \in 0 .. Cardinality(Client) /\ Len(clients) \in 0 .. n
  <2>. HIDE DEF n
  <2>. QED
    BY <1>1, <1>3, <1>4, <1>5, <1>6, <1>7
<1>9. IsFiniteSet(Pending) /\ Cardinality(Pending) <= n
  <2>1. Pending \subseteq 0 .. n - 1
    BY DEF SInv, OnTheWay
  <2>2. IsFiniteSet(0 .. n - 1) /\ Cardinality(0 .. n - 1) = n
    <3>1. 0 \in Int /\ n - 1 \in Int
      BY <1>1
    <3>. HIDE DEF n
    <3>2. /\ IsFiniteSet(0 .. n - 1)
          /\ Cardinality(0 .. n - 1) = IF 0 > n - 1 THEN 0 ELSE (n - 1) - 0 + 1
      BY <3>1, FS_Interval
    <3>3. \A m \in Nat : (IF 0 > m - 1 THEN 0 ELSE (m - 1) - 0 + 1) = m
      OBVIOUS
    <3>. QED
      BY <1>1, <3>2, <3>3 DEF n
  <2>. HIDE DEF n
  <2>. QED
    BY <2>1, <2>2, FS_Subset
<1>. QED
  BY <1>8, <1>9

\* The links to the authentication server hold no more than they have room for.
LEMMA LinksBound ==
    ASSUME IsFiniteSet(Client), HInv, SInv, BInv
    PROVE  /\ Len(asks) \in Nat /\ Len(asks) <= Cardinality(Pending)
           /\ Len(asks) <= Cardinality(Client)
           /\ Len(answers) \in Nat /\ Len(answers) <= Cardinality(Client)
<1>1. /\ IdSeq(asks) \in Seq(Nat) /\ Len(IdSeq(asks)) = Len(asks) /\ Once(IdSeq(asks))
      /\ IdSeq(answers) \in Seq(Nat) /\ Len(IdSeq(answers)) = Len(answers)
      /\ Once(IdSeq(answers))
  <2>1. /\ asks \in Seq(Request) /\ answers \in Seq(Answer)
        /\ Once(IdSeq(asks)) /\ Once(IdSeq(answers))
    BY DEF SInv, SessionTypes, OnTheWay
  <2>. QED
    BY <2>1, IdSeqType, FrameIds
<1>2. /\ currentUnauthenticatedClientId \in 0 .. Cardinality(Client)
      /\ Cardinality(Pending) <= currentUnauthenticatedClientId /\ IsFiniteSet(Pending)
  BY CountsBound
<1>3. ToSet(IdSeq(asks)) \subseteq Pending /\ ToSet(IdSeq(answers)) \subseteq Pending
  BY DEF Pending
<1>4. /\ Cardinality(ToSet(IdSeq(asks))) = Len(asks) /\ Len(asks) \in Nat
      /\ Cardinality(ToSet(IdSeq(answers))) = Len(answers) /\ Len(answers) \in Nat
  BY <1>1, OnceLength, LenProperties
<1>5. Len(asks) <= Cardinality(Pending) /\ Len(answers) <= Cardinality(Pending)
  BY <1>2, <1>3, <1>4, FS_Subset
<1>6. Cardinality(Pending) \in Nat /\ Cardinality(Client) \in Nat
  BY <1>2, FS_CardinalityType
<1>7. \A a, p, n, c \in Nat : a <= p /\ p <= n /\ n <= c => a <= c
  OBVIOUS
<1>. QED
  BY <1>2, <1>4, <1>5, <1>6, <1>7

\* The invariants imply the types.
LEMMA InvariantsType ==
    ASSUME IsFiniteSet(Client), HInv, SInv, BInv
    PROVE  TypeOK
<1>1. /\ rooms \in [DOMAIN rooms -> Seq(Client)] /\ DOMAIN rooms \subseteq RoomOrNone
      /\ DOMAIN clientToRoomMap \subseteq Client
      /\ clientToRoomMap \in [DOMAIN clientToRoomMap -> RoomOrNone]
      /\ name \in [Client -> Name \cup {NoRoom}] /\ currentRoom \in [Client -> RoomOrNone]
  BY DEF HInv, HomeTypes, Lists, BInv, RoomTypes
<1>2. /\ \A c \in Client : Len(toClient[c]) <= StreamCap /\ Len(fromClient[c]) <= SendCap
      /\ Len(toAuth[AuthLink]) <= AuthCap
  BY DEF BInv, Lengths, asks
<1>3. /\ live \in [Client -> BOOLEAN] /\ up \in BOOLEAN /\ authUp \in BOOLEAN
      /\ pc \in {"select", "accept", "auth", "clients", "unauth"}
      /\ readSet \subseteq Client \cup {Listener, AuthLink}
  BY DEF HInv, HomeTypes, BInv, LoopTypes
<1>4. /\ clients \in Seq(Client) /\ backlog \in Seq(Client)
      /\ Ids \subseteq 0 .. currentUnauthenticatedClientId - 1
      /\ Unauthenticated \subseteq Client /\ clientsToRemove \subseteq Ids
      /\ freed \subseteq Client
  BY PlacesAreClients DEF HInv, HomeTypes, Loop
<1>5. cursor \in 0 .. currentUnauthenticatedClientId
  <2>1. /\ currentUnauthenticatedClientId \in Nat /\ Len(clients) \in Nat
        /\ Len(clients) \in 0 .. currentUnauthenticatedClientId
    BY CountsBound, LenProperties DEF HInv, HomeTypes
  <2>2. \A m, n \in Nat : m \in 0 .. n => \A k \in 0 .. m : k \in 0 .. n
    OBVIOUS
  <2>. QED
    BY <2>1, <2>2 DEF BInv, LoopTypes
<1>6. /\ currentUnauthenticatedClientId \in 0 .. Cardinality(Client)
      /\ Len(fromAuth[AuthLink]) <= Cardinality(Client)
  BY CountsBound, LinksBound DEF answers
<1>7. user \in [Client -> UserState] /\ typed \in [Client -> Name \cup {NoRoom}]
  BY DEF HInv, HomeTypes, SInv, SessionTypes
<1>. QED
  BY <1>1, <1>2, <1>3, <1>4, <1>5, <1>6, <1>7 DEF TypeOK

\* The rooms, the loop and the streams are of their types throughout: no stream
\* outgrows its capacity, no id is given out twice, no more requests are under
\* way to or from the authentication server than there are clients.
THEOREM AlwaysTypeOK ==
    ASSUME IsFiniteSet(Client)
    PROVE  Spec => []TypeOK
<1>1. Init => BInv
  BY InitBInv
<1>2. HInv /\ SInv /\ BInv /\ [Next]_vars => BInv'
  BY StepBInv
<1>3. HInv /\ SInv /\ BInv => TypeOK
  BY InvariantsType
<1>. QED
  BY <1>1, <1>2, <1>3, AlwaysSInv, PTL DEF Spec

-----------------------------------------------------------------------------
(* Requests.  One that was sent is not lost before it is answered.           *)

\* The request of a client outside, or its answer, is somewhere on its way.
Asked(c) ==
    \/ fromClient[c] # <<>>
    \/ \E id \in Ids \cap Pending : unauthenticatedClients[id] = c
    \/ toClient[c] # <<>>

\* The fifth invariant: every waiting client outside is asked for, and a client
\* inside has no frame of a login left.
QInv ==
    /\ up => \A c \in Outside : user[c] = "waiting" => Asked(c)
    /\ \A c \in Authenticated : \A i \in DOMAIN fromClient[c] : ~FullFrame(fromClient[c][i])

\* What keeps the request of a client under way.
LEMMA AskedStays ==
    ASSUME NEW c, Asked(c), fromClient'[c] = fromClient[c], toClient'[c] = toClient[c],
           \A id \in Ids \cap Pending : unauthenticatedClients[id] = c =>
              id \in Ids' \cap Pending' /\ unauthenticatedClients'[id] = c
    PROVE  Asked(c)'
BY DEF Asked

\* A step that loses no request.
LEMMA KeepsQInv ==
    ASSUME QInv, up' => up,
           \A c \in Outside' : up' /\ user'[c] = "waiting" =>
              Asked(c)' \/ (c \in Outside /\ user[c] = "waiting" /\ (Asked(c) => Asked(c)')),
           \A c \in Authenticated' : \A i \in DOMAIN fromClient'[c] :
              \/ ~FullFrame(fromClient'[c][i])
              \/ c \in Authenticated /\ \E j \in DOMAIN fromClient[c] : fromClient'[c][i] = fromClient[c][j]
    PROVE  QInv'
<1>1. up' => \A c \in Outside' : user'[c] = "waiting" => Asked(c)'
  BY DEF QInv
<1>2. \A c \in Authenticated' : \A i \in DOMAIN fromClient'[c] : ~FullFrame(fromClient'[c][i])
  BY DEF QInv
<1>. QED
  BY <1>1, <1>2 DEF QInv

\* A step that takes no request out of a stream, a map or a link.
LEMMA StillQInv ==
    ASSUME QInv, up' => up, UNCHANGED <<user, fromClient, toClient>>,
           Outside' \subseteq Outside, Authenticated' \subseteq Authenticated,
           \A id \in Ids \cap Pending :
              \/ id \in Ids' \cap Pending'
                 /\ unauthenticatedClients'[id] = unauthenticatedClients[id]
              \/ user[unauthenticatedClients[id]] # "waiting"
    PROVE  QInv'
<1>1. ASSUME NEW c \in Outside', user'[c] = "waiting"
      PROVE  c \in Outside /\ user[c] = "waiting" /\ (Asked(c) => Asked(c)')
  <2>1. c \in Outside /\ user[c] = "waiting"
    BY <1>1
  <2>2. ASSUME Asked(c) PROVE Asked(c)'
    BY <1>1, <2>2, AskedStays
  <2>. QED
    BY <2>1, <2>2
<1>2. \A c \in Authenticated' : \A i \in DOMAIN fromClient'[c] :
         c \in Authenticated /\ \E j \in DOMAIN fromClient[c] : fromClient'[c][i] = fromClient[c][j]
  OBVIOUS
<1>. QED
  BY <1>1, <1>2, KeepsQInv

\* The client accepted last waits under a new id.
LEMMA AcceptQInv == ASSUME HInv, QInv, Accept, UNCHANGED user PROVE QInv'
<1>1. /\ up /\ UNCHANGED <<fromClient, toClient, clients, toAuth, fromAuth>>
      /\ backlog' = Tail(backlog)
      /\ \/ NewClient(Head(backlog)) /\ UNCHANGED up
         \/ up' = FALSE /\ UNCHANGED unauthenticatedClients
  BY DEF Accept, roomVars, authVars
<1>2. backlog \in Seq(Client) /\ Once(backlog) /\ backlog # <<>>
  BY DEF HInv, HomeTypes, Kept, Loop, Accept
<1>3. Head(backlog) \in Queued /\ Queued' \subseteq Queued
  <2>1. Head(backlog) \in ToSet(backlog) /\ ToSet(Tail(backlog)) \subseteq ToSet(backlog)
    BY <1>2, TailOnce
  <2>. QED
    BY <1>1, <2>1 DEF Queued
<1>4. Pending' = Pending /\ Authenticated' = Authenticated
  BY <1>1 DEF Pending, asks, answers, Authenticated
<1>5. /\ \A id \in Ids : id \in Ids' /\ unauthenticatedClients'[id] = unauthenticatedClients[id]
      /\ Unauthenticated' \subseteq Unauthenticated \cup {Head(backlog)}
  <2>1. CASE UNCHANGED unauthenticatedClients
    BY <2>1 DEF Ids, Unauthenticated
  <2>2. CASE NewClient(Head(backlog))
    <3>1. currentUnauthenticatedClientId \notin Ids
      <4>1. \A n \in Nat : n \notin 0 .. n - 1
        OBVIOUS
      <4>. QED
        BY <4>1 DEF HInv, HomeTypes
    <3>. QED
      BY <2>2, <3>1 DEF NewClient, Ids, Unauthenticated
  <2>. QED
    BY <1>1, <2>1, <2>2
<1>6. Outside' \subseteq Outside
  BY <1>3, <1>5 DEF Outside
<1>. QED
  BY <1>1, <1>4, <1>5, <1>6, StillQInv

\* A result goes to the client whose request it answers; the others' stay.
LEMMA AuthRecvQInv == ASSUME HInv, SInv, QInv, AuthRecv, UNCHANGED user PROVE QInv'
<1>. DEFINE p == Head(answers)
            j == p.requestId
            c == unauthenticatedClients[j]
<1>1. up /\ UNCHANGED <<toAuth, live, fromClient, backlog>>
  BY DEF AuthRecv
<1>2. Queued' = Queued /\ asks' = asks
  BY <1>1 DEF Queued, asks
<1>3. CASE up' = FALSE /\ UNCHANGED clients
  BY <1>1, <1>3, KeepsQInv DEF Authenticated
<1>4. CASE /\ answers # <<>> /\ DispatchResult(p) /\ UNCHANGED up
           /\ fromAuth' = [fromAuth EXCEPT ![AuthLink] = Tail(@)]
  <2>1. answers' = Tail(answers)
    BY <1>4 DEF SInv, SessionTypes, answers, Link
  <2>2. /\ answers \in Seq(Answer) /\ \A x \in Answer : x.requestId \in Nat
        /\ Once(IdSeq(answers))
    BY FrameIds DEF SInv, SessionTypes, OnTheWay
  <2>3. \A id \in Pending : id = j \/ id \in Pending'
    <3>. DEFINE u == IdSeq(answers)
    <3>1. IdSeq(answers') = Tail(u) /\ Head(u) = j /\ u # <<>> /\ u \in Seq(Nat)
      BY <1>4, <2>1, <2>2, IdSeqTail, IdSeqType
    <3>2. Once(u)
      BY <2>2
    <3>. HIDE DEF u, j
    <3>3. ToSet(Tail(u)) = ToSet(u) \ {j}
      BY <3>1, <3>2, TailOnce
    <3>. QED
      BY <1>2, <3>1, <3>3 DEF Pending, u
  <2>4. j \in Pending
    <3>. DEFINE u == IdSeq(answers)
    <3>1. Head(u) = j /\ u # <<>> /\ u \in Seq(Nat) /\ Once(u)
      BY <1>4, <2>2, IdSeqTail, IdSeqType
    <3>. HIDE DEF u, j
    <3>2. Head(u) \in ToSet(u)
      BY <3>1, TailOnce
    <3>. QED
      BY <3>1, <3>2 DEF Pending, u
  <2>5. CASE j \notin Ids
    <3>1. UNCHANGED <<unauthenticatedClients, clients, toClient>>
      BY <1>4, <2>5 DEF DispatchResult
    <3>2. Ids' = Ids /\ Outside' = Outside /\ Authenticated' = Authenticated
      BY <1>2, <3>1 DEF Ids, Outside, Unauthenticated, Authenticated
    <3>. HIDE DEF j
    <3>. QED
      BY <1>1, <1>4, <2>3, <2>5, <3>1, <3>2, StillQInv
  <2>6. CASE j \in Ids
    <3>1. /\ toClient' = SendToClient(toClient, c, p)
          /\ \/ /\ unauthenticatedClients' = [id \in Ids \ {j} |-> unauthenticatedClients[id]]
                /\ clients' = Append(clients, c)
             \/ UNCHANGED <<unauthenticatedClients, clients>>
      BY <1>4, <2>6 DEF DispatchResult, LoginResult, RegisterResult
    <3>2. /\ \A id \in Ids : id # j =>
                /\ id \in Ids' /\ unauthenticatedClients'[id] = unauthenticatedClients[id]
                /\ unauthenticatedClients[id] # c
          /\ c \in Client /\ c \in Unauthenticated /\ c \in Outside
          /\ Outside' \subseteq Outside
      BY <1>2, <2>6, <3>1 DEF HInv, HomeTypes, Kept, Once, Ids, Unauthenticated, Outside
    <3>3. fromClient[c] = <<>> /\ toClient[c] = <<>>
      BY <2>4, <2>6 DEF SInv, OnTheWay
    <3>4. user[c] = "waiting" => live[c]
      BY <3>2 DEF SInv, SessionTypes
    <3>5. PICK b \in Client : b = c
      BY <3>2
    <3>. HIDE DEF c, p, j
    <3>6. toClient = [d \in Client |-> toClient[d]]
      BY DEF SInv, SessionTypes
    <3>7. /\ \A d \in Client : d # b => toClient'[d] = toClient[d]
          /\ live[b] => toClient'[b] # <<>>
      <4>1. <<>> \in Seq({p}) /\ <<p>> \in Seq({p}) /\ Len(<<p>>) = 1 /\ <<p>> # <<>>
        OBVIOUS
      <4>2. Deliver(<<>>, <<p>>) = <<p>>
        BY <4>1, DeliverKeeps
      <4>. QED
        BY <3>1, <3>3, <3>5, <3>6, <4>1, <4>2 DEF SendToClient
    <3>8. ASSUME NEW d \in Outside', user'[d] = "waiting"
          PROVE  Asked(d)' \/ (d \in Outside /\ user[d] = "waiting" /\ (Asked(d) => Asked(d)'))
      <4>1. d \in Outside /\ user[d] = "waiting" /\ d \in Client
        BY <3>2, <3>8, PlacesAreClients DEF HInv, Outside
      <4>2. CASE d = b
        <5>1. toClient'[d] # <<>>
          BY <3>4, <3>5, <3>7, <4>1, <4>2
        <5>. QED
          BY <5>1 DEF Asked
      <4>3. CASE d # b
        <5>1. \A id \in Ids \cap Pending : unauthenticatedClients[id] = d =>
                 id \in Ids' \cap Pending' /\ unauthenticatedClients'[id] = d
          <6>. SUFFICES ASSUME NEW id \in Ids \cap Pending, unauthenticatedClients[id] = d
                        PROVE  id \in Ids' \cap Pending' /\ unauthenticatedClients'[id] = d
            OBVIOUS
          <6>1. id # j
            BY <3>5, <4>3 DEF c
          <6>. QED
            BY <2>3, <3>2, <6>1
        <5>2. toClient'[d] = toClient[d] /\ fromClient'[d] = fromClient[d]
          BY <1>1, <3>7, <4>1, <4>3
        <5>3. Asked(d) => Asked(d)'
          BY <5>1, <5>2, AskedStays
        <5>. QED
          BY <4>1, <5>3
      <4>. QED
        BY <4>2, <4>3
    <3>9. Authenticated' \subseteq Authenticated \cup {b}
      <4>1. clients \in Seq(Client) /\ clients \in Seq(ToSet(clients))
        BY SeqOfItsSet DEF HInv, HomeTypes
      <4>2. CASE clients' = Append(clients, c)
        <5>1. \A i \in DOMAIN clients' :
                 (\E k \in DOMAIN clients : clients'[i] = clients[k]) \/ clients'[i] = c
          BY <4>1, <4>2, AppendElements
        <5>. QED
          BY <3>5, <5>1 DEF Authenticated, ToSet
      <4>3. CASE clients' = clients
        BY <4>3 DEF Authenticated
      <4>. QED
        BY <3>1, <4>2, <4>3
    <3>10. \A d \in Authenticated' : \A i \in DOMAIN fromClient'[d] :
              \/ ~FullFrame(fromClient'[d][i])
              \/ d \in Authenticated /\ \E k \in DOMAIN fromClient[d] : fromClient'[d][i] = fromClient[d][k]
      <4>1. DOMAIN <<>> = {}
        OBVIOUS
      <4>. QED
        BY <1>1, <3>3, <3>5, <3>9, <4>1
    <3>11. up' => up
      BY <1>1
    <3>. QED
      BY <3>8, <3>10, <3>11, KeepsQInv
  <2>. QED
    BY <2>5, <2>6
<1>. QED
  BY <1>3, <1>4 DEF AuthRecv, answers

\* While a client has no request under way, the link has room for one.
LEMMA RoomForOne ==
    ASSUME IsFiniteSet(Client), Cardinality(Client) <= AuthCap, HInv, SInv, BInv,
           NEW id \in 0 .. currentUnauthenticatedClientId - 1, id \notin Pending
    PROVE  Len(asks) < AuthCap
<1>. DEFINE n == currentUnauthenticatedClientId
<1>1. /\ n \in 0 .. Cardinality(Client) /\ IsFiniteSet(Pending) /\ n \in Nat
      /\ Len(asks) \in Nat /\ Len(asks) <= Cardinality(Pending)
  BY CountsBound, LinksBound DEF HInv, HomeTypes
<1>2. Pending \cup {id} \subseteq 0 .. n - 1
  BY DEF SInv, OnTheWay
<1>3. IsFiniteSet(0 .. n - 1) /\ Cardinality(0 .. n - 1) = n
  <2>1. 0 \in Int /\ n - 1 \in Int
    BY <1>1
  <2>. HIDE DEF n
  <2>2. /\ IsFiniteSet(0 .. n - 1)
        /\ Cardinality(0 .. n - 1) = IF 0 > n - 1 THEN 0 ELSE (n - 1) - 0 + 1
    BY <2>1, FS_Interval
  <2>3. \A m \in Nat : (IF 0 > m - 1 THEN 0 ELSE (m - 1) - 0 + 1) = m
    OBVIOUS
  <2>. QED
    BY <1>1, <2>2, <2>3
<1>. HIDE DEF n
<1>4. Cardinality(Pending \cup {id}) <= n
  BY <1>2, <1>3, FS_Subset
<1>5. Cardinality(Pending \cup {id}) = Cardinality(Pending) + 1
  BY <1>1, FS_AddElement
<1>6. Cardinality(Pending) \in Nat /\ Cardinality(Client) \in Nat /\ AuthCap \in Nat
  BY <1>1, FS_CardinalityType, LinksAssumption
<1>7. \A k, p, m, c, a \in Nat : k <= p /\ p + 1 <= m /\ m \in 0 .. c /\ c <= a => k < a
  OBVIOUS
<1>8. Cardinality(Pending) + 1 <= n
  BY <1>4, <1>5
<1>. QED
  BY <1>1, <1>6, <1>7, <1>8

\* A request is forwarded, not lost.
LEMMA ForwardedQInv ==
    ASSUME IsFiniteSet(Client), Cardinality(Client) <= AuthCap, HInv, SInv, BInv, QInv,
           NEW id \in Ids, NEW c, c = unauthenticatedClients[id],
           RecvGets(c), Forward(id, Head(fromClient[c])),
           UNCHANGED <<clients, unauthenticatedClients, backlog, fromAuth, up, user, toClient>>
    PROVE  QInv'
<1>. DEFINE f == fromClient[c][1]
<1>1. /\ Ids' = Ids /\ Outside' = Outside /\ Authenticated' = Authenticated
      /\ answers' = answers
  BY DEF Ids, Outside, Queued, Unauthenticated, Authenticated, answers
<1>2. c \in Client /\ c \in Outside /\ c \notin Authenticated /\ Authenticated \subseteq Client
      /\ Outside \subseteq Client
  BY PlacesAreClients DEF HInv, HomeTypes, Kept, Outside, Unauthenticated
<1>3. /\ fromClient[c] # <<>> /\ Head(fromClient[c]) = f
      /\ \A d \in Client : d # c => fromClient'[d] = fromClient[d]
  BY <1>2, RecvLeaves DEF HInv, RecvGets
<1>4. f \in Request
  BY <1>2, <1>3 DEF SInv, Asking
<1>. HIDE DEF f
<1>5. id \in 0 .. currentUnauthenticatedClientId - 1 /\ id \notin Pending
  BY <1>3 DEF SInv, OnTheWay, HInv, HomeTypes
<1>6. Len(asks) < AuthCap
  BY <1>5, RoomForOne
<1>7. PICK q : q.requestId = id /\ q \in Request /\ SendToAuthServer(q)
  <2>1. \A n \in Nat : \A m \in 0 .. n - 1 : m \in Nat
    OBVIOUS
  <2>2. id \in Nat
    BY <1>5, <2>1 DEF HInv, HomeTypes
  <2>3. CASE f.type = LOGIN_REQUEST
    <3>1. SendToAuthServer(PacketLoginRequest(id, f.email, f.password))
      BY <1>3, <2>3 DEF Forward
    <3>2. /\ PacketLoginRequest(id, f.email, f.password).requestId = id
          /\ PacketLoginRequest(id, f.email, f.password) \in Request
      BY <1>4, <2>2 DEF PacketLoginRequest, Request
    <3>. QED
      BY <3>1, <3>2
  <2>4. CASE f.type # LOGIN_REQUEST
    <3>1. SendToAuthServer(PacketRegisterRequest(id, f.email, f.password))
      BY <1>3, <1>4, <2>4 DEF Forward, Request
    <3>2. /\ PacketRegisterRequest(id, f.email, f.password).requestId = id
          /\ PacketRegisterRequest(id, f.email, f.password) \in Request
      BY <1>4, <2>2 DEF PacketRegisterRequest, Request
    <3>. QED
      BY <3>1, <3>2
  <2>. QED
    BY <2>3, <2>4
<1>8. asks' = Append(asks, q)
  <2>1. AuthLink \in Link /\ toAuth = [s \in Link |-> toAuth[s]]
    BY DEF Link, SInv, SessionTypes
  <2>. QED
    BY <1>6, <1>7, <2>1 DEF SendToAuthServer, asks
<1>9. Pending' = Pending \cup {id}
  <2>1. /\ asks \in Seq(Request) /\ Once(IdSeq(asks)) /\ id \notin ToSet(IdSeq(asks))
        /\ \A x \in Request : x.requestId \in Nat
    BY <1>5, FrameIds DEF SInv, SessionTypes, OnTheWay, Pending
  <2>2. ToSet(IdSeq(asks')) = ToSet(IdSeq(asks)) \cup {id}
    BY <1>7, <1>8, <2>1, FreshFrame
  <2>. QED
    BY <1>1, <2>2 DEF Pending
<1>10. ASSUME NEW d \in Outside', user'[d] = "waiting"
       PROVE  Asked(d)' \/ (d \in Outside /\ user[d] = "waiting" /\ (Asked(d) => Asked(d)'))
  <2>1. d \in Outside /\ user[d] = "waiting" /\ d \in Client
    BY <1>1, <1>2, <1>10
  <2>2. CASE d = c
    BY <1>1, <1>9, <2>2 DEF Asked
  <2>3. CASE d # c
    <3>1. fromClient'[d] = fromClient[d] /\ toClient'[d] = toClient[d]
      BY <1>3, <2>1, <2>3
    <3>2. Asked(d) => Asked(d)'
      BY <1>1, <1>9, <3>1, AskedStays
    <3>. QED
      BY <2>1, <3>2
  <2>. QED
    BY <2>2, <2>3
<1>11. \A d \in Authenticated' : \A i \in DOMAIN fromClient'[d] :
          d \in Authenticated /\ \E j \in DOMAIN fromClient[d] : fromClient'[d][i] = fromClient[d][j]
  BY <1>1, <1>2, <1>3
<1>. QED
  BY <1>10, <1>11, KeepsQInv

\* Of the clients inside frames are taken, and nothing is sent to those outside.
LEMMA ServeClientQInv == ASSUME HInv, SInv, QInv, ServeClient, UNCHANGED user PROVE QInv'
<1>. DEFINE k == Max(ClientsToServe)
            c == clients[k]
<1>1. /\ UNCHANGED <<unauthenticatedClients, backlog, toAuth, fromAuth>>
      /\ up
      /\ \/ RecvGets(c) /\ HandlePacket(c, Head(fromClient[c])) /\ UNCHANGED clients
         \/ clients' = SwapRemove(k) /\ UNCHANGED <<roomVars, fromClient, up>>
  BY DEF ServeClient, authVars
<1>2. k \in 1 .. Len(clients) /\ c \in Authenticated
  BY ServedPosition
<1>. HIDE DEF k, c
<1>3. /\ Ids' = Ids /\ Outside' = Outside /\ Pending' = Pending
      /\ Outside \subseteq Client /\ Authenticated \subseteq Client
  BY <1>1, PlacesAreClients DEF HInv, Ids, Outside, Queued, Unauthenticated, Pending, asks, answers
<1>4. CASE RecvGets(c) /\ HandlePacket(c, Head(fromClient[c])) /\ UNCHANGED clients
  <2>1. PICK b \in Authenticated : b = c
    BY <1>2
  <2>2. RecvGets(b) /\ HandlePacket(b, Head(fromClient[b])) /\ b \in Client
    BY <1>3, <1>4, <2>1
  <2>3. /\ Streams(toClient) /\ Calm(toClient) /\ Lists(rooms) /\ Listed(rooms) \cap Outside = {}
        /\ Authenticated \cap Outside = {}
    BY <1>1, OutsideCalm
  <2>4. Adds(toClient, toClient')
    BY <2>1, <2>2, <2>3, HandlePacketAdds
  <2>5. /\ \A d \in Client : d # b => fromClient'[d] = fromClient[d]
        /\ \A i \in DOMAIN fromClient'[b] :
              \E j \in DOMAIN fromClient[b] : fromClient'[b][i] = fromClient[b][j]
    BY <2>2, RecvLeaves DEF HInv
  <2>6. \A d \in Outside : toClient'[d] = toClient[d] /\ fromClient'[d] = fromClient[d]
    BY <1>3, <2>1, <2>3, <2>4, <2>5 DEF Adds, Aside
  <2>7. ASSUME NEW d \in Outside', user'[d] = "waiting"
        PROVE  d \in Outside /\ user[d] = "waiting" /\ (Asked(d) => Asked(d)')
    <3>1. Asked(d) => Asked(d)'
      BY <1>1, <1>3, <2>6, AskedStays
    <3>. QED
      BY <1>3, <2>7, <3>1
  <2>8. \A d \in Authenticated' : \A i \in DOMAIN fromClient'[d] :
           d \in Authenticated /\ \E j \in DOMAIN fromClient[d] : fromClient'[d][i] = fromClient[d][j]
    <3>1. Authenticated' = Authenticated
      BY <1>4 DEF Authenticated
    <3>. QED
      BY <1>3, <2>5, <3>1
  <2>. QED
    BY <1>1, <2>7, <2>8, KeepsQInv
<1>5. CASE clients' = SwapRemove(k) /\ UNCHANGED <<roomVars, fromClient, up>>
  <2>1. Authenticated' \subseteq Authenticated
    BY <1>2, <1>5, SwapRemoveShrinks
  <2>. QED
    BY <1>1, <1>3, <1>5, <2>1, StillQInv DEF roomVars
<1>. QED
  BY <1>1, <1>4, <1>5

\* A step of the server's thread loses no request.
LEMMA ServerQInv ==
    ASSUME IsFiniteSet(Client), Cardinality(Client) <= AuthCap, HInv, SInv, BInv, QInv, ServerStep
    PROVE  QInv'
<1>1. UNCHANGED user
  BY DEF ServerStep, userVars
<1>2. CASE Select \/ ClientsServed
  <2>1. UNCHANGED <<up, fromClient, toClient, clients, backlog, unauthenticatedClients, toAuth,
                    fromAuth>>
    BY <1>2 DEF Select, ClientsServed, roomVars, homeVars, authVars
  <2>. QED
    BY <1>1, <2>1, StillQInv DEF Outside, Queued, Unauthenticated, Authenticated, Ids, Pending,
       asks, answers
<1>3. CASE ServeUnauthenticated
  <2>. DEFINE id == Min(UnauthToServe)
              c == unauthenticatedClients[id]
  <2>1. /\ UNCHANGED <<clients, unauthenticatedClients, backlog, fromAuth, up, toClient>>
        /\ \/ RecvGets(c) /\ Forward(id, Head(fromClient[c]))
           \/ UNCHANGED <<fromClient, toAuth>>
    BY <1>3 DEF ServeUnauthenticated, roomVars
  <2>2. id \in Ids
    BY <1>3, ServedId
  <2>. HIDE DEF id
  <2>3. CASE RecvGets(c) /\ Forward(id, Head(fromClient[c]))
    <3>1. PICK i \in Ids : i = id
      BY <2>2
    <3>2. PICK b \in {c} : b = unauthenticatedClients[i]
      BY <3>1
    <3>3. RecvGets(b) /\ Forward(i, Head(fromClient[b]))
      BY <2>3, <3>1, <3>2
    <3>. QED
      BY <1>1, <2>1, <3>2, <3>3, ForwardedQInv
  <2>4. CASE UNCHANGED <<fromClient, toAuth>>
    BY <1>1, <2>1, <2>4, StillQInv DEF Outside, Queued, Unauthenticated, Authenticated, Ids,
       Pending, asks, answers
  <2>. QED
    BY <2>1, <2>3, <2>4
<1>4. CASE RemoveInvalid
  <2>1. /\ UNCHANGED <<up, fromClient, toClient, clients, backlog, toAuth, fromAuth>>
        /\ unauthenticatedClients' =
              [id \in Ids \ clientsToRemove |-> unauthenticatedClients[id]]
    BY <1>4 DEF RemoveInvalid, roomVars, authVars
  <2>2. /\ Ids' = Ids \ clientsToRemove
        /\ \A id \in Ids' : unauthenticatedClients'[id] = unauthenticatedClients[id]
    BY <2>1 DEF Ids
  <2>3. \A id \in clientsToRemove : user[unauthenticatedClients[id]] # "waiting"
    BY DEF HInv, HomeTypes, Loop, SInv, SessionTypes
  <2>4. Outside' \subseteq Outside /\ Authenticated' = Authenticated /\ Pending' = Pending
    BY <2>1, <2>2 DEF Outside, Queued, Unauthenticated, Authenticated, Pending, asks, answers
  <2>. QED
    BY <1>1, <2>1, <2>2, <2>3, <2>4, StillQInv
<1>. QED
  BY <1>1, <1>2, <1>3, <1>4, AcceptQInv, AuthRecvQInv, ServeClientQInv DEF ServerStep, Server

\* A client program: the user who enters an account sends a request, and who
\* reads an answer waits no more.
LEMMA UserQInv == ASSUME HInv, SInv, QInv, up, NEW c \in Client, User(c) PROVE QInv'
<1>1. user \in [Client -> UserState] /\ Outside \subseteq Client /\ Authenticated \subseteq Client
  BY PlacesAreClients DEF HInv, HomeTypes, Outside
<1>2. c \notin Outside \/ c \notin Authenticated
  BY DEF HInv, Kept, Outside
<1>3. /\ Ids' = Ids /\ Authenticated' = Authenticated /\ Pending' = Pending
      /\ UNCHANGED <<unauthenticatedClients, up>>
  <2>1. UNCHANGED <<clients, unauthenticatedClients, toAuth, fromAuth, up>>
    BY DEF User, Connect, AskToLogin, SendJoin, SendChat, SendLeave, SendFrame, Send,
       ClientRecv, Close, homeVars, authVars
  <2>. QED
    BY <2>1 DEF Ids, Authenticated, Pending, asks, answers
<1>4. ASSUME Outside' \subseteq Outside \cup {c},
             \A d \in Client : d # c => /\ user'[d] = user[d] /\ toClient'[d] = toClient[d]
                                        /\ fromClient'[d] = fromClient[d],
             c \in Outside' => user'[c] # "waiting" \/ fromClient'[c] # <<>>,
             c \in Authenticated => \A i \in DOMAIN fromClient'[c] :
                \/ ~FullFrame(fromClient'[c][i])
                \/ \E j \in DOMAIN fromClient[c] : fromClient'[c][i] = fromClient[c][j]
      PROVE  QInv'
  <2>1. ASSUME NEW d \in Outside', user'[d] = "waiting"
        PROVE  Asked(d)' \/ (d \in Outside /\ user[d] = "waiting" /\ (Asked(d) => Asked(d)'))
    <3>1. CASE d = c
      BY <1>4, <2>1, <3>1 DEF Asked
    <3>2. CASE d # c
      <4>1. d \in Outside /\ d \in Client
        BY <1>1, <1>4, <3>2
      <4>2. user[d] = "waiting" /\ toClient'[d] = toClient[d] /\ fromClient'[d] = fromClient[d]
        BY <1>4, <2>1, <3>2, <4>1
      <4>3. Asked(d) => Asked(d)'
        BY <1>3, <4>2, AskedStays
      <4>. QED
        BY <4>1, <4>2, <4>3
    <3>. QED
      BY <3>1, <3>2
  <2>2. ASSUME NEW d \in Authenticated', NEW i \in DOMAIN fromClient'[d]
        PROVE  \/ ~FullFrame(fromClient'[d][i])
               \/ d \in Authenticated /\ \E j \in DOMAIN fromClient[d] : fromClient'[d][i] = fromClient[d][j]
    BY <1>1, <1>3, <1>4
  <2>. QED
    BY <1>3, <2>1, <2>2, KeepsQInv
<1>5. CASE Connect(c)
  <2>1. /\ UNCHANGED <<fromClient, toClient>> /\ backlog' = Append(backlog, c)
        /\ user[c] = "off" /\ user' = [user EXCEPT ![c] = "idle"]
    BY <1>5 DEF Connect, roomVars
  <2>2. c \notin Queued
    BY <2>1 DEF HInv, Gone, Home
  <2>3. Queued' = Queued \cup {c}
    BY <2>1, <2>2, AppendOnce DEF HInv, HomeTypes, Kept, Queued
  <2>4. Outside' \subseteq Outside \cup {c}
    BY <1>3, <2>3 DEF Outside, Unauthenticated
  <2>5. user'[c] = "idle" /\ \A d \in Client : d # c => user'[d] = user[d]
    BY <1>1, <2>1
  <2>. QED
    BY <1>4, <2>1, <2>4, <2>5
<1>6. Outside' = Outside \/ Connect(c)
  <2>1. backlog' = backlog \/ Connect(c)
    BY DEF User, AskToLogin, SendJoin, SendChat, SendLeave, SendFrame, Send, ClientRecv, Close
  <2>. QED
    BY <1>3, <2>1 DEF Outside, Queued, Unauthenticated
<1>7. CASE Close(c)
  <2>1. /\ UNCHANGED fromClient /\ user' = [user EXCEPT ![c] = "gone"]
        /\ toClient' = [toClient EXCEPT ![c] = <<>>]
    BY <1>7 DEF Close, U!Ends
  <2>2. /\ user'[c] = "gone"
        /\ \A d \in Client : d # c => user'[d] = user[d] /\ toClient'[d] = toClient[d]
    BY <1>1, <2>1 DEF SInv, SessionTypes
  <2>3. Outside' \subseteq Outside \cup {c}
    BY <1>5, <1>6, <1>7 DEF Connect, Close
  <2>. QED
    BY <1>4, <1>5, <1>6, <2>1, <2>2
<1>8. CASE ClientRecv(c)
  <2>1. /\ UNCHANGED fromClient /\ live[c] /\ toClient[c] # <<>> 
        /\ user[c] \in {"waiting", "in", "leaving"}
        /\ user' = [user EXCEPT ![c] = U!UserAfter(c, Head(toClient[c]))]
    BY <1>8 DEF ClientRecv, U!Receives
  <2>2. PICK k \in RecvCounts(toClient[c]) :
           toClient' = [toClient EXCEPT ![c] = AfterRecv(@, k)]
    BY <1>8 DEF ClientRecv
  <2>3. /\ user'[c] = U!UserAfter(c, Head(toClient[c]))
        /\ \A d \in Client : d # c => user'[d] = user[d] /\ toClient'[d] = toClient[d]
    BY <1>1, <2>1, <2>2 DEF SInv, SessionTypes
  <2>4. ASSUME c \in Outside PROVE user'[c] # "waiting"
    <3>1. Asking(c)
      BY <2>4 DEF SInv
    <3>2. PICK p : toClient[c] = <<p>> /\ Refusal(p)
      BY <2>1, <3>1 DEF Asking
    <3>3. Head(toClient[c]) = p
      <4>1. Head(<<p>>) = p
        OBVIOUS
      <4>. QED
        BY <3>2, <4>1
    <3>4. /\ U!LOGIN_RESULT = LOGIN_RESULT /\ U!REGISTER_RESULT = REGISTER_RESULT
          /\ p.type \in {LOGIN_RESULT, REGISTER_RESULT}
          /\ ~(p.type = LOGIN_RESULT /\ p.success)
      BY <3>2 DEF LOGIN_RESULT, REGISTER_RESULT, U!LOGIN_RESULT, U!REGISTER_RESULT, Refusal, Answer
    <3>. QED
      BY <2>3, <3>3, <3>4 DEF U!UserAfter
  <2>6. CASE Outside' = Outside
    BY <1>4, <2>1, <2>3, <2>4, <2>6
  <2>. QED
    BY <1>5, <1>6, <2>6
<1>9. ASSUME NEW p \in Request, SendFrame(c, p)
      PROVE  QInv'
  <2>1. /\ UNCHANGED toClient /\ Outside' = Outside
        /\ fromClient'[c] = Append(fromClient[c], p) /\ fromClient[c] \in Seq(ToSet(fromClient[c]))
        /\ \A d \in Client : d # c => fromClient'[d] = fromClient[d]
    BY <1>9, FrameSent
  <2>2. user[c] = "idle" /\ user' = [user EXCEPT ![c] = "waiting"]
    <3>1. U!Sends(c, p)
      BY <1>9 DEF SendFrame
    <3>2. p.type \notin {JOIN_ROOM, LEAVE_ROOM, SEND_MESSAGE}
      BY DEF Request, LOGIN_REQUEST, REGISTER_REQUEST, JOIN_ROOM, LEAVE_ROOM, SEND_MESSAGE
    <3>3. U!JOIN_ROOM = JOIN_ROOM /\ U!LEAVE_ROOM = LEAVE_ROOM /\ U!SEND_MESSAGE = SEND_MESSAGE
      BY DEF JOIN_ROOM, LEAVE_ROOM, SEND_MESSAGE, U!JOIN_ROOM, U!LEAVE_ROOM, U!SEND_MESSAGE
    <3>. QED
      BY <3>1, <3>2, <3>3 DEF U!Sends, U!Ask, U!Join, U!Chat, U!Leave
  <2>3. c \notin Authenticated
    BY <2>2 DEF SInv, Admitted
  <2>4. fromClient'[c] # <<>>
    BY <2>1, AppendElements
  <2>5. \A d \in Client : d # c => user'[d] = user[d]
    BY <1>1, <2>2
  <2>. QED
    BY <1>4, <2>1, <2>3, <2>4, <2>5
<1>10. ASSUME NEW p, SendFrame(c, p), p.type \in {JOIN_ROOM, SEND_MESSAGE, LEAVE_ROOM}
       PROVE  QInv'
  <2>1. /\ UNCHANGED toClient /\ Outside' = Outside
        /\ fromClient'[c] = Append(fromClient[c], p) /\ fromClient[c] \in Seq(ToSet(fromClient[c]))
        /\ \A d \in Client : d # c => fromClient'[d] = fromClient[d]
    BY <1>10, FrameSent
  <2>2. user[c] = "in" /\ (user' = user \/ user' = [user EXCEPT ![c] = "leaving"])
    <3>1. U!LOGIN_REQUEST = LOGIN_REQUEST /\ U!REGISTER_REQUEST = REGISTER_REQUEST
      BY DEF U!LOGIN_REQUEST, U!REGISTER_REQUEST, LOGIN_REQUEST, REGISTER_REQUEST
    <3>2. p.type \notin {LOGIN_REQUEST, REGISTER_REQUEST}
      BY <1>10 DEF JOIN_ROOM, SEND_MESSAGE, LEAVE_ROOM, LOGIN_REQUEST, REGISTER_REQUEST
    <3>3. U!Join(c, p) \/ U!Chat(c, p) \/ U!Leave(c, p)
      BY <1>10, <3>1, <3>2 DEF SendFrame, U!Sends, U!Ask
    <3>. QED
      BY <3>3 DEF U!Join, U!Chat, U!Leave, U!userVars
  <2>3. c \notin Outside
    BY <2>2 DEF SInv, Asking
  <2>4. ~FullFrame(p)
    <3>1. 0 \notin 4 .. 7 /\ 2 \notin 4 .. 7 /\ 3 \notin 4 .. 7
      OBVIOUS
    <3>. QED
      BY <1>10, <3>1 DEF FullFrame, JOIN_ROOM, SEND_MESSAGE, LEAVE_ROOM, LOGIN_REQUEST,
         REGISTER_RESULT
  <2>5. \A i \in DOMAIN fromClient'[c] :
           \/ ~FullFrame(fromClient'[c][i])
           \/ \E j \in DOMAIN fromClient[c] : fromClient'[c][i] = fromClient[c][j]
    <3>1. \A i \in DOMAIN Append(fromClient[c], p) :
             \/ \E j \in DOMAIN fromClient[c] : Append(fromClient[c], p)[i] = fromClient[c][j]
             \/ Append(fromClient[c], p)[i] = p
      BY <2>1, AppendElements
    <3>. QED
      BY <2>1, <2>4, <3>1
  <2>6. \A d \in Client : d # c => user'[d] = user[d]
    BY <1>1, <2>2
  <2>. QED
    BY <1>4, <2>1, <2>3, <2>5, <2>6
<1>11. CASE AskToLogin(c)
  <2>1. PICK e \in Name, w \in Password :
           \/ SendFrame(c, PacketLoginRequest(0, e, w))
           \/ SendFrame(c, PacketRegisterRequest(0, e, w))
    BY <1>11 DEF AskToLogin
  <2>2. PacketLoginRequest(0, e, w) \in Request /\ PacketRegisterRequest(0, e, w) \in Request
    BY DEF Request, PacketLoginRequest, PacketRegisterRequest
  <2>. QED
    BY <1>9, <2>1, <2>2
<1>12. CASE SendJoin(c) \/ SendChat(c) \/ SendLeave(c)
  <2>1. /\ \A r, n : /\ PacketJoinRoom(r, n).type = JOIN_ROOM
                     /\ PacketLeaveRoom(r, n).type = LEAVE_ROOM
        /\ \A m : PacketSendMessage(m).type = SEND_MESSAGE
    BY DEF PacketJoinRoom, PacketLeaveRoom, PacketSendMessage
  <2>. QED
    BY <1>10, <1>12, <2>1 DEF SendJoin, SendChat, SendLeave
<1>. QED
  BY <1>5, <1>7, <1>8, <1>11, <1>12 DEF User

\* An answer is under way in the place of its request.
LEMMA ReplyPending == ASSUME SInv, AuthReply PROVE Pending \subseteq Pending'
<1>. DEFINE r == Head(asks)
<1>1. /\ asks \in Seq(Request) /\ answers \in Seq(Answer) /\ Once(IdSeq(asks))
      /\ \A x \in Request : x.requestId \in Nat
      /\ \A x \in Answer : x.requestId \in Nat
      /\ toAuth = [s \in Link |-> toAuth[s]] /\ fromAuth = [s \in Link |-> fromAuth[s]]
      /\ AuthLink \in Link
  BY FrameIds DEF SInv, SessionTypes, OnTheWay, Link
<1>2. asks # <<>> /\ toAuth' = [toAuth EXCEPT ![AuthLink] = Tail(@)]
  BY DEF AuthReply, asks
<1>3. PICK ok \in BOOLEAN :
         fromAuth' = [fromAuth EXCEPT ![AuthLink] = Append(@, Result(r, ok))]
  BY DEF AuthReply, asks
<1>. DEFINE q == Result(r, ok)
<1>4. asks' = Tail(asks) /\ answers' = Append(answers, q)
  <2>. HIDE DEF q, r
  <2>. QED
    BY <1>1, <1>2, <1>3 DEF asks, answers, q
<1>5. /\ IdSeq(asks') = Tail(IdSeq(asks)) /\ Head(IdSeq(asks)) = r.requestId
      /\ IdSeq(asks) # <<>> /\ r \in Request /\ IdSeq(asks) \in Seq(Nat)
  BY <1>1, <1>2, <1>4, IdSeqTail, IdSeqType
<1>6. ToSet(IdSeq(asks')) = ToSet(IdSeq(asks)) \ {r.requestId}
  <2>. DEFINE u == IdSeq(asks)
  <2>1. u \in Seq(Nat) /\ Once(u) /\ u # <<>>
    BY <1>1, <1>5
  <2>. HIDE DEF u
  <2>2. ToSet(Tail(u)) = ToSet(u) \ {Head(u)}
    BY <2>1, TailOnce
  <2>. QED
    BY <1>5, <2>2 DEF u
<1>7. q.requestId = r.requestId /\ q \in Answer
  <2>. HIDE DEF r
  <2>1. CASE r.type = LOGIN_REQUEST
    <3>1. q = PacketLoginResult(r.requestId, ok, r.email)
      BY <2>1 DEF Result
    <3>. HIDE DEF q
    <3>. QED
      BY <1>5, <3>1 DEF PacketLoginResult, Request, Answer
  <2>2. CASE r.type # LOGIN_REQUEST
    <3>1. q = PacketRegisterResult(r.requestId, ok)
      BY <2>2 DEF Result
    <3>. HIDE DEF q
    <3>. QED
      BY <1>5, <3>1 DEF PacketRegisterResult, Request, Answer
  <2>. QED
    BY <2>1, <2>2
<1>. HIDE DEF q, r
<1>8. ToSet(IdSeq(answers')) = ToSet(IdSeq(answers)) \cup {r.requestId}
  <2>1. IdSeq(answers') = Append(IdSeq(answers), q.requestId)
    BY <1>1, <1>4, <1>7, IdSeqAppend
  <2>2. IdSeq(answers) \in Seq(Nat) /\ q.requestId \in Nat
    BY <1>1, <1>7, IdSeqType
  <2>3. ToSet(Append(IdSeq(answers), q.requestId)) = ToSet(IdSeq(answers)) \cup {q.requestId}
    <3>. DEFINE v == IdSeq(answers)
                x == q.requestId
    <3>1. v \in Seq(Nat) /\ x \in Nat
      BY <2>2
    <3>. HIDE DEF v, x
    <3>2. /\ Append(v, x) \in Seq(Nat) /\ Len(Append(v, x)) = Len(v) + 1
          /\ Append(v, x)[Len(v) + 1] = x /\ \A i \in 1 .. Len(v) : Append(v, x)[i] = v[i]
      BY <3>1, AppendProperties
    <3>3. Len(v) \in Nat /\ DOMAIN v = 1 .. Len(v) /\ DOMAIN Append(v, x) = 1 .. Len(v) + 1
      BY <3>1, <3>2, LenProperties
    <3>4. \A n \in Nat : /\ n + 1 \in 1 .. n + 1
                         /\ \A i \in 1 .. n : i \in 1 .. n + 1
                         /\ \A i \in 1 .. n + 1 : i \in 1 .. n \/ i = n + 1
      OBVIOUS
    <3>. QED
      BY <3>2, <3>3, <3>4 DEF ToSet, v, x
  <2>. QED
    BY <1>7, <2>1, <2>3
<1>. QED
  BY <1>6, <1>8 DEF Pending

\* The invariant is inductive relative to the others.
LEMMA StepQInv ==
    ASSUME IsFiniteSet(Client), Cardinality(Client) <= AuthCap, HInv, SInv, BInv, QInv,
           [Next]_vars
    PROVE  QInv'
<1>1. ASSUME UNCHANGED <<up, user, fromClient, toClient, clients, backlog, unauthenticatedClients>>,
             Pending \subseteq Pending'
      PROVE  QInv'
  BY <1>1, StillQInv DEF Outside, Queued, Unauthenticated, Authenticated, Ids
<1>2. CASE AuthReply
  BY <1>1, <1>2, ReplyPending DEF AuthReply, roomVars, homeVars, userVars
<1>3. CASE AuthDown
  BY <1>1, <1>3 DEF AuthDown, roomVars, homeVars, userVars, Pending, asks, answers
<1>4. CASE UNCHANGED vars
  BY <1>1, <1>4 DEF vars, serverVars, homeVars, authVars, userVars, Pending, asks, answers
<1>5. ASSUME up, NEW c \in Client, User(c) PROVE QInv'
  BY <1>5, UserQInv
<1>. QED
  BY <1>2, <1>3, <1>4, <1>5, ServerQInv DEF Next

\* A stream of one full frame, and of none.
LEMMA FullFrames ==
    /\ \A x : FullFrame(x) => Cardinality({i \in DOMAIN <<x>> : FullFrame(<<x>>[i])}) = 1
    /\ Cardinality({i \in DOMAIN <<>> : FullFrame(<<>>[i])}) = 0
<1>1. ASSUME NEW x, FullFrame(x) PROVE {i \in DOMAIN <<x>> : FullFrame(<<x>>[i])} = {1}
  <2>1. DOMAIN <<x>> = {1} /\ <<x>>[1] = x
    OBVIOUS
  <2>. QED
    BY <1>1, <2>1
<1>2. {i \in DOMAIN <<>> : FullFrame(<<>>[i])} = {}
  <2>1. DOMAIN <<>> = {}
    OBVIOUS
  <2>. QED
    BY <2>1
<1>. QED
  BY <1>1, <1>2, FS_EmptySet, FS_Singleton

\* The copies on a link of the request of a client in the map.
LEMMA IdCopies ==
    ASSUME HInv, NEW s, Once(IdSeq(s)), NEW c
    PROVE  /\ c \notin Unauthenticated =>
                 Cardinality({i \in DOMAIN s : s[i].requestId \in IdOf(c)}) = 0
           /\ \A id \in Ids : unauthenticatedClients[id] = c =>
                 Cardinality({i \in DOMAIN s : s[i].requestId \in IdOf(c)})
                     = IF id \in ToSet(IdSeq(s)) THEN 1 ELSE 0
<1>1. ASSUME c \notin Unauthenticated
      PROVE  Cardinality({i \in DOMAIN s : s[i].requestId \in IdOf(c)}) = 0
  <2>1. {i \in DOMAIN s : s[i].requestId \in IdOf(c)} = {}
    BY <1>1 DEF IdOf, Unauthenticated
  <2>. QED
    BY <2>1, FS_EmptySet
<1>2. ASSUME NEW id \in Ids, unauthenticatedClients[id] = c
      PROVE  Cardinality({i \in DOMAIN s : s[i].requestId \in IdOf(c)})
                 = IF id \in ToSet(IdSeq(s)) THEN 1 ELSE 0
  <2>1. IdOf(c) = {id}
    BY <1>2 DEF IdOf, HInv, Kept, Once, Ids
  <2>2. {i \in DOMAIN s : s[i].requestId \in IdOf(c)} = {i \in DOMAIN IdSeq(s) : IdSeq(s)[i] = id}
    BY <2>1 DEF IdSeq
  <2>. QED
    BY <2>2, OnceCounts
<1>. QED
  BY <1>1, <1>2

\* The invariants say where the one copy is.
LEMMA OneCopy ==
    ASSUME HInv, SInv, QInv, up, NEW c \in Client, live[c]
    PROVE  Copy(c) = IF user[c] = "waiting" THEN 1 ELSE 0
<1>. DEFINE nf == Cardinality({i \in DOMAIN fromClient[c] : FullFrame(fromClient[c][i])})
            na == Cardinality({i \in DOMAIN asks : asks[i].requestId \in IdOf(c)})
            nr == Cardinality({i \in DOMAIN answers : answers[i].requestId \in IdOf(c)})
            nt == Cardinality({i \in DOMAIN toClient[c] : FullFrame(toClient[c][i])})
<1>1. Copy(c) = nf + na + nr + nt
  BY DEF Copy, asks, answers
<1>2. Once(IdSeq(asks)) /\ Once(IdSeq(answers))
  BY DEF SInv, OnTheWay
<1>3. user[c] \notin {"off", "gone"} /\ c \in Home
  BY DEF SInv, SessionTypes, HInv, Kept
<1>4. CASE c \in Authenticated
  <2>1. Admitted(c) /\ c \notin Unauthenticated
    BY <1>4 DEF SInv, HInv, Kept
  <2>2. na = 0 /\ nr = 0
    BY <1>2, <2>1, IdCopies
  <2>3. nf = 0
    <3>1. {i \in DOMAIN fromClient[c] : FullFrame(fromClient[c][i])} = {}
      BY <1>4 DEF QInv
    <3>. QED
      BY <3>1, FS_EmptySet
  <2>4. nt = IF user[c] = "waiting" THEN 1 ELSE 0
    <3>1. CASE user[c] = "waiting"
      <4>1. toClient[c] # <<>> /\ Welcome(toClient[c][1], typed[c])
        BY <2>1, <3>1 DEF Admitted
      <4>2. FullFrame(toClient[c][1])
        <5>1. 6 \in 4 .. 7
          OBVIOUS
        <5>2. toClient[c][1].type = LOGIN_RESULT
          BY <4>1 DEF Welcome, PacketLoginResult
        <5>. QED
          BY <5>1, <5>2 DEF FullFrame, LOGIN_RESULT, LOGIN_REQUEST, REGISTER_RESULT
      <4>3. 1 \in DOMAIN toClient[c]
        <5>1. toClient[c] \in Seq(ToSet(toClient[c]))
          BY DEF SInv, SessionTypes
        <5>2. Len(toClient[c]) \in Nat \ {0} /\ DOMAIN toClient[c] = 1 .. Len(toClient[c])
          BY <4>1, <5>1, LenProperties, EmptySeq
        <5>3. \A n \in Nat \ {0} : 1 \in 1 .. n
          OBVIOUS
        <5>. QED
          BY <5>2, <5>3
      <4>4. {i \in DOMAIN toClient[c] : FullFrame(toClient[c][i])} = {1}
        BY <2>1, <4>2, <4>3 DEF Admitted
      <4>. QED
        BY <3>1, <4>4, FS_Singleton
    <3>2. CASE user[c] # "waiting"
      <4>1. {i \in DOMAIN toClient[c] : FullFrame(toClient[c][i])} = {}
        BY <2>1, <3>2 DEF Admitted
      <4>. QED
        BY <3>2, <4>1, FS_EmptySet
    <3>. QED
      BY <3>1, <3>2
  <2>. HIDE DEF nf, na, nr, nt
  <2>. QED
    BY <1>1, <2>2, <2>3, <2>4
<1>5. CASE c \in Outside
  <2>1. Asking(c) /\ user[c] \in {"idle", "waiting"}
    BY <1>3, <1>5 DEF SInv, Asking
  <2>2. /\ nf = IF fromClient[c] = <<>> THEN 0 ELSE 1
        /\ nt = IF toClient[c] = <<>> THEN 0 ELSE 1
        /\ fromClient[c] = <<>> \/ toClient[c] = <<>>
    <3>1. fromClient[c] = <<>> \/ \E x \in Request : fromClient[c] = <<x>> /\ toClient[c] = <<>>
      BY <2>1 DEF Asking
    <3>2. toClient[c] = <<>> \/ \E x \in Answer : toClient[c] = <<x>>
      BY <2>1 DEF Asking, Refusal
    <3>3. \A x : <<x>> # <<>>
      OBVIOUS
    <3>4. nf = IF fromClient[c] = <<>> THEN 0 ELSE 1
      BY <3>1, <3>3, FullFrames, FrameIds
    <3>5. nt = IF toClient[c] = <<>> THEN 0 ELSE 1
      BY <3>2, <3>3, FullFrames, FrameIds
    <3>. QED
      BY <3>1, <3>4, <3>5
  <2>3. user[c] = "idle" => fromClient[c] = <<>> /\ toClient[c] = <<>>
    BY DEF SInv
  <2>4. user[c] = "waiting" => Asked(c)
    BY <1>5 DEF QInv
  <2>5. CASE \E id \in Ids \cap Pending : unauthenticatedClients[id] = c
    <3>1. PICK id \in Ids \cap Pending : unauthenticatedClients[id] = c
      BY <2>5
    <3>2. fromClient[c] = <<>> /\ toClient[c] = <<>> /\ user[c] = "waiting"
      BY <2>1, <3>1 DEF SInv, OnTheWay
    <3>3. /\ na = IF id \in ToSet(IdSeq(asks)) THEN 1 ELSE 0
          /\ nr = IF id \in ToSet(IdSeq(answers)) THEN 1 ELSE 0
      BY <1>2, <3>1, IdCopies
    <3>4. /\ id \in ToSet(IdSeq(asks)) \/ id \in ToSet(IdSeq(answers))
          /\ ~(id \in ToSet(IdSeq(asks)) /\ id \in ToSet(IdSeq(answers)))
      BY <3>1 DEF Pending, SInv, OnTheWay
    <3>5. nf = 0 /\ nt = 0
      BY <2>2, <3>2
    <3>. HIDE DEF nf, na, nr, nt
    <3>. QED
      BY <1>1, <3>2, <3>3, <3>4, <3>5
  <2>6. CASE ~\E id \in Ids \cap Pending : unauthenticatedClients[id] = c
    <3>1. na = 0 /\ nr = 0
      <4>1. CASE c \notin Unauthenticated
        BY <1>2, <4>1, IdCopies
      <4>2. CASE c \in Unauthenticated
        <5>1. PICK id \in Ids : unauthenticatedClients[id] = c
          BY <4>2 DEF Unauthenticated
        <5>2. id \notin ToSet(IdSeq(asks)) /\ id \notin ToSet(IdSeq(answers))
          BY <2>6, <5>1 DEF Pending
        <5>. QED
          BY <1>2, <5>1, <5>2, IdCopies
      <4>. QED
        BY <4>1, <4>2
    <3>2. user[c] = "waiting" => fromClient[c] # <<>> \/ toClient[c] # <<>>
      BY <2>4, <2>6 DEF Asked
    <3>3. nf + nt = IF user[c] = "waiting" THEN 1 ELSE 0
      <4>. HIDE DEF nf, nt
      <4>. QED
        BY <2>1, <2>2, <2>3, <3>2
    <3>4. (nf = 0 \/ nf = 1) /\ (nt = 0 \/ nt = 1)
      <4>. HIDE DEF nf, nt
      <4>. QED
        BY <2>2
    <3>. HIDE DEF nf, na, nr, nt
    <3>. QED
      BY <1>1, <3>1, <3>3, <3>4
  <2>. QED
    BY <2>5, <2>6
<1>. QED
  BY <1>3, <1>4, <1>5 DEF Home, Outside

\* The request of a waiting client is somewhere exactly once, as the request or
\* as the result: in its stream, on the link, in the authentication server's
\* answers or in the stream back.  The link must have room for the requests of
\* all clients; a send() that fails there is only printed.
THEOREM AlwaysOneRequestEach ==
    ASSUME IsFiniteSet(Client), Cardinality(Client) <= AuthCap
    PROVE  Spec => []OneRequestEach
<1>1. Init => BInv /\ QInv
  <2>. SUFFICES ASSUME Init PROVE BInv /\ QInv
    OBVIOUS
  <2>1. Outside = {} /\ Authenticated = {}
    BY DEF Init, ServerInit, Outside, Queued, Unauthenticated, Ids, Authenticated, ToSet
  <2>. QED
    BY <2>1, InitBInv DEF QInv
<1>2. HInv /\ SInv /\ BInv /\ QInv /\ [Next]_vars => (BInv /\ QInv)'
  <2>. SUFFICES ASSUME HInv, SInv, BInv, QInv, [Next]_vars PROVE BInv' /\ QInv'
    OBVIOUS
  <2>. QED
    BY StepBInv, StepQInv
<1>3. HInv /\ SInv /\ QInv => OneRequestEach
  BY OneCopy DEF OneRequestEach
<1>. QED
  BY <1>1, <1>2, <1>3, AlwaysSInv, PTL DEF Spec
=============================================================================
