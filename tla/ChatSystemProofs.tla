-------------------------- MODULE ChatSystemProofs --------------------------
(***************************************************************************)
(* Proofs about the chat server's loop among its clients, for any number of  *)
(* connections: where each client is kept, that freed objects are not        *)
(* referenced, and that no client is given up while its connection is open.  *)
(***************************************************************************)
EXTENDS ChatSystem, WireProofs

-----------------------------------------------------------------------------
(* The invariant.                                                           *)

Queued == ToSet(backlog)
Home == Queued \cup Unauthenticated \cup Authenticated

\* The clients the rooms mention.
Listed(rs) == UNION {ToSet(rs[r]) : r \in DOMAIN rs}
Roomed == DOMAIN clientToRoomMap \cup Listed(rooms)

Lists(rs) == rs \in [DOMAIN rs -> Seq(Client)]

HomeTypes ==
    /\ user \in [Client -> UserState] /\ live \in [Client -> BOOLEAN]
    /\ Lists(rooms) /\ DOMAIN clientToRoomMap \subseteq Client
    /\ clients \in Seq(Client) /\ backlog \in Seq(Client) /\ freed \subseteq Client
    /\ currentUnauthenticatedClientId \in Nat
    /\ Ids \subseteq 0 .. currentUnauthenticatedClientId - 1
    /\ unauthenticatedClients \in [Ids -> Client]
    /\ fromClient = [c \in Client |-> fromClient[c]]
    /\ \A c \in Client : fromClient[c] \in Seq(ToSet(fromClient[c]))

\* The queue, the map and the vector share no client and hold none twice; they
\* hold every client with an open connection.
Kept ==
    /\ Once(backlog) /\ Once(unauthenticatedClients) /\ Once(clients)
    /\ Queued \cap Unauthenticated = {} /\ Queued \cap Authenticated = {}
    /\ Unauthenticated \cap Authenticated = {}
    /\ up => \A c \in Client : live[c] => c \in Home

\* Freed clients are out of sight; rooms have only clients that were logged in;
\* a program that has not started is nowhere.
Gone ==
    /\ freed \cap Home = {} /\ freed \cap Roomed = {}
    /\ Roomed \cap (Queued \cup Unauthenticated) = {}
    /\ \A c \in Home \cup Roomed \cup freed \cup (readSet \cap Client) : user[c] # "off"

HasData(c) == fromClient[c] # <<>> \/ ~live[c]

\* The clients the current iteration has still to look at.
ToRead ==
    IF pc \in {"accept", "auth"} THEN Client
    ELSE IF pc = "clients" THEN {clients[k] : k \in 1 .. cursor} \cup Unauthenticated
    ELSE IF pc = "unauth" THEN {unauthenticatedClients[id] : id \in {j \in Ids : j >= cursor}}
    ELSE {}

\* What select reported is still so for those: a client is read only when there
\* is something to read, and flagged for removal only when it is gone.
Loop ==
    /\ pc = "accept" => backlog # <<>>
    /\ pc \in {"accept", "clients"} => cursor \in 0 .. Len(clients)
    /\ pc = "unauth" => cursor \in Nat
    /\ \A c \in ToRead \cap readSet \cap Client : HasData(c)
    /\ clientsToRemove \subseteq Ids
    /\ pc # "unauth" => clientsToRemove = {}
    /\ \A id \in clientsToRemove : ~live[unauthenticatedClients[id]]

HInv == HomeTypes /\ Kept /\ Gone /\ Loop

-----------------------------------------------------------------------------
(* The handlers of room packets.                                            *)

\* A member list loses members only to EraseMember and gains only the one
\* pushed.
LEMMA EraseMemberLists ==
    ASSUME NEW rs, Lists(rs), NEW c, NEW r
    PROVE  Lists(EraseMember(rs, c, r)) /\ Listed(EraseMember(rs, c, r)) \subseteq Listed(rs)
<1>. DEFINE es == EraseMember(rs, c, r)
<1>1. ASSUME NEW q \in DOMAIN rs
      PROVE  RemoveFirst(rs[q], c) \in Seq(Client) /\ ToSet(RemoveFirst(rs[q], c)) \subseteq ToSet(rs[q])
  <2>1. rs[q] \in Seq(Client)
    BY DEF Lists
  <2>. DEFINE s == rs[q]
              t == RemoveFirst(s, c)
  <2>2. t \in Seq(Client) /\ \A j \in 1 .. Len(t) : \E m \in 1 .. Len(s) : t[j] = s[m]
    BY <2>1, RemoveFirstProperties
  <2>. HIDE DEF t
  <2>3. DOMAIN t = 1 .. Len(t) /\ DOMAIN s = 1 .. Len(s)
    BY <2>1, <2>2, LenProperties
  <2>. QED
    BY <2>2, <2>3 DEF t, ToSet
<1>2. DOMAIN es = DOMAIN rs /\ \A q \in DOMAIN rs : es[q] \in {rs[q], RemoveFirst(rs[q], c)}
  BY DEF EraseMember, Lists
<1>3. es = [q \in DOMAIN rs |-> es[q]]
  BY DEF EraseMember, Lists
<1>. HIDE DEF es
<1>4. Lists(es)
  BY <1>1, <1>2, <1>3 DEF Lists
<1>5. Listed(es) \subseteq Listed(rs)
  BY <1>1, <1>2 DEF Listed
<1>. QED
  BY <1>4, <1>5 DEF es

\* A member list gains the client that is pushed.
LEMMA PushMemberLists ==
    ASSUME NEW rs, Lists(rs), NEW c \in Client, NEW r
    PROVE  /\ Lists(PushMember(rs, c, r))
           /\ Listed(PushMember(rs, c, r)) \subseteq Listed(rs) \cup {c}
<1>. DEFINE ps == PushMember(rs, c, r)
            s == Members(rs, r)
            t == Append(s, c)
<1>1. s \in Seq(Client)
  BY EmptySeq DEF Members, Lists
<1>2. ToSet(s) \subseteq Listed(rs)
  <2>1. CASE r \in DOMAIN rs
    BY <2>1 DEF Members, Listed
  <2>2. CASE r \notin DOMAIN rs
    BY <2>2 DEF Members, ToSet
  <2>. QED
    BY <2>1, <2>2
<1>. HIDE DEF s
<1>3. t \in Seq(Client) /\ ToSet(t) \subseteq ToSet(s) \cup {c}
  <2>1. /\ t \in Seq(Client) /\ Len(t) = Len(s) + 1
        /\ \A i \in 1 .. Len(s) : t[i] = s[i]
        /\ t[Len(s) + 1] = c
    BY <1>1, AppendProperties
  <2>2. Len(s) \in Nat /\ DOMAIN s = 1 .. Len(s) /\ DOMAIN t = 1 .. Len(s) + 1
    BY <1>1, <2>1, LenProperties
  <2>. HIDE DEF t
  <2>3. \A i \in DOMAIN t : t[i] \in ToSet(s) \cup {c}
    BY <2>1, <2>2 DEF ToSet
  <2>. QED
    BY <2>1, <2>3 DEF ToSet
<1>4. ps = [q \in DOMAIN rs \cup {r} |-> IF q = r THEN t ELSE rs[q]]
  BY DEF PushMember, s
<1>. HIDE DEF t, ps
<1>5. Lists(ps)
  BY <1>3, <1>4 DEF Lists
<1>6. \A q \in DOMAIN ps : ToSet(ps[q]) \subseteq Listed(rs) \cup {c}
  BY <1>2, <1>3, <1>4 DEF Listed
<1>7. Listed(ps) \subseteq Listed(rs) \cup {c}
  BY <1>6 DEF Listed
<1>. QED
  BY <1>5, <1>7 DEF ps

\* A packet changes nothing of the rooms but where its sender is.
LEMMA RoomsAfter ==
    ASSUME Lists(rooms), DOMAIN clientToRoomMap \subseteq Client,
           NEW c \in Client, NEW p, HandlePacket(c, p)
    PROVE  /\ Lists(rooms)' /\ DOMAIN clientToRoomMap' \subseteq Client
           /\ Roomed' \subseteq Roomed \cup {c}
<1>1. ASSUME NEW r, NEW n, JoinRoom(c, r, n)
      PROVE  /\ Lists(rooms)' /\ DOMAIN clientToRoomMap' \subseteq Client
             /\ Roomed' \subseteq Roomed \cup {c}
  <2>1. Lists(RoomsWithout(c)) /\ Listed(RoomsWithout(c)) \subseteq Listed(rooms)
    BY EraseMemberLists DEF RoomsWithout
  <2>2. /\ Lists(PushMember(RoomsWithout(c), c, r))
        /\ Listed(PushMember(RoomsWithout(c), c, r)) \subseteq Listed(RoomsWithout(c)) \cup {c}
    BY <2>1, PushMemberLists
  <2>3. rooms' = PushMember(RoomsWithout(c), c, r)
    BY <1>1 DEF JoinRoom
  <2>4. Lists(rooms)' /\ Listed(rooms)' \subseteq Listed(rooms) \cup {c}
    BY <2>1, <2>2, <2>3 DEF Lists, Listed
  <2>5. DOMAIN MapWithout(c) \subseteq DOMAIN clientToRoomMap
    BY DEF MapWithout, EraseEntry
  <2>6. DOMAIN clientToRoomMap' \subseteq DOMAIN clientToRoomMap \cup {c}
    BY <1>1, <2>5 DEF JoinRoom, InsertEntry
  <2>. QED
    BY <2>4, <2>6 DEF Roomed
<1>2. ASSUME NEW r, NEW n, LeaveRoom(c, r, n)
      PROVE  /\ Lists(rooms)' /\ DOMAIN clientToRoomMap' \subseteq Client
             /\ Roomed' \subseteq Roomed \cup {c}
  <2>1. Lists(rooms)' /\ Listed(rooms)' \subseteq Listed(rooms)
    <3>1. rooms' = EraseMember(rooms, c, r)
      BY <1>2 DEF LeaveRoom
    <3>. QED
      BY <3>1, EraseMemberLists DEF Lists, Listed
  <2>2. DOMAIN clientToRoomMap' \subseteq DOMAIN clientToRoomMap
    BY <1>2 DEF LeaveRoom, EraseEntry
  <2>. QED
    BY <2>1, <2>2 DEF Roomed
<1>3. ASSUME UNCHANGED <<rooms, clientToRoomMap>>
      PROVE  /\ Lists(rooms)' /\ DOMAIN clientToRoomMap' \subseteq Client
             /\ Roomed' \subseteq Roomed \cup {c}
  BY <1>3 DEF Lists, Listed, Roomed
<1>4. CASE p.type = JOIN_ROOM
  BY <1>1, <1>4 DEF HandlePacket, JOIN_ROOM, SEND_MESSAGE
<1>5. CASE p.type = LEAVE_ROOM
  BY <1>2, <1>5 DEF HandlePacket, JOIN_ROOM, LEAVE_ROOM, SEND_MESSAGE
<1>6. CASE p.type = SEND_MESSAGE
  BY <1>3, <1>6 DEF HandlePacket, SendMessage, SendMessageRoomNotFound, roomVars
<1>7. CASE p.type \notin {JOIN_ROOM, LEAVE_ROOM, SEND_MESSAGE}
  BY <1>3, <1>7 DEF HandlePacket, roomVars
<1>. QED
  BY <1>4, <1>5, <1>6, <1>7

-----------------------------------------------------------------------------
(* Steps of the server, one lemma for each section of the loop.              *)

\* The places are sets of clients.
LEMMA PlacesAreClients ==
    ASSUME HomeTypes
    PROVE  /\ Unauthenticated = ToSet(unauthenticatedClients)
           /\ Authenticated = ToSet(clients)
           /\ Queued \subseteq Client /\ Unauthenticated \subseteq Client
           /\ Authenticated \subseteq Client /\ Home \subseteq Client
<1>1. DOMAIN clients = 1 .. Len(clients) /\ DOMAIN backlog = 1 .. Len(backlog)
  BY LenProperties DEF HomeTypes
<1>2. Unauthenticated = ToSet(unauthenticatedClients)
  BY DEF Unauthenticated, Ids, ToSet
<1>3. Unauthenticated \subseteq Client
  BY DEF HomeTypes, Unauthenticated
<1>4. Queued \subseteq Client /\ Authenticated \subseteq Client
  BY <1>1, ElementOfSeq DEF HomeTypes, Queued, Authenticated, ToSet
<1>. QED
  BY <1>2, <1>3, <1>4 DEF Home, Authenticated

\* What the invariant speaks of.
seen == <<rooms, clientToRoomMap, live, up, pc, readSet, cursor, clients,
          unauthenticatedClients, currentUnauthenticatedClientId, clientsToRemove, freed,
          backlog, fromClient, user>>

\* A step that leaves all that alone.
LEMMA UnseenHInv == ASSUME HInv, UNCHANGED seen PROVE HInv'
<1>1. HomeTypes'
  BY DEF HInv, HomeTypes, seen, Lists, Ids
<1>2. Kept'
  BY DEF HInv, Kept, seen, Queued, Home, Unauthenticated, Authenticated, Ids, Once
<1>3. Gone'
  BY DEF HInv, Gone, seen, Queued, Home, Unauthenticated, Authenticated, Ids, Roomed, Listed
<1>4. Loop'
  BY DEF HInv, Loop, seen, ToRead, HasData, Unauthenticated, Ids
<1>. QED
  BY <1>1, <1>2, <1>3, <1>4 DEF HInv

\* The start.
LEMMA InitHInv == Init => HInv
<1>. SUFFICES ASSUME Init PROVE HInv
  OBVIOUS
<1>1. <<>> \in Seq(Client) /\ \A S : <<>> \in Seq(S)
  BY EmptySeq
<1>2. /\ rooms = [r \in {} |-> <<>>] /\ clientToRoomMap = [c \in {} |-> NoRoom]
      /\ live = [c \in Client |-> FALSE]
      /\ pc = "select" /\ readSet = {} /\ clients = <<>> /\ backlog = <<>>
      /\ unauthenticatedClients = [id \in {} |-> <<>>]
      /\ currentUnauthenticatedClientId = 0 /\ clientsToRemove = {} /\ freed = {}
      /\ fromClient = [c \in Client |-> <<>>]
      /\ user = [c \in Client |-> "off"]
  BY DEF Init, ServerInit
<1>3. ToSet(<<>>) = {} /\ Ids = {} /\ Unauthenticated = {} /\ Authenticated = {}
      /\ Queued = {} /\ Roomed = {}
  BY <1>2 DEF ToSet, Ids, Unauthenticated, Authenticated, Queued, Roomed, Listed
<1>4. HomeTypes
  BY <1>1, <1>2, <1>3 DEF HomeTypes, Lists, UserState, U!UserState
<1>5. Once(backlog) /\ Once(unauthenticatedClients) /\ Once(clients)
  BY <1>2 DEF Once
<1>6. Kept
  BY <1>2, <1>3, <1>5 DEF Kept
<1>7. Gone
  BY <1>2, <1>3 DEF Gone, Home
<1>8. Loop
  BY <1>2, <1>3 DEF Loop, ToRead
<1>. QED
  BY <1>4, <1>6, <1>7, <1>8 DEF HInv

\* What select reports of a client is that there is something to read, and only
\* clients the server keeps are watched.
LEMMA ReadableClients ==
    ASSUME HInv
    PROVE  /\ Readable \cap Client \subseteq Authenticated \cup Unauthenticated
           /\ \A c \in Readable \cap Client : HasData(c)
           /\ Listener \in Readable => backlog # <<>>
<1>1. Watched \subseteq Authenticated \cup Unauthenticated
  <2>1. DOMAIN clients = 1 .. Len(clients)
    BY LenProperties DEF HInv, HomeTypes
  <2>. QED
    BY <2>1 DEF Watched, Authenticated, Unauthenticated, ToSet
<1>2. Watched \subseteq Client
  BY <1>1, PlacesAreClients DEF HInv
<1>3. Listener # AuthLink
  BY DEF Listener, AuthLink
<1>. HIDE DEF Listener, AuthLink
<1>. QED
  BY <1>1, <1>2, <1>3, LoopAssumption DEF Readable, HasData

\* What is watched is reported when there is something to read of it.
LEMMA SelectHInv == ASSUME HInv, Select, UNCHANGED userVars PROVE HInv'
<1>1. /\ UNCHANGED <<rooms, clientToRoomMap, live, up, clients, unauthenticatedClients,
                     currentUnauthenticatedClientId, clientsToRemove, freed, backlog,
                     fromClient, user>>
      /\ pc = "select" /\ readSet' = Readable /\ cursor' = Len(clients)
      /\ pc' = SectionAfterSelect(Readable)
  BY DEF Select, roomVars, homeVars, userVars
<1>2. HomeTypes'
  BY <1>1 DEF HInv, HomeTypes, Lists, Ids
<1>3. Kept'
  BY <1>1 DEF HInv, Kept, Queued, Home, Unauthenticated, Authenticated, Ids, Once
<1>4. Gone'
  <2>1. Readable \cap Client \subseteq Home
    BY ReadableClients DEF Home
  <2>. QED
    BY <1>1, <2>1 DEF HInv, Gone, Queued, Home, Unauthenticated, Authenticated, Ids,
       Roomed, Listed
<1>5. Loop'
  <2>1. pc' = "accept" => backlog # <<>>
    BY <1>1, ReadableClients DEF SectionAfterSelect
  <2>2. cursor' \in 0 .. Len(clients)
    BY <1>1, LenProperties DEF HInv, HomeTypes
  <2>3. pc' # "unauth"
    BY <1>1 DEF SectionAfterSelect
  <2>4. \A c \in readSet' \cap Client : HasData(c)'
    BY <1>1, ReadableClients DEF HasData
  <2>5. clientsToRemove' = {}
    BY <1>1 DEF HInv, Loop
  <2>. QED
    BY <1>1, <2>1, <2>2, <2>3, <2>4, <2>5 DEF Loop
<1>. QED
  BY <1>2, <1>3, <1>4, <1>5 DEF HInv

\* The head of the queue moves to the map under a new id, or the server ends.
LEMMA AcceptHInv == ASSUME HInv, Accept, UNCHANGED userVars PROVE HInv' /\ OnlyTheGoneLeave
<1>. DEFINE c == Head(backlog)
            n == currentUnauthenticatedClientId
<1>1. /\ UNCHANGED <<rooms, clientToRoomMap, live, readSet, cursor, clients,
                     clientsToRemove, freed, fromClient, user>>
      /\ pc = "accept" /\ backlog' = Tail(backlog)
      /\ pc' = SectionAfterSelect(readSet \ {Listener})
  BY DEF Accept, roomVars, userVars
<1>2. backlog # <<>> /\ clientsToRemove = {}
  BY <1>1 DEF HInv, Loop
<1>3. /\ c \in Queued /\ Tail(backlog) \in Seq(Client) /\ Once(Tail(backlog))
      /\ ToSet(Tail(backlog)) = Queued \ {c}
  BY <1>2, TailOnce DEF HInv, HomeTypes, Kept, Queued
<1>4. /\ Queued' = Queued \ {c} /\ Authenticated' = Authenticated /\ Roomed' = Roomed
      /\ backlog' \in Seq(Client) /\ Once(backlog')
  BY <1>1, <1>3 DEF Queued, Authenticated, Roomed, Listed
<1>5. Loop'
  <2>1. pc' \in {"auth", "clients"}
    BY <1>1 DEF SectionAfterSelect
  <2>2. cursor' \in 0 .. Len(clients')
    BY <1>1 DEF HInv, Loop
  <2>3. \A d \in readSet \cap Client : HasData(d)
    BY <1>1 DEF HInv, Loop, ToRead
  <2>4. \A d \in readSet' \cap Client : HasData(d)'
    BY <1>1, <2>3 DEF HasData
  <2>5. clientsToRemove' = {}
    BY <1>1, <1>2
  <2>. QED
    BY <2>1, <2>2, <2>4, <2>5 DEF Loop
<1>6. CASE NewClient(c) /\ UNCHANGED up
  <2>1. n \in Nat /\ n \notin Ids /\ c \in Client /\ c \notin Unauthenticated
    <3>1. n \in Nat /\ Ids \subseteq 0 .. n - 1
      BY DEF HInv, HomeTypes
    <3>2. n \notin Ids
      BY <3>1
    <3>. QED
      BY <1>3, <3>1, <3>2, PlacesAreClients DEF HInv, Kept
  <2>2. /\ unauthenticatedClients' =
              [id \in Ids \cup {n} |-> IF id = n THEN c ELSE unauthenticatedClients[id]]
        /\ currentUnauthenticatedClientId' = n + 1
    BY <1>6 DEF NewClient
  <2>. HIDE DEF c, n
  <2>3. /\ Once(unauthenticatedClients')
        /\ ToSet(unauthenticatedClients') = Unauthenticated \cup {c}
    BY <2>1, <2>2, ExtendOnce, PlacesAreClients DEF HInv, Kept, Ids
  <2>4. Ids' = Ids \cup {n} /\ Unauthenticated' = Unauthenticated \cup {c}
    <3>1. Ids' = Ids \cup {n}
      BY <2>2 DEF Ids
    <3>2. Unauthenticated' = ToSet(unauthenticatedClients')
      BY DEF Unauthenticated, Ids, ToSet
    <3>. QED
      BY <2>3, <3>1, <3>2
  <2>5. HomeTypes'
    <3>1. Ids' \subseteq 0 .. n /\ n + 1 \in Nat /\ (n + 1) - 1 = n
      <4>1. \A m \in Nat : 0 .. m - 1 \subseteq 0 .. m /\ m \in 0 .. m
                             /\ m + 1 \in Nat /\ (m + 1) - 1 = m
        OBVIOUS
      <4>2. Ids \subseteq 0 .. n - 1
        BY DEF HInv, HomeTypes, n
      <4>. QED
        BY <4>1, <4>2, <2>1, <2>4
    <3>2. unauthenticatedClients' \in [Ids' -> Client]
      BY <2>1, <2>2, <2>4 DEF HInv, HomeTypes
    <3>. QED
      BY <1>1, <1>4, <2>2, <3>1, <3>2 DEF HInv, HomeTypes, Lists
  <2>6. Home' = Home
    BY <1>3, <1>4, <2>4 DEF Home
  <2>7. Kept'
    <3>1. Once(clients') /\ Once(backlog') /\ Once(unauthenticatedClients')
      BY <1>1, <1>4, <2>3 DEF HInv, Kept
    <3>2. up' => \A d \in Client : live'[d] => d \in Home'
      BY <1>1, <1>6, <2>6 DEF HInv, Kept
    <3>. QED
      BY <1>3, <1>4, <2>4, <3>1, <3>2 DEF HInv, Kept
  <2>8. Gone'
    BY <1>1, <1>3, <1>4, <2>4, <2>6 DEF HInv, Gone
  <2>9. OnlyTheGoneLeave
    BY <1>4, <2>4 DEF OnlyTheGoneLeave
  <2>. QED
    BY <1>5, <2>5, <2>7, <2>8, <2>9 DEF HInv
<1>7. CASE up' = FALSE /\ UNCHANGED <<unauthenticatedClients, currentUnauthenticatedClientId>>
  <2>1. Ids' = Ids /\ Unauthenticated' = Unauthenticated /\ Home' \subseteq Home
    BY <1>4, <1>7 DEF Ids, Unauthenticated, Home
  <2>2. HomeTypes'
    BY <1>1, <1>4, <1>7, <2>1 DEF HInv, HomeTypes, Lists
  <2>3. Kept'
    BY <1>1, <1>4, <1>7, <2>1 DEF HInv, Kept
  <2>4. Gone'
    BY <1>1, <1>4, <2>1 DEF HInv, Gone
  <2>5. OnlyTheGoneLeave
    BY <1>4, <2>1 DEF OnlyTheGoneLeave
  <2>. QED
    BY <1>5, <2>2, <2>3, <2>4, <2>5 DEF HInv
<1>. QED
  BY <1>6, <1>7 DEF Accept

\* A successful login moves its client from the map to the end of the vector.
LEMMA AuthRecvHInv == ASSUME HInv, AuthRecv, UNCHANGED userVars PROVE HInv' /\ OnlyTheGoneLeave
<1>1. /\ UNCHANGED <<rooms, clientToRoomMap, live, readSet, currentUnauthenticatedClientId,
                     clientsToRemove, freed, backlog, fromClient, user>>
      /\ pc = "auth" /\ pc' = "clients" /\ cursor' = Len(clients')
      /\ up' \in {up, FALSE}
  BY DEF AuthRecv, userVars
<1>2. clientsToRemove' = {} /\ \A d \in readSet' \cap Client : HasData(d)'
  <2>1. \A d \in readSet \cap Client : HasData(d)
    BY <1>1 DEF HInv, Loop, ToRead
  <2>. QED
    BY <1>1, <2>1 DEF HInv, Loop, HasData
<1>3. Queued' = Queued /\ Roomed' = Roomed
  BY <1>1 DEF Queued, Roomed, Listed
<1>4. ASSUME clients' \in Seq(Client) PROVE Loop'
  <2>1. Len(clients') \in Nat
    BY <1>4, LenProperties
  <2>2. cursor' \in 0 .. Len(clients')
    BY <1>1, <2>1
  <2>. QED
    BY <1>1, <1>2, <2>2 DEF Loop
<1>5. CASE UNCHANGED <<unauthenticatedClients, clients>>
  <2>1. /\ Ids' = Ids /\ Unauthenticated' = Unauthenticated /\ Home' = Home
        /\ Authenticated' = Authenticated
    BY <1>3, <1>5 DEF Ids, Unauthenticated, Home, Authenticated
  <2>2. HomeTypes'
    BY <1>1, <1>5, <2>1 DEF HInv, HomeTypes, Lists
  <2>3. Kept'
    <3>1. Once(clients') /\ Once(backlog') /\ Once(unauthenticatedClients')
      BY <1>1, <1>5 DEF HInv, Kept
    <3>2. up' => \A d \in Client : live'[d] => d \in Home'
      BY <1>1, <2>1 DEF HInv, Kept
    <3>. QED
      BY <1>3, <2>1, <3>1, <3>2 DEF HInv, Kept
  <2>4. Gone'
    BY <1>1, <1>3, <2>1 DEF HInv, Gone
  <2>5. OnlyTheGoneLeave
    BY <2>1 DEF OnlyTheGoneLeave
  <2>. QED
    BY <1>4, <2>2, <2>3, <2>4, <2>5 DEF HInv, HomeTypes
<1>6. CASE \E id \in Ids :
              /\ unauthenticatedClients' = [j \in Ids \ {id} |-> unauthenticatedClients[j]]
              /\ clients' = Append(clients, unauthenticatedClients[id])
  <2>1. PICK id \in Ids :
              /\ unauthenticatedClients' = [j \in Ids \ {id} |-> unauthenticatedClients[j]]
              /\ clients' = Append(clients, unauthenticatedClients[id])
    BY <1>6
  <2>. DEFINE c == unauthenticatedClients[id]
  <2>2. c \in Client /\ c \in Unauthenticated /\ c \notin Authenticated
    BY DEF HInv, HomeTypes, Kept, Unauthenticated
  <2>3. /\ Once(unauthenticatedClients')
        /\ ToSet(unauthenticatedClients') = Unauthenticated \ {c}
    <3>1. /\ Once(unauthenticatedClients')
          /\ ToSet(unauthenticatedClients')
                = Unauthenticated \ {unauthenticatedClients[i] : i \in {id} \cap Ids}
      BY <2>1, RestrictOnce, PlacesAreClients DEF HInv, Kept, Ids
    <3>. QED
      BY <3>1
  <2>4. Ids' = Ids \ {id} /\ Unauthenticated' = Unauthenticated \ {c}
    <3>1. Unauthenticated' = ToSet(unauthenticatedClients')
      BY DEF Unauthenticated, Ids, ToSet
    <3>. QED
      BY <2>1, <2>3, <3>1 DEF Ids
  <2>5. /\ clients' \in Seq(Client) /\ Once(clients')
        /\ Authenticated' = Authenticated \cup {c}
    BY <2>1, <2>2, AppendOnce, PlacesAreClients DEF HInv, HomeTypes, Kept, Authenticated
  <2>6. unauthenticatedClients' \in [Ids' -> Client]
    BY <2>1, <2>4 DEF HInv, HomeTypes
  <2>. HIDE DEF c
  <2>7. HomeTypes'
    BY <1>1, <2>4, <2>5, <2>6 DEF HInv, HomeTypes, Lists
  <2>8. Home' = Home
    BY <1>3, <2>2, <2>4, <2>5 DEF Home
  <2>9. Kept'
    <3>1. Once(clients') /\ Once(backlog') /\ Once(unauthenticatedClients')
      BY <1>1, <2>3, <2>5 DEF HInv, Kept
    <3>2. up' => \A d \in Client : live'[d] => d \in Home'
      BY <1>1, <2>8 DEF HInv, Kept
    <3>. QED
      BY <1>3, <2>2, <2>4, <2>5, <3>1, <3>2 DEF HInv, Kept
  <2>10. Gone'
    BY <1>1, <1>3, <2>4, <2>8 DEF HInv, Gone
  <2>11. OnlyTheGoneLeave
    BY <2>4, <2>5 DEF OnlyTheGoneLeave
  <2>. QED
    BY <1>4, <2>5, <2>7, <2>9, <2>10, <2>11 DEF HInv
<1>7. UNCHANGED <<unauthenticatedClients, clients>>
      \/ \E id \in Ids :
            /\ unauthenticatedClients' = [j \in Ids \ {id} |-> unauthenticatedClients[j]]
            /\ clients' = Append(clients, unauthenticatedClients[id])
  BY DEF AuthRecv, DispatchResult, LoginResult, RegisterResult
<1>. QED
  BY <1>5, <1>6, <1>7

\* A recv keeps the streams' type and empties no other stream.
LEMMA RecvGetsType ==
    ASSUME HomeTypes, NEW c \in Client, RecvGets(c)
    PROVE  /\ fromClient' = [d \in Client |-> fromClient'[d]]
           /\ \A d \in Client : fromClient'[d] \in Seq(ToSet(fromClient'[d]))
           /\ \A d \in Client \ {c} : fromClient'[d] = fromClient[d]
<1>1. PICK k \in RecvCounts(fromClient[c]) :
            fromClient' = [fromClient EXCEPT ![c] = AfterRecv(@, k)]
  BY DEF RecvGets
<1>2. fromClient[c] # <<>> /\ fromClient[c] \in Seq(ToSet(fromClient[c]))
  BY DEF RecvGets, HomeTypes
<1>. DEFINE t == AfterRecv(fromClient[c], k)
<1>3. t \in Seq(ToSet(fromClient[c]))
  BY <1>1, <1>2, AfterRecvType
<1>. HIDE DEF t
<1>4. t \in Seq(ToSet(t))
  BY <1>3, SeqOfItsSet
<1>5. fromClient = [d \in Client |-> fromClient[d]]
  BY DEF HomeTypes
<1>6. fromClient' = [d \in Client |-> IF d = c THEN t ELSE fromClient[d]]
  BY <1>1, <1>5 DEF t
<1>. QED
  BY <1>4, <1>6 DEF HomeTypes

\* The vector from its end: what was read is served, who is gone is taken out.
LEMMA ServeClientHInv ==
    ASSUME HInv, ServeClient, UNCHANGED userVars
    PROVE  HInv' /\ OnlyTheGoneLeave
<1>. DEFINE k == Max(ClientsToServe)
            c == clients[k]
<1>1. /\ UNCHANGED <<live, pc, readSet, unauthenticatedClients,
                     currentUnauthenticatedClientId, clientsToRemove, freed, backlog, user>>
      /\ pc = "clients" /\ ClientsToServe # {} /\ cursor' = k - 1
      /\ \/ RecvGets(c) /\ HandlePacket(c, Head(fromClient[c])) /\ UNCHANGED clients
         \/ RecvFails(c) /\ clients' = SwapRemove(k)
            /\ UNCHANGED <<roomVars, up, fromClient>>
  BY DEF ServeClient, userVars
<1>2. k \in ClientsToServe
  <2>1. cursor \in Nat /\ ClientsToServe \subseteq 1 .. cursor
    <3>1. \A n \in Nat : \A m \in 0 .. n : m \in Nat
      OBVIOUS
    <3>2. cursor \in 0 .. Len(clients) /\ Len(clients) \in Nat
      BY <1>1, LenProperties DEF HInv, Loop, HomeTypes
    <3>. QED
      BY <3>1, <3>2 DEF ClientsToServe
  <2>. QED
    BY <1>1, <2>1, MaxOfPositions
<1>. HIDE DEF k
<1>3. /\ k \in 1 .. cursor /\ k \in 1 .. Len(clients) /\ k - 1 \in 0 .. Len(clients)
      /\ c \in readSet /\ 1 .. k - 1 \subseteq 1 .. cursor /\ k \notin 1 .. k - 1
      /\ 1 .. k - 1 \subseteq 1 .. Len(clients)
      /\ k - 1 \in 0 .. Len(clients) - 1
  <2>1. k \in 1 .. cursor /\ c \in readSet
    BY <1>2 DEF ClientsToServe
  <2>2. cursor \in 0 .. Len(clients) /\ Len(clients) \in Nat
    BY <1>1, LenProperties DEF HInv, Loop, HomeTypes
  <2>3. \A n \in Nat : \A m \in 0 .. n : \A j \in 1 .. m :
           /\ j \in 1 .. n /\ j - 1 \in 0 .. n /\ 1 .. j - 1 \subseteq 1 .. m
           /\ j \notin 1 .. j - 1 /\ 1 .. j - 1 \subseteq 1 .. n /\ j - 1 \in 0 .. n - 1
    OBVIOUS
  <2>. QED
    BY <2>1, <2>2, <2>3
<1>4. /\ c \in Client /\ c \in Authenticated /\ c \notin Queued /\ c \notin Unauthenticated
      /\ \A i \in 1 .. k - 1 : clients[i] # c
      /\ DOMAIN clients = 1 .. Len(clients)
  <2>1. DOMAIN clients = 1 .. Len(clients)
    BY LenProperties DEF HInv, HomeTypes
  <2>2. c \in Authenticated
    BY <1>3, <2>1 DEF Authenticated, ToSet
  <2>3. c \in Client /\ c \notin Queued /\ c \notin Unauthenticated
    BY <2>2, PlacesAreClients DEF HInv, Kept
  <2>4. ASSUME NEW i \in 1 .. k - 1, clients[i] = c PROVE FALSE
    <3>1. i \in DOMAIN clients /\ k \in DOMAIN clients
      BY <1>3, <2>1
    <3>2. i = k
      BY <2>4, <3>1 DEF HInv, Kept, Once
    <3>. QED
      BY <1>3, <3>2
  <2>. QED
    BY <2>1, <2>2, <2>3, <2>4
<1>5. HasData(c)
  BY <1>1, <1>3, <1>4 DEF HInv, Loop, ToRead
<1>6. Ids' = Ids /\ Unauthenticated' = Unauthenticated /\ Queued' = Queued
  BY <1>1 DEF Ids, Unauthenticated, Queued
<1>. HIDE DEF c
<1>7. ASSUME \A i \in 1 .. k - 1 : clients'[i] = clients[i],
             \A d \in Client \ {c} : fromClient'[d] = fromClient[d],
             cursor' \in 0 .. Len(clients')
      PROVE  Loop'
  <2>1. ToRead' = {clients[i] : i \in 1 .. k - 1} \cup Unauthenticated
    BY <1>1, <1>6, <1>7 DEF ToRead
  <2>2. ToRead' \subseteq ToRead /\ c \notin ToRead'
    BY <1>1, <1>3, <1>4, <2>1 DEF ToRead
  <2>3. \A d \in ToRead \cap readSet \cap Client : HasData(d)
    BY DEF HInv, Loop
  <2>4. \A d \in ToRead' \cap readSet' \cap Client : HasData(d)'
    <3>. SUFFICES ASSUME NEW d \in ToRead' \cap readSet' \cap Client PROVE HasData(d)'
      OBVIOUS
    <3>1. HasData(d) /\ d \in Client \ {c}
      BY <1>1, <2>2, <2>3
    <3>2. fromClient'[d] = fromClient[d]
      BY <3>1, <1>7
    <3>. QED
      BY <1>1, <3>1, <3>2 DEF HasData
  <2>5. clientsToRemove' = {} /\ clientsToRemove' \subseteq Ids'
    BY <1>1 DEF HInv, Loop
  <2>6. pc' = "clients"
    BY <1>1
  <2>. QED
    BY <1>7, <2>4, <2>5, <2>6 DEF Loop
<1>8. CASE RecvGets(c) /\ HandlePacket(c, Head(fromClient[c])) /\ UNCHANGED clients
  <2>1. /\ fromClient' = [d \in Client |-> fromClient'[d]]
        /\ \A d \in Client : fromClient'[d] \in Seq(ToSet(fromClient'[d]))
        /\ \A d \in Client \ {c} : fromClient'[d] = fromClient[d]
    BY <1>4, <1>8, RecvGetsType DEF HInv
  <2>2. /\ Lists(rooms)' /\ DOMAIN clientToRoomMap' \subseteq Client
        /\ Roomed' \subseteq Roomed \cup {c}
    BY <1>4, <1>8, RoomsAfter DEF HInv, HomeTypes
  <2>3. up' => up
    BY <1>8 DEF HandlePacket, ServeClient
  <2>4. Authenticated' = Authenticated /\ Home' = Home
    BY <1>6, <1>8 DEF Authenticated, Home
  <2>5. HomeTypes'
    BY <1>1, <1>6, <1>8, <2>1, <2>2 DEF HInv, HomeTypes
  <2>6. Kept'
    <3>1. Once(clients') /\ Once(backlog') /\ Once(unauthenticatedClients')
      BY <1>1, <1>8 DEF HInv, Kept
    <3>2. up' => \A d \in Client : live'[d] => d \in Home'
      BY <1>1, <2>3, <2>4 DEF HInv, Kept
    <3>. QED
      BY <1>6, <2>4, <3>1, <3>2 DEF HInv, Kept
  <2>7. Gone'
    <3>1. c \in Home /\ c \notin freed
      BY <1>4 DEF HInv, Gone, Home
    <3>. QED
      BY <1>1, <1>4, <1>6, <2>2, <2>4, <3>1 DEF HInv, Gone
  <2>8. Loop'
    <3>1. \A i \in 1 .. k - 1 : clients'[i] = clients[i]
      BY <1>8
    <3>2. cursor' \in 0 .. Len(clients')
      BY <1>1, <1>3, <1>8
    <3>. QED
      BY <2>1, <3>1, <3>2, <1>7
  <2>9. OnlyTheGoneLeave
    BY <1>6, <2>4 DEF OnlyTheGoneLeave
  <2>. QED
    BY <2>5, <2>6, <2>7, <2>8, <2>9 DEF HInv
<1>9. CASE RecvFails(c) /\ clients' = SwapRemove(k) /\ UNCHANGED <<roomVars, up, fromClient>>
  <2>1. /\ clients' \in Seq(Client) /\ Once(clients')
        /\ Len(clients') = Len(clients) - 1
        /\ \A i \in 1 .. k - 1 : clients'[i] = clients[i]
        /\ ToSet(clients') = ToSet(clients) \ {c}
    <3>. DEFINE t == Front(ReplaceAt(clients, k, Last(clients)))
    <3>1. clients' = t
      BY <1>9 DEF SwapRemove
    <3>2. /\ t \in Seq(Client) /\ Once(t) /\ Len(t) = Len(clients) - 1
          /\ \A i \in 1 .. k - 1 : t[i] = clients[i]
          /\ ToSet(t) = ToSet(clients) \ {clients[k]}
      <4>1. clients \in Seq(Client) /\ Once(clients) /\ k \in 1 .. Len(clients)
        BY <1>3 DEF HInv, HomeTypes, Kept
      <4>. QED
        BY <4>1, SwapRemoveOnce, Zenon
    <3>. HIDE DEF t
    <3>. QED
      BY <3>1, <3>2 DEF c, Once
  <2>2. Authenticated' = Authenticated \ {c} /\ Roomed' = Roomed /\ Home' = Home \ {c}
    <3>1. Authenticated' = Authenticated \ {c}
      BY <2>1 DEF Authenticated
    <3>2. Roomed' = Roomed
      BY <1>9 DEF Roomed, Listed, roomVars
    <3>. QED
      BY <1>4, <1>6, <3>1, <3>2 DEF Home
  <2>3. ~live[c]
    BY <1>5, <1>9 DEF HasData, RecvFails
  <2>4. HomeTypes'
    BY <1>1, <1>6, <1>9, <2>1 DEF HInv, HomeTypes, Lists, roomVars
  <2>5. Kept'
    <3>1. Once(clients') /\ Once(backlog') /\ Once(unauthenticatedClients')
      BY <1>1, <2>1 DEF HInv, Kept
    <3>2. up' => \A d \in Client : live'[d] => d \in Home'
      BY <1>1, <1>9, <2>2, <2>3 DEF HInv, Kept
    <3>. QED
      BY <1>6, <2>2, <3>1, <3>2 DEF HInv, Kept
  <2>6. Gone'
    BY <1>1, <1>6, <2>2 DEF HInv, Gone
  <2>7. Loop'
    <3>1. cursor' \in 0 .. Len(clients')
      BY <1>1, <1>3, <2>1
    <3>2. \A d \in Client \ {c} : fromClient'[d] = fromClient[d]
      BY <1>9
    <3>. QED
      BY <2>1, <3>1, <3>2, <1>7
  <2>8. OnlyTheGoneLeave
    BY <1>6, <2>2, <2>3 DEF OnlyTheGoneLeave
  <2>. QED
    BY <2>4, <2>5, <2>6, <2>7, <2>8 DEF HInv
<1>. QED
  BY <1>1, <1>8, <1>9

\* The vector is served, the map is next.
LEMMA ClientsServedHInv == ASSUME HInv, ClientsServed, UNCHANGED userVars PROVE HInv'
<1>1. /\ UNCHANGED <<rooms, clientToRoomMap, live, up, readSet, clients,
                     unauthenticatedClients, currentUnauthenticatedClientId,
                     clientsToRemove, freed, backlog, fromClient, user>>
      /\ pc = "clients" /\ pc' = "unauth" /\ cursor' = 0
  BY DEF ClientsServed, roomVars, homeVars, userVars
<1>2. HomeTypes'
  BY <1>1 DEF HInv, HomeTypes, Lists, Ids
<1>3. Kept'
  BY <1>1 DEF HInv, Kept, Queued, Home, Unauthenticated, Authenticated, Ids, Once
<1>4. Gone'
  BY <1>1 DEF HInv, Gone, Queued, Home, Unauthenticated, Authenticated, Ids, Roomed, Listed
<1>5. Loop'
  <2>1. ToRead' \subseteq ToRead
    BY <1>1 DEF ToRead, Ids, Unauthenticated
  <2>2. \A d \in ToRead \cap readSet \cap Client : HasData(d)
    BY DEF HInv, Loop
  <2>3. \A d \in ToRead' \cap readSet' \cap Client : HasData(d)'
    BY <1>1, <2>1, <2>2 DEF HasData
  <2>4. clientsToRemove' = {}
    BY <1>1 DEF HInv, Loop
  <2>. QED
    BY <1>1, <2>3, <2>4 DEF Loop
<1>. QED
  BY <1>2, <1>3, <1>4, <1>5 DEF HInv

\* The map in id order: what was read is forwarded, who is gone is flagged.
LEMMA ServeUnauthenticatedHInv ==
    ASSUME HInv, ServeUnauthenticated, UNCHANGED userVars PROVE HInv'
<1>. DEFINE id == Min(UnauthToServe)
            c == unauthenticatedClients[id]
<1>1. /\ UNCHANGED <<rooms, clientToRoomMap, live, up, pc, readSet, clients,
                     unauthenticatedClients, currentUnauthenticatedClientId, freed,
                     backlog, user>>
      /\ pc = "unauth" /\ UnauthToServe # {} /\ cursor' = id + 1
      /\ \/ RecvGets(c) /\ UNCHANGED clientsToRemove
         \/ RecvFails(c) /\ clientsToRemove' = clientsToRemove \cup {id}
            /\ UNCHANGED fromClient
  BY DEF ServeUnauthenticated, roomVars, userVars
<1>2. id \in Ids /\ id >= cursor /\ c \in readSet /\ id \in Nat
  <2>1. Ids \subseteq Nat
    <3>1. \A n \in Nat : \A m \in 0 .. n - 1 : m \in Nat
      OBVIOUS
    <3>. QED
      BY <3>1 DEF HInv, HomeTypes
  <2>2. UnauthToServe \in SUBSET Nat
    BY <2>1 DEF UnauthToServe
  <2>3. id \in UnauthToServe
    BY <1>1, <2>2, MinOfNaturals
  <2>. HIDE DEF id
  <2>. QED
    BY <2>1, <2>3 DEF UnauthToServe
<1>. HIDE DEF id
<1>3. /\ Ids' = Ids /\ Unauthenticated' = Unauthenticated /\ Queued' = Queued
      /\ Authenticated' = Authenticated /\ Home' = Home /\ Roomed' = Roomed
  BY <1>1 DEF Ids, Unauthenticated, Queued, Authenticated, Home, Roomed, Listed
<1>4. c \in Client /\ HasData(c)
  <2>1. c \in Client
    BY <1>2 DEF HInv, HomeTypes
  <2>2. c \in ToRead
    BY <1>1, <1>2 DEF ToRead
  <2>. HIDE DEF c
  <2>. QED
    BY <1>2, <2>1, <2>2 DEF HInv, Loop, c
<1>5. /\ ToRead' \subseteq ToRead /\ c \notin ToRead' /\ id + 1 \in Nat
  <2>1. \A n, m \in Nat : \A k \in Nat :
           (m >= n => (k >= m + 1 => k >= n)) /\ ~(m >= m + 1) /\ m + 1 \in Nat
    OBVIOUS
  <2>2. Ids \subseteq Nat /\ cursor \in Nat
    <3>1. \A n \in Nat : \A m \in 0 .. n - 1 : m \in Nat
      OBVIOUS
    <3>. QED
      BY <1>1, <3>1 DEF HInv, HomeTypes, Loop
  <2>3. ToRead' = {unauthenticatedClients[i] : i \in {j \in Ids : j >= id + 1}}
    BY <1>1, <1>3 DEF ToRead
  <2>4. {j \in Ids : j >= id + 1} \subseteq {j \in Ids : j >= cursor}
    BY <1>2, <2>1, <2>2
  <2>5. ToRead = {unauthenticatedClients[i] : i \in {j \in Ids : j >= cursor}}
    BY <1>1 DEF ToRead
  <2>6. ASSUME NEW i \in {j \in Ids : j >= id + 1}, unauthenticatedClients[i] = c
        PROVE  FALSE
    <3>1. i = id
      BY <1>2, <2>6 DEF HInv, Kept, Once, Ids
    <3>. QED
      BY <1>2, <2>1, <2>6, <3>1
  <2>. HIDE DEF c
  <2>. QED
    BY <1>2, <2>1, <2>3, <2>4, <2>5, <2>6
<1>. HIDE DEF c
<1>6. /\ fromClient' = [d \in Client |-> fromClient'[d]]
      /\ \A d \in Client : fromClient'[d] \in Seq(ToSet(fromClient'[d]))
      /\ \A d \in Client \ {c} : fromClient'[d] = fromClient[d]
  <2>1. CASE RecvGets(c)
    BY <1>4, <2>1, RecvGetsType DEF HInv
  <2>2. CASE UNCHANGED fromClient
    BY <2>2 DEF HInv, HomeTypes
  <2>. QED
    BY <1>1, <2>1, <2>2
<1>7. HomeTypes'
  BY <1>1, <1>3, <1>6 DEF HInv, HomeTypes, Lists
<1>8. Kept'
  <2>1. Once(clients') /\ Once(backlog') /\ Once(unauthenticatedClients')
    BY <1>1 DEF HInv, Kept
  <2>2. up' => \A d \in Client : live'[d] => d \in Home'
    BY <1>1, <1>3 DEF HInv, Kept
  <2>. QED
    BY <1>3, <2>1, <2>2 DEF HInv, Kept
<1>9. Gone'
  BY <1>1, <1>3 DEF HInv, Gone
<1>10. Loop'
  <2>1. \A d \in ToRead' \cap readSet' \cap Client : HasData(d)'
    <3>. SUFFICES ASSUME NEW d \in ToRead' \cap readSet' \cap Client PROVE HasData(d)'
      OBVIOUS
    <3>1. HasData(d) /\ d \in Client \ {c}
      BY <1>1, <1>5 DEF HInv, Loop
    <3>2. fromClient'[d] = fromClient[d]
      BY <3>1, <1>6
    <3>. QED
      BY <1>1, <3>1, <3>2 DEF HasData
  <2>2. /\ clientsToRemove' \subseteq Ids
        /\ \A j \in clientsToRemove' : ~live[unauthenticatedClients[j]]
    <3>1. CASE UNCHANGED clientsToRemove
      BY <3>1 DEF HInv, Loop
    <3>2. CASE RecvFails(c) /\ clientsToRemove' = clientsToRemove \cup {id}
      <4>1. ~live[c]
        BY <1>4, <3>2 DEF HasData, RecvFails
      <4>. QED
        BY <1>2, <3>2, <4>1 DEF HInv, Loop, c
    <3>. QED
      BY <1>1, <3>1, <3>2
  <2>3. pc' = "unauth" /\ cursor' \in Nat
    BY <1>1, <1>5
  <2>. QED
    BY <1>1, <1>3, <2>1, <2>2, <2>3 DEF Loop
<1>. QED
  BY <1>7, <1>8, <1>9, <1>10 DEF HInv

\* The end of the iteration takes the flagged clients out of the map and frees
\* them; no other container has them.
LEMMA RemoveInvalidHInv ==
    ASSUME HInv, RemoveInvalid, UNCHANGED userVars
    PROVE  HInv' /\ OnlyTheGoneLeave
<1>. DEFINE D == {unauthenticatedClients[id] : id \in clientsToRemove \cap Ids}
<1>1. /\ UNCHANGED <<rooms, clientToRoomMap, live, up, clients,
                     currentUnauthenticatedClientId, backlog, fromClient, user>>
      /\ unauthenticatedClients' =
            [id \in Ids \ clientsToRemove |-> unauthenticatedClients[id]]
      /\ freed' = freed \cup D /\ clientsToRemove' = {}
      /\ pc' = "select" /\ readSet' = {}
  BY DEF RemoveInvalid, roomVars, userVars
<1>2. D \subseteq Unauthenticated /\ D \subseteq Client /\ \A d \in D : ~live[d]
  BY DEF HInv, HomeTypes, Loop, Unauthenticated
<1>3. Once(unauthenticatedClients') /\ ToSet(unauthenticatedClients') = Unauthenticated \ D
  BY <1>1, RestrictOnce, PlacesAreClients DEF HInv, Kept, Ids
<1>. HIDE DEF D
<1>4. Ids' = Ids \ clientsToRemove /\ Unauthenticated' = Unauthenticated \ D
  <2>1. Unauthenticated' = ToSet(unauthenticatedClients')
    BY DEF Unauthenticated, Ids, ToSet
  <2>. QED
    BY <1>1, <1>3, <2>1 DEF Ids
<1>5. /\ Queued' = Queued /\ Authenticated' = Authenticated /\ Roomed' = Roomed
      /\ Home' = Home \ D
  <2>1. Queued' = Queued /\ Authenticated' = Authenticated /\ Roomed' = Roomed
    BY <1>1 DEF Queued, Authenticated, Roomed, Listed
  <2>. QED
    BY <1>2, <1>4, <2>1 DEF HInv, Kept, Home
<1>6. HomeTypes'
  <2>1. unauthenticatedClients' \in [Ids' -> Client]
    BY <1>1, <1>4 DEF HInv, HomeTypes
  <2>. QED
    BY <1>1, <1>2, <1>4, <2>1 DEF HInv, HomeTypes, Lists
<1>7. Kept'
  <2>1. Once(clients') /\ Once(backlog') /\ Once(unauthenticatedClients')
    BY <1>1, <1>3 DEF HInv, Kept
  <2>2. up' => \A d \in Client : live'[d] => d \in Home'
    BY <1>1, <1>2, <1>5 DEF HInv, Kept
  <2>. QED
    BY <1>4, <1>5, <2>1, <2>2 DEF HInv, Kept
<1>8. Gone'
  BY <1>1, <1>2, <1>4, <1>5 DEF HInv, Gone, Home
<1>9. Loop'
  BY <1>1 DEF Loop, ToRead
<1>10. OnlyTheGoneLeave
  BY <1>2, <1>4, <1>5 DEF OnlyTheGoneLeave
<1>. QED
  BY <1>6, <1>7, <1>8, <1>9, <1>10 DEF HInv

-----------------------------------------------------------------------------
(* Steps of the client programs.                                            *)

\* What the server keeps.
kept == <<rooms, clientToRoomMap, up, pc, readSet, cursor, clients, unauthenticatedClients,
          currentUnauthenticatedClientId, clientsToRemove, freed, backlog>>

\* A step of a program that is running: it closes its connection at most, and
\* what there is to read stays.
LEMMA ProgramHInv ==
    ASSUME HInv, UNCHANGED kept,
           user' \in [Client -> UserState], \A c \in Client : user[c] # "off" => user'[c] # "off",
           live' \in [Client -> BOOLEAN], \A c \in Client : live'[c] => live[c],
           fromClient' = [c \in Client |-> fromClient'[c]],
           \A c \in Client : fromClient'[c] \in Seq(ToSet(fromClient'[c])),
           \A c \in Client : HasData(c) => HasData(c)'
    PROVE  HInv'
<1>1. /\ Ids' = Ids /\ Unauthenticated' = Unauthenticated /\ Queued' = Queued
      /\ Authenticated' = Authenticated /\ Home' = Home /\ Roomed' = Roomed
      /\ ToRead' = ToRead
  BY DEF kept, Ids, Unauthenticated, Queued, Authenticated, Home, Roomed, Listed, ToRead
<1>2. HomeTypes'
  BY <1>1 DEF HInv, HomeTypes, Lists, kept
<1>3. Kept'
  <2>1. Once(clients') /\ Once(backlog') /\ Once(unauthenticatedClients')
    BY DEF HInv, Kept, kept
  <2>2. up' => \A d \in Client : live'[d] => d \in Home'
    BY <1>1 DEF HInv, Kept, kept
  <2>. QED
    BY <1>1, <2>1, <2>2 DEF HInv, Kept
<1>4. Gone'
  <2>1. Home \cup Roomed \cup freed \cup (readSet \cap Client) \subseteq Client
    <3>1. Home \subseteq Client /\ freed \subseteq Client
      BY PlacesAreClients DEF HInv, HomeTypes
    <3>2. Roomed \subseteq Client
      <4>1. ASSUME NEW r \in DOMAIN rooms PROVE ToSet(rooms[r]) \subseteq Client
        <5>1. rooms[r] \in Seq(Client)
          BY DEF HInv, HomeTypes, Lists
        <5>. QED
          BY <5>1, ElementOfSeq, LenProperties DEF ToSet
      <4>. QED
        BY <4>1 DEF HInv, HomeTypes, Roomed, Listed
    <3>. QED
      BY <3>1, <3>2
  <2>. QED
    BY <1>1, <2>1 DEF HInv, Gone, kept
<1>5. Loop'
  <2>1. \A d \in ToRead' \cap readSet' \cap Client : HasData(d)'
    BY <1>1 DEF HInv, Loop, kept
  <2>2. \A id \in clientsToRemove' : ~live'[unauthenticatedClients'[id]]
    <3>1. \A id \in Ids : unauthenticatedClients[id] \in Client
      BY DEF HInv, HomeTypes
    <3>. QED
      BY <3>1 DEF HInv, Loop, kept
  <2>. QED
    BY <1>1, <2>1, <2>2 DEF HInv, Loop, kept
<1>. QED
  BY <1>2, <1>3, <1>4, <1>5 DEF HInv

\* A running program sends, receives and ends, and is never as if not started.
LEMMA UserGoesOn ==
    ASSUME user \in [Client -> UserState], NEW c \in Client,
           (\E p : U!Sends(c, p) \/ U!Receives(c, p)) \/ U!Ends(c)
    PROVE  /\ user' \in [Client -> UserState]
           /\ \A d \in Client : user[d] # "off" => user'[d] # "off"
<1>1. \E v \in UserState \ {"off"} : user' = [user EXCEPT ![c] = v] \/ user' = user
  <2>1. CASE U!Ends(c)
    BY <2>1 DEF U!Ends, UserState, U!UserState
  <2>2. ASSUME NEW p, U!Sends(c, p)
        PROVE  \E v \in UserState \ {"off"} : user' = [user EXCEPT ![c] = v] \/ user' = user
    <3>1. user' = [user EXCEPT ![c] = "waiting"] \/ user' = [user EXCEPT ![c] = "leaving"]
          \/ user' = user
      BY <2>2 DEF U!Sends, U!Ask, U!Join, U!Chat, U!Leave, U!userVars
    <3>. QED
      BY <3>1 DEF UserState, U!UserState
  <2>3. ASSUME NEW p, U!Receives(c, p)
        PROVE  \E v \in UserState \ {"off"} : user' = [user EXCEPT ![c] = v] \/ user' = user
    <3>1. U!UserAfter(c, p) \in UserState \ {"off"}
      BY <2>3 DEF U!Receives, U!UserAfter, UserState, U!UserState
    <3>2. user' = [user EXCEPT ![c] = U!UserAfter(c, p)]
      BY <2>3 DEF U!Receives
    <3>. QED
      BY <3>1, <3>2
  <2>. QED
    BY <2>1, <2>2, <2>3
<1>. QED
  BY <1>1

\* A frame is appended to the stream.
LEMMA SendHInv ==
    ASSUME HInv, NEW c \in Client, NEW p, SendFrame(c, p)
    PROVE  HInv'
<1>1. /\ UNCHANGED kept /\ live' = live
      /\ fromClient' = [fromClient EXCEPT ![c] = Append(@, p)]
      /\ U!Sends(c, p)
  BY DEF SendFrame, Send, kept, loopVars, homeVars
<1>2. /\ fromClient = [d \in Client |-> fromClient[d]]
      /\ fromClient[c] \in Seq(ToSet(fromClient[c]))
  BY DEF HInv, HomeTypes
<1>. DEFINE s == fromClient[c]
            t == Append(s, p)
<1>3. t \in Seq(ToSet(t)) /\ t # <<>>
  <2>1. s \in Seq(ToSet(s) \cup {p})
    <3>1. s \in Seq(ToSet(s))
      BY <1>2
    <3>. HIDE DEF s
    <3>2. Len(s) \in Nat /\ s \in [1 .. Len(s) -> ToSet(s)]
      BY <3>1, LenProperties
    <3>3. s \in [1 .. Len(s) -> ToSet(s) \cup {p}]
      BY <3>2
    <3>. QED
      BY <3>2, <3>3, SeqDef
  <2>. HIDE DEF s
  <2>2. t \in Seq(ToSet(s) \cup {p})
    BY <2>1, AppendProperties
  <2>3. t # <<>>
    <3>1. Len(t) = Len(s) + 1 /\ Len(s) \in Nat
      BY <2>1, AppendProperties, LenProperties
    <3>2. Len(t) # 0
      BY <3>1
    <3>. QED
      BY <2>2, <3>2, EmptySeq
  <2>. HIDE DEF t
  <2>. QED
    BY <2>2, <2>3, SeqOfItsSet
<1>. HIDE DEF s, t
<1>4. fromClient' = [d \in Client |-> IF d = c THEN t ELSE fromClient[d]]
  BY <1>1, <1>2 DEF s, t
<1>5. \A d \in Client : fromClient'[d] \in Seq(ToSet(fromClient'[d]))
  BY <1>3, <1>4 DEF HInv, HomeTypes
<1>6. \A d \in Client : HasData(d) => HasData(d)'
  BY <1>1, <1>3, <1>4 DEF HasData
<1>7. /\ user' \in [Client -> UserState]
      /\ \A d \in Client : user[d] # "off" => user'[d] # "off"
  BY <1>1, UserGoesOn DEF HInv, HomeTypes
<1>8. fromClient' = [d \in Client |-> fromClient'[d]]
  BY <1>4
<1>9. live' \in [Client -> BOOLEAN] /\ \A d \in Client : live'[d] => live[d]
  BY <1>1 DEF HInv, HomeTypes
<1>. QED
  BY <1>1, <1>5, <1>6, <1>7, <1>8, <1>9, ProgramHInv

\* A frame of the server is taken from the other stream.
LEMMA ClientRecvHInv ==
    ASSUME HInv, NEW c \in Client, ClientRecv(c)
    PROVE  HInv'
<1>1. UNCHANGED kept /\ live' = live /\ fromClient' = fromClient
      /\ U!Receives(c, Head(toClient[c]))
  BY DEF ClientRecv, kept, loopVars, homeVars
<1>2. /\ user' \in [Client -> UserState]
      /\ \A d \in Client : user[d] # "off" => user'[d] # "off"
  BY <1>1, UserGoesOn DEF HInv, HomeTypes
<1>3. \A d \in Client : HasData(d) => HasData(d)'
  BY <1>1 DEF HasData
<1>4. /\ live' \in [Client -> BOOLEAN] /\ \A d \in Client : live'[d] => live[d]
      /\ fromClient' = [d \in Client |-> fromClient'[d]]
      /\ \A d \in Client : fromClient'[d] \in Seq(ToSet(fromClient'[d]))
  BY <1>1 DEF HInv, HomeTypes
<1>. QED
  BY <1>1, <1>2, <1>3, <1>4, ProgramHInv

\* The connection is closed.
LEMMA CloseHInv ==
    ASSUME HInv, NEW c \in Client, Close(c)
    PROVE  HInv'
<1>1. UNCHANGED kept /\ live' = [live EXCEPT ![c] = FALSE] /\ fromClient' = fromClient
      /\ U!Ends(c)
  BY DEF Close, kept, loopVars, homeVars
<1>2. /\ user' \in [Client -> UserState]
      /\ \A d \in Client : user[d] # "off" => user'[d] # "off"
  BY <1>1, UserGoesOn DEF HInv, HomeTypes
<1>3. live' \in [Client -> BOOLEAN] /\ \A d \in Client : live'[d] => live[d]
  BY <1>1 DEF HInv, HomeTypes
<1>4. \A d \in Client : HasData(d) => HasData(d)'
  BY <1>1, <1>3 DEF HasData
<1>5. /\ fromClient' = [d \in Client |-> fromClient'[d]]
      /\ \A d \in Client : fromClient'[d] \in Seq(ToSet(fromClient'[d]))
  BY <1>1 DEF HInv, HomeTypes
<1>. QED
  BY <1>1, <1>2, <1>3, <1>4, <1>5, ProgramHInv

\* A program that had not started is nowhere; its connection is queued.
LEMMA ConnectHInv ==
    ASSUME HInv, NEW c \in Client, Connect(c)
    PROVE  HInv'
<1>1. /\ UNCHANGED <<rooms, clientToRoomMap, up, pc, readSet, cursor, clients,
                     unauthenticatedClients, currentUnauthenticatedClientId,
                     clientsToRemove, freed, fromClient>>
      /\ user[c] = "off" /\ live' = [live EXCEPT ![c] = TRUE]
      /\ backlog' = Append(backlog, c) /\ user' = [user EXCEPT ![c] = "idle"]
  BY DEF Connect, roomVars, loopVars, homeVars
<1>2. c \notin Home /\ c \notin Roomed /\ c \notin freed /\ c \notin readSet
  BY <1>1 DEF HInv, Gone
<1>3. /\ backlog' \in Seq(Client) /\ Once(backlog') /\ Queued' = Queued \cup {c}
  BY <1>1, <1>2, AppendOnce DEF HInv, HomeTypes, Kept, Queued, Home
<1>4. /\ Ids' = Ids /\ Unauthenticated' = Unauthenticated
      /\ Authenticated' = Authenticated /\ Roomed' = Roomed /\ ToRead' = ToRead
  BY <1>1 DEF Ids, Unauthenticated, Authenticated, Roomed, Listed, ToRead
<1>5. Home' = Home \cup {c}
  BY <1>3, <1>4 DEF Home
<1>6. HomeTypes'
  <2>1. user' \in [Client -> UserState] /\ live' \in [Client -> BOOLEAN]
    BY <1>1 DEF HInv, HomeTypes, UserState, U!UserState
  <2>. QED
    BY <1>1, <1>3, <1>4, <2>1 DEF HInv, HomeTypes, Lists
<1>7. Kept'
  <2>1. Once(clients') /\ Once(backlog') /\ Once(unauthenticatedClients')
    BY <1>1, <1>3 DEF HInv, Kept
  <2>2. up' => \A d \in Client : live'[d] => d \in Home'
    BY <1>1, <1>5 DEF HInv, HomeTypes, Kept
  <2>. QED
    BY <1>2, <1>3, <1>4, <2>1, <2>2 DEF HInv, Kept, Home
<1>8. Gone'
  <2>1. \A d \in Client : d # c => user'[d] = user[d]
    BY <1>1
  <2>2. user'[c] # "off"
    BY <1>1 DEF HInv, HomeTypes
  <2>3. ASSUME NEW d \in Home' \cup Roomed' \cup freed' \cup (readSet' \cap Client)
        PROVE  user'[d] # "off"
    <3>1. CASE d = c
      BY <2>2, <3>1
    <3>2. CASE d # c
      <4>1. user[d] # "off"
        BY <1>1, <1>4, <1>5, <3>2 DEF HInv, Gone
      <4>. QED
        BY <1>1, <3>2, <4>1 DEF HInv, HomeTypes
    <3>. QED
      BY <3>1, <3>2
  <2>. QED
    BY <1>1, <1>2, <1>3, <1>4, <1>5, <2>3 DEF HInv, Gone
<1>9. Loop'
  <2>1. backlog' # <<>>
    <3>1. ToSet(<<>>) = {}
      BY DEF ToSet
    <3>2. c \in ToSet(backlog')
      BY <1>3 DEF Queued
    <3>. QED
      BY <3>1, <3>2
  <2>2. \A d \in Client \ {c} : live'[d] = live[d]
    BY <1>1
  <2>3. \A d \in ToRead' \cap readSet' \cap Client : HasData(d)'
    <3>. SUFFICES ASSUME NEW d \in ToRead' \cap readSet' \cap Client PROVE HasData(d)'
      OBVIOUS
    <3>1. HasData(d) /\ d \in Client \ {c}
      BY <1>1, <1>2, <1>4 DEF HInv, Loop
    <3>. QED
      BY <1>1, <2>2, <3>1 DEF HasData
  <2>4. \A id \in clientsToRemove' : ~live'[unauthenticatedClients'[id]]
    <3>1. \A id \in Ids : unauthenticatedClients[id] \in Client \ {c}
      BY <1>2 DEF HInv, HomeTypes, Home, Unauthenticated
    <3>. QED
      BY <1>1, <2>2, <3>1 DEF HInv, Loop
  <2>. QED
    BY <1>1, <1>4, <2>1, <2>3, <2>4 DEF HInv, Loop
<1>. QED
  BY <1>6, <1>7, <1>8, <1>9 DEF HInv

-----------------------------------------------------------------------------
(* Every step.                                                              *)

\* A step that leaves the vector and the map alone gives nobody up.
LEMMA NobodyLeaves ==
    ASSUME UNCHANGED <<clients, unauthenticatedClients>>
    PROVE  OnlyTheGoneLeave
BY DEF OnlyTheGoneLeave, Authenticated, Unauthenticated, Ids

\* A step of the server keeps the invariant and gives up only who is gone.
LEMMA ServerHInv ==
    ASSUME HInv, ServerStep
    PROVE  HInv' /\ OnlyTheGoneLeave
<1>1. UNCHANGED userVars
  BY DEF ServerStep
<1>2. CASE Select
  BY <1>1, <1>2, SelectHInv, NobodyLeaves DEF Select, homeVars
<1>3. CASE Accept
  BY <1>1, <1>3, AcceptHInv
<1>4. CASE AuthRecv
  BY <1>1, <1>4, AuthRecvHInv
<1>5. CASE ServeClient
  BY <1>1, <1>5, ServeClientHInv
<1>6. CASE ClientsServed
  BY <1>1, <1>6, ClientsServedHInv, NobodyLeaves DEF ClientsServed, homeVars
<1>7. CASE ServeUnauthenticated
  <2>1. UNCHANGED <<clients, unauthenticatedClients>>
    BY <1>7 DEF ServeUnauthenticated
  <2>. QED
    BY <1>1, <1>7, <2>1, ServeUnauthenticatedHInv, NobodyLeaves
<1>8. CASE RemoveInvalid
  BY <1>1, <1>8, RemoveInvalidHInv
<1>. QED
  BY <1>2, <1>3, <1>4, <1>5, <1>6, <1>7, <1>8 DEF ServerStep, Server

\* So does a step of a client program.
LEMMA UserHInv ==
    ASSUME HInv, NEW c \in Client, User(c)
    PROVE  HInv' /\ OnlyTheGoneLeave
<1>1. ASSUME NEW p, SendFrame(c, p) PROVE HInv' /\ OnlyTheGoneLeave
  BY <1>1, SendHInv, NobodyLeaves DEF SendFrame, Send, homeVars
<1>2. CASE Connect(c)
  BY <1>2, ConnectHInv, NobodyLeaves DEF Connect, homeVars
<1>3. CASE AskToLogin(c)
  BY <1>1, <1>3 DEF AskToLogin
<1>4. CASE SendJoin(c)
  BY <1>1, <1>4 DEF SendJoin
<1>5. CASE SendChat(c)
  BY <1>1, <1>5 DEF SendChat
<1>6. CASE SendLeave(c)
  BY <1>1, <1>6 DEF SendLeave
<1>7. CASE ClientRecv(c)
  BY <1>7, ClientRecvHInv, NobodyLeaves DEF ClientRecv, homeVars
<1>8. CASE Close(c)
  BY <1>8, CloseHInv, NobodyLeaves DEF Close, homeVars
<1>. QED
  BY <1>2, <1>3, <1>4, <1>5, <1>6, <1>7, <1>8 DEF User

\* The invariant is inductive.
LEMMA StepHInv ==
    ASSUME HInv, [Next]_vars
    PROVE  HInv' /\ (OnlyTheGoneLeave \/ UNCHANGED vars)
<1>1. CASE ServerStep
  BY <1>1, ServerHInv
<1>2. CASE AuthReply
  BY <1>2, UnseenHInv, NobodyLeaves DEF AuthReply, seen, roomVars, loopVars, homeVars, userVars
<1>3. CASE AuthDown
  BY <1>3, UnseenHInv, NobodyLeaves DEF AuthDown, seen, roomVars, loopVars, homeVars, userVars
<1>4. ASSUME NEW c \in Client, User(c) PROVE HInv' /\ OnlyTheGoneLeave
  BY <1>4, UserHInv
<1>5. CASE UNCHANGED vars
  BY <1>5, UnseenHInv DEF vars, serverVars, seen, loopVars, homeVars, userVars
<1>. QED
  BY <1>1, <1>2, <1>3, <1>4, <1>5 DEF Next

\* It holds throughout.
LEMMA AlwaysHInv == Spec => []HInv
<1>1. HInv /\ [Next]_vars => HInv'
  BY StepHInv
<1>. QED
  BY InitHInv, <1>1, PTL DEF Spec

\* A connected client is in exactly one of the accept queue, the map of the
\* unauthenticated and the vector, once; a closed one in at most one.
THEOREM AlwaysOnePlace == Spec => []OnePlace
<1>1. HInv => OnePlace
  <2>. SUFFICES ASSUME HInv, NEW c \in Client
                PROVE  Places(c) = 1 \/ (~(up /\ live[c]) /\ Places(c) = 0)
    BY DEF OnePlace
  <2>1. /\ Cardinality({i \in DOMAIN backlog : backlog[i] = c})
              = IF c \in Queued THEN 1 ELSE 0
        /\ Cardinality({i \in Ids : unauthenticatedClients[i] = c})
              = IF c \in Unauthenticated THEN 1 ELSE 0
        /\ Cardinality({i \in DOMAIN clients : clients[i] = c})
              = IF c \in Authenticated THEN 1 ELSE 0
    BY OnceCounts, PlacesAreClients DEF HInv, Kept, Queued, Authenticated, Ids
  <2>2. Places(c) = (IF c \in Queued THEN 1 ELSE 0)
                    + (IF c \in Unauthenticated THEN 1 ELSE 0)
                    + (IF c \in Authenticated THEN 1 ELSE 0)
    BY <2>1 DEF Places
  <2>3. Places(c) = IF c \in Home THEN 1 ELSE 0
    <3>1. /\ ~(c \in Queued /\ c \in Unauthenticated)
          /\ ~(c \in Queued /\ c \in Authenticated)
          /\ ~(c \in Unauthenticated /\ c \in Authenticated)
      BY DEF HInv, Kept
    <3>. QED
      BY <2>2, <3>1 DEF Home
  <2>4. up /\ live[c] => c \in Home
    BY DEF HInv, Kept
  <2>. QED
    BY <2>3, <2>4
<1>. QED
  BY <1>1, AlwaysHInv, PTL

\* No container holds a client the server has deleted.
THEOREM AlwaysNoDangling == Spec => []NoDangling
<1>1. HInv => NoDangling
  BY DEF HInv, Gone, NoDangling, Home, Roomed, Listed
<1>. QED
  BY <1>1, AlwaysHInv, PTL

\* No step gives up a client whose connection is open.
THEOREM NeverLiveClientDropped == Spec => NoLiveClientDropped
<1>1. HInv /\ [Next]_vars => [OnlyTheGoneLeave]_vars
  BY StepHInv
<1>. QED
  BY <1>1, AlwaysHInv, PTL DEF Spec, NoLiveClientDropped
=============================================================================
