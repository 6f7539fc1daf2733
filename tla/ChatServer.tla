----------------------------- MODULE ChatServer -----------------------------
(***************************************************************************)
(* The event loop of the chat server (Server::Start, Server.cpp:104-344)     *)
(* with the rooms of module Rooms, the connections of its clients and the    *)
(* link to the authentication server.                                       *)
(*                                                                          *)
(* The server is one thread.  pc names the section of the loop it is in;     *)
(* clients and the authentication server act between any two of its steps.   *)
(* A step of the server is what it does for one socket.  The loop blocks in  *)
(* select until a watched socket is readable (its two-second timeout leads   *)
(* through an empty iteration and is left out).  up = FALSE is the server    *)
(* process ended, by one of the breaks of the loop or by a crash.            *)
(***************************************************************************)
EXTENDS Rooms, AuthLinks

CONSTANT FdSetSize   \* FD_SETSIZE: sockets one FD_SET holds, 64 in winsock2.h

Listener == "connectionSocket"

ASSUME LoopAssumption ==
    /\ FdSetSize \in Nat /\ FdSetSize >= 2
    /\ Listener \notin Client /\ AuthLink \notin Client

VARIABLES
    pc,          \* "select", "accept", "auth", "clients" or "unauth"
    readSet,     \* sockets select reported: Client values, Listener, AuthLink
    cursor,      \* the loop variable of the section the server is in
    clients,     \* std::vector<Client*>: authenticated clients
    unauthenticatedClients,               \* std::map<unsigned, Client*>
    currentUnauthenticatedClientId,
    clientsToRemove,  \* unauthedClientsToRemove
    freed,       \* Client objects the server has deleted
    backlog,     \* connections not yet accepted
    fromClient   \* frames a client has sent and the server not read

loopVars == <<pc, readSet, cursor>>
homeVars == <<clients, unauthenticatedClients, currentUnauthenticatedClientId,
              clientsToRemove, freed>>
serverVars == <<rooms, clientToRoomMap, name, toClient, live, up, loopVars, homeVars,
                backlog, fromClient, authVars>>

RoomOrNone == RoomName \cup {NoRoom}

ServerInit ==
    /\ rooms = [r \in {} |-> <<>>]
    /\ clientToRoomMap = [c \in {} |-> NoRoom]
    /\ name = [c \in Client |-> NoRoom]             \* the empty string
    /\ toClient = [c \in Client |-> <<>>]
    /\ live = [c \in Client |-> FALSE]
    /\ up = TRUE
    /\ pc = "select" /\ readSet = {} /\ cursor = 0
    /\ clients = <<>>
    /\ unauthenticatedClients = [id \in {} |-> <<>>]
    /\ currentUnauthenticatedClientId = 0
    /\ clientsToRemove = {} /\ freed = {}
    /\ backlog = <<>>
    /\ fromClient = [c \in Client |-> <<>>]
    /\ LinksInit

Ids == DOMAIN unauthenticatedClients
Unauthenticated == {unauthenticatedClients[id] : id \in Ids}
Authenticated == ToSet(clients)

-----------------------------------------------------------------------------
(* Sections of the loop: select, accept, the authentication server.         *)

\* FD_SET adds the listening socket, the authentication server's, the clients
\* in vector order and the unauthenticated ones in id order, and silently does
\* nothing once the set holds FD_SETSIZE sockets.
Watched ==
    {clients[k] : k \in {j \in 1 .. Len(clients) : 2 + j <= FdSetSize}}
    \cup {unauthenticatedClients[id] :
            id \in {j \in Ids : 2 + Len(clients) + Cardinality({i \in Ids : i <= j})
                                    <= FdSetSize}}

Readable == {c \in Watched : fromClient[c] # <<>> \/ ~live[c]}
            \cup {s \in {Listener} : backlog # <<>>}
            \cup {s \in {AuthLink} : fromAuth[AuthLink] # <<>> \/ ~authUp}

\* The first section at or after the listener's that has something to do; the
\* others test the read set and do nothing.
SectionAfterSelect(reported) ==
    IF Listener \in reported THEN "accept" ELSE
    IF AuthLink \in reported THEN "auth" ELSE "clients"

Select ==
    /\ up /\ pc = "select" /\ Readable # {}
    /\ readSet' = Readable
    /\ pc' = SectionAfterSelect(Readable)
    /\ cursor' = Len(clients)
    /\ UNCHANGED <<roomVars, live, up, homeVars, backlog, fromClient, authVars>>

\* Mutation: the id of a new client is the number of clients waiting.
NewClientFewestId(c) ==
    /\ unauthenticatedClients' =
          [id \in Ids \cup {Cardinality(Ids)} |->
              IF id = Cardinality(Ids) THEN c ELSE unauthenticatedClients[id]]
    /\ UNCHANGED currentUnauthenticatedClientId

NewClient(c) ==
    /\ unauthenticatedClients' =
          [id \in Ids \cup {currentUnauthenticatedClientId} |->
              IF id = currentUnauthenticatedClientId THEN c
              ELSE unauthenticatedClients[id]]
    /\ currentUnauthenticatedClientId' = currentUnauthenticatedClientId + 1

\* accept() may fail when the connection at the head of the queue was reset
\* while it waited; the loop then breaks and the server shuts down.
Accept ==
    /\ up /\ pc = "accept"
    /\ backlog' = Tail(backlog)
    /\ \/ NewClient(Head(backlog)) /\ UNCHANGED up
       \/ /\ ~live[Head(backlog)]
          /\ up' = FALSE
          /\ UNCHANGED <<unauthenticatedClients, currentUnauthenticatedClientId>>
    /\ pc' = SectionAfterSelect(readSet \ {Listener})
    /\ UNCHANGED <<roomVars, live, readSet, cursor, clients, clientsToRemove, freed,
                   fromClient, authVars>>

\* Mutation: the client is told the result and stays where it is.
LoginResultOnlyTold(p) ==
    /\ toClient' = SendToClient(toClient, unauthenticatedClients[p.requestId], p)
    /\ UNCHANGED <<unauthenticatedClients, name, clients>>

\* Header 6, with the client still waiting under the id: on success it moves
\* to clients, and it is told the result either way.
LoginResult(p) ==
    LET c == unauthenticatedClients[p.requestId]
    IN /\ IF p.success
          THEN /\ unauthenticatedClients' =
                      [id \in Ids \ {p.requestId} |-> unauthenticatedClients[id]]
               /\ name' = [name EXCEPT ![c] = p.email]
               /\ clients' = Append(clients, c)
          ELSE UNCHANGED <<unauthenticatedClients, name, clients>>
       /\ toClient' = SendToClient(toClient, c, p)

\* Header 7.
RegisterResult(p) ==
    /\ toClient' = SendToClient(toClient, unauthenticatedClients[p.requestId], p)
    /\ UNCHANGED <<unauthenticatedClients, name, clients>>

\* Mutation: a register result is dropped.
DispatchLoginOnly(p) ==
    IF p.requestId \notin Ids \/ p.type # LOGIN_RESULT
    THEN UNCHANGED <<unauthenticatedClients, name, clients, toClient>>
    ELSE LoginResult(p)

DispatchResult(p) ==
    IF p.requestId \notin Ids              \* the client has left
    THEN UNCHANGED <<unauthenticatedClients, name, clients, toClient>>
    ELSE IF p.type = LOGIN_RESULT THEN LoginResult(p) ELSE RegisterResult(p)

AuthRecv ==
    /\ up /\ pc = "auth"
    /\ \/ /\ fromAuth[AuthLink] # <<>>
          /\ DispatchResult(Head(fromAuth[AuthLink]))
          /\ fromAuth' = [fromAuth EXCEPT ![AuthLink] = Tail(@)]
          /\ UNCHANGED up
       \/ /\ ~authUp                      \* recv returned an error or 0: break
          /\ up' = FALSE
          /\ UNCHANGED <<fromAuth, unauthenticatedClients, name, clients, toClient>>
    /\ pc' = "clients"
    /\ cursor' = Len(clients')
    /\ UNCHANGED <<rooms, clientToRoomMap, live, readSet,
                   currentUnauthenticatedClientId, clientsToRemove, freed, backlog,
                   fromClient, toAuth, authUp>>

-----------------------------------------------------------------------------
(* recv on the socket of a client.                                          *)

\* An error or 0: nothing to read (WSAEWOULDBLOCK, or the end of the stream),
\* or the connection was reset and what it held is lost.
RecvFails(c) == fromClient[c] = <<>> \/ ~live[c]

\* Some frames: the first is left in the buffer for the handlers.
RecvGets(c) ==
    /\ fromClient[c] # <<>>
    /\ \E k \in RecvCounts(fromClient[c]) :
          fromClient' = [fromClient EXCEPT ![c] = AfterRecv(@, k)]

-----------------------------------------------------------------------------
(* Section of the authenticated clients: the vector from its end to its      *)
(* start; a client that left is overwritten by the last one.                 *)

\* PacketManager::HandlePacket; a packet without a handler is only reported.
HandlePacket(c, p) ==
    IF p.type = SEND_MESSAGE
    THEN SendMessage(c, p.message) \/ SendMessageRoomNotFound(c)
    ELSE /\ UNCHANGED up
         /\ IF p.type = JOIN_ROOM THEN JoinRoom(c, p.room, p.name)
            ELSE IF p.type = LEAVE_ROOM THEN LeaveRoom(c, p.room, p.name)
            ELSE UNCHANGED roomVars

\* Mutation: every client is read, readable or not.
EveryClientToServe == 1 .. cursor

\* The positions the loop has still to serve; those of clients select did not
\* report are passed over.
ClientsToServe == {k \in 1 .. cursor : clients[k] \in readSet}

\* Mutation: the last client is not moved into the gap.
PopLast(k) == Front(clients)

SwapRemove(k) == Front(ReplaceAt(clients, k, Last(clients)))

ServeClient ==
    /\ up /\ pc = "clients" /\ ClientsToServe # {}
    /\ LET k == Max(ClientsToServe)
           c == clients[k]
       IN /\ cursor' = k - 1
          /\ \/ /\ RecvGets(c)
                /\ HandlePacket(c, Head(fromClient[c]))
                /\ UNCHANGED clients
             \/ /\ RecvFails(c)
                /\ clients' = SwapRemove(k)
                /\ UNCHANGED <<roomVars, up, fromClient>>
    /\ UNCHANGED <<live, pc, readSet, unauthenticatedClients,
                   currentUnauthenticatedClientId, clientsToRemove, freed, backlog,
                   authVars>>

ClientsServed ==
    /\ up /\ pc = "clients" /\ ClientsToServe = {}
    /\ pc' = "unauth" /\ cursor' = 0
    /\ UNCHANGED <<roomVars, live, up, readSet, homeVars, backlog, fromClient,
                   authVars>>

-----------------------------------------------------------------------------
(* Section of the unauthenticated clients, in id order.                      *)

SendToAuthServer(p) ==
    toAuth' = [toAuth EXCEPT ![AuthLink] = IF Len(@) < AuthCap THEN Append(@, p) ELSE @]

\* Mutation: the request keeps the id the client put in it.
ForwardAsIs(id, p) ==
    IF p.type \in {LOGIN_REQUEST, REGISTER_REQUEST} THEN SendToAuthServer(p)
    ELSE UNCHANGED toAuth

\* Mutation: a request is forwarded again although it is under way.
ForwardTwice(id, p) ==
    IF p.type \in {LOGIN_REQUEST, REGISTER_REQUEST} /\ Len(toAuth[AuthLink]) + 1 < AuthCap
    THEN toAuth' = [toAuth EXCEPT ![AuthLink] =
                       @ \o Copies([p EXCEPT !.requestId = id], 2)]
    ELSE UNCHANGED toAuth

\* Mutation: only login requests are forwarded.
ForwardLogin(id, p) ==
    IF p.type = LOGIN_REQUEST
    THEN SendToAuthServer(PacketLoginRequest(id, p.email, p.password))
    ELSE UNCHANGED toAuth

\* Requests go to the authentication server under the id of the client, any
\* other packet is ignored.
Forward(id, p) ==
    IF p.type = LOGIN_REQUEST
    THEN SendToAuthServer(PacketLoginRequest(id, p.email, p.password))
    ELSE IF p.type = REGISTER_REQUEST
    THEN SendToAuthServer(PacketRegisterRequest(id, p.email, p.password))
    ELSE UNCHANGED toAuth

UnauthToServe == {id \in Ids : id >= cursor /\ unauthenticatedClients[id] \in readSet}

ServeUnauthenticated ==
    /\ up /\ pc = "unauth" /\ UnauthToServe # {}
    /\ LET id == Min(UnauthToServe)
           c == unauthenticatedClients[id]
       IN /\ cursor' = id + 1
          /\ \/ /\ RecvGets(c)
                /\ Forward(id, Head(fromClient[c]))
                /\ UNCHANGED clientsToRemove
             \/ /\ RecvFails(c)
                /\ clientsToRemove' = clientsToRemove \cup {id}
                /\ UNCHANGED <<fromClient, toAuth>>
    /\ UNCHANGED <<roomVars, live, up, pc, readSet, clients, unauthenticatedClients,
                   currentUnauthenticatedClientId, freed, backlog, fromAuth, authUp>>

\* Mutation: the flagged clients are deleted and stay in the map.
DeleteInvalid ==
    /\ up /\ pc = "unauth" /\ UnauthToServe = {}
    /\ freed' = freed \cup {unauthenticatedClients[id] : id \in clientsToRemove \cap Ids}
    /\ clientsToRemove' = {}
    /\ pc' = "select" /\ readSet' = {} /\ cursor' = 0
    /\ UNCHANGED <<roomVars, live, up, clients, unauthenticatedClients,
                   currentUnauthenticatedClientId, backlog, fromClient, authVars>>

\* The end of the iteration: the flagged clients are erased and deleted.
RemoveInvalid ==
    /\ up /\ pc = "unauth" /\ UnauthToServe = {}
    /\ unauthenticatedClients' =
          [id \in Ids \ clientsToRemove |-> unauthenticatedClients[id]]
    /\ freed' = freed \cup {unauthenticatedClients[id] : id \in clientsToRemove \cap Ids}
    /\ clientsToRemove' = {}
    /\ pc' = "select" /\ readSet' = {} /\ cursor' = 0
    /\ UNCHANGED <<roomVars, live, up, clients, currentUnauthenticatedClientId, backlog,
                   fromClient, authVars>>

Server == Select \/ Accept \/ AuthRecv \/ ServeClient \/ ClientsServed
          \/ ServeUnauthenticated \/ RemoveInvalid
=============================================================================
