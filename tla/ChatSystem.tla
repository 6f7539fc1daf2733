----------------------------- MODULE ChatSystem -----------------------------
(***************************************************************************)
(* The chat server composed with its clients and the authentication server. *)
(*                                                                          *)
(* A client is one run of the client program (Client/Client.cpp): it          *)
(* connects, asks its user to log in or register until a login succeeds,     *)
(* sends one request at a time and waits for the result, then joins rooms    *)
(* and sends messages until it leaves, or ends at any point.  The             *)
(* authentication server answers each request it reads with success or       *)
(* failure, or goes away.                                                   *)
(***************************************************************************)
EXTENDS ChatServer

CONSTANTS
    SendCap,    \* frames of one client under way to the server
    May         \* bound: which of the rarer things below happen

ASSUME SystemAssumption == SendCap \in Nat \ {0} /\ May \subseteq {"register", "authDown"}

VARIABLES
    user,        \* what a client program is doing
    typed,       \* the email its user last entered
    currentRoom  \* Client::currentRoom

userVars == <<user, typed, currentRoom>>
vars == <<serverVars, userVars>>

U == INSTANCE ChatUser      \* what each client program does
UserState == U!UserState

TypeOK ==
    /\ rooms \in [DOMAIN rooms -> Seq(Client)] /\ DOMAIN rooms \subseteq RoomOrNone
    /\ DOMAIN clientToRoomMap \subseteq Client
    /\ clientToRoomMap \in [DOMAIN clientToRoomMap -> RoomOrNone]
    /\ name \in [Client -> Name \cup {NoRoom}]
    /\ \A c \in Client : Len(toClient[c]) <= StreamCap /\ Len(fromClient[c]) <= SendCap
    /\ live \in [Client -> BOOLEAN] /\ up \in BOOLEAN /\ authUp \in BOOLEAN
    /\ pc \in {"select", "accept", "auth", "clients", "unauth"}
    /\ readSet \subseteq Client \cup {Listener, AuthLink}
    /\ cursor \in 0 .. currentUnauthenticatedClientId
    /\ clients \in Seq(Client) /\ backlog \in Seq(Client)
    /\ currentUnauthenticatedClientId \in 0 .. Cardinality(Client)
    /\ Ids \subseteq 0 .. currentUnauthenticatedClientId - 1
    /\ Unauthenticated \subseteq Client /\ clientsToRemove \subseteq Ids
    /\ freed \subseteq Client
    /\ Len(toAuth[AuthLink]) <= AuthCap
    /\ Len(fromAuth[AuthLink]) <= Cardinality(Client)
    /\ user \in [Client -> UserState]
    /\ typed \in [Client -> Name \cup {NoRoom}]
    /\ currentRoom \in [Client -> RoomOrNone]

Init ==
    /\ ServerInit
    /\ user = [c \in Client |-> "off"]
    /\ typed = [c \in Client |-> NoRoom]
    /\ currentRoom = [c \in Client |-> NoRoom]

-----------------------------------------------------------------------------
(* The client programs.                                                     *)

\* The frame a client sends; one that finds the stream full is not sent and
\* the program ends, which is the step Close.
Send(c, p) ==
    /\ up /\ live[c] /\ Len(fromClient[c]) < SendCap
    /\ fromClient' = [fromClient EXCEPT ![c] = Append(@, p)]
    /\ UNCHANGED <<rooms, clientToRoomMap, name, toClient, live, up, loopVars, homeVars,
                   backlog, authVars>>

Connect(c) ==
    /\ up /\ user[c] = "off"
    /\ live' = [live EXCEPT ![c] = TRUE]
    /\ backlog' = Append(backlog, c)
    /\ user' = [user EXCEPT ![c] = "idle"]
    /\ UNCHANGED <<roomVars, up, loopVars, homeVars, fromClient, authVars, typed,
                   currentRoom>>

SendFrame(c, p) == U!Sends(c, p) /\ Send(c, p)

AskToLogin(c) == \E e \in Name, p \in Password :
    \/ SendFrame(c, PacketLoginRequest(0, e, p))
    \/ "register" \in May /\ SendFrame(c, PacketRegisterRequest(0, e, p))

SendJoin(c) == \E r \in RoomName : SendFrame(c, PacketJoinRoom(r, typed[c]))
SendChat(c) == \E m \in Message : SendFrame(c, PacketSendMessage(m))
SendLeave(c) == SendFrame(c, PacketLeaveRoom(currentRoom[c], typed[c]))

ClientRecv(c) ==
    /\ live[c] /\ toClient[c] # <<>>
    /\ U!Receives(c, Head(toClient[c]))
    /\ \E k \in RecvCounts(toClient[c]) :
          toClient' = [toClient EXCEPT ![c] = AfterRecv(@, k)]
    /\ UNCHANGED <<rooms, clientToRoomMap, name, live, up, loopVars, homeVars, backlog,
                   fromClient, authVars>>

\* The program ends.  Frames it has sent may still be read, unless the
\* connection is reset.
Close(c) ==
    /\ live[c]
    /\ U!Ends(c)
    /\ live' = [live EXCEPT ![c] = FALSE]
    /\ toClient' = [toClient EXCEPT ![c] = <<>>]
    /\ UNCHANGED <<rooms, clientToRoomMap, name, up, loopVars, homeVars, backlog,
                   fromClient, authVars>>

User(c) == Connect(c) \/ AskToLogin(c) \/ SendJoin(c) \/ SendChat(c) \/ SendLeave(c)
           \/ ClientRecv(c) \/ Close(c)

-----------------------------------------------------------------------------
(* The authentication server, and the system.                               *)

AuthReply ==
    /\ authUp /\ toAuth[AuthLink] # <<>>
    /\ \E ok \in BOOLEAN :
          fromAuth' = [fromAuth EXCEPT ![AuthLink] =
                          Append(@, Result(Head(toAuth[AuthLink]), ok))]
    /\ toAuth' = [toAuth EXCEPT ![AuthLink] = Tail(@)]
    /\ UNCHANGED <<roomVars, live, up, loopVars, homeVars, backlog, fromClient, authUp,
                   userVars>>

AuthDown ==
    /\ authUp /\ "authDown" \in May
    /\ authUp' = FALSE
    /\ UNCHANGED <<roomVars, live, up, loopVars, homeVars, backlog, fromClient, toAuth,
                   fromAuth, userVars>>

ServerStep == Server /\ UNCHANGED userVars

\* Bound: nothing is followed beyond the end of the server process.
Next == up /\ (ServerStep \/ AuthReply \/ AuthDown \/ \E c \in Client : User(c))

Spec == Init /\ [][Next]_vars

\* The system once every client has logged in and been told so, nothing else
\* on its way: a state of Spec that the chat is checked from.
LoggedIn ==
    /\ rooms = [r \in {} |-> <<>>]
    /\ clientToRoomMap = [c \in {} |-> NoRoom]
    /\ typed \in [Client -> Name] /\ name = typed
    /\ toClient = [c \in Client |-> <<>>] /\ fromClient = toClient
    /\ live = [c \in Client |-> TRUE] /\ up = TRUE
    /\ pc = "select" /\ readSet = {} /\ cursor = 0
    /\ clients \in SetToSeqs(Client)
    /\ unauthenticatedClients = [id \in {} |-> <<>>]
    /\ currentUnauthenticatedClientId = Cardinality(Client)
    /\ clientsToRemove = {} /\ freed = {} /\ backlog = <<>>
    /\ LinksInit
    /\ user = [c \in Client |-> "in"]
    /\ currentRoom = [c \in Client |-> NoRoom]

ChatSpec == LoggedIn /\ [][Next]_vars

\* The server's thread runs while it can, the authentication server answers
\* what it has read, and a waiting client polls its socket (Client.cpp:119-175).
FairSpec ==
    /\ Spec
    /\ WF_vars(ServerStep)
    /\ WF_vars(AuthReply)
    /\ \A c \in Client : WF_vars(ClientRecv(c))

-----------------------------------------------------------------------------
(* Where a client is.                                                       *)

Places(c) == Cardinality({i \in DOMAIN backlog : backlog[i] = c})
             + Cardinality({id \in Ids : unauthenticatedClients[id] = c})
             + Cardinality({i \in DOMAIN clients : clients[i] = c})

(* A connected client is in exactly one of the accept queue, the              *)
(* unauthenticated map and the client vector, once: accept, the move on      *)
(* login and the swap-remove of another client never lose or double it.      *)
(* A client whose connection is closed is there at most once.                *)
OnePlace == \A c \in Client : Places(c) = 1 \/ (~(up /\ live[c]) /\ Places(c) = 0)

(* A deleted Client object is referenced by no container (Server.cpp:328-340; *)
(* rooms and the vector keep raw pointers).  The other delete, in ~Server    *)
(* (Server.cpp:21-24), runs when the process ends and is not followed.       *)
NoDangling ==
    freed \cap (Authenticated \cup Unauthenticated \cup DOMAIN clientToRoomMap
                \cup UNION {ToSet(rooms[r]) : r \in DOMAIN rooms}) = {}

(* A client is authenticated only for the account its own user entered: no    *)
(* other client's result, late or not, is taken for it (requestId).          *)
AuthenticatedAsTyped == \A c \in Authenticated : name[c] = typed[c] /\ typed[c] \in Name

(* A client that was told its login succeeded is one the server serves        *)
(* packets of; a client the server serves was told so or has the result      *)
(* ahead of it.                                                              *)
SessionAgrees ==
    \A c \in Client : up /\ live[c] =>
        /\ user[c] \in {"in", "leaving"} => c \in Authenticated
        /\ c \in Authenticated =>
              \/ user[c] \in {"in", "leaving"}
              \/ /\ user[c] = "waiting"
                 /\ toClient[c] # <<>>
                 /\ toClient[c][1] = PacketLoginResult(toClient[c][1].requestId, TRUE, typed[c])

(* Client.cpp:327, "at this point we have nothing to read from the server":    *)
(* while the user is asked to log in, nothing is on its way to the client.   *)
NothingToRead ==
    \A c \in Client : user[c] = "idle" => toClient[c] = <<>>

IdOf(c) == {id \in Ids : unauthenticatedClients[id] = c}

\* The copies of a waiting client's request, or of its result, in the system.
Copy(c) ==
    Cardinality({i \in DOMAIN fromClient[c] : FullFrame(fromClient[c][i])})
    + Cardinality({i \in DOMAIN toAuth[AuthLink] :
                      toAuth[AuthLink][i].requestId \in IdOf(c)})
    + Cardinality({i \in DOMAIN fromAuth[AuthLink] :
                      fromAuth[AuthLink][i].requestId \in IdOf(c)})
    + Cardinality({i \in DOMAIN toClient[c] : FullFrame(toClient[c][i])})

(* The request of a waiting client is somewhere exactly once, as the request  *)
(* or as the result, until the client has the answer; one that is not        *)
(* waiting has none on its way.                                              *)
OneRequestEach ==
    \A c \in Client : up /\ live[c] =>
        Copy(c) = IF user[c] = "waiting" THEN 1 ELSE 0

(* While a client program is in its rooms the server lists it once, in the    *)
(* room of its map entry, although packets sent together are dropped.        *)
RoomsAgreeWhileIn ==
    \A r \in DOMAIN rooms : \A i \in 1 .. Len(rooms[r]) :
        user[rooms[r][i]] = "in" =>
            /\ FindClientRoom(rooms[r][i]) = r
            /\ \A j \in 1 .. Len(rooms[r]) : rooms[r][i] = rooms[r][j] => i = j

(* A message a client has sent is read when the server has its sender in a     *)
(* room, so that the undefined printf of Server.cpp:431 is never reached,    *)
(* although a Join sent together with another packet may be dropped.         *)
SenderInRoom == \A c \in Authenticated :
    fromClient[c] # <<>> /\ Head(fromClient[c]).type = SEND_MESSAGE
        => FindClientRoom(c) \in DOMAIN rooms

OnlyTheGoneLeave ==
    \A c \in Authenticated \cup Unauthenticated :
        c \notin (Authenticated \cup Unauthenticated)' => ~live[c]

(* The server gives up a client only when its connection is closed: no step   *)
(* takes the end of the data of a live connection for the end of the         *)
(* connection (Server.cpp:245-263, 287-301).                                 *)
NoLiveClientDropped == [][OnlyTheGoneLeave]_vars

(* Server.cpp:125 says "Add all client sockets to the read set".               *)
AllClientsWatched == up => Authenticated \cup Unauthenticated \subseteq Watched

(* A client that waits for a result gets one, or its connection or the server  *)
(* is gone.                                                                  *)
Answered == \A c \in Client :
    user[c] = "waiting" ~> user[c] # "waiting" \/ ~up
=============================================================================
