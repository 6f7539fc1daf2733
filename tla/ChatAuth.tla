------------------------------ MODULE ChatAuth ------------------------------
(***************************************************************************)
(* The whole system: clients, chat server and authentication server.  The    *)
(* clients and the chat server are those of ChatSystem; its authentication   *)
(* server, which answers anything, is replaced by the loop of AuthServer.    *)
(***************************************************************************)
EXTENDS ChatSystem, AuthServer

\* What users type as their email is, as in AuthServer, plain data.
ASSUME UserEmails == Name \subseteq Email

VARIABLE secret     \* history: the password a client's user last entered

systemVars == <<vars, authServerVars, secret>>

TypeOKWhole ==
    /\ TypeOK
    /\ authPc \in {"accept", "clients"}
    /\ authReadSet \subseteq Link \cup {AuthListener}
    /\ authClients \in Seq(Link) /\ authBacklog \in Seq(Link)
    /\ authCursor \in 0 .. Len(authClients)
    /\ other \in [Link -> {"off", "open", "closed"}]
    /\ DOMAIN accounts \subseteq Key /\ accounts \in [DOMAIN accounts -> Password]
    /\ database \in BOOLEAN
    /\ secret \in [Client -> Password \cup {NoRoom}]

InitWhole == Init /\ AuthServerInit /\ secret = [c \in Client |-> NoRoom]

UserStep(c) ==
    /\ User(c)
    /\ secret' = IF fromClient'[c] # fromClient[c] /\ user'[c] = "waiting"
                 THEN [secret EXCEPT ![c] = Last(fromClient'[c]).password]
                 ELSE secret

\* The chat server and its clients, and the authentication server with its
\* peers, share only the link.
ChatStep ==
    /\ (ServerStep /\ UNCHANGED secret) \/ \E c \in Client : UserStep(c)
    /\ UNCHANGED authServerVars

AuthStep(A) ==
    /\ A
    /\ UNCHANGED <<roomVars, live, up, loopVars, homeVars, backlog, fromClient, userVars,
                   secret>>

AuthLoopStep == AuthStep(AuthLoop)

NextWhole ==
    up /\ (ChatStep \/ AuthLoopStep \/ AuthStep(PeerStep)
           \/ ("authDown" \in May /\ AuthStep(AuthKilled)))

\* The two servers' threads run while they can; waiting clients poll.
SpecWhole ==
    /\ InitWhole /\ [][NextWhole]_systemVars
    /\ WF_systemVars(ServerStep /\ UNCHANGED <<authServerVars, secret>>)
    /\ WF_systemVars(AuthLoopStep)
    /\ \A c \in Client : WF_systemVars(ClientRecv(c) /\ UNCHANGED <<authServerVars, secret>>)

-----------------------------------------------------------------------------
(* A client is authenticated only for an account whose password its own user  *)
(* entered, through both servers, whatever other clients and programs ask    *)
(* meanwhile and whichever statements fail.  This is said of requests whose  *)
(* emails are plain data (PlainEmails, UserEmails): DBUtils.cpp:28 does not  *)
(* escape them, and of others nothing is claimed.                            *)
AuthenticatedOwnsAccount == \A c \in Authenticated :
    /\ typed[c] \in PlainEmail
    /\ Collate[typed[c]] \in DOMAIN accounts
    /\ accounts[Collate[typed[c]]] = secret[c]

\* Where the authentication server has a connection.
LinkPlaces(s) == Cardinality({i \in DOMAIN authClients : authClients[i] = s})
                 + Cardinality({i \in DOMAIN authBacklog : authBacklog[i] = s})

(* The authentication server keeps every open connection, once: removing      *)
(* another one by moving the last into its place loses and doubles none.     *)
LinksKept == \A s \in Link :
    LinkPlaces(s) = 1 \/ (LinkPlaces(s) = 0 /\ ~(authUp /\ other[s] = "open"))

\* The system as the chat server sees it: without the frames of the peers.
WithoutPeers == INSTANCE ChatSystem WITH
    toAuth <- [s \in Link |-> IF s = AuthLink THEN toAuth[s] ELSE <<>>],
    fromAuth <- [s \in Link |-> IF s = AuthLink THEN fromAuth[s] ELSE <<>>]

(* To the chat server and its clients the authentication server is the one of *)
(* ChatSystem, which answers what it has read, in order, or goes away.       *)
ImplementsChatSystem == WithoutPeers!FairSpec
=============================================================================
