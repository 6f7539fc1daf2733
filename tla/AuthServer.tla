----------------------------- MODULE AuthServer -----------------------------
(***************************************************************************)
(* The event loop of the authentication server (AuthServer::Start,           *)
(* AuthServer.cpp:86-186) over the accounts of module Accounts, which the    *)
(* statements of its request handlers implement (module AuthService).        *)
(*                                                                          *)
(* The server is one thread; a step is what the loop does for one socket.    *)
(* select blocks until a socket is readable: the two-second timeout leads    *)
(* through an empty iteration.  The server ends when accept() fails or when  *)
(* it is killed.                                                            *)
(***************************************************************************)
EXTENDS AuthLinks, FiniteSets, FiniteSetsExt

CONSTANTS
    Email, Key, Collate, ShortPassword,   \* as in Accounts
    PlainEmail,                           \* as in AuthService
    PeerAsks                              \* bound: requests peers send

VARIABLES
    authPc,       \* "accept", or "clients": the section of the loop
    authReadSet,  \* what select reported: connections, AuthListener
    authCursor,   \* the loop variable i, plus 1
    authClients,  \* std::vector<AuthClient*> clients
    authBacklog,  \* connections not yet accepted
    other,        \* the other end of a connection: "off", "open" or "closed"
    accounts,     \* the accounts in the database
    database      \* whether the connection to it works

authLoopVars == <<authPc, authReadSet, authCursor, authClients, authBacklog>>
authServerVars == <<authLoopVars, other, accounts, database>>

AuthListener == "connectionSocket"

ASSUME AuthServerAssumption ==
    /\ IsFiniteSet(Peer) /\ AuthListener \notin Link
    /\ Collate \in [PlainEmail -> Key]

\* DBUtils puts emails into its statements as they come (DBUtils.cpp:28, 86, 115):
\* requests, also those of peers, are assumed to carry emails that stay data there.
ASSUME PlainEmails ==
    /\ Email \subseteq PlainEmail
    /\ \A r \in PeerAsks :
          r.type \in {LOGIN_REQUEST, REGISTER_REQUEST} => r.email \in Email

\* The accounts, with a the answer a step gives.
Account(a) == INSTANCE Accounts WITH answer <- a

\* The chat server connects when it starts (Server.cpp:543-586); peers may have
\* connected before.
AuthServerInit ==
    /\ authPc = "clients" /\ authReadSet = {} /\ authCursor = 0
    /\ authClients = <<>>
    /\ \E early \in SUBSET Peer :
          /\ authBacklog \in SetToSeqs({AuthLink} \cup early)
          /\ other = [s \in Link |-> IF s \in {AuthLink} \cup early THEN "open"
                                     ELSE "off"]
    /\ accounts = [k \in {} |-> 0]
    /\ database = TRUE

-----------------------------------------------------------------------------
(* The sections of the loop.                                                *)

AuthReadable ==
    {s \in ToSet(authClients) : toAuth[s] # <<>> \/ other[s] = "closed"}
    \cup {s \in {AuthListener} : authBacklog # <<>>}

\* The positions the loop has still to serve.
LinksToServe == {k \in 1 .. authCursor : authClients[k] \in authReadSet}

AuthSelect ==
    /\ authUp /\ authPc = "clients" /\ LinksToServe = {} /\ AuthReadable # {}
    /\ authReadSet' = AuthReadable
    /\ authPc' = IF AuthListener \in AuthReadable THEN "accept" ELSE "clients"
    /\ authCursor' = Len(authClients)
    /\ UNCHANGED <<authClients, authBacklog, other, accounts, database, authVars>>

\* accept() may fail when the connection was reset while it waited; the loop
\* then breaks and the server ends.
AuthAccept ==
    /\ authUp /\ authPc = "accept"
    /\ authBacklog' = Tail(authBacklog)
    /\ \/ authClients' = Append(authClients, Head(authBacklog)) /\ UNCHANGED authUp
       \/ /\ other[Head(authBacklog)] = "closed"
          /\ authUp' = FALSE
          /\ UNCHANGED authClients
    /\ authPc' = "clients"
    /\ authCursor' = Len(authClients')
    /\ UNCHANGED <<authReadSet, other, accounts, database, toAuth, fromAuth>>

\* What may be answered to a request.
AnswersTo(r) ==
    [kind : {IF r.type = LOGIN_REQUEST THEN "login" ELSE "register"},
     email : {r.email}, password : {r.password},
     result : {"SUCCESS", "INVALID_CREDENTIALS", "ACCOUNT_ALREADY_EXISTS",
               "INVALID_PASSWORD", "INTERNAL_SERVER_ERROR"}]

NeedsNoDatabase(a) == a.result \in {"INTERNAL_SERVER_ERROR", "INVALID_PASSWORD"}

\* A request handler runs its statements, which may lose the database for
\* good, and gives the answer a.
AccountStep(a) ==
    /\ Account(a)!Next
    /\ database \/ (NeedsNoDatabase(a) /\ accounts' = accounts)
    /\ IF a.result = "INTERNAL_SERVER_ERROR" THEN database' \in {database, FALSE}
       ELSE UNCHANGED database

\* What a peer makes of its answers is left out.
SendResult(s, p) ==
    fromAuth' = IF s = AuthLink THEN [fromAuth EXCEPT ![s] = Append(@, p)] ELSE fromAuth

\* Mutation: the result goes to the connection accepted last (acceptSocket).
AnswerLastAccepted(s, r) ==
    IF r.type \in {LOGIN_REQUEST, REGISTER_REQUEST}
    THEN \E a \in AnswersTo(r) :
            /\ AccountStep(a)
            /\ SendResult(Last(authClients), Result(r, a.result = "SUCCESS"))
    ELSE UNCHANGED <<accounts, database, fromAuth>>

\* Mutation: a password that is not the account's is accepted.
AnswerAnyPassword(s, r) ==
    IF r.type = LOGIN_REQUEST /\ Collate[r.email] \in DOMAIN accounts
    THEN SendResult(s, Result(r, TRUE)) /\ UNCHANGED <<accounts, database>>
    ELSE \E a \in AnswersTo(r) :
            AccountStep(a) /\ SendResult(s, Result(r, a.result = "SUCCESS"))

\* PacketManager::HandlePacket; a packet without a handler is only reported.
HandleRequest(s, r) ==
    IF r.type \in {LOGIN_REQUEST, REGISTER_REQUEST}
    THEN \E a \in AnswersTo(r) :
            AccountStep(a) /\ SendResult(s, Result(r, a.result = "SUCCESS"))
    ELSE UNCHANGED <<accounts, database, fromAuth>>

\* Mutation: the last connection is not moved into the gap.
PopLastLink(k) == Front(authClients)

SwapRemoveLink(k) == Front(ReplaceAt(authClients, k, Last(authClients)))

\* Mutation: after a removal the same index is visited again.
Again(k) == k

\* The loop goes down, also after a removal.
Before(k) == k - 1

\* An error or 0 removes the connection, whatever the error
\* (AuthServer.cpp:155): nothing to read, the end of the stream, or a reset
\* that loses what the stream held.
ServeLink ==
    /\ authUp /\ authPc = "clients" /\ LinksToServe # {}
    /\ LET k == Max(LinksToServe)
           s == authClients[k]
       IN /\ authCursor' = Before(k)
          /\ \/ /\ toAuth[s] # <<>>
                /\ HandleRequest(s, Head(toAuth[s]))
                /\ toAuth' = [toAuth EXCEPT ![s] = Tail(@)]
                /\ UNCHANGED authClients
             \/ /\ toAuth[s] = <<>> \/ other[s] = "closed"
                /\ authClients' = SwapRemoveLink(k)
                /\ UNCHANGED <<accounts, database, toAuth, fromAuth>>
    /\ UNCHANGED <<authPc, authReadSet, authBacklog, other, authUp>>

AuthLoop == AuthSelect \/ AuthAccept \/ ServeLink

-----------------------------------------------------------------------------
(* The other programs.                                                      *)

PeerConnect(s) ==
    /\ authUp /\ other[s] = "off"
    /\ other' = [other EXCEPT ![s] = "open"]
    /\ authBacklog' = Append(authBacklog, s)
    /\ UNCHANGED <<authPc, authReadSet, authCursor, authClients, accounts, database,
                   authVars>>

\* One request at a time.
PeerAsk(s) == \E r \in PeerAsks :
    /\ authUp /\ other[s] = "open" /\ toAuth[s] = <<>>
    /\ toAuth' = [toAuth EXCEPT ![s] = <<r>>]
    /\ UNCHANGED <<authServerVars, fromAuth, authUp>>

PeerClose(s) ==
    /\ other[s] = "open"
    /\ other' = [other EXCEPT ![s] = "closed"]
    /\ UNCHANGED <<authLoopVars, accounts, database, authVars>>

PeerStep == \E s \in Peer : PeerConnect(s) \/ PeerAsk(s) \/ PeerClose(s)

\* The process is killed.
AuthKilled ==
    /\ authUp
    /\ authUp' = FALSE
    /\ UNCHANGED <<authServerVars, toAuth, fromAuth>>
=============================================================================
