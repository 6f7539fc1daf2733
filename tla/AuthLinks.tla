----------------------------- MODULE AuthLinks -----------------------------
(***************************************************************************)
(* The connections of the authentication server: the link from the chat      *)
(* server of this system, and those of other programs that speak to it.      *)
(***************************************************************************)
EXTENDS Wire

CONSTANTS
    Password,  \* passwords a user enters
    Peer,      \* connections of other programs
    AuthCap    \* frames the chat server's link holds before send() fails

VARIABLES
    toAuth,    \* frames sent over a connection and not yet read by the server
    fromAuth,  \* frames the server has sent over it and not yet read
    authUp     \* whether the authentication server is running

authVars == <<toAuth, fromAuth, authUp>>

AuthLink == "authServerSocket"      \* Server::authServerSocket
Link == {AuthLink} \cup Peer

ASSUME LinksAssumption == AuthCap \in Nat /\ AuthLink \notin Peer

LinksInit ==
    /\ toAuth = [s \in Link |-> <<>>] /\ fromAuth = [s \in Link |-> <<>>]
    /\ authUp = TRUE

\* What a request handler answers: the request's id and, after a login, its email.
Result(p, ok) == IF p.type = LOGIN_REQUEST
                 THEN PacketLoginResult(p.requestId, ok, p.email)
                 ELSE PacketRegisterResult(p.requestId, ok)
=============================================================================
