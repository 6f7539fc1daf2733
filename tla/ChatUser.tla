------------------------------ MODULE ChatUser ------------------------------
(***************************************************************************)
(* What the client programs send and when, without their keyboards and       *)
(* prompts: the clients of ChatSystem, and what ChatClient implements.       *)
(*                                                                          *)
(* A program asks its user to log in or register until a login succeeds,     *)
(* sends one request at a time and waits for the result, then joins rooms    *)
(* and sends messages from the room it joined last, until it leaves or ends. *)
(***************************************************************************)
EXTENDS Wire

CONSTANTS Client, NoRoom

VARIABLES
    user,        \* what a client program is doing
    typed,       \* the email its user last entered
    currentRoom  \* Client::currentRoom

userVars == <<user, typed, currentRoom>>

UserState == {"off", "idle", "waiting", "in", "leaving", "gone"}

\* Login and Register: the request carries the id 0.
Ask(c, p) ==
    /\ user[c] = "idle"
    /\ p.type \in {LOGIN_REQUEST, REGISTER_REQUEST} /\ p.requestId = 0
    /\ typed' = [typed EXCEPT ![c] = p.email]
    /\ user' = [user EXCEPT ![c] = "waiting"]
    /\ UNCHANGED currentRoom

Join(c, p) ==
    /\ user[c] = "in"
    /\ p.type = JOIN_ROOM /\ p.name = typed[c]
    /\ currentRoom' = [currentRoom EXCEPT ![c] = p.room]
    /\ UNCHANGED <<user, typed>>

Chat(c, p) ==
    /\ user[c] = "in" /\ currentRoom[c] # NoRoom
    /\ p.type = SEND_MESSAGE
    /\ UNCHANGED userVars

Leave(c, p) ==
    /\ user[c] = "in" /\ currentRoom[c] # NoRoom
    /\ p.type = LEAVE_ROOM /\ p.room = currentRoom[c] /\ p.name = typed[c]
    /\ user' = [user EXCEPT ![c] = "leaving"]
    /\ UNCHANGED <<typed, currentRoom>>

\* The program sends the frame p.
Sends(c, p) == Ask(c, p) \/ Join(c, p) \/ Chat(c, p) \/ Leave(c, p)

\* What the handlers make of a received frame; those of the room frames print,
\* and a result ends a wait.
UserAfter(c, p) ==
    IF user[c] # "waiting" \/ p.type \notin {LOGIN_RESULT, REGISTER_RESULT} THEN user[c]
    ELSE IF p.type = LOGIN_RESULT /\ p.success THEN "in" ELSE "idle"

\* The iteration that sent a Leave packet still receives; the bound on how often
\* is left out.
Receives(c, p) ==
    /\ user[c] \in {"waiting", "in", "leaving"}
    /\ user' = [user EXCEPT ![c] = UserAfter(c, p)]
    /\ UNCHANGED <<typed, currentRoom>>

Ends(c) ==
    /\ user' = [user EXCEPT ![c] = "gone"]
    /\ UNCHANGED <<typed, currentRoom>>
=============================================================================
