----------------------------- MODULE ChatClient -----------------------------
(***************************************************************************)
(* The client program (Client/Client.cpp): the loop that asks for a login     *)
(* until one succeeds and then reads the keyboard, and the handlers of the    *)
(* results.  A step is what one iteration does for the keyboard or for the   *)
(* socket.  The user types anything at any time; the line being edited is a   *)
(* word, since only the whole line matters.                                 *)
(***************************************************************************)
EXTENDS Wire

CONSTANTS
    Word,      \* lines a user may type: room names, messages, ...
    NoRoom,    \* ... the empty line
    LeaveWord, \* ... and "leave"
    Email, Password

ASSUME WordAssumption == {NoRoom, LeaveWord} \subseteq Word

VARIABLES
    running, authenticated, waitingForServerResponse,
    name,              \* Client::name
    currentRoom,       \* Client::currentRoom
    message,           \* the line being edited
    sendEnterMessage,  \* whether a prompt is to be shown
    roomChange,        \* whether the next line is a room name
    prompt,            \* the last prompt shown: "", "room", "message" or "newRoom"
    outbox,            \* the last frame sent
    joined,            \* history: the room of the last Join packet sent
    asked              \* history: the email of the last request sent

loginVars == <<authenticated, waitingForServerResponse, name>>
vars == <<running, loginVars, currentRoom, message, sendEnterMessage, roomChange, prompt,
          outbox, joined, asked>>

NO_FRAME == 8            \* no packet has this header
Nothing == [type |-> NO_FRAME]

Init ==
    /\ running = TRUE /\ authenticated = FALSE /\ waitingForServerResponse = FALSE
    /\ name = NoRoom
    /\ currentRoom = NoRoom /\ message = NoRoom
    /\ sendEnterMessage = TRUE /\ roomChange = FALSE
    /\ prompt = "" /\ outbox = Nothing /\ joined = NoRoom /\ asked = NoRoom

\* SendToServer: a frame that cannot be sent ends the program.
SendToServer(p) == \/ outbox' = p /\ running' = TRUE
                   \/ outbox' = Nothing /\ running' = FALSE

\* Login and Register ignore a failed send and wait for an answer; the socket is
\* closed then and the next select() ends the program.
AskToLogin == \E e \in Email, p \in Password :
    /\ running /\ ~authenticated /\ ~waitingForServerResponse
    /\ outbox' \in {PacketLoginRequest(0, e, p), PacketRegisterRequest(0, e, p), Nothing}
    /\ waitingForServerResponse' = TRUE
    /\ asked' = IF outbox' = Nothing THEN asked ELSE e
    /\ UNCHANGED <<running, authenticated, name, currentRoom, message, sendEnterMessage,
                   roomChange, prompt, joined>>

\* A result is received, with the email of the request if it is a login's
\* (SessionAgrees of ChatSystem).
HandleResult == \E ok \in BOOLEAN, p \in {LOGIN_RESULT, REGISTER_RESULT} :
    /\ running /\ waitingForServerResponse /\ outbox # Nothing
    /\ waitingForServerResponse' = FALSE
    /\ IF p = LOGIN_RESULT /\ ok
       THEN authenticated' = TRUE /\ name' = asked
       ELSE UNCHANGED <<authenticated, name>>
    /\ UNCHANGED <<running, currentRoom, message, sendEnterMessage, roomChange, prompt,
                   outbox, joined, asked>>

\* The server closes the connection or resets it, or select() fails.  After any
\* other error of recv() the loop goes on with an empty buffer, which changes
\* nothing.
Disconnected ==
    /\ running /\ running' = FALSE
    /\ UNCHANGED <<loginVars, currentRoom, message, sendEnterMessage, roomChange, prompt,
                   outbox, joined, asked>>

-----------------------------------------------------------------------------
(* HandleKeyboardInput: the prompt, then the key.                            *)

Shown == IF ~sendEnterMessage THEN prompt
         ELSE IF currentRoom = NoRoom THEN "room" ELSE "message"

\* No key, a character or a backspace: the line changes.
Edit ==
    /\ message' \in Word
    /\ sendEnterMessage' = FALSE /\ prompt' = Shown
    /\ UNCHANGED <<running, currentRoom, roomChange, outbox, joined>>

\* Mutation: the escape key only clears the line.
EscapeClears ==
    /\ message' = NoRoom
    /\ sendEnterMessage' = FALSE /\ prompt' = "newRoom"
    /\ UNCHANGED <<running, currentRoom, roomChange, outbox, joined>>

Escape ==
    /\ message' = NoRoom
    /\ roomChange' = TRUE
    /\ sendEnterMessage' = FALSE /\ prompt' = "newRoom"
    /\ UNCHANGED <<running, currentRoom, outbox, joined>>

\* Mutation: a room change is not remembered.
JoinKeepsRoom(r) ==
    /\ SendToServer(PacketJoinRoom(r, name))
    /\ joined' = IF running' THEN r ELSE joined
    /\ currentRoom' = IF currentRoom = NoRoom THEN r ELSE currentRoom

Join(r) ==
    /\ SendToServer(PacketJoinRoom(r, name))
    /\ joined' = IF running' THEN r ELSE joined
    /\ currentRoom' = r

Enter ==
    /\ message' = NoRoom
    /\ prompt' = Shown
    /\ \/ /\ currentRoom = NoRoom
          /\ Join(message)
          /\ sendEnterMessage' = TRUE
          /\ UNCHANGED roomChange
       \/ /\ currentRoom # NoRoom /\ roomChange /\ message = LeaveWord
          /\ outbox' \in {PacketLeaveRoom(currentRoom, name), Nothing}
          /\ running' = FALSE /\ roomChange' = FALSE
          /\ sendEnterMessage' = FALSE
          /\ UNCHANGED <<currentRoom, joined>>
       \/ /\ currentRoom # NoRoom /\ roomChange /\ message # LeaveWord
          /\ roomChange' = FALSE
          /\ Join(message)
          /\ sendEnterMessage' = TRUE
       \/ /\ currentRoom # NoRoom /\ ~roomChange
          /\ SendToServer(PacketSendMessage(message))
          /\ sendEnterMessage' = TRUE
          /\ UNCHANGED <<currentRoom, roomChange, joined>>

\* Mutation: the keyboard is read also before the login.
KeyboardAnyTime ==
    /\ running
    /\ Edit \/ Escape \/ Enter
    /\ UNCHANGED <<loginVars, asked>>

HandleKeyboardInput ==
    /\ running /\ authenticated
    /\ Edit \/ Escape \/ Enter
    /\ UNCHANGED <<loginVars, asked>>

Next == AskToLogin \/ HandleResult \/ Disconnected \/ HandleKeyboardInput

Spec == Init /\ [][Next]_vars

-----------------------------------------------------------------------------
(* What the user and the server may rely on.                                *)

\* What entering a line sends when the prompt was one for a room name.
RoomNameNotSent ==
    HandleKeyboardInput /\ Enter /\ Shown \in {"room", "newRoom"}
        => outbox'.type \in {JOIN_ROOM, LEAVE_ROOM, NO_FRAME}

(* A line typed after "Enter the room you'd like to join" or "Enter Room Name"  *)
(* is never broadcast as a chat message.                                     *)
RoomNameStaysPrivate == [][RoomNameNotSent]_vars

(* The client sends messages only from, and leaves only, the room of the last  *)
(* Join packet it sent: the assumption the server's maps stay in step under. *)
ActsFromRoomJoined ==
    outbox.type \in {SEND_MESSAGE, LEAVE_ROOM} =>
        /\ joined # NoRoom
        /\ outbox.type = LEAVE_ROOM => outbox.room = joined

\* What the program is doing: a send that failed has closed its socket.
Doing ==
    IF ~running THEN IF outbox.type = LEAVE_ROOM THEN "leaving" ELSE "gone"
    ELSE IF authenticated THEN "in"
    ELSE IF ~waitingForServerResponse THEN "idle"
    ELSE IF outbox = Nothing THEN "gone" ELSE "waiting"

Me == "me"
U == INSTANCE ChatUser WITH
    Client <- {Me},
    user <- [c \in {Me} |-> Doing],
    typed <- [c \in {Me} |-> asked],
    currentRoom <- [c \in {Me} |-> joined]

\* A step of a client of ChatSystem: a frame that is sent is the last one.
ProtocolStep ==
    \/ U!Sends(Me, outbox')
    \/ \E ok \in BOOLEAN :
          /\ \/ U!Receives(Me, PacketLoginResult(0, ok, asked))
             \/ U!Receives(Me, PacketRegisterResult(0, ok))
          /\ UNCHANGED outbox
    \/ /\ U!Ends(Me)
       /\ outbox' \in {outbox, Nothing}

(* The program does what a client of ChatSystem does: packets for the room    *)
(* only once it is logged in, under the account's name; messages only from   *)
(* and Leave only for the room joined last; one request at a time.           *)
FollowsProtocol ==
    /\ Doing = "idle" /\ joined = NoRoom
    /\ [][ProtocolStep]_<<U!userVars, outbox>>

(* Client.cpp:224 tells the user "Press 'esc' to Change Room OR Enter Message": *)
(* a line entered at that prompt, with no escape since, is a chat message.   *)
EnteredMessageIsSent ==
    [][HandleKeyboardInput /\ Enter /\ Shown = "message"
          => outbox'.type \in {SEND_MESSAGE, NO_FRAME}]_vars
=============================================================================
