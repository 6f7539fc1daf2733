-------------------------- MODULE ChatClientProofs --------------------------
(***************************************************************************)
(* Proofs about the client program, for any words and emails: it acts from   *)
(* the room it told the server, and room names do not go out as messages.    *)
(***************************************************************************)
EXTENDS ChatClient, TLAPS

\* A program that goes on has joined the room it takes itself to be in; one
\* whose Join could not be sent does not go on.
InStep == running => joined = currentRoom

\* The last prompt that was shown fits what the next line will be taken for.
PromptFits ==
    running /\ ~sendEnterMessage =>
        /\ prompt = "room" => currentRoom = NoRoom
        /\ prompt = "newRoom" => roomChange

CInv == InStep /\ PromptFits /\ ActsFromRoomJoined

\* The types of the frames are different headers.
LEMMA Headers ==
    /\ SEND_MESSAGE \notin {JOIN_ROOM, LEAVE_ROOM, LOGIN_REQUEST, REGISTER_REQUEST, NO_FRAME}
    /\ LEAVE_ROOM \notin {JOIN_ROOM, LOGIN_REQUEST, REGISTER_REQUEST, NO_FRAME}
BY DEF SEND_MESSAGE, JOIN_ROOM, LEAVE_ROOM, LOGIN_REQUEST, REGISTER_REQUEST, NO_FRAME

\* The program starts in no room, with nothing sent.
LEMMA InitCInv == Init => CInv
<1> SUFFICES ASSUME Init PROVE CInv
  OBVIOUS
<1>1. InStep /\ PromptFits
  BY DEF Init, InStep, PromptFits
<1>2. outbox.type = NO_FRAME
  BY DEF Init, Nothing
<1> QED BY <1>1, <1>2, Headers DEF CInv, ActsFromRoomJoined

\* A request is not a frame of a room.
LEMMA AskToLoginCInv == ASSUME CInv, AskToLogin PROVE CInv'
<1>1. /\ UNCHANGED <<running, currentRoom, sendEnterMessage, roomChange, prompt, joined>>
      /\ outbox'.type \in {LOGIN_REQUEST, REGISTER_REQUEST, NO_FRAME}
  BY DEF AskToLogin, PacketLoginRequest, PacketRegisterRequest, Nothing
<1> QED BY <1>1, Headers DEF CInv, InStep, PromptFits, ActsFromRoomJoined

\* The line and the escape key change no room and send nothing.
LEMMA EditCInv == ASSUME CInv, running, Edit \/ Escape PROVE CInv'
<1>1. UNCHANGED <<running, currentRoom, outbox, joined>>
  BY DEF Edit, Escape
<1>2. CASE Edit
  BY <1>1, <1>2 DEF Edit, Shown, CInv, InStep, PromptFits, ActsFromRoomJoined
<1>3. CASE Escape
  BY <1>1, <1>3 DEF Escape, CInv, InStep, PromptFits, ActsFromRoomJoined
<1> QED BY <1>2, <1>3

\* A Join packet that is sent makes both sides name the room; one that is not
\* ends the program.
LEMMA JoinCInv ==
    ASSUME CInv, running, NEW r, Join(r), sendEnterMessage' = TRUE
    PROVE  CInv'
<1>1. outbox'.type \in {JOIN_ROOM, NO_FRAME} /\ (running' => joined' = r) /\ currentRoom' = r
  BY DEF Join, SendToServer, PacketJoinRoom, Nothing
<1> QED BY <1>1, Headers DEF CInv, InStep, PromptFits, ActsFromRoomJoined

\* Entering a line joins, leaves or sends from the room that was joined.
LEMMA EnterCInv == ASSUME CInv, running, Enter PROVE CInv'
<1>1. CASE Join(message) /\ sendEnterMessage' = TRUE
  BY <1>1, JoinCInv
<1>2. CASE /\ currentRoom # NoRoom
           /\ outbox' \in {PacketLeaveRoom(currentRoom, name), Nothing}
           /\ running' = FALSE /\ UNCHANGED <<currentRoom, joined>>
  <2>1. joined' # NoRoom /\ joined' = currentRoom
    BY <1>2 DEF CInv, InStep
  <2>2. \/ outbox'.type = NO_FRAME
        \/ outbox'.type = LEAVE_ROOM /\ outbox'.room = currentRoom
    BY <1>2 DEF PacketLeaveRoom, Nothing
  <2> QED BY <1>2, <2>1, <2>2, Headers DEF CInv, InStep, PromptFits, ActsFromRoomJoined
<1>3. CASE /\ currentRoom # NoRoom
           /\ SendToServer(PacketSendMessage(message))
           /\ sendEnterMessage' = TRUE
           /\ UNCHANGED <<currentRoom, roomChange, joined>>
  <2>1. joined' # NoRoom /\ joined' = currentRoom'
    BY <1>3 DEF CInv, InStep
  <2>2. outbox'.type \in {SEND_MESSAGE, NO_FRAME}
    BY <1>3 DEF SendToServer, PacketSendMessage, Nothing
  <2> QED BY <1>3, <2>1, <2>2, Headers DEF CInv, InStep, PromptFits, ActsFromRoomJoined
<1> QED BY <1>1, <1>2, <1>3 DEF Enter

\* Every step preserves the invariant.
LEMMA StepCInv == CInv /\ [Next]_vars => CInv'
<1> SUFFICES ASSUME CInv, [Next]_vars PROVE CInv'
  OBVIOUS
<1>1. CASE AskToLogin
  BY <1>1, AskToLoginCInv
<1>2. CASE HandleResult
  BY <1>2 DEF HandleResult, CInv, InStep, PromptFits, ActsFromRoomJoined
<1>3. CASE Disconnected
  BY <1>3 DEF Disconnected, CInv, InStep, PromptFits, ActsFromRoomJoined
<1>4. CASE HandleKeyboardInput
  BY <1>4, EditCInv, EnterCInv DEF HandleKeyboardInput
<1>5. CASE UNCHANGED vars
  BY <1>5 DEF vars, CInv, InStep, PromptFits, ActsFromRoomJoined
<1> QED BY <1>1, <1>2, <1>3, <1>4, <1>5 DEF Next

(* The client sends messages only from, and leaves only, the room of the last  *)
(* Join packet it sent (Client.cpp:240-303).                                 *)
THEOREM AlwaysActsFromRoomJoined == Spec => []ActsFromRoomJoined
<1>1. CInv => ActsFromRoomJoined
  BY DEF CInv
<1> QED BY <1>1, InitCInv, StepCInv, PTL DEF Spec

\* In step with the prompt, a room name is taken for one.
LEMMA StepPrivate == ASSUME CInv PROVE RoomNameNotSent
<1> SUFFICES ASSUME running, Enter, Shown \in {"room", "newRoom"}
             PROVE  outbox'.type \in {JOIN_ROOM, LEAVE_ROOM, NO_FRAME}
  BY DEF RoomNameNotSent, HandleKeyboardInput
<1>1. currentRoom = NoRoom \/ roomChange
  BY DEF CInv, PromptFits, Shown
<1>2. CASE Join(message)
  BY <1>2 DEF Join, SendToServer, PacketJoinRoom, Nothing
<1>3. CASE outbox' \in {PacketLeaveRoom(currentRoom, name), Nothing}
  BY <1>3 DEF PacketLeaveRoom, Nothing
<1> QED BY <1>1, <1>2, <1>3 DEF Enter

(* A line entered at a prompt for a room name is never sent as a message       *)
(* (Client.cpp:212-317).                                                     *)
THEOREM RoomNamesStayPrivate == Spec => RoomNameStaysPrivate
<1>1. CInv => RoomNameNotSent
  BY StepPrivate
<1> QED BY <1>1, InitCInv, StepCInv, PTL DEF Spec, RoomNameStaysPrivate

-----------------------------------------------------------------------------
(* The program as a client of ChatSystem (module ChatUser).                  *)

\* The account's name is that of the last request, a logged-in client waits for
\* nothing, and one that has sent its Leave packet does not go on.
LoggedInAsAsked == authenticated => name = asked /\ ~waitingForServerResponse
LeavesLast == running => outbox.type # LEAVE_ROOM

UInv == InStep /\ LoggedInAsAsked /\ LeavesLast

\* The program starts logged out, with nothing sent.
LEMMA InitUInv == Init => UInv
<1> SUFFICES ASSUME Init PROVE UInv
  OBVIOUS
<1>1. outbox.type = NO_FRAME
  BY DEF Init, Nothing
<1>2. InStep /\ LoggedInAsAsked
  BY DEF Init, InStep, LoggedInAsAsked
<1> QED BY <1>1, <1>2, Headers DEF UInv, LeavesLast

\* Only a result changes the name; only requests change what was asked.
LEMMA StepUInv == UInv /\ [Next]_vars => UInv'
<1> SUFFICES ASSUME UInv, [Next]_vars PROVE UInv'
  OBVIOUS
<1> USE DEF UInv, InStep, LoggedInAsAsked, LeavesLast
<1>1. CASE AskToLogin
  <2>1. outbox'.type \in {LOGIN_REQUEST, REGISTER_REQUEST, NO_FRAME}
    BY <1>1 DEF AskToLogin, PacketLoginRequest, PacketRegisterRequest, Nothing
  <2> QED BY <1>1, <2>1, Headers DEF AskToLogin
<1>2. CASE HandleResult
  BY <1>2 DEF HandleResult
<1>3. CASE Disconnected
  BY <1>3 DEF Disconnected, loginVars
<1>4. CASE HandleKeyboardInput
  <2>1. UNCHANGED <<authenticated, waitingForServerResponse, name, asked>> /\ running
    BY <1>4 DEF HandleKeyboardInput, loginVars
  <2>2. CASE Edit \/ Escape
    BY <2>1, <2>2 DEF Edit, Escape
  <2>3. CASE Join(message)
    <3>1. outbox'.type \in {JOIN_ROOM, NO_FRAME} /\ (running' => joined' = currentRoom')
      BY <2>3 DEF Join, SendToServer, PacketJoinRoom, Nothing
    <3> QED BY <2>1, <3>1, Headers
  <2>4. CASE running' = FALSE
    BY <2>1, <2>4
  <2>5. CASE SendToServer(PacketSendMessage(message)) /\ UNCHANGED <<currentRoom, joined>>
    <3>1. outbox'.type \in {SEND_MESSAGE, NO_FRAME}
      BY <2>5 DEF SendToServer, PacketSendMessage, Nothing
    <3> QED BY <2>1, <2>5, <3>1, Headers
  <2> QED BY <1>4, <2>2, <2>3, <2>4, <2>5 DEF HandleKeyboardInput, Enter
<1>5. CASE UNCHANGED vars
  BY <1>5 DEF vars, loginVars
<1> QED BY <1>1, <1>2, <1>3, <1>4, <1>5 DEF Next

\* The one entry of a client's function.
LEMMA OneEntry ==
    ASSUME NEW x, NEW y
    PROVE  /\ [c \in {Me} |-> x][Me] = x
           /\ [[c \in {Me} |-> x] EXCEPT ![Me] = y] = [c \in {Me} |-> y]
OBVIOUS

\* A request that cannot be sent ends the program, as one that waits.
LEMMA AskFollows == ASSUME UInv, AskToLogin PROVE ProtocolStep
<1>1. PICK e \in Email, p \in Password :
        /\ outbox' \in {PacketLoginRequest(0, e, p), PacketRegisterRequest(0, e, p), Nothing}
        /\ asked' = IF outbox' = Nothing THEN asked ELSE e
  BY DEF AskToLogin
<1>2. Doing = "idle" /\ joined' = joined
  BY DEF AskToLogin, Doing
<1>3. CASE outbox' = Nothing
  <2>1. Doing' = "gone" /\ asked' = asked
    BY <1>1, <1>3 DEF AskToLogin, Doing
  <2>2. U!Ends(Me)
    BY <1>2, <2>1, OneEntry DEF U!Ends
  <2> QED BY <1>3, <2>2 DEF ProtocolStep
<1>4. CASE outbox' # Nothing
  <2>1. /\ outbox'.type \in {LOGIN_REQUEST, REGISTER_REQUEST}
        /\ outbox'.requestId = 0 /\ outbox'.email = e
    BY <1>1, <1>4 DEF PacketLoginRequest, PacketRegisterRequest
  <2>2. Doing' = "waiting" /\ asked' = e
    BY <1>1, <1>4 DEF AskToLogin, Doing
  <2>3. U!Ask(Me, outbox')
    BY <1>2, <2>1, <2>2, OneEntry DEF U!Ask, LOGIN_REQUEST, REGISTER_REQUEST,
       U!LOGIN_REQUEST, U!REGISTER_REQUEST
  <2> QED BY <2>3 DEF ProtocolStep, U!Sends
<1> QED BY <1>3, <1>4

\* A result logs the program in or lets its user ask again.
LEMMA ResultFollows == ASSUME UInv, HandleResult PROVE ProtocolStep
<1>1. PICK ok \in BOOLEAN, p \in {LOGIN_RESULT, REGISTER_RESULT} :
        IF p = LOGIN_RESULT /\ ok THEN authenticated' = TRUE ELSE UNCHANGED authenticated
  BY DEF HandleResult
<1>2. /\ Doing = "waiting" /\ ~authenticated
      /\ running' /\ ~waitingForServerResponse' /\ UNCHANGED <<asked, joined, outbox>>
  BY DEF HandleResult, Doing, UInv, LoggedInAsAsked
<1>3. CASE p = LOGIN_RESULT
  <2>1. Doing' = IF ok THEN "in" ELSE "idle"
    BY <1>1, <1>2, <1>3 DEF Doing
  <2>2. U!UserAfter(Me, PacketLoginResult(0, ok, asked)) = IF ok THEN "in" ELSE "idle"
    BY <1>2, OneEntry DEF U!UserAfter, PacketLoginResult, LOGIN_RESULT, U!LOGIN_RESULT,
       U!REGISTER_RESULT
  <2>3. U!Receives(Me, PacketLoginResult(0, ok, asked))
    BY <1>2, <2>1, <2>2, OneEntry DEF U!Receives
  <2> QED BY <1>2, <2>3 DEF ProtocolStep
<1>4. CASE p = REGISTER_RESULT
  <2>1. Doing' = "idle"
    BY <1>1, <1>2, <1>4 DEF Doing, LOGIN_RESULT, REGISTER_RESULT
  <2>2. U!UserAfter(Me, PacketRegisterResult(0, ok)) = "idle"
    BY <1>2, OneEntry DEF U!UserAfter, PacketRegisterResult, REGISTER_RESULT, U!LOGIN_RESULT,
       U!REGISTER_RESULT
  <2>3. U!Receives(Me, PacketRegisterResult(0, ok))
    BY <1>2, <2>1, <2>2, OneEntry DEF U!Receives
  <2> QED BY <1>2, <2>3 DEF ProtocolStep
<1> QED BY <1>3, <1>4

\* The end of the connection ends the program.
LEMMA EndFollows == ASSUME UInv, Disconnected PROVE ProtocolStep
<1>1. Doing' = "gone" /\ UNCHANGED <<asked, joined, outbox>>
  BY DEF Disconnected, Doing, UInv, LeavesLast
<1>2. U!Ends(Me)
  BY <1>1, OneEntry DEF U!Ends
<1> QED BY <1>1, <1>2 DEF ProtocolStep

\* A frame of a room is sent in it, under the account's name, or the program ends.
LEMMA EnterFollows ==
    ASSUME UInv, running, authenticated, Enter, UNCHANGED <<loginVars, asked>>
    PROVE  ProtocolStep
<1>1. /\ Doing = "in" /\ name = asked /\ joined = currentRoom
      /\ UNCHANGED <<authenticated, waitingForServerResponse, asked>>
  BY DEF UInv, Doing, InStep, LoggedInAsAsked, loginVars
<1>2. ASSUME running' = FALSE, outbox' = Nothing, joined' = joined PROVE ProtocolStep
  <2>1. Doing' = "gone"
    BY <1>2 DEF Doing, Nothing, NO_FRAME, LEAVE_ROOM
  <2>2. U!Ends(Me)
    BY <1>1, <1>2, <2>1, OneEntry DEF U!Ends
  <2> QED BY <1>2, <2>2 DEF ProtocolStep
<1>3. CASE Join(message)
  <2>1. CASE running'
    <3>1. Doing' = "in" /\ joined' = message /\ outbox' = PacketJoinRoom(message, asked)
      BY <1>1, <1>3, <2>1 DEF Join, SendToServer, Doing
    <3>2. U!Join(Me, outbox')
      BY <1>1, <3>1, OneEntry DEF U!Join, PacketJoinRoom, JOIN_ROOM, U!JOIN_ROOM
    <3> QED BY <3>2 DEF ProtocolStep, U!Sends
  <2>2. CASE ~running'
    BY <1>2, <1>3, <2>2 DEF Join, SendToServer
  <2> QED BY <2>1, <2>2
<1>4. CASE /\ currentRoom # NoRoom
           /\ outbox' \in {PacketLeaveRoom(currentRoom, name), Nothing}
           /\ running' = FALSE /\ UNCHANGED joined
  <2>1. CASE outbox' = PacketLeaveRoom(currentRoom, name)
    <3>1. Doing' = "leaving"
      BY <1>4, <2>1 DEF Doing, PacketLeaveRoom
    <3>2. U!Leave(Me, outbox')
      BY <1>1, <1>4, <2>1, <3>1, OneEntry DEF U!Leave, PacketLeaveRoom, LEAVE_ROOM,
         U!LEAVE_ROOM
    <3> QED BY <3>2 DEF ProtocolStep, U!Sends
  <2>2. CASE outbox' = Nothing
    BY <1>2, <1>4, <2>2
  <2> QED BY <1>4, <2>1, <2>2
<1>5. CASE /\ currentRoom # NoRoom
           /\ SendToServer(PacketSendMessage(message)) /\ UNCHANGED joined
  <2>1. CASE running'
    <3>1. Doing' = "in" /\ outbox' = PacketSendMessage(message)
      BY <1>1, <1>5, <2>1 DEF SendToServer, Doing
    <3>2. U!Chat(Me, outbox')
      BY <1>1, <1>5, <3>1, OneEntry DEF U!Chat, U!userVars, PacketSendMessage,
         SEND_MESSAGE, U!SEND_MESSAGE
    <3> QED BY <3>2 DEF ProtocolStep, U!Sends
  <2>2. CASE ~running'
    BY <1>2, <1>5, <2>2 DEF SendToServer
  <2> QED BY <2>1, <2>2
<1> QED BY <1>3, <1>4, <1>5 DEF Enter

\* Every step of the program is one of a client of ChatSystem, or none.
LEMMA StepFollows ==
    UInv /\ [Next]_vars => [ProtocolStep]_<<U!userVars, outbox>>
<1> SUFFICES ASSUME UInv, [Next]_vars PROVE [ProtocolStep]_<<U!userVars, outbox>>
  OBVIOUS
<1>1. CASE AskToLogin
  BY <1>1, AskFollows
<1>2. CASE HandleResult
  BY <1>2, ResultFollows
<1>3. CASE Disconnected
  BY <1>3, EndFollows
<1>4. CASE HandleKeyboardInput
  <2>1. CASE Enter
    BY <1>4, <2>1, EnterFollows DEF HandleKeyboardInput
  <2>2. CASE Edit \/ Escape
    BY <1>4, <2>2 DEF HandleKeyboardInput, Edit, Escape, Doing, U!userVars, loginVars
  <2> QED BY <1>4, <2>1, <2>2 DEF HandleKeyboardInput
<1>5. CASE UNCHANGED vars
  BY <1>5 DEF vars, loginVars, Doing, U!userVars
<1> QED BY <1>1, <1>2, <1>3, <1>4, <1>5 DEF Next

(* The program does what a client of ChatSystem does, from the login dialogue  *)
(* to the keyboard (Client.cpp:106-368).                                     *)
THEOREM AlwaysFollowsProtocol == Spec => FollowsProtocol
<1>1. Init => Doing = "idle" /\ joined = NoRoom
  BY DEF Init, Doing
<1> QED BY <1>1, InitUInv, StepUInv, StepFollows, PTL DEF Spec, FollowsProtocol
=============================================================================
