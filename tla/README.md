# Verification of the chat system (Server, Client, Authentication, NetworkUtils)

TLA+ models of the three programs and of the packets between them, TLC
configurations that check them on small instances, and theorems proved with
TLAPS for every value of the constants. `PROJECT.json` maps each definition to
the source lines it stands for.

## 1. The system

```
 Client program  --TCP-->  chat Server  --TCP-->  Authentication server --> MySQL
  (keyboard)     <--TCP--   (one thread)  <--TCP--    (one thread)
```

| Component | State | Operations | Modules |
|---|---|---|---|
| Rooms (`Server.cpp:402-513`, three packet handlers) | `rooms`, `clientToRoomMap`, `Client::name` | JoinRoom, LeaveRoom, send a message, broadcast | `Rooms`, `RoomRegistry`; abstract: `Lobby` |
| Chat server loop (`Server.cpp:104-344`) | `clients`, `unauthenticatedClients`, the id counter, `unauthedClientsToRemove`, the read set and the loop position | select, accept, dispatch a result, serve a client, forward a request, remove | `ChatServer`, composed in `ChatSystem` |
| Client program (`Client.cpp`) | `authenticated`, `waitingForServerResponse`, `currentRoom`, the line, the prompt flags | log in / register, keys, receive, end | `ChatClient` (one, in detail); abstract: `ChatUser`, the clients of `ChatSystem` |
| Packets and buffer (`NetworkUtils/`) | byte array, length, read and write index | write int/string, grow, read, clear | `Buffer`; as records `Wire` |
| Accounts (`DBUtils.cpp`, request handlers) | tables `user`, `web_auth`, the connection | AuthenticateAccount, CreateAccount, statement by statement | `AuthService`; abstract: `Accounts` |
| Authentication server loop (`AuthServer.cpp`) | its client vector, the read set and the loop position | select, accept, answer a request, remove a connection | `AuthServer` over `AuthLinks` and `Accounts`, composed in `ChatAuth`; abstract: `AuthReply` and `AuthDown` of `ChatSystem` |

How they interact: a client's request goes to the chat server, which puts the
id of the unauthenticated client into it and forwards it; the result comes
back under that id, moves the client to `clients` if it is a successful login,
and is passed on. From then on the client's packets go to the room handlers,
which broadcast to the members' sockets. All sockets are non-blocking, a
failed send is only printed, and every receiver handles the first packet of
what one `recv` returned and clears the rest.

What makes it hard: clients act between any two steps of the server; packets
sent together are dropped; sends fail when a stream is full; connections end
at any time; results come late; the loop removes from containers it walks;
raw pointers to clients stay in three containers; SQL statements commit one by
one; the database connection and the authentication server may be lost.

What makes each component correct:

- rooms: the two maps describe one assignment of clients to rooms; a message
  reaches the others in the sender's room and nobody else;
- loop: a connected client is in one container once; a freed object is in none;
  a client is authenticated for what its own user typed; no client is dropped
  while its connection is open;
- request/answer: each request has one answer, which arrives;
- authentication server: every open connection is kept once; whoever is
  authenticated entered the password of an account, whatever other programs ask
  (for emails that are plain data, section 5);
- buffer: no write outside the array; what is read is what was written;
- accounts: requests look atomic; a confirmed account is never forgotten;
- client: lines go where the prompt said.

## 2. Modules

- `Wire`: headers (`Packet.h:15-22`), packets as records, and what `recv`
  (`RecvCounts`) and `send` (`Deliver`) do with frames of a stream.
- `Rooms`: the maps and the handlers as actions. Used by both of the next two.
- `RoomRegistry`: the handlers under the most general environment (`Spec`: any
  client, any packet, any time) and under clients that leave only the room they
  are in (`InSyncSpec`). `Lobby` is what this promises: a client has a room or
  none, and each step posts one notice to each occupant. The refinement mapping
  takes `room` to `FindClientRoom`.
- `ChatServer`: `pc` is the section of the loop, a step is what the loop does
  for one socket, `cursor` its loop variable. Sections whose socket is not in
  the read set are skipped in the step before.
- `ChatUser`: what a client program sends and when, without its keyboard
  (`user` is what the program is doing). An action constraint on frames: the
  system supplies the streams. A program that leaves still receives, as the
  iteration in which it sent its Leave packet does (`Client.cpp:131-174`); that it
  does so only once is left out, which allows more.
- `AuthLinks`: the connections of the authentication server, with the link of
  the chat server among them, and the fields of an answer.
- `ChatSystem`: `ChatServer` with clients that follow `ChatUser`, their streams,
  and an authentication server that answers each request as it likes, in order,
  or goes away.
- `AuthServer`: the loop of the authentication server, one socket a step. Each
  request is one step of `Accounts`, the specification the SQL statements are
  shown to implement (`ServiceImplementsAccounts`): the process is one thread and
  alone with its tables, so nothing of the system acts on them between two
  statements. Connections of other programs (`Peer`) ask and reset as they like.
- `ChatAuth`: `ChatSystem` with `AuthServer` in the place of its authentication
  server, and, as the property `ImplementsChatSystem`, that the chat server and
  its clients cannot tell the difference. `secret` is a history of the password a
  user entered.
- `ChatClient`: one client program, key by key; `prompt` is the last prompt
  shown, `joined` a history of the last Join packet and `asked` of the last
  email. It implements `ChatUser` (`FollowsProtocol`): what the system models
  take a client to do is what the program with its flags and prompts does.
- `Buffer`: a sender that inserts byte by byte and a receiver that parses.
  Bytes never written are `Uninit`; reading one, or leaving the array, leads to
  the state "undefined".
- `AuthService`: `at` is the SQL statement that comes next; `told` is a history
  of confirmed registrations. `Accounts` is its abstract specification: a map
  from emails to passwords, none of them short, answered atomically.
- `MC*`: instances for TLC (symmetry sets, value sets).
- `*Proofs`: theorems. Each extends the module it is about; `WireProofs` holds the
  lemmas on streams, sequences and swap-remove, and `ChatSystemProofs`,
  `ChatSessionProofs` and `ChatAuthProofs` extend one another in this order, as
  each invariant is proved with those before it.

Operators under the comment "Mutation" are faulty versions of the definition
that follows; each property is known to reject one of them (`mutants` in
`PROJECT.json`).

## 3. Runs

| Run (`MC..._<run>.cfg`) | Question | Instance |
|---|---|---|
| RoomRegistry general | Does the map stay backed by the lists and does a message reach the room, whatever clients send? | 3 clients, 2 rooms, streams of 1 frame, 4 list entries |
| RoomRegistry insync | Do the maps agree, and do the rooms implement `Lobby`? | 3 clients, 2 rooms, streams of 2 frames |
| RoomRegistry emptyname | Finding: the empty room name | 2 clients, rooms "" and r1 |
| ChatSystem login | Where is each client, and who is it? | 3 connections, 2 accounts, authentication server may go |
| ChatSystem chat | Do lists and map agree although packets are dropped, and is a sender in a room? | 2 clients logged in, 2 rooms, 2 packets under way each |
| ChatSystem answer | Is each request answered once? | 2 clients, login and register, fairness |
| ChatSystem fdset | Finding: more sockets than an FD_SET holds | FD_SETSIZE 3 |
| Buffer packets | Is it within bounds, and read back? | char of 16 values, receiver of 32 bytes, strings of 0-13 |
| AuthService accounts | Do accounts survive failing statements, lost connections, restarts? | 3 spellings of 2 emails, 3 passwords, 3 user ids |
| ChatAuth system | Do both servers together keep their connections, authenticate only the owner of an account (plain emails), and answer as `ChatSystem` says? | 1 client, 1 peer, 2 valid passwords and a short one, database and server may be lost |
| ChatClient keyboard | Do lines go where they should, and does the program follow `ChatUser`? | 4 words, every order of keys |
| ChatClient prompt | Finding: escape before the first room | the same |

Why the bounds are enough. Three clients are a sender, a member whose send
fails and one after it; or the client removed, the one moved into its place
and one already served. Two rooms are the old and the new one. A stream of one
frame makes every second send fail; two let a room change (leave and join
notice) arrive whole. `EntryCap` bounds the entries of all lists together:
four put three clients in a room and one of them in the other too, which only
out-of-sync clients do. `SendCap = 2` is enough for two packets in one `recv`.
`FdSetSize = 64` elsewhere is never reached. `chat` starts from `LoggedIn`, a
state of `Spec`, so that the room part is explored with more packets; the
login part is explored by `login` from the start. `packets` scales a char to
16 values: strings of 8 and more characters are those whose length is not read
back (128 and more in the code) and frames pass the receiver's length.
`MaxUserId = 3` allows a failed registration before each of two accounts.
`system` has one client, whose user may try both valid passwords, and a peer
that registers the same email with one of them; two clients are beyond five
minutes there, and what they do to each other is the subject of `login`. The
authentication server has two connections, so that either is the one removed
and the one moved into the gap; a third is not needed, as it would be a second
bystander. A peer has one request under way (`PeerAsks` are the requests).
`May` switches register requests and the loss of the authentication server;
each is on in some run. The modules that may stop (a server that ended, a
client that ended) turn deadlock checking off; `accounts` keeps it.

Fairness (`FairSpec` of `ChatSystem`): weak fairness of the server's steps
(its thread runs on, and `select` returns while a socket is readable), of the
authentication server's answers (its loop serves each readable socket and
`DBUtils` returns from every path), and of a client's receiving (its loop
polls the socket, `Client.cpp:119-175`). Nothing is assumed of users: they may
never act or end at any time. With these, `Answered` says that a waiting
client gets its answer or the server or the connection ends. That the clients are
told when the server ends is not part of it: the models stop there. `SpecWhole` of `ChatAuth`
has the same fairness with that of the authentication server's loop in the place
of `AuthReply`'s: its thread runs on and selects while a socket is readable.
Fairness of the answers is then part of what `ImplementsChatSystem` shows: the
loop visits all connections from the end of its vector to its start, so no
connection of a peer keeps the link from its turn.

### Findings

1. `JoinRoom` with the empty room name leaves the client listed in two rooms
   and mapped to "" (`Server.cpp:461`; the comment at `Server.h:62`). The
   client's room prompt accepts an empty line.
2. Sockets past the 64th are not in the read set (`Server.cpp:128`, comment at
   125).
3. Escape pressed before the first room is joined turns the first chat message
   into a room change (`Client.cpp:308`, prompt at 224).

Two remarks that are no disagreements: `maxStringSize` (`Buffer.cpp:8`) is used
nowhere, and `ReadInt` mis-reads lengths from 128 on.
`PacketSendMessageHandler.cpp:18` speaks of "all clients except for the
sender"; the call reaches the sender's room, which is what `Lobby` states.

## 4. What is proved

`RoomRegistryProofs`, from the assumptions on `StreamCap` and `EntryCap` only:

- `TypeCorrect`: `Spec => []TypeOK`. `TypeOK` is inductive; the lemmas say what
  `RemoveFirst`, `Deliver` and the map updates return.
- `MapAlwaysBacked`: `Spec => []MapImpliesMember`. Inductive with `TypeOK`. The
  point is `LeaveRoom`: it erases one list entry, of the client whose map entry
  it erases too, so entries of others keep their backing.
- `RoomsAlwaysConsistent`: `InSyncSpec => []RoomConsistent` provided the empty
  name is not a room name, the assumption the finding above violates. The
  invariant is that each list entry is the map's and occurs once ("exact") and
  each map entry is listed ("backed"): a join first leaves the one room that
  lists the client, so the new entry is its only one.
- `MessagesHeard` (`Spec => HeardInRoom`): by `MapAlwaysBacked` a client mapped to the sender's room occurs on its list, so
  the broadcast delivers at least one copy behind what the stream holds.
- `RoomsImplementLobby` (`InSyncSpec => ImplementsLobby`), with the empty name
  excluded likewise. In consistent maps a
  client occurs once on the list of its room and on no other (`OnceInRoom`), so
  a broadcast delivers one copy or none; consecutive deliveries to one stream
  are a delivery of all their frames, since what does not fit never comes to fit
  by what is sent after it (`FitTwice`). Joining is shown by way of the maps
  between its leave and its join. The invariant is that of
  `RoomsAlwaysConsistent` with `Short`: no stream exceeds its bound, without
  which the sender's own stream, that a message does not touch, would not be
  the lobby's.

`BufferProofs`, for every char size, buffer length and set of strings:

- `NeverPastTheEnd` (`WithinBuffer`) and `FramesBounded` (`FrameAtMostDoubles`).
  The invariant adds that the buffer is one (`IsBuffer`: array domain, positive
  length, write index within it). Since bytes are inserted at the write index,
  a doubling happens exactly when the index equals the length; the length is
  then less than twice what will have been written. A chat buffer starts at
  `GetSize`, which is positive and less than the content.
- `AlwaysReadBack` (`ReadBack`), if a char has 16 values or more: a header, at most
  7, must be below half its range, as `ReadInt` extends the sign of each byte over
  the bytes above it. The invariant `RInv` says how far the packet under way has
  come: what of `Serialize` is in the array and what is still to be inserted
  (`Writing`), the whole of it at the start of the frame sent (`UnderWay`) and of
  the receiver's array (`Reading`), where the read index stands at the offset of
  the next field. `PacketBytes` says where `Serialize` puts each field,
  `ReadSmallInt` that a small int is read back, and `FieldReadBack` joins the two.
  One recv takes the frame because of `FramesBounded`. The garbage behind the
  packet is never looked at, and `Clear` starts the next one at index 0.

`AuthServiceProofs`, for any emails that are plain data (`PlainEmails`), any collation,
passwords and number of ids:

- `ServiceTypeCorrect` and `AccountsAlwaysOwnUsers`. The invariant follows the
  id of a registration: ids in the table are below the AUTO_INCREMENT value, and
  between the two inserts the id held in `lastInsertId` and then `userId` is a
  row no account has (`FreshId`). Any failure drops that id.
- `SuccessAlwaysNamesUser`, `AccountsNeverForgotten` and
  `ServiceImplementsAccounts` (`Spec => ImplementsAccounts`). The invariant
  `JInv` adds to the one above that a login past its first statement has found
  a row its password verifies against (`Verified`), that the statements of
  registrations serve registrations with passwords that are long enough
  (`KindFits`), and that what was confirmed is in the table (`Kept`). Each
  statement then maps to a step of `Accounts` or to none; the row the mapping
  chooses for a key is the only one with it.

`ChatClientProofs`, for any lines and emails:

- `AlwaysActsFromRoomJoined` and `RoomNamesStayPrivate`. The invariant is that
  `currentRoom` is the room of the last Join packet while the client runs, and
  that the last prompt shown agrees with what `roomChange` and `currentRoom`
  make of the next line (`PromptFits`).
- `AlwaysFollowsProtocol` (`Spec => FollowsProtocol`). The invariant `UInv`
  adds to it that the name of a logged-in account is that of the last request,
  that a logged-in client waits for nothing, and that one which has sent its
  Leave packet does not go on.

`ChatSystemProofs`, for any number of clients, rooms, accounts and any bounds,
from the assumptions on the constants; the one that is used is that the
listening socket and the authentication server's are no clients'
(`LoopAssumption`):

- `AlwaysOnePlace`, `AlwaysNoDangling` and `NeverLiveClientDropped`. The
  invariant `HInv` has four parts. `Kept`: the accept queue, the map and the
  vector are disjoint, none holds a client twice, and together they hold every
  connected client. `Gone`: freed clients are in no container, and rooms mention
  only clients that are in the vector or have left it, never one that waits for
  its login: this is why the `delete` of the loop (`Server.cpp:336`) is safe while
  rooms keep raw pointers of departed clients. (The other one, in `~Server`,
  `Server.cpp:21-24`, runs at the end of the process and is not followed.) `Loop`: `ToRead` are the clients the
  iteration has still to look at; of those, what select reported still holds,
  since only the server takes frames from a stream, each client is read once an
  iteration, and a connection that is closed stays closed. A client that was just
  accepted or just logged in is looked at with a read set from before, and the
  invariant shows that this is harmless: it is read only if it was reported.
  With `Loop`, a recv that fails means that the client is gone. `HomeTypes`: the
  types of what is used. Swap-remove keeps what is before the cursor in its place
  (`SwapRemoveOnce` of `WireProofs`).

`ChatSessionProofs`, from the same assumptions:

- `AlwaysAuthenticatedAsTyped`, `AlwaysSessionAgrees` and `AlwaysNothingToRead`.
  The invariant `SInv`, proved with `HInv`, follows a request from its client's
  stream to the link, through the authentication server and back. `OnTheWay`: the
  requests and answers on the link carry ids that were given out, no two the same;
  while one is on the way under the id of a client that still waits in the map, it
  carries the email that client's user typed, and the client has no other frame in
  either direction. `Asking`: a client outside (in the queue or in the map) has
  either sent one request or been sent one refusal. `Admitted`: a client inside (in
  the vector) is who its user said, has its welcome before any other frame, and
  joins under that name. The room handlers disturb none of this: they only add
  chat frames behind what a stream holds, and only for clients inside (`Adds`).
- `AlwaysSenderInRoom`. One `recv` takes all that a stream holds and the handler
  reads only the first packet, so a Join could be dropped and a message of its room
  survive. The invariant `RInv` shows that it is not: a client inside with
  packets on the way is in a room, or the first of them is its Join, and the first
  is never dropped; a Leave packet is the last its client sends.
- `AlwaysRoomsAgreeWhileIn`, with the empty name excluded as above. The invariant
  `EInv` says that each entry of a client that is not leaving is the one its map
  entry names (`Settled`). A Join removes that one entry before it adds the new
  one; a Leave packet, which could name another room than the one the server has
  the client in, is by `RInv` only read of a client that is leaving.
- `AlwaysTypeOK` (`TypeOK`), for finitely many clients. The types are not inductive
  without bounds. `BInv` counts: ids are given out for accepted clients only, so
  there are at most as many as clients, and the authentication server cannot have
  been sent more requests than there are ids. Finiteness is used in counting only.
- `AlwaysOneRequestEach` (`OneRequestEach`), for finitely many clients, no more than
  `AuthCap`. That a request is not in two places is `OnTheWay` of `SInv`; that it is
  in one is the invariant `QInv`: a waiting client outside has its request in its
  stream, on the link, among the answers, or the answer in the stream back, for as
  long as the server is up. The bound is what the code needs for it: a `send` that
  fails on the link is only printed, and the request is gone. With a frame
  of the link for each client, the ids on the link, all different and each of a
  client, leave room for one more.

`ChatAuthProofs`, for any number of clients and any finite set of peers, from the
assumptions on the constants:

- `AlwaysLinksKept` (`LinksKept`). The invariant `LInv` is for the authentication
  server what `HInv` is for the chat server: the vector and the accept queue hold
  each connection that was made and is not over once, and those of the vector the
  iteration has still to look at have something to read or are closed.
- `AlwaysAuthenticatedOwnsAccount` (`AuthenticatedOwnsAccount`). The invariant `PInv`
  adds to `SInv` where the password is: the request a waiting client has on its way
  carries what its user entered last, and an answer that says success is there
  only if the account has that password. Accounts never lose their password, so it
  stays so while the answer travels and the client is inside, whatever peers
  register in between. The theorem is about requests whose emails are plain data:
  the step of `Accounts` that a request takes is only then what the statements do,
  and the assumptions `PlainEmails` and `UserEmails` say so of users and peers alike.
  `LinksKept` and `RefinesChatSystem` say nothing of accounts.
- `RefinesChatSystem` (`SpecWhole => WithoutPeers!Spec`, the safety part of
  `ImplementsChatSystem`). Every step of the loop of the authentication server is
  an answer to the first request of the chat server's link, its going away, or
  nothing, for the chat server; its own steps and the clients' are the same. By it
  the theorems on `ChatSystem` hold of the whole system. It takes `"authDown" \in
  May`: the process can end, and `ChatSystem` must allow it.
- `AlwaysTypeOKWhole` (`TypeOKWhole`), for finitely many clients, along `BInv` with the
  types of the accounts and of `secret`.

Every invariant that a run checks and that holds is thus proved. Only
model-checked is liveness: `Answered`, and the fairness of `FairSpec` that
`ImplementsChatSystem` asks of `SpecWhole`. The findings are runs of TLC.

## 5. Assumptions and what is not modelled

- Emails are plain data. `DBUtils` puts the email of a request into the text of its
  statements between double quotes, as it came (`DBUtils.cpp:28`, `86`, `115`); an
  email with a double quote or a backslash makes another statement of it, and then
  an answer, SUCCESS included, says nothing of an account. The models take an email
  for a value that a row has or has not, which is right for emails that stand for
  themselves in such a statement. These are the constant `PlainEmail`; the collation
  `Collate` is given for them only, and the named assumptions `PlainEmails` (of
  `AuthService` and `AuthServer`: all requests, those of other programs included) and
  `UserEmails` (of `ChatAuth`: what users type) say that there are no others. Neither
  the client nor the servers check this. `AuthenticatedOwnsAccount`, `SuccessNamesUser`,
  `NeverForgotten`, `ImplementsAccounts` and the theorems on them hold under these
  assumptions and are not claimed without. Passwords, salts and hashes do not matter
  here: a password is hashed before it reaches a statement, and salts and hashes
  are hexadecimal.
- Frames: a chat frame fits one `recv`, strings are shorter than 128 bytes
  (module `Buffer` says when that is so); a `recv` does not end inside a short
  frame; a send takes all of a frame or none. A stream is bounded in frames.
- Assumptions on constants, by name: `StreamCapAssumption` (a stream holds a frame),
  `EntryCapAssumption` (a list may have an entry), `LoopAssumption` (`FD_SETSIZE` takes
  the two sockets of the server itself, which are no client's), `SystemAssumption`,
  `LinksAssumption` (the chat server's link is not a peer's), `AuthServerAssumption`
  (nor is the listening socket; finitely many peers; the collation gives every
  plain email a key), `AccountAssumption` (the same for the SQL statements),
  `PlainEmails` and `UserEmails` (above),
  `WordAssumption` (the empty line and the word that leaves a room can be typed),
  `BufferAssumption` (a char has an even number of values, an int fits the
  receiver's buffer). TLC evaluates each in the runs.
- The ids of unauthenticated clients do not wrap (2^32 connections);
  `ioctlsocket` and `select` do not fail; memory is not exhausted.
- A `recv` of the client fails only because there is nothing or because the
  connection is reset (10054); after other errors the program polls a dead
  connection (`Client.cpp:156`).
- The link to the authentication server holds `AuthCap` frames of 512 bytes, at
  most one for each client that waits (that they are enough is a hypothesis of
  `AlwaysOneRequestEach` only); connections of peers are read to their
  end but their answers are not followed. The limit of FD_SETSIZE also applies
  to the authentication server's read set and is modelled for the chat server
  only.
- `ChatSystem` is not followed past the end of the server process; Winsock's
  `closesocket` at exit, `~Server` and the memory of departed clients are left out.
- Passwords are compared by hashes without collisions; PBKDF2 and protobuf
  encodings are not modelled. `last_login` and creation dates are only
  outcomes of their statements.
- Sending a message in no room is undefined behaviour (`Server.cpp:431`); the
  models let the server go on or end.
- Not modelled: socket set-up and `main` functions; the broadcasts to all
  clients and the indexed or short buffer accesses, which have no caller; the
  generated code (`*.pb.cc`, `*.pb.h`) and what is vendored under `src/Extern`
  (protobuf with its compiler and tests, Crypto++, the MySQL connector), which
  are nearly all of the repository's lines and not this program's logic: the
  program's own code has about 3100 lines, of which the map names about half. The
  rest of it is declarations, includes, constructors, console output and the
  Winsock calls of the set-up.

## 6. Plan

Done: `Wire`, `Rooms`, `RoomRegistry` with `Lobby`, `ChatServer`, `ChatSystem`,
`Buffer`, `AuthService` with `Accounts`, `ChatClient` with `ChatUser`,
`AuthServer`, their composition `ChatAuth`, and the theorems above.

Next, in this order:

1. Streams of bytes between `Buffer` and `ChatServer`: a frame larger than one
   `recv`, and the packet read from its remainder.
2. The room a client believes it is in (`currentRoom`) against the server's map,
   with a history of the packets that were dropped between the two.
