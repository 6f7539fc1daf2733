\* Clients leave only the room they are in: the member lists and the map agree,
\* and the rooms implement the lobby.  Three clients, two rooms, two frames per
\* stream, so that a room change fits exactly (a leave and a join notice).
SPECIFICATION InSyncSpec
CONSTANTS
    Client = {c1, c2, c3}
    RoomName = {r1, r2}
    NoRoom = none
    Name = {alice}
    Message = {m1}
    StreamCap = 2
    EntryCap = 3
SYMMETRY ClientRoomSymmetry
INVARIANT RoomConsistent
PROPERTY ImplementsLobby
CHECK_DEADLOCK FALSE
