\* Two clients chat in two rooms: packets sent together are dropped, clients
\* leave rooms and connections while broadcasts are on their way.
SPECIFICATION ChatSpec
CONSTANTS
    Client = {c1, c2}
    RoomName = {r1, r2}
    NoRoom = none
    Name = {alice}
    Message = {m1}
    StreamCap = 1
    SendCap = 2
    FdSetSize = 64
    AuthCap = 2
    Peer = {}
    Password = {p1}
    May = {}
SYMMETRY ClientRoomSymmetry
INVARIANTS RoomsAgreeWhileIn SenderInRoom
CHECK_DEADLOCK FALSE
