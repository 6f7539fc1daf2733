\* More connections than an FD_SET holds (FD_SETSIZE scaled down from 64).
SPECIFICATION Spec
CONSTANTS
    Client = {c1, c2}
    RoomName = {}
    NoRoom = none
    Name = {alice}
    Message = {}
    StreamCap = 1
    SendCap = 1
    FdSetSize = 3
    AuthCap = 2
    Peer = {}
    Password = {p1}
    May = {}
INVARIANT AllClientsWatched
CHECK_DEADLOCK FALSE
