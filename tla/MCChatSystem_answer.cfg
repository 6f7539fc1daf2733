\* A client that waits for a result gets one; its one request is never lost or
\* doubled.
SPECIFICATION FairSpec
CONSTANTS
    Client = {c1, c2}
    RoomName = {}
    NoRoom = none
    Name = {alice}
    Message = {}
    StreamCap = 1
    SendCap = 1
    FdSetSize = 64
    AuthCap = 2
    Peer = {}
    Password = {p1}
    May = {"register", "authDown"}
INVARIANTS NothingToRead OneRequestEach
PROPERTY Answered
CHECK_DEADLOCK FALSE
