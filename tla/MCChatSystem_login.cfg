\* Three connections, two accounts, no chat: who is where, and who is who.
SPECIFICATION Spec
CONSTANTS
    Client = {c1, c2, c3}
    RoomName = {}
    NoRoom = none
    Name = {alice, bob}
    Message = {}
    StreamCap = 1
    SendCap = 1
    FdSetSize = 64
    AuthCap = 2
    Peer = {}
    Password = {p1}
    May = {"authDown"}
SYMMETRY AccountSymmetry
INVARIANTS TypeOK OnePlace NoDangling AuthenticatedAsTyped SessionAgrees
PROPERTY NoLiveClientDropped
CHECK_DEADLOCK FALSE
