\* Any client sends any packet: three clients, two rooms, four list entries, so
\* that clients repeat, and streams of one frame, so that some sends fail.
SPECIFICATION Spec
CONSTANTS
    Client = {c1, c2, c3}
    RoomName = {r1, r2}
    NoRoom = none
    Name = {alice}
    Message = {m1}
    StreamCap = 1
    EntryCap = 4
SYMMETRY ClientRoomSymmetry
INVARIANTS TypeOK MapImpliesMember
PROPERTY HeardInRoom
CHECK_DEADLOCK FALSE
