\* A Join packet may carry the empty room name.
SPECIFICATION InSyncSpec
CONSTANTS
    Client = {c1, c2}
    RoomName = {r1, none}
    NoRoom = none
    Name = {alice}
    Message = {m1}
    StreamCap = 1
    EntryCap = 3
SYMMETRY ClientSymmetry
INVARIANT MapHoldsRoom
CHECK_DEADLOCK FALSE
