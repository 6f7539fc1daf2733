\* One user, every order of keys: two words besides the empty line and "leave".
SPECIFICATION Spec
CONSTANTS
    Word = {none, leave, r1, r2}
    NoRoom = none
    LeaveWord = leave
    Email = {alice, bob}
    Password = {p1}
    StreamCap = 1
INVARIANT ActsFromRoomJoined
PROPERTIES RoomNameStaysPrivate FollowsProtocol
CHECK_DEADLOCK FALSE
