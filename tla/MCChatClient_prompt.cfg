\* The prompt tells the user that a line is a message.
SPECIFICATION Spec
CONSTANTS
    Word = {none, leave, r1, r2}
    NoRoom = none
    LeaveWord = leave
    Email = {alice}
    Password = {p1}
    StreamCap = 1
PROPERTY EnteredMessageIsSent
CHECK_DEADLOCK FALSE
