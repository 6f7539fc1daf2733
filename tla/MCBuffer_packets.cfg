\* A char of 16 values (strings up to 7 characters have a faithful length) and
\* a receiver of 32 bytes; strings of up to 13 characters reach past both.
SPECIFICATION Spec
CONSTANTS
    Base = 16
    RecvLen = 32
    Letter = 9
    MaxLen = 13
    Text <- Strings
INVARIANTS WithinBuffer ReadBack FrameAtMostDoubles
CHECK_DEADLOCK FALSE
