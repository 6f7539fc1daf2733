------------------------------- MODULE Lobby --------------------------------
(***************************************************************************)
(* What the rooms of the chat server promise: every client is in at most     *)
(* one room; whoever enters or leaves is announced once to each client in   *)
(* that room and to itself; a message reaches each other client of the       *)
(* sender's room exactly once, and no one else.  A frame for a connection   *)
(* whose inbox is full, or which is closed, is lost.                        *)
(***************************************************************************)
EXTENDS Naturals, Sequences

CONSTANTS Client, RoomName, NoRoom, Name, Message, InboxCap,
          Heard(_, _),      \* the frame for a message of a named client
          Entered(_, _),    \* the frames for entering and leaving a room
          Left(_, _)

VARIABLES room, called, inbox, present

vars == <<room, called, inbox, present>>

Init == /\ room = [c \in Client |-> NoRoom]
        /\ called \in [Client -> Name]
        /\ inbox = [c \in Client |-> <<>>]
        /\ present = [c \in Client |-> TRUE]

In(c, r) == r # NoRoom /\ room[c] = r

\* The frames fs[c] put in the inbox of every client c.
Post(fs) ==
    inbox' = [c \in Client |->
        IF ~present[c] THEN inbox[c]
        ELSE LET all == inbox[c] \o fs[c]
             IN SubSeq(all, 1, IF Len(all) < InboxCap THEN Len(all) ELSE InboxCap)]

Enter(c, r, n) ==
    /\ room' = [room EXCEPT ![c] = r]
    /\ called' = [called EXCEPT ![c] = n]
    /\ Post([d \in Client |->
                (IF room[c] # NoRoom /\ (d = c \/ In(d, room[c]))
                 THEN <<Left(room[c], n)>> ELSE <<>>)
                \o (IF d = c \/ In(d, r) THEN <<Entered(r, n)>> ELSE <<>>)])
    /\ UNCHANGED present

Exit(c, n) ==
    /\ room[c] # NoRoom
    /\ room' = [room EXCEPT ![c] = NoRoom]
    /\ Post([d \in Client |-> IF d = c \/ In(d, room[c])
                              THEN <<Left(room[c], n)>> ELSE <<>>])
    /\ UNCHANGED <<called, present>>

Say(c, m) ==
    /\ Post([d \in Client |-> IF d # c /\ In(d, room[c])
                              THEN <<Heard(called[c], m)>> ELSE <<>>])
    /\ UNCHANGED <<room, called, present>>

\* A client takes frames out of its inbox in order, or goes away.  It is then
\* not present, but stays an occupant of its room.
Take(c) == /\ \E k \in 1 .. Len(inbox[c]) :
                 inbox' = [inbox EXCEPT ![c] = SubSeq(@, k + 1, Len(@))]
           /\ UNCHANGED <<room, called, present>>

Vanish(c) == /\ present[c]
             /\ present' = [present EXCEPT ![c] = FALSE]
             /\ inbox' = [inbox EXCEPT ![c] = <<>>]
             /\ UNCHANGED <<room, called>>

Next == \E c \in Client :
            \/ \E r \in RoomName, n \in Name : Enter(c, r, n)
            \/ \E n \in Name : Exit(c, n)
            \/ \E m \in Message : Say(c, m)
            \/ Take(c)
            \/ Vanish(c)

Spec == Init /\ [][Next]_vars
=============================================================================
