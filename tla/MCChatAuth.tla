----------------------------- MODULE MCChatAuth -----------------------------
(* TLC instances of ChatAuth.                                               *)
EXTENDS ChatAuth

CONSTANTS alice, p1, p2, short, key

Identity == alice :> key

\* A peer registers the account of a client's user, with another password.
Registrations == {PacketRegisterRequest(0, alice, p2)}
=============================================================================
