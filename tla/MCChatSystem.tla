---------------------------- MODULE MCChatSystem ----------------------------
(* TLC instances of ChatSystem.                                             *)
EXTENDS ChatSystem

AccountSymmetry == Permutations(Client) \cup Permutations(Name)

ClientRoomSymmetry == Permutations(Client) \cup Permutations(RoomName)
=============================================================================
