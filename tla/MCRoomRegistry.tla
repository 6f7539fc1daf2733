--------------------------- MODULE MCRoomRegistry ---------------------------
(* TLC instances of RoomRegistry.  Clients and room names are                *)
(* interchangeable as long as the empty name is not one of the latter.       *)
EXTENDS RoomRegistry

ClientSymmetry == Permutations(Client)

ClientRoomSymmetry == Permutations(Client) \cup Permutations(RoomName)
=============================================================================
