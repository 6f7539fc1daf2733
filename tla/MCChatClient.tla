---------------------------- MODULE MCChatClient ----------------------------
(* TLC instances of ChatClient.                                             *)
EXTENDS ChatClient
=============================================================================
