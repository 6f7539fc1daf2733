--------------------------- MODULE MCAuthService ---------------------------
(* TLC instances of AuthService.                                            *)
EXTENDS AuthService, TLC

CONSTANTS bob, Bob, carol, keyB, keyC

Emails == {bob, Bob, carol}
Collation == bob :> keyB @@ Bob :> keyB @@ carol :> keyC
=============================================================================
