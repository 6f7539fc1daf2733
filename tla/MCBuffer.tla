------------------------------ MODULE MCBuffer ------------------------------
(* TLC instances of Buffer: every string length up to a bound, one letter.  *)
EXTENDS Buffer

CONSTANTS MaxLen, Letter

Strings == {[i \in 1 .. n |-> Letter] : n \in 0 .. MaxLen}
=============================================================================
