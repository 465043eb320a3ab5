------------------------------ MODULE MCBuffer ------------------------------
(* Buffer.tla for TLC: a buffer of four bytes over a two-letter alphabet.  *)
EXTENDS Buffer

CONSTANTS b1, b2

MCByte == { b1, b2 }

=============================================================================
