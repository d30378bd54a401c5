------------------------------- MODULE MCIoPkg -------------------------------
(***************************************************************************)
(* IoPkg with every portion of one to four bytes.                         *)
(***************************************************************************)
EXTENDS IoPkg

CONSTANTS a, b, s

MCBytes == {a, b, s}
MCChunks == UNION {[1 .. k -> MCBytes] : k \in 1 .. 4}
=============================================================================
