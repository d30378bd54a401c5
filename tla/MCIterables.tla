----------------------------- MODULE MCIterables -----------------------------
(***************************************************************************)
(* Iterables with three objects, two of which compare equal.               *)
(***************************************************************************)
EXTENDS Iterables, TLC

CONSTANTS o1, o2, o3

MCRank == o1 :> 1 @@ o2 :> 1 @@ o3 :> 2
=============================================================================
