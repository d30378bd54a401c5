-------------------------------- MODULE MCLog --------------------------------
(***************************************************************************)
(* A logger in a program with a small table of memory blocks, and an       *)
(* allocator that uses an address that was freed again at once.            *)
(***************************************************************************)
EXTENDS Log

MCFresh(live) ==
  LET free == Ptrs \ live IN {p \in free : \A q \in free : p <= q}
=============================================================================
