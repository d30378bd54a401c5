------------------------------ MODULE MascList ------------------------------
(***************************************************************************)
(* The operations of masc/list.h (src/list.c) that the main loop uses, on  *)
(* the sequence of objects a List holds.  A List is a chain of nodes, each *)
(* holding one object pointer; two objects are the same when they are the  *)
(* same pointer, so list_remove looks for identity and not for cmp().      *)
(* list_append is Append and list_remove_at(self, 0) is Tail.              *)
(***************************************************************************)
EXTENDS Integers, SequencesExt

\* list_remove: the first node that holds obj goes, later ones stay.
ListRemove(list, obj) == RemoveFirst(list, obj)

\* list_sort_in, where greater is the set of the objects that cmp() finds greater
\* than obj: obj goes in front of the first of them and so behind every object
\* that compares equal; at the end if there is none.
ListSortIn(list, obj, greater) ==
  LET isGreater(other) == other \in greater
      at == SelectInSeq(list, isGreater)
  IN  InsertAt(list, IF at = 0 THEN Len(list) + 1 ELSE at, obj)

\* The object of the node behind the (first) node of obj, or none.
NodeAfter(list, obj, none) ==
  LET same(other) == other = obj
      at == SelectInSeq(list, same)
  IN  IF at \in 1 .. Len(list) - 1 THEN list[at + 1] ELSE none

\* The object of the first node, or none for an empty list.
FirstNode(list, none) == IF list = <<>> THEN none ELSE Head(list)
=============================================================================
