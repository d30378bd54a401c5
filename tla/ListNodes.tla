------------------------------ MODULE ListNodes ------------------------------
(***************************************************************************)
(* A List as src/list.c builds it: a chain of nodes, each with a pointer   *)
(* to the next node and one to what it holds.  The operators below are the *)
(* operations of masc/list.h; each takes a chain and gives the chain after *)
(* it.  MapNodes builds a Map on the same chains.                          *)
(***************************************************************************)
EXTENDS Integers, FiniteSets, SequencesExt

CONSTANTS
  Nodes,    (* the addresses a node can have                               *)
  Null,     (* the null pointer                                            *)
  Rank      (* cmp(): an object is greater than those of a lower rank      *)

ASSUME ListNodesAssumption == Null \notin Nodes

\* A node that is not allocated holds Null; nodes of a List never do, since
\* listnode_set_obj puts a None object in the place of NULL.
EmptyChain ==
  [head |-> Null,
   next |-> [node \in Nodes |-> Null],
   obj  |-> [node \in Nodes |-> Null]]

Allocated(c) == {node \in Nodes : c.obj[node] # Null}

\* The nodes from the head to the end.
Chain(c) ==
  LET from[node \in Nodes \cup {Null}] ==
        IF node = Null THEN << >> ELSE <<node>> \o from[c.next[node]]
  IN  from[c.head]

\* What they hold.
Held(c) == [k \in DOMAIN Chain(c) |-> c.obj[Chain(c)[k]]]

-----------------------------------------------------------------------------
\* _fix_index: -1 for an empty list, or else an index from 0 to len, which is
\* the place behind the last element.
FixIndex(len, idx) ==
  IF len = 0 THEN -1
  ELSE IF idx < -len THEN 0
  ELSE IF idx < 0 THEN idx + len
  ELSE IF idx >= len THEN len
  ELSE idx

\* _get_node_at: idx steps from the head.
NodeAt(c, idx) ==
  LET i == FixIndex(Len(Chain(c)), idx)
  IN  IF i \in 0 .. Len(Chain(c)) - 1 THEN Chain(c)[i + 1] ELSE Null

\* PLANTED BUG: the list behind a new first node is lost.
LinkedAlone(c, prev, o) ==
  LET new == CHOOSE node \in Nodes : c.obj[node] = Null IN
  IF prev = Null
  THEN [c EXCEPT !.head = new, !.obj[new] = o]
  ELSE [c EXCEPT !.next[prev] = new, !.next[new] = c.next[prev], !.obj[new] = o]

\* A new node that holds o stands behind node prev, or at the head.
Linked(c, prev, o) ==
  LET new == CHOOSE node \in Nodes : c.obj[node] = Null IN
  IF prev = Null
  THEN [c EXCEPT !.head = new, !.next[new] = c.head, !.obj[new] = o]
  ELSE [c EXCEPT !.next[prev] = new, !.next[new] = c.next[prev], !.obj[new] = o]

\* The node behind prev, or the one at the head, is taken out and freed.
Unlinked(c, prev) ==
  LET old == IF prev = Null THEN c.head ELSE c.next[prev] IN
  IF prev = Null
  THEN [c EXCEPT !.head = c.next[old], !.next[old] = Null, !.obj[old] = Null]
  ELSE [c EXCEPT !.next[prev] = c.next[old], !.next[old] = Null, !.obj[old] = Null]

-----------------------------------------------------------------------------
\* list_append
ListAppend(c, o) ==
  Linked(c, IF c.head = Null THEN Null ELSE Last(Chain(c)), o)

\* PLANTED BUG: a negative index is counted from the end twice.
ListInsertAtFixed(c, idx, o) ==
  LET i == FixIndex(Len(Chain(c)), idx)
      prev == NodeAt(c, i - 1)
  IN  IF i = 0 \/ (c.head = Null /\ idx \in {0, -1}) THEN Linked(c, Null, o)
      ELSE IF i > 0 /\ prev # Null /\ idx >= 0 THEN Linked(c, prev, o)
      ELSE c

\* list_insert_at
ListInsertAt(c, idx, o) ==
  LET i == FixIndex(Len(Chain(c)), idx)
      prev == NodeAt(c, idx - 1)
  IN  IF i = 0 \/ (c.head = Null /\ idx \in {0, -1}) THEN Linked(c, Null, o)
      ELSE IF i > 0 /\ prev # Null THEN Linked(c, prev, o)
      ELSE c

\* list_insert_after
ListInsertAfter(c, idx, o) ==
  LET node == NodeAt(c, idx)
  IN  IF node = Null THEN c ELSE Linked(c, node, o)

\* A new list, to which the objects are appended one by one.
ListOf(objs) ==
  LET made[k \in 0 .. Len(objs)] ==
        IF k = 0 THEN EmptyChain ELSE ListAppend(made[k - 1], objs[k])
  IN  made[Len(objs)]

\* list_init_copy, list_copy: copies of the objects, in the same order.
ListCopy(c) == ListOf(Held(c))

\* list_get_at
ListGetAt(c, idx) ==
  LET node == NodeAt(c, idx) IN IF node = Null THEN Null ELSE c.obj[node]

\* list_set_at; the object that was there is deleted.
ListSetAt(c, idx, o) ==
  LET node == NodeAt(c, idx)
  IN  IF node = Null THEN c ELSE [c EXCEPT !.obj[node] = o]

\* _remove_node for the nodes in which test holds: the first of them goes.
RemoveFirstNode(c, test) ==
  LET nodes == Chain(c)
      at == SelectInSeq(nodes, LAMBDA node : node \in test)
  IN  IF at = 0 THEN c
      ELSE Unlinked(c, IF at = 1 THEN Null ELSE nodes[at - 1])

\* list_remove and list_delete_obj, which also deletes the object.
ListRemoveObj(c, o) == RemoveFirstNode(c, {node \in Nodes : c.obj[node] = o})

\* _remove_node_at, for list_remove_at and list_delete_at
ListRemoveAt(c, idx) ==
  LET i == FixIndex(Len(Chain(c)), idx)
      prev == NodeAt(c, idx - 1)
  IN  IF i = 0 THEN Unlinked(c, Null)
      ELSE IF i > 0 /\ prev # Null /\ c.next[prev] # Null THEN Unlinked(c, prev)
      ELSE c

\* list_sort_in: in front of the first object that is greater.
ListSortedIn(c, o) ==
  LET nodes == Chain(c)
      at == SelectInSeq(nodes, LAMBDA node : Rank[c.obj[node]] > Rank[o])
  IN  Linked(c, IF at = 1 \/ nodes = << >> THEN Null
                ELSE IF at = 0 THEN Last(nodes) ELSE nodes[at - 1], o)

InRankOrder(objs) ==
  \A j, k \in DOMAIN objs : j < k => Rank[objs[j]] <= Rank[objs[k]]

\* list_sort: the nodes are sorted in an array, by a qsort() that may swap
\* equal ones, and linked again in that order.
ListSorts(c) ==
  LET relinked(nodes) ==
        [c EXCEPT !.head = Head(nodes),
                  !.next = [node \in Nodes |->
                    LET at == SelectInSeq(nodes, LAMBDA other : other = node)
                    IN  IF at \in 1 .. Len(nodes) - 1 THEN nodes[at + 1] ELSE Null]]
  IN  IF c.head = Null THEN {c}
      ELSE {relinked(nodes) : nodes \in
             {s \in SetToSeqs(ToSet(Chain(c))) :
                InRankOrder([k \in DOMAIN s |-> c.obj[s[k]]])}}
=============================================================================
