------------------------------- MODULE MapNodes ------------------------------
(***************************************************************************)
(* A Map as src/map.c builds it: a chain of nodes, each with a key and a   *)
(* value, in the order in which the keys were set first.                   *)
(***************************************************************************)
EXTENDS ListNodes

\* _node_by_key: the first node with that key, NULL for none.
NodeByKey(c, key) ==
  LET at == SelectInSeq(Chain(c), LAMBDA node : c.obj[node].key = key)
  IN  IF at = 0 THEN Null ELSE Chain(c)[at]

\* map_set: a value that was there is deleted and replaced.
MapSet(c, key, value) ==
  LET node == NodeByKey(c, key)
  IN  IF node = Null
      THEN ListAppend(c, [key |-> key, value |-> value])
      ELSE [c EXCEPT !.obj[node].value = value]

\* _remove_node_by_key, for map_remove_key and map_delete_key
MapRemoveKey(c, key) == RemoveFirstNode(c, {NodeByKey(c, key)})

\* map_init_copy: the keys are set one by one.
MapCopy(c) ==
  LET nodes == Held(c)
      made[k \in 0 .. Len(nodes)] ==
        IF k = 0 THEN EmptyChain ELSE MapSet(made[k - 1], nodes[k].key, nodes[k].value)
  IN  made[Len(nodes)]

\* map_get_keys and map_get_values, as Lists: a NULL is appended as a None.
MapKeys(c) == ListOf([k \in DOMAIN Held(c) |-> Held(c)[k].key])

MapValues(c) ==
  ListOf([k \in DOMAIN Held(c) |->
            IF Held(c)[k].value = Null THEN "none" ELSE Held(c)[k].value])

\* map_get: the value of a key, NULL for none.
MapGet(c, key) ==
  LET node == NodeByKey(c, key)
  IN  IF node = Null THEN Null ELSE c.obj[node].value
=============================================================================
