------------------------------ MODULE Iterables ------------------------------
(***************************************************************************)
(* The containers List, Map and Array (src/list.c, src/map.c, src/array.c) *)
(* and the Iter and filter() that work on any of them (src/iter.c,         *)
(* src/iterable_class.c).  A behaviour is the life of one container.       *)
(***************************************************************************)
EXTENDS MapNodes

CONSTANTS
  Objs,       (* the objects a container can hold                          *)
  Keys,       (* the keys of a Map                                         *)
  ArrayLen,   (* the len an Array is made with                             *)
  MaxIdx      (* BOUND: indexes are tried from -MaxIdx to MaxIdx           *)

ASSUME IterablesAssumption ==
  /\ Null \notin Objs \cup Keys \cup {"none"} \cup [key : Keys, value : Objs \cup {Null}]
  /\ ArrayLen \in Nat \ {0}
  /\ MaxIdx \in Nat
  /\ Rank \in [Objs -> Int]

VARIABLES
  cls,      (* the class of the container                                  *)
  chain,    (* the nodes of a List or Map                                  *)
  block,    (* the objects of an Array: "unset" if zero, "none" for None   *)
  place,    (* the place in the block that was used last, from 0           *)
  itr,      (* iter_priv of the Iter on the container, NoIter if none      *)
  current,  (* the last call of next() came to an element                  *)
  kept,     (* history: the elements next() has come to and that were not  *)
            (* deleted by iter_del_obj                                     *)
  late      (* history: elements added when the Iter had come to the end   *)

vars == <<cls, chain, block, place, itr, current, kept, late>>

NoIter == [next |-> Null, idx |-> -2]
Idle == itr = NoIter
Indexes == -MaxIdx .. MaxIdx

\* What an element is known by: an object, or the key of a node of a Map.
Id(held) == IF cls = "Map" THEN held.key ELSE held
Ids == [k \in DOMAIN Held(chain) |-> Id(Held(chain)[k])]

Init ==
  /\ cls \in {"List", "Map", "Array"}
  /\ chain = EmptyChain
  /\ block = [k \in 0 .. ArrayLen - 1 |-> "unset"]
  /\ place = 0
  /\ itr = NoIter
  /\ current = FALSE
  /\ kept = << >>
  /\ late = 0

\* The chain after an operation.
Becomes(c) == chain' = c /\ UNCHANGED <<cls, block, place>>

\* There is memory for a node: a bound of the model.
CanAllocate == Allocated(chain) # Nodes

-----------------------------------------------------------------------------
\* The list and the map are changed while no Iter is on them.
ListChange ==
  /\ cls = "List"
  /\ Idle
  /\ \/ \E o \in Objs \ ToSet(Held(chain)) :
          /\ CanAllocate
          /\ \/ \E idx \in Indexes :
                  \/ Becomes(ListInsertAt(chain, idx, o))
                  \/ Becomes(ListInsertAfter(chain, idx, o))
                  \/ Becomes(ListSetAt(chain, idx, o))
             \/ Becomes(ListSortedIn(chain, o))
     \/ \E o \in Objs : Becomes(ListRemoveObj(chain, o))
     \/ \E idx \in Indexes : Becomes(ListRemoveAt(chain, idx))
     \/ \E c \in ListSorts(chain) : Becomes(c)
     \/ Becomes(EmptyChain)
     \/ Becomes(ListCopy(chain))
  /\ UNCHANGED <<itr, current, kept, late>>

MapChange ==
  /\ cls = "Map"
  /\ Idle
  /\ \/ \E key \in Keys : Becomes(MapRemoveKey(chain, key))
     \/ Becomes(MapCopy(chain))
  /\ UNCHANGED <<itr, current, kept, late>>

\* An element is added at the end, or a key set again, also while an Iter is
\* on the container.
Added(c) ==
  /\ Becomes(c)
  /\ late' = late + (IF ~Idle /\ itr.next = Null
                     THEN Cardinality(Allocated(c)) - Cardinality(Allocated(chain))
                     ELSE 0)
  /\ UNCHANGED <<itr, current, kept>>

Add ==
  /\ CanAllocate
  /\ \/ cls = "List" /\ \E o \in Objs \ ToSet(Held(chain)) :
          Added(ListAppend(chain, o))
     \/ cls = "Map" /\ \E key \in Keys, value \in Objs \cup {Null} :
          Added(MapSet(chain, key, value))

\* _fix_index of an Array.
ArrayPlace(idx) == FixIndex(ArrayLen, idx)

\* array_set_at and array_copy_at put something into a place; array_remove_at
\* and array_destroy_at put None there, unless there is nothing.  An index at
\* or beyond the length is not used: _fix_index makes it the length.
ArrayChange ==
  /\ cls = "Array"
  /\ \E idx \in Indexes :
       /\ idx < ArrayLen
       /\ place' = ArrayPlace(idx)
       /\ \/ \E o \in Objs \cup {"none"} :
               block' = [k \in DOMAIN block |-> IF k = place' THEN o ELSE block[k]]
          \/ block' = [k \in DOMAIN block |->
                         IF k = place' /\ block[k] # "unset" THEN "none" ELSE block[k]]
  /\ UNCHANGED <<cls, chain, itr, current, kept, late>>

\* array_init_copy: what is not set becomes a None, for init_copy makes one.
ArrayCopy ==
  /\ cls = "Array"
  /\ Idle
  /\ block' = [k \in DOMAIN block |-> IF block[k] = "unset" THEN "none" ELSE block[k]]
  /\ UNCHANGED <<cls, chain, place, itr, current, kept, late>>

-----------------------------------------------------------------------------
\* new(Iter, container): in front of the first element.
IterNew ==
  /\ Idle
  /\ itr' = [next |-> IF cls = "Array" THEN 0 ELSE chain.head, idx |-> -1]
  /\ current' = FALSE
  /\ kept' = << >>
  /\ late' = 0
  /\ UNCHANGED <<cls, chain, block, place>>

\* next() on a List or Map: the node the Iter holds, if there is one.
ChainNext ==
  /\ ~Idle
  /\ cls # "Array"
  /\ IF itr.next # Null
     THEN /\ itr' = [next |-> chain.next[itr.next], idx |-> itr.idx + 1]
          /\ kept' = Append(kept, Id(chain.obj[itr.next]))
     ELSE UNCHANGED <<itr, kept>>
  /\ current' = (itr.next # Null)
  /\ UNCHANGED <<cls, chain, block, place, late>>

\* next() on an Array; the index goes on behind the end (BOUND: to ArrayLen).
ArrayNext ==
  /\ ~Idle
  /\ cls = "Array"
  /\ itr.idx < ArrayLen
  /\ itr' = [next |-> IF itr.idx + 1 < ArrayLen THEN itr.next + 1 ELSE itr.next,
             idx |-> itr.idx + 1]
  /\ current' = (itr.idx + 1 < ArrayLen)
  /\ kept' = IF itr.idx + 1 < ArrayLen THEN Append(kept, itr.next) ELSE kept
  /\ UNCHANGED <<cls, chain, block, place, late>>

\* PLANTED BUG: the index of the Iter is not set back.
ListDelObjKeepsIdx ==
  /\ chain' = ListRemoveAt(chain, itr.idx)
  /\ UNCHANGED itr

\* _del_obj of a List: by index.
ListDelObj ==
  /\ chain' = ListRemoveAt(chain, itr.idx)
  /\ itr' = [itr EXCEPT !.idx = @ - 1]

\* _del_obj of a Map: by the key of the node that was returned.
MapDelObj ==
  /\ chain' = MapRemoveKey(chain, Last(kept))
  /\ itr' = [itr EXCEPT !.idx = @ - 1]

\* iter_del_obj, once after each object that next() has returned.
ChainDelObj ==
  /\ ~Idle
  /\ current
  /\ \/ cls = "List" /\ ListDelObj
     \/ cls = "Map" /\ MapDelObj
  /\ current' = FALSE
  /\ kept' = Front(kept)
  /\ UNCHANGED <<cls, block, place, late>>

\* _del_obj of an Array: the object is destroyed and its place holds None.
ArrayDelObj ==
  /\ ~Idle
  /\ current
  /\ cls = "Array"
  /\ place' = ArrayPlace(itr.idx)
  /\ block' = [block EXCEPT ![place'] = IF @ = "unset" THEN @ ELSE "none"]
  /\ current' = FALSE
  /\ UNCHANGED <<cls, chain, itr, kept, late>>

\* iter_is_last: there is nothing behind the element next() came to.
IsLast ==
  IF cls = "Array" THEN itr.idx = ArrayLen - 1 ELSE itr.next = Null

\* The Iter is deleted: by filter() at the end, by others at any time.
IterDelete ==
  /\ ~Idle
  /\ itr' = NoIter
  /\ current' = FALSE
  /\ kept' = << >>
  /\ late' = 0
  /\ UNCHANGED <<cls, chain, block, place>>

Next ==
  \/ ListChange \/ MapChange \/ Add \/ ArrayChange \/ ArrayCopy
  \/ IterNew \/ ChainNext \/ ArrayNext \/ ChainDelObj \/ ArrayDelObj
  \/ IterDelete

Spec == Init /\ [][Next]_vars

-----------------------------------------------------------------------------
\* The chain has no gap, no loop and no lost node: it runs once through every
\* node that is allocated, and no object or key is there twice, after any
\* sequence of operations; and an array is used only inside of its block, also by
\* iter_del_obj and for indexes from the end that go beyond the first element
\* (list.c:165-360, map.c:134-205, array.c:79-160, 222-225).
NodesSound ==
  /\ place \in DOMAIN block
  /\ ToSet(Chain(chain)) = Allocated(chain)
  /\ IsInjective(Chain(chain))
  /\ IsInjective(Ids)

\* The 0-based place an index means in a sequence of len elements.
PlaceOf(len, idx) ==
  IF idx >= 0 THEN idx ELSE IF len + idx >= 0 THEN len + idx ELSE 0

\* Each operation with an index does to the elements of a list what the index
\* means, for negative indexes and those out of range, at the first, a middle
\* and the last place, and sorting in keeps a sorted list sorted.
IndexOpsAgree ==
  cls = "List" /\ CanAllocate =>
    \A idx \in Indexes, o \in Objs \ ToSet(Held(chain)) :
      LET s == Held(chain)
          at == PlaceOf(Len(s), idx)
      IN
      /\ ListGetAt(chain, idx) = IF at < Len(s) THEN s[at + 1] ELSE Null
      /\ Held(ListInsertAt(chain, idx, o)) =
           IF at <= Len(s) /\ (s # << >> \/ idx \in {0, -1})
           THEN InsertAt(s, at + 1, o) ELSE s
      /\ Held(ListInsertAfter(chain, idx, o)) =
           IF at < Len(s) THEN InsertAt(s, at + 2, o) ELSE s
      /\ Held(ListSetAt(chain, idx, o)) =
           IF at < Len(s) THEN ReplaceAt(s, at + 1, o) ELSE s
      /\ Held(ListRemoveAt(chain, idx)) =
           IF at < Len(s) THEN RemoveAt(s, at + 1) ELSE s
      /\ InRankOrder(s) => InRankOrder(Held(ListSortedIn(chain, o)))

\* Setting a key gives it that value and changes no other, and removing it takes
\* away that key only.
KeyOpsAgree ==
  cls = "Map" /\ CanAllocate =>
    \A key \in Keys, value \in Objs :
      /\ MapGet(MapSet(chain, key, value), key) = value
      /\ NodeByKey(MapRemoveKey(chain, key), key) = Null
      /\ \A other \in Keys \ {key} :
           /\ MapGet(MapSet(chain, key, value), other) = MapGet(chain, other)
           /\ MapGet(MapRemoveKey(chain, key), other) = MapGet(chain, other)

\* A copy holds the same in the same order, and so do the lists of the keys and
\* of the values of a map, where a value of NULL keeps its place.
CopiesAgree ==
  /\ cls = "List" => Held(ListCopy(chain)) = Held(chain)
  /\ cls = "Map" =>
       /\ Held(MapCopy(chain)) = Held(chain)
       /\ Held(MapKeys(chain)) = Ids
       /\ Len(Held(MapValues(chain))) = Len(Ids)
       /\ \A k \in DOMAIN Ids : MapGet(chain, Ids[k]) \in {Null, Held(MapValues(chain))[k]}

\* Whatever the container holds after any sequence of operations, its operations
\* with an index or a key and its copies do what they say (list.c:42-359,
\* map.c:43-220).
OpsAgree == IndexOpsAgree /\ KeyOpsAgree /\ CopiesAgree

\* The Iter stands where its index says, also after elements were deleted
\* through it and added: in front of it is exactly what next() has returned
\* and was kept, and behind it all that is still to come.  So filter() keeps
\* the elements it wants, in order, looks at each once, and iter_is_last says so
\* at the last one (list.c:389-427, map.c:269-316, iterable_class.c:24-33).
IterInPlace ==
  ~Idle /\ cls # "Array" =>
    /\ itr.idx = Len(kept) - 1
    /\ kept = SubSeq(Ids, 1, Len(kept))
    /\ IF itr.next = Null
       THEN Len(Ids) = Len(kept) + late
       ELSE itr.next = Chain(chain)[Len(kept) + 1]
    /\ IsLast <=> Len(kept) + late = Len(Ids)
=============================================================================
