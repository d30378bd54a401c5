------------------------------ MODULE JsonNodes ------------------------------
(***************************************************************************)
(* A Json object (src/json.c): the tree that json_parse has made, and the  *)
(* nodes that json_set_node and the like put into it and take out of it.   *)
(* A node is found by a key, a text like a.b[0]["c.d"].                    *)
(*                                                                         *)
(* The program holds at most one object that is not in the tree.  Each     *)
(* object that it makes has a mark; deleting an object deletes what it     *)
(* holds, and the marks say how often that was done.                       *)
(***************************************************************************)
EXTENDS JsonParse, SequencesExt

CONSTANTS
  Labels,    (* the labels a Map can have; a text in quotes is one of them *)
  TextOf,    (* the characters of each label                               *)
  Indexes,   (* the indexes of a List                                      *)
  OtherKeys, (* keys beside those of Paths: other forms, and wrong ones    *)
  NoneObj,   (* the None that stands for an element that was not set       *)
  ReprOf,    (* what repr prints of each value, as a token: another one for  *)
             (* a double with more digits than %g has                      *)
  RawOf,     (* what a label is as it is, in quotes: Bad if it has one     *)
  Objs,      (* the marks                                                  *)
  MaxParsed, (* BOUND: nodes are looked at in trees of texts up to here    *)
  MaxOps     (* BOUND: the operations on the tree                          *)

ASSUME JsonNodesAssumption ==
  /\ Strings \subseteq Labels
  /\ DOMAIN ReprOf = Primitives \cup Strings \cup Objs \cup {NoneObj}
  /\ RawOf \in [Labels -> Labels \cup {Bad}]
  /\ Objs \cap (Primitives \cup Labels \cup {NoneObj}) = {}
  /\ MaxParsed \in Nat /\ MaxOps \in Nat

VARIABLES
  tree,     (* self->root                                                  *)
  error,    (* self->error                                                 *)
  hand,     (* the object the program holds                                *)
  made,     (* the marks of the objects that were made                     *)
  deletes,  (* how often the object with a mark was deleted                *)
  lost,     (* the marks of objects nobody has a pointer to any more       *)
  ops       (* the operations so far                                       *)

nodeVars == <<tree, error, hand, made, deletes, lost, ops>>
jsonVars == <<vars, nodeVars>>

-----------------------------------------------------------------------------
Spaces == {" ", "\n"}

\* str_strip
Stripped(key) ==
  LET others == {i \in DOMAIN key : key[i] \notin Spaces} IN
  IF others = {} THEN << >>
  ELSE SubSeq(key, CHOOSE i \in others : \A j \in others : i <= j,
                   CHOOSE i \in others : \A j \in others : i >= j)

\* Where a character stands in quotes, and in brackets, and where one stands that
\* is not in quotes.
Quoted(key, i) == Cardinality({j \in 1 .. i - 1 : key[j] = "\""}) % 2 = 1
Plain(key, c) == {i \in DOMAIN key : key[i] = c /\ ~Quoted(key, i)}
Indexed(key, i) ==
  Cardinality({j \in Plain(key, "[") : j < i}) > Cardinality({j \in Plain(key, "]") : j < i})

\* Quotes only stand in brackets, there is no bracket or dot in brackets, and all
\* are closed.
IsWrong(key) ==
  \/ \E i \in DOMAIN key : key[i] = "\"" /\ ~Indexed(key, i)
  \/ \E i \in Plain(key, "[") \cup Plain(key, ".") : Indexed(key, i)
  \/ \E i \in Plain(key, "]") : ~Indexed(key, i)
  \/ Quoted(key, Len(key) + 1)
  \/ Indexed(key, Len(key) + 1)

\* What stands between a '[' or '.' and the next is a token, unless it is empty;
\* it keeps the ']' it ends with.
Cut(key) ==
  LET cuts == {0, Len(key) + 1} \cup Plain(key, "[") \cup Plain(key, ".")
      at == SetToSortSeq(cuts, <)
  IN SelectSeq([n \in 1 .. Len(at) - 1 |-> SubSeq(key, at[n] + 1, at[n + 1] - 1)],
               LAMBDA token : token # << >>)

\* _key_to_tokens: Null for a wrong key.
KeyToTokens(key) == IF IsWrong(Stripped(key)) THEN Null ELSE Cut(Stripped(key))

Digits == "0" :> 0 @@ "1" :> 1 @@ "2" :> 2 @@ "3" :> 3 @@ "9" :> 9

Number(digits) == FoldLeft(LAMBDA n, c : 10 * n + Digits[c], 0, digits)

\* strtol stops at the first character that is no digit, at the beginning if there
\* is no digit at all; an index stops at the ']'.
IsIndex(digits) == digits # << >> /\ ToSet(digits) \subseteq DOMAIN Digits
Unsigned(token) == IF token[1] = "-" THEN Tail(token) ELSE token
Strtol(token) == (IF token[1] = "-" THEN -1 ELSE 1) * Number(Front(Unsigned(token)))

\* What a token means on a node: a label in quotes on a Map, an index on a
\* List, any label on a Map, and nothing on other nodes.
LabelOf(text) == CHOOSE label \in Labels : TextOf[label] = text

IsA(obj, cls) == obj # Null /\ obj.cls = cls

Meaning(node, token) ==
  IF token[1] = "\"" /\ IsA(node, "Map")
  THEN [kind |-> "label", label |-> LabelOf(SubSeq(token, 2, Len(token) - 2))]
  ELSE IF Last(token) = "]" /\ IsA(node, "List")
  THEN IF token = <<"]">> THEN [kind |-> "index", index |-> 0]
       ELSE IF IsIndex(Front(Unsigned(token)))
       THEN [kind |-> "index", index |-> Strtol(token)]
       ELSE [kind |-> "no index"]
  ELSE IF IsA(node, "Map")
  THEN [kind |-> "label", label |-> LabelOf(token)]
  ELSE [kind |-> "nothing"]

\* PLANTED BUG: a negative index is not counted from the end.
PlaceForward(list, index) == IF index < 0 THEN 1 ELSE index + 1

\* list_get_at, list_set_at, list_remove_at: the place an index means, from 1;
\* there may be nothing.
Place(list, index) ==
  IF index >= 0 THEN index + 1
  ELSE IF index + Len(list) >= 0 THEN index + Len(list) + 1 ELSE 1

\* map_get, list_get_at: the child of a node that m means.
Child(node, m) ==
  IF m.kind = "label" /\ m.label \in DOMAIN node.held THEN node.held[m.label]
  ELSE IF m.kind = "index" /\ Place(node.held, m.index) <= Len(node.held)
  THEN node.held[Place(node.held, m.index)]
  ELSE Null

\* _get_node
GetNode(node, tokens) ==
  FoldLeft(LAMBDA n, token : IF n = Null THEN Null ELSE Child(n, Meaning(n, token)),
           node, tokens)

\* The tree when the node that tokens lead to has become now.
RECURSIVE ChangedAt(_, _, _)
ChangedAt(node, tokens, now) ==
  IF tokens = << >> THEN now
  ELSE LET m == Meaning(node, Head(tokens))
           at == IF m.kind = "label" THEN m.label ELSE Place(node.held, m.index)
       IN [node EXCEPT !.held[at] = ChangedAt(@, Tail(tokens), now)]

\* list_append of NULL puts a None there.
Padded(list, n) == list \o [i \in 1 .. n |-> Primitive(NoneObj)]

\* map_set, list_set_at and what follows it: obj is a child of node.
WithChild(node, m, obj) ==
  IF m.kind = "label" THEN MapWith(node, m.label, obj)
  ELSE IF Place(node.held, m.index) <= Len(node.held)
  THEN [node EXCEPT !.held[Place(node.held, m.index)] = obj]
  ELSE [node EXCEPT !.held = Append(Padded(@, m.index - Len(@)), obj)]

\* map_remove_key, list_remove_at
WithoutChild(node, m) ==
  IF m.kind = "label"
  THEN [node EXCEPT !.held = [l \in DOMAIN @ \ {m.label} |-> @[l]]]
  ELSE [node EXCEPT !.held = RemoveAt(@, Place(@, m.index))]

\* json_set_node: the tree, what is returned, the node that is deleted because
\* obj takes its place, and whether obj is put nowhere although TRUE is returned.
Refused(root_) == [tree |-> root_, ret |-> FALSE, old |-> Null, lost |-> FALSE]

SetIn(root_, above, prev, m, obj) ==
  IF m.kind = "nothing" THEN Refused(root_)
  ELSE IF m.kind = "no index" THEN [Refused(root_) EXCEPT !.ret = TRUE, !.lost = TRUE]
  ELSE [tree |-> ChangedAt(root_, above, WithChild(prev, m, obj)), ret |-> TRUE,
        old |-> Child(prev, m), lost |-> FALSE]

SetBelow(root_, above, prev, token, obj) ==
  IF prev = Null THEN Refused(root_)
  ELSE SetIn(root_, above, prev, Meaning(prev, token), obj)

SetNode(root_, tokens, obj) ==
  IF tokens = Null THEN Refused(root_)
  ELSE IF tokens = << >> THEN [tree |-> obj, ret |-> TRUE, old |-> root_, lost |-> FALSE]
  ELSE SetBelow(root_, Front(tokens), GetNode(root_, Front(tokens)), Last(tokens), obj)

\* json_remove_node: the tree, and the node that is returned.
RemoveIn(root_, above, prev, m) ==
  IF Child(prev, m) = Null THEN [tree |-> root_, node |-> Null]
  ELSE [tree |-> ChangedAt(root_, above, WithoutChild(prev, m)), node |-> Child(prev, m)]

RemoveBelow(root_, above, prev, token) ==
  IF prev = Null THEN [tree |-> root_, node |-> Null]
  ELSE RemoveIn(root_, above, prev, Meaning(prev, token))

RemoveNode(root_, tokens) ==
  IF tokens = Null THEN [tree |-> root_, node |-> Null]
  ELSE IF tokens = << >> THEN [tree |-> Null, node |-> root_]
  ELSE RemoveBelow(root_, Front(tokens), GetNode(root_, Front(tokens)), Last(tokens))
-----------------------------------------------------------------------------
\* A path to a node, step by step, and the keys it is written as.
Step_(l, i) == [label |-> l, index |-> i]
Paths == UNION {[1 .. n -> {Step_(l, Null) : l \in Strings} \cup {Step_(Null, i) : i \in Indexes}]
                  : n \in 0 .. 2}

IndexText(i) ==
  LET digit == CHOOSE d \in DOMAIN Digits : Digits[d] = IF i < 0 THEN -i ELSE i
  IN IF i < 0 THEN <<"-", digit>> ELSE <<digit>>

InQuotes(text) == <<"[", "\"">> \o text \o <<"\"", "]">>

\* A label without a dot is written plainly, or in quotes.
StepText(step, first, quotes) ==
  IF step.label = Null THEN <<"[">> \o IndexText(step.index) \o <<"]">>
  ELSE IF quotes \/ "." \in ToSet(TextOf[step.label]) THEN InQuotes(TextOf[step.label])
  ELSE (IF first THEN << >> ELSE <<".">>) \o TextOf[step.label]

KeyOf(path, quotes) ==
  FlattenSeq([i \in DOMAIN path |-> StepText(path[i], i = 1, quotes)])

Keys == {KeyOf(path, quotes) : path \in Paths, quotes \in BOOLEAN} \cup OtherKeys

\* The tokens of every key, and of those that paths are written as.
Tokenized == {KeyToTokens(key) : key \in Keys}
PathTokens == [path \in Paths |-> {KeyToTokens(KeyOf(path, quotes)) : quotes \in BOOLEAN}]

\* CONTRACT: with an empty list and a negative index json_set_node appends None
\* without end, since the index is compared as a number without a sign.
Ends(tokens) ==
  tokens \notin {Null, << >>} =>
    \A prev \in {GetNode(tree, Front(tokens))} \ {Null} :
      \A m \in {Meaning(prev, Last(tokens))} :
        ~(m.kind = "index" /\ m.index < 0 /\ prev.held = << >>)

-----------------------------------------------------------------------------
\* How often an object with mark o is in v.
RECURSIVE Count(_, _)
Count(o, v) ==
  IF v = Null THEN 0
  ELSE IF v.cls \in {"List", "Map"}
  THEN FoldFunction(LAMBDA x, n : n + Count(o, x), 0, v.held)
  ELSE IF v.held = o THEN 1 ELSE 0

\* delete(v): what it holds is deleted with it.
Deletes(v) == deletes' = [o \in Objs |-> deletes[o] + Count(o, v)]

\* is_valid_root: every object a tree is made of is one.
IsValidRoot(v) == v # Null

\* The tree can be worked on.
Ready == done /\ length <= MaxParsed

\* json_parse_to_obj has returned, and its variables are gone.
Op ==
  /\ Ready
  /\ ops < MaxOps
  /\ ops' = ops + 1
  /\ expect' = "VALUE" /\ err' = "SUCCESS" /\ root' = Null
  /\ length' = 0 /\ grammar' = Start
  /\ UNCHANGED <<stack, done>>

\* json_parse (first call): what json_parse_to_obj gives is the tree.
Parsed ==
  /\ Return
  /\ tree' = root'
  /\ error' = err'
  /\ UNCHANGED <<hand, made, deletes, lost, ops>>

\* json_parse again, with a text that is one value or none: the old tree is
\* deleted in any case.
ParseAgain ==
  /\ Op
  /\ Deletes(tree)
  /\ \/ tree' = EmptyList /\ error' = "SUCCESS"
     \/ tree' = Null /\ error' = "INVAL"
  /\ UNCHANGED <<hand, made, lost>>

\* The labels that are not the same when they are read as they are: those with a
\* quote or a backslash.
Awkward == {label \in Labels : RawOf[label] # label}

\* The program makes an object: a value, or a List or Map with one in it.
Make ==
  /\ Op
  /\ hand = Null
  /\ \E o \in Objs \ made :
       /\ made' = made \cup {o}
       /\ \/ hand' = Primitive(o)
          \/ hand' = ListWith(EmptyList, Primitive(o))
          \/ \E label \in Strings \cup Awkward : hand' = MapWith(EmptyMap, label, Primitive(o))
  /\ UNCHANGED <<tree, error, deletes, lost>>

\* The program deletes the object it holds.
Drop ==
  /\ Op
  /\ hand # Null
  /\ hand' = Null
  /\ Deletes(hand)
  /\ UNCHANGED <<tree, error, made, lost>>

JsonSetRoot ==
  /\ Op
  /\ IsValidRoot(hand)
  /\ Deletes(tree)
  /\ tree' = hand
  /\ error' = "SUCCESS"
  /\ hand' = Null
  /\ UNCHANGED <<made, lost>>

\* PLANTED BUG: the root that is replaced is not deleted.
ReplacedBelow(old, tokens) == IF tokens = << >> THEN Null ELSE old

\* What json_set_node deletes: map_set and list_set_at delete what was there,
\* and so does json_set_node when it replaces the root.
Replaced(old, tokens) == old

JsonSetNode(tokens) ==
  /\ Op
  /\ hand # Null
  /\ Ends(tokens)
  /\ \E set \in {SetNode(tree, tokens, hand)} :
       /\ set.ret
       /\ tree' = set.tree
       /\ Deletes(Replaced(set.old, tokens))
       /\ lost' = IF set.lost THEN lost \cup {o \in Objs : Count(o, hand) > 0} ELSE lost
  /\ hand' = Null
  /\ UNCHANGED <<error, made>>

JsonRemoveNode(tokens) ==
  /\ Op
  /\ hand = Null
  /\ \E removed \in {RemoveNode(tree, tokens)} :
       removed.node # Null /\ tree' = removed.tree /\ hand' = removed.node
  /\ UNCHANGED <<error, made, deletes, lost>>

JsonDeleteNode(tokens) ==
  /\ Op
  /\ \E removed \in {RemoveNode(tree, tokens)} :
       removed.node # Null /\ tree' = removed.tree /\ Deletes(removed.node)
  /\ UNCHANGED <<error, hand, made, lost>>

JsonInit ==
  /\ Init
  /\ tree = Null
  /\ error = "SUCCESS"
  /\ hand = Null
  /\ made = {}
  /\ deletes = [o \in Objs |-> 0]
  /\ lost = {}
  /\ ops = 0

JsonNext ==
  \/ (\E t \in Tokens : Token(t)) /\ UNCHANGED nodeVars
  \/ Parsed \/ ParseAgain \/ Make \/ Drop \/ JsonSetRoot
  \/ Ready /\ \E tokens \in Tokenized :
       JsonSetNode(tokens) \/ JsonRemoveNode(tokens) \/ JsonDeleteNode(tokens)

JsonSpec == JsonInit /\ [][JsonNext]_jsonVars
-----------------------------------------------------------------------------
\* What a path means: a label of a Map; an index of a List, from the end if it
\* is negative, the first element if it goes beyond that.
Fits(v, step) == IsA(v, IF step.label = Null THEN "List" ELSE "Map")

Nth(list, index) ==
  CHOOSE n \in 1 .. Len(list) + index + 1 + MaxOps :
    IF index >= 0 THEN n = index + 1
    ELSE IF index < -Len(list) THEN n = 1 ELSE n = Len(list) + 1 + index

ChildAt(v, step) == IF step.label = Null THEN Nth(v.held, step.index) ELSE step.label

At(tree_, path) ==
  FoldLeft(LAMBDA v, step : IF Fits(v, step) /\ ChildAt(v, step) \in DOMAIN v.held
                            THEN v.held[ChildAt(v, step)] ELSE Null,
           tree_, path)

\* v with x at a path, whose last step alone may lead to something new.
RECURSIVE With(_, _, _)
With(v, path, x) ==
  IF path = << >> THEN x
  ELSE LET at == ChildAt(v, Head(path))
           places == DOMAIN v.held \cup (IF IsA(v, "List") THEN 1 .. at ELSE {at})
       IN [v EXCEPT !.held =
             [i \in places |-> IF i = at THEN With(IF i \in DOMAIN @ THEN @[i] ELSE Null,
                                                   Tail(path), x)
                               ELSE IF i \in DOMAIN @ THEN @[i] ELSE Primitive(NoneObj)]]

\* v without the node at a path.
RECURSIVE Without(_, _)
Without(v, path) ==
  LET at == ChildAt(v, Head(path)) IN
  IF Len(path) > 1 THEN [v EXCEPT !.held[at] = Without(@, Tail(path))]
  ELSE IF IsA(v, "List")
  THEN [v EXCEPT !.held = [i \in 1 .. Len(@) - 1 |-> @[IF i < at THEN i ELSE i + 1]]]
  ELSE [v EXCEPT !.held = [i \in DOMAIN @ \ {at} |-> @[i]]]

NoIndexOnMap(path) ==
  \A i \in DOMAIN path :
    path[i].label = Null => ~IsA(At(tree, SubSeq(path, 1, i - 1)), "Map")

\* Whatever the tree is, a key reaches the node that the path it is written for
\* leads to, and no other: json_get_node returns it, json_set_node puts an
\* object there, where a List is filled up with None, and json_remove_node takes
\* it out; all others stay as they are, and what does not fit is refused
\* (json.c:149-341).
NodesAgree ==
  Ready =>
    \A path \in {p \in Paths \ {<< >>} : NoIndexOnMap(p)} :
      LET x == Primitive(NoneObj)
          node == At(tree, path)
          fits == Fits(At(tree, Front(path)), Last(path))
      IN
      \A tokens \in PathTokens[path] :
        \A set \in {SetNode(tree, tokens, x)}, removed \in {RemoveNode(tree, tokens)} :
        /\ GetNode(tree, tokens) = node
        /\ removed.node = node
        /\ node # Null => removed.tree = Without(tree, path)
        /\ fits /\ Ends(tokens) =>
             set.ret /\ set.tree = With(tree, path, x) /\ set.old = node
        /\ set.ret => fits \/ set.lost

\* Every object that the program made is in the tree once, or in its hand, or
\* was deleted, once; only an index that is no number loses one (json.c:100-146,
\* 254-351).
OwnedOnce ==
  \A o \in made :
    Count(o, tree) + Count(o, hand) + deletes[o] + (IF o \in lost THEN 1 ELSE 0) = 1

-----------------------------------------------------------------------------
\* The labels of a Map in the order of its nodes: any order does.
LabelsOf(map) == SetToSeq(DOMAIN map.held)

\* PLANTED BUG: the last element has a comma, too.
CommaAlways(last) == <<",">>

\* What obj_pretty_cstr writes behind an element.
Comma_(last) == IF last THEN << >> ELSE <<",">>

\* obj_pretty_cstr: the tokens of a value, in a container or alone.  Labels are
\* printed as they are, other values by their repr.
RECURSIVE Pretty(_, _)
Pretty(v, last) ==
  CASE v.cls = "Map" ->
         LET labels == LabelsOf(v) IN
         <<"{">>
         \o FlattenSeq([i \in DOMAIN labels |->
              <<RawOf[labels[i]], ":">> \o Pretty(v.held[labels[i]], i = Len(labels))])
         \o <<"}">> \o Comma_(last)
    [] v.cls = "List" ->
         <<"[">>
         \o FlattenSeq([i \in DOMAIN v.held |-> Pretty(v.held[i], i = Len(v.held))])
         \o <<"]">> \o Comma_(last)
    [] OTHER -> <<ReprOf[v.held]>> \o Comma_(last)

\* list_to_cstr: a comma in front of a next node.
Joined(parts) ==
  FlattenSeq([i \in DOMAIN parts |->
                IF i < Len(parts) THEN parts[i] \o <<",">> ELSE parts[i]])

\* map_to_cstr and list_to_cstr, which are the repr of a Map and of a List, and the
\* repr of the other values.
RECURSIVE Repr(_)
Repr(v) ==
  LET labels == LabelsOf(v) IN
  CASE v.cls = "Map" ->
         <<"{">> \o Joined([i \in DOMAIN labels |->
                              <<RawOf[labels[i]], ":">> \o Repr(v.held[labels[i]])]) \o <<"}">>
    [] v.cls = "List" ->
         <<"[">> \o Joined([i \in DOMAIN v.held |-> Repr(v.held[i])]) \o <<"]">>
    [] OTHER -> <<ReprOf[v.held]>>

\* The to_cstr of a Str has no quotes, that of None is "None".
HasOwnCstr(v) == v.cls = "Str" \/ v = Primitive(NoneObj)

\* json_to_cstr: the to_cstr of the root.  Bad is for all that is not read as the
\* value it was printed of.
ToCstr(v) == IF HasOwnCstr(v) THEN <<Bad>> ELSE Repr(v)

\* The grammar for texts with everything that can be printed of a tree.
Printed == (Primitives \cup Objs \cup {NoneObj} \cup Range(ReprOf)) \ (Labels \cup {Bad})
Reader == INSTANCE JsonText WITH Strings <- Labels, Primitives <- Printed

\* A text is read as a value v.
ReadsAs(text, v) ==
  LET g == FoldLeft(LAMBDA h, t : Reader!Step(h, t), Reader!Start, text) IN
  Reader!IsWhole(g) /\ g.open = <<v>>

\* Each value in v is printed as what it is, and so is each label.
RECURSIVE IsExact(_)
IsExact(v) ==
  IF v.cls \notin {"List", "Map"} THEN ReprOf[v.held] = v.held
  ELSE /\ v.cls = "Map" => DOMAIN v.held \cap Awkward = {}
       /\ \A at \in DOMAIN v.held : IsExact(v.held[at])

\* What is printed of a tree on many lines is a text of one value, and this value
\* is the tree, unless a label in it has a quote or a backslash, or a double more
\* digits than are printed; on one line it is, too, unless the root is a Str or
\* None (print.c:316-366, list.c:370-386, map.c:247-266, json.c:377-380).
PrintedReadsBack ==
  done /\ tree # Null =>
    \A exact \in {IsExact(tree)} :
      /\ ReadsAs(Pretty(tree, TRUE), tree) = exact
      /\ ReadsAs(ToCstr(tree), tree) = (exact /\ ~HasOwnCstr(tree))
=============================================================================
