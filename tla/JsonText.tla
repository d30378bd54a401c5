------------------------------- MODULE JsonText ------------------------------
(***************************************************************************)
(* What a JSON text is: the grammar of one value, token by token, and the  *)
(* value that a text stands for.  This is the reference JsonParse is       *)
(* compared with; it knows nothing of how libmasc parses.                  *)
(***************************************************************************)
EXTENDS Integers, Sequences, TLC

CONSTANTS
  Strings,     (* the texts in quotes                                      *)
  Primitives,  (* numbers, true, false and null                            *)
  Bad          (* anything that is no token of JSON                        *)

Punctuation == {"{", "}", "[", "]", ":", ","}
Tokens == Punctuation \cup Strings \cup Primitives \cup {Bad}

Str(s) == [cls |-> "Str", held |-> s]
Primitive(p) == [cls |-> "Primitive", held |-> p]
EmptyList == [cls |-> "List", held |-> << >>]
EmptyMap == [cls |-> "Map", held |-> << >>]

Value(t) == IF t \in Strings THEN Str(t) ELSE Primitive(t)

\* A value with one more element at its end, or under a label.
ListWith(list, v) == [list EXCEPT !.held = Append(@, v)]
MapWith(map, label, v) == [map EXCEPT !.held = label :> v @@ @]

\* open: the containers that were begun, a label behind the map it is for;
\* want: what may come next.
Start == [open |-> << >>, want |-> {"value"}]
Broken == [open |-> << >>, want |-> {}]

IsWhole(g) == g.want = {"end"}

\* A value v is complete.
Completed(open, v) ==
  LET n == Len(open) IN
  IF n = 0
  THEN [open |-> <<v>>, want |-> {"end"}]
  ELSE IF open[n].cls = "List"
  THEN [open |-> [open EXCEPT ![n] = ListWith(@, v)],
        want |-> {"comma", "close"}]
  ELSE [open |-> Append(SubSeq(open, 1, n - 2),
                        MapWith(open[n - 1], open[n].held, v)),
        want |-> {"comma", "close"}]

Closer(cls) == IF cls = "Map" THEN "}" ELSE "]"

\* The state of the grammar after token t.
Step(g, t) ==
  LET n == Len(g.open)
      top == g.open[n]
  IN
  CASE t = "{" /\ "value" \in g.want ->
         [open |-> Append(g.open, EmptyMap), want |-> {"label", "close"}]
    [] t = "[" /\ "value" \in g.want ->
         [open |-> Append(g.open, EmptyList), want |-> {"value", "close"}]
    [] t \in Strings \cup Primitives /\ "value" \in g.want ->
         Completed(g.open, Value(t))
    [] t \in Strings /\ "label" \in g.want ->
         [open |-> Append(g.open, Str(t)), want |-> {"colon"}]
    [] t = ":" /\ "colon" \in g.want ->
         [g EXCEPT !.want = {"value"}]
    [] t = "," /\ "comma" \in g.want ->
         [g EXCEPT !.want = IF top.cls = "Map" THEN {"label"} ELSE {"value"}]
    [] t \in {"}", "]"} /\ "close" \in g.want /\ t = Closer(top.cls) ->
         Completed(SubSeq(g.open, 1, n - 1), top)
    [] OTHER -> Broken
=============================================================================
