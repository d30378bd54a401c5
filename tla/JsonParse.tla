------------------------------ MODULE JsonParse ------------------------------
(***************************************************************************)
(* json_parse_to_obj (src/json_parse.c): a loop over the text with a stack *)
(* of the containers and labels that are not complete yet, and what it     *)
(* expects next.  A text is a sequence of tokens, spaces left out.         *)
(***************************************************************************)
EXTENDS JsonText

CONSTANTS
  Null,      (* the null pointer                                           *)
  MaxTokens  (* BOUND: the length of a text                                *)

ASSUME JsonParseAssumption ==
  /\ MaxTokens \in Nat
  /\ Strings \cap Primitives = {}
  /\ Bad \notin Strings \cup Primitives
  /\ (Strings \cup Primitives \cup {Bad}) \cap Punctuation = {}

VARIABLES
  stack,   (* the stack, its last element on top                           *)
  expect,  (* expect_t                                                     *)
  err,     (* JsonError                                                    *)
  root,    (* *root                                                        *)
  done,    (* json_parse_to_obj has returned                               *)
  length,  (* history: the number of tokens it has come to                 *)
  grammar  (* history: what the grammar says of these tokens               *)

vars == <<stack, expect, err, root, done, length, grammar>>

\* The object on top of a stack that is not empty.
Top == stack[Len(stack)]
TopIs(cls) == stack # << >> /\ Top.cls = cls

\* expect2err
Expected ==
  CASE expect = "VALUE" -> "EXPECT_VALUE"
    [] expect = "END"   -> "EXTRA_DATA"
    [] expect = "COLON" -> "COLON"
    [] expect = "COMMA" -> "COMMA"

-----------------------------------------------------------------------------
\* PLANTED BUG: only the last element of a list is kept.
AppendToParentLast(s, obj) ==
  LET n == Len(s) IN
  IF n = 0 THEN [stack |-> <<obj>>, err |-> "SUCCESS"]
  ELSE IF s[n].cls = "List"
  THEN [stack |-> [s EXCEPT ![n].held = <<obj>>], err |-> "SUCCESS"]
  ELSE IF s[n].cls = "Str"
  THEN IF n = 1 THEN [stack |-> << >>, err |-> "EXTRA_DATA"]
       ELSE IF s[n - 1].cls = "Map"
       THEN [stack |-> Append(SubSeq(s, 1, n - 2), MapWith(s[n - 1], s[n].held, obj)),
             err |-> "SUCCESS"]
       ELSE [stack |-> SubSeq(s, 1, n - 1), err |-> "FATAL"]
  ELSE [stack |-> s, err |-> "EXTRA_DATA"]

\* append_to_parent: obj becomes the root, an element of the list or the value
\* of the label on top of the stack.
AppendToParent(s, obj) ==
  LET n == Len(s) IN
  IF n = 0 THEN [stack |-> <<obj>>, err |-> "SUCCESS"]
  ELSE IF s[n].cls = "List"
  THEN [stack |-> [s EXCEPT ![n] = ListWith(@, obj)], err |-> "SUCCESS"]
  ELSE IF s[n].cls = "Str"
  THEN IF n = 1 THEN [stack |-> << >>, err |-> "EXTRA_DATA"]
       ELSE IF s[n - 1].cls = "Map"
       THEN [stack |-> Append(SubSeq(s, 1, n - 2), MapWith(s[n - 1], s[n].held, obj)),
             err |-> "SUCCESS"]
       ELSE [stack |-> SubSeq(s, 1, n - 1), err |-> "FATAL"]
  ELSE [stack |-> s, err |-> "EXTRA_DATA"]

\* The loop goes on, and comes to token t.
Reads(t) ==
  /\ ~done
  /\ err = "SUCCESS"
  /\ length < MaxTokens
  /\ length' = length + 1
  /\ grammar' = Step(grammar, t)
  /\ UNCHANGED <<root, done>>

\* A token that is not what is expected.
Unexpected ==
  /\ err' = Expected
  /\ UNCHANGED <<stack, expect>>

\* An object is complete and goes to its parent.
Complete(s, obj) ==
  /\ stack' = AppendToParent(s, obj).stack
  /\ err' = AppendToParent(s, obj).err
  /\ expect' = "COMMA"

\* '{' or '[': whatever is begun is put on the stack.
Begin(t) ==
  /\ Reads(t)
  /\ t \in {"{", "["}
  /\ IF expect = "VALUE"
     THEN /\ stack' = Append(stack, IF t = "{" THEN EmptyMap ELSE EmptyList)
          /\ UNCHANGED <<expect, err>>
     ELSE Unexpected

\* '}' or ']', whatever is expected.  What closes the last object on the stack
\* is not compared with it.
End(t) ==
  /\ Reads(t)
  /\ t \in {"}", "]"}
  /\ IF Len(stack) > 1
     THEN LET rest == SubSeq(stack, 1, Len(stack) - 1) IN
          IF \/ t = "}" /\ TopIs("Map")
             \/ t = "]" /\ TopIs("List")
          THEN Complete(rest, Top)
          ELSE stack' = rest /\ err' = "MISSMATCH" /\ expect' = "COMMA"
     ELSE IF Len(stack) = 1
     THEN expect' = "END" /\ UNCHANGED <<stack, err>>
     ELSE err' = "INVAL" /\ UNCHANGED <<stack, expect>>

\* A text on a Map is a label.
IsLabel == TopIs("Map")

\* A text in quotes.
String(t) ==
  /\ Reads(t)
  /\ t \in Strings
  /\ IF expect # "VALUE" THEN Unexpected
     ELSE IF IsLabel
     THEN /\ stack' = Append(stack, Str(t))
          /\ expect' = "COLON"
          /\ UNCHANGED err
     ELSE Complete(stack, Str(t))

\* ':'
Colon(t) ==
  /\ Reads(t)
  /\ t = ":"
  /\ IF expect = "COLON" THEN expect' = "VALUE" /\ UNCHANGED <<stack, err>>
     ELSE Unexpected

\* ','
Comma(t) ==
  /\ Reads(t)
  /\ t = ","
  /\ IF expect = "COMMA" THEN expect' = "VALUE" /\ UNCHANGED <<stack, err>>
     ELSE Unexpected

\* A number, true, false or null.
OtherValue(t) ==
  /\ Reads(t)
  /\ t \in Primitives
  /\ IF expect = "VALUE" THEN Complete(stack, Primitive(t)) ELSE Unexpected

\* A character no token begins with, a text without its second quote, or the
\* beginning of a token that is none.
NoToken(t) ==
  /\ Reads(t)
  /\ t = Bad
  /\ IF expect = "VALUE" THEN err' = "INVAL" /\ UNCHANGED <<stack, expect>>
     ELSE Unexpected

\* The end of the text, or an error: the object at the bottom of the stack is
\* the root, the others are deleted with the stack.
Return ==
  /\ ~done
  /\ done' = TRUE
  /\ root' = IF err # "SUCCESS" \/ stack = << >> THEN Null ELSE stack[1]
  /\ stack' = << >>
  /\ UNCHANGED <<expect, err, length, grammar>>

Init ==
  /\ stack = << >>
  /\ expect = "VALUE"
  /\ err = "SUCCESS"
  /\ root = Null
  /\ done = FALSE
  /\ length = 0
  /\ grammar = Start

Token(t) ==
  \/ Begin(t) \/ End(t) \/ String(t) \/ Colon(t) \/ Comma(t)
  \/ OtherValue(t) \/ NoToken(t)

Next == (\E t \in Tokens : Token(t)) \/ Return

Spec == Init /\ [][Next]_vars

-----------------------------------------------------------------------------
\* As long as a text can still become one value, it is not refused, and the
\* stack holds what was begun, each label on the map it is for; a text that is
\* one value gives this value; and json.c:22 "Fatal parser error" does not
\* happen: whatever the text is, a label that gets its value stands on a map, or
\* alone (json_parse.c:85-223).
GrammarAccepted ==
  /\ grammar # Broken /\ ~done => err = "SUCCESS" /\ stack = grammar.open
  /\ done /\ IsWhole(grammar) => root = grammar.open[1]
  /\ err # "FATAL"

\* json.c:24 "Not a full JSON string, more bytes expected", json.c:26
\* "Missmatch of '}' or ']'": a text that is accepted is one whole value.
AcceptedIsWhole ==
  done /\ err = "SUCCESS" => IsWhole(grammar)
=============================================================================
