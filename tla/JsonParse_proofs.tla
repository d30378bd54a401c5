--------------------------- MODULE JsonParse_proofs --------------------------
(***************************************************************************)
(* The parser of JSON follows the grammar, for texts of any length and any *)
(* strings and primitives:                                                 *)
(*   ParserAccepts  what can still become one value is not refused, what   *)
(*                  is one value gives it, and the fatal error does not    *)
(*                  happen.                                                *)
(*                                                                         *)
(* GrammarAccepted is not inductive: what the grammar says may come next   *)
(* has to agree with what the parser expects and with what is on top of    *)
(* the stack (Agrees), and the stack has to be a path from the root to the *)
(* container that is open (IsPath).  Once the text is broken, the stack is *)
(* any stack the parser can build; that a label is on a Map is all that is *)
(* left (LabelsOnMaps).                                                    *)
(***************************************************************************)
EXTENDS JsonParse, SequenceTheorems, TLAPS

-----------------------------------------------------------------------------
\* The objects on the stack, and a sequence of them.
Classes == {"List", "Map", "Str", "Primitive"}
IsNode(v) == v.cls \in Classes /\ v = [cls |-> v.cls, held |-> v.held]
IsStack(s) == \E S : s \in Seq(S) /\ \A v \in S : IsNode(v)

LEMMA StackOf ==
  ASSUME NEW S, NEW s \in Seq(S), \A v \in S : IsNode(v)
  PROVE  IsStack(s)
<1> SUFFICES \E T : s \in Seq(T) /\ \A v \in T : IsNode(v)
  BY DEF IsStack
<1> WITNESS S
<1> QED
  OBVIOUS

LEMMA NoStack == IsStack(<< >>) /\ Len(<< >>) = 0
<1>1. PICK S : S = {}
  OBVIOUS
<1>2. << >> \in Seq(S) /\ \A v \in S : IsNode(v)
  BY <1>1, EmptySeq
<1>3. IsStack(<< >>)
  BY <1>2, StackOf
<1>4. QED
  BY <1>3

LEMMA NewNodes ==
  ASSUME NEW t
  PROVE  /\ IsNode(EmptyMap) /\ EmptyMap.cls = "Map"
         /\ IsNode(EmptyList) /\ EmptyList.cls = "List"
         /\ IsNode(Str(t)) /\ Str(t).cls = "Str" /\ Str(t).held = t
         /\ IsNode(Primitive(t)) /\ Primitive(t).cls = "Primitive"
BY DEF IsNode, Classes, EmptyMap, EmptyList, Str, Primitive

LEMMA GrownNodes ==
  ASSUME NEW v, IsNode(v), NEW w, NEW label
  PROVE  /\ IsNode(ListWith(v, w)) /\ ListWith(v, w).cls = v.cls
         /\ IsNode(MapWith(v, label, w)) /\ MapWith(v, label, w).cls = v.cls
BY DEF IsNode, ListWith, MapWith

LEMMA StackFacts ==
  ASSUME NEW s, IsStack(s)
  PROVE  /\ Len(s) \in Nat /\ DOMAIN s = 1 .. Len(s)
         /\ \A i \in 1 .. Len(s) : IsNode(s[i])
         /\ s = << >> <=> Len(s) = 0
<1>1. PICK S : s \in Seq(S) /\ \A v \in S : IsNode(v)
  BY DEF IsStack
<1>2. QED
  BY <1>1, LenProperties, ElementOfSeq, EmptySeq

\* A stack may hold one node more.
LEMMA WiderStack ==
  ASSUME NEW s, IsStack(s), NEW v, IsNode(v)
  PROVE  \E T : s \in Seq(T) /\ v \in T /\ \A x \in T : IsNode(x)
<1>1. PICK S : s \in Seq(S) /\ \A x \in S : IsNode(x)
  BY DEF IsStack
<1>2. s \in Seq(S \cup {v})
  BY <1>1, SeqMonotonic
<1>3. QED
  BY <1>1, <1>2

LEMMA Alone ==
  ASSUME NEW v, IsNode(v)
  PROVE  IsStack(<<v>>) /\ Len(<<v>>) = 1 /\ <<v>>[1] = v
<1>1. PICK S : S = {v}
  OBVIOUS
<1>2. <<v>> \in Seq(S) /\ \A x \in S : IsNode(x)
  BY <1>1
<1>3. IsStack(<<v>>)
  BY <1>2, StackOf
<1>4. QED
  BY <1>3

LEMMA Pushed ==
  ASSUME NEW s, IsStack(s), NEW v, IsNode(v)
  PROVE  /\ IsStack(Append(s, v))
         /\ Len(Append(s, v)) = Len(s) + 1
         /\ Append(s, v)[Len(s) + 1] = v
         /\ \A i \in 1 .. Len(s) : Append(s, v)[i] = s[i]
<1>1. PICK T : s \in Seq(T) /\ v \in T /\ \A x \in T : IsNode(x)
  BY WiderStack
<1>2. /\ Append(s, v) \in Seq(T)
      /\ Len(Append(s, v)) = Len(s) + 1
      /\ Append(s, v)[Len(s) + 1] = v
      /\ \A i \in 1 .. Len(s) : Append(s, v)[i] = s[i]
  BY <1>1, AppendProperties
<1>3. IsStack(Append(s, v))
  BY <1>1, <1>2, StackOf
<1>4. QED
  BY <1>2, <1>3

LEMMA Popped ==
  ASSUME NEW s, IsStack(s), NEW k \in 0 .. Len(s)
  PROVE  /\ IsStack(SubSeq(s, 1, k))
         /\ Len(SubSeq(s, 1, k)) = k
         /\ \A i \in 1 .. k : SubSeq(s, 1, k)[i] = s[i]
<1>1. PICK S : s \in Seq(S) /\ \A x \in S : IsNode(x)
  BY DEF IsStack
<1>2. Len(s) \in Nat /\ k \in Nat /\ \A i \in 1 .. k : i \in 1 .. Len(s)
  BY <1>1, LenProperties
<1>3. \A i \in 1 .. k : s[i] \in S
  BY <1>1, <1>2, ElementOfSeq
<1>4. /\ SubSeq(s, 1, k) \in Seq(S)
      /\ Len(SubSeq(s, 1, k)) = k
      /\ \A i \in 1 .. k : SubSeq(s, 1, k)[i] = s[i]
  BY <1>1, <1>2, <1>3, SubSeqProperties
<1>5. QED
  BY <1>1, <1>4, StackOf

LEMMA Replaced ==
  ASSUME NEW s, IsStack(s), s # << >>, NEW v, IsNode(v)
  PROVE  LET r == [s EXCEPT ![Len(s)] = v] IN
         /\ IsStack(r)
         /\ Len(r) = Len(s)
         /\ r[Len(s)] = v
         /\ \A i \in 1 .. Len(s) - 1 : r[i] = s[i]
<1>1. PICK T : s \in Seq(T) /\ v \in T /\ \A x \in T : IsNode(x)
  BY WiderStack
<1>2. Len(s) \in 1 .. Len(s)
  BY <1>1, LenProperties, EmptySeq
<1> DEFINE r == [s EXCEPT ![Len(s)] = v]
<1>3. /\ r \in Seq(T)
      /\ Len(r) = Len(s)
      /\ \A i \in 1 .. Len(s) : r[i] = IF i = Len(s) THEN v ELSE s[i]
  BY <1>1, <1>2, ExceptSeq
<1> HIDE DEF r
<1>4. IsStack(r)
  BY <1>1, <1>3, StackOf
<1>5. /\ r[Len(s)] = v
      /\ \A i \in 1 .. Len(s) - 1 : i \in 1 .. Len(s) /\ i # Len(s)
  BY <1>1, <1>2, <1>3, LenProperties
<1>6. QED
  BY <1>3, <1>4, <1>5 DEF r

-----------------------------------------------------------------------------
(***************************************************************************)
(* The grammar, one kind of token at a time.                               *)
(***************************************************************************)
\* A value and a label never are what may come next both.
Clear(g) == ~("value" \in g.want /\ "label" \in g.want)

LEMMA StepBroken ==
  ASSUME NEW t
  PROVE  Step(Broken, t) = Broken
BY DEF Step, Broken

LEMMA StepPunctuation ==
  ASSUME NEW g
  PROVE  /\ Step(g, "{") = IF "value" \in g.want
                           THEN [open |-> Append(g.open, EmptyMap), want |-> {"label", "close"}]
                           ELSE Broken
         /\ Step(g, "[") = IF "value" \in g.want
                           THEN [open |-> Append(g.open, EmptyList), want |-> {"value", "close"}]
                           ELSE Broken
         /\ Step(g, ":") = IF "colon" \in g.want
                           THEN [g EXCEPT !.want = {"value"}]
                           ELSE Broken
         /\ Step(g, ",") = IF "comma" \in g.want
                           THEN [g EXCEPT !.want = IF g.open[Len(g.open)].cls = "Map"
                                                   THEN {"label"} ELSE {"value"}]
                           ELSE Broken
BY JsonParseAssumption DEF Step, Punctuation

LEMMA StepClose ==
  ASSUME NEW g, NEW t \in {"}", "]"}
  PROVE  Step(g, t) = IF "close" \in g.want /\ t = Closer(g.open[Len(g.open)].cls)
                      THEN Completed(SubSeq(g.open, 1, Len(g.open) - 1), g.open[Len(g.open)])
                      ELSE Broken
BY JsonParseAssumption DEF Step, Punctuation

LEMMA StepString ==
  ASSUME NEW g, Clear(g), NEW t \in Strings
  PROVE  Step(g, t) = IF "value" \in g.want THEN Completed(g.open, Str(t))
                      ELSE IF "label" \in g.want
                      THEN [open |-> Append(g.open, Str(t)), want |-> {"colon"}]
                      ELSE Broken
BY JsonParseAssumption DEF Step, Punctuation, Value, Clear

LEMMA StepPrimitive ==
  ASSUME NEW g, NEW t \in Primitives
  PROVE  Step(g, t) = IF "value" \in g.want THEN Completed(g.open, Primitive(t)) ELSE Broken
BY JsonParseAssumption DEF Step, Punctuation, Value

LEMMA StepBad ==
  ASSUME NEW g
  PROVE  Step(g, Bad) = Broken
BY JsonParseAssumption DEF Step, Punctuation

-----------------------------------------------------------------------------
(***************************************************************************)
(* What the parser's stack looks like.                                     *)
(***************************************************************************)
LastOf(s) == s[Len(s)]

\* A label is on a Map, or alone.
LabelsOnMaps(s) == \A i \in 2 .. Len(s) : s[i].cls = "Str" => s[i - 1].cls = "Map"

\* The way from the root to the container that is open: labels stand on Maps, and
\* what stands on a Map is a label.
IsPath(s) ==
  /\ \A i \in 1 .. Len(s) : s[i].cls # "Primitive"
  /\ Len(s) > 0 => s[1].cls # "Str"
  /\ \A i \in 2 .. Len(s) : s[i].cls = "Str" <=> s[i - 1].cls = "Map"

\* A value can come.
Awaits(s) == s = << >> \/ LastOf(s).cls \in {"List", "Str"}

LEMMA PushedLabels ==
  ASSUME NEW s, IsStack(s), LabelsOnMaps(s), NEW v, IsNode(v),
         v.cls = "Str" => s # << >> /\ LastOf(s).cls = "Map"
  PROVE  LabelsOnMaps(Append(s, v))
<1> DEFINE n == Len(s)
           r == Append(s, v)
<1>1. n \in Nat
  BY StackFacts
<1>2. Len(r) = n + 1 /\ r[n + 1] = v /\ \A i \in 1 .. n : r[i] = s[i]
  BY Pushed
<1> HIDE DEF r
<1> SUFFICES ASSUME NEW i \in 2 .. Len(r), r[i].cls = "Str"
             PROVE  r[i - 1].cls = "Map"
  BY DEF LabelsOnMaps, r
<1>3. CASE i \in 2 .. n
  <2>1. i \in 1 .. n /\ i - 1 \in 1 .. n
    BY <1>1, <1>3
  <2>2. r[i] = s[i] /\ r[i - 1] = s[i - 1]
    BY <1>2, <2>1
  <2>3. QED
    BY <1>3, <2>2 DEF LabelsOnMaps
<1>4. CASE i = n + 1
  BY <1>1, <1>2, <1>4 DEF LastOf
<1>5. QED
  BY <1>1, <1>2, <1>3, <1>4

\* Whatever is on the stack, what an object makes of it is such a stack again.
LEMMA AppendAny ==
  ASSUME NEW s, IsStack(s), LabelsOnMaps(s), NEW v, IsNode(v)
  PROVE  /\ IsStack(AppendToParent(s, v).stack)
         /\ LabelsOnMaps(AppendToParent(s, v).stack)
         /\ AppendToParent(s, v).err \in {"SUCCESS", "EXTRA_DATA"}
<1> DEFINE n == Len(s)
<1>1. /\ n \in Nat /\ \A i \in 1 .. n : IsNode(s[i])
      /\ s = << >> <=> n = 0
  BY StackFacts
<1>2. CASE n = 0
  BY <1>2, Alone DEF AppendToParent, LabelsOnMaps
<1>3. CASE n # 0 /\ s[n].cls = "List"
  <2>1. IsNode(ListWith(s[n], v)) /\ ListWith(s[n], v).cls = "List"
    BY <1>1, <1>3, GrownNodes
  <2> DEFINE r == [s EXCEPT ![n] = ListWith(s[n], v)]
  <2>2. /\ IsStack(r) /\ Len(r) = n /\ r[n] = ListWith(s[n], v)
        /\ \A i \in 1 .. n - 1 : r[i] = s[i]
    BY <1>1, <1>3, <2>1, Replaced
  <2>3. AppendToParent(s, v) = [stack |-> r, err |-> "SUCCESS"]
    BY <1>3 DEF AppendToParent
  <2> HIDE DEF r, n
  <2>4. \A i \in 2 .. n : r[i].cls = s[i].cls /\ r[i - 1].cls = s[i - 1].cls
    BY <1>1, <1>3, <2>1, <2>2
  <2>5. LabelsOnMaps(r)
    BY <2>2, <2>4 DEF LabelsOnMaps, n
  <2>6. QED
    BY <2>2, <2>3, <2>5
<1>4. CASE n = 1 /\ s[n].cls = "Str"
  BY <1>4, NoStack DEF AppendToParent, LabelsOnMaps
<1>5. CASE n > 1 /\ s[n].cls = "Str"
  <2>1. s[n - 1].cls = "Map"
    BY <1>1, <1>5 DEF LabelsOnMaps
  <2> DEFINE m == MapWith(s[n - 1], s[n].held, v)
             q == SubSeq(s, 1, n - 2)
             r == Append(q, m)
  <2>2. IsNode(m) /\ m.cls = "Map"
    BY <1>1, <1>5, <2>1, GrownNodes
  <2>3. IsStack(q) /\ Len(q) = n - 2 /\ \A i \in 1 .. n - 2 : q[i] = s[i]
    <3>1. n - 2 \in 0 .. n
      BY <1>1, <1>5
    <3>2. QED
      BY <3>1, Popped
  <2>4. AppendToParent(s, v) = [stack |-> r, err |-> "SUCCESS"]
    BY <1>5, <2>1 DEF AppendToParent
  <2> HIDE DEF m, q
  <2>5. /\ IsStack(r) /\ Len(r) = n - 1 /\ r[n - 1] = m
        /\ \A i \in 1 .. n - 2 : r[i] = s[i]
    BY <1>1, <1>5, <2>2, <2>3, Pushed
  <2> HIDE DEF r, n
  <2>6. \A i \in 1 .. n - 1 : r[i].cls = s[i].cls
    BY <1>1, <1>5, <2>1, <2>2, <2>5
  <2>7. LabelsOnMaps(r)
    BY <1>1, <2>5, <2>6 DEF LabelsOnMaps, n
  <2>8. QED
    BY <2>4, <2>5, <2>7
<1>6. CASE n # 0 /\ s[n].cls \notin {"List", "Str"}
  BY <1>6 DEF AppendToParent
<1> HIDE DEF n
<1>7. n = 0 \/ n = 1 \/ n > 1
  BY <1>1
<1>8. QED
  BY <1>2, <1>3, <1>4, <1>5, <1>6, <1>7

-----------------------------------------------------------------------------
(***************************************************************************)
(* The stack, what is expected and what the grammar says agree.            *)
(***************************************************************************)
Agrees(s, want, exp) ==
  \/ want = {"end"} /\ Len(s) = 1
  \/ /\ IsPath(s)
     /\ want = {"value"} /\ exp = "VALUE" /\ Awaits(s)
  \/ /\ IsPath(s) /\ s # << >>
     /\ \/ /\ want \in {{"label"}, {"label", "close"}} /\ exp = "VALUE"
           /\ LastOf(s).cls = "Map"
        \/ want = {"value", "close"} /\ exp = "VALUE" /\ LastOf(s).cls = "List"
        \/ want = {"colon"} /\ exp = "COLON" /\ LastOf(s).cls = "Str"
        \/ want = {"comma", "close"} /\ exp = "COMMA" /\ LastOf(s).cls \in {"List", "Map"}

ParserInv ==
  /\ IsStack(stack) /\ LabelsOnMaps(stack)
  /\ err # "FATAL" /\ expect \in {"VALUE", "END", "COLON", "COMMA"}
  /\ grammar # Broken /\ ~done =>
       /\ err = "SUCCESS"
       /\ grammar = [open |-> stack, want |-> grammar.want]
       /\ Agrees(stack, grammar.want, expect)
  /\ done /\ IsWhole(grammar) => root = grammar.open[1]

\* What each thing that can come says of the stack.
LEMMA WhatCanCome ==
  ASSUME NEW s, NEW want, NEW exp, Agrees(s, want, exp)
  PROVE  /\ "value" \in want => IsPath(s) /\ Awaits(s) /\ exp = "VALUE"
         /\ "label" \in want => IsPath(s) /\ s # << >> /\ LastOf(s).cls = "Map" /\ exp = "VALUE"
         /\ "colon" \in want => IsPath(s) /\ s # << >> /\ LastOf(s).cls = "Str" /\ exp = "COLON"
         /\ "comma" \in want \/ "close" \in want =>
              IsPath(s) /\ s # << >> /\ LastOf(s).cls \in {"List", "Map"}
         /\ "comma" \in want => exp = "COMMA"
<1>1. CASE want = {"end"} /\ Len(s) = 1
  BY <1>1
<1>2. CASE /\ IsPath(s)
           /\ want = {"value"} /\ exp = "VALUE" /\ Awaits(s)
  BY <1>2
<1> DEFINE On == IsPath(s) /\ s # << >>
<1>3. CASE On /\ want = {"label"} /\ exp = "VALUE" /\ LastOf(s).cls = "Map"
  BY <1>3
<1>4. CASE On /\ want = {"label", "close"} /\ exp = "VALUE" /\ LastOf(s).cls = "Map"
  BY <1>4
<1>5. CASE On /\ want = {"value", "close"} /\ exp = "VALUE" /\ LastOf(s).cls = "List"
  BY <1>5 DEF Awaits
<1>6. CASE On /\ want = {"colon"} /\ exp = "COLON" /\ LastOf(s).cls = "Str"
  BY <1>6
<1>7. CASE On /\ want = {"comma", "close"} /\ exp = "COMMA" /\ LastOf(s).cls \in {"List", "Map"}
  BY <1>7
<1>8. QED
  BY <1>1, <1>2, <1>3, <1>4, <1>5, <1>6, <1>7 DEF Agrees

\* A path is one by the classes of its objects, and so is each beginning of it.
LEMMA SamePath ==
  ASSUME NEW s, IsPath(s), Len(s) \in Nat,
         NEW r, Len(r) \in Nat, Len(r) <= Len(s),
         \A i \in 1 .. Len(r) : r[i].cls = s[i].cls
  PROVE  IsPath(r)
<1>1. /\ \A i \in 1 .. Len(r) : i \in 1 .. Len(s)
      /\ \A i \in 2 .. Len(r) : i \in 2 .. Len(s) /\ i \in 1 .. Len(r) /\ i - 1 \in 1 .. Len(r)
      /\ Len(r) > 0 => Len(s) > 0 /\ 1 \in 1 .. Len(r)
  OBVIOUS
<1>2. \A i \in 1 .. Len(r) : r[i].cls # "Primitive"
  BY <1>1 DEF IsPath
<1>3. Len(r) > 0 => r[1].cls # "Str"
  BY <1>1 DEF IsPath
<1>4. \A i \in 2 .. Len(r) : r[i].cls = "Str" <=> r[i - 1].cls = "Map"
  BY <1>1 DEF IsPath
<1>5. QED
  BY <1>2, <1>3, <1>4 DEF IsPath

\* Where a value can come, the parser does with it what the grammar does.
LEMMA CompletedAgrees ==
  ASSUME NEW s, IsStack(s), IsPath(s), Awaits(s), NEW v, IsNode(v)
  PROVE  LET c == Completed(s, v) IN
         /\ AppendToParent(s, v) = [stack |-> c.open, err |-> "SUCCESS"]
         /\ c = [open |-> c.open, want |-> c.want]
         /\ Agrees(c.open, c.want, "COMMA")
<1> DEFINE n == Len(s)
<1>1. /\ n \in Nat /\ \A i \in 1 .. n : IsNode(s[i])
      /\ s = << >> <=> n = 0
  BY StackFacts
<1>2. CASE n = 0
  BY <1>2, Alone DEF AppendToParent, Completed, Agrees
<1>3. CASE n # 0 /\ s[n].cls = "List"
  <2>1. IsNode(ListWith(s[n], v)) /\ ListWith(s[n], v).cls = "List"
    BY <1>1, <1>3, GrownNodes
  <2> DEFINE r == [s EXCEPT ![n] = ListWith(s[n], v)]
  <2>2. /\ Len(r) = n /\ r[n] = ListWith(s[n], v)
        /\ \A i \in 1 .. n - 1 : r[i] = s[i]
    BY <1>1, <1>3, <2>1, Replaced
  <2>3. /\ AppendToParent(s, v) = [stack |-> r, err |-> "SUCCESS"]
        /\ Completed(s, v) = [open |-> r, want |-> {"comma", "close"}]
    BY <1>3 DEF AppendToParent, Completed
  <2> HIDE DEF r, n
  <2>4. \A i \in 1 .. n : r[i].cls = s[i].cls
    BY <1>1, <1>3, <2>1, <2>2
  <2>5. IsPath(r)
    BY <1>1, <2>2, <2>4, SamePath DEF n
  <2>6. r # << >> /\ LastOf(r).cls = "List"
    BY <1>1, <1>3, <2>1, <2>2, NoStack DEF LastOf
  <2>7. Agrees(r, {"comma", "close"}, "COMMA")
    BY <2>5, <2>6 DEF Agrees
  <2>8. QED
    BY <2>3, <2>7
<1>4. CASE n # 0 /\ s[n].cls = "Str"
  <2>1. n > 1 /\ s[n - 1].cls = "Map" /\ n - 2 \in 0 .. n
    BY <1>1, <1>4 DEF IsPath
  <2> DEFINE m == MapWith(s[n - 1], s[n].held, v)
             q == SubSeq(s, 1, n - 2)
             r == Append(q, m)
  <2>2. IsNode(m) /\ m.cls = "Map"
    BY <1>1, <2>1, GrownNodes
  <2>3. IsStack(q) /\ Len(q) = n - 2 /\ \A i \in 1 .. n - 2 : q[i] = s[i]
    BY <2>1, Popped
  <2>4. /\ AppendToParent(s, v) = [stack |-> r, err |-> "SUCCESS"]
        /\ Completed(s, v) = [open |-> r, want |-> {"comma", "close"}]
    BY <1>4, <2>1 DEF AppendToParent, Completed
  <2> HIDE DEF m, q
  <2>5. /\ IsStack(r) /\ Len(r) = n - 1 /\ r[n - 1] = m
        /\ \A i \in 1 .. n - 2 : r[i] = s[i]
    BY <1>1, <2>1, <2>2, <2>3, Pushed
  <2> HIDE DEF r, n
  <2>6. \A i \in 1 .. n - 1 : r[i].cls = s[i].cls
    BY <1>1, <2>1, <2>2, <2>5
  <2>7. IsPath(r)
    <3>1. \A i \in 1 .. Len(r) : r[i].cls = s[i].cls
      BY <2>5, <2>6
    <3>2. Len(r) \in Nat /\ Len(r) <= Len(s) /\ Len(s) \in Nat
      BY <1>1, <2>1, <2>5 DEF n
    <3>3. QED
      BY <3>1, <3>2, SamePath
  <2>8. r # << >> /\ LastOf(r).cls = "Map"
    BY <1>1, <2>1, <2>2, <2>5, NoStack DEF LastOf
  <2>9. Agrees(r, {"comma", "close"}, "COMMA")
    BY <2>7, <2>8 DEF Agrees
  <2>10. QED
    BY <2>4, <2>9
<1>5. QED
  BY <1>1, <1>2, <1>3, <1>4 DEF Awaits, LastOf

\* A container or a label that may stand on a path makes it a longer one.
LEMMA LongerPath ==
  ASSUME NEW s, IsStack(s), IsPath(s), NEW v, IsNode(v),
         \/ v.cls \in {"List", "Map"} /\ Awaits(s)
         \/ v.cls = "Str" /\ s # << >> /\ LastOf(s).cls = "Map"
  PROVE  /\ IsPath(Append(s, v))
         /\ Append(s, v) # << >>
         /\ LastOf(Append(s, v)) = v
<1> DEFINE n == Len(s)
           r == Append(s, v)
<1>1. n \in Nat /\ (s = << >> <=> n = 0)
  BY StackFacts
<1>2. Len(r) = n + 1 /\ r[n + 1] = v /\ \A i \in 1 .. n : r[i] = s[i]
  BY Pushed
<1> HIDE DEF r
<1>3. r # << >> /\ LastOf(r) = v
  BY <1>1, <1>2, NoStack DEF LastOf
<1>4. \A i \in 1 .. Len(r) : r[i].cls # "Primitive"
  BY <1>1, <1>2 DEF IsPath
<1>5. Len(r) > 0 => r[1].cls # "Str"
  BY <1>1, <1>2 DEF IsPath
<1>6. ASSUME NEW i \in 2 .. Len(r)
      PROVE  r[i].cls = "Str" <=> r[i - 1].cls = "Map"
  <2>1. CASE i \in 2 .. n
    <3>1. i \in 1 .. n /\ i - 1 \in 1 .. n
      BY <1>1, <2>1
    <3>2. r[i] = s[i] /\ r[i - 1] = s[i - 1]
      BY <1>2, <3>1
    <3>3. QED
      BY <2>1, <3>2 DEF IsPath
  <2>2. CASE i = n + 1
    BY <1>1, <1>2, <2>2 DEF Awaits, LastOf
  <2>3. QED
    BY <1>1, <1>2, <2>1, <2>2
<1>7. QED
  BY <1>3, <1>4, <1>5, <1>6 DEF IsPath, r

\* A path without its last container leads to where that one is a value.
LEMMA ShorterPath ==
  ASSUME NEW s, IsStack(s), IsPath(s), Len(s) > 1, LastOf(s).cls \in {"List", "Map"}
  PROVE  LET q == SubSeq(s, 1, Len(s) - 1) IN IsStack(q) /\ IsPath(q) /\ Awaits(q)
<1> DEFINE n == Len(s)
           q == SubSeq(s, 1, n - 1)
<1>1. n \in Nat /\ \A i \in 1 .. n : IsNode(s[i])
  BY StackFacts
<1>2. n - 1 \in 0 .. n
  BY <1>1
<1>3. IsStack(q) /\ Len(q) = n - 1 /\ \A i \in 1 .. n - 1 : q[i] = s[i]
  BY <1>2, Popped
<1> HIDE DEF q
<1>4. IsPath(q)
  BY <1>1, <1>3, SamePath
<1>5. s[n - 1].cls \in {"List", "Str"}
  <2>1. n \in 2 .. n /\ n - 1 \in 1 .. n
    BY <1>1
  <2>2. s[n - 1].cls # "Map" /\ s[n - 1].cls # "Primitive"
    BY <2>1 DEF IsPath, LastOf
  <2>3. s[n - 1].cls \in Classes
    BY <1>1, <2>1 DEF IsNode
  <2>4. QED
    BY <2>2, <2>3 DEF Classes
<1>6. Awaits(q)
  BY <1>1, <1>3, <1>5 DEF Awaits, LastOf
<1>7. QED
  BY <1>3, <1>4, <1>6 DEF q

-----------------------------------------------------------------------------
(***************************************************************************)
(* ParserInv is inductive.                                                 *)
(***************************************************************************)
\* What a token does to the parser, and what it has to do to stay with the grammar.
StackOk == /\ IsStack(stack) /\ LabelsOnMaps(stack)
           /\ err # "FATAL" /\ expect \in {"VALUE", "END", "COLON", "COMMA"}
Follows == /\ err = "SUCCESS"
           /\ grammar = [open |-> stack, want |-> grammar.want]
           /\ Agrees(stack, grammar.want, expect)

LEMMA ReadsInv ==
  ASSUME ParserInv, NEW t, Reads(t), StackOk', grammar' # Broken => Follows'
  PROVE  ParserInv'
BY DEF Reads, ParserInv, StackOk, Follows

\* A text that is not broken was not broken before.
LEMMA ReadsAlive ==
  ASSUME ParserInv, NEW t, Reads(t), grammar' # Broken
  PROVE  /\ err = "SUCCESS"
         /\ grammar.open = stack
         /\ grammar' = Step(grammar, t)
         /\ grammar = [open |-> stack, want |-> grammar.want]
         /\ Agrees(stack, grammar.want, expect)
         /\ Clear(grammar)
<1>1. grammar' = Step(grammar, t) /\ ~done
  BY DEF Reads
<1>2. grammar # Broken
  BY <1>1, StepBroken
<1>3. Follows
  BY <1>1, <1>2 DEF ParserInv, Follows
<1>4. Clear(grammar)
  BY <1>3, WhatCanCome DEF Follows, Clear, Awaits
<1>5. QED
  BY <1>1, <1>3, <1>4 DEF Follows

LEMMA UnexpectedOk ==
  ASSUME ParserInv, Unexpected
  PROVE  StackOk'
BY DEF Unexpected, Expected, ParserInv, StackOk

LEMMA CompleteOk ==
  ASSUME NEW s, IsStack(s), LabelsOnMaps(s), NEW v, IsNode(v), Complete(s, v)
  PROVE  StackOk'
BY AppendAny DEF Complete, StackOk

LEMMA CompleteFollows ==
  ASSUME NEW s, IsStack(s), IsPath(s), Awaits(s), NEW v, IsNode(v), Complete(s, v),
         grammar' = Completed(s, v)
  PROVE  Follows'
<1>1. PICK c : c = Completed(s, v)
  OBVIOUS
<1>2. /\ AppendToParent(s, v) = [stack |-> c.open, err |-> "SUCCESS"]
      /\ c = [open |-> c.open, want |-> c.want]
      /\ Agrees(c.open, c.want, "COMMA")
  BY <1>1, CompletedAgrees
<1>3. stack' = c.open /\ err' = "SUCCESS" /\ expect' = "COMMA" /\ grammar' = c
  BY <1>1, <1>2 DEF Complete
<1>4. QED
  BY <1>2, <1>3 DEF Follows

LEMMA BeginInv ==
  ASSUME ParserInv, NEW t, Begin(t)
  PROVE  ParserInv'
<1> DEFINE v == IF t = "{" THEN EmptyMap ELSE EmptyList
<1>1. Reads(t) /\ t \in {"{", "["}
  BY DEF Begin
<1>2. IsStack(stack) /\ LabelsOnMaps(stack) /\ Len(stack) \in Nat
  BY StackFacts DEF ParserInv
<1>3. IsNode(v) /\ v.cls = IF t = "{" THEN "Map" ELSE "List"
  BY <1>1, NewNodes
<1> HIDE DEF v
<1>4. StackOk'
  <2>1. CASE expect = "VALUE"
    <3>1. stack' = Append(stack, v) /\ UNCHANGED <<expect, err>>
      BY <2>1 DEF Begin, v
    <3>2. IsStack(stack') /\ LabelsOnMaps(stack')
      BY <1>1, <1>2, <1>3, <3>1, Pushed, PushedLabels
    <3>3. QED
      BY <3>1, <3>2 DEF StackOk, ParserInv
  <2>2. CASE expect # "VALUE"
    BY <2>2, UnexpectedOk DEF Begin
  <2>3. QED
    BY <2>1, <2>2
<1>5. ASSUME grammar' # Broken
      PROVE  Follows'
  <2>1. /\ err = "SUCCESS" /\ grammar.open = stack /\ grammar' = Step(grammar, t)
        /\ Agrees(stack, grammar.want, expect)
    BY <1>1, <1>5, ReadsAlive
  <2>2. /\ "value" \in grammar.want
        /\ grammar' = [open |-> Append(stack, v),
                       want |-> IF t = "{" THEN {"label", "close"} ELSE {"value", "close"}]
    BY <1>1, <1>5, <2>1, StepPunctuation DEF v
  <2>3. IsPath(stack) /\ Awaits(stack) /\ expect = "VALUE"
    BY <2>1, <2>2, WhatCanCome
  <2>4. stack' = Append(stack, v) /\ expect' = "VALUE" /\ err' = "SUCCESS"
    BY <2>1, <2>3 DEF Begin, v
  <2>5. IsPath(stack') /\ stack' # << >> /\ LastOf(stack') = v
    BY <1>1, <1>2, <1>3, <2>3, <2>4, LongerPath
  <2>6. Agrees(stack', grammar'.want, expect')
    BY <1>1, <1>3, <2>2, <2>4, <2>5 DEF Agrees
  <2>7. QED
    BY <2>2, <2>4, <2>6 DEF Follows
<1>6. QED
  BY <1>1, <1>4, <1>5, ReadsInv

LEMMA PoppedLabels ==
  ASSUME NEW s, IsStack(s), LabelsOnMaps(s), NEW k \in 0 .. Len(s)
  PROVE  LabelsOnMaps(SubSeq(s, 1, k))
<1>1. Len(s) \in Nat
  BY StackFacts
<1>2. Len(SubSeq(s, 1, k)) = k /\ \A i \in 1 .. k : SubSeq(s, 1, k)[i] = s[i]
  BY Popped
<1>3. \A i \in 2 .. k : i \in 2 .. Len(s) /\ i \in 1 .. k /\ i - 1 \in 1 .. k
  BY <1>1
<1>4. QED
  BY <1>2, <1>3 DEF LabelsOnMaps

LEMMA EndInv ==
  ASSUME ParserInv, NEW t, End(t)
  PROVE  ParserInv'
<1> DEFINE n == Len(stack)
           rest == SubSeq(stack, 1, n - 1)
<1>1. Reads(t) /\ t \in {"}", "]"}
  BY DEF End
<1>2. /\ IsStack(stack) /\ LabelsOnMaps(stack)
      /\ n \in Nat /\ \A i \in 1 .. n : IsNode(stack[i])
      /\ stack = << >> <=> n = 0
  BY StackFacts DEF ParserInv
<1> DEFINE closes == \/ t = "}" /\ TopIs("Map")
                     \/ t = "]" /\ TopIs("List")
           drop == stack' = rest /\ err' = "MISSMATCH" /\ expect' = "COMMA"
           finish == expect' = "END" /\ UNCHANGED <<stack, err>>
           fail == err' = "INVAL" /\ UNCHANGED <<stack, expect>>
<1>end. /\ n > 1 => (closes /\ Complete(rest, Top)) \/ (~closes /\ drop)
        /\ ~(n > 1) /\ n = 1 => finish
        /\ ~(n > 1) /\ n # 1 => fail
  BY Zenon DEF End
<1>3. CASE n > 1
  <2>1. (closes /\ Complete(rest, Top)) \/ (~closes /\ drop)
    BY <1>3, <1>end
  <2>2. n - 1 \in 0 .. n /\ IsNode(Top)
    BY <1>2, <1>3 DEF Top
  <2>3. IsStack(rest) /\ LabelsOnMaps(rest)
    BY <1>2, <2>2, Popped, PoppedLabels
  <2> HIDE DEF rest
  <2>4. StackOk'
    BY <2>1, <2>2, <2>3, CompleteOk DEF StackOk
  <2>5. ASSUME grammar' # Broken
        PROVE  Follows'
    <3>1. /\ grammar.open = stack /\ grammar' = Step(grammar, t)
          /\ Agrees(stack, grammar.want, expect)
      BY <1>1, <2>5, ReadsAlive
    <3>2. /\ "close" \in grammar.want /\ t = Closer(Top.cls)
          /\ grammar' = Completed(rest, Top)
      BY <1>1, <2>5, <3>1, StepClose DEF Top, rest
    <3>3. IsPath(stack) /\ stack # << >> /\ Top.cls \in {"List", "Map"}
      BY <3>1, <3>2, WhatCanCome DEF LastOf, Top
    <3>4. Complete(rest, Top)
      BY <2>1, <3>2, <3>3 DEF Closer, TopIs
    <3>5. IsPath(rest) /\ Awaits(rest)
      BY <1>2, <1>3, <3>3, ShorterPath DEF rest, LastOf, Top
    <3>6. QED
      BY <2>2, <2>3, <3>2, <3>4, <3>5, CompleteFollows
  <2>6. QED
    BY <1>1, <2>4, <2>5, ReadsInv
<1>4. CASE n = 1
  <2>1. expect' = "END" /\ UNCHANGED <<stack, err>>
    BY <1>4, <1>end
  <2>2. StackOk'
    BY <2>1 DEF StackOk, ParserInv
  <2>3. ASSUME grammar' # Broken
        PROVE  Follows'
    <3>1. /\ err = "SUCCESS"
          /\ grammar.open = stack /\ grammar' = Step(grammar, t)
      BY <1>1, <2>3, ReadsAlive
    <3>2. grammar' = Completed(SubSeq(stack, 1, 0), Top)
      <4>1. n - 1 = 0
        BY <1>4
      <4>2. grammar' = Completed(SubSeq(stack, 1, n - 1), Top)
        BY <1>1, <2>3, <3>1, StepClose DEF Top
      <4>3. QED
        BY <4>1, <4>2
    <3>3. Len(SubSeq(stack, 1, 0)) = 0
      BY <1>2, <1>4, Popped
    <3>4. grammar' = [open |-> <<Top>>, want |-> {"end"}]
      BY <3>2, <3>3 DEF Completed
    <3>5. stack = <<Top>>
      BY <1>2, <1>4 DEF Top, IsStack
    <3>6. QED
      BY <1>4, <2>1, <3>1, <3>4, <3>5 DEF Follows, Agrees
  <2>4. QED
    BY <1>1, <2>2, <2>3, ReadsInv
<1>5. CASE n = 0
  <2>1. err' = "INVAL" /\ UNCHANGED <<stack, expect>>
    BY <1>5, <1>end
  <2>2. StackOk'
    BY <2>1 DEF StackOk, ParserInv
  <2>3. grammar' = Broken
    BY <1>1, <1>2, <1>5, ReadsAlive, StepClose, WhatCanCome
  <2>4. QED
    BY <1>1, <2>2, <2>3, ReadsInv
<1> HIDE DEF n
<1>6. n > 1 \/ n = 1 \/ n = 0
  BY <1>2
<1>7. QED
  BY <1>3, <1>4, <1>5, <1>6

LEMMA StringInv ==
  ASSUME ParserInv, NEW t, String(t)
  PROVE  ParserInv'
<1>1. Reads(t) /\ t \in Strings
  BY DEF String
<1>2. /\ IsStack(stack) /\ LabelsOnMaps(stack)
      /\ IsNode(Str(t)) /\ Str(t).cls = "Str"
  BY NewNodes DEF ParserInv
<1>3. StackOk'
  <2>1. CASE expect # "VALUE"
    BY <2>1, UnexpectedOk DEF String
  <2>2. CASE expect = "VALUE" /\ IsLabel
    <3>1. stack' = Append(stack, Str(t)) /\ expect' = "COLON" /\ err' = err
      BY <2>2 DEF String
    <3>2. stack # << >> /\ LastOf(stack).cls = "Map"
      BY <2>2 DEF IsLabel, TopIs, Top, LastOf
    <3>3. IsStack(stack') /\ LabelsOnMaps(stack')
      BY <1>2, <3>1, <3>2, Pushed, PushedLabels
    <3>4. QED
      BY <3>1, <3>3 DEF StackOk, ParserInv
  <2>3. CASE expect = "VALUE" /\ ~IsLabel
    BY <1>2, <2>3, CompleteOk DEF String
  <2>4. QED
    BY <2>1, <2>2, <2>3
<1>4. ASSUME grammar' # Broken
      PROVE  Follows'
  <2>1. /\ err = "SUCCESS" /\ grammar.open = stack /\ grammar' = Step(grammar, t)
        /\ Agrees(stack, grammar.want, expect) /\ Clear(grammar)
    BY <1>1, <1>4, ReadsAlive
  <2>2. CASE "value" \in grammar.want
    <3>1. grammar' = Completed(stack, Str(t))
      BY <1>1, <2>1, <2>2, StepString
    <3>2. IsPath(stack) /\ Awaits(stack) /\ expect = "VALUE"
      BY <2>1, <2>2, WhatCanCome
    <3>3. ~IsLabel
      BY <3>2 DEF Awaits, IsLabel, TopIs, Top, LastOf
    <3>4. Complete(stack, Str(t))
      BY <3>2, <3>3 DEF String
    <3>5. QED
      BY <1>2, <3>1, <3>2, <3>4, CompleteFollows
  <2>3. CASE "value" \notin grammar.want
    <3>1. /\ "label" \in grammar.want
          /\ grammar' = [open |-> Append(stack, Str(t)), want |-> {"colon"}]
      BY <1>1, <1>4, <2>1, <2>3, StepString
    <3>2. IsPath(stack) /\ stack # << >> /\ LastOf(stack).cls = "Map" /\ expect = "VALUE"
      BY <2>1, <3>1, WhatCanCome
    <3>3. stack' = Append(stack, Str(t)) /\ expect' = "COLON" /\ err' = err
      BY <3>2 DEF String, IsLabel, TopIs, Top, LastOf
    <3>4. IsPath(stack') /\ stack' # << >> /\ LastOf(stack') = Str(t)
      BY <1>2, <3>2, <3>3, LongerPath
    <3>5. Agrees(stack', grammar'.want, expect')
      BY <1>2, <3>1, <3>3, <3>4 DEF Agrees
    <3>6. QED
      BY <2>1, <3>1, <3>3, <3>5 DEF Follows
  <2>4. QED
    BY <2>2, <2>3
<1>5. QED
  BY <1>1, <1>3, <1>4, ReadsInv

LEMMA SeparatorInv ==
  ASSUME ParserInv, NEW t, Colon(t) \/ Comma(t)
  PROVE  ParserInv'
<1> DEFINE before == IF t = ":" THEN "COLON" ELSE "COMMA"
<1>1. Reads(t) /\ t \in {":", ","}
  BY DEF Colon, Comma
<1>2. IF expect = before THEN expect' = "VALUE" /\ UNCHANGED <<stack, err>> ELSE Unexpected
  BY DEF Colon, Comma
<1>3. StackOk'
  BY <1>2, UnexpectedOk DEF StackOk, ParserInv
<1>4. ASSUME grammar' # Broken
      PROVE  Follows'
  <2>1. /\ err = "SUCCESS" /\ grammar.open = stack /\ grammar' = Step(grammar, t)
        /\ grammar = [open |-> stack, want |-> grammar.want]
        /\ Agrees(stack, grammar.want, expect)
    BY <1>1, <1>4, ReadsAlive
  <2>2. CASE t = ":"
    <3>1. "colon" \in grammar.want /\ grammar' = [grammar EXCEPT !.want = {"value"}]
      BY <1>4, <2>1, <2>2, StepPunctuation
    <3>2. IsPath(stack) /\ LastOf(stack).cls = "Str" /\ expect = "COLON"
      BY <2>1, <3>1, WhatCanCome
    <3>3. expect' = "VALUE" /\ UNCHANGED <<stack, err>>
      BY <1>2, <2>2, <3>2
    <3>4. grammar' = [open |-> stack, want |-> {"value"}]
      BY <2>1, <3>1
    <3>5. Awaits(stack)
      BY <3>2 DEF Awaits
    <3>6. QED
      BY <2>1, <3>2, <3>3, <3>4, <3>5 DEF Follows, Agrees
  <2>3. CASE t = ","
    <3>1. /\ "comma" \in grammar.want
          /\ grammar' = [grammar EXCEPT !.want = IF LastOf(stack).cls = "Map"
                                                 THEN {"label"} ELSE {"value"}]
      BY <1>4, <2>1, <2>3, StepPunctuation DEF LastOf
    <3>2. /\ IsPath(stack) /\ stack # << >>
          /\ LastOf(stack).cls \in {"List", "Map"} /\ expect = "COMMA"
      BY <2>1, <3>1, WhatCanCome
    <3>3. expect' = "VALUE" /\ UNCHANGED <<stack, err>>
      BY <1>2, <2>3, <3>2
    <3>4. grammar' = [open |-> stack, want |-> IF LastOf(stack).cls = "Map"
                                               THEN {"label"} ELSE {"value"}]
      BY <2>1, <3>1
    <3>5. CASE LastOf(stack).cls = "Map"
      BY <2>1, <3>2, <3>3, <3>4, <3>5 DEF Follows, Agrees
    <3>6. CASE LastOf(stack).cls = "List"
      <4>1. Awaits(stack)
        BY <3>6 DEF Awaits
      <4>2. QED
        BY <2>1, <3>2, <3>3, <3>4, <3>6, <4>1 DEF Follows, Agrees
    <3>7. QED
      BY <3>2, <3>5, <3>6
  <2>4. QED
    BY <1>1, <2>2, <2>3
<1>5. QED
  BY <1>1, <1>3, <1>4, ReadsInv

LEMMA OtherValueInv ==
  ASSUME ParserInv, NEW t, OtherValue(t)
  PROVE  ParserInv'
<1>1. Reads(t) /\ t \in Primitives
  BY DEF OtherValue
<1>2. IsStack(stack) /\ LabelsOnMaps(stack) /\ IsNode(Primitive(t))
  BY NewNodes DEF ParserInv
<1>3. IF expect = "VALUE" THEN Complete(stack, Primitive(t)) ELSE Unexpected
  BY DEF OtherValue
<1>4. StackOk'
  BY <1>2, <1>3, UnexpectedOk, CompleteOk
<1>5. ASSUME grammar' # Broken
      PROVE  Follows'
  <2>1. /\ grammar.open = stack /\ grammar' = Step(grammar, t)
        /\ Agrees(stack, grammar.want, expect)
    BY <1>1, <1>5, ReadsAlive
  <2>2. "value" \in grammar.want /\ grammar' = Completed(stack, Primitive(t))
    BY <1>1, <1>5, <2>1, StepPrimitive
  <2>3. IsPath(stack) /\ Awaits(stack) /\ expect = "VALUE"
    BY <2>1, <2>2, WhatCanCome
  <2>4. QED
    BY <1>2, <1>3, <2>2, <2>3, CompleteFollows
<1>6. QED
  BY <1>1, <1>4, <1>5, ReadsInv

LEMMA NoTokenInv ==
  ASSUME ParserInv, NEW t, NoToken(t)
  PROVE  ParserInv'
<1>1. Reads(t) /\ t = Bad
  BY DEF NoToken
<1>2. StackOk'
  BY UnexpectedOk DEF NoToken, StackOk, ParserInv
<1>3. grammar' = Broken
  BY <1>1, StepBad DEF Reads
<1>4. QED
  BY <1>1, <1>2, <1>3, ReadsInv

LEMMA ReturnInv ==
  ASSUME ParserInv, Return
  PROVE  ParserInv'
<1>1. /\ ~done /\ done' = TRUE /\ stack' = << >> /\ UNCHANGED <<expect, err, grammar>>
      /\ root' = IF err # "SUCCESS" \/ stack = << >> THEN Null ELSE stack[1]
  BY DEF Return
<1>2. IsStack(stack') /\ LabelsOnMaps(stack')
  BY <1>1, NoStack DEF LabelsOnMaps
<1>3. ASSUME IsWhole(grammar)
      PROVE  root' = grammar.open[1]
  <2>1. grammar # Broken
    BY <1>3 DEF IsWhole, Broken
  <2>2. /\ err = "SUCCESS" /\ grammar.open = stack
        /\ Agrees(stack, grammar.want, expect)
    BY <1>1, <2>1 DEF ParserInv
  <2>3. "end" \in grammar.want /\ ~("value" \in grammar.want)
    BY <1>3 DEF IsWhole
  <2>4. Len(stack) = 1
    BY <2>2, <2>3 DEF Agrees
  <2>5. stack # << >>
    BY <2>4, NoStack
  <2>6. QED
    BY <1>1, <2>2, <2>5
<1>4. QED
  BY <1>1, <1>2, <1>3 DEF ParserInv, IsWhole

LEMMA ParserInit == Init => ParserInv
<1> SUFFICES ASSUME Init PROVE ParserInv
  OBVIOUS
<1>1. IsStack(stack) /\ LabelsOnMaps(stack) /\ IsPath(stack) /\ Awaits(stack)
  BY NoStack DEF Init, LabelsOnMaps, IsPath, Awaits
<1>2. QED
  BY <1>1 DEF Init, Start, ParserInv, Agrees, IsWhole

LEMMA ParserStep == ParserInv /\ [Next]_vars => ParserInv'
<1> SUFFICES ASSUME ParserInv, [Next]_vars PROVE ParserInv'
  OBVIOUS
<1>1. ASSUME NEW t \in Tokens, Token(t)
      PROVE  ParserInv'
  BY <1>1, BeginInv, EndInv, StringInv, SeparatorInv, OtherValueInv, NoTokenInv DEF Token
<1>2. CASE Return
  BY <1>2, ReturnInv
<1>3. CASE UNCHANGED vars
  BY <1>3 DEF vars, ParserInv, IsWhole
<1>4. QED
  BY <1>1, <1>2, <1>3 DEF Next

\* For texts of any length: what can still become one value is not refused, and the
\* stack holds what was begun; a text that is one value gives this value; and the
\* "Fatal parser error" does not happen (json_parse.c:82-223).
THEOREM ParserAccepts == Spec => []GrammarAccepted
<1>1. ParserInv => GrammarAccepted
  BY DEF ParserInv, GrammarAccepted
<1>2. QED
  BY <1>1, ParserInit, ParserStep, PTL DEF Spec
=============================================================================
