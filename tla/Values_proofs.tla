--------------------------- MODULE Values_proofs ---------------------------
(***************************************************************************)
(* That a Str holds its text, which argument each directive of a format    *)
(* shows, that what is written to a buffer which is too short is the       *)
(* beginning of the whole, that what is escaped, read by lines or split is *)
(* read back, and that a normal path leads where the path does: for all    *)
(* bytes, texts, formats and paths, of every length.                       *)
(*                                                                         *)
(* A loop of the code is a function from 0, what there is at first, to the *)
(* number of its rounds (Steps).  If the code's loop and what is said of   *)
(* it begin alike and go on alike they end alike (SameSteps), and what     *)
(* holds at first and goes on from each round to the next holds at the     *)
(* end (AllSteps).  So each lemma about a loop states what is done after k *)
(* of the rounds, and is proved for one round.  The inductive invariants   *)
(* are TextHeld, FormatHeld and PathHeld; they give the properties because *)
(* of what the lemmas say of the operators.                                *)
(*                                                                         *)
(* A reader of escapes is a function on the places of the text, each place *)
(* in terms of later ones.  There is such a function (OnwardExists), and   *)
(* from the last place down it gives what was written from there on.       *)
(***************************************************************************)
EXTENDS Values, MascListLemmas

-----------------------------------------------------------------------------
\* A sequence of steps is what it should be, if each step is.
Follows(g, h, n) == \A k \in 1 .. n : g[k - 1] = h[k - 1] => g[k] = h[k]

\* Two such sequences of steps end alike.
LEMMA SameSteps ==
  ASSUME NEW n \in Nat, NEW g, NEW h, g[0] = h[0], Follows(g, h, n)
  PROVE  g[n] = h[n]
<1> DEFINE Bad == {k \in 0 .. n : g[k] # h[k]}
<1>1. Bad = {}
  <2> SUFFICES ASSUME Bad # {} PROVE FALSE
    OBVIOUS
  <2>1. Bad \in SUBSET Nat
    OBVIOUS
  <2>2. PICK k \in Bad : \A m \in Bad : k <= m
    BY <2>1, MinOfNats
  <2>3. k # 0 /\ k \in 1 .. n
    OBVIOUS
  <2>4. k - 1 \in 0 .. n /\ ~(k <= k - 1)
    BY <2>3
  <2>5. k - 1 \notin Bad
    BY <2>2, <2>4
  <2>6. g[k - 1] = h[k - 1]
    BY <2>4, <2>5
  <2>7. QED
    BY <2>3, <2>6 DEF Follows
<1>2. QED
  BY <1>1

\* A byte that is written inside of a block changes nothing else.
IsBlock(b, D) == b = [j \in D |-> b[j]]
Written(b, D, i, c) == [j \in D |-> IF j = i THEN c ELSE b[j]]

\* To put a byte into a block is to write it there and nowhere else.
LEMMA PutInside ==
  ASSUME NEW D, NEW b, IsBlock(b, D), NEW i \in D, NEW c
  PROVE  Put(b, i, c) = Written(b, D, i, c)
<1>1. DOMAIN b = D
  BY Zenon DEF IsBlock
<1>2. {i} \cup D = D
  OBVIOUS
<1>3. QED
  BY <1>1, <1>2 DEF Put, Written

\* The block of a text.
Block(t) == [i \in 0 .. Len(t) |-> IF i = Len(t) THEN NUL ELSE t[i + 1]]
Encoded(t) == Str(Block(t), Len(t) + 1)

\* The block of a text holds its bytes and the NUL behind them.
LEMMA EncodedParts ==
  ASSUME NEW S, NEW t \in Seq(S)
  PROVE  /\ Encoded(t).cstr = Block(t)
         /\ Encoded(t).size = Len(t) + 1
         /\ StrLen(Encoded(t)) = Len(t)
         /\ Len(t) \in Nat
         /\ DOMAIN Block(t) = 0 .. Len(t)
         /\ \A i \in 0 .. Len(t) - 1 : Block(t)[i] = t[i + 1]
         /\ Block(t)[Len(t)] = NUL
BY LenProperties DEF Encoded, Str, StrLen, Block

\* A block that holds a text and its end is the block of the text.
HoldsText(b, t) ==
  /\ IsBlock(b, 0 .. Len(t))
  /\ \A i \in 0 .. Len(t) - 1 : b[i] = t[i + 1]
  /\ b[Len(t)] = NUL

\* So a Str of such a block is the Str of the text.
LEMMA EncodedIs ==
  ASSUME NEW S, NEW t \in Seq(S), NEW b, HoldsText(b, t)
  PROVE  Str(b, Len(t) + 1) = Encoded(t)
<1> DEFINE n == Len(t)
<1>1. n \in Nat
  BY LenProperties
<1> HIDE DEF n
<1>2. \A i \in 0 .. n : b[i] = IF i = n THEN NUL ELSE t[i + 1]
  <2> TAKE i \in 0 .. n
  <2>1. i = n \/ i \in 0 .. n - 1
    BY <1>1
  <2>2. QED
    BY <2>1, Zenon DEF HoldsText, n
<1>3. b = [i \in 0 .. n |-> IF i = n THEN NUL ELSE t[i + 1]]
  BY <1>2, Zenon DEF HoldsText, IsBlock, n
<1>4. QED
  BY <1>3, Zenon DEF Encoded, Block, n

\* A block that is cut behind n bytes, with the byte that ends the text.
Closed(m, n) == [i \in 0 .. n |-> IF i = n THEN NUL ELSE m[i]]

\* A block closed behind the bytes of a text is the block of that text.
LEMMA ClosedText ==
  ASSUME NEW S, NEW t \in Seq(S), NEW m, \A i \in 0 .. Len(t) - 1 : m[i] = t[i + 1]
  PROVE  Str(Closed(m, Len(t)), Len(t) + 1) = Encoded(t)
<1> DEFINE n == Len(t)
           b == Closed(m, n)
<1>1. n \in Nat
  BY LenProperties
<1>2. \A i \in 0 .. n - 1 : m[i] = t[i + 1]
  OBVIOUS
<1> HIDE DEF n
<1>3. /\ IsBlock(b, 0 .. n)
      /\ \A i \in 0 .. n - 1 : b[i] = t[i + 1]
      /\ b[n] = NUL
  BY <1>1, <1>2 DEF Closed, IsBlock
<1> HIDE DEF b
<1>4. HoldsText(b, t)
  BY <1>3, Zenon DEF HoldsText, n
<1>5. QED
  BY <1>4, EncodedIs, Zenon DEF b, n

\* To close and resize a block, in either order, closes it there.
LEMMA CutIsClosed ==
  ASSUME NEW last \in Nat, NEW m, IsBlock(m, 0 .. last), NEW n \in 0 .. last
  PROVE  /\ Resized(Put(m, n, NUL), n + 1) = Closed(m, n)
         /\ Put(Resized(m, n + 1), n, NUL) = Closed(m, n)
<1>1. DOMAIN m = 0 .. last
  BY Zenon DEF IsBlock
<1>2. 0 .. (n + 1) - 1 = 0 .. n /\ n \in 0 .. n /\ \A i \in 0 .. n : i \in 0 .. last
  OBVIOUS
<1>3. Put(m, n, NUL) = Written(m, 0 .. last, n, NUL)
  BY PutInside, Zenon
<1>4. Resized(Put(m, n, NUL), n + 1) = Closed(m, n)
  BY <1>2, <1>3, Zenon DEF Resized, Written, Closed
<1>5. Resized(m, n + 1) = [i \in 0 .. n |-> m[i]]
  BY <1>1, <1>2, Zenon DEF Resized
<1>6. IsBlock(Resized(m, n + 1), 0 .. n)
  BY <1>5, Zenon DEF IsBlock
<1>7. Put(Resized(m, n + 1), n, NUL) = Written(Resized(m, n + 1), 0 .. n, n, NUL)
  BY <1>2, <1>6, PutInside, Zenon
<1>8. Written(Resized(m, n + 1), 0 .. n, n, NUL) = Closed(m, n)
  BY <1>5, Zenon DEF Written, Closed
<1>9. QED
  BY <1>4, <1>7, <1>8, Zenon

\* What memcpy puts into a block.
LEMMA CopiedBlock ==
  ASSUME NEW S, NEW t \in Seq(S)
  PROVE  StrOf(t) = Encoded(t)
<1>1. Len(t) \in Nat
  BY LenProperties
<1>2. Copied(<< >>, 0, t) = Block(t)
  BY <1>1 DEF Copied, Block
<1>3. QED
  BY <1>2 DEF StrOf, Encoded

\* The bytes from a place on, moved to the front.
LowerBlock(b, last, to, from, n) ==
  [i \in 0 .. last |-> IF i >= to /\ i < to + n THEN b[i - to + from] ELSE b[i]]

\* memmove to a lower place moves each byte there.
LEMMA MovedDownIs ==
  ASSUME NEW last \in Nat, NEW b, IsBlock(b, 0 .. last),
         NEW to \in Nat, NEW from \in Nat, NEW n \in Nat,
         to <= from, from + n <= last + 1
  PROVE  MovedDown(b, to, from, n) = LowerBlock(b, last, to, from, n)
<1> DEFINE E(m, k) == Put(m, to + k - 1, m[from + k - 1])
           After(k) == [i \in 0 .. last |->
             IF i >= to /\ i < to + k THEN b[i - to + from] ELSE b[i]]
           h == [k \in 0 .. n |-> After(k)]
<1>1. After(0) = b
  <2>1. \A i \in 0 .. last : ~(i >= to /\ i < to + 0)
    OBVIOUS
  <2>2. QED
    BY <2>1, Zenon DEF IsBlock
<1>2. ASSUME NEW k \in 1 .. n PROVE E(After(k - 1), k) = After(k)
  <2> DEFINE m == After(k - 1)
             at == to + k - 1
             c == m[from + k - 1]
  <2>1. at \in 0 .. last /\ from + k - 1 \in 0 .. last
    OBVIOUS
  <2>2. c = b[at - to + from]
    BY <2>1
  <2>3. IsBlock(m, 0 .. last)
    BY DEF IsBlock
  <2>4. \A j \in 0 .. last :
          /\ j # at => m[j] = IF j >= to /\ j < to + k THEN b[j - to + from] ELSE b[j]
          /\ j = at => j >= to /\ j < to + k
    <3> TAKE j \in 0 .. last
    <3>1. m[j] = IF j >= to /\ j < to + (k - 1) THEN b[j - to + from] ELSE b[j]
      OBVIOUS
    <3>2. j # at => (j >= to /\ j < to + (k - 1) <=> j >= to /\ j < to + k)
      OBVIOUS
    <3>3. j = at => j >= to /\ j < to + k
      OBVIOUS
    <3>4. QED
      BY <3>1, <3>2, <3>3, Zenon
  <2>5. E(After(k - 1), k) = Put(m, at, c)
    OBVIOUS
  <2> HIDE DEF m, at, c, E, h
  <2>6. Put(m, at, c) = Written(m, 0 .. last, at, c)
    BY <2>1, <2>3, PutInside, Zenon
  <2>7. \A j \in 0 .. last :
          (IF j = at THEN c ELSE m[j])
            = IF j >= to /\ j < to + k THEN b[j - to + from] ELSE b[j]
    BY <2>2, <2>4, Zenon
  <2>8. QED
    BY <2>5, <2>6, <2>7, Zenon DEF Written, After
<1> HIDE DEF E, After
<1>3. h = [k \in 0 .. n |-> IF k = 0 THEN b ELSE E(h[k - 1], k)]
  <2>1. \A k \in 0 .. n : After(k) = IF k = 0 THEN b ELSE E(h[k - 1], k)
    <3> TAKE k \in 0 .. n
    <3>1. k = 0 \/ (k \in 1 .. n /\ k - 1 \in 0 .. n /\ k # 0)
      OBVIOUS
    <3>2. QED
      BY <3>1, <1>1, <1>2, Zenon
  <2>2. QED
    BY <2>1, Zenon
<1> HIDE DEF h
<1>4. PICK g : /\ g = [k \in 0 .. n |-> IF k = 0 THEN b ELSE E(g[k - 1], k)]
               /\ Loop(n, b, E) = g[n]
  BY <1>3, Zenon DEF Loop
<1>5. \A k \in 0 .. n : g[k] = IF k = 0 THEN b ELSE E(g[k - 1], k)
  BY <1>4, Zenon
<1>6. \A k \in 0 .. n : h[k] = IF k = 0 THEN b ELSE E(h[k - 1], k)
  BY <1>3, Zenon
<1>7. 0 \in 0 .. n /\ n \in 0 .. n
  OBVIOUS
<1>8. g[0] = h[0]
  BY <1>5, <1>6, <1>7, Zenon
<1>9. Follows(g, h, n)
  <2> SUFFICES ASSUME NEW k \in 1 .. n PROVE g[k - 1] = h[k - 1] => g[k] = h[k]
    BY Zenon DEF Follows
  <2>1. k \in 0 .. n /\ k # 0
    OBVIOUS
  <2>2. QED
    BY <2>1, <1>5, <1>6, Zenon
<1>10. g[n] = h[n]
  BY <1>8, <1>9, SameSteps, Zenon
<1>11. h[n] = After(n)
  BY <1>7, Zenon DEF h
<1>12. QED
  BY <1>4, <1>10, <1>11, Zenon DEF E, After, MovedDown, LowerBlock

\* The first bytes of a block, moved to the back.
HigherBlock(b, last, by, n) ==
  [i \in 0 .. last |-> IF i >= by /\ i < by + n THEN b[i - by] ELSE b[i]]

\* memmove to a higher place does too.
LEMMA MovedUpIs ==
  ASSUME NEW last \in Nat, NEW b, IsBlock(b, 0 .. last),
         NEW by \in Nat, NEW n \in Nat, by > 0, by + n <= last + 1
  PROVE  MovedUp(b, by, n) = HigherBlock(b, last, by, n)
<1> DEFINE E(m, k) == Put(m, by + n - k, m[n - k])
           After(k) == [i \in 0 .. last |->
             IF i >= by + n - k /\ i < by + n THEN b[i - by] ELSE b[i]]
           h == [k \in 0 .. n |-> After(k)]
<1>1. After(0) = b
  <2>1. \A i \in 0 .. last : ~(i >= by + n - 0 /\ i < by + n)
    OBVIOUS
  <2>2. QED
    BY <2>1, Zenon DEF IsBlock
<1>2. ASSUME NEW k \in 1 .. n PROVE E(After(k - 1), k) = After(k)
  <2> DEFINE m == After(k - 1)
             at == by + n - k
             c == m[n - k]
  <2>1. at \in 0 .. last /\ n - k \in 0 .. last
    OBVIOUS
  <2>2. c = b[at - by]
    BY <2>1
  <2>3. IsBlock(m, 0 .. last)
    BY DEF IsBlock
  <2>4. \A j \in 0 .. last :
          /\ j # at => m[j] = IF j >= by + n - k /\ j < by + n THEN b[j - by] ELSE b[j]
          /\ j = at => j >= by + n - k /\ j < by + n
    <3> TAKE j \in 0 .. last
    <3>1. m[j] = IF j >= by + n - (k - 1) /\ j < by + n THEN b[j - by] ELSE b[j]
      OBVIOUS
    <3>2. j # at => (j >= by + n - (k - 1) /\ j < by + n <=> j >= by + n - k /\ j < by + n)
      OBVIOUS
    <3>3. j = at => j >= by + n - k /\ j < by + n
      OBVIOUS
    <3>4. QED
      BY <3>1, <3>2, <3>3, Zenon
  <2>5. E(After(k - 1), k) = Put(m, at, c)
    OBVIOUS
  <2> HIDE DEF m, at, c, E, h
  <2>6. Put(m, at, c) = Written(m, 0 .. last, at, c)
    BY <2>1, <2>3, PutInside, Zenon
  <2>7. \A j \in 0 .. last :
          (IF j = at THEN c ELSE m[j])
            = IF j >= by + n - k /\ j < by + n THEN b[j - by] ELSE b[j]
    BY <2>2, <2>4, Zenon
  <2>8. QED
    BY <2>5, <2>6, <2>7, Zenon DEF Written, After
<1> HIDE DEF E, After
<1>3. h = [k \in 0 .. n |-> IF k = 0 THEN b ELSE E(h[k - 1], k)]
  <2>1. \A k \in 0 .. n : After(k) = IF k = 0 THEN b ELSE E(h[k - 1], k)
    <3> TAKE k \in 0 .. n
    <3>1. k = 0 \/ (k \in 1 .. n /\ k - 1 \in 0 .. n /\ k # 0)
      OBVIOUS
    <3>2. QED
      BY <3>1, <1>1, <1>2, Zenon
  <2>2. QED
    BY <2>1, Zenon
<1> HIDE DEF h
<1>4. PICK g : /\ g = [k \in 0 .. n |-> IF k = 0 THEN b ELSE E(g[k - 1], k)]
               /\ Loop(n, b, E) = g[n]
  BY <1>3, Zenon DEF Loop
<1>5. \A k \in 0 .. n : g[k] = IF k = 0 THEN b ELSE E(g[k - 1], k)
  BY <1>4, Zenon
<1>6. \A k \in 0 .. n : h[k] = IF k = 0 THEN b ELSE E(h[k - 1], k)
  BY <1>3, Zenon
<1>7. 0 \in 0 .. n /\ n \in 0 .. n
  OBVIOUS
<1>8. g[0] = h[0]
  BY <1>5, <1>6, <1>7, Zenon
<1>9. Follows(g, h, n)
  <2> SUFFICES ASSUME NEW k \in 1 .. n PROVE g[k - 1] = h[k - 1] => g[k] = h[k]
    BY Zenon DEF Follows
  <2>1. k \in 0 .. n /\ k # 0
    OBVIOUS
  <2>2. QED
    BY <2>1, <1>5, <1>6, Zenon
<1>10. g[n] = h[n]
  BY <1>8, <1>9, SameSteps, Zenon
<1>11. h[n] = After(n)
  BY <1>7, Zenon DEF h
<1>12. QED
  <2>1. by + n - n = by
    OBVIOUS
  <2>2. QED
    BY <2>1, <1>4, <1>10, <1>11, Zenon DEF E, After, MovedUp, HigherBlock

\* n bytes that are filled.
FilledBlock(b, last, at, n, fill) ==
  [i \in 0 .. last |-> IF i >= at /\ i < at + n THEN fill ELSE b[i]]

\* memset writes the byte to each place.
LEMMA FilledIs ==
  ASSUME NEW last \in Nat, NEW b, IsBlock(b, 0 .. last),
         NEW at0 \in Nat, NEW fill, NEW n \in Nat, at0 + n <= last + 1
  PROVE  Filled(b, at0, n, fill) = FilledBlock(b, last, at0, n, fill)
<1> DEFINE E(m, k) == Put(m, at0 + k - 1, fill)
           After(k) == [i \in 0 .. last |-> IF i >= at0 /\ i < at0 + k THEN fill ELSE b[i]]
           h == [k \in 0 .. n |-> After(k)]
<1>1. After(0) = b
  <2>1. \A i \in 0 .. last : ~(i >= at0 /\ i < at0 + 0)
    OBVIOUS
  <2>2. QED
    BY <2>1, Zenon DEF IsBlock
<1>2. ASSUME NEW k \in 1 .. n PROVE E(After(k - 1), k) = After(k)
  <2> DEFINE m == After(k - 1)
             at == at0 + k - 1
             c == fill
  <2>1. at \in 0 .. last
    OBVIOUS
  <2>2. c = fill
    BY <2>1
  <2>3. IsBlock(m, 0 .. last)
    BY DEF IsBlock
  <2>4. \A j \in 0 .. last :
          /\ j # at => m[j] = IF j >= at0 /\ j < at0 + k THEN fill ELSE b[j]
          /\ j = at => j >= at0 /\ j < at0 + k
    <3> TAKE j \in 0 .. last
    <3>1. m[j] = IF j >= at0 /\ j < at0 + (k - 1) THEN fill ELSE b[j]
      OBVIOUS
    <3>2. j # at => (j >= at0 /\ j < at0 + (k - 1) <=> j >= at0 /\ j < at0 + k)
      OBVIOUS
    <3>3. j = at => j >= at0 /\ j < at0 + k
      OBVIOUS
    <3>4. QED
      BY <3>1, <3>2, <3>3, Zenon
  <2>5. E(After(k - 1), k) = Put(m, at, c)
    OBVIOUS
  <2> HIDE DEF m, at, c, E, h
  <2>6. Put(m, at, c) = Written(m, 0 .. last, at, c)
    BY <2>1, <2>3, PutInside, Zenon
  <2>7. \A j \in 0 .. last :
          (IF j = at THEN c ELSE m[j])
            = IF j >= at0 /\ j < at0 + k THEN fill ELSE b[j]
    BY <2>2, <2>4, Zenon
  <2>8. QED
    BY <2>5, <2>6, <2>7, Zenon DEF Written, After
<1> HIDE DEF E, After
<1>3. h = [k \in 0 .. n |-> IF k = 0 THEN b ELSE E(h[k - 1], k)]
  <2>1. \A k \in 0 .. n : After(k) = IF k = 0 THEN b ELSE E(h[k - 1], k)
    <3> TAKE k \in 0 .. n
    <3>1. k = 0 \/ (k \in 1 .. n /\ k - 1 \in 0 .. n /\ k # 0)
      OBVIOUS
    <3>2. QED
      BY <3>1, <1>1, <1>2, Zenon
  <2>2. QED
    BY <2>1, Zenon
<1> HIDE DEF h
<1>4. PICK g : /\ g = [k \in 0 .. n |-> IF k = 0 THEN b ELSE E(g[k - 1], k)]
               /\ Loop(n, b, E) = g[n]
  BY <1>3, Zenon DEF Loop
<1>5. \A k \in 0 .. n : g[k] = IF k = 0 THEN b ELSE E(g[k - 1], k)
  BY <1>4, Zenon
<1>6. \A k \in 0 .. n : h[k] = IF k = 0 THEN b ELSE E(h[k - 1], k)
  BY <1>3, Zenon
<1>7. 0 \in 0 .. n /\ n \in 0 .. n
  OBVIOUS
<1>8. g[0] = h[0]
  BY <1>5, <1>6, <1>7, Zenon
<1>9. Follows(g, h, n)
  <2> SUFFICES ASSUME NEW k \in 1 .. n PROVE g[k - 1] = h[k - 1] => g[k] = h[k]
    BY Zenon DEF Follows
  <2>1. k \in 0 .. n /\ k # 0
    OBVIOUS
  <2>2. QED
    BY <2>1, <1>5, <1>6, Zenon
<1>10. g[n] = h[n]
  BY <1>8, <1>9, SameSteps, Zenon
<1>11. h[n] = After(n)
  BY <1>7, Zenon DEF h
<1>12. QED
  BY <1>4, <1>10, <1>11, Zenon DEF E, After, Filled, FilledBlock

\* The end in the place of the last bytes of a text.
EndedBlock(b, last, n, end) ==
  [i \in 0 .. last |-> IF i >= n - Len(end) /\ i < n THEN end[i - n + Len(end) + 1] ELSE b[i]]

\* The end of a text is written behind what is kept of the block.
LEMMA EndedIs ==
  ASSUME NEW last \in Nat, NEW b, IsBlock(b, 0 .. last),
         NEW n \in 0 .. last, NEW S, NEW end \in Seq(S)
  PROVE  Ended(b, n, end) = EndedBlock(b, last, n, end)
<1> DEFINE E(m, k) == IF n - k >= 0 THEN Put(m, n - k, end[Len(end) - k + 1]) ELSE m
           After(k) == [i \in 0 .. last |->
             IF i >= n - k /\ i < n THEN end[i - n + Len(end) + 1] ELSE b[i]]
           h == [k \in 0 .. Len(end) |-> After(k)]
<1>1. Len(end) \in Nat
  BY LenProperties
<1>2. After(0) = b
  <2>1. \A i \in 0 .. last : ~(i >= n - 0 /\ i < n)
    OBVIOUS
  <2>2. QED
    BY <2>1, Zenon DEF IsBlock
<1>3. ASSUME NEW k \in 1 .. Len(end) PROVE E(After(k - 1), k) = After(k)
  <2> DEFINE m == After(k - 1)
             at == n - k
             c == end[Len(end) - k + 1]
  <2>1. k \in Nat /\ n \in Nat /\ at \in Int
    BY <1>1
  <2>2. IsBlock(m, 0 .. last)
    BY DEF IsBlock
  <2>3. \A j \in 0 .. last :
          /\ j # at => m[j] = IF j >= n - k /\ j < n THEN end[j - n + Len(end) + 1] ELSE b[j]
          /\ j = at => j >= n - k /\ j < n /\ c = end[j - n + Len(end) + 1]
    <3> TAKE j \in 0 .. last
    <3>1. m[j] = IF j >= n - (k - 1) /\ j < n THEN end[j - n + Len(end) + 1] ELSE b[j]
      OBVIOUS
    <3>2. j # at => (j >= n - (k - 1) /\ j < n <=> j >= n - k /\ j < n)
      BY <2>1
    <3>3. j = at => j >= n - k /\ j < n /\ j - n + Len(end) + 1 = Len(end) - k + 1
      BY <2>1, <1>1
    <3>4. QED
      BY <3>1, <3>2, <3>3, Zenon
  <2>4. /\ at >= 0 => E(After(k - 1), k) = Put(m, at, c) /\ at \in 0 .. last
        /\ ~(at >= 0) => E(After(k - 1), k) = m /\ \A j \in 0 .. last : j # at
    BY <2>1
  <2> HIDE DEF m, at, c, E, h
  <2>5. CASE at >= 0
    <3>1. Put(m, at, c) = Written(m, 0 .. last, at, c)
      BY <2>2, <2>4, <2>5, PutInside, Zenon
    <3>2. \A j \in 0 .. last :
            (IF j = at THEN c ELSE m[j])
              = IF j >= n - k /\ j < n THEN end[j - n + Len(end) + 1] ELSE b[j]
      BY <2>3, Zenon
    <3>3. QED
      BY <2>4, <2>5, <3>1, <3>2, Zenon DEF Written, After
  <2>6. CASE ~(at >= 0)
    <3>1. \A j \in 0 .. last :
            m[j] = IF j >= n - k /\ j < n THEN end[j - n + Len(end) + 1] ELSE b[j]
      BY <2>3, <2>4, <2>6, Zenon
    <3>2. m = After(k)
      BY <2>2, <3>1, Zenon DEF IsBlock, After
    <3>3. QED
      BY <2>4, <2>6, <3>2, Zenon
  <2>7. QED
    BY <2>5, <2>6, Zenon
<1> HIDE DEF E, After
<1>4. h = [k \in 0 .. Len(end) |-> IF k = 0 THEN b ELSE E(h[k - 1], k)]
  <2>1. \A k \in 0 .. Len(end) : After(k) = IF k = 0 THEN b ELSE E(h[k - 1], k)
    <3> TAKE k \in 0 .. Len(end)
    <3>1. k = 0 \/ (k \in 1 .. Len(end) /\ k - 1 \in 0 .. Len(end) /\ k # 0)
      OBVIOUS
    <3>2. QED
      BY <3>1, <1>2, <1>3, Zenon
  <2>2. QED
    BY <2>1, Zenon
<1> HIDE DEF h
<1>5. PICK g : /\ g = [k \in 0 .. Len(end) |-> IF k = 0 THEN b ELSE E(g[k - 1], k)]
               /\ Loop(Len(end), b, E) = g[Len(end)]
  BY <1>4, Zenon DEF Loop
<1>6. \A k \in 0 .. Len(end) : g[k] = IF k = 0 THEN b ELSE E(g[k - 1], k)
  BY <1>5, Zenon
<1>7. \A k \in 0 .. Len(end) : h[k] = IF k = 0 THEN b ELSE E(h[k - 1], k)
  BY <1>4, Zenon
<1>8. 0 \in 0 .. Len(end) /\ Len(end) \in 0 .. Len(end)
  BY <1>1
<1>9. g[0] = h[0]
  BY <1>6, <1>7, <1>8, Zenon
<1>10. Follows(g, h, Len(end))
  <2> SUFFICES ASSUME NEW k \in 1 .. Len(end) PROVE g[k - 1] = h[k - 1] => g[k] = h[k]
    BY Zenon DEF Follows
  <2>1. k \in 0 .. Len(end) /\ k # 0
    OBVIOUS
  <2>2. QED
    BY <2>1, <1>6, <1>7, Zenon
<1>11. g[Len(end)] = h[Len(end)]
  BY <1>9, <1>10, <1>1, SameSteps, Zenon
<1>12. h[Len(end)] = After(Len(end))
  BY <1>8, Zenon DEF h
<1>13. QED
  BY <1>5, <1>11, <1>12, Zenon DEF E, After, Ended, EndedBlock

\* The first bytes of a block in the opposite order.
SwappedBlock(b, last, n) ==
  [i \in 0 .. last |-> IF i < n THEN b[n - 1 - i] ELSE b[i]]

\* The first n bytes of the block in reverse.
LEMMA SwappedIs ==
  ASSUME NEW last \in Nat, NEW b, IsBlock(b, 0 .. last),
         NEW n \in 0 .. last + 1
  PROVE  Swapped(b, n) = SwappedBlock(b, last, n)
<1> DEFINE E(m, k) == Put(Put(m, k - 1, m[n - k]), n - k, m[k - 1])
           After(k) == [i \in 0 .. last |->
             IF i < n /\ (i < k \/ i >= n - k) THEN b[n - 1 - i] ELSE b[i]]
           h == [k \in 0 .. n \div 2 |-> After(k)]
<1>1. n \div 2 \in Nat /\ n \in Nat /\ 2 * (n \div 2) <= n /\ n <= 2 * (n \div 2) + 1
  OBVIOUS
<1>2. After(0) = b
  <2>1. \A i \in 0 .. last : ~(i < n /\ (i < 0 \/ i >= n - 0))
    OBVIOUS
  <2>2. QED
    BY <2>1, Zenon DEF IsBlock
<1>3. ASSUME NEW k \in 1 .. n \div 2 PROVE E(After(k - 1), k) = After(k)
  <2> DEFINE m == After(k - 1)
             low == k - 1
             high == n - k
             first == Put(m, low, m[high])
  <2>1. /\ low \in 0 .. last /\ high \in 0 .. last /\ low # high
        /\ low < n /\ high < n /\ low < k /\ high >= n - k /\ k \in Nat
        /\ n - 1 - low = high /\ n - 1 - high = low
        /\ ~(low < k - 1 \/ low >= n - (k - 1)) /\ ~(high < k - 1 \/ high >= n - (k - 1))
    BY <1>1
  <2>2. IsBlock(m, 0 .. last)
    BY DEF IsBlock
  <2>3. \A j \in 0 .. last :
          m[j] = IF j < n /\ (j < k - 1 \/ j >= n - (k - 1)) THEN b[n - 1 - j] ELSE b[j]
    OBVIOUS
  <2>4. m[low] = b[low] /\ m[high] = b[high]
    BY <2>1, <2>3, Zenon
  <2>5. \A j \in 0 .. last : j # low /\ j # high =>
          ((j < k - 1 \/ j >= n - (k - 1)) <=> (j < k \/ j >= n - k))
    BY <2>1
  <2>6. E(After(k - 1), k) = Put(first, high, m[low])
    OBVIOUS
  <2> HIDE DEF m, low, high, first, E, h
  <2>7. first = Written(m, 0 .. last, low, m[high])
    BY <2>1, <2>2, PutInside, Zenon DEF first
  <2>8. IsBlock(first, 0 .. last)
    BY <2>7 DEF Written, IsBlock
  <2>9. Put(first, high, m[low]) = Written(first, 0 .. last, high, m[low])
    BY <2>1, <2>8, PutInside, Zenon
  <2>10. \A j \in 0 .. last :
          (IF j = high THEN m[low] ELSE first[j])
            = IF j < n /\ (j < k \/ j >= n - k) THEN b[n - 1 - j] ELSE b[j]
    <3> TAKE j \in 0 .. last
    <3>1. CASE j = high
      BY <3>1, <2>1, <2>4, Zenon
    <3>2. CASE j # high
      <4>1. first[j] = IF j = low THEN m[high] ELSE m[j]
        BY <2>7, Zenon DEF Written
      <4>2. QED
        BY <4>1, <3>2, <2>1, <2>3, <2>4, <2>5, Zenon
    <3>3. QED
      BY <3>1, <3>2, Zenon
  <2>11. QED
    BY <2>6, <2>9, <2>10, Zenon DEF Written, After
<1> HIDE DEF E, After
<1>4. h = [k \in 0 .. n \div 2 |-> IF k = 0 THEN b ELSE E(h[k - 1], k)]
  <2>1. \A k \in 0 .. n \div 2 : After(k) = IF k = 0 THEN b ELSE E(h[k - 1], k)
    <3> TAKE k \in 0 .. n \div 2
    <3>1. k = 0 \/ (k \in 1 .. n \div 2 /\ k - 1 \in 0 .. n \div 2 /\ k # 0)
      OBVIOUS
    <3>2. QED
      BY <3>1, <1>2, <1>3, Zenon
  <2>2. QED
    BY <2>1, Zenon
<1> HIDE DEF h
<1>5. PICK g : /\ g = [k \in 0 .. n \div 2 |-> IF k = 0 THEN b ELSE E(g[k - 1], k)]
               /\ Loop(n \div 2, b, E) = g[n \div 2]
  BY <1>4, Zenon DEF Loop
<1>6. \A k \in 0 .. n \div 2 : g[k] = IF k = 0 THEN b ELSE E(g[k - 1], k)
  BY <1>5, Zenon
<1>7. \A k \in 0 .. n \div 2 : h[k] = IF k = 0 THEN b ELSE E(h[k - 1], k)
  BY <1>4, Zenon
<1>8. 0 \in 0 .. n \div 2 /\ n \div 2 \in 0 .. n \div 2
  BY <1>1
<1>9. g[0] = h[0]
  BY <1>6, <1>7, <1>8, Zenon
<1>10. Follows(g, h, n \div 2)
  <2> SUFFICES ASSUME NEW k \in 1 .. n \div 2 PROVE g[k - 1] = h[k - 1] => g[k] = h[k]
    BY Zenon DEF Follows
  <2>1. k \in 0 .. n \div 2 /\ k # 0
    OBVIOUS
  <2>2. QED
    BY <2>1, <1>6, <1>7, Zenon
<1>11. g[n \div 2] = h[n \div 2]
  BY <1>9, <1>10, <1>1, SameSteps, Zenon
<1>12. h[n \div 2] = After(n \div 2)
  BY <1>8, Zenon DEF h
<1>13. QED
  <2>1. \A i \in 0 .. last :
          i < n /\ ~(i < (n \div 2) \/ i >= n - (n \div 2)) => n - 1 - i = i
    BY <1>1
  <2>2. After(n \div 2) = SwappedBlock(b, last, n)
    BY <2>1, Zenon DEF After, SwappedBlock
  <2>3. QED
    BY <2>2, <1>5, <1>11, <1>12, Zenon DEF E, Swapped

\* The text behind its space, and the rest of the width filled.
SpreadBlock(b, last, len, width, lspace, fill) ==
  [i \in 0 .. last |-> IF i >= lspace /\ i < lspace + len THEN b[i - lspace]
                      ELSE IF i < width THEN fill ELSE b[i]]

\* A text that is moved up and filled on both sides.
LEMMA SpreadIs ==
  ASSUME NEW last \in Nat, NEW b, IsBlock(b, 0 .. last),
         NEW len \in Nat, NEW width \in Nat, NEW lspace \in Nat, NEW fill,
         lspace + len <= width, width <= last
  PROVE  Spread(b, len, width, lspace, fill) = SpreadBlock(b, last, len, width, lspace, fill)
<1> DEFINE Moved(m, k) ==
             IF width - k < len THEN Put(m, width - k + lspace, m[width - k]) ELSE m
           E(m, k) == IF width - k < lspace \/ width - k >= lspace + len
                      THEN Put(Moved(m, k), width - k, fill) ELSE Moved(m, k)
           After(k) == [i \in 0 .. last |->
               IF i >= lspace /\ i < lspace + len
               THEN IF i - lspace >= width - k THEN b[i - lspace] ELSE b[i]
               ELSE IF i >= width - k /\ i < width THEN fill ELSE b[i]]
           h == [k \in 0 .. width |-> After(k)]
<1>1. After(0) = b
  <2>1. \A i \in 0 .. last :
          (IF i >= lspace /\ i < lspace + len 
            THEN i - lspace >= width - 0 => b[i - lspace] = b[i]
           ELSE ~(i >= width - 0 /\ i < width))
    OBVIOUS
  <2>2. QED
    BY <2>1, Zenon DEF IsBlock
<1>2. ASSUME NEW k \in 1 .. width PROVE E(After(k - 1), k) = After(k)
  <2> DEFINE m == After(k - 1)
             at == width - k
             m1 == Moved(m, k)
             m2 == IF at < lspace \/ at >= lspace + len THEN Put(m1, at, fill) ELSE m1
  <2>1. at \in 0 .. last /\ at \in Nat /\ at < width
    OBVIOUS
  <2>2. IsBlock(m, 0 .. last)
    BY DEF IsBlock
  <2>3. \A j \in 0 .. last : m[j] =
              IF j >= lspace /\ j < lspace + len
                THEN IF j - lspace >= at + 1 THEN b[j - lspace] ELSE b[j]
                ELSE IF j >= at + 1 /\ j < width THEN fill ELSE b[j]
    <3> TAKE j \in 0 .. last
    <3>1. m[j] =
              IF j >= lspace /\ j < lspace + len
                THEN IF j - lspace >= width - (k - 1) THEN b[j - lspace] ELSE b[j]
                ELSE IF j >= width - (k - 1) /\ j < width THEN fill ELSE b[j]
      OBVIOUS
    <3>2. at + 1 = width - (k - 1)
      OBVIOUS
    <3>3. QED
      BY <3>1, <3>2, Zenon
  <2>4. E(After(k - 1), k) = m2
    OBVIOUS
  <2>5. m1 = IF at < len THEN Put(m, at + lspace, m[at]) ELSE m
    OBVIOUS
  <2>6. ASSUME NEW r, IsBlock(r, 0 .. last),
               \A j \in 0 .. last : r[j] =
                  IF j >= lspace /\ j < lspace + len
                    THEN IF j - lspace >= at THEN b[j - lspace] ELSE b[j]
                    ELSE IF j >= at /\ j < width THEN fill ELSE b[j]
        PROVE  r = After(k)
    BY <2>6, Zenon DEF IsBlock
  <2> HIDE DEF m, at, m1, m2, E, h, Moved, After
  <2>7. at < len => m[at] = b[at]
    <3>1. at - lspace >= at + 1 => FALSE
      BY <2>1
    <3>2. ~(at >= at + 1)
      BY <2>1
    <3>3. QED
      BY <2>1, <2>3, <3>1, <3>2, Zenon
  <2>8. /\ IsBlock(m1, 0 .. last)
        /\ \A j \in 0 .. last : m1[j] = IF at < len /\ j = at + lspace THEN b[at] ELSE m[j]
    <3>1. CASE at < len
      <4>1. at + lspace \in 0 .. last
        BY <3>1, <2>1
      <4>2. m1 = Written(m, 0 .. last, at + lspace, m[at])
        BY <2>2, <2>5, <3>1, <4>1, PutInside, Zenon
      <4>3. QED
        BY <4>2, <3>1, <2>7, Zenon DEF Written, IsBlock
    <3>2. CASE ~(at < len)
      BY <3>2, <2>2, <2>5, Zenon
    <3>3. QED
      BY <3>1, <3>2, Zenon
  <2>9. /\ IsBlock(m2, 0 .. last)
        /\ \A j \in 0 .. last :
             m2[j] = IF (at < lspace \/ at >= lspace + len) /\ j = at THEN fill ELSE m1[j]
    <3>1. CASE at < lspace \/ at >= lspace + len
      <4>1. m2 = Written(m1, 0 .. last, at, fill)
        BY <2>1, <2>8, <3>1, PutInside, Zenon DEF m2
      <4>2. QED
        BY <4>1, <3>1, Zenon DEF Written, IsBlock
    <3>2. CASE ~(at < lspace \/ at >= lspace + len)
      BY <3>2, <2>8, Zenon DEF m2
    <3>3. QED
      BY <3>1, <3>2, Zenon
  <2>10. \A j \in 0 .. last : m2[j] =
              IF j >= lspace /\ j < lspace + len
                THEN IF j - lspace >= at THEN b[j - lspace] ELSE b[j]
                ELSE IF j >= at /\ j < width THEN fill ELSE b[j]
    <3> TAKE j \in 0 .. last
    <3>1. m2[j] = IF (at < lspace \/ at >= lspace + len) /\ j = at THEN fill
                  ELSE IF at < len /\ j = at + lspace THEN b[at] ELSE m[j]
      BY <2>8, <2>9, Zenon
    <3>2. CASE j >= lspace /\ j < lspace + len
      <4>1. ~((at < lspace \/ at >= lspace + len) /\ j = at)
        BY <3>2
      <4>2. at < len /\ j = at + lspace => b[at] = b[j - lspace] /\ j - lspace >= at
        BY <2>1
      <4>3. m[j] = IF j - lspace >= at + 1 THEN b[j - lspace] ELSE b[j]
        BY <3>2, <2>3, Zenon
      <4>4. ~(at < len /\ j = at + lspace) => (j - lspace >= at + 1 <=> j - lspace >= at)
        BY <3>2, <2>1
      <4>5. QED
        BY <3>1, <3>2, <4>1, <4>2, <4>3, <4>4, Zenon
    <3>3. CASE ~(j >= lspace /\ j < lspace + len)
      <4>1. ~(at < len /\ j = at + lspace)
        BY <3>3, <2>1
      <4>2. m[j] = IF j >= at + 1 /\ j < width THEN fill ELSE b[j]
        BY <3>3, <2>3, Zenon
      <4>3. /\ j = at => at < lspace \/ at >= lspace + len
            /\ j = at => j >= at /\ j < width
            /\ j # at => (j >= at + 1 <=> j >= at)
        BY <3>3, <2>1
      <4>4. QED
        BY <3>1, <3>3, <4>1, <4>2, <4>3, Zenon
    <3>4. QED
      BY <3>2, <3>3, Zenon
  <2>11. QED
    BY <2>4, <2>6, <2>9, <2>10, Zenon
<1> HIDE DEF E, After
<1>3. h = [k \in 0 .. width |-> IF k = 0 THEN b ELSE E(h[k - 1], k)]
  <2>1. \A k \in 0 .. width : After(k) = IF k = 0 THEN b ELSE E(h[k - 1], k)
    <3> TAKE k \in 0 .. width
    <3>1. k = 0 \/ (k \in 1 .. width /\ k - 1 \in 0 .. width /\ k # 0)
      OBVIOUS
    <3>2. QED
      BY <3>1, <1>1, <1>2, Zenon
  <2>2. QED
    BY <2>1, Zenon
<1> HIDE DEF h
<1>4. PICK g : /\ g = [k \in 0 .. width |-> IF k = 0 THEN b ELSE E(g[k - 1], k)]
               /\ Loop(width, b, E) = g[width]
  BY <1>3, Zenon DEF Loop
<1>5. \A k \in 0 .. width : g[k] = IF k = 0 THEN b ELSE E(g[k - 1], k)
  BY <1>4, Zenon
<1>6. \A k \in 0 .. width : h[k] = IF k = 0 THEN b ELSE E(h[k - 1], k)
  BY <1>3, Zenon
<1>7. 0 \in 0 .. width /\ width \in 0 .. width
  OBVIOUS
<1>8. g[0] = h[0]
  BY <1>5, <1>6, <1>7, Zenon
<1>9. Follows(g, h, width)
  <2> SUFFICES ASSUME NEW k \in 1 .. width PROVE g[k - 1] = h[k - 1] => g[k] = h[k]
    BY Zenon DEF Follows
  <2>1. k \in 0 .. width /\ k # 0
    OBVIOUS
  <2>2. QED
    BY <2>1, <1>5, <1>6, Zenon
<1>10. g[width] = h[width]
  BY <1>8, <1>9, SameSteps, Zenon
<1>11. h[width] = After(width)
  BY <1>7, Zenon DEF h
<1>12. Spread(b, len, width, lspace, fill) = Loop(width, b, E)
  BY Zenon DEF E, Moved, Spread
<1>13. After(width) = SpreadBlock(b, last, len, width, lspace, fill)
  <2>1. \A i \in 0 .. last : i >= width - width /\ (i >= lspace => i - lspace >= width - width)
    OBVIOUS
  <2>2. QED
    BY <2>1, Zenon DEF After, SpreadBlock
<1>14. QED
  BY <1>4, <1>10, <1>11, <1>12, <1>13, Zenon

-----------------------------------------------------------------------------
\* What the operations do to the text that a Str holds.
LEMMA EncodedBlock ==
  ASSUME NEW S, NEW t \in Seq(S)
  PROVE  IsBlock(Block(t), 0 .. Len(t))
BY DEF Block, IsBlock

\* What is moved to the front and closed is a Str of that cut.
LEMMA MovedToFrontText ==
  ASSUME NEW S, NEW t \in Seq(S), NEW from \in Nat, NEW n \in Nat, from + n <= Len(t)
  PROVE  /\ SubSeq(t, from + 1, from + n) \in Seq(S)
         /\ Len(SubSeq(t, from + 1, from + n)) = n
         /\ MovedToFront(Encoded(t), from, n) = Encoded(SubSeq(t, from + 1, from + n))
<1> DEFINE last == Len(t)
           u == SubSeq(t, from + 1, from + n)
           m == MovedDown(Block(t), 0, from, n)
<1>1. last \in Nat /\ n \in 0 .. last
  BY LenProperties
<1>2. /\ u \in Seq(S)
      /\ Len(u) = n
      /\ \A i \in 1 .. n : u[i] = t[from + i]
  <2>1. u \in Seq(S)
    BY SubSeqProperties
  <2>2. Len(u) = n
    BY SubSeqProperties
  <2>3. \A i \in 1 .. n : u[i] = t[from + i]
    BY SubSeqProperties
  <2>4. QED
    BY <2>1, <2>2, <2>3
<1>3. IsBlock(Block(t), 0 .. last)
  BY EncodedBlock, Zenon
<1>4. m = [i \in 0 .. last |->
        IF i >= 0 /\ i < 0 + n THEN Block(t)[i - 0 + from] ELSE Block(t)[i]]
  <2> HIDE DEF last
  <2>1. MovedDown(Block(t), 0, from, n) = LowerBlock(Block(t), last, 0, from, n)
    <3>1. 0 \in Nat /\ 0 <= from /\ from + n <= last + 1
      BY <1>1 DEF last
    <3>2. QED
      BY <1>1, <1>3, <3>1, MovedDownIs
  <2>2. QED
    BY <2>1, Zenon DEF LowerBlock
<1>5. IsBlock(m, 0 .. last)
  BY <1>4, Zenon DEF IsBlock
<1>6. \A i \in 0 .. n - 1 : m[i] = u[i + 1]
  <2> TAKE i \in 0 .. n - 1
  <2>1. m[i] = Block(t)[i + from]
    BY <1>1, <1>4
  <2>2. Block(t)[i + from] = t[(i + from) + 1]
    <3>1. i + from \in 0 .. Len(t) - 1
      BY <1>1
    <3>2. QED
      BY <3>1, EncodedParts
  <2>3. u[i + 1] = t[from + (i + 1)]
    <3>1. i + 1 \in 1 .. n
      OBVIOUS
    <3>2. QED
      BY <3>1, <1>2, Zenon
  <2>4. from + (i + 1) = (i + from) + 1
    OBVIOUS
  <2>5. QED
    BY <2>1, <2>2, <2>3, <2>4, Zenon
<1> HIDE DEF last, u, m
<1>7. Resized(Put(m, n, NUL), n + 1) = Closed(m, n)
  BY <1>1, <1>5, CutIsClosed, Zenon
<1>8. Str(Closed(m, n), n + 1) = Encoded(u)
  BY <1>2, <1>6, ClosedText
<1>9. MovedToFront(Encoded(t), from, n) = Str(Resized(Put(m, n, NUL), n + 1), n + 1)
  BY EncodedParts DEF MovedToFront, m
<1>10. QED
  BY <1>2, <1>7, <1>8, <1>9, Zenon DEF u

\* str_set_at.
LEMMA SetAtText ==
  ASSUME NEW S, NEW t \in Seq(S), NEW at \in 0 .. Len(t) - 1, NEW c \in S
  PROVE  /\ ReplaceAt(t, at + 1, c) \in Seq(S)
         /\ Str(Put(Block(t), at, c), Len(t) + 1) = Encoded(ReplaceAt(t, at + 1, c))
<1> DEFINE u == ReplaceAt(t, at + 1, c)
           last == Len(t)
           b == Put(Block(t), at, c)
<1>1. last \in Nat /\ at + 1 \in 1 .. Len(t) /\ at \in 0 .. last
  BY LenProperties
<1>2. u \in Seq(S) /\ Len(u) = last /\ \A i \in 1 .. last : u[i] =
        IF i = at + 1 THEN c ELSE t[i]
  BY <1>1, ExceptSeq DEF ReplaceAt
<1>3. b = Written(Block(t), 0 .. last, at, c)
  BY <1>1, EncodedBlock, PutInside, Zenon
<1>4. IsBlock(b, 0 .. last)
  BY <1>3 DEF Written, IsBlock
<1>5. \A i \in 0 .. last - 1 : b[i] = u[i + 1]
  <2> TAKE i \in 0 .. last - 1
  <2>1. b[i] = IF i = at THEN c ELSE Block(t)[i]
    BY <1>1, <1>3 DEF Written
  <2>2. Block(t)[i] = t[i + 1]
    BY EncodedParts
  <2>3. i + 1 \in 1 .. last /\ (i + 1 = at + 1 <=> i = at)
    BY <1>1
  <2>4. QED
    BY <1>2, <2>1, <2>2, <2>3, Zenon
<1>6. b[last] = NUL
  BY <1>1, <1>3, EncodedParts DEF Written
<1> HIDE DEF u, last, b
<1>7. HoldsText(b, u)
  BY <1>2, <1>4, <1>5, <1>6, Zenon DEF HoldsText
<1>8. Str(b, Len(u) + 1) = Encoded(u)
  BY <1>2, <1>7, EncodedIs, Zenon
<1>9. QED
  BY <1>2, <1>8, Zenon DEF u, b, last

\* The loop of str_delete_at.
LEMMA DeleteAtText ==
  ASSUME NEW S, NEW t \in Seq(S), NEW at \in 0 .. Len(t) - 1
  PROVE  /\ RemoveAt(t, at + 1) \in Seq(S)
         /\ Str(Resized(MovedDown(Block(t), at, at + 1, Len(t) - at), Len(t)), Len(t))
              = Encoded(RemoveAt(t, at + 1))
<1> DEFINE u == RemoveAt(t, at + 1)
           last == Len(t)
           n == last - at
           m == MovedDown(Block(t), at, at + 1, n)
           b == Resized(m, last)
<1>1. last \in Nat /\ at + 1 \in 1 .. Len(t) /\ at \in Nat /\ n \in Nat /\ at + n = last
        /\ at + 1 + n <= last + 1
  BY LenProperties
<1>2. u \in Seq(S) /\ Len(u) = last - 1 /\ \A i \in 1 .. last - 1 : u[i] =
        IF i < at + 1 THEN t[i] ELSE t[i + 1]
  <2>1. u \in Seq(S)
    BY <1>1, RemoveAtProperties
  <2>2. Len(u) = last - 1
    BY <1>1, RemoveAtProperties
  <2>3. \A i \in 1 .. last - 1 : u[i] = IF i < at + 1 THEN t[i] ELSE t[i + 1]
    BY <1>1, RemoveAtProperties
  <2>4. QED
    BY <2>1, <2>2, <2>3
<1>3. IsBlock(Block(t), 0 .. last)
  BY EncodedBlock, Zenon
<1>4. m = [i \in 0 .. last |->
        IF i >= at /\ i < at + n THEN Block(t)[i - at + (at + 1)] ELSE Block(t)[i]]
  <2> HIDE DEF last, n
  <2>1. at <= at + 1 /\ at + 1 \in Nat
    BY <1>1
  <2>2. at + 1 + n <= last + 1
    BY <1>1
  <2>3. MovedDown(Block(t), at, at + 1, n) = LowerBlock(Block(t), last, at, at + 1, n)
    BY <1>1, <1>3, <2>1, <2>2, MovedDownIs
  <2>4. QED
    BY <2>3, Zenon DEF LowerBlock
<1>5. b = [i \in 0 .. last - 1 |-> m[i]]
  BY <1>1, <1>4 DEF Resized
<1>6. IsBlock(b, 0 .. last - 1)
  BY <1>5 DEF IsBlock
<1>7. \A i \in 0 .. last - 1 : b[i] = IF i < at THEN Block(t)[i] ELSE Block(t)[i + 1]
  <2> TAKE i \in 0 .. last - 1
  <2>1. b[i] = m[i]
    BY <1>5
  <2>2. m[i] = IF i >= at /\ i < at + n THEN Block(t)[i - at + (at + 1)] ELSE Block(t)[i]
    BY <1>1, <1>4
  <2>3. i - at + (at + 1) = i + 1 /\ i < at + n /\ (i >= at <=> ~(i < at))
    BY <1>1
  <2>4. QED
    BY <2>1, <2>2, <2>3, Zenon
<1>8. \A i \in 0 .. (last - 1) - 1 : b[i] = u[i + 1]
  <2> TAKE i \in 0 .. (last - 1) - 1
  <2>1. i \in 0 .. last - 1 /\ i + 1 \in 0 .. last - 1 /\ i + 1 \in 1 .. last - 1
          /\ (i < at <=> i + 1 < at + 1)
    BY <1>1
  <2>2. Block(t)[i] = t[i + 1] /\ Block(t)[i + 1] = t[i + 1 + 1]
    BY <2>1, EncodedParts
  <2>3. QED
    BY <1>2, <1>7, <2>1, <2>2, Zenon
<1>9. b[last - 1] = NUL
  <2>1. last - 1 \in 0 .. last - 1 /\ ~(last - 1 < at) /\ last - 1 + 1 = last
    BY <1>1
  <2>2. Block(t)[last] = NUL
    BY EncodedParts
  <2>3. QED
    BY <1>7, <2>1, <2>2, Zenon
<1>10. last - 1 + 1 = last
  BY <1>1
<1> HIDE DEF u, last, b
<1>11. HoldsText(b, u)
  BY <1>2, <1>6, <1>8, <1>9, Zenon DEF HoldsText
<1>12. Str(b, last) = Encoded(u)
  BY <1>2, <1>10, <1>11, EncodedIs, Zenon
<1>13. QED
  BY <1>2, <1>12, Zenon DEF u, b, last, m, n

\* The bytes of two texts, one behind the other.
LEMMA ConcatParts ==
  ASSUME NEW S, NEW t \in Seq(S), NEW u \in Seq(S)
  PROVE  /\ t \o u \in Seq(S)
         /\ Len(t \o u) = Len(t) + Len(u)
         /\ \A i \in 0 .. Len(t) - 1 : (t \o u)[i + 1] = t[i + 1]
         /\ \A i \in Len(t) .. Len(t) + Len(u) - 1 : (t \o u)[i + 1] = u[i - Len(t) + 1]
<1>1. Len(t) \in Nat /\ Len(u) \in Nat
  BY LenProperties
<1>2. t \o u \in Seq(S)
  BY ConcatProperties
<1>3. Len(t \o u) = Len(t) + Len(u)
  BY ConcatProperties
<1>4. \A i \in 1 .. Len(t) + Len(u) :
        (t \o u)[i] = IF i <= Len(t) THEN t[i] ELSE u[i - Len(t)]
  BY ConcatProperties
<1> DEFINE v == t \o u
<1> HIDE DEF v
<1>5. \A i \in 0 .. Len(t) - 1 : v[i + 1] = t[i + 1]
  BY <1>1, <1>4 DEF v
<1>6. \A i \in Len(t) .. Len(t) + Len(u) - 1 : v[i + 1] = u[i - Len(t) + 1]
  <2> TAKE i \in Len(t) .. Len(t) + Len(u) - 1
  <2> DEFINE j == i + 1
  <2>1. j \in 1 .. Len(t) + Len(u) /\ ~(j <= Len(t)) /\ j - Len(t) = i - Len(t) + 1
    BY <1>1
  <2> HIDE DEF j
  <2>2. v[j] = u[j - Len(t)]
    BY <2>1, <1>4, Zenon DEF v
  <2>3. QED
    BY <2>1, <2>2, Zenon DEF j
<1>7. QED
  BY <1>2, <1>3, <1>5, <1>6 DEF v

\* realloc keeps the text.
LEMMA GrownBlock ==
  ASSUME NEW S, NEW t \in Seq(S), NEW last \in Nat, last >= Len(t)
  PROVE  /\ IsBlock(Resized(Block(t), last + 1), 0 .. last)
         /\ \A i \in 0 .. Len(t) : Resized(Block(t), last + 1)[i] = Block(t)[i]
<1>1. Len(t) \in Nat /\ 0 .. (last + 1) - 1 = 0 .. last /\ DOMAIN Block(t) = 0 .. Len(t)
  BY EncodedParts
<1>2. Resized(Block(t), last + 1)
        = [i \in 0 .. last |-> IF i \in 0 .. Len(t) THEN Block(t)[i] ELSE "junk"]
  BY <1>1, Zenon DEF Resized
<1>3. \A i \in 0 .. Len(t) : i \in 0 .. last
  BY <1>1
<1>4. QED
  BY <1>2, <1>3, Zenon DEF IsBlock

\* str_prepend.
LEMMA PrependText ==
  ASSUME NEW S, NEW t \in Seq(S), NEW u \in Seq(S)
  PROVE  /\ u \o t \in Seq(S)
         /\ StrPrepend(Encoded(t), u) = Encoded(u \o t)
<1>1. CASE u = << >>
  <2>1. u \o t = t
    BY <1>1
  <2>2. QED
    BY <1>1, <2>1, Zenon DEF StrPrepend
<1>2. CASE u # << >>
  <2> DEFINE v == u \o t
             n == Len(t)
             by == Len(u)
             last == by + n
             r == Resized(Block(t), last + 1)
             m == MovedUp(r, by, n + 1)
             b == [i \in DOMAIN m |-> IF i < by THEN u[i + 1] ELSE m[i]]
  <2>1. /\ n \in Nat /\ by \in Nat /\ by > 0 /\ last \in Nat /\ last >= n
        /\ n + 1 \in Nat /\ by + (n + 1) <= last + 1
        /\ n + 1 + by = last + 1
    BY <1>2, LenProperties, EmptySeq
  <2>2. IsBlock(r, 0 .. last) /\ \A i \in 0 .. n : r[i] = Block(t)[i]
    BY <2>1, GrownBlock
  <2>3. m = HigherBlock(r, last, by, n + 1)
    <3> HIDE DEF last, r, by, n
    <3>1. QED
      BY <2>1, <2>2, MovedUpIs
  <2>4. /\ v \in Seq(S)
        /\ Len(v) = last
        /\ \A i \in 0 .. by - 1 : v[i + 1] = u[i + 1]
        /\ \A i \in by .. last - 1 : v[i + 1] = t[i - by + 1]
    <3>1. v \in Seq(S)
      BY ConcatParts
    <3>2. Len(v) = last
      BY ConcatParts
    <3>3. \A i \in 0 .. by - 1 : v[i + 1] = u[i + 1]
      BY ConcatParts
    <3>4. \A i \in by .. last - 1 : v[i + 1] = t[i - by + 1]
      BY ConcatParts
    <3>5. QED
      BY <3>1, <3>2, <3>3, <3>4, Zenon
  <2>5. StrPrepend(Encoded(t), u) = Str(b, last + 1)
    BY <1>2, <2>1, EncodedParts DEF StrPrepend
  <2>6. Block(t)[n] = NUL /\ \A i \in 0 .. n - 1 : Block(t)[i] = t[i + 1]
    BY EncodedParts
  <2> HIDE DEF v, n, by, last, r, m
  <2>7. /\ DOMAIN m = 0 .. last
        /\ \A i \in 0 .. last : m[i] = IF i >= by /\ i < by + (n + 1) THEN r[i - by] ELSE r[i]
    BY <2>3, Zenon DEF HigherBlock
  <2>8. IsBlock(b, 0 .. last) /\ \A i \in 0 .. last : b[i] = IF i < by THEN u[i + 1] ELSE m[i]
    BY <2>7, Zenon DEF IsBlock
  <2> HIDE DEF b
  <2>9. \A i \in by .. last : b[i] = Block(t)[i - by]
    <3> TAKE i \in by .. last
    <3>1. i \in 0 .. last /\ ~(i < by) /\ i >= by /\ i < by + (n + 1) /\ i - by \in 0 .. n
      BY <2>1
    <3>2. QED
      BY <3>1, <2>2, <2>7, <2>8, Zenon
  <2>10. \A i \in 0 .. last - 1 : b[i] = v[i + 1]
    <3> TAKE i \in 0 .. last - 1
    <3>1. CASE i < by
      <4>1. i \in 0 .. last /\ i \in 0 .. by - 1
        BY <3>1, <2>1
      <4>2. QED
        BY <3>1, <4>1, <2>4, <2>8, Zenon
    <3>2. CASE ~(i < by)
      <4>1. i \in by .. last /\ i \in by .. last - 1 /\ i - by \in 0 .. n - 1
        BY <3>2, <2>1
      <4>2. QED
        BY <3>2, <4>1, <2>4, <2>6, <2>9, Zenon
    <3>3. QED
      BY <3>1, <3>2, Zenon
  <2>11. b[last] = NUL
    <3>1. last \in by .. last /\ last - by = n
      BY <2>1
    <3>2. QED
      BY <3>1, <2>6, <2>9, Zenon
  <2>12. HoldsText(b, v)
    BY <2>4, <2>8, <2>10, <2>11, Zenon DEF HoldsText
  <2>13. Str(b, last + 1) = Encoded(v)
    BY <2>4, <2>12, EncodedIs, Zenon
  <2>14. QED
    BY <2>4, <2>5, <2>13, Zenon DEF v
<1>3. QED
  BY <1>1, <1>2, ConcatParts

\* str_append.
LEMMA AppendText ==
  ASSUME NEW S, NEW t \in Seq(S), NEW u \in Seq(S)
  PROVE  /\ t \o u \in Seq(S)
         /\ StrAppend(Encoded(t), u) = Encoded(t \o u)
<1>1. CASE u = << >>
  <2>1. t \o u = t
    BY <1>1
  <2>2. QED
    BY <1>1, <2>1, Zenon DEF StrAppend
<1>2. CASE u # << >>
  <2> DEFINE v == t \o u
             n == Len(t)
             last == n + Len(u)
             r == Resized(Block(t), last + 1)
             b == Copied(r, n, u)
  <2>1. /\ n \in Nat /\ Len(u) \in Nat /\ last \in Nat /\ last >= n /\ n + 1 + Len(u) = last + 1
    BY LenProperties
  <2>2. IsBlock(r, 0 .. last) /\ \A i \in 0 .. n : r[i] = Block(t)[i]
    BY <2>1, GrownBlock
  <2>3. /\ v \in Seq(S)
        /\ Len(v) = last
        /\ \A i \in 0 .. n - 1 : v[i + 1] = t[i + 1]
        /\ \A i \in n .. last - 1 : v[i + 1] = u[i - n + 1]
    <3>1. v \in Seq(S)
      BY ConcatParts
    <3>2. Len(v) = last
      BY ConcatParts
    <3>3. \A i \in 0 .. n - 1 : v[i + 1] = t[i + 1]
      BY ConcatParts
    <3>4. \A i \in n .. last - 1 : v[i + 1] = u[i - n + 1]
      BY ConcatParts
    <3>5. QED
      BY <3>1, <3>2, <3>3, <3>4, Zenon
  <2>4. StrAppend(Encoded(t), u) = Str(b, last + 1)
    BY <1>2, <2>1, EncodedParts DEF StrAppend
  <2>5. \A i \in 0 .. n - 1 : Block(t)[i] = t[i + 1]
    BY EncodedParts
  <2>6. n + Len(u) = last
    OBVIOUS
  <2> HIDE DEF v, n, last, r
  <2>7. /\ IsBlock(b, 0 .. last)
        /\ \A i \in 0 .. last : b[i] = IF i = last THEN NUL
                                     ELSE IF i \in n .. last THEN u[i - n + 1] ELSE r[i]
    <3>1. DOMAIN r \cup (n .. last) = 0 .. last
      <4>1. DOMAIN r = 0 .. last
        BY <2>2, Zenon DEF IsBlock
      <4>2. QED
        BY <2>1, <4>1
    <3>2. QED
      BY <2>6, <3>1, Zenon DEF Copied, IsBlock
  <2> HIDE DEF b
  <2>8. \A i \in 0 .. last - 1 : b[i] = v[i + 1]
    <3> TAKE i \in 0 .. last - 1
    <3>1. CASE i < n
      <4>1. i \in 0 .. last /\ i # last /\ i \notin n .. last /\ i \in 0 .. n
              /\ i \in 0 .. n - 1
        BY <3>1, <2>1
      <4>2. QED
        BY <4>1, <2>2, <2>3, <2>5, <2>7, Zenon
    <3>2. CASE ~(i < n)
      <4>1. i \in 0 .. last /\ i # last /\ i \in n .. last /\ i \in n .. last - 1
        BY <3>2, <2>1
      <4>2. QED
        BY <4>1, <2>3, <2>7, Zenon
    <3>3. QED
      BY <3>1, <3>2, Zenon
  <2>9. b[last] = NUL
    BY <2>1, <2>7
  <2>10. HoldsText(b, v)
    BY <2>3, <2>7, <2>8, <2>9, Zenon DEF HoldsText
  <2>11. Str(b, last + 1) = Encoded(v)
    BY <2>3, <2>10, EncodedIs, Zenon
  <2>12. QED
    BY <2>3, <2>4, <2>11, Zenon DEF v
<1>3. QED
  BY <1>1, <1>2, ConcatParts

\* A block that is made smaller, and the byte that ends it.
LEMMA ShrunkBlock ==
  ASSUME NEW S, NEW t \in Seq(S), NEW n \in Nat, n <= Len(t)
  PROVE  /\ IsBlock(Resized(Block(t), n + 1), 0 .. n)
         /\ \A i \in 0 .. n : Resized(Block(t), n + 1)[i] = Block(t)[i]
<1>1. 0 .. (n + 1) - 1 = 0 .. n /\ DOMAIN Block(t) = 0 .. Len(t)
        /\ \A i \in 0 .. n : i \in 0 .. Len(t)
  BY EncodedParts
<1>2. Resized(Block(t), n + 1) = [i \in 0 .. n |-> Block(t)[i]]
  BY <1>1, Zenon DEF Resized
<1>3. QED
  BY <1>2, Zenon DEF IsBlock

\* A NUL behind the last byte closes the block there.
LEMMA PutEnd ==
  ASSUME NEW n \in Nat, NEW m, IsBlock(m, 0 .. n)
  PROVE  Put(m, n, NUL) = Closed(m, n)
<1>1. n \in 0 .. n
  OBVIOUS
<1>2. Put(m, n, NUL) = Written(m, 0 .. n, n, NUL)
  BY <1>1, PutInside, Zenon
<1>3. QED
  BY <1>2, Zenon DEF Written, Closed

\* What is left of the end, if it is longer than the text.
EndIn(t, n) == SubSeq(t, IF Len(t) > n THEN Len(t) - n + 1 ELSE 1, Len(t))

\* An end that is longer than the room is cut at its front.
LEMMA EndInParts ==
  ASSUME NEW S, NEW t \in Seq(S), NEW n \in Nat
  PROVE  /\ EndIn(t, n) \in Seq(S)
         /\ Len(EndIn(t, n)) = IF Len(t) > n THEN n ELSE Len(t)
         /\ \A i \in 1 .. Len(EndIn(t, n)) : EndIn(t, n)[i] = t[i + Len(t) - Len(EndIn(t, n))]
<1> DEFINE from == IF Len(t) > n THEN Len(t) - n + 1 ELSE 1
           e == SubSeq(t, from, Len(t))
<1>1. Len(t) \in Nat /\ from \in 1 .. Len(t) + 1
  BY LenProperties
<1>2. e \in Seq(S)
  BY <1>1, SubSeqProperties
<1>3. Len(e) = IF from <= Len(t) THEN Len(t) - from + 1 ELSE 0
  BY <1>1, SubSeqProperties
<1>4. \A i \in 1 .. Len(t) - from + 1 : e[i] = t[from + i - 1]
  BY <1>1, SubSeqProperties
<1>5. EndIn(t, n) = e
  BY DEF EndIn
<1> HIDE DEF e
<1>6. Len(e) = IF Len(t) > n THEN n ELSE Len(t)
  <2>1. CASE Len(t) > n
    <3>1. from = Len(t) - n + 1
      BY <2>1
    <3> HIDE DEF from
    <3>2. QED
      BY <2>1, <3>1, <1>1, <1>3
  <2>2. CASE ~(Len(t) > n)
    <3>1. from = 1
      BY <2>2
    <3> HIDE DEF from
    <3>2. QED
      BY <2>2, <3>1, <1>1, <1>3
  <2>3. QED
    BY <2>1, <2>2, Zenon
<1>7. Len(e) = Len(t) - from + 1
  BY <1>1, <1>6
<1> HIDE DEF from
<1>8. \A i \in 1 .. Len(e) : e[i] = t[i + Len(t) - Len(e)]
  <2> TAKE i \in 1 .. Len(e)
  <2>1. i \in 1 .. Len(t) - from + 1 /\ from + i - 1 = i + Len(t) - Len(e)
    BY <1>1, <1>7
  <2>2. QED
    BY <1>4, <2>1
<1>9. QED
  BY <1>2, <1>5, <1>6, <1>8, Zenon

\* str_truncate.
LEMMA TruncateText ==
  ASSUME NEW S, NEW t \in Seq(S), NEW end \in Seq(S), NEW n \in Nat, n < Len(t)
  PROVE  /\ SubSeq(t, 1, n - Len(EndIn(end, n))) \o EndIn(end, n) \in Seq(S)
         /\ StrTruncate(Encoded(t), n, end)
              = Encoded(SubSeq(t, 1, n - Len(EndIn(end, n))) \o EndIn(end, n))
<1> DEFINE e == EndIn(end, n)
           k == n - Len(e)
           front == SubSeq(t, 1, k)
           u == front \o e
           r == Resized(Block(t), n + 1)
           m == Ended(r, n, end)
<1>1. Len(t) \in Nat /\ Len(end) \in Nat
  BY LenProperties
<1>2. /\ e \in Seq(S)
      /\ Len(e) = IF Len(end) > n THEN n ELSE Len(end)
      /\ \A i \in 1 .. Len(e) : e[i] = end[i + Len(end) - Len(e)]
  BY EndInParts, Zenon
<1> HIDE DEF e
<1>3. k \in Nat /\ k <= Len(t) /\ Len(e) \in Nat
  BY <1>1, <1>2
<1>4. front \in Seq(S) /\ Len(front) = k /\ \A i \in 1 .. k : front[i] = t[i]
  <2>1. front \in Seq(S)
    BY <1>3, SubSeqProperties
  <2>2. Len(front) = k
    BY <1>3, SubSeqProperties
  <2>3. \A i \in 1 .. k : front[i] = t[i]
    BY <1>3, SubSeqProperties
  <2>4. QED
    BY <2>1, <2>2, <2>3
<1>5. k + Len(e) = n
  BY <1>3
<1>6. /\ u \in Seq(S)
      /\ Len(u) = n
      /\ \A i \in 0 .. k - 1 : u[i + 1] = t[i + 1]
      /\ \A i \in k .. n - 1 : u[i + 1] = e[i - k + 1]
  <2> HIDE DEF front, k
  <2>1. front \in Seq(S) /\ e \in Seq(S)
    BY <1>2, <1>4
  <2>2. /\ u \in Seq(S)
        /\ Len(u) = Len(front) + Len(e)
        /\ \A i \in 0 .. Len(front) - 1 : u[i + 1] = front[i + 1]
        /\ \A i \in Len(front) .. Len(front) + Len(e) - 1 : u[i + 1] = e[i - Len(front) + 1]
    BY <2>1, ConcatParts, Zenon
  <2>3. \A i \in 0 .. k - 1 : front[i + 1] = t[i + 1]
    <3> TAKE i \in 0 .. k - 1
    <3>1. i + 1 \in 1 .. k
      BY <1>3
    <3>2. QED
      BY <3>1, <1>4, Zenon
  <2> HIDE DEF u
  <2>4. \A i \in 0 .. k - 1 : u[i + 1] = t[i + 1]
    BY <1>4, <2>2, <2>3, Zenon
  <2>5. \A i \in k .. k + Len(e) - 1 : u[i + 1] = e[i - k + 1]
    BY <1>4, <2>2, Zenon
  <2>6. Len(u) = k + Len(e)
    BY <1>4, <2>2, Zenon
  <2>7. k .. n - 1 = k .. k + Len(e) - 1
    BY <1>3, <1>5
  <2>8. QED
    BY <1>5, <2>2, <2>4, <2>5, <2>6, <2>7, Zenon
<1>7. IsBlock(r, 0 .. n) /\ \A i \in 0 .. n : r[i] = Block(t)[i]
  <2>1. n <= Len(t)
    BY <1>1
  <2>2. QED
    BY <2>1, ShrunkBlock, Zenon
<1>8. m = EndedBlock(r, n, n, end)
  <2>1. n \in 0 .. n
    OBVIOUS
  <2>2. QED
    BY <1>7, <2>1, EndedIs, Zenon
<1>9. StrTruncate(Encoded(t), n, end) = Str(Put(m, n, NUL), n + 1)
  <2>1. ~(n >= Encoded(t).size - 1) /\ Encoded(t).cstr = Block(t)
    BY <1>1, EncodedParts
  <2>2. QED
    BY <2>1, Zenon DEF StrTruncate
<1> HIDE DEF u, k, r, m
<1>10. \A i \in 0 .. n - 1 : m[i] = u[i + 1]
  <2> TAKE i \in 0 .. n - 1
  <2>1. i \in 0 .. n /\ i < n
    OBVIOUS
  <2>2. m[i] = IF i >= n - Len(end) THEN end[i - n + Len(end) + 1] ELSE r[i]
    BY <1>8, <2>1, Zenon DEF EndedBlock
  <2>3. CASE i >= n - Len(end)
    <3>1. Len(e) = IF Len(end) > n THEN n ELSE Len(end)
      BY <1>2
    <3> DEFINE le == Len(e)
               ln == Len(end)
    <3>2. i \in k .. n - 1 /\ i - k + 1 \in 1 .. Len(e)
            /\ i - k + 1 + Len(end) - Len(e) = i - n + Len(end) + 1
      <4>1. ln \in Nat /\ le \in Nat /\ k \in Nat /\ k + le = n /\ i >= n - ln
              /\ le = IF ln > n THEN n ELSE ln
        BY <3>1, <1>1, <1>3, <1>5, <2>3
      <4> HIDE DEF le, ln
      <4>2. i >= k
        BY <4>1
      <4>3. i \in k .. n - 1 /\ i - k + 1 \in 1 .. le /\ i - k + 1 + ln - le = i - n + ln + 1
        BY <4>1, <4>2
      <4>4. QED
        BY <4>3 DEF le, ln
    <3>3. u[i + 1] = e[i - k + 1]
      BY <3>2, <1>6, Zenon
    <3> DEFINE j == i - k + 1
    <3> HIDE DEF j
    <3>4. e[j] = end[j + Len(end) - Len(e)]
      BY <3>2, <1>2, Zenon DEF j
    <3>5. QED
      BY <2>2, <2>3, <3>2, <3>3, <3>4, Zenon DEF j
  <2>4. CASE ~(i >= n - Len(end))
    <3>1. i \in 0 .. k - 1 /\ i \in 0 .. Len(t) - 1
      BY <1>1, <1>2, <1>5, <1>3, <2>4
    <3>2. r[i] = t[i + 1]
      BY <1>7, <2>1, <3>1, EncodedParts
    <3>3. QED
      BY <2>2, <2>4, <3>1, <3>2, <1>6, Zenon
  <2>5. QED
    BY <2>3, <2>4, Zenon
<1>11. IsBlock(m, 0 .. n)
  BY <1>8, Zenon DEF EndedBlock, IsBlock
<1>12. Put(m, n, NUL) = Closed(m, n)
  BY <1>11, PutEnd, Zenon
<1>13. Str(Closed(m, n), n + 1) = Encoded(u)
  BY <1>6, <1>10, ClosedText
<1>14. QED
  BY <1>6, <1>9, <1>12, <1>13, Zenon DEF u, front, k, e

\* str_reverse.
LEMMA ReverseText ==
  ASSUME NEW S, NEW t \in Seq(S)
  PROVE  /\ Reverse(t) \in Seq(S)
         /\ StrReverse(Encoded(t)) = Encoded(Reverse(t))
<1> DEFINE n == Len(t)
           u == Reverse(t)
           b == Swapped(Block(t), n)
<1>1. n \in Nat /\ n \in 0 .. n + 1
  BY LenProperties
<1>2. u \in Seq(S) /\ Len(u) = n /\ \A i \in 1 .. n : u[i] = t[n - i + 1]
  <2>1. u = [i \in 1 .. n |-> t[n - i + 1]]
    BY DEF Reverse
  <2>2. \A i \in 1 .. n : t[n - i + 1] \in S
    BY <1>1, ElementOfSeq
  <2>3. u \in [1 .. n -> S]
    BY <2>1, <2>2
  <2> HIDE DEF u
  <2>4. u \in Seq(S) /\ Len(u) = n
    BY <1>1, <2>3
  <2>5. QED
    BY <2>1, <2>4
<1>3. IsBlock(Block(t), 0 .. n)
  BY EncodedBlock, Zenon
<1>4. b = SwappedBlock(Block(t), n, n)
  <2> HIDE DEF n
  <2>1. QED
    BY <1>1, <1>3, SwappedIs
<1>5. StrReverse(Encoded(t)) = Str(b, n + 1)
  BY EncodedParts DEF StrReverse, Encoded, Str
<1>6. Block(t)[n] = NUL /\ \A i \in 0 .. n - 1 : Block(t)[i] = t[i + 1]
  BY EncodedParts
<1> HIDE DEF n, u, b
<1>7. IsBlock(b, 0 .. n)
  BY <1>4, Zenon DEF SwappedBlock, IsBlock
<1>8. \A i \in 0 .. n - 1 : b[i] = u[i + 1]
  <2> TAKE i \in 0 .. n - 1
  <2>1. i \in 0 .. n /\ i < n /\ n - 1 - i \in 0 .. n - 1 /\ i + 1 \in 1 .. n
          /\ n - 1 - i + 1 = n - (i + 1) + 1
    BY <1>1
  <2>2. b[i] = Block(t)[n - 1 - i]
    BY <2>1, <1>4, Zenon DEF SwappedBlock
  <2> DEFINE j == n - 1 - i
  <2> HIDE DEF j
  <2>3. Block(t)[j] = t[j + 1]
    BY <1>6, <2>1, Zenon DEF j
  <2>4. QED
    BY <1>2, <2>1, <2>2, <2>3, Zenon DEF j
<1>9. b[n] = NUL
  <2>1. n \in 0 .. n /\ ~(n < n)
    BY <1>1
  <2>2. QED
    BY <2>1, <1>4, <1>6, Zenon DEF SwappedBlock
<1>10. HoldsText(b, u)
  BY <1>2, <1>7, <1>8, <1>9, Zenon DEF HoldsText
<1>11. Str(b, n + 1) = Encoded(u)
  BY <1>2, <1>10, EncodedIs, Zenon
<1>12. QED
  BY <1>2, <1>5, <1>11, Zenon DEF u

\* What a text is filled with.
FillOf(n, c) == [i \in 1 .. n |-> c]

\* n times the same byte.
LEMMA FillOfParts ==
  ASSUME NEW S, NEW c \in S, NEW n \in Nat
  PROVE  /\ FillOf(n, c) \in Seq(S)
         /\ Len(FillOf(n, c)) = n
         /\ \A i \in 0 .. n - 1 : FillOf(n, c)[i + 1] = c
<1> DEFINE f == FillOf(n, c)
<1>1. f \in [1 .. n -> S] /\ \A i \in 1 .. n : f[i] = c
  BY DEF FillOf
<1> HIDE DEF f
<1>2. f \in Seq(S) /\ Len(f) = n
  BY <1>1
<1>3. \A i \in 0 .. n - 1 : i + 1 \in 1 .. n
  OBVIOUS
<1>4. QED
  BY <1>1, <1>2, <1>3, Zenon DEF f

\* str_ljust.
LEMMA LJustText ==
  ASSUME NEW S, NEW t \in Seq(S), NEW fill \in S, NEW width \in Nat, width > Len(t)
  PROVE  /\ t \o FillOf(width - Len(t), fill) \in Seq(S)
         /\ StrLJust(Encoded(t), width, fill) = Encoded(t \o FillOf(width - Len(t), fill))
<1> DEFINE n == Len(t)
           f == FillOf(width - n, fill)
           u == t \o f
           r == Resized(Block(t), width + 1)
           m == Filled(r, n, width - n, fill)
<1>1. n \in Nat /\ width - n \in Nat /\ n + (width - n) = width /\ width >= n /\ width >= n + 1
      /\ n + (width - n) <= width + 1
  BY LenProperties
<1>2. f \in Seq(S) /\ Len(f) = width - n /\ \A i \in 0 .. width - n - 1 : f[i + 1] = fill
  BY <1>1, FillOfParts
<1> HIDE DEF f
<1>3. /\ u \in Seq(S)
      /\ Len(u) = Len(t) + Len(f)
      /\ \A i \in 0 .. Len(t) - 1 : u[i + 1] = t[i + 1]
      /\ \A i \in Len(t) .. Len(t) + Len(f) - 1 : u[i + 1] = f[i - Len(t) + 1]
  <2>1. f \in Seq(S)
    BY <1>2
  <2>2. QED
    BY <2>1, ConcatParts, Zenon
<1>4. IsBlock(r, 0 .. width) /\ \A i \in 0 .. n : r[i] = Block(t)[i]
  BY <1>1, GrownBlock
<1>5. m = FilledBlock(r, width, n, width - n, fill)
  <2> DEFINE k == width - n
  <2> HIDE DEF n, k, r
  <2>1. Filled(r, n, k, fill) = FilledBlock(r, width, n, k, fill)
    BY <1>1, <1>4, FilledIs DEF k
  <2>2. QED
    BY <2>1, Zenon DEF k
<1>6. StrLJust(Encoded(t), width, fill) = Str(Put(m, width, NUL), width + 1)
  <2>1. width >= Encoded(t).size /\ Encoded(t).cstr = Block(t) /\ StrLen(Encoded(t)) = n
    BY <1>1, EncodedParts
  <2>2. QED
    BY <2>1, Zenon DEF StrLJust
<1>7. \A i \in 0 .. n - 1 : Block(t)[i] = t[i + 1]
  BY EncodedParts
<1> HIDE DEF u, r, m
<1>8. IsBlock(m, 0 .. width)
  BY <1>5, Zenon DEF FilledBlock, IsBlock
<1>9. Len(u) = width
  BY <1>1, <1>2, <1>3
<1>10. \A i \in 0 .. width - 1 : m[i] = u[i + 1]
  <2> TAKE i \in 0 .. width - 1
  <2>1. m[i] = IF i >= n /\ i < n + (width - n) THEN fill ELSE r[i]
    <3>1. i \in 0 .. width
      OBVIOUS
    <3>2. QED
      BY <3>1, <1>5, Zenon DEF FilledBlock
  <2>2. CASE i < n
    <3>1. ~(i >= n) /\ i \in 0 .. n - 1 /\ i \in 0 .. n
      BY <2>2, <1>1
    <3>2. QED
      BY <2>1, <3>1, <1>3, <1>4, <1>7, Zenon
  <2>3. CASE ~(i < n)
    <3>1. i >= n /\ i < n + (width - n) /\ i - n \in 0 .. width - n - 1
      BY <2>3, <1>1
    <3>2. i \in n .. n + Len(f) - 1
      BY <2>3, <1>1, <1>2
    <3>3. u[i + 1] = f[i - n + 1]
      BY <3>2, <1>3, Zenon
    <3> DEFINE j == i - n
    <3> HIDE DEF j
    <3>4. f[j + 1] = fill
      BY <3>1, <1>2, Zenon DEF j
    <3>5. QED
      BY <2>1, <3>1, <3>3, <3>4, Zenon DEF j
  <2>4. QED
    BY <2>2, <2>3, Zenon
<1>11. Put(m, width, NUL) = Closed(m, width)
  BY <1>8, PutEnd, Zenon
<1>12. Str(Closed(m, width), width + 1) = Encoded(u)
  BY <1>3, <1>9, <1>10, ClosedText
<1>13. QED
  BY <1>3, <1>6, <1>11, <1>12, Zenon DEF u, f, n

\* A text with what is filled in front of it and behind it.
Padded(t, fill, left, right) == FillOf(left, fill) \o t \o FillOf(right, fill)
WidensTo(t, fill, left, right) ==
  Widened(Encoded(t), left + Len(t) + right, left, fill) = Encoded(Padded(t, fill, left, right))

\* A padded text has its bytes between those of the fill.
LEMMA WidenedText ==
  ASSUME NEW S, NEW t \in Seq(S), NEW fill \in S, NEW left \in Nat, NEW right \in Nat
  PROVE  /\ Padded(t, fill, left, right) \in Seq(S)
         /\ WidensTo(t, fill, left, right)
<1> DEFINE n == Len(t)
           width == left + n + right
           f == FillOf(left, fill)
           g == FillOf(right, fill)
           v == f \o t
           u == v \o g
           r == Resized(Block(t), width + 1)
           m == Spread(r, n, width, left, fill)
<1>1. n \in Nat /\ width \in Nat /\ width >= n /\ left + n <= width /\ width <= width
  BY LenProperties
<1>2. f \in Seq(S) /\ Len(f) = left /\ \A i \in 0 .. left - 1 : f[i + 1] = fill
  BY FillOfParts, Zenon
<1>3. g \in Seq(S) /\ Len(g) = right /\ \A i \in 0 .. right - 1 : g[i + 1] = fill
  BY FillOfParts, Zenon
<1> HIDE DEF f, g
<1>4. f \in Seq(S) /\ g \in Seq(S)
  BY <1>2, <1>3, Zenon
<1>5. /\ v \in Seq(S)
      /\ Len(v) = Len(f) + Len(t)
      /\ \A i \in 0 .. Len(f) - 1 : v[i + 1] = f[i + 1]
      /\ \A i \in Len(f) .. Len(f) + Len(t) - 1 : v[i + 1] = t[i - Len(f) + 1]
  BY <1>4, ConcatParts, Zenon
<1> HIDE DEF v
<1>6. v \in Seq(S)
  BY <1>5, Zenon
<1>7. /\ u \in Seq(S)
      /\ Len(u) = Len(v) + Len(g)
      /\ \A i \in 0 .. Len(v) - 1 : u[i + 1] = v[i + 1]
      /\ \A i \in Len(v) .. Len(v) + Len(g) - 1 : u[i + 1] = g[i - Len(v) + 1]
  BY <1>4, <1>6, ConcatParts, Zenon
<1>8. IsBlock(r, 0 .. width) /\ \A i \in 0 .. n : r[i] = Block(t)[i]
  BY <1>1, GrownBlock
<1>9. m = SpreadBlock(r, width, n, width, left, fill)
  <2> HIDE DEF n, width, r
  <2>1. QED
    BY <1>1, <1>8, SpreadIs
<1>10. Widened(Encoded(t), width, left, fill) = Str(Put(m, width, NUL), width + 1)
  <2>1. Encoded(t).cstr = Block(t) /\ StrLen(Encoded(t)) = n
    BY EncodedParts
  <2>2. QED
    BY <2>1, Zenon DEF Widened
<1>11. \A i \in 0 .. n - 1 : Block(t)[i] = t[i + 1]
  BY EncodedParts
<1> HIDE DEF u, r, m
<1>12. IsBlock(m, 0 .. width)
  BY <1>9, Zenon DEF SpreadBlock, IsBlock
<1>13. Len(v) = left + n
  BY <1>2, <1>5, Zenon
<1>14. Len(u) = width
  BY <1>3, <1>7, <1>13, Zenon
<1>15. width = left + n + right
  OBVIOUS
<1> HIDE DEF width, n
<1>16. \A i \in 0 .. width - 1 : m[i] = u[i + 1]
  <2> TAKE i \in 0 .. width - 1
  <2>1. m[i] = IF i >= left /\ i < left + n THEN r[i - left] ELSE IF i < width 
          THEN fill ELSE r[i]
    <3>1. i \in 0 .. width
      BY <1>1
    <3>2. QED
      BY <3>1, <1>9, Zenon DEF SpreadBlock
  <2>2. CASE i < left
    <3>1. ~(i >= left) /\ i < width /\ i \in 0 .. left - 1 /\ i \in 0 .. (left + n) - 1
      BY <2>2, <1>1
    <3>2. u[i + 1] = v[i + 1]
      BY <3>1, <1>7, <1>13
    <3>3. v[i + 1] = f[i + 1]
      BY <3>1, <1>2, <1>5
    <3>4. QED
      BY <2>1, <3>1, <3>2, <3>3, <1>2, Zenon
  <2>3. CASE i >= left /\ i < left + n
    <3>1. i \in 0 .. (left + n) - 1 /\ i \in left .. left + n - 1
            /\ i - left \in 0 .. n - 1 /\ i - left \in 0 .. n
      BY <2>3, <1>1
    <3>2. u[i + 1] = v[i + 1]
      BY <3>1, <1>7, <1>13
    <3>3. v[i + 1] = t[i - left + 1]
      BY <3>1, <1>2, <1>5 DEF n
    <3> DEFINE j == i - left
    <3> HIDE DEF j
    <3>4. r[j] = t[j + 1]
      BY <3>1, <1>8, <1>11, Zenon DEF j
    <3>5. QED
      BY <2>1, <2>3, <3>2, <3>3, <3>4, Zenon DEF j
  <2>4. CASE ~(i < left + n)
    <3>1. i < width /\ i \in left + n .. left + n + right - 1
            /\ i - (left + n) \in 0 .. right - 1
      BY <2>4, <1>1, <1>15
    <3>2. u[i + 1] = g[i - (left + n) + 1]
      BY <3>1, <1>3, <1>7, <1>13
    <3> DEFINE j == i - (left + n)
    <3> HIDE DEF j
    <3>3. g[j + 1] = fill
      BY <3>1, <1>3, Zenon DEF j
    <3>4. QED
      BY <2>1, <2>4, <3>1, <3>2, <3>3, Zenon DEF j
  <2>5. QED
    BY <2>2, <2>3, <2>4, <1>1
<1>17. Put(m, width, NUL) = Closed(m, width)
  BY <1>1, <1>12, PutEnd, Zenon
<1>18. Str(Closed(m, width), width + 1) = Encoded(u)
  BY <1>7, <1>14, <1>16, ClosedText
<1>19. QED
  BY <1>7, <1>10, <1>17, <1>18, Zenon DEF u, v, f, g, n, width, Padded, WidensTo

\* The bytes of a block from one place up to another.
CutOut(b, from, to) == [i \in 1 .. (IF to > from THEN to - from ELSE 0) |-> b[from + i - 1]]

\* str_slice.
LEMMA SliceText ==
  ASSUME NEW S, NEW t \in Seq(S), NEW from \in Nat, NEW to \in Nat, to <= Len(t)
  PROVE  /\ SubSeq(t, from + 1, to) \in Seq(S)
         /\ CutOut(Block(t), from, to) = SubSeq(t, from + 1, to)
<1> DEFINE n == IF to > from THEN to - from ELSE 0
           u == SubSeq(t, from + 1, to)
           w == [i \in 1 .. n |-> Block(t)[from + i - 1]]
<1>1. n \in Nat /\ Len(t) \in Nat
  BY LenProperties
<1>2. u \in Seq(S)
  <2>1. CASE to > from
    <3>1. \A i \in from + 1 .. to : i \in 1 .. Len(t)
      BY <1>1
    <3>2. QED
      BY <3>1, SubSeqProperties
  <2>2. CASE ~(to > from)
    <3>1. from + 1 > to
      BY <2>2
    <3>2. u = << >>
      BY <3>1, SubSeqEmpty
    <3>3. QED
      BY <3>2
  <2>3. QED
    BY <2>1, <2>2
<1>3. u = [i \in 1 .. n |-> t[from + i]]
  <2>1. 1 .. to - (from + 1) + 1 = 1 .. n
    OBVIOUS
  <2>2. u = [i \in 1 .. n |-> t[from + 1 + i - 1]]
    BY <2>1
  <2>3. \A i \in 1 .. n : from + 1 + i - 1 = from + i
    OBVIOUS
  <2> HIDE DEF u, n
  <2>4. QED
    BY <2>2, <2>3
<1>4. \A i \in 1 .. n : Block(t)[from + i - 1] = t[from + i]
  <2> TAKE i \in 1 .. n
  <2> DEFINE j == from + i - 1
  <2>1. j \in 0 .. Len(t) - 1 /\ j + 1 = from + i
    BY <1>1
  <2> HIDE DEF j
  <2>2. Block(t)[j] = t[j + 1]
    BY <2>1, EncodedParts
  <2>3. QED
    BY <2>1, <2>2, Zenon DEF j
<1> HIDE DEF n
<1>5. w = u
  <2> HIDE DEF u
  <2>1. QED
    BY <1>3, <1>4, Zenon
<1>6. QED
  BY <1>2, <1>5, Zenon DEF n, CutOut

\* A set of numbers up to n has a largest one.
LEMMA MaxOfNats ==
  ASSUME NEW n \in Nat, NEW I \in SUBSET (1 .. n), I # {}
  PROVE  Max(I) \in I /\ \A j \in I : Max(I) >= j
<1> DEFINE J == {n - i : i \in I}
<1>1. J \in SUBSET Nat /\ J # {}
  <2>1. \A i \in I : i \in 1 .. n /\ n - i \in Nat
    OBVIOUS
  <2>2. QED
    BY <2>1, Zenon
<1>2. PICK m \in J : \A j \in J : m <= j
  BY <1>1, MinOfNats
<1>3. PICK i \in I : m = n - i
  BY <1>2
<1>4. \A j \in I : i >= j
  <2> TAKE j \in I
  <2>1. n - j \in J
    OBVIOUS
  <2>2. m <= n - j
    BY <1>2, <2>1
  <2>3. QED
    BY <1>3, <2>2
<1>5. QED
  BY <1>4 DEF Max

\* The places of the bytes that are no spaces.
NoSpaces(t) == {i \in DOMAIN t : t[i] \notin Spaces}

\* A byte of the block is a space where that of the text is.
LEMMA NoSpacesOf ==
  ASSUME NEW S, NEW t \in Seq(S)
  PROVE  /\ NoSpaces(t) \in SUBSET (1 .. Len(t))
         /\ NoSpaces(t) \in SUBSET Nat
         /\ \A i \in 0 .. Len(t) - 1 : Block(t)[i] \notin Spaces <=> i + 1 \in NoSpaces(t)
<1>1. Len(t) \in Nat /\ DOMAIN t = 1 .. Len(t)
  BY LenProperties
<1>2. NoSpaces(t) = {i \in 1 .. Len(t) : t[i] \notin Spaces}
  BY <1>1 DEF NoSpaces
<1>3. \A i \in 0 .. Len(t) - 1 : Block(t)[i] = t[i + 1] /\ i + 1 \in 1 .. Len(t)
  BY EncodedParts
<1>4. QED
  BY <1>2, <1>3

\* How far str_lstrip goes.
LEMMA LeadingSpacesIs ==
  ASSUME NEW S, NEW t \in Seq(S)
  PROVE  LeadingSpaces(Encoded(t))
           = IF NoSpaces(t) = {} THEN Len(t) ELSE Min(NoSpaces(t)) - 1
<1> DEFINE n == Len(t)
           O == NoSpaces(t)
           c == Block(t)
           mn == Min(O)
           l == IF O = {} THEN n ELSE mn - 1
           P(i) == (\A j \in 0 .. i - 1 : c[j] \in Spaces) /\ (i = n \/ c[i] \notin Spaces)
<1>1. n \in Nat /\ O \in SUBSET (1 .. n) /\ O \in SUBSET Nat
  BY NoSpacesOf, LenProperties
<1>2. \A i \in 0 .. n - 1 : c[i] \notin Spaces <=> i + 1 \in O
  BY NoSpacesOf, Zenon
<1>3. LeadingSpaces(Encoded(t)) = CHOOSE i \in 0 .. n : P(i)
  <2>1. Encoded(t).cstr = c /\ StrLen(Encoded(t)) = n
    BY EncodedParts
  <2>2. QED
    BY <2>1, Zenon DEF LeadingSpaces
<1> HIDE DEF n, O, c
<1>4. O # {} => mn \in O /\ \A j \in O : mn <= j
  BY <1>1, MinOfNats, Zenon
<1> HIDE DEF mn
<1>5. O # {} => mn \in 1 .. n
  BY <1>1, <1>4, Zenon
<1>6. O = {} => l = n
  OBVIOUS
<1>7. O # {} => l = mn - 1 /\ mn = l + 1
  <2>1. O # {} => l = mn - 1
    OBVIOUS
  <2> HIDE DEF l
  <2>2. QED
    BY <2>1, <1>5
<1> HIDE DEF l
<1>8. l \in 0 .. n /\ P(l)
  <2>1. l \in 0 .. n
    BY <1>1, <1>5, <1>6, <1>7
  <2>2. \A j \in 0 .. l - 1 : c[j] \in Spaces
    <3> TAKE j \in 0 .. l - 1
    <3>1. j \in 0 .. n - 1 /\ j + 1 \notin O
      <4>1. j \in 0 .. n - 1 /\ j + 1 <= l
        BY <1>1, <2>1
      <4>2. CASE O = {}
        BY <4>1, <4>2
      <4>3. CASE O # {}
        <5>1. ~(mn <= j + 1)
          BY <4>1, <4>3, <1>5, <1>7
        <5>2. QED
          BY <4>1, <4>3, <5>1, <1>4, Zenon
      <4>4. QED
        BY <4>2, <4>3, Zenon
    <3>2. QED
      BY <3>1, <1>2, Zenon
  <2>3. l = n \/ c[l] \notin Spaces
    <3>1. CASE O = {}
      BY <3>1, <1>6
    <3>2. CASE O # {}
      <4>1. l \in 0 .. n - 1 /\ l + 1 \in O
        <5>1. l \in 0 .. n - 1
          BY <3>2, <1>1, <1>5, <1>7
        <5>2. l + 1 \in O
          BY <3>2, <1>4, <1>7, Zenon
        <5>3. QED
          BY <5>1, <5>2
      <4>2. QED
        BY <4>1, <1>2, Zenon
    <3>3. QED
      BY <3>1, <3>2, Zenon
  <2>4. QED
    BY <2>1, <2>2, <2>3, Zenon
<1>9. \A i \in 0 .. n : P(i) => i = l
  <2> SUFFICES ASSUME NEW i \in 0 .. n, P(i) PROVE i = l
    OBVIOUS
  <2>1. ~(i < l)
    <3> SUFFICES ASSUME i < l PROVE FALSE
      OBVIOUS
    <3>1. i \in 0 .. l - 1 /\ i # n
      BY <1>1, <1>8
    <3>2. QED
      BY <3>1, <1>8, Zenon
  <2>2. ~(l < i)
    <3> SUFFICES ASSUME l < i PROVE FALSE
      OBVIOUS
    <3>1. l \in 0 .. i - 1 /\ l # n
      BY <1>1, <1>8
    <3>2. QED
      BY <3>1, <1>8, Zenon
  <2>3. QED
    BY <2>1, <2>2, <1>1, <1>8
<1>10. (CHOOSE i \in 0 .. n : P(i)) = l
  <2> HIDE DEF P
  <2>1. QED
    BY <1>8, <1>9
<1>11. QED
  BY <1>3, <1>10, Zenon DEF l, O, n, mn

\* How far str_rstrip goes.
LEMMA LastOtherIs ==
  ASSUME NEW S, NEW t \in Seq(S)
  PROVE  LastOther(Encoded(t)) = IF NoSpaces(t) = {} THEN -1 ELSE Max(NoSpaces(t)) - 1
<1> DEFINE n == Len(t)
           O == NoSpaces(t)
           c == Block(t)
           mx == Max(O)
           l == IF O = {} THEN -1 ELSE mx - 1
           P(i) == (\A j \in i + 1 .. n - 1 : c[j] \in Spaces) /\ (i = -1 \/ c[i] \notin Spaces)
<1>1. n \in Nat /\ O \in SUBSET (1 .. n)
  BY NoSpacesOf, LenProperties
<1>2. \A i \in 0 .. n - 1 : c[i] \notin Spaces <=> i + 1 \in O
  BY NoSpacesOf, Zenon
<1>3. LastOther(Encoded(t)) = CHOOSE i \in -1 .. n - 1 : P(i)
  <2>1. Encoded(t).cstr = c /\ StrLen(Encoded(t)) = n
    BY EncodedParts
  <2>2. QED
    BY <2>1, Zenon DEF LastOther
<1> HIDE DEF n, O, c
<1>4. O # {} => mx \in O /\ \A j \in O : mx >= j
  BY <1>1, MaxOfNats, Zenon
<1> HIDE DEF mx
<1>5. O # {} => mx \in 1 .. n
  BY <1>1, <1>4, Zenon
<1>6. O = {} => l = -1
  OBVIOUS
<1>7. O # {} => l = mx - 1 /\ mx = l + 1
  <2>1. O # {} => l = mx - 1
    OBVIOUS
  <2> HIDE DEF l
  <2>2. QED
    BY <2>1, <1>5
<1> HIDE DEF l
<1>8. l \in -1 .. n - 1 /\ P(l)
  <2>1. l \in -1 .. n - 1
    BY <1>1, <1>5, <1>6, <1>7
  <2>2. \A j \in l + 1 .. n - 1 : c[j] \in Spaces
    <3> TAKE j \in l + 1 .. n - 1
    <3>1. j \in 0 .. n - 1 /\ j + 1 \notin O
      <4>1. j \in 0 .. n - 1 /\ j + 1 > l + 1
        BY <1>1, <2>1
      <4>2. CASE O = {}
        BY <4>1, <4>2
      <4>3. CASE O # {}
        <5>1. ~(mx >= j + 1)
          BY <4>1, <4>3, <1>5, <1>7
        <5>2. QED
          BY <4>1, <4>3, <5>1, <1>4, Zenon
      <4>4. QED
        BY <4>2, <4>3, Zenon
    <3>2. QED
      BY <3>1, <1>2, Zenon
  <2>3. l = -1 \/ c[l] \notin Spaces
    <3>1. CASE O = {}
      BY <3>1, <1>6
    <3>2. CASE O # {}
      <4>1. l \in 0 .. n - 1 /\ l + 1 \in O
        <5>1. l \in 0 .. n - 1
          BY <3>2, <1>1, <1>5, <1>7
        <5>2. l + 1 \in O
          BY <3>2, <1>4, <1>7, Zenon
        <5>3. QED
          BY <5>1, <5>2
      <4>2. QED
        BY <4>1, <1>2, Zenon
    <3>3. QED
      BY <3>1, <3>2, Zenon
  <2>4. QED
    BY <2>1, <2>2, <2>3, Zenon
<1>9. \A i \in -1 .. n - 1 : P(i) => i = l
  <2> SUFFICES ASSUME NEW i \in -1 .. n - 1, P(i) PROVE i = l
    OBVIOUS
  <2>1. ~(i < l)
    <3> SUFFICES ASSUME i < l PROVE FALSE
      OBVIOUS
    <3>1. l \in i + 1 .. n - 1 /\ l # -1
      BY <1>1, <1>8
    <3>2. QED
      BY <3>1, <1>8, Zenon
  <2>2. ~(l < i)
    <3> SUFFICES ASSUME l < i PROVE FALSE
      OBVIOUS
    <3>1. i \in l + 1 .. n - 1 /\ i # -1
      BY <1>1, <1>8
    <3>2. QED
      BY <3>1, <1>8, Zenon
  <2>3. QED
    BY <2>1, <2>2, <1>1, <1>8
<1>10. (CHOOSE i \in -1 .. n - 1 : P(i)) = l
  <2> HIDE DEF P
  <2>1. QED
    BY <1>8, <1>9
<1>11. QED
  BY <1>3, <1>10, Zenon DEF l, O, mx

\* The text without the spaces in front, behind, or both.
Stripped(t, front, behind) ==
  IF NoSpaces(t) = {} THEN << >>
  ELSE SubSeq(t, IF front THEN Min(NoSpaces(t)) ELSE 1,
                 IF behind THEN Max(NoSpaces(t)) ELSE Len(t))

\* The three strips of a Str are the Str of what is stripped.
LEMMA StripText ==
  ASSUME NEW S, NEW t \in Seq(S)
  PROVE  /\ Stripped(t, TRUE, FALSE) \in Seq(S)
         /\ Stripped(t, FALSE, TRUE) \in Seq(S)
         /\ Stripped(t, TRUE, TRUE) \in Seq(S)
         /\ StrLStrip(Encoded(t)) = Encoded(Stripped(t, TRUE, FALSE))
         /\ StrRStrip(Encoded(t)) = Encoded(Stripped(t, FALSE, TRUE))
         /\ StrStrip(Encoded(t)) = Encoded(Stripped(t, TRUE, TRUE))
<1> DEFINE n == Len(t)
           O == NoSpaces(t)
           s == Encoded(t)
           l == LeadingSpaces(s)
           r == LastOther(s)
           mn == Min(O)
           mx == Max(O)
<1>1. n \in Nat /\ O \in SUBSET (1 .. n) /\ O \in SUBSET Nat
  BY NoSpacesOf, LenProperties
<1>2. StrLen(s) = n /\ s.size = n + 1 /\ s.cstr = Block(t)
  BY EncodedParts
<1>3. /\ l = IF O = {} THEN n ELSE mn - 1
      /\ r = IF O = {} THEN -1 ELSE mx - 1
  BY LeadingSpacesIs, LastOtherIs
<1> HIDE DEF n, O, s, l, r
<1>4. O # {} => mn \in 1 .. n /\ mx \in 1 .. n /\ mn <= mx
  <2>1. O # {} => mn \in O /\ \A j \in O : mn <= j
    BY <1>1, MinOfNats, Zenon
  <2>2. O # {} => mx \in O
    BY <1>1, MaxOfNats, Zenon
  <2>3. QED
    BY <1>1, <2>1, <2>2, Zenon
<1> HIDE DEF mn, mx
<1>5. /\ l \in Nat /\ l <= n
      /\ r + 1 \in Nat /\ r + 1 <= n
      /\ O # {} => /\ l + 1 = mn /\ r + 1 = mx /\ mx \in 1 .. n
                   /\ l < n /\ r - l + 1 \in Nat /\ l <= r /\ l + (r - l + 1) = mx
      /\ O = {} => l = n /\ r = -1
      /\ l + (n - l) = n /\ n - l \in Nat
  <2>1. CASE O = {}
    <3>1. l = n /\ r = -1
      BY <2>1, <1>3, Zenon
    <3>2. QED
      BY <2>1, <3>1, <1>1
  <2>2. CASE O # {}
    <3>1. l = mn - 1 /\ r = mx - 1
      BY <2>2, <1>3, Zenon
    <3>2. mn \in 1 .. n /\ mx \in 1 .. n /\ mn <= mx
      BY <2>2, <1>4, Zenon
    <3>3. /\ l \in Nat /\ l < n /\ l <= n /\ r + 1 \in Nat /\ r + 1 <= n
          /\ l + 1 = mn /\ r + 1 = mx
      BY <1>1, <3>1, <3>2
    <3>4. r - l + 1 \in Nat /\ l <= r /\ l + (r - l + 1) = mx /\ l + (n - l) = n
            /\ n - l \in Nat
      BY <1>1, <3>1, <3>2
    <3>5. QED
      BY <2>2, <3>2, <3>3, <3>4, Zenon
  <2>3. QED
    BY <2>1, <2>2, Zenon
<1>6. ASSUME NEW from \in Nat, NEW k \in Nat, from + k <= n
      PROVE  /\ SubSeq(t, from + 1, from + k) \in Seq(S)
             /\ MovedToFront(s, from, k) = Encoded(SubSeq(t, from + 1, from + k))
  BY <1>6, MovedToFrontText DEF s, n
<1>7. \A from \in Nat : from <= n => SubSeq(t, from + 1, from + 0) = << >>
  <2> TAKE from \in Nat
  <2>1. from + 1 > from + 0
    OBVIOUS
  <2>2. QED
    BY <2>1, SubSeqEmpty
<1>8. Stripped(t, TRUE, FALSE) \in Seq(S) /\ StrLStrip(s) = Encoded(Stripped(t, TRUE, FALSE))
  <2>1. StrLStrip(s) = MovedToFront(s, l, n - l)
    BY <1>2, Zenon DEF StrLStrip, l
  <2>2. SubSeq(t, l + 1, l + (n - l)) = Stripped(t, TRUE, FALSE)
    <3>1. CASE O = {}
      <4>1. l = n /\ l + (n - l) = n + 0
        BY <3>1, <1>1, <1>5
      <4>2. SubSeq(t, n + 1, n + 0) = << >>
        BY <1>1, <1>7
      <4>3. QED
        BY <4>1, <4>2, <3>1, Zenon DEF Stripped, O, mn, mx
    <3>2. CASE O # {}
      <4>1. l + 1 = mn /\ l + (n - l) = n
        BY <3>2, <1>5
      <4>2. QED
        BY <4>1, <3>2, Zenon DEF Stripped, O, n, mn, mx
    <3>3. QED
      BY <3>1, <3>2, Zenon
  <2> DEFINE k == n - l
  <2>3. k \in Nat /\ l + k <= n
    BY <1>1, <1>5
  <2> HIDE DEF k
  <2>4. /\ SubSeq(t, l + 1, l + k) \in Seq(S)
        /\ MovedToFront(s, l, k) = Encoded(SubSeq(t, l + 1, l + k))
    BY <2>3, <1>5, <1>6, Zenon
  <2>5. QED
    BY <2>1, <2>2, <2>4, Zenon DEF k
<1>9. Stripped(t, TRUE, TRUE) \in Seq(S) /\ StrStrip(s) = Encoded(Stripped(t, TRUE, TRUE))
  <2> DEFINE e == IF l < n THEN r ELSE l - 1
             k == e - l + 1
  <2>1. SubSeq(t, l + 1, l + k) = Stripped(t, TRUE, TRUE) /\ k \in Nat /\ l + k <= n
    <3>1. CASE O = {}
      <4>1. l = n /\ e = l - 1
        BY <3>1, <1>1, <1>5
      <4>2. k = 0 /\ n <= n
        BY <4>1, <1>1
      <4>3. SubSeq(t, n + 1, n + 0) = << >>
        BY <1>1, <1>7
      <4>4. k \in Nat /\ l + k <= n
        BY <4>1, <4>2, <1>1
      <4> HIDE DEF k
      <4>5. QED
        BY <4>1, <4>2, <4>3, <4>4, <3>1, Zenon DEF Stripped, O, mn, mx
    <3>2. CASE O # {}
      <4>1. e = r /\ l + 1 = mn
        BY <3>2, <1>5
      <4>2. l + k = mx /\ k \in Nat /\ l + k <= n
        BY <4>1, <3>2, <1>5, <1>1
      <4> HIDE DEF k
      <4>3. QED
        BY <4>1, <4>2, <3>2, Zenon DEF Stripped, O, mn, mx
    <3>3. QED
      BY <3>1, <3>2, Zenon
  <2> HIDE DEF e
  <2>2. CASE s.size < 2
    <3>1. n = 0
      BY <2>2, <1>1, <1>2
    <3>2. t = << >>
      BY <3>1, EmptySeq DEF n
    <3>3. O = {}
      BY <3>1, <1>1
    <3>4. Stripped(t, TRUE, TRUE) = t
      BY <3>2, <3>3, Zenon DEF Stripped, O, mn, mx
    <3>5. StrStrip(s) = s
      BY <2>2, Zenon DEF StrStrip
    <3>6. QED
      BY <3>4, <3>5, Zenon DEF s
  <2>3. CASE ~(s.size < 2)
    <3>1. StrStrip(s) = MovedToFront(s, l, k)
      BY <2>3, <1>2, Zenon DEF StrStrip, l, r, e
    <3> HIDE DEF k
    <3>2. /\ SubSeq(t, l + 1, l + k) \in Seq(S)
          /\ MovedToFront(s, l, k) = Encoded(SubSeq(t, l + 1, l + k))
      BY <2>1, <1>5, <1>6, Zenon
    <3>3. QED
      BY <2>1, <3>1, <3>2, Zenon
  <2>4. QED
    BY <2>2, <2>3, Zenon
<1>10. Stripped(t, FALSE, TRUE) \in Seq(S) /\ StrRStrip(s) = Encoded(Stripped(t, FALSE, TRUE))
  <2> DEFINE k == r + 1
             u == SubSeq(t, 1, k)
  <2>1. k \in 0 .. n /\ k \in Nat
    BY <1>1, <1>5
  <2> HIDE DEF k
  <2>2. /\ u \in Seq(S)
        /\ Len(u) = k
        /\ \A i \in 1 .. k : u[i] = t[i]
    <3>1. u \in Seq(S)
      BY <2>1, SubSeqProperties DEF n
    <3>2. Len(u) = k
      BY <2>1, SubSeqProperties DEF n
    <3>3. \A i \in 1 .. k : u[i] = t[i]
      BY <2>1, SubSeqProperties DEF n
    <3>4. QED
      BY <3>1, <3>2, <3>3
  <2>3. u = Stripped(t, FALSE, TRUE)
    <3>1. CASE O = {}
      <4>1. k = 0
        BY <3>1, <1>5 DEF k
      <4>2. u = << >>
        BY <2>2, <4>1, EmptySeq
      <4>3. QED
        BY <3>1, <4>2, Zenon DEF Stripped, O, mn, mx
    <3>2. CASE O # {}
      <4>1. k = mx
        BY <3>2, <1>5 DEF k
      <4>2. QED
        BY <4>1, <3>2, Zenon DEF Stripped, O, mn, mx
    <3>3. QED
      BY <3>1, <3>2, Zenon
  <2>4. CASE s.size < 2
    <3>1. n = 0
      BY <2>4, <1>1, <1>2
    <3>2. t = << >>
      BY <3>1, EmptySeq DEF n
    <3>3. O = {}
      BY <3>1, <1>1
    <3>4. Stripped(t, FALSE, TRUE) = t
      BY <3>2, <3>3, Zenon DEF Stripped, O, mn, mx
    <3>5. StrRStrip(s) = s
      BY <2>4, Zenon DEF StrRStrip
    <3>6. QED
      BY <3>4, <3>5, Zenon DEF s
  <2>5. CASE ~(s.size < 2)
    <3>1. StrRStrip(s) = Str(Put(Resized(Block(t), k + 1), k, NUL), k + 1)
      BY <2>5, <1>2, Zenon DEF StrRStrip, k, r
    <3>2. IsBlock(Block(t), 0 .. n)
      BY EncodedBlock, Zenon DEF n
    <3>3. Put(Resized(Block(t), k + 1), k, NUL) = Closed(Block(t), k)
      BY <1>1, <2>1, <3>2, CutIsClosed, Zenon
    <3>4. \A i \in 0 .. k - 1 : Block(t)[i] = u[i + 1]
      <4> TAKE i \in 0 .. k - 1
      <4>1. i + 1 \in 1 .. k /\ i \in 0 .. n - 1
        BY <1>1, <2>1
      <4>2. Block(t)[i] = t[i + 1]
        BY <4>1, EncodedParts DEF n
      <4>3. QED
        BY <4>1, <4>2, <2>2, Zenon
    <3> HIDE DEF u
    <3>5. Str(Closed(Block(t), k), k + 1) = Encoded(u)
      BY <2>2, <3>4, ClosedText
    <3>6. QED
      BY <2>2, <2>3, <3>1, <3>3, <3>5, Zenon
  <2>6. QED
    BY <2>4, <2>5, Zenon
<1>11. QED
  BY <1>8, <1>9, <1>10, Zenon DEF s

\* A recursion whose values stay in a set has a function.
Steps(g, n, b, F) == g[0] = b /\ \A k \in 1 .. n : g[k] = F[<<g[k - 1], k>>]

\* A loop has its steps, from what there is at first on.
LEMMA StepsExist ==
  ASSUME NEW V, NEW n \in Nat, NEW b \in V, NEW F \in [V \X (1 .. n) -> V]
  PROVE  \E g \in [0 .. n -> V] : Steps(g, n, b, F)
<1> DEFINE Has(k, g) == g[0] = b /\ \A i \in 1 .. k : g[i] = F[<<g[i - 1], i>>]
           Bad == {k \in 0 .. n : ~ \E g \in [0 .. k -> V] : Has(k, g)}
<1>1. Bad = {}
  <2> SUFFICES ASSUME Bad # {} PROVE FALSE
    OBVIOUS
  <2>1. Bad \in SUBSET Nat
    OBVIOUS
  <2>2. PICK k \in Bad : \A m \in Bad : k <= m
    BY <2>1, MinOfNats
  <2>3. k \in 0 .. n /\ ~ \E g \in [0 .. k -> V] : Has(k, g)
    BY <2>2
  <2>4. CASE k = 0
    <3> DEFINE g == [i \in 0 .. 0 |-> b]
    <3>1. g \in [0 .. 0 -> V] /\ g[0] = b /\ 1 .. 0 = {}
      OBVIOUS
    <3> HIDE DEF g
    <3>2. Has(0, g)
      BY <3>1
    <3>3. QED
      BY <2>3, <2>4, <3>1, <3>2
  <2>5. CASE k # 0
    <3>1. k - 1 \in 0 .. n /\ k \in 1 .. n /\ ~(k <= k - 1)
      BY <2>3, <2>5
    <3>2. PICK f \in [0 .. k - 1 -> V] : Has(k - 1, f)
      BY <2>2, <3>1
    <3> DEFINE last == F[<<f[k - 1], k>>]
               g == [i \in 0 .. k |-> IF i = k THEN last ELSE f[i]]
    <3>3. last \in V
      <4>1. k - 1 \in 0 .. k - 1
        BY <3>1
      <4>2. f[k - 1] \in V
        BY <4>1
      <4>3. <<f[k - 1], k>> \in V \X (1 .. n)
        BY <3>1, <4>2
      <4>4. QED
        BY <4>3
    <3> HIDE DEF last
    <3>4. g \in [0 .. k -> V]
      <4> SUFFICES ASSUME NEW i \in 0 .. k PROVE (IF i = k THEN last ELSE f[i]) \in V
        OBVIOUS
      <4>1. i = k \/ i \in 0 .. k - 1
        BY <3>1
      <4>2. QED
        BY <3>3, <4>1
    <3>5. \A i \in 0 .. k - 1 : g[i] = f[i]
      BY <3>1
    <3>6. g[k] = last
      BY <3>1
    <3> HIDE DEF g
    <3>7. g[0] = b
      BY <3>1, <3>2, <3>5
    <3>8. \A i \in 1 .. k : g[i] = F[<<g[i - 1], i>>]
      <4> TAKE i \in 1 .. k
      <4>1. CASE i = k
        <5>1. k - 1 \in 0 .. k - 1
          BY <3>1
        <5>2. g[k - 1] = f[k - 1]
          BY <3>5, <5>1, Zenon
        <5>3. QED
          BY <4>1, <3>6, <5>2, Zenon DEF last
      <4>2. CASE i # k
        <5>1. i \in 1 .. k - 1 /\ i \in 0 .. k - 1 /\ i - 1 \in 0 .. k - 1
          BY <3>1, <4>2
        <5>2. f[i] = F[<<f[i - 1], i>>]
          BY <3>2, <5>1, Zenon
        <5>3. g[i] = f[i] /\ g[i - 1] = f[i - 1]
          BY <3>5, <5>1, Zenon
        <5>4. QED
          BY <5>2, <5>3, Zenon
      <4>3. QED
        BY <4>1, <4>2, Zenon
    <3>9. Has(k, g)
      BY <3>7, <3>8, Zenon
    <3>10. QED
      BY <2>3, <3>4, <3>9, Zenon
  <2>6. QED
    BY <2>4, <2>5, Zenon
<1>2. n \in 0 .. n
  OBVIOUS
<1>3. \E g \in [0 .. n -> V] : Has(n, g)
  BY <1>1, <1>2
<1>4. QED
  BY <1>3, Zenon DEF Steps

\* Where an index of an operation is, if it is not behind the text.
PlaceIn(t, idx) ==
  IF idx >= 0 THEN idx ELSE IF idx + Len(t) < 0 THEN 0 ELSE idx + Len(t)

\* _str_fix_index counts from the end if the index is negative, and stops there.
LEMMA FixIndexIs ==
  ASSUME NEW S, NEW t \in Seq(S), NEW idx \in Int
  PROVE  /\ PlaceIn(t, idx) \in Nat
         /\ FixIndex(Encoded(t), idx)
              = IF PlaceIn(t, idx) < Len(t) THEN PlaceIn(t, idx) ELSE Len(t)
<1>1. Len(t) \in Nat /\ StrLen(Encoded(t)) = Len(t)
  BY EncodedParts
<1> DEFINE n == Len(t)
           s == Encoded(t)
<1>2. n \in Nat /\ StrLen(s) = n
  BY <1>1
<1> HIDE DEF n, s
<1>3. FixIndex(s, idx) = IF idx < 0 THEN IF idx + n < 0 THEN 0 ELSE idx + n
                         ELSE IF idx >= n THEN n ELSE idx
  BY <1>2, Zenon DEF FixIndex
<1>4. PlaceIn(t, idx) = IF idx >= 0 THEN idx ELSE IF idx + n < 0 THEN 0 ELSE idx + n
  BY DEF PlaceIn, n
<1>5. QED
  BY <1>2, <1>3, <1>4 DEF n, s

\* str_delete_at.
LEMMA StrDeleteAtText ==
  ASSUME NEW S, NEW t \in Seq(S), NEW at \in 0 .. Len(t) - 1, NEW idx,
         FixIndex(Encoded(t), idx) = at
  PROVE  /\ RemoveAt(t, at + 1) \in Seq(S)
         /\ StrDeleteAt(Encoded(t), idx) = Encoded(RemoveAt(t, at + 1))
<1> DEFINE n == Len(t)
           s == Encoded(t)
<1>1. n \in Nat /\ StrLen(s) = n /\ s.size = n + 1 /\ s.cstr = Block(t)
  BY EncodedParts
<1>2. FixIndex(s, idx) = at
  OBVIOUS
<1> HIDE DEF n, s
<1>3. n > 0 /\ s.size - 1 = n /\ s.size - at - 1 = n - at
  BY <1>1 DEF n
<1>4. StrDeleteAt(s, idx) = Str(Resized(MovedDown(Block(t), at, at + 1, n - at), n), n)
  BY <1>1, <1>2, <1>3, Zenon DEF StrDeleteAt
<1>5. QED
  BY <1>4, DeleteAtText, Zenon DEF n, s

\* The bytes that stay, and what is behind them.
Kept(before, t, k, c) == IF t[k] = c THEN before ELSE Append(before, t[k])
KeptSteps(kept, t, c) ==
  /\ kept[0] = << >>
  /\ \A k \in 1 .. Len(t) : kept[k] = Kept(kept[k - 1], t, k, c)
Filtered(q, t, k) == q \o SubSeq(t, k + 1, Len(t))
FilterState(q, t, k) == [str |-> Encoded(Filtered(q, t, k)), idx |-> Len(q) - 1]

IsFiltered(w, q, t, k, S) ==
  /\ w \in Seq(S)
  /\ Len(w) = Len(q) + (Len(t) - k)
  /\ \A i \in 1 .. Len(q) + (Len(t) - k) :
       w[i] = IF i <= Len(q) THEN q[i] ELSE t[i - Len(q) + k]

\* What was filtered so far, with the bytes behind it as they are.
LEMMA FilteredParts ==
  ASSUME NEW S, NEW t \in Seq(S), NEW k \in 0 .. Len(t), NEW q \in Seq(S)
  PROVE  IsFiltered(Filtered(q, t, k), q, t, k, S)
<1> DEFINE u == SubSeq(t, k + 1, Len(t))
           n == Len(t)
           m == Len(q)
           w == q \o u
<1>1. n \in Nat /\ m \in Nat /\ k \in Int /\ k <= n
  BY LenProperties
<1>2. u \in Seq(S)
  BY <1>1, SubSeqProperties
<1>3. Len(u) = n - k
  BY <1>1, SubSeqProperties
<1>4. \A i \in 1 .. n - k : u[i] = t[k + i]
  BY <1>1, SubSeqProperties
<1> HIDE DEF u
<1>5. /\ w \in Seq(S)
      /\ Len(w) = Len(q) + Len(u)
      /\ \A i \in 1 .. Len(q) + Len(u) : w[i] = IF i <= Len(q) THEN q[i] ELSE u[i - Len(q)]
  BY <1>2, ConcatProperties, Zenon
<1> HIDE DEF n, m, w
<1>6. Len(w) = m + (n - k)
  BY <1>3, <1>5, Zenon DEF m
<1>7. \A i \in 1 .. m + (n - k) : w[i] = IF i <= m THEN q[i] ELSE u[i - m]
  BY <1>3, <1>5, Zenon DEF m
<1>8. \A i \in 1 .. m + (n - k) : w[i] = IF i <= m THEN q[i] ELSE t[i - m + k]
  <2> TAKE i \in 1 .. m + (n - k)
  <2>1. CASE i <= m
    BY <2>1, <1>7
  <2>2. CASE ~(i <= m)
    <3> DEFINE j == i - m
    <3>1. j \in 1 .. n - k /\ k + j = i - m + k
      BY <2>2, <1>1
    <3> HIDE DEF j
    <3>2. u[j] = t[k + j]
      BY <3>1, <1>4, Zenon
    <3>3. QED
      BY <2>2, <3>1, <3>2, <1>7, Zenon DEF j
  <2>3. QED
    BY <2>1, <2>2, Zenon
<1>9. QED
  BY <1>1, <1>5, <1>6, <1>8, Zenon DEF Filtered, IsFiltered, u, w, n, m

\* One byte more that stays or goes.
LEMMA FilterStepText ==
  ASSUME NEW S, NEW t \in Seq(S), NEW k \in 1 .. Len(t), NEW q \in Seq(S), NEW c
  PROVE  FilterStep(FilterState(q, t, k - 1), c) = FilterState(Kept(q, t, k, c), t, k)
<1> DEFINE n == Len(t)
           w == Filtered(q, t, k - 1)
           m == Len(q)
           s == Encoded(w)
           it == FilterState(q, t, k - 1)
<1>1. n \in Nat /\ m \in Nat /\ k \in 0 .. n /\ k - 1 \in 0 .. n /\ t[k] \in S
  BY LenProperties, ElementOfSeq
<1>2. /\ w \in Seq(S)
      /\ Len(w) = Len(q) + (Len(t) - (k - 1))
      /\ \A i \in 1 .. Len(q) + (Len(t) - (k - 1)) :
            w[i] = IF i <= Len(q) THEN q[i] ELSE t[i - Len(q) + (k - 1)]
  <2> DEFINE j == k - 1
  <2>1. j \in 0 .. Len(t)
    BY <1>1
  <2> HIDE DEF j
  <2>2. IsFiltered(Filtered(q, t, j), q, t, j, S)
    BY <2>1, FilteredParts, Zenon
  <2>3. QED
    BY <2>2, Zenon DEF j, IsFiltered
<1>3. it.str = s /\ it.idx = m - 1 /\ it = [str |-> s, idx |-> m - 1]
  BY DEF FilterState
<1> DEFINE len == m + (n - (k - 1))
<1>4. w \in Seq(S) /\ Len(w) = len /\ \A i \in 1 .. len : w[i] =
        IF i <= m THEN q[i] ELSE t[i - m + (k - 1)]
  BY <1>2
<1> HIDE DEF w, it
<1>5. len \in Nat /\ m < len /\ m \in 0 .. len - 1 /\ m + 1 \in 1 .. len /\ ~(m + 1 <= m)
      /\ m + 1 - m + (k - 1) = k
  BY <1>1
<1> HIDE DEF n, m, len
<1>6. w[m + 1] = t[k]
  <2> DEFINE j == m + 1
  <2> HIDE DEF j
  <2>1. j \in 1 .. len /\ ~(j <= m) /\ j - m + (k - 1) = k
    BY <1>5 DEF j
  <2>2. w[j] = t[j - m + (k - 1)]
    BY <1>4, <2>1, Zenon
  <2>3. QED
    BY <2>1, <2>2, Zenon DEF j
<1>7. s.size = len + 1 /\ s.cstr = Block(w) /\ Block(w)[m] = w[m + 1]
  BY <1>4, <1>5, EncodedParts
<1>8. m - 1 + 1 = m /\ ~(m >= s.size - 1)
  BY <1>1, <1>5, <1>7
<1> HIDE DEF s
<1>9. FilterStep(it, c) = IF t[k] # c THEN [it EXCEPT !.idx = m]
                          ELSE [str |-> StrDeleteAt(s, m), idx |-> m - 1]
  BY <1>3, <1>6, <1>7, <1>8, Zenon DEF FilterStep
<1>10. CASE t[k] # c
  <2> DEFINE p == Append(q, t[k])
             v == Filtered(p, t, k)
  <2>1. p \in Seq(S)
    BY <1>1, AppendProperties
  <2>2. Len(p) = m + 1
    BY <1>1, AppendProperties DEF m
  <2>3. \A i \in 1 .. m : p[i] = q[i]
    BY <1>1, AppendProperties DEF m
  <2>4. p[m + 1] = t[k]
    BY <1>1, AppendProperties DEF m
  <2> HIDE DEF p
  <2>5. /\ v \in Seq(S)
        /\ Len(v) = Len(p) + (Len(t) - k)
        /\ \A i \in 1 .. Len(p) + (Len(t) - k) :
              v[i] = IF i <= Len(p) THEN p[i] ELSE t[i - Len(p) + k]
    <3>1. k \in 0 .. Len(t)
      BY <1>1 DEF n
    <3>2. IsFiltered(v, p, t, k, S)
      BY <2>1, <3>1, FilteredParts, Zenon
    <3>3. QED
      BY <3>2, Zenon DEF IsFiltered
  <2> HIDE DEF v
  <2>6. Len(v) = m + 1 + (n - k)
    BY <2>2, <2>5, Zenon DEF n
  <2>7. \A i \in 1 .. m + 1 + (n - k) : v[i] = IF i <= m + 1 THEN p[i] ELSE t[i - (m + 1) + k]
    BY <2>2, <2>5, Zenon DEF n
  <2>8. m + 1 + (n - k) = len
    BY <1>1 DEF len
  <2>9. \A i \in 1 .. len : v[i] = w[i]
    <3> TAKE i \in 1 .. len
    <3>1. v[i] = IF i <= m + 1 THEN p[i] ELSE t[i - (m + 1) + k]
      BY <2>7, <2>8
    <3>2. CASE i <= m
      <4>1. i <= m + 1 /\ i \in 1 .. m
        BY <3>2, <1>1
      <4>2. QED
        BY <3>1, <3>2, <4>1, <1>4, <2>3, Zenon
    <3>3. CASE i = m + 1
      <4>1. i <= m + 1
        BY <3>3, <1>1
      <4>2. QED
        BY <3>1, <3>3, <4>1, <1>6, <2>4, Zenon
    <3>4. CASE ~(i <= m + 1)
      <4>1. i - (m + 1) + k = i - m + (k - 1) /\ ~(i <= m)
        BY <3>4, <1>1
      <4>2. QED
        BY <3>1, <3>4, <4>1, <1>4, Zenon
    <3>5. QED
      BY <3>2, <3>3, <3>4, <1>1
  <2>10. v = w
    BY <1>4, <2>5, <2>6, <2>8, <2>9, SeqEqual
  <2>11. [it EXCEPT !.idx = m] = [str |-> s, idx |-> m]
    BY <1>3
  <2>12. FilterState(p, t, k) = [str |-> Encoded(v), idx |-> Len(p) - 1]
    BY Zenon DEF FilterState, v
  <2>13. Len(p) - 1 = m
    BY <2>2, <1>1
  <2>14. Kept(q, t, k, c) = p
    BY <1>10, Zenon DEF Kept, p
  <2>15. QED
    BY <1>9, <1>10, <2>10, <2>11, <2>12, <2>13, <2>14, Zenon DEF s, it
<1>11. CASE t[k] = c
  <2> DEFINE v == Filtered(q, t, k)
             r == RemoveAt(w, m + 1)
  <2>1. /\ v \in Seq(S)
        /\ Len(v) = m + (n - k)
        /\ \A i \in 1 .. m + (n - k) : v[i] = IF i <= m THEN q[i] ELSE t[i - m + k]
    <3>1. k \in 0 .. Len(t)
      BY <1>1 DEF n
    <3>2. IsFiltered(v, q, t, k, S)
      BY <3>1, FilteredParts, Zenon
    <3>3. QED
      BY <3>2, Zenon DEF IsFiltered, m, n
  <2>2. r \in Seq(S)
    BY <1>4, <1>5, RemoveAtProperties
  <2>3. Len(r) = len - 1
    BY <1>4, <1>5, RemoveAtProperties
  <2>4. \A i \in 1 .. len - 1 : r[i] = IF i < m + 1 THEN w[i] ELSE w[i + 1]
    BY <1>4, <1>5, RemoveAtProperties
  <2> HIDE DEF v, r
  <2>5. m + (n - k) = len - 1
    BY <1>1 DEF len
  <2>6. \A i \in 1 .. len - 1 : v[i] = r[i]
    <3> TAKE i \in 1 .. len - 1
    <3>1. v[i] = IF i <= m THEN q[i] ELSE t[i - m + k]
      BY <2>1, <2>5
    <3>2. CASE i <= m
      <4>1. i < m + 1 /\ i \in 1 .. len
        BY <3>2, <1>1, <1>5
      <4>2. QED
        BY <3>1, <3>2, <4>1, <1>4, <2>4, Zenon
    <3>3. CASE ~(i <= m)
      <4> DEFINE j == i + 1
      <4>1. ~(i < m + 1) /\ j \in 1 .. len /\ ~(j <= m) /\ j - m + (k - 1) = i - m + k
        BY <3>3, <1>1, <1>5
      <4> HIDE DEF j
      <4>2. w[j] = t[j - m + (k - 1)]
        BY <4>1, <1>4, Zenon
      <4>3. r[i] = w[j]
        BY <4>1, <2>4, Zenon DEF j
      <4>4. QED
        BY <3>1, <3>3, <4>1, <4>2, <4>3, Zenon
    <3>4. QED
      BY <3>2, <3>3, Zenon
  <2>7. v = r
    BY <2>1, <2>2, <2>3, <2>5, <2>6, SeqEqual
  <2>8. StrDeleteAt(s, m) = Encoded(r)
    <3>1. FixIndex(s, m) = m
      <4>1. m \in Int /\ PlaceIn(w, m) = m /\ m < Len(w)
        BY <1>1, <1>4, <1>5 DEF PlaceIn
      <4>2. QED
        BY <4>1, <1>4, FixIndexIs DEF s
    <3>2. m \in 0 .. Len(w) - 1
      BY <1>4, <1>5
    <3>3. QED
      BY <1>4, <3>1, <3>2, StrDeleteAtText, Zenon DEF s, r
  <2>9. FilterState(q, t, k) = [str |-> Encoded(v), idx |-> m - 1]
    BY Zenon DEF FilterState, v, m
  <2>10. Kept(q, t, k, c) = q
    BY <1>11, Zenon DEF Kept
  <2>11. QED
    BY <1>9, <1>11, <2>7, <2>8, <2>9, <2>10, Zenon DEF s, it
<1>12. QED
  BY <1>10, <1>11, Zenon DEF it

\* The bytes of a text that stay, one by one.
LEMMA KeptExists ==
  ASSUME NEW S, NEW t \in Seq(S), NEW c
  PROVE  \E kept \in [0 .. Len(t) -> Seq(S)] : KeptSteps(kept, t, c)
<1> DEFINE n == Len(t)
           V == Seq(S)
           F == [p \in V \X (1 .. n) |-> Kept(p[1], t, p[2], c)]
<1>1. n \in Nat /\ << >> \in V
  BY LenProperties
<1>2. \A q \in V, k \in 1 .. n : Kept(q, t, k, c) \in V
  <2> TAKE q \in V, k \in 1 .. n
  <2>1. t[k] \in S
    BY ElementOfSeq
  <2>2. Append(q, t[k]) \in V
    BY <2>1, AppendProperties
  <2>3. QED
    BY <2>2 DEF Kept
<1> HIDE DEF V, n
<1>3. F \in [V \X (1 .. n) -> V]
  <2> SUFFICES ASSUME NEW p \in V \X (1 .. n) PROVE Kept(p[1], t, p[2], c) \in V
    OBVIOUS
  <2>1. p[1] \in V /\ p[2] \in 1 .. n
    OBVIOUS
  <2>2. QED
    BY <1>2, <2>1, Zenon
<1>4. \A q \in V, k \in 1 .. n : F[<<q, k>>] = Kept(q, t, k, c)
  OBVIOUS
<1> HIDE DEF F
<1> DEFINE b == << >>
<1> HIDE DEF b
<1>5. b \in V
  BY <1>1 DEF b
<1>6. PICK g \in [0 .. n -> V] : Steps(g, n, b, F)
  BY <1>1, <1>3, <1>5, StepsExist, Zenon
<1>7. g[0] = << >> /\ \A k \in 1 .. n : g[k] = F[<<g[k - 1], k>>]
  BY <1>6, Zenon DEF Steps, b
<1>8. \A k \in 1 .. n : g[k] = Kept(g[k - 1], t, k, c)
  <2> TAKE k \in 1 .. n
  <2>1. k - 1 \in 0 .. n
    BY <1>1
  <2>2. g[k - 1] \in V
    BY <2>1
  <2>3. QED
    BY <1>4, <1>7, <2>2, Zenon
<1>9. QED
  BY <1>7, <1>8, Zenon DEF V, n, KeptSteps

\* What the text without c is, byte by byte.
LEMMA WithoutIs ==
  ASSUME NEW S, NEW t \in Seq(S), NEW c,
         NEW kept \in [0 .. Len(t) -> Seq(S)], KeptSteps(kept, t, c)
  PROVE  Without(t, c) = kept[Len(t)]
<1> DEFINE n == Len(t)
           b == << >>
           E(m, k) == IF t[k] = c THEN m ELSE Append(m, t[k])
           After(k) == kept[k]
           h == [k \in 0 .. n |-> After(k)]
<1>1. n \in Nat
  BY LenProperties
<1>2. After(0) = b
  BY DEF KeptSteps
<1>3. ASSUME NEW k \in 1 .. n PROVE E(After(k - 1), k) = After(k)
  <2>1. kept[k] = Kept(kept[k - 1], t, k, c)
    BY DEF KeptSteps
  <2>2. QED
    BY <2>1, Zenon DEF Kept
<1> HIDE DEF n, b
<1> HIDE DEF E, After
<1>4. h = [k \in 0 .. n |-> IF k = 0 THEN b ELSE E(h[k - 1], k)]
  <2>1. \A k \in 0 .. n : After(k) = IF k = 0 THEN b ELSE E(h[k - 1], k)
    <3> TAKE k \in 0 .. n
    <3>1. k = 0 \/ (k \in 1 .. n /\ k - 1 \in 0 .. n /\ k # 0)
      BY <1>1
    <3>2. QED
      BY <3>1, <1>2, <1>3, Zenon
  <2>2. QED
    BY <2>1, Zenon
<1> HIDE DEF h
<1>5. PICK g : /\ g = [k \in 0 .. n |-> IF k = 0 THEN b ELSE E(g[k - 1], k)]
               /\ Loop(n, b, E) = g[n]
  BY <1>4, Zenon DEF Loop
<1>6. \A k \in 0 .. n : g[k] = IF k = 0 THEN b ELSE E(g[k - 1], k)
  BY <1>5, Zenon
<1>7. \A k \in 0 .. n : h[k] = IF k = 0 THEN b ELSE E(h[k - 1], k)
  BY <1>4, Zenon
<1>8. 0 \in 0 .. n /\ n \in 0 .. n
  BY <1>1
<1>9. g[0] = h[0]
  BY <1>6, <1>7, <1>8, Zenon
<1>10. Follows(g, h, n)
  <2> SUFFICES ASSUME NEW k \in 1 .. n PROVE g[k - 1] = h[k - 1] => g[k] = h[k]
    BY Zenon DEF Follows
  <2>1. k \in 0 .. n /\ k # 0
    BY <1>1
  <2>2. QED
    BY <2>1, <1>6, <1>7, Zenon
<1>11. g[n] = h[n]
  BY <1>9, <1>10, <1>1, SameSteps, Zenon
<1>12. h[n] = After(n)
  BY <1>8, Zenon DEF h
<1>13. QED
  BY <1>5, <1>11, <1>12, Zenon DEF E, After, Without, n, b

\* filter.
LEMMA FilterText ==
  ASSUME NEW S, NEW t \in Seq(S), NEW c
  PROVE  /\ Without(t, c) \in Seq(S)
         /\ StrFilter(Encoded(t), c) = Encoded(Without(t, c))
<1>1. PICK kept \in [0 .. Len(t) -> Seq(S)] : KeptSteps(kept, t, c)
  BY KeptExists, Zenon
<1>2. kept[0] = << >> /\ \A k \in 1 .. Len(t) : kept[k] = Kept(kept[k - 1], t, k, c)
  BY <1>1, Zenon DEF KeptSteps
<1> DEFINE n == Len(t)
           b == [str |-> Encoded(t), idx |-> -1]
           E(m, k) == FilterStep(m, c)
           After(k) == FilterState(kept[k], t, k)
           h == [k \in 0 .. n |-> After(k)]
<1>3. n \in Nat /\ n \in 0 .. n
  BY LenProperties
<1>4. \A k \in 0 .. n : kept[k] \in Seq(S)
  OBVIOUS
<1>5. After(0) = b
  <2>1. Filtered(<< >>, t, 0) = t
    <3>1. SubSeq(t, 0 + 1, Len(t)) = t
      BY SubSeqFull
    <3>2. << >> \o t = t
      BY ConcatEmptySeq
    <3>3. QED
      BY <3>1, <3>2 DEF Filtered
  <2>2. Len(<< >>) - 1 = -1
    OBVIOUS
  <2>3. QED
    BY <1>2, <2>1, <2>2, Zenon DEF FilterState
<1>6. ASSUME NEW k \in 1 .. n PROVE E(After(k - 1), k) = After(k)
  <2>1. k - 1 \in 0 .. n
    BY <1>3
  <2>2. kept[k - 1] \in Seq(S)
    BY <1>4, <2>1, Zenon
  <2>3. FilterStep(FilterState(kept[k - 1], t, k - 1), c)
          = FilterState(Kept(kept[k - 1], t, k, c), t, k)
    BY <2>2, FilterStepText, Zenon
  <2>4. QED
    BY <1>2, <2>3, Zenon
<1> HIDE DEF n, b
<1> HIDE DEF E, After
<1>7. h = [k \in 0 .. n |-> IF k = 0 THEN b ELSE E(h[k - 1], k)]
  <2>1. \A k \in 0 .. n : After(k) = IF k = 0 THEN b ELSE E(h[k - 1], k)
    <3> TAKE k \in 0 .. n
    <3>1. k = 0 \/ (k \in 1 .. n /\ k - 1 \in 0 .. n /\ k # 0)
      BY <1>3
    <3>2. QED
      BY <3>1, <1>5, <1>6, Zenon
  <2>2. QED
    BY <2>1, Zenon
<1> HIDE DEF h
<1>8. PICK g : /\ g = [k \in 0 .. n |-> IF k = 0 THEN b ELSE E(g[k - 1], k)]
               /\ Loop(n, b, E) = g[n]
  BY <1>7, Zenon DEF Loop
<1>9. \A k \in 0 .. n : g[k] = IF k = 0 THEN b ELSE E(g[k - 1], k)
  BY <1>8, Zenon
<1>10. \A k \in 0 .. n : h[k] = IF k = 0 THEN b ELSE E(h[k - 1], k)
  BY <1>7, Zenon
<1>11. 0 \in 0 .. n /\ n \in 0 .. n
  BY <1>3
<1>12. g[0] = h[0]
  BY <1>9, <1>10, <1>11, Zenon
<1>13. Follows(g, h, n)
  <2> SUFFICES ASSUME NEW k \in 1 .. n PROVE g[k - 1] = h[k - 1] => g[k] = h[k]
    BY Zenon DEF Follows
  <2>1. k \in 0 .. n /\ k # 0
    BY <1>3
  <2>2. QED
    BY <2>1, <1>9, <1>10, Zenon
<1>14. g[n] = h[n]
  BY <1>12, <1>13, <1>3, SameSteps, Zenon
<1>15. h[n] = After(n)
  BY <1>11, Zenon DEF h
<1>16. StrLen(Encoded(t)) = n
  BY EncodedParts DEF n
<1>17. StrFilter(Encoded(t), c) = Loop(n, b, E).str
  BY <1>16, Zenon DEF StrFilter, E, b
<1>18. Loop(n, b, E) = FilterState(kept[n], t, n)
  BY <1>8, <1>14, <1>15, Zenon DEF After
<1>19. Filtered(kept[n], t, n) = kept[n]
  <2>1. SubSeq(t, n + 1, n) = << >>
    <3>1. n + 1 > n
      BY <1>3
    <3>2. QED
      BY <1>3, <3>1, SubSeqEmpty
  <2>2. kept[n] \in Seq(S)
    BY <1>3, <1>4, Zenon
  <2>3. kept[n] \o << >> = kept[n]
    BY <2>2, ConcatEmptySeq
  <2>4. QED
    BY <2>1, <2>3, Zenon DEF Filtered, n
<1>20. FilterState(kept[n], t, n).str = Encoded(kept[n])
  BY <1>19 DEF FilterState
<1>21. Without(t, c) = kept[Len(t)]
  BY <1>1, WithoutIs, Zenon
<1>22. QED
  BY <1>3, <1>4, <1>17, <1>18, <1>20, <1>21, Zenon DEF n

-----------------------------------------------------------------------------
\* A Str holds a text: its block is the block of the text, and the text is one
\* of the bytes that are put into a Str.
IsStrOf(s, t) == t \in Seq(Bytes) /\ s = Encoded(t)

\* The inductive invariant: TextKept, and that the text is a sequence of bytes.
TextHeld == IsStrOf(str, text)

\* An operation that gives the Str of the text it should give keeps it.
LEMMA BecomesHeld ==
  ASSUME NEW s, NEW t, IsStrOf(s, t), Becomes(s, t)
  PROVE  TextHeld'
<1>1. str' = s /\ text' = t
  BY DEF Becomes
<1>2. QED
  BY <1>1 DEF TextHeld, IsStrOf, Encoded, Str, Block

\* str_set_at and str_delete_at (str.c:98-139).
LEMMA IndexedHeld ==
  ASSUME TextHeld, StrIndexed
  PROVE  TextHeld'
<1>1. text \in Seq(Bytes) /\ str = Encoded(text)
  BY DEF TextHeld, IsStrOf
<1>2. PICK idx \in Indexes :
        /\ idx < Len(text)
        /\ text # << >>
        /\ \/ \E c \in Bytes :
                  Becomes(StrSetAt(str, idx, c), ReplaceAt(text, Place(idx) + 1, c))
           \/ Becomes(StrDeleteAt(str, idx), RemoveAt(text, Place(idx) + 1))
  BY Zenon DEF StrIndexed
<1>3. idx \in Int
  BY ValuesAssumption DEF Indexes
<1>4. PlaceIn(text, idx) = Place(idx)
  BY DEF PlaceIn, Place
<1>5. Len(text) \in Nat /\ Len(text) # 0
  BY <1>1, <1>2, EmptySeq, LenProperties
<1>6. Place(idx) \in 0 .. Len(text) - 1
  BY <1>2, <1>3, <1>5 DEF Place
<1>7. FixIndex(Encoded(text), idx) = Place(idx)
  <2>1. Place(idx) < Len(text)
    BY <1>5, <1>6
  <2>2. FixIndex(Encoded(text), idx)
          = IF PlaceIn(text, idx) < Len(text) THEN PlaceIn(text, idx) ELSE Len(text)
    BY <1>1, <1>3, FixIndexIs, Zenon
  <2>3. QED
    BY <1>4, <2>1, <2>2
<1>8. ASSUME NEW c \in Bytes, Becomes(StrSetAt(str, idx, c), ReplaceAt(text, Place(idx) + 1, c))
      PROVE  TextHeld'
  <2>1. StrSetAt(str, idx, c) = Str(Put(Block(text), Place(idx), c), Len(text) + 1)
    BY <1>1, <1>7 DEF StrSetAt, Encoded, Str
  <2>2. /\ ReplaceAt(text, Place(idx) + 1, c) \in Seq(Bytes)
        /\ Str(Put(Block(text), Place(idx), c), Len(text) + 1)
             = Encoded(ReplaceAt(text, Place(idx) + 1, c))
    BY <1>1, <1>6, <1>8, SetAtText, Zenon
  <2>3. IsStrOf(StrSetAt(str, idx, c), ReplaceAt(text, Place(idx) + 1, c))
    BY <2>1, <2>2, Zenon DEF IsStrOf
  <2>4. QED
    BY <1>8, <2>3, BecomesHeld, Zenon
<1>9. ASSUME Becomes(StrDeleteAt(str, idx), RemoveAt(text, Place(idx) + 1))
      PROVE  TextHeld'
  <2>1. /\ RemoveAt(text, Place(idx) + 1) \in Seq(Bytes)
        /\ StrDeleteAt(Encoded(text), idx) = Encoded(RemoveAt(text, Place(idx) + 1))
    BY <1>1, <1>6, <1>7, StrDeleteAtText, Zenon
  <2>2. IsStrOf(StrDeleteAt(str, idx), RemoveAt(text, Place(idx) + 1))
    BY <1>1, <2>1, Zenon DEF IsStrOf
  <2>3. QED
    BY <1>9, <2>2, BecomesHeld, Zenon
<1>10. QED
  BY <1>2, <1>8, <1>9, Zenon

\* A text that is not longer than n is not truncated (str.c:243-262).
LEMMA TruncatedHeld ==
  ASSUME TextHeld, NEW end \in Seq(Bytes), NEW n \in Nat
  PROVE  IsStrOf(StrTruncate(str, n, end), Truncated(n, end))
<1>1. text \in Seq(Bytes) /\ str = Encoded(text)
  BY DEF TextHeld, IsStrOf
<1>2. Len(text) \in Nat
  BY <1>1, LenProperties
<1>3. EndOf(end, n) = EndIn(end, n)
  BY DEF EndOf, EndIn
<1>4. CASE n >= Len(text)
  <2>1. n >= str.size - 1
    BY <1>1, <1>2, <1>4 DEF Encoded, Str
  <2>2. StrTruncate(str, n, end) = str
    BY <2>1 DEF StrTruncate
  <2>3. Truncated(n, end) = text
    BY <1>4 DEF Truncated
  <2>4. QED
    BY <1>1, <2>2, <2>3, Zenon DEF IsStrOf
<1>5. CASE ~(n >= Len(text))
  <2>1. n < Len(text)
    BY <1>2, <1>5
  <2> DEFINE u == SubSeq(text, 1, n - Len(EndIn(end, n))) \o EndIn(end, n)
  <2>2. Truncated(n, end) = u
    BY <1>3, <1>5, Zenon DEF Truncated
  <2>3. u \in Seq(Bytes) /\ StrTruncate(Encoded(text), n, end) = Encoded(u)
    BY <1>1, <2>1, TruncateText, Zenon
  <2>4. QED
    BY <1>1, <2>2, <2>3, Zenon DEF IsStrOf
<1>6. QED
  BY <1>4, <1>5

\* str_prepend, str_append and str_truncate (str.c:141-180, 243-262).
LEMMA ExtendedHeld ==
  ASSUME TextHeld, StrExtended
  PROVE  TextHeld'
<1>1. text \in Seq(Bytes) /\ str = Encoded(text)
  BY DEF TextHeld, IsStrOf
<1>2. PICK t \in Texts :
        \/ Becomes(StrPrepend(str, t), t \o text)
        \/ Becomes(StrAppend(str, t), text \o t)
        \/ \E n \in 0 .. MaxLen : Becomes(StrTruncate(str, n, t), Truncated(n, t))
  BY Zenon DEF StrExtended
<1>3. t \in Seq(Bytes)
  BY ValuesAssumption
<1>4. IsStrOf(StrPrepend(str, t), t \o text)
  BY <1>1, <1>3, PrependText, Zenon DEF IsStrOf
<1>5. IsStrOf(StrAppend(str, t), text \o t)
  BY <1>1, <1>3, AppendText, Zenon DEF IsStrOf
<1>6. \A n \in 0 .. MaxLen : IsStrOf(StrTruncate(str, n, t), Truncated(n, t))
  <2>1. 0 .. MaxLen \subseteq Nat
    BY ValuesAssumption
  <2>2. QED
    BY <1>3, <2>1, TruncatedHeld, Zenon
<1>7. QED
  BY <1>2, <1>4, <1>5, <1>6, BecomesHeld, Zenon

\* The strips, str_reverse and filter (str.c:182-241, 352-399, 606-620).
LEMMA ReducedHeld ==
  ASSUME TextHeld, StrReduced
  PROVE  TextHeld'
<1>1. text \in Seq(Bytes) /\ str = Encoded(text)
  BY DEF TextHeld, IsStrOf
<1>2. Others = NoSpaces(text)
  BY DEF Others, NoSpaces
<1>3. /\ NoSpacesBefore = Stripped(text, TRUE, FALSE)
      /\ NoSpacesBehind = Stripped(text, FALSE, TRUE)
      /\ NoSpacesAround = Stripped(text, TRUE, TRUE)
  BY <1>2, Zenon DEF NoSpacesBefore, NoSpacesBehind, NoSpacesAround, Stripped
<1>4. /\ IsStrOf(StrLStrip(str), NoSpacesBefore)
      /\ IsStrOf(StrRStrip(str), NoSpacesBehind)
      /\ IsStrOf(StrStrip(str), NoSpacesAround)
  BY <1>1, <1>3, StripText, Zenon DEF IsStrOf
<1>5. IsStrOf(StrReverse(str), Reverse(text))
  BY <1>1, ReverseText, Zenon DEF IsStrOf
<1>6. \A c \in Bytes : IsStrOf(StrFilter(str, c), Without(text, c))
  BY <1>1, FilterText, Zenon DEF IsStrOf
<1>7. QED
  BY <1>4, <1>5, <1>6, BecomesHeld, Zenon DEF StrReduced

\* Nothing is filled in a text that is as long as it should be.
LEMMA NothingFilled ==
  ASSUME NEW S, NEW t \in Seq(S), NEW c
  PROVE  /\ FillOf(0, c) = << >>
         /\ t \o FillOf(0, c) = t
         /\ FillOf(0, c) \o t = t
<1>1. FillOf(0, c) = << >>
  BY DEF FillOf
<1>2. t \o << >> = t /\ << >> \o t = t
  BY ConcatEmptySeq
<1>3. QED
  BY <1>1, <1>2, Zenon

\* str_ljust, str_rjust and str_center (str.c:401-492).
LEMMA JustifiedHeld ==
  ASSUME TextHeld, StrJustified
  PROVE  TextHeld'
<1>1. text \in Seq(Bytes) /\ str = Encoded(text)
  BY DEF TextHeld, IsStrOf
<1>2. PICK width \in 0 .. MaxLen :
        \/ Becomes(StrLJust(str, width, Fill), text \o Blank(Missing(width)))
        \/ Becomes(StrRJust(str, width, Fill), Blank(Missing(width)) \o text)
        \/ Becomes(StrCenter(str, width, Fill),
                   Blank(Missing(width) \div 2) \o text
                     \o Blank(Missing(width) - (Missing(width) \div 2)))
  BY Zenon DEF StrJustified
<1>3. width \in Nat /\ Fill \in Bytes
  BY ValuesAssumption
<1>4. Len(text) \in Nat
  BY <1>1, LenProperties
<1>5. \A n : Blank(n) = FillOf(n, Fill)
  BY DEF Blank, FillOf
<1>6. str.size = Len(text) + 1 /\ StrLen(str) = Len(text)
  BY <1>1, EncodedParts
<1>7. CASE width > Len(text)
  <2> DEFINE n == width - Len(text)
             h == n \div 2
  <2>1. Missing(width) = n
    BY <1>7 DEF Missing
  <2>2. n \in Nat /\ h \in Nat /\ n - h \in Nat /\ width >= str.size
    BY <1>3, <1>4, <1>6, <1>7
  <2>3. n + Len(text) + 0 = width /\ h + Len(text) + (n - h) = width
    BY <1>3, <1>4, <2>2
  <2>4. IsStrOf(StrLJust(str, width, Fill), text \o Blank(Missing(width)))
    <3>1. text \o FillOf(n, Fill) \in Seq(Bytes)
      BY <1>1, <1>3, <1>7, LJustText, Zenon
    <3>2. StrLJust(Encoded(text), width, Fill) = Encoded(text \o FillOf(n, Fill))
      BY <1>1, <1>3, <1>7, LJustText, Zenon
    <3>3. QED
      BY <1>1, <1>5, <2>1, <3>1, <3>2, Zenon DEF IsStrOf
  <2> HIDE DEF n, h
  <2>5. IsStrOf(StrRJust(str, width, Fill), Blank(Missing(width)) \o text)
    <3> DEFINE u == FillOf(n, Fill) \o text
    <3>1. u \in Seq(Bytes)
      BY <1>1, <1>3, <2>2, FillOfParts, ConcatParts, Zenon
    <3>2. u \o FillOf(0, Fill) = u
      BY <3>1, NothingFilled, Zenon
    <3>3. Widened(Encoded(text), n + Len(text) + 0, n, Fill) = Encoded(u \o FillOf(0, Fill))
      <4>1. 0 \in Nat
        OBVIOUS
      <4>2. WidensTo(text, Fill, n, 0)
        BY <1>1, <1>3, <2>2, <4>1, WidenedText, Zenon
      <4>3. QED
        BY <4>2, Zenon DEF WidensTo, Padded
    <3>4. StrRJust(str, width, Fill) = Widened(str, width, n, Fill)
      BY <1>6, <2>2 DEF StrRJust, n
    <3>5. StrRJust(str, width, Fill) = Encoded(u)
      BY <1>1, <2>3, <3>2, <3>3, <3>4, Zenon
    <3>6. QED
      BY <1>5, <2>1, <3>1, <3>5, Zenon DEF IsStrOf
  <2>6. IsStrOf(StrCenter(str, width, Fill),
                Blank(Missing(width) \div 2) \o text
                  \o Blank(Missing(width) - (Missing(width) \div 2)))
    <3> DEFINE u == FillOf(h, Fill) \o text \o FillOf(n - h, Fill)
    <3>1. Padded(text, Fill, h, n - h) \in Seq(Bytes) /\ WidensTo(text, Fill, h, n - h)
      BY <1>1, <1>3, <2>2, WidenedText, Zenon
    <3>2. u \in Seq(Bytes)
      BY <3>1, Zenon DEF Padded
    <3>3. Widened(Encoded(text), h + Len(text) + (n - h), h, Fill) = Encoded(u)
      BY <3>1, Zenon DEF WidensTo, Padded
    <3>4. StrCenter(str, width, Fill) = Widened(str, width, h, Fill)
      BY <1>6, <2>2 DEF StrCenter, n, h
    <3>5. StrCenter(str, width, Fill) = Encoded(u)
      BY <1>1, <2>3, <3>3, <3>4, Zenon
    <3>6. Blank(Missing(width) \div 2) = FillOf(h, Fill)
      BY <1>5, <2>1 DEF h
    <3>7. Blank(Missing(width) - (Missing(width) \div 2)) = FillOf(n - h, Fill)
      BY <1>5, <2>1 DEF h
    <3>8. QED
      BY <3>2, <3>5, <3>6, <3>7, Zenon DEF IsStrOf
  <2>7. QED
    BY <1>2, <2>4, <2>5, <2>6, BecomesHeld, Zenon
<1>8. CASE ~(width > Len(text))
  <2>1. Missing(width) = 0
    BY <1>8 DEF Missing
  <2>2. Missing(width) \div 2 = 0 /\ Missing(width) - (Missing(width) \div 2) = 0
    BY <2>1
  <2>3. Blank(0) = FillOf(0, Fill)
    BY <1>5, Zenon
  <2>4. text \o Blank(0) = text /\ Blank(0) \o text = text
    BY <1>1, <2>3, NothingFilled, Zenon
  <2>5. ~(width >= str.size)
    BY <1>3, <1>4, <1>6, <1>8
  <2>6. StrLJust(str, width, Fill) = str
    BY <2>5, Zenon DEF StrLJust
  <2>7. StrRJust(str, width, Fill) = str
    BY <2>5, Zenon DEF StrRJust
  <2>8. StrCenter(str, width, Fill) = str
    BY <2>5, Zenon DEF StrCenter
  <2>9. Becomes(str, text)
    BY <1>2, <2>1, <2>2, <2>4, <2>6, <2>7, <2>8, Zenon
  <2>10. QED
    BY <2>9, BecomesHeld, Zenon DEF TextHeld
<1>9. QED
  BY <1>7, <1>8

\* str_slice (str.c:98-112, 264-282).
LEMMA SlicedHeld ==
  ASSUME TextHeld, StrSliced
  PROVE  TextHeld'
<1>1. text \in Seq(Bytes) /\ str = Encoded(text)
  BY DEF TextHeld, IsStrOf
<1>2. PICK start \in Indexes, end \in Indexes :
        Becomes(StrSlice(str, start, end),
                SubSeq(text, Place(start) + 1,
                       IF Place(end) < Len(text) THEN Place(end) ELSE Len(text)))
  BY Zenon DEF StrSliced
<1>3. start \in Int /\ end \in Int
  BY ValuesAssumption DEF Indexes
<1>4. \A idx : PlaceIn(text, idx) = Place(idx)
  BY DEF PlaceIn, Place
<1>5. Len(text) \in Nat
  BY <1>1, LenProperties
<1>6. Place(start) \in Nat /\ Place(end) \in Nat
  BY <1>1, <1>3, <1>4, FixIndexIs
<1> DEFINE from == FixIndex(str, start)
           to == FixIndex(str, end)
           u == SubSeq(text, from + 1, to)
           v == SubSeq(text, Place(start) + 1,
                       IF Place(end) < Len(text) THEN Place(end) ELSE Len(text))
<1>7. from = IF Place(start) < Len(text) THEN Place(start) ELSE Len(text)
  BY <1>1, <1>3, <1>4, FixIndexIs
<1>8. to = IF Place(end) < Len(text) THEN Place(end) ELSE Len(text)
  BY <1>1, <1>3, <1>4, FixIndexIs
<1> HIDE DEF from, to
<1>9. from \in Nat /\ to \in Nat /\ to <= Len(text)
  BY <1>5, <1>6, <1>7, <1>8
<1>10. u \in Seq(Bytes) /\ CutOut(Block(text), from, to) = u
  BY <1>1, <1>9, SliceText, Zenon
<1>11. v = u
  <2>1. CASE Place(start) < Len(text)
    BY <1>7, <1>8, <2>1
  <2>2. CASE ~(Place(start) < Len(text))
    <3>1. from = Len(text)
      BY <1>7, <2>2
    <3>2. from + 1 > to /\ Place(start) + 1 > to
      BY <1>5, <1>6, <1>9, <2>2, <3>1
    <3>3. u = << >>
      BY <1>9, <3>2, SubSeqEmpty
    <3>4. v = << >>
      BY <1>6, <1>8, <1>9, <3>2, SubSeqEmpty
    <3>5. QED
      BY <3>3, <3>4
  <2>3. QED
    BY <2>1, <2>2
<1>12. str.cstr = Block(text)
  BY <1>1, EncodedParts
<1>13. StrSlice(str, start, end) = StrOf(CutOut(Block(text), from, to))
  BY <1>12 DEF StrSlice, from, to, CutOut
<1>14. StrOf(u) = Encoded(u)
  BY <1>10, CopiedBlock, Zenon
<1>15. IsStrOf(StrSlice(str, start, end), v)
  BY <1>10, <1>11, <1>13, <1>14, Zenon DEF IsStrOf
<1>16. QED
  BY <1>2, <1>15, BecomesHeld, Zenon

\* The Str is empty at first.
LEMMA TextHeldInit ==
  ASSUME Init
  PROVE  TextHeld
<1>1. << >> \in Seq(Bytes)
  BY EmptySeq
<1>2. StrOf(<< >>) = Encoded(<< >>)
  BY <1>1, CopiedBlock, Zenon
<1>3. QED
  BY <1>1, <1>2, Zenon DEF Init, TextHeld, IsStrOf

\* Every operation keeps it.
LEMMA TextHeldNext ==
  ASSUME TextHeld, [Next]_vars
  PROVE  TextHeld'
<1>1. CASE UNCHANGED <<str, text>>
  BY <1>1 DEF TextHeld, IsStrOf, Encoded, Str, Block
<1>2. CASE StrChange
  BY <1>2, IndexedHeld, ExtendedHeld, ReducedHeld, JustifiedHeld, SlicedHeld,
    Zenon DEF StrChange
<1>3. CASE PathChange
  BY <1>1, <1>3 DEF PathChange
<1>4. CASE IpChange
  BY <1>1, <1>4 DEF IpChange
<1>5. CASE FormatChange
  BY <1>1, <1>5 DEF FormatChange
<1>6. CASE UNCHANGED vars
  BY <1>1, <1>6 DEF vars
<1>7. QED
  BY <1>2, <1>3, <1>4, <1>5, <1>6 DEF Next

\* After any sequence of operations on a Str, with any bytes, texts and lengths,
\* its block holds the text they should give, the byte that ends it and nothing
\* else (str.c:98-262, 352-492, 606-620).
THEOREM StrTextKept == Spec => []TextKept
<1>1. Init => TextHeld
  BY TextHeldInit
<1>2. TextHeld /\ [Next]_vars => TextHeld'
  BY TextHeldNext
<1>3. TextHeld => TextKept
  BY DEF TextHeld, IsStrOf, Encoded, Str, Block, TextKept
<1>4. QED
  BY <1>1, <1>2, <1>3, PTL DEF Spec

-----------------------------------------------------------------------------
\* What holds at 0 and goes on from each number to the next holds up to n.
LEMMA AllSteps ==
  ASSUME NEW n \in Nat, NEW G, 0 \in G, \A k \in 1 .. n : k - 1 \in G => k \in G
  PROVE  \A k \in 0 .. n : k \in G
<1> DEFINE Bad == {k \in 0 .. n : k \notin G}
<1>1. Bad = {}
  <2> SUFFICES ASSUME Bad # {} PROVE FALSE
    OBVIOUS
  <2>1. Bad \in SUBSET Nat
    OBVIOUS
  <2>2. PICK k \in Bad : \A m \in Bad : k <= m
    BY <2>1, MinOfNats
  <2>3. k # 0 /\ k \in 1 .. n
    OBVIOUS
  <2>4. k - 1 \in 0 .. n /\ ~(k <= k - 1)
    BY <2>3
  <2>5. k - 1 \notin Bad
    BY <2>2, <2>4
  <2>6. QED
    BY <2>3, <2>4, <2>5
<1>2. QED
  BY <1>1

\* The sums of the first k of n numbers.
Sums(sum, add, n) == sum[0] = 0 /\ \A k \in 1 .. n : sum[k] = sum[k - 1] + add[k]

\* A part takes some arguments or none, and none or some of them are counted.
LEMMA NeedsNat ==
  ASSUME NEW part
  PROVE  Needs(part) \in Nat /\ Takes(part) \in Nat
BY DEF Needs, Takes, TypeTakes, Arg, One

\* There are such sums.
LEMMA SumsExist ==
  ASSUME NEW n \in Nat, NEW add \in [1 .. n -> Nat]
  PROVE  \E sum \in [0 .. n -> Nat] : Sums(sum, add, n)
<1> DEFINE F == [p \in Nat \X (1 .. n) |-> p[1] + add[p[2]]]
           b == 0
<1>1. b \in Nat
  OBVIOUS
<1>2. F \in [Nat \X (1 .. n) -> Nat]
  OBVIOUS
<1>3. \A q \in Nat, k \in 1 .. n : F[<<q, k>>] = q + add[k]
  OBVIOUS
<1> HIDE DEF F, b
<1>4. PICK g \in [0 .. n -> Nat] : Steps(g, n, b, F)
  BY <1>1, <1>2, StepsExist, Zenon
<1>5. g[0] = b /\ \A k \in 1 .. n : g[k] = F[<<g[k - 1], k>>]
  BY <1>4, Zenon DEF Steps
<1>6. \A k \in 1 .. n : g[k] = g[k - 1] + add[k]
  <2> TAKE k \in 1 .. n
  <2>1. k - 1 \in 0 .. n
    OBVIOUS
  <2>2. g[k - 1] \in Nat
    BY <2>1
  <2>3. QED
    BY <1>3, <1>5, <2>2, Zenon
<1>7. QED
  BY <1>5, <1>6, Zenon DEF Sums, b

\* How many arguments the first k parts need, and how many of them ap_q takes.
Needed(sum, f) == Sums(sum, [k \in 1 .. Len(f) |-> Needs(f[k])], Len(f))
Walked(sum, f) == Sums(sum, [k \in 1 .. Len(f) |-> Takes(f[k])], Len(f))

\* cum[k] is the argument that part k shows: up to an object it is what ap_q has
\* taken, behind it vsnprintf goes on from there.
Counts(cum, take, f) ==
  /\ cum[0] = 0
  /\ \A k \in 1 .. Len(f) :
       cum[k] = IF f[k].type = "O" THEN take[k] ELSE cum[k - 1] + Needs(f[k])

\* There are such arguments.
LEMMA CountsExist ==
  ASSUME NEW f, Len(f) \in Nat, NEW take \in [0 .. Len(f) -> Nat]
  PROVE  \E cum \in [0 .. Len(f) -> Nat] : Counts(cum, take, f)
<1> DEFINE n == Len(f)
           F == [p \in Nat \X (1 .. n) |->
                   IF f[p[2]].type = "O" THEN take[p[2]] ELSE p[1] + Needs(f[p[2]])]
           b == 0
<1>1. n \in Nat /\ b \in Nat
  OBVIOUS
<1>2. \A k \in 1 .. n : take[k] \in Nat
  OBVIOUS
<1> HIDE DEF n
<1>3. F \in [Nat \X (1 .. n) -> Nat]
  <2> SUFFICES ASSUME NEW p \in Nat \X (1 .. n)
               PROVE  (IF f[p[2]].type = "O" THEN take[p[2]] ELSE p[1] + Needs(f[p[2]])) \in Nat
    OBVIOUS
  <2>1. p[1] \in Nat /\ p[2] \in 1 .. n /\ Needs(f[p[2]]) \in Nat
    BY NeedsNat
  <2>2. p[1] + Needs(f[p[2]]) \in Nat /\ take[p[2]] \in Nat
    BY <1>2, <2>1
  <2>3. QED
    BY <2>2, Zenon
<1>4. \A q \in Nat, k \in 1 .. n :
        F[<<q, k>>] = IF f[k].type = "O" THEN take[k] ELSE q + Needs(f[k])
  OBVIOUS
<1> HIDE DEF F, b
<1>5. PICK g \in [0 .. n -> Nat] : Steps(g, n, b, F)
  BY <1>1, <1>3, StepsExist, Zenon
<1>6. g[0] = b /\ \A k \in 1 .. n : g[k] = F[<<g[k - 1], k>>]
  BY <1>5, Zenon DEF Steps
<1>7. \A k \in 1 .. n : g[k] = IF f[k].type = "O" THEN take[k] ELSE g[k - 1] + Needs(f[k])
  <2> TAKE k \in 1 .. n
  <2>1. k - 1 \in 0 .. n
    BY <1>1
  <2>2. g[k - 1] \in Nat
    BY <2>1
  <2>3. QED
    BY <1>4, <1>6, <2>2, Zenon
<1>8. QED
  BY <1>6, <1>7, Zenon DEF n, Counts, b

\* The argument that part i shows, and those of the parts from first to last.
ShownAt(f, cum, i) == IF Arg(f[i]) = 0 THEN 0 ELSE cum[i]
ShownArgs(f, cum, first, last) ==
  [k \in 1 .. last - first + 1 |-> ShownAt(f, cum, first + k - 1)]

\* A sum over the parts in front is the difference of two counts.
LEMMA VsnprintfShows ==
  ASSUME NEW f, Len(f) \in Nat, NEW cum \in [0 .. Len(f) -> Nat],
         NEW first \in Nat, NEW last \in Nat, 1 <= first, first <= last + 1, last <= Len(f),
         \A i \in first .. last : cum[i] = cum[i - 1] + Needs(f[i]),
         NEW ap, ap = cum[first - 1] + 1
  PROVE  Vsnprintf(f, first, last, ap) = ShownArgs(f, cum, first, last)
<1> DEFINE D == first .. last + 1
           h == [i \in D |-> cum[i - 1]]
<1>1. cum[first - 1] = ap - 1
  <2>1. first - 1 \in 0 .. Len(f)
    OBVIOUS
  <2>2. cum[first - 1] \in Nat
    BY <2>1
  <2>3. QED
    BY <2>2
<1>2. ASSUME NEW i \in D, i # first
      PROVE  i - 1 \in D /\ cum[i - 1] = cum[(i - 1) - 1] + Needs(f[i - 1])
  <2>1. i - 1 \in first .. last /\ i - 1 \in D
    BY <1>2
  <2>2. QED
    BY <2>1, Zenon
<1>3. h = [i \in D |-> IF i = first THEN ap - 1 ELSE h[i - 1] + Needs(f[i - 1])]
  <2> HIDE DEF D
  <2>1. \A i \in D : cum[i - 1] = IF i = first THEN ap - 1 ELSE h[i - 1] + Needs(f[i - 1])
    BY <1>1, <1>2, Zenon
  <2>2. QED
    BY <2>1, Zenon
<1> HIDE DEF h, D
<1>4. PICK g : /\ g = [i \in D |-> IF i = first THEN ap - 1 ELSE g[i - 1] + Needs(f[i - 1])]
               /\ Vsnprintf(f, first, last, ap)
                    = [k \in 1 .. last - first + 1 |->
                         IF Arg(f[first + k - 1]) = 0 THEN 0
                         ELSE g[first + k - 1] + Needs(f[first + k - 1])]
  <2> DEFINE c == CHOOSE g : g = [i \in D |->
               IF i = first THEN ap - 1 ELSE g[i - 1] + Needs(f[i - 1])]
  <2>1. c = [i \in D |-> IF i = first THEN ap - 1 ELSE c[i - 1] + Needs(f[i - 1])]
    BY <1>3, Zenon
  <2>2. Vsnprintf(f, first, last, ap)
          = [k \in 1 .. last - first + 1 |->
               IF Arg(f[first + k - 1]) = 0 THEN 0
               ELSE c[first + k - 1] + Needs(f[first + k - 1])]
    BY DEF Vsnprintf, D
  <2> HIDE DEF c
  <2>3. QED
    BY <2>1, <2>2, Zenon
<1>5. \A i \in D : g[i] = IF i = first THEN ap - 1 ELSE g[i - 1] + Needs(f[i - 1])
  BY <1>4, Zenon
<1>6. \A i \in D : h[i] = IF i = first THEN ap - 1 ELSE h[i - 1] + Needs(f[i - 1])
  BY <1>3, Zenon
<1>7. \A i \in D : g[i] = h[i]
  <2> DEFINE G == {k \in 0 .. last + 1 - first : g[first + k] = h[first + k]}
             m == last + 1 - first
  <2>1. m \in Nat
    OBVIOUS
  <2>2. 0 \in G
    <3>1. first \in D /\ first + 0 = first /\ 0 \in 0 .. m
      BY DEF D
    <3>2. g[first] = h[first]
      BY <1>5, <1>6, <3>1, Zenon
    <3>3. QED
      BY <3>1, <3>2
  <2>3. ASSUME NEW k \in 1 .. m, k - 1 \in G PROVE k \in G
    <3> DEFINE i == first + k
    <3>1. i \in D /\ i # first /\ first + (k - 1) = i - 1 /\ k \in 0 .. m
      BY DEF D
    <3>2. g[i - 1] = h[i - 1]
      BY <2>3, <3>1
    <3> HIDE DEF i
    <3>3. g[i] = h[i]
      BY <1>5, <1>6, <3>1, <3>2, Zenon
    <3>4. QED
      BY <3>1, <3>3 DEF i
  <2> HIDE DEF G, m
  <2>4. \A k \in 0 .. m : k \in G
    BY <2>1, <2>2, <2>3, AllSteps, Zenon
  <2>5. TAKE i \in D
  <2>6. i - first \in 0 .. m /\ first + (i - first) = i
    BY DEF D, m
  <2>7. QED
    BY <2>4, <2>6 DEF G
<1>8. ASSUME NEW k \in 1 .. last - first + 1
      PROVE  (IF Arg(f[first + k - 1]) = 0 THEN 0
              ELSE g[first + k - 1] + Needs(f[first + k - 1]))
               = ShownAt(f, cum, first + k - 1)
  <2> DEFINE i == first + k - 1
  <2>1. i \in D /\ i \in first .. last
    BY DEF D
  <2>2. g[i] = cum[i - 1]
    BY <1>7, <2>1 DEF h
  <2>3. cum[i] = cum[i - 1] + Needs(f[i])
    BY <2>1, Zenon
  <2> HIDE DEF i
  <2>4. (IF Arg(f[i]) = 0 THEN 0 ELSE g[i] + Needs(f[i])) = ShownAt(f, cum, i)
    BY <2>2, <2>3, Zenon DEF ShownAt
  <2>5. QED
    BY <2>4 DEF i
<1>9. QED
  BY <1>4, <1>8, Zenon DEF ShownArgs

\* The arguments shown by two neighbouring pieces, and by one part more.
LEMMA ShownJoined ==
  ASSUME NEW f, NEW cum \in [0 .. Len(f) -> Nat], Len(f) \in Nat,
         NEW a \in Nat, NEW b \in Nat, 1 <= a, a <= b + 1, b <= Len(f)
  PROVE  ShownArgs(f, cum, 1, a - 1) \o ShownArgs(f, cum, a, b) = ShownArgs(f, cum, 1, b)
<1> DEFINE Sh(i) == ShownAt(f, cum, i)
           u == ShownArgs(f, cum, 1, a - 1)
           v == ShownArgs(f, cum, a, b)
           w == ShownArgs(f, cum, 1, b)
<1>1. \A i \in 1 .. Len(f) : Sh(i) \in Nat
  BY DEF ShownAt
<1> HIDE DEF Sh
<1>2. u = [k \in 1 .. a - 1 |-> Sh(k)]
  BY DEF ShownArgs, Sh
<1>3. w = [k \in 1 .. b |-> Sh(k)]
  BY DEF ShownArgs, Sh
<1>4. v = [k \in 1 .. b - a + 1 |-> Sh(a + k - 1)]
  BY Zenon DEF ShownArgs, Sh
<1> HIDE DEF u, v, w
<1>5. u \in Seq(Nat) /\ Len(u) = a - 1
  BY <1>1, <1>2
<1>6. v \in Seq(Nat) /\ Len(v) = b - a + 1
  BY <1>1, <1>4
<1>7. w \in Seq(Nat) /\ Len(w) = b
  BY <1>1, <1>3
<1>8. /\ u \o v \in Seq(Nat)
      /\ Len(u \o v) = b
      /\ \A i \in 1 .. b : (u \o v)[i] = IF i <= a - 1 THEN u[i] ELSE v[i - (a - 1)]
  <2>1. u \o v \in Seq(Nat) /\ Len(u \o v) = Len(u) + Len(v)
    BY <1>5, <1>6, ConcatProperties
  <2>2. \A i \in 1 .. Len(u) + Len(v) :
          (u \o v)[i] = IF i <= Len(u) THEN u[i] ELSE v[i - Len(u)]
    BY <1>5, <1>6, ConcatProperties
  <2>3. Len(u) + Len(v) = b
    BY <1>5, <1>6
  <2>4. Len(u \o v) = b
    BY <2>1, <2>3
  <2>5. \A i \in 1 .. b : (u \o v)[i] = IF i <= a - 1 THEN u[i] ELSE v[i - (a - 1)]
    BY <1>5, <2>2, <2>3, Zenon
  <2>6. QED
    BY <2>1, <2>4, <2>5, Zenon
<1>9. \A i \in 1 .. b : (u \o v)[i] = w[i]
  <2> TAKE i \in 1 .. b
  <2>1. CASE i <= a - 1
    BY <1>2, <1>3, <1>8, <2>1
  <2>2. CASE ~(i <= a - 1)
    <3>1. i - (a - 1) \in 1 .. b - a + 1 /\ a + (i - (a - 1)) - 1 = i
      BY <2>2
    <3>2. v[i - (a - 1)] = Sh(i)
      BY <1>4, <3>1
    <3>3. QED
      BY <1>3, <1>8, <2>2, <3>2
  <2>3. QED
    BY <2>1, <2>2
<1>10. u \o v = w
  BY <1>7, <1>8, <1>9, SeqEqual
<1>11. QED
  BY <1>10 DEF u, v, w

\* Where the piece that holds the part behind the first k parts begins.
Begins(from, f) ==
  /\ from[0] = 1
  /\ \A k \in 1 .. Len(f) : from[k] = IF f[k].type = "O" THEN k + 1 ELSE from[k - 1]
  /\ \A k \in 0 .. Len(f) : 1 <= from[k] /\ from[k] <= k + 1
  /\ \A k \in 0 .. Len(f) : \A i \in from[k] .. k : f[i].type # "O"

\* And so can those before each part.
LEMMA BeginsExist ==
  ASSUME NEW f, Len(f) \in Nat
  PROVE  \E from \in [0 .. Len(f) -> Nat] : Begins(from, f)
<1> DEFINE n == Len(f)
           F == [p \in Nat \X (1 .. n) |-> IF f[p[2]].type = "O" THEN p[2] + 1 ELSE p[1]]
           b == 1
<1>1. n \in Nat /\ b \in Nat
  OBVIOUS
<1> HIDE DEF n
<1>2. F \in [Nat \X (1 .. n) -> Nat]
  OBVIOUS
<1>3. \A q \in Nat, k \in 1 .. n : F[<<q, k>>] = IF f[k].type = "O" THEN k + 1 ELSE q
  OBVIOUS
<1> HIDE DEF F, b
<1>4. PICK g \in [0 .. n -> Nat] : Steps(g, n, b, F)
  BY <1>1, <1>2, StepsExist, Zenon
<1>5. g[0] = b /\ \A k \in 1 .. n : g[k] = F[<<g[k - 1], k>>]
  BY <1>4, Zenon DEF Steps
<1>6. \A k \in 1 .. n : g[k] = IF f[k].type = "O" THEN k + 1 ELSE g[k - 1]
  <2> TAKE k \in 1 .. n
  <2>1. k - 1 \in 0 .. n
    BY <1>1
  <2>2. g[k - 1] \in Nat
    BY <2>1
  <2>3. QED
    BY <1>3, <1>5, <2>2, Zenon
<1>7. \A k \in 0 .. n : 1 <= g[k] /\ g[k] <= k + 1
  <2> DEFINE G == {k \in 0 .. n : 1 <= g[k] /\ g[k] <= k + 1}
  <2>1. 0 \in G
    BY <1>1, <1>5 DEF b
  <2>2. ASSUME NEW k \in 1 .. n, k - 1 \in G PROVE k \in G
    <3>1. k \in 0 .. n /\ k - 1 \in 0 .. n
      BY <1>1
    <3>2. g[k - 1] \in Nat /\ g[k - 1] <= k - 1 + 1 /\ 1 <= g[k - 1]
      BY <2>2, <3>1
    <3>3. g[k] = IF f[k].type = "O" THEN k + 1 ELSE g[k - 1]
      BY <1>6
    <3>4. 1 <= g[k] /\ g[k] <= k + 1
      BY <3>2, <3>3
    <3>5. QED
      BY <3>1, <3>4
  <2> HIDE DEF G
  <2>3. \A k \in 0 .. n : k \in G
    BY <1>1, <2>1, <2>2, AllSteps, Zenon
  <2>4. QED
    BY <2>3 DEF G
<1>8. \A k \in 0 .. n : \A i \in g[k] .. k : f[i].type # "O"
  <2> DEFINE G == {k \in 0 .. n : \A i \in g[k] .. k : f[i].type # "O"}
  <2>1. 0 \in G
    BY <1>1, <1>5 DEF b
  <2>2. ASSUME NEW k \in 1 .. n, k - 1 \in G PROVE k \in G
    <3>1. k \in 0 .. n /\ k - 1 \in 0 .. n
      BY <1>1
    <3>2. CASE f[k].type = "O"
      BY <1>6, <3>1, <3>2
    <3>3. CASE f[k].type # "O"
      <4>1. g[k] = g[k - 1] /\ g[k - 1] \in Nat
        BY <1>6, <3>1, <3>3
      <4>2. \A i \in g[k - 1] .. k - 1 : f[i].type # "O"
        BY <2>2
      <4>3. ASSUME NEW i \in g[k] .. k PROVE i = k \/ i \in g[k - 1] .. k - 1
        BY <4>1
      <4>4. QED
        BY <3>1, <3>3, <4>2, <4>3
    <3>4. QED
      BY <3>2, <3>3
  <2> HIDE DEF G
  <2>3. \A k \in 0 .. n : k \in G
    BY <1>1, <2>1, <2>2, AllSteps, Zenon
  <2>4. QED
    BY <2>3 DEF G
<1>9. QED
  BY <1>5, <1>6, <1>7, <1>8, Zenon DEF n, Begins, b

\* A part moves ap_q by no more than vsnprintf takes for it, and by as much if it
\* is counted.
LEMMA TakesAll ==
  ASSUME NEW part, IsPart(part)
  PROVE  /\ Takes(part) <= Needs(part)
         /\ Takes(part) = Needs(part) <=> Counted(part)
         /\ Arg(part) = 0 <=> part = Literal
         /\ part.type = "O" => Arg(part) # 0
<1>1. CASE part = Literal
  <2>1. Literal.type = "text" /\ Literal.star = FALSE /\ Literal.prec = FALSE
    BY Zenon DEF Literal
  <2>2. part.type = "text" /\ ~part.star /\ ~part.prec
    BY <1>1, <2>1, Zenon
  <2>3. Counted(part)
    BY <2>2 DEF Counted, IntTypes
  <2>4. Takes(part) = 0 /\ Arg(part) = 0 /\ part.type # "O"
    BY <2>2 DEF Takes, Arg, One
  <2>5. Needs(part) = 0
    BY <2>2, <2>4 DEF Needs, One
  <2>6. QED
    BY <1>1, <2>3, <2>4, <2>5
<1>2. ASSUME part.type # "text", part.length \in Lengths,
             part.star \in BOOLEAN, part.prec \in BOOLEAN
      PROVE  /\ Takes(part) <= Needs(part)
             /\ Takes(part) = Needs(part) <=> Counted(part)
             /\ Arg(part) = 1
             /\ part # Literal
  <2>1. Arg(part) = 1
    BY <1>2 DEF Arg, One
  <2>2. part # Literal
    <3>1. Literal.type = "text"
      BY Zenon DEF Literal
    <3>2. QED
      BY <1>2, <3>1, Zenon
  <2>3. part.length \in IntLengths <=> part.length \notin {"l", "ll"}
    BY <1>2 DEF Lengths, IntLengths
  <2>4. TypeTakes(part) = One(Counted(part))
    BY <2>3 DEF TypeTakes, Counted, One
  <2>5. Takes(part) = One(part.star) + One(Counted(part))
    BY <1>2, <2>4, Zenon DEF Takes
  <2>6. Needs(part) = One(part.star) + One(part.prec) + 1
    BY <2>1, Zenon DEF Needs
  <2>7. Counted(part) => ~part.prec
    BY DEF Counted
  <2>8. One(part.star) \in Nat
    BY DEF One
  <2>9. CASE Counted(part)
    <3>1. One(part.prec) = 0 /\ One(Counted(part)) = 1
      BY <2>7, <2>9, Zenon DEF One
    <3>2. Takes(part) = One(part.star) + 1 /\ Needs(part) = One(part.star) + 0 + 1
      BY <2>5, <2>6, <3>1, Zenon
    <3>3. Takes(part) = Needs(part) /\ Takes(part) <= Needs(part)
      BY <2>8, <3>2
    <3>4. QED
      BY <2>1, <2>2, <2>9, <3>3, Zenon
  <2>10. CASE ~Counted(part)
    <3>1. One(part.prec) \in Nat /\ One(Counted(part)) = 0
      BY <2>10 DEF One
    <3>2. Takes(part) = One(part.star) + 0
      BY <2>5, <3>1, Zenon
    <3>3. Takes(part) # Needs(part) /\ Takes(part) <= Needs(part)
      BY <2>6, <2>8, <3>1, <3>2
    <3>4. QED
      BY <2>1, <2>2, <2>10, <3>3, Zenon
  <2>11. QED
    BY <2>9, <2>10
<1>3. CASE part # Literal
  <2>1. part.type # "text"
    BY <1>3 DEF IsPart, IntTypes, DoubleTypes, OtherTypes
  <2>2. part.length \in Lengths /\ part.star \in BOOLEAN /\ part.prec \in BOOLEAN
    BY <1>3 DEF IsPart
  <2>3. QED
    BY <1>2, <2>1, <2>2
<1>4. QED
  BY <1>1, <1>3

\* Where vformat is behind the first k parts.
FormatState(f, cum, take, from, k) ==
  [at |-> k + 1, first |-> from[k], p |-> cum[from[k] - 1] + 1, q |-> take[k] + 1,
   shown |-> ShownArgs(f, cum, 1, from[k] - 1)]

FormatStep(f, v, k) ==
  IF f[k].type = "O" THEN FormatObject(f, v)
  ELSE FormatOther(f, v)

\* One part more: vformat is where it should be.
LEMMA FormatStepIs ==
  ASSUME NEW f, Len(f) \in Nat, NEW take \in [0 .. Len(f) -> Nat], Walked(take, f),
         NEW cum \in [0 .. Len(f) -> Nat], Counts(cum, take, f),
         NEW from \in [0 .. Len(f) -> Nat], Begins(from, f),
         NEW k \in 1 .. Len(f), IsPart(f[k])
  PROVE  FormatStep(f, FormatState(f, cum, take, from, k - 1), k) = FormatState(f, cum, take, from, k)
<1> DEFINE a == from[k - 1]
           u == ShownArgs(f, cum, 1, a - 1)
           p == cum[a - 1] + 1
           q == take[k - 1] + 1
           v == [at |-> k, first |-> a, p |-> p, q |-> q, shown |-> u]
<1>1. FormatState(f, cum, take, from, k - 1) = v
  BY DEF FormatState
<1>2. k \in 0 .. Len(f) /\ k - 1 \in 0 .. Len(f)
  OBVIOUS
<1>3. a \in Nat /\ 1 <= a /\ a <= (k - 1) + 1 /\ k - 1 \in Nat /\ k - 1 <= Len(f)
  <2>1. 1 <= a /\ a <= (k - 1) + 1
    BY <1>2, Zenon DEF Begins
  <2>2. a \in Nat
    BY <1>2
  <2>3. QED
    BY <2>1, <2>2
<1>4. take[k] = take[k - 1] + Takes(f[k]) /\ take[k - 1] \in Nat /\ take[k] \in Nat
  BY <1>2 DEF Walked, Sums
<1>5. Takes(f[k]) \in Nat
  BY NeedsNat, Zenon
<1>6. q + Takes(f[k]) = take[k] + 1
  BY <1>4, <1>5
<1>7. CASE f[k].type = "O"
  <2>1. from[k] = k + 1
    BY <1>7 DEF Begins
  <2> DEFINE piece == Vsnprintf(f, a, k - 1, p)
             obj == <<q + Takes(f[k]) - 1>>
  <2>2. piece = ShownArgs(f, cum, a, k - 1)
    <3>1. \A i \in a .. k - 1 : cum[i] = cum[i - 1] + Needs(f[i])
      <4> TAKE i \in a .. k - 1
      <4>1. i \in 1 .. Len(f)
        BY <1>3
      <4>2. f[i].type # "O"
        BY <1>2, Zenon DEF Begins
      <4>3. QED
        BY <4>1, <4>2, Zenon DEF Counts
    <3>2. QED
      BY <1>3, <3>1, VsnprintfShows, Zenon
  <2>3. obj = ShownArgs(f, cum, k, k)
    <3>1. Arg(f[k]) # 0
      BY <1>7, TakesAll, Zenon
    <3>2. ShownAt(f, cum, k) = take[k]
      BY <1>7, <3>1, Zenon DEF ShownAt, Counts
    <3>3. q + Takes(f[k]) - 1 = take[k]
      <4> DEFINE t == Takes(f[k])
      <4>1. take[k] = take[k - 1] + t /\ take[k - 1] \in Nat /\ t \in Nat
        BY <1>4, <1>5
      <4> HIDE DEF t
      <4>2. q + t - 1 = take[k]
        BY <4>1
      <4>3. QED
        BY <4>2 DEF t
    <3>4. obj = <<take[k]>>
      BY <3>3
    <3>5. ShownArgs(f, cum, k, k) = [i \in 1 .. 1 |-> ShownAt(f, cum, k)]
      BY DEF ShownArgs
    <3>6. QED
      BY <3>2, <3>4, <3>5
  <2>4. u \o piece \o obj = ShownArgs(f, cum, 1, k)
    <3>1. u \o piece = ShownArgs(f, cum, 1, k - 1)
      BY <1>3, <2>2, ShownJoined, Zenon
    <3>2. k \in Nat /\ 1 <= k /\ k <= k + 1 /\ k <= Len(f)
      OBVIOUS
    <3>3. ShownArgs(f, cum, 1, k - 1) \o ShownArgs(f, cum, k, k) = ShownArgs(f, cum, 1, k)
      BY <3>2, ShownJoined, Zenon
    <3>4. QED
      BY <2>3, <3>1, <3>3, Zenon
  <2>5. FormatObject(f, v) = [at |-> k + 1, first |-> k + 1, p |-> q + Takes(f[k]),
                              q |-> q + Takes(f[k]), shown |-> u \o piece \o obj]
    <3> HIDE DEF a, u, p, q
    <3>1. QED
      BY DEF FormatObject, NextArg
  <2>6. FormatState(f, cum, take, from, k)
          = [at |-> k + 1, first |-> k + 1, p |-> take[k] + 1, q |-> take[k] + 1,
             shown |-> ShownArgs(f, cum, 1, k)]
    <3>1. cum[k] = take[k]
      BY <1>7, Zenon DEF Counts
    <3>2. QED
      BY <2>1, <3>1 DEF FormatState
  <2>7. FormatStep(f, v, k) = FormatObject(f, v)
    BY <1>7, Zenon DEF FormatStep
  <2> HIDE DEF v, a, u, p, q, piece, obj
  <2>8. QED
    BY <1>1, <1>6, <2>4, <2>5, <2>6, <2>7
<1>8. CASE f[k].type # "O"
  <2>1. from[k] = a
    BY <1>8 DEF Begins
  <2>2. FormatStep(f, v, k) = FormatOther(f, v)
    BY <1>8, Zenon DEF FormatStep
  <2>3. FormatState(f, cum, take, from, k)
          = [at |-> k + 1, first |-> a, p |-> p, q |-> take[k] + 1, shown |-> u]
    BY <2>1, Zenon DEF FormatState
  <2>4. FormatOther(f, v)
          = [at |-> k + 1, first |-> a, p |-> p, q |-> q + Takes(f[k]), shown |-> u]
    <3> HIDE DEF a, u, p, q
    <3>1. QED
      BY DEF FormatOther
  <2> HIDE DEF v, a, u, p, q
  <2>5. QED
    BY <1>1, <1>6, <2>2, <2>3, <2>4
<1>9. QED
  BY <1>7, <1>8

\* vformat shows of each part the argument it takes last.
LEMMA VformatShows ==
  ASSUME NEW f, Len(f) \in Nat, NEW take \in [0 .. Len(f) -> Nat], Walked(take, f),
         NEW cum \in [0 .. Len(f) -> Nat], Counts(cum, take, f),
         \A k \in 1 .. Len(f) : IsPart(f[k])
  PROVE  Vformat(f) = ShownArgs(f, cum, 1, Len(f))
<1> DEFINE n == Len(f)
<1>1. PICK from \in [0 .. n -> Nat] : Begins(from, f)
  BY BeginsExist, Zenon
<1> DEFINE b == [at |-> 1, first |-> 1, p |-> 1, q |-> 1, shown |-> << >>]
           After(k) == FormatState(f, cum, take, from, k)
           h == [k \in 0 .. n |-> After(k)]
           Body(g) == [k \in 0 .. n |->
                         IF k = 0 THEN b
                         ELSE IF f[k].type = "O" THEN FormatObject(f, g[k - 1])
                         ELSE FormatOther(f, g[k - 1])]
<1>2. n \in Nat /\ 0 \in 0 .. n /\ n \in 0 .. n
  OBVIOUS
<1>3. After(0) = b
  <2>1. from[0] = 1 /\ cum[0] = 0 /\ take[0] = 0
    BY <1>1, Zenon DEF Begins, Counts, Walked, Sums
  <2>2. ShownArgs(f, cum, 1, 1 - 1) = << >>
    BY DEF ShownArgs
  <2>3. cum[1 - 1] + 1 = 1 /\ take[0] + 1 = 1
    BY <2>1
  <2>4. QED
    BY <2>1, <2>2, <2>3 DEF FormatState
<1>4. ASSUME NEW k \in 1 .. n PROVE FormatStep(f, After(k - 1), k) = After(k)
  BY <1>1, FormatStepIs, Zenon
<1> HIDE DEF n, b, After
<1>5. h = Body(h)
  <2>1. \A k \in 0 .. n :
          After(k) = IF k = 0 THEN b
                     ELSE IF f[k].type = "O" THEN FormatObject(f, h[k - 1])
                     ELSE FormatOther(f, h[k - 1])
    <3> TAKE k \in 0 .. n
    <3>1. k = 0 \/ (k \in 1 .. n /\ k - 1 \in 0 .. n /\ k # 0)
      BY <1>2
    <3>2. QED
      BY <3>1, <1>3, <1>4, Zenon DEF FormatStep
  <2>2. QED
    BY <2>1, Zenon
<1> HIDE DEF h, Body
<1>6. PICK g : /\ g = Body(g)
               /\ Vformat(f) = g[n].shown \o Vsnprintf(f, g[n].first, n, g[n].p)
  <2> DEFINE c == CHOOSE g : g = Body(g)
  <2>1. c = Body(c)
    BY <1>5, Zenon
  <2>2. Vformat(f) = c[n].shown \o Vsnprintf(f, c[n].first, n, c[n].p)
    BY Zenon DEF Vformat, Body, b, n
  <2> HIDE DEF c
  <2>3. QED
    BY <2>1, <2>2, Zenon
<1>7. \A k \in 0 .. n : g[k] = IF k = 0 THEN b
                               ELSE IF f[k].type = "O" THEN FormatObject(f, g[k - 1])
                               ELSE FormatOther(f, g[k - 1])
  BY <1>6, Zenon DEF Body
<1>8. \A k \in 0 .. n : h[k] = IF k = 0 THEN b
                               ELSE IF f[k].type = "O" THEN FormatObject(f, h[k - 1])
                               ELSE FormatOther(f, h[k - 1])
  BY <1>5, Zenon DEF Body
<1>9. g[0] = h[0]
  BY <1>2, <1>7, <1>8, Zenon
<1>10. Follows(g, h, n)
  <2> SUFFICES ASSUME NEW k \in 1 .. n PROVE g[k - 1] = h[k - 1] => g[k] = h[k]
    BY Zenon DEF Follows
  <2>1. k \in 0 .. n /\ k # 0
    BY <1>2
  <2>2. QED
    BY <2>1, <1>7, <1>8, Zenon
<1>11. g[n] = h[n]
  BY <1>9, <1>10, <1>2, SameSteps, Zenon
<1>12. h[n] = FormatState(f, cum, take, from, n)
  BY <1>2, Zenon DEF h, After
<1> DEFINE a == from[n]
<1>13. /\ g[n].shown = ShownArgs(f, cum, 1, a - 1)
       /\ g[n].first = a
       /\ g[n].p = cum[a - 1] + 1
  BY <1>11, <1>12 DEF FormatState
<1>14. a \in Nat
  BY <1>1, <1>2
<1>15. 1 <= a /\ a <= n + 1
  BY <1>1, <1>2, Zenon DEF Begins, n
<1>16. n <= Len(f) /\ n \in Nat
  BY <1>2 DEF n
<1>20. \A i \in a .. n : cum[i] = cum[i - 1] + Needs(f[i])
  <2> TAKE i \in a .. n
  <2>1. i \in 1 .. Len(f)
    BY <1>14, <1>15, <1>16 DEF n
  <2>2. f[i].type # "O"
    BY <1>1, <1>2, Zenon DEF Begins, n
  <2>3. QED
    BY <2>1, <2>2, Zenon DEF Counts
<1> HIDE DEF a
<1>17. Vsnprintf(f, a, n, cum[a - 1] + 1) = ShownArgs(f, cum, a, n)
  BY <1>14, <1>15, <1>16, <1>20, VsnprintfShows, Zenon
<1>18. ShownArgs(f, cum, 1, a - 1) \o ShownArgs(f, cum, a, n) = ShownArgs(f, cum, 1, n)
  BY <1>14, <1>15, <1>16, ShownJoined, Zenon
<1>19. QED
  BY <1>6, <1>13, <1>17, <1>18, Zenon DEF n

\* The inductive invariant: a format is a sequence of its parts.
FormatHeld == fmt \in Seq(Parts)

\* The arguments that are needed and those that ap_q takes differ if something was
\* not counted.
LEMMA CountedUpTo ==
  ASSUME NEW f, Len(f) \in Nat, \A k \in 1 .. Len(f) : IsPart(f[k]),
         NEW need \in [0 .. Len(f) -> Nat], Needed(need, f),
         NEW take \in [0 .. Len(f) -> Nat], Walked(take, f),
         NEW j \in 0 .. Len(f)
  PROVE  IF \A k \in 1 .. j : Counted(f[k]) THEN take[j] = need[j] ELSE take[j] < need[j]
<1> DEFINE All(i) == \A k \in 1 .. i : Counted(f[k])
           Right(i) == (All(i) /\ take[i] = need[i]) \/ (~All(i) /\ take[i] < need[i])
           n == Len(f)
           G == {i \in 0 .. n : Right(i)}
<1>1. 0 \in G
  BY DEF Needed, Walked, Sums
<1>2. ASSUME NEW i \in 1 .. n, i - 1 \in G PROVE i \in G
  <2>1. i \in 0 .. n /\ i - 1 \in 0 .. n /\ Right(i - 1)
    BY <1>2
  <2>2. need[i] = need[i - 1] + Needs(f[i]) /\ take[i] = take[i - 1] + Takes(f[i])
    BY DEF Needed, Walked, Sums
  <2>3. need[i - 1] \in Nat /\ take[i - 1] \in Nat
    BY <2>1
  <2>4. /\ Needs(f[i]) \in Nat /\ Takes(f[i]) \in Nat /\ Takes(f[i]) <= Needs(f[i])
        /\ Takes(f[i]) = Needs(f[i]) <=> Counted(f[i])
    BY NeedsNat, TakesAll, Zenon
  <2>5. All(i) <=> All(i - 1) /\ Counted(f[i])
    <3>1. \A k \in 1 .. i : k = i \/ k \in 1 .. i - 1
      OBVIOUS
    <3>2. i \in 1 .. i /\ \A k \in 1 .. i - 1 : k \in 1 .. i
      OBVIOUS
    <3>3. QED
      BY <3>1, <3>2, Zenon
  <2> HIDE DEF All
  <2>6. Right(i)
    BY <2>1, <2>2, <2>3, <2>4, <2>5
  <2>7. QED
    BY <2>1, <2>6
<1> HIDE DEF G
<1>3. \A i \in 0 .. n : i \in G
  BY <1>1, <1>2, AllSteps, Zenon
<1>4. Right(j)
  BY <1>3 DEF G
<1>5. QED
  BY <1>4

\* Part j is the last object up to part i, or there is none.
LastObject(f, j, i) ==
  /\ j = 0 \/ f[j].type = "O"
  /\ \A k \in j + 1 .. i : f[k].type # "O"

\* What part i shows is behind its own argument as far as what is taken up to part j.
AsFarBehind(need, take, cum, j, i) == need[i] - cum[i] = need[j] - take[j]

\* What a part shows is behind its own argument by what was not counted up to the
\* last object.
LEMMA ShownBehind ==
  ASSUME NEW f, Len(f) \in Nat,
         NEW need \in [0 .. Len(f) -> Nat], Needed(need, f),
         NEW take \in [0 .. Len(f) -> Nat], Walked(take, f),
         NEW cum \in [0 .. Len(f) -> Nat], Counts(cum, take, f),
         NEW j \in 0 .. Len(f), NEW i \in 0 .. Len(f), j <= i, LastObject(f, j, i)
  PROVE  AsFarBehind(need, take, cum, j, i)
<1> DEFINE n == i - j
           G == {k \in 0 .. n : need[j + k] - cum[j + k] = need[j] - take[j]}
<1>1. n \in Nat
  OBVIOUS
<1>2. 0 \in G
  <2>1. cum[j] = take[j]
    BY DEF Counts, Walked, Sums, LastObject
  <2>2. j + 0 = j /\ 0 \in 0 .. n
    OBVIOUS
  <2>3. QED
    BY <2>1, <2>2
<1>3. ASSUME NEW k \in 1 .. n, k - 1 \in G PROVE k \in G
  <2> DEFINE m == j + k
  <2>0. Len(f) \in Nat /\ j \in Nat /\ i \in Nat /\ i <= Len(f) /\ k \in Nat /\ 1 <= k /\ k <= i - j
    OBVIOUS
  <2>1. /\ m \in 1 .. Len(f) /\ m \in j + 1 .. i /\ j + (k - 1) = m - 1
        /\ m \in 0 .. Len(f) /\ m - 1 \in 0 .. Len(f) /\ k \in 0 .. n
    BY <2>0
  <2>2. need[m - 1] - cum[m - 1] = need[j] - take[j]
    BY <1>3, <2>1
  <2> HIDE DEF m
  <2>3. cum[m] = cum[m - 1] + Needs(f[m])
    BY <2>1, Zenon DEF Counts, LastObject
  <2>4. need[m] = need[m - 1] + Needs(f[m])
    BY <2>1 DEF Needed, Sums
  <2>5. need[m - 1] \in Nat /\ cum[m - 1] \in Nat /\ need[j] \in Nat /\ take[j] \in Nat
    BY <2>1
  <2>6. Needs(f[m]) \in Nat
    BY NeedsNat, Zenon
  <2>7. need[m] - cum[m] = need[j] - take[j]
    BY <2>2, <2>3, <2>4, <2>5, <2>6
  <2>8. QED
    BY <2>1, <2>7 DEF m
<1> HIDE DEF G
<1>4. \A k \in 0 .. n : k \in G
  BY <1>1, <1>2, <1>3, AllSteps, Zenon
<1>5. n \in 0 .. n /\ j + n = i
  OBVIOUS
<1>6. QED
  BY <1>4, <1>5 DEF G, AsFarBehind

\* Then the property holds.
LEMMA FormatHeldShows ==
  ASSUME FormatHeld
  PROVE  FormatTakesArgs
<1> DEFINE n == Len(fmt)
           D == 0 .. n
<1>1. n \in Nat /\ fmt \in Seq(Parts) /\ DOMAIN fmt = 1 .. n
  BY LenProperties DEF FormatHeld
<1>2. \A k \in 1 .. n : IsPart(fmt[k])
  BY <1>1, ElementOfSeq, ValuesAssumption
<1>3. PICK need \in [0 .. n -> Nat] : Needed(need, fmt)
  <2>1. [k \in 1 .. n |-> Needs(fmt[k])] \in [1 .. n -> Nat]
    BY NeedsNat
  <2>2. QED
    BY <1>1, <2>1, SumsExist, Zenon DEF Needed
<1>4. PICK take \in [0 .. n -> Nat] : Walked(take, fmt)
  <2>1. [k \in 1 .. n |-> Takes(fmt[k])] \in [1 .. n -> Nat]
    BY NeedsNat
  <2>2. QED
    BY <1>1, <2>1, SumsExist, Zenon DEF Walked
<1>5. PICK cum \in [0 .. n -> Nat] : Counts(cum, take, fmt)
  BY <1>1, CountsExist, Zenon
<1>6. Vformat(fmt) = ShownArgs(fmt, cum, 1, n)
  BY <1>1, <1>2, <1>4, <1>5, VformatShows, Zenon
<1>7. need[0] = 0 /\ \A k \in 1 .. n : need[k] = need[k - 1] + Needs(fmt[k])
  BY <1>3 DEF Needed, Sums
<1> HIDE DEF n
<1> DEFINE Body(g) == [i \in D |-> IF i = 0 THEN 0 ELSE g[i - 1] + Needs(fmt[i])]
           own == CHOOSE g : g = Body(g)
<1>8. need = Body(need)
  <2>1. \A i \in D : need[i] = IF i = 0 THEN 0 ELSE need[i - 1] + Needs(fmt[i])
    <3> TAKE i \in D
    <3>1. i = 0 \/ (i # 0 /\ i \in 1 .. n)
      BY <1>1
    <3>2. QED
      BY <1>7, <3>1, Zenon
  <2>2. need = [i \in D |-> need[i]]
    OBVIOUS
  <2> HIDE DEF D
  <2>3. QED
    BY <2>1, <2>2, Zenon
<1> HIDE DEF Body
<1>9. own = Body(own)
  BY <1>8, Zenon
<1> HIDE DEF own
<1>10. \A k \in 0 .. n : own[k] = need[k]
  <2>1. \A i \in D : own[i] = IF i = 0 THEN 0 ELSE own[i - 1] + Needs(fmt[i])
    BY <1>9, Zenon DEF Body
  <2> DEFINE G == {k \in 0 .. n : own[k] = need[k]}
  <2>2. 0 \in G
    BY <1>1, <1>7, <2>1
  <2>3. ASSUME NEW k \in 1 .. n, k - 1 \in G PROVE k \in G
    <3>1. k \in 0 .. n /\ k # 0 /\ own[k - 1] = need[k - 1]
      BY <1>1, <2>3
    <3>2. own[k] = need[k]
      BY <1>7, <2>1, <3>1, Zenon
    <3>3. QED
      BY <3>1, <3>2
  <2> HIDE DEF G
  <2>4. \A k \in 0 .. n : k \in G
    BY <1>1, <2>2, <2>3, AllSteps, Zenon
  <2>5. QED
    BY <2>4 DEF G
<1> HIDE DEF D
<1>11. ASSUME NEW i \in DOMAIN fmt, NEW j \in 0 .. Len(fmt), fmt[i] # Literal, IsLastObject(j, i)
       PROVE  IF \A k \in 1 .. j : Counted(fmt[k]) THEN Vformat(fmt)[i] = own[i]
              ELSE fmt[i].type \notin DoubleTypes => Vformat(fmt)[i] < own[i]
  <2>1. i \in 1 .. n /\ j \in 0 .. n /\ i \in 0 .. n /\ j <= i /\ i \in j .. n
    BY <1>1, <1>11 DEF n, IsLastObject
  <2>2. Vformat(fmt)[i] = cum[i]
    <3>1. ShownArgs(fmt, cum, 1, n)[i] = ShownAt(fmt, cum, i)
      BY <1>1, <2>1 DEF ShownArgs
    <3>2. Arg(fmt[i]) # 0
      BY <1>2, <1>11, <2>1, TakesAll, Zenon
    <3>3. QED
      BY <1>6, <3>1, <3>2, Zenon DEF ShownAt
  <2>3. need[i] - cum[i] = need[j] - take[j]
    <3>1. LastObject(fmt, j, i)
      BY <1>11, Zenon DEF IsLastObject, LastObject
    <3>2. /\ Len(fmt) \in Nat /\ need \in [0 .. Len(fmt) -> Nat] /\ Needed(need, fmt)
          /\ take \in [0 .. Len(fmt) -> Nat] /\ Walked(take, fmt)
          /\ cum \in [0 .. Len(fmt) -> Nat] /\ Counts(cum, take, fmt)
          /\ j \in 0 .. Len(fmt) /\ i \in 0 .. Len(fmt) /\ j <= i
      BY <1>1, <1>3, <1>4, <1>5, <2>1, Zenon DEF n
    <3>3. AsFarBehind(need, take, cum, j, i)
      BY <3>1, <3>2, ShownBehind, Zenon
    <3>4. QED
      BY <3>3 DEF AsFarBehind
  <2>4. IF \A k \in 1 .. j : Counted(fmt[k]) THEN take[j] = need[j] ELSE take[j] < need[j]
    BY <1>1, <1>2, <1>3, <1>4, <2>1, CountedUpTo, Zenon DEF n
  <2>5. need[i] \in Nat /\ cum[i] \in Nat /\ need[j] \in Nat /\ take[j] \in Nat /\ own[i] = need[i]
    BY <1>10, <2>1
  <2> DEFINE all == \A k \in 1 .. j : Counted(fmt[k])
  <2> HIDE DEF all
  <2>6. /\ take[j] = need[j] => cum[i] = own[i]
        /\ take[j] < need[j] => cum[i] < own[i]
    BY <2>3, <2>5
  <2>7. QED
    BY <2>2, <2>4, <2>6, Zenon
<1>12. QED
  BY <1>11, Zenon DEF FormatTakesArgs, own, Body, D, n

\* A part more, or none, keeps it.
LEMMA FormatHeldNext ==
  ASSUME FormatHeld, [Next]_vars
  PROVE  FormatHeld'
<1>1. CASE UNCHANGED fmt
  BY <1>1 DEF FormatHeld
<1>2. CASE FormatChange
  <2>1. CASE \E part \in Parts : fmt' = Append(fmt, part)
    BY <2>1, AppendProperties DEF FormatHeld
  <2>2. CASE fmt' = << >>
    BY <2>2, EmptySeq DEF FormatHeld
  <2>3. QED
    BY <1>2, <2>1, <2>2, Zenon DEF FormatChange
<1>3. CASE StrChange
  BY <1>1, <1>3 DEF StrChange
<1>4. CASE PathChange
  BY <1>1, <1>4 DEF PathChange
<1>5. CASE IpChange
  BY <1>1, <1>5 DEF IpChange
<1>6. CASE UNCHANGED vars
  BY <1>1, <1>6 DEF vars
<1>7. QED
  BY <1>2, <1>3, <1>4, <1>5, <1>6 DEF Next

\* In a format of any parts, in any order and number, every directive shows its own
\* argument, also behind an object, unless a directive that the second walk does not
\* count stands in front of the last object up to it; then the object, and all behind
\* it but doubles, show an argument that stands before their own (print.c:112-305).
THEOREM FormatArgsTaken == Spec => []FormatTakesArgs
<1>1. Init => FormatHeld
  BY EmptySeq DEF Init, FormatHeld
<1>2. FormatHeld /\ [Next]_vars => FormatHeld'
  BY FormatHeldNext
<1>3. FormatHeld => FormatTakesArgs
  BY FormatHeldShows
<1>4. QED
  BY <1>1, <1>2, <1>3, PTL DEF Spec

-----------------------------------------------------------------------------
\* What is written into a buffer that has room, where n bytes fit.
EmittedDest(d, len, chars, n) ==
  [i \in 0 .. len + n |->
     IF i < len THEN d[i] ELSE IF i = len + n THEN NUL ELSE chars[i - len + 1]]

\* A buffer of which len bytes are written, or nothing yet.
Begun(d, len) == DOMAIN d \cup {len} = 0 .. len

\* The length and the size of a buffer, and how many bytes of a text it has room for.
HasLen(w, len, size) == w.len = len /\ w.size = size
Room(n, len, size, chars) == n = IF Len(chars) < size - len THEN Len(chars) ELSE size - len - 1

\* The length grows by what is written, and the size stays.
LEMMA EmitParts ==
  ASSUME NEW w, NEW chars
  PROVE  /\ Emit(w, chars).len = w.len + Len(chars)
         /\ Emit(w, chars).size = w.size
BY DEF Emit

EmitsTo(w, len, chars, n) == Emit(w, chars).dest = EmittedDest(w.dest, len, chars, n)

\* With room left, everything that fits is written behind what is there.
LEMMA EmitWithRoom ==
  ASSUME NEW w, NEW len \in Nat, NEW size \in Nat, NEW chars, NEW n \in Nat,
         HasLen(w, len, size), Len(chars) \in Nat, len < size, Room(n, len, size, chars),
         Begun(w.dest, len)
  PROVE  EmitsTo(w, len, chars, n)
<1> DEFINE d == w.dest
           D == DOMAIN d \cup (len .. len + n)
<1>1. D = 0 .. len + n
  <2>1. len .. len + n = {len} \cup (len + 1 .. len + n)
    OBVIOUS
  <2>2. D = (DOMAIN d \cup {len}) \cup (len + 1 .. len + n)
    BY <2>1
  <2>3. DOMAIN d \cup {len} = 0 .. len
    BY Zenon DEF Begun
  <2>4. QED
    BY <2>2, <2>3
<1>2. Emit(w, chars).dest
        = [i \in D |-> IF i < len \/ i > len + n THEN d[i]
                       ELSE IF i = len + n THEN NUL ELSE chars[i - len + 1]]
  BY DEF Emit, HasLen, Room
<1> HIDE DEF D, d
<1>3. \A i \in 0 .. len + n :
        (IF i < len \/ i > len + n THEN d[i]
         ELSE IF i = len + n THEN NUL ELSE chars[i - len + 1])
          = IF i < len THEN d[i] ELSE IF i = len + n THEN NUL ELSE chars[i - len + 1]
  OBVIOUS
<1>4. QED
  BY <1>1, <1>2, <1>3, Zenon DEF EmittedDest, EmitsTo, d

\* Nothing is written into a buffer that is full.
LEMMA EmitFullBuffer ==
  ASSUME NEW w, NEW len \in Nat, NEW size \in Nat, NEW chars,
         HasLen(w, len, size), Len(chars) \in Nat, len >= size, size > 0,
         IsBlock(w.dest, 0 .. size - 1)
  PROVE  Emit(w, chars).dest = w.dest
<1> DEFINE d == w.dest
           n == size - len - 1
           D == DOMAIN d \cup (len .. len + n)
<1>1. len .. len + n = {}
  OBVIOUS
<1>2. DOMAIN d = 0 .. size - 1
  BY DEF IsBlock
<1>3. D = 0 .. size - 1
  BY <1>1, <1>2
<1>4. ~(Len(chars) < size - len)
  OBVIOUS
<1>5. Emit(w, chars).dest
        = [i \in D |-> IF i < len \/ i > len + n THEN d[i]
                       ELSE IF i = len + n THEN NUL ELSE chars[i - len + 1]]
  BY <1>4 DEF Emit, HasLen
<1> HIDE DEF D, d
<1>6. \A i \in 0 .. size - 1 :
        (IF i < len \/ i > len + n THEN d[i]
         ELSE IF i = len + n THEN NUL ELSE chars[i - len + 1]) = d[i]
  OBVIOUS
<1>7. d = [i \in 0 .. size - 1 |-> d[i]]
  BY Zenon DEF d, IsBlock
<1>8. QED
  BY <1>3, <1>5, <1>6, <1>7, Zenon DEF d

\* What is in a buffer of a size, when d is in a larger one.
CutDest(d, len, size) ==
  [i \in 0 .. (IF len < size THEN len ELSE size - 1) |->
     IF i = (IF len < size THEN len ELSE size - 1) THEN NUL ELSE d[i]]

\* The same was written to a buffer that is large enough and to one of a size.
SameWritten(w, c, len, whole, size) ==
  /\ w.len = len /\ w.size = whole /\ Begun(w.dest, len)
  /\ c.len = len /\ c.size = size
  /\ len < size => Begun(c.dest, len) /\ \A i \in 0 .. len - 1 : c.dest[i] = w.dest[i]
  /\ len >= size => c.dest = CutDest(w.dest, len, size)

SameDest(w, c, len, size) == c.dest = CutDest(w.dest, len, size)

\* What is written next is the same in both buffers.
LEMMA EmitSame ==
  ASSUME NEW w, NEW c, NEW len \in Nat, NEW whole \in Nat, NEW size \in Nat, NEW chars,
         SameWritten(w, c, len, whole, size), size > 0,
         Len(chars) \in Nat, len + Len(chars) < whole
  PROVE  /\ SameWritten(Emit(w, chars), Emit(c, chars), len + Len(chars), whole, size)
         /\ SameDest(Emit(w, chars), Emit(c, chars), len + Len(chars), size)
<1> DEFINE L == Len(chars)
           to == len + L
           d == Emit(w, chars).dest
           e == Emit(c, chars).dest
<1>1. L \in Nat /\ to \in Nat /\ len < whole /\ to < whole /\ L < whole - len /\ len <= to
  OBVIOUS
<1>2. w.len = len /\ w.size = whole /\ Begun(w.dest, len) /\ c.len = len /\ c.size = size
  BY Zenon DEF SameWritten
<1>3. HasLen(w, len, whole) /\ HasLen(c, len, size)
  BY <1>2, Zenon DEF HasLen
<1>4. Begun(w.dest, len)
  BY Zenon DEF SameWritten
<1>5. /\ Emit(w, chars).len = to /\ Emit(w, chars).size = whole
      /\ Emit(c, chars).len = to /\ Emit(c, chars).size = size
  BY <1>2, EmitParts
<1> HIDE DEF L
<1>6. d = EmittedDest(w.dest, len, chars, L)
  <2>1. Room(L, len, whole, chars)
    BY <1>1 DEF L, Room
  <2>2. Len(chars) \in Nat
    OBVIOUS
  <2>3. EmitsTo(w, len, chars, L)
    BY <1>1, <1>3, <1>4, <2>1, <2>2, EmitWithRoom, Zenon
  <2>4. QED
    BY <2>3, Zenon DEF EmitsTo, d
<1> HIDE DEF d, e
<1>7. DOMAIN d = 0 .. to
  BY <1>6 DEF EmittedDest
<1>8. \A i \in 0 .. to : d[i] = IF i < len THEN w.dest[i]
                               ELSE IF i = to THEN NUL ELSE chars[i - len + 1]
  BY <1>6, Zenon DEF EmittedDest
<1>9. e = CutDest(d, to, size)
  <2>1. CASE len < size
    <3> DEFINE n == IF L < size - len THEN L ELSE size - len - 1
    <3>1. n \in Nat
      BY <1>1, <2>1
    <3>2. Room(n, len, size, chars)
      BY DEF L, Room
    <3>3. Begun(c.dest, len) /\ \A i \in 0 .. len - 1 : c.dest[i] = w.dest[i]
      BY <2>1, Zenon DEF SameWritten
    <3>4. len + n = IF to < size THEN to ELSE size - 1
      BY <1>1, <2>1
    <3> HIDE DEF n
    <3>5. e = EmittedDest(c.dest, len, chars, n)
      <4>1. EmitsTo(c, len, chars, n)
        BY <1>3, <2>1, <3>1, <3>2, <3>3, EmitWithRoom, Zenon
      <4>2. QED
        BY <4>1, Zenon DEF EmitsTo, e
    <3> DEFINE m == len + n
    <3>6. e = [i \in 0 .. m |-> IF i < len THEN c.dest[i]
                                ELSE IF i = m THEN NUL ELSE chars[i - len + 1]]
      BY <3>5, Zenon DEF EmittedDest
    <3>7. m \in Nat /\ m <= to /\ len <= m
      BY <1>1, <3>1, <3>4
    <3> HIDE DEF m
    <3>8. CutDest(d, to, size) = [i \in 0 .. m |-> IF i = m THEN NUL ELSE d[i]]
      BY <3>4, Zenon DEF CutDest, m
    <3>9. \A i \in 0 .. m :
            (IF i < len THEN c.dest[i] ELSE IF i = m THEN NUL ELSE chars[i - len + 1])
              = IF i = m THEN NUL ELSE d[i]
      <4> TAKE i \in 0 .. m
      <4>1. CASE i < len
        <5>1. i \in 0 .. len - 1 /\ i \in 0 .. to /\ i # m
          BY <1>1, <3>7, <4>1
        <5>2. c.dest[i] = w.dest[i] /\ d[i] = w.dest[i]
          BY <1>8, <3>3, <4>1, <5>1
        <5>3. QED
          BY <4>1, <5>1, <5>2
      <4>2. CASE ~(i < len) /\ i # m
        <5>1. i \in 0 .. to /\ i # to
          BY <1>1, <3>7, <4>2
        <5>2. d[i] = chars[i - len + 1]
          BY <1>8, <4>2, <5>1
        <5>3. QED
          BY <4>2, <5>2
      <4>3. CASE ~(i < len) /\ i = m
        BY <4>3
      <4>4. QED
        BY <4>1, <4>2, <4>3
    <3>10. QED
      BY <3>6, <3>8, <3>9, Zenon
  <2>2. CASE len >= size
    <3>1. c.dest = CutDest(w.dest, len, size)
      BY <2>2, Zenon DEF SameWritten
    <3>2. ~(len < size) /\ ~(to < size)
      BY <1>1, <2>2
    <3>3. c.dest = [i \in 0 .. size - 1 |-> IF i = size - 1 THEN NUL ELSE w.dest[i]]
      BY <3>1, <3>2, Zenon DEF CutDest
    <3>4. IsBlock(c.dest, 0 .. size - 1)
      BY <3>3 DEF IsBlock
    <3>5. Len(chars) \in Nat
      OBVIOUS
    <3>6. e = c.dest
      BY <1>3, <2>2, <3>4, <3>5, EmitFullBuffer, Zenon DEF e
    <3>7. \A i \in 0 .. size - 1 : i # size - 1 => w.dest[i] = d[i]
      BY <1>1, <1>8, <2>2
    <3>8. c.dest = [i \in 0 .. size - 1 |-> IF i = size - 1 THEN NUL ELSE d[i]]
      BY <3>3, <3>7
    <3>9. QED
      BY <3>2, <3>6, <3>8, Zenon DEF CutDest
  <2>3. QED
    BY <2>1, <2>2
<1>10. Begun(d, to)
  BY <1>1, <1>7 DEF Begun
<1>11. to < size => Begun(e, to) /\ \A i \in 0 .. to - 1 : e[i] = d[i]
  <2>1. SUFFICES ASSUME to < size
                 PROVE  Begun(e, to) /\ \A i \in 0 .. to - 1 : e[i] = d[i]
    OBVIOUS
  <2>2. e = [i \in 0 .. to |-> IF i = to THEN NUL ELSE d[i]]
    BY <1>9, <2>1, Zenon DEF CutDest
  <2>3. Begun(e, to)
    BY <1>1, <2>2 DEF Begun
  <2> HIDE DEF to
  <2>4. \A i \in 0 .. to - 1 : e[i] = d[i]
    BY <1>1, <2>2
  <2>5. QED
    BY <2>3, <2>4
<1>12. QED
  BY <1>5, <1>9, <1>10, <1>11, Zenon DEF SameWritten, SameDest, L, d, e

\* The writing of a text: what is in the buffer behind each byte.
Quote == <<"\"">>
Opened(size) == Emit(Buffer(size), Quote)
IsRun(g, text0, size, n) ==
  g = [k \in 0 .. n |-> IF k = 0 THEN Opened(size) ELSE Emit(g[k - 1], ReprPiece(text0, k))]

\* cstr_repr can write the pieces of a text one by one.
LEMMA RunExists ==
  ASSUME NEW t, NEW size, NEW n \in Nat
  PROVE  \E g : IsRun(g, t, size, n)
<1> DEFINE b == Opened(size)
           E(m, k) == Emit(m, ReprPiece(t, k))
           Is(g, k) == g = [i \in 0 .. k |-> IF i = 0 THEN b ELSE E(g[i - 1], i)]
           G == {k \in 0 .. n : \E g : Is(g, k)}
<1> HIDE DEF b, E
<1>1. 0 \in G
  <2> DEFINE g == [i \in 0 .. 0 |-> b]
  <2>1. Is(g, 0)
    <3>1. \A i \in 0 .. 0 : b = IF i = 0 THEN b ELSE E(g[i - 1], i)
      OBVIOUS
    <3>2. QED
      BY <3>1, Zenon
  <2>2. 0 \in 0 .. n
    OBVIOUS
  <2>3. QED
    BY <2>1, <2>2, Zenon
<1>2. ASSUME NEW k \in 1 .. n, k - 1 \in G PROVE k \in G
  <2>1. PICK g : Is(g, k - 1)
    BY <1>2, Zenon
  <2> DEFINE h == [i \in 0 .. k |-> IF i = k THEN E(g[k - 1], k) ELSE g[i]]
  <2>2. \A i \in 0 .. k - 1 : g[i] = IF i = 0 THEN b ELSE E(g[i - 1], i)
    BY <2>1, Zenon
  <2>3. \A i \in 0 .. k : h[i] = IF i = k THEN E(g[k - 1], k) ELSE g[i]
    BY Zenon
  <2> DEFINE F(i) == IF i = 0 THEN b ELSE E(h[i - 1], i)
  <2>4. \A i \in 0 .. k : h[i] = F(i)
    <3> TAKE i \in 0 .. k
    <3>1. CASE i = k
      <4>1. k # 0 /\ k - 1 \in 0 .. k /\ k - 1 # k
        OBVIOUS
      <4>2. h[k - 1] = g[k - 1]
        BY <2>3, <4>1, Zenon
      <4>3. h[k] = E(g[k - 1], k)
        BY <2>3, <3>1, Zenon
      <4>4. QED
        BY <3>1, <4>1, <4>2, <4>3, Zenon
    <3>2. CASE i # k
      <4>1. i \in 0 .. k - 1
        BY <3>2
      <4>2. h[i] = g[i]
        BY <2>3, <3>2, Zenon
      <4>3. CASE i = 0
        BY <2>2, <4>1, <4>2, <4>3, Zenon
      <4>4. CASE i # 0
        <5>1. i - 1 \in 0 .. k /\ i - 1 # k
          BY <4>1, <4>4
        <5>2. h[i - 1] = g[i - 1]
          BY <2>3, <5>1, Zenon
        <5>3. QED
          BY <2>2, <4>1, <4>2, <4>4, <5>2, Zenon
      <4>5. QED
        BY <4>3, <4>4
    <3>3. QED
      BY <3>1, <3>2
  <2>5. h = [i \in 0 .. k |-> h[i]]
    BY Zenon
  <2> HIDE DEF h
  <2>6. Is(h, k)
    BY <2>4, <2>5, Zenon
  <2>7. k \in 0 .. n
    OBVIOUS
  <2>8. QED
    BY <2>6, <2>7, Zenon
<1> HIDE DEF G
<1>3. \A k \in 0 .. n : k \in G
  BY <1>1, <1>2, AllSteps, Zenon
<1>4. n \in 0 .. n
  OBVIOUS
<1>5. PICK g : Is(g, n)
  BY <1>3, <1>4, Zenon DEF G
<1>6. QED
  BY <1>5, Zenon DEF b, E, IsRun

\* What it writes is such a run, and the closing mark.
LEMMA ReprRun ==
  ASSUME NEW t, NEW size, Len(t) \in Nat
  PROVE  \E g : IsRun(g, t, size, Len(t)) /\ Repr(t, size) = Emit(g[Len(t)], Quote)
<1> DEFINE n == Len(t)
           b == Opened(size)
           E(m, k) == Emit(m, ReprPiece(t, k))
<1>1. PICK h : IsRun(h, t, size, n)
  BY RunExists, Zenon
<1> HIDE DEF n
<1>2. h = [k \in 0 .. n |-> IF k = 0 THEN b ELSE E(h[k - 1], k)]
  BY <1>1, Zenon DEF IsRun
<1>3. Repr(t, size) = Emit(Loop(n, b, E), Quote)
  BY Zenon DEF Repr, n, Opened, Quote
<1> HIDE DEF b, E
<1>4. PICK g : /\ g = [k \in 0 .. n |-> IF k = 0 THEN b ELSE E(g[k - 1], k)]
               /\ Loop(n, b, E) = g[n]
  BY <1>2, Zenon DEF Loop
<1>5. IsRun(g, t, size, n)
  BY <1>4, Zenon DEF IsRun, b, E
<1>6. QED
  BY <1>3, <1>4, <1>5, Zenon DEF n

\* No byte is written by more than four.
LEMMA PieceShort ==
  ASSUME NEW t \in Seq(Bytes), NEW k \in 1 .. Len(t)
  PROVE  Len(ReprPiece(t, k)) \in 0 .. 4
<1>1. t[k] \in Printable \cup {"\n", CTL, LEAD, CONT}
  BY ElementOfSeq, ValuesAssumption
<1>2. CASE Continued(t, k)
  BY <1>2 DEF ReprPiece
<1>3. CASE ~Continued(t, k) /\ t[k] \in {"\"", "\\", "\n"}
  <2>1. ReprPiece(t, k) = <<"\\", ReprLetter(t[k])>>
    BY <1>3, Zenon DEF ReprPiece
  <2> DEFINE x == ReprLetter(t[k])
             y == "\\"
  <2> HIDE DEF x, y
  <2>2. Len(<<y, x>>) = 2
    OBVIOUS
  <2>3. QED
    BY <2>1, <2>2 DEF x, y
<1>4. CASE ~Continued(t, k) /\ t[k] \notin {"\"", "\\", "\n"} /\ t[k] \in Printable
  <2>1. ReprPiece(t, k) = <<t[k]>>
    BY <1>4, Zenon DEF ReprPiece
  <2>2. QED
    BY <2>1
<1>5. CASE ~Continued(t, k) /\ t[k] \notin {"\"", "\\", "\n"} /\ t[k] \notin Printable
  <2>1. t[k] \in {CTL, LEAD, CONT}
    BY <1>1, <1>5
  <2>2. CASE Utf8Len(t, k) > 1
    <3>1. Utf8Len(t, k) = 2 /\ k < Len(t)
      BY <2>2 DEF Utf8Len
    <3>2. ReprPiece(t, k) = SubSeq(t, k, k + 2 - 1)
      BY <1>5, <2>2, <3>1, Zenon DEF ReprPiece
    <3>3. k + 2 - 1 \in 1 .. Len(t) /\ Len(t) \in Nat
      BY <3>1, LenProperties
    <3>4. Len(SubSeq(t, k, k + 2 - 1)) = 2
      BY <3>3, SubSeqProperties
    <3>5. QED
      BY <3>2, <3>4
  <2>3. CASE ~(Utf8Len(t, k) > 1)
    <3>1. ReprPiece(t, k) = <<"\\", "x">> \o Hex(t[k])
      BY <1>5, <2>3, Zenon DEF ReprPiece
    <3>2. PICK c, d : Hex(t[k]) = <<c, d>>
      <4>1. CTL # LEAD /\ CTL # CONT /\ LEAD # CONT
        BY DEF CTL, LEAD, CONT
      <4>2. CASE t[k] = CTL
        BY <4>1, <4>2, Zenon DEF Hex
      <4>3. CASE t[k] = LEAD
        BY <4>1, <4>3, Zenon DEF Hex
      <4>4. CASE t[k] = CONT
        BY <4>1, <4>4, Zenon DEF Hex
      <4>5. QED
        BY <2>1, <4>2, <4>3, <4>4, Zenon
    <3> DEFINE x == "x"
               y == "\\"
    <3> HIDE DEF x, y
    <3>3. Len(<<y, x>> \o <<c, d>>) = 4
      <4> DEFINE S == {x, y, c, d}
                 u == <<y, x>>
                 v == <<c, d>>
      <4>1. u \in Seq(S) /\ v \in Seq(S) /\ Len(u) = 2 /\ Len(v) = 2
        OBVIOUS
      <4> HIDE DEF u, v, S
      <4>2. u \in Seq(S) /\ v \in Seq(S)
        BY <4>1, Zenon
      <4>3. Len(u \o v) = Len(u) + Len(v)
        BY <4>2, ConcatParts, Zenon
      <4>4. Len(u \o v) = 4
        BY <4>1, <4>3
      <4>5. QED
        BY <4>4 DEF u, v
    <3>4. QED
      BY <3>1, <3>2, <3>3 DEF x, y
  <2>4. QED
    BY <2>2, <2>3
<1>6. QED
  BY <1>2, <1>3, <1>4, <1>5

\* After k bytes the same was written to both buffers, and no more than 4 for
\* each byte and the quote.
RunsAlike(w, c, k, whole, size) ==
  \E len \in Nat : len <= 4 * k + 1 /\ SameWritten(w, c, len, whole, size)

\* Both buffers hold the same when the mark is written.
LEMMA BegunAlike ==
  ASSUME NEW whole \in Nat, NEW size \in Nat, size > 0, whole > 1
  PROVE  RunsAlike(Opened(whole), Opened(size), 0, whole, size)
<1>1. SameWritten(Buffer(whole), Buffer(size), 0, whole, size)
  BY DEF SameWritten, Buffer, Begun
<1>2. 0 \in Nat /\ Len(Quote) = 1 /\ 0 + 1 < whole /\ Len(Quote) \in Nat
  BY DEF Quote
<1>3. 0 + Len(Quote) < whole
  BY <1>2
<1>4. SameWritten(Opened(whole), Opened(size), 0 + Len(Quote), whole, size)
  BY <1>1, <1>2, <1>3, EmitSame, Zenon DEF Opened
<1>5. 0 + Len(Quote) \in Nat /\ 0 + Len(Quote) <= 4 * 0 + 1
  BY <1>2
<1>6. QED
  BY <1>4, <1>5, Zenon DEF RunsAlike

\* And do so after each piece.
LEMMA StepAlike ==
  ASSUME NEW t \in Seq(Bytes), NEW k \in 1 .. Len(t), NEW whole \in Nat, NEW size \in Nat,
         size > 0, whole = 5 * Len(t) + 3, NEW w, NEW c, RunsAlike(w, c, k - 1, whole, size)
  PROVE  RunsAlike(Emit(w, ReprPiece(t, k)), Emit(c, ReprPiece(t, k)), k, whole, size)
<1>1. PICK len \in Nat : len <= 4 * (k - 1) + 1 /\ SameWritten(w, c, len, whole, size)
  BY DEF RunsAlike
<1> DEFINE p == ReprPiece(t, k)
<1>2. Len(p) \in Nat /\ Len(p) <= 4
  <2>1. Len(p) \in 0 .. 4
    BY PieceShort, Zenon
  <2> DEFINE l == Len(p)
  <2>2. l \in 0 .. 4
    BY <2>1, Zenon
  <2> HIDE DEF p, l
  <2>3. l \in Nat /\ l <= 4
    BY <2>2
  <2>4. QED
    BY <2>3 DEF l
<1> HIDE DEF p
<1>3. Len(t) \in Nat
  BY LenProperties
<1>4. len + Len(p) < whole /\ len + Len(p) \in Nat /\ len + Len(p) <= 4 * k + 1
  BY <1>1, <1>2, <1>3
<1>5. SameWritten(Emit(w, p), Emit(c, p), len + Len(p), whole, size)
  BY <1>1, <1>2, <1>4, EmitSame, Zenon
<1>6. QED
  BY <1>4, <1>5, Zenon DEF RunsAlike, p

\* What cstr_repr writes into a buffer that is too short.
LEMMA ReprFits ==
  ASSUME NEW t \in Seq(Bytes), NEW size \in Nat, size > 0
  PROVE  LET whole == 5 * Len(t) + 3 IN
         \E len \in Nat :
           /\ Repr(t, whole).len = len
           /\ Repr(t, size).len = len
           /\ Repr(t, size).dest = CutDest(Repr(t, whole).dest, len, size)
<1> DEFINE n == Len(t)
           whole == 5 * n + 3
<1>1. n \in Nat /\ whole \in Nat /\ whole > 1
  BY LenProperties
<1>2. PICK g : IsRun(g, t, whole, n) /\ Repr(t, whole) = Emit(g[n], Quote)
  BY <1>1, ReprRun, Zenon
<1>3. PICK h : IsRun(h, t, size, n) /\ Repr(t, size) = Emit(h[n], Quote)
  BY <1>1, ReprRun, Zenon
<1>4. \A k \in 0 .. n : g[k] = IF k = 0 THEN Opened(whole) ELSE Emit(g[k - 1], ReprPiece(t, k))
  BY <1>2, Zenon DEF IsRun
<1>5. \A k \in 0 .. n : h[k] = IF k = 0 THEN Opened(size) ELSE Emit(h[k - 1], ReprPiece(t, k))
  BY <1>3, Zenon DEF IsRun
<1> DEFINE G == {k \in 0 .. n : RunsAlike(g[k], h[k], k, whole, size)}
<1>6. 0 \in G
  <2>1. 0 \in 0 .. n
    BY <1>1
  <2>2. g[0] = Opened(whole) /\ h[0] = Opened(size)
    BY <1>4, <1>5, <2>1, Zenon
  <2> HIDE DEF whole
  <2>3. RunsAlike(Opened(whole), Opened(size), 0, whole, size)
    BY <1>1, BegunAlike, Zenon
  <2>4. QED
    BY <2>1, <2>2, <2>3, Zenon
<1>7. ASSUME NEW k \in 1 .. n, k - 1 \in G PROVE k \in G
  <2>1. k \in 0 .. n /\ k # 0
    BY <1>1
  <2>2. g[k] = Emit(g[k - 1], ReprPiece(t, k)) /\ h[k] = Emit(h[k - 1], ReprPiece(t, k))
    BY <1>4, <1>5, <2>1, Zenon
  <2>3. RunsAlike(g[k - 1], h[k - 1], k - 1, whole, size)
    BY <1>7, Zenon
  <2>4. RunsAlike(Emit(g[k - 1], ReprPiece(t, k)),
                  Emit(h[k - 1], ReprPiece(t, k)), k, whole, size)
    BY <1>1, <2>3, StepAlike
  <2>5. QED
    BY <2>1, <2>2, <2>4, Zenon
<1> HIDE DEF G
<1>8. \A k \in 0 .. n : k \in G
  BY <1>1, <1>6, <1>7, AllSteps, Zenon
<1>9. RunsAlike(g[n], h[n], n, whole, size)
  <2>1. n \in 0 .. n
    BY <1>1
  <2>2. QED
    BY <1>8, <2>1, Zenon DEF G
<1>10. PICK len \in Nat : len <= 4 * n + 1 /\ SameWritten(g[n], h[n], len, whole, size)
  BY <1>9, Zenon DEF RunsAlike
<1>11. Len(Quote) = 1
  BY DEF Quote
<1>12. Len(Quote) \in Nat
  BY <1>11
<1>13. len + Len(Quote) < whole /\ len + Len(Quote) \in Nat
  BY <1>1, <1>10, <1>11
<1> HIDE DEF whole
<1> DEFINE to == len + Len(Quote)
<1>14. /\ SameWritten(Emit(g[n], Quote), Emit(h[n], Quote), to, whole, size)
       /\ SameDest(Emit(g[n], Quote), Emit(h[n], Quote), to, size)
  BY <1>1, <1>10, <1>12, <1>13, EmitSame, Zenon
<1>15. Emit(g[n], Quote).len = to /\ Emit(h[n], Quote).len = to
  BY <1>14, Zenon DEF SameWritten
<1>16. to \in Nat
  BY <1>13
<1> HIDE DEF to
<1>17. \E l \in Nat :
         /\ Repr(t, whole).len = l
         /\ Repr(t, size).len = l
         /\ Repr(t, size).dest = CutDest(Repr(t, whole).dest, l, size)
  BY <1>2, <1>3, <1>14, <1>15, <1>16, Zenon DEF SameDest
<1>18. QED
  BY <1>17, Zenon DEF whole, n

\* Then what is written fits.
LEMMA TextHeldFits ==
  ASSUME TextHeld
  PROVE  WrittenFits
<1> DEFINE whole == Repr(text, 5 * Len(text) + 3)
<1>1. text \in Seq(Bytes)
  BY Zenon DEF TextHeld, IsStrOf
<1>2. ASSUME NEW size \in 1 .. whole.len
      PROVE  LET cut == Repr(text, size) IN
             /\ cut.len = whole.len
             /\ cut.dest = [i \in 0 .. size - 1 |-> IF i = size - 1 THEN NUL ELSE whole.dest[i]]
  <2>1. size \in Nat /\ size > 0
    <3> HIDE DEF whole
    <3>1. QED
      BY <1>2
  <2>2. PICK len \in Nat :
          /\ whole.len = len
          /\ Repr(text, size).len = len
          /\ Repr(text, size).dest = CutDest(whole.dest, len, size)
    BY <1>1, <2>1, ReprFits, Zenon
  <2> HIDE DEF whole
  <2>3. ~(len < size)
    BY <1>2, <2>2
  <2>4. CutDest(whole.dest, len, size)
          = [i \in 0 .. size - 1 |-> IF i = size - 1 THEN NUL ELSE whole.dest[i]]
    BY <2>3, Zenon DEF CutDest
  <2>5. QED
    BY <2>2, <2>4, Zenon
<1>3. QED
  BY <1>2, Zenon DEF WrittenFits

\* Of any text, however long, a buffer of any size that is too short holds the
\* beginning of what cstr_repr writes, ended inside of the buffer, and the length
\* that is returned is that of the whole (cstr.c:18-46, 146-185).
THEOREM ReprWrittenFits == Spec => []WrittenFits
<1>1. Init => TextHeld
  BY TextHeldInit
<1>2. TextHeld /\ [Next]_vars => TextHeld'
  BY TextHeldNext
<1>3. TextHeld => WrittenFits
  BY TextHeldFits
<1>4. QED
  BY <1>1, <1>2, <1>3, PTL DEF Spec

-----------------------------------------------------------------------------
\* The parts a path may have, the names among them, and the places it may lead to.
Nowhere == {"", "."}
AllParts == PathParts \cup {"", ".", ".."}
Names == AllParts \ {"", ".", ".."}
Places == [up : Nat, down : Seq(Names)]

\* The last part, and those in front of it.
LEMMA LastAndFront ==
  ASSUME NEW S, NEW t \in Seq(S), t # << >>
  PROVE  /\ Len(t) \in Nat /\ Len(t) > 0
         /\ Last(t) = t[Len(t)] /\ Last(t) \in S
         /\ Front(t) \in Seq(S)
         /\ Len(Front(t)) = Len(t) - 1
         /\ \A i \in 1 .. Len(t) - 1 : Front(t)[i] = t[i]
<1>1. Len(t) \in Nat /\ Len(t) > 0
  BY EmptySeq, LenProperties
<1>2. Last(t) = t[Len(t)] /\ Last(t) \in S
  BY <1>1, ElementOfSeq DEF Last
<1>3. Front(t) = SubSeq(t, 1, Len(t) - 1)
  BY DEF Front
<1> DEFINE n == Len(t) - 1
<1>4. n \in Nat /\ n \in Int /\ 1 \in Int
  BY <1>1
<1>5. \A i \in 1 .. n : t[i] \in S
  <2>1. \A i \in 1 .. n : i \in 1 .. Len(t)
    BY <1>1
  <2>2. QED
    BY <2>1, ElementOfSeq
<1> DEFINE u == SubSeq(t, 1, n)
<1> HIDE DEF n
<1>6. u \in Seq(S) /\ Len(u) = IF 1 <= n THEN n - 1 + 1 ELSE 0
  BY <1>4, <1>5, SubSeqProperties
<1>7. \A i \in 1 .. n - 1 + 1 : u[i] = t[1 + i - 1]
  BY <1>4, <1>5, SubSeqProperties
<1> HIDE DEF u
<1>8. Len(u) = n /\ \A i \in 1 .. n : u[i] = t[i]
  BY <1>4, <1>6, <1>7
<1>9. /\ Front(t) \in Seq(S)
      /\ Len(Front(t)) = Len(t) - 1
      /\ \A i \in 1 .. Len(t) - 1 : Front(t)[i] = t[i]
  BY <1>3, <1>6, <1>8, Zenon DEF u, n
<1>10. QED
  BY <1>1, <1>2, <1>9

\* A step leads from a place to a place.
LEMMA WalkStepPlaces ==
  ASSUME NEW here \in Places, NEW abs \in BOOLEAN, NEW part \in AllParts
  PROVE  WalkStep(here, abs, part) \in Places
<1>1. here.up \in Nat /\ here.down \in Seq(Names)
  BY DEF Places
<1>2. CASE part \in {"", "."}
  BY <1>2, Zenon DEF WalkStep
<1>3. CASE part \notin {"", "."} /\ part # ".."
  <2>1. part \in Names
    BY <1>3 DEF Names
  <2>2. Append(here.down, part) \in Seq(Names)
    BY <1>1, <2>1, AppendProperties
  <2>3. WalkStep(here, abs, part) = [up |-> here.up, down |-> Append(here.down, part)]
    BY <1>3, Zenon DEF WalkStep
  <2>4. QED
    BY <1>1, <2>2, <2>3 DEF Places
<1>4. CASE part = ".." /\ here.down # << >>
  <2>1. Front(here.down) \in Seq(Names)
    BY <1>1, <1>4, LastAndFront
  <2>2. ".." \notin {"", "."}
    OBVIOUS
  <2>3. WalkStep(here, abs, part) = [up |-> here.up, down |-> Front(here.down)]
    BY <1>4, <2>2, Zenon DEF WalkStep
  <2>4. QED
    BY <1>1, <2>1, <2>3 DEF Places
<1>5. CASE part = ".." /\ here.down = << >>
  <2>1. ".." \notin {"", "."}
    OBVIOUS
  <2>2. WalkStep(here, abs, part)
          = [up |-> IF abs THEN here.up ELSE here.up + 1, down |-> << >>]
    BY <1>5, <2>1, Zenon DEF WalkStep
  <2>3. << >> \in Seq(Names)
    BY EmptySeq
  <2>4. QED
    BY <1>1, <2>2, <2>3 DEF Places
<1>6. QED
  BY <1>2, <1>3, <1>4, <1>5

\* A walk, part by part.
IsWalk(g, at, abs, parts) ==
  g[0] = at /\ \A k \in 1 .. Len(parts) : g[k] = WalkStep(g[k - 1], abs, parts[k])

\* A path can be walked part by part.
LEMMA WalkExists ==
  ASSUME NEW at \in Places, NEW abs \in BOOLEAN, NEW parts \in Seq(AllParts)
  PROVE  \E g \in [0 .. Len(parts) -> Places] : IsWalk(g, at, abs, parts)
<1> DEFINE n == Len(parts)
           F == [p \in Places \X (1 .. n) |-> WalkStep(p[1], abs, parts[p[2]])]
<1>1. n \in Nat
  BY LenProperties
<1>2. \A q \in Places, k \in 1 .. n : WalkStep(q, abs, parts[k]) \in Places
  <2> TAKE q \in Places, k \in 1 .. n
  <2>1. parts[k] \in AllParts
    BY ElementOfSeq
  <2>2. QED
    BY <2>1, WalkStepPlaces, Zenon
<1> HIDE DEF n
<1>3. F \in [Places \X (1 .. n) -> Places]
  <2> SUFFICES ASSUME NEW p \in Places \X (1 .. n)
               PROVE  WalkStep(p[1], abs, parts[p[2]]) \in Places
    OBVIOUS
  <2>1. p[1] \in Places /\ p[2] \in 1 .. n
    OBVIOUS
  <2>2. QED
    BY <1>2, <2>1, Zenon
<1>4. \A q \in Places, k \in 1 .. n : F[<<q, k>>] = WalkStep(q, abs, parts[k])
  OBVIOUS
<1> HIDE DEF F
<1>5. PICK g \in [0 .. n -> Places] : Steps(g, n, at, F)
  BY <1>1, <1>3, StepsExist, Zenon
<1>6. g[0] = at /\ \A k \in 1 .. n : g[k] = F[<<g[k - 1], k>>]
  BY <1>5, Zenon DEF Steps
<1>7. \A k \in 1 .. n : g[k] = WalkStep(g[k - 1], abs, parts[k])
  <2> TAKE k \in 1 .. n
  <2>1. k - 1 \in 0 .. n
    BY <1>1
  <2>2. g[k - 1] \in Places
    BY <2>1
  <2>3. QED
    BY <1>4, <1>6, <2>2, Zenon
<1>8. QED
  BY <1>6, <1>7, Zenon DEF n, IsWalk

\* Where it leads is where this walk ends.
LEMMA WalkIs ==
  ASSUME NEW at \in Places, NEW abs \in BOOLEAN, NEW parts \in Seq(AllParts),
         NEW g \in [0 .. Len(parts) -> Places], IsWalk(g, at, abs, parts)
  PROVE  Walk(at, abs, parts) = g[Len(parts)]
<1> DEFINE n == Len(parts)
           E(m, k) == WalkStep(m, abs, parts[k])
<1>1. n \in Nat /\ 0 \in 0 .. n
  BY LenProperties
<1>2. g[0] = at /\ \A k \in 1 .. n : g[k] = E(g[k - 1], k)
  BY Zenon DEF IsWalk
<1>3. Walk(at, abs, parts) = Loop(n, at, E)
  BY Zenon DEF Walk
<1> HIDE DEF n, E
<1>4. \A k \in 0 .. n : g[k] = IF k = 0 THEN at ELSE E(g[k - 1], k)
  <2> TAKE k \in 0 .. n
  <2>1. k = 0 \/ (k \in 1 .. n /\ k # 0)
    BY <1>1
  <2>2. QED
    BY <1>2, <2>1, Zenon
<1>5. g = [k \in 0 .. n |-> g[k]]
  BY Zenon DEF n
<1>6. g = [k \in 0 .. n |-> IF k = 0 THEN at ELSE E(g[k - 1], k)]
  BY <1>4, <1>5, Zenon
<1>7. PICK h : /\ h = [k \in 0 .. n |-> IF k = 0 THEN at ELSE E(h[k - 1], k)]
               /\ Loop(n, at, E) = h[n]
  BY <1>6, Zenon DEF Loop
<1>8. \A k \in 0 .. n : h[k] = IF k = 0 THEN at ELSE E(h[k - 1], k)
  BY <1>7, Zenon
<1>9. h[0] = g[0]
  BY <1>1, <1>4, <1>8, Zenon
<1>10. Follows(h, g, n)
  <2> SUFFICES ASSUME NEW k \in 1 .. n PROVE h[k - 1] = g[k - 1] => h[k] = g[k]
    BY Zenon DEF Follows
  <2>1. k \in 0 .. n /\ k # 0
    BY <1>1
  <2>2. QED
    BY <1>4, <1>8, <2>1, Zenon
<1>11. h[n] = g[n]
  BY <1>1, <1>9, <1>10, SameSteps, Zenon
<1>12. QED
  BY <1>3, <1>7, <1>11, Zenon DEF n

\* A walk along two paths, one behind the other.
LEMMA WalkConcat ==
  ASSUME NEW at \in Places, NEW abs \in BOOLEAN,
         NEW p \in Seq(AllParts), NEW q \in Seq(AllParts)
  PROVE  /\ Walk(at, abs, p) \in Places
         /\ Walk(at, abs, p \o q) = Walk(Walk(at, abs, p), abs, q)
<1> DEFINE m == Len(p)
           n == Len(q)
           r == p \o q
<1>1. PICK g \in [0 .. m -> Places] : IsWalk(g, at, abs, p)
  BY WalkExists, Zenon
<1>2. Walk(at, abs, p) = g[m]
  BY <1>1, WalkIs, Zenon
<1>3. m \in Nat /\ n \in Nat
  BY LenProperties
<1>4. g[m] \in Places
  BY <1>3
<1>5. PICK h \in [0 .. n -> Places] : IsWalk(h, g[m], abs, q)
  BY <1>4, WalkExists, Zenon
<1>6. Walk(g[m], abs, q) = h[n]
  BY <1>4, <1>5, WalkIs, Zenon
<1>7. /\ r \in Seq(AllParts)
      /\ Len(r) = m + n
      /\ \A i \in 1 .. m + n : r[i] = IF i <= m THEN p[i] ELSE q[i - m]
  <2>1. r \in Seq(AllParts) /\ Len(r) = m + n
    BY ConcatParts, Zenon
  <2>2. \A i \in 1 .. m + n : r[i] = IF i <= m THEN p[i] ELSE q[i - m]
    BY ConcatProperties
  <2>3. QED
    BY <2>1, <2>2, Zenon
<1>8. g[0] = at /\ \A k \in 1 .. m : g[k] = WalkStep(g[k - 1], abs, p[k])
  BY <1>1, Zenon DEF IsWalk
<1>9. h[0] = g[m] /\ \A k \in 1 .. n : h[k] = WalkStep(h[k - 1], abs, q[k])
  BY <1>5, Zenon DEF IsWalk
<1> HIDE DEF m, n, r
<1> DEFINE f == [k \in 0 .. m + n |-> IF k <= m THEN g[k] ELSE h[k - m]]
<1>10. f \in [0 .. Len(r) -> Places]
  <2>1. \A k \in 0 .. m + n : (IF k <= m THEN g[k] ELSE h[k - m]) \in Places
    <3> TAKE k \in 0 .. m + n
    <3>1. CASE k <= m
      BY <1>3, <3>1
    <3>2. CASE ~(k <= m)
      <4>1. k - m \in 0 .. n
        BY <1>3, <3>2
      <4>2. QED
        BY <3>2, <4>1
    <3>3. QED
      BY <3>1, <3>2
  <2>2. f \in [0 .. m + n -> Places]
    BY <2>1, Zenon
  <2>3. QED
    BY <1>7, <2>2, Zenon
<1>11. \A k \in 1 .. m + n : f[k] = WalkStep(f[k - 1], abs, r[k])
  <2> TAKE k \in 1 .. m + n
  <2>1. k \in 0 .. m + n /\ k - 1 \in 0 .. m + n
    BY <1>3
  <2>2. CASE k <= m
    <3>1. k - 1 <= m /\ k \in 1 .. m
      BY <1>3, <2>2
    <3>2. f[k] = g[k] /\ f[k - 1] = g[k - 1]
      BY <2>1, <2>2, <3>1, Zenon
    <3>3. r[k] = p[k]
      BY <1>7, <2>2, Zenon
    <3>4. QED
      BY <1>8, <3>1, <3>2, <3>3, Zenon
  <2>3. CASE ~(k <= m)
    <3> DEFINE j == k - m
    <3>1. j \in 1 .. n /\ (k - 1 <= m => k - 1 = m /\ j - 1 = 0) /\ (k - 1) - m = j - 1
      BY <1>3, <2>3
    <3>2. f[k] = h[j]
      BY <2>1, <2>3, Zenon
    <3>3. f[k - 1] = h[j - 1]
      BY <1>9, <2>1, <3>1
    <3>4. r[k] = q[j]
      BY <1>7, <2>3, Zenon
    <3> HIDE DEF j
    <3>5. QED
      BY <1>9, <3>1, <3>2, <3>3, <3>4, Zenon
  <2>4. QED
    BY <2>2, <2>3
<1>12. f[0] = at
  <2>1. 0 \in 0 .. m + n /\ 0 <= m
    BY <1>3
  <2>2. QED
    BY <1>8, <2>1
<1>13. f[m + n] = h[n]
  <2>1. m + n \in 0 .. m + n
    BY <1>3
  <2>2. CASE n = 0
    BY <1>3, <1>9, <2>1, <2>2
  <2>3. CASE n # 0
    BY <1>3, <2>1, <2>3
  <2>4. QED
    BY <2>2, <2>3
<1> HIDE DEF f
<1>14. IsWalk(f, at, abs, r)
  BY <1>7, <1>11, <1>12, Zenon DEF IsWalk
<1>15. r \in Seq(AllParts)
  BY <1>7, Zenon
<1>16. Walk(at, abs, r) = f[Len(r)]
  BY <1>10, <1>14, <1>15, WalkIs, Zenon
<1>17. QED
  BY <1>2, <1>4, <1>6, <1>7, <1>13, <1>16, Zenon DEF m, n, r

\* An empty part and a dot lead nowhere.
LEMMA WalkNowhere ==
  ASSUME NEW at \in Places, NEW abs \in BOOLEAN, NEW part \in Nowhere
  PROVE  Walk(at, abs, <<part>>) = at
<1> DEFINE p == <<part>>
<1>1. p \in Seq(AllParts) /\ Len(p) = 1 /\ p[1] = part
  <2>1. part \in AllParts
    BY Zenon DEF AllParts, Nowhere
  <2>2. QED
    BY <2>1
<1> HIDE DEF p
<1>2. PICK g \in [0 .. Len(p) -> Places] : IsWalk(g, at, abs, p)
  BY <1>1, WalkExists, Zenon
<1>3. Walk(at, abs, p) = g[Len(p)]
  <2>1. p \in Seq(AllParts)
    BY <1>1, Zenon
  <2>2. QED
    BY <1>2, <2>1, WalkIs, Zenon
<1>4. g[0] = at /\ \A k \in 1 .. Len(p) : g[k] = WalkStep(g[k - 1], abs, p[k])
  BY <1>2, Zenon DEF IsWalk
<1>5. WalkStep(at, abs, part) = at
  BY Zenon DEF WalkStep, Nowhere
<1>6. g[1] = at
  <2>1. 1 \in 1 .. Len(p) /\ 1 - 1 = 0
    BY <1>1
  <2>2. g[1] = WalkStep(g[1 - 1], abs, p[1])
    BY <1>4, <2>1, Zenon
  <2>3. g[1 - 1] = at
    BY <1>4, <2>1, Zenon
  <2>4. QED
    BY <1>1, <1>5, <2>2, <2>3, Zenon
<1>7. QED
  BY <1>1, <1>3, <1>6, Zenon DEF p

\* Nor does one that is behind a path.
LEMMA WalkBehind ==
  ASSUME NEW abs \in BOOLEAN, NEW p \in Seq(AllParts), NEW part \in Nowhere
  PROVE  Walk(Here, abs, p \o <<part>>) = Walk(Here, abs, p)
<1>1. Here \in Places
  BY EmptySeq DEF Here, Places
<1>2. <<part>> \in Seq(AllParts)
  <2>1. part \in AllParts
    BY Zenon DEF AllParts, Nowhere
  <2>2. QED
    BY <2>1
<1>3. Walk(Here, abs, p \o <<part>>) = Walk(Walk(Here, abs, p), abs, <<part>>)
  BY <1>1, <1>2, WalkConcat, Zenon
<1>4. Walk(Here, abs, p) \in Places
  BY <1>1, WalkConcat, Zenon
<1>5. QED
  BY <1>3, <1>4, WalkNowhere, Zenon

\* The kinds of parts, and what each does to a path and to a walk.
Above == ".."

\* A part leads nowhere, to the directory above or to a name, and only one of these.
LEMMA PartKinds ==
  ASSUME NEW part \in AllParts
  PROVE  /\ part \in Nowhere \/ part = Above \/ part \in Names
         /\ Above \notin Nowhere /\ Above \notin Names /\ Above \in AllParts
         /\ part \in Names => part \notin Nowhere /\ part # Above
<1>1. Above \notin {"", "."}
  BY Zenon DEF Above
<1>2. QED
  BY <1>1, Zenon DEF AllParts, Names, Nowhere, Above

\* Two dots are neither a name nor a part that leads nowhere.
LEMMA AboveParts == Above \notin Nowhere /\ Above \notin Names /\ Above \in AllParts
  BY Zenon DEF AllParts, Names, Nowhere, Above

\* What each sort of part does to the normal path and to the walk.
LEMMA PartSteps ==
  ASSUME NEW part \in AllParts, NEW here, NEW parts, NEW abs
  PROVE  /\ part \in Nowhere =>
              NormStep(abs, parts, part) = parts /\ WalkStep(here, abs, part) = here
         /\ part \in Names =>
              /\ NormStep(abs, parts, part) = Append(parts, part)
              /\ WalkStep(here, abs, part) = [up |-> here.up, down |-> Append(here.down, part)]
         /\ part = Above /\ parts # << >> /\ Last(parts) # Above =>
              NormStep(abs, parts, part) = Front(parts)
         /\ part = Above /\ parts # << >> /\ Last(parts) = Above =>
              NormStep(abs, parts, part) = Append(parts, Above)
         /\ part = Above /\ parts = << >> /\ abs => NormStep(abs, parts, part) = parts
         /\ part = Above /\ parts = << >> /\ ~abs =>
              NormStep(abs, parts, part) = Append(parts, Above)
<1>1. /\ part \in Names => part \notin Nowhere /\ part # Above
      /\ part = Above => part \notin Nowhere
  BY PartKinds, Zenon
<1>2. part \in Nowhere =>
        NormStep(abs, parts, part) = parts /\ WalkStep(here, abs, part) = here
  BY Zenon DEF NormStep, WalkStep, Nowhere
<1>3. part \in Names =>
        /\ NormStep(abs, parts, part) = Append(parts, part)
        /\ WalkStep(here, abs, part) = [up |-> here.up, down |-> Append(here.down, part)]
  BY <1>1, Zenon DEF NormStep, WalkStep, Nowhere, Above
<1>4. ASSUME part = Above, parts # << >>, Last(parts) # Above
      PROVE  NormStep(abs, parts, part) = Front(parts)
  BY <1>1, <1>4, Zenon DEF NormStep, GoesUp, Nowhere, Above
<1>5. ASSUME part = Above, parts # << >>, Last(parts) = Above
      PROVE  NormStep(abs, parts, part) = Append(parts, Above)
  <2>1. ~GoesUp(abs, parts)
    BY <1>5, Zenon DEF GoesUp, Above
  <2>2. QED
    BY <1>1, <1>5, <2>1, Zenon DEF NormStep, Nowhere
<1>6. ASSUME part = Above, parts = << >>, abs
      PROVE  NormStep(abs, parts, part) = parts
  <2>1. GoesUp(abs, parts)
    BY <1>6, Zenon DEF GoesUp
  <2>2. QED
    BY <1>1, <1>6, <2>1, Zenon DEF NormStep, Nowhere, Above
<1>7. ASSUME part = Above, parts = << >>, ~abs
      PROVE  NormStep(abs, parts, part) = Append(parts, Above)
  <2>1. ~GoesUp(abs, parts)
    BY <1>7, Zenon DEF GoesUp
  <2>2. QED
    BY <1>1, <1>7, <2>1, Zenon DEF NormStep, Nowhere
<1>8. QED
  BY <1>2, <1>3, <1>4, <1>5, <1>6, <1>7, Zenon

\* A step up.
LEMMA StepUp ==
  ASSUME NEW here, NEW abs
  PROVE  /\ here.down # << >> =>
              WalkStep(here, abs, Above) = [up |-> here.up, down |-> Front(here.down)]
         /\ here.down = << >> =>
              WalkStep(here, abs, Above)
                = [up |-> IF abs THEN here.up ELSE here.up + 1, down |-> << >>]
<1>1. ".." \notin {"", "."}
  BY PartKinds, Zenon DEF Above, Nowhere
<1>2. ASSUME here.down # << >>
      PROVE  WalkStep(here, abs, Above) = [up |-> here.up, down |-> Front(here.down)]
  BY <1>1, <1>2, Zenon DEF WalkStep, Above
<1>3. ASSUME here.down = << >>
      PROVE  WalkStep(here, abs, Above)
               = [up |-> IF abs THEN here.up ELSE here.up + 1, down |-> << >>]
  BY <1>1, <1>3, Zenon DEF WalkStep, Above
<1>4. QED
  BY <1>2, <1>3, Zenon

\* The parts are the way to a place: up as often as needed, and then down.
Way(parts, here, abs) ==
  /\ parts \in Seq(AllParts)
  /\ here \in Places
  /\ Len(parts) = here.up + Len(here.down)
  /\ \A i \in 1 .. Len(parts) : parts[i] =
       IF i <= here.up THEN Above ELSE here.down[i - here.up]
  /\ abs => here.up = 0

\* What it means that the parts lead straight to here.
LEMMA WayParts ==
  ASSUME NEW parts, NEW here, NEW abs, Way(parts, here, abs)
  PROVE  /\ here.up \in Nat
         /\ here.down \in Seq(Names)
         /\ Len(here.down) \in Nat
         /\ parts \in Seq(AllParts)
         /\ Len(parts) = here.up + Len(here.down)
         /\ here = [up |-> here.up, down |-> here.down]
         /\ here.down = << >> <=> Len(here.down) = 0
         /\ parts = << >> <=> Len(parts) = 0
<1>1. here \in Places /\ parts \in Seq(AllParts) /\ Len(parts) = here.up + Len(here.down)
  BY Zenon DEF Way
<1>2. /\ here.up \in Nat
      /\ here.down \in Seq(Names)
      /\ here = [up |-> here.up, down |-> here.down]
  BY <1>1 DEF Places
<1>3. Len(here.down) \in Nat
  BY <1>2, LenProperties
<1>4. here.down = << >> <=> Len(here.down) = 0
  BY <1>2, EmptySeq
<1>5. parts = << >> <=> Len(parts) = 0
  BY <1>1, EmptySeq
<1>6. QED
  BY <1>1, <1>2, <1>3, <1>4, <1>5

\* Each part goes on with the way.
LEMMA WayStep ==
  ASSUME NEW parts, NEW here, NEW abs \in BOOLEAN, NEW part \in AllParts, Way(parts, here, abs)
  PROVE  Way(NormStep(abs, parts, part), WalkStep(here, abs, part), abs)
<1> DEFINE up == here.up
           down == here.down
           n == Len(parts)
           m == Len(down)
<1>1. /\ up \in Nat /\ down \in Seq(Names) /\ m \in Nat
      /\ parts \in Seq(AllParts) /\ n = up + m
      /\ (down = << >> <=> m = 0) /\ (parts = << >> <=> n = 0)
  BY WayParts
<1>2. \A i \in 1 .. n : parts[i] = IF i <= up THEN Above ELSE down[i - up]
  BY Zenon DEF Way
<1>3. abs => up = 0
  BY Zenon DEF Way
<1>4. here \in Places
  BY Zenon DEF Way
<1>5. n \in Nat
  BY <1>1
<1>6. Above \in AllParts /\ Above \notin Names
  BY PartKinds, Zenon
<1>7. Names \subseteq AllParts
  BY Zenon DEF Names
<1> DEFINE to == WalkStep(here, abs, part)
           now == NormStep(abs, parts, part)
<1>8. to \in Places
  BY <1>4, WalkStepPlaces, Zenon
<1> HIDE DEF n, m
<1>9. CASE part \in Nowhere
  BY <1>9, PartSteps, Zenon
<1>10. CASE part \in Names
  <2>1. now = Append(parts, part) /\ to = [up |-> up, down |-> Append(down, part)]
    BY <1>10, PartSteps, Zenon
  <2>2. to.up = up /\ to.down = Append(down, part)
    BY <2>1
  <2> HIDE DEF up, down, to, now
  <2>3. now \in Seq(AllParts) /\ Len(now) = n + 1 /\ Len(to.down) = m + 1
    BY <1>1, <2>1, <2>2, AppendProperties DEF n, m
  <2>4. \A i \in 1 .. n + 1 : now[i] = IF i <= to.up THEN Above ELSE to.down[i - to.up]
    <3> TAKE i \in 1 .. n + 1
    <3>1. CASE i = n + 1
      <4>1. now[i] = part
        BY <1>1, <2>1, <3>1, AppendProperties DEF n
      <4>2. i - up = m + 1 /\ ~(i <= up)
        BY <1>1, <3>1
      <4>3. Append(down, part)[m + 1] = part
        BY <1>1, <1>10, AppendProperties DEF m
      <4>4. QED
        BY <2>2, <4>1, <4>2, <4>3
    <3>2. CASE i # n + 1
      <4>1. i \in 1 .. n
        BY <1>5, <3>2
      <4>2. now[i] = parts[i]
        BY <1>1, <2>1, <4>1, AppendProperties DEF n
      <4>3. CASE i <= up
        BY <1>2, <2>2, <4>1, <4>2, <4>3
      <4>4. CASE ~(i <= up)
        <5>1. i - up \in 1 .. m
          BY <1>1, <4>1, <4>4
        <5>2. Append(down, part)[i - up] = down[i - up]
          BY <1>1, <1>10, <5>1, AppendProperties DEF m
        <5>3. QED
          BY <1>2, <2>2, <4>1, <4>2, <4>4, <5>2
      <4>5. QED
        BY <4>3, <4>4
    <3>3. QED
      BY <3>1, <3>2
  <2>5. Len(now) = to.up + Len(to.down)
    BY <1>1, <2>2, <2>3
  <2>6. abs => to.up = 0
    BY <1>3, <2>2
  <2>7. Len(now) = n + 1
    BY <2>3
  <2>8. \A i \in 1 .. Len(now) : now[i] = IF i <= to.up THEN Above ELSE to.down[i - to.up]
    BY <2>4, <2>7
  <2>9. now \in Seq(AllParts)
    BY <2>3
  <2>10. Way(now, to, abs)
    BY <1>8, <2>5, <2>6, <2>8, <2>9, Zenon DEF Way
  <2>11. QED
    BY <2>10 DEF now, to
<1>11. CASE part = Above /\ m > 0
  <2>1. down # << >> /\ parts # << >>
    BY <1>1, <1>11
  <2>2. parts[n] = down[m] /\ down[m] \in Names
    <3>1. n \in 1 .. n /\ ~(n <= up) /\ n - up = m /\ m \in 1 .. m
      BY <1>1, <1>11
    <3>2. parts[n] = down[m]
      BY <1>2, <3>1
    <3>3. down[m] \in Names
      BY <1>1, <3>1, ElementOfSeq DEF m
    <3>4. QED
      BY <3>2, <3>3
  <2>3. Last(parts) = parts[n]
    BY <1>1, <2>1, LastAndFront DEF n
  <2>4. Last(parts) # Above
    BY <1>6, <2>2, <2>3
  <2>5. now = Front(parts) /\ to = [up |-> up, down |-> Front(down)]
    <3>1. part = Above
      BY <1>11
    <3>2. now = Front(parts)
      BY <2>1, <2>4, <3>1, PartSteps, Zenon
    <3>3. to = [up |-> up, down |-> Front(down)]
      <4>1. WalkStep(here, abs, Above) = [up |-> up, down |-> Front(down)]
        BY <2>1, StepUp, Zenon
      <4>2. QED
        BY <3>1, <4>1, Zenon
    <3>4. QED
      BY <3>2, <3>3, Zenon
  <2>6. to.up = up /\ to.down = Front(down)
    BY <2>5
  <2> HIDE DEF up, down, to, now
  <2>7. /\ now \in Seq(AllParts) /\ Len(now) = n - 1
        /\ \A i \in 1 .. n - 1 : now[i] = parts[i]
    BY <1>1, <2>1, <2>5, LastAndFront DEF n
  <2>8. Len(to.down) = m - 1 /\ \A i \in 1 .. m - 1 : to.down[i] = down[i]
    BY <1>1, <2>1, <2>6, LastAndFront DEF m
  <2>9. \A i \in 1 .. n - 1 : now[i] = IF i <= to.up THEN Above ELSE to.down[i - to.up]
    <3> TAKE i \in 1 .. n - 1
    <3>1. i \in 1 .. n /\ now[i] = parts[i]
      BY <1>5, <2>7
    <3>2. CASE i <= up
      BY <1>2, <2>6, <3>1, <3>2
    <3>3. CASE ~(i <= up)
      <4>1. i - up \in 1 .. m - 1
        BY <1>1, <3>3
      <4>2. QED
        BY <1>2, <2>6, <2>8, <3>1, <3>3, <4>1
    <3>4. QED
      BY <3>2, <3>3
  <2>10. Len(now) = to.up + Len(to.down)
    BY <1>1, <2>6, <2>7, <2>8
  <2>11. \A i \in 1 .. Len(now) : now[i] = IF i <= to.up THEN Above ELSE to.down[i - to.up]
    BY <2>7, <2>9
  <2>12. (abs => to.up = 0) /\ now \in Seq(AllParts)
    BY <1>3, <2>6, <2>7
  <2>13. Way(now, to, abs)
    BY <1>8, <2>10, <2>11, <2>12, Zenon DEF Way
  <2>14. QED
    BY <2>13 DEF now, to
<1>12. CASE part = Above /\ m = 0
  <2>1. down = << >>
    BY <1>1, <1>12
  <2>2. part = Above
    BY <1>12
  <2>3. to = [up |-> IF abs THEN up ELSE up + 1, down |-> << >>]
    <3>1. WalkStep(here, abs, Above) = [up |-> IF abs THEN up ELSE up + 1, down |-> << >>]
      BY <2>1, StepUp, Zenon
    <3>2. QED
      BY <2>2, <3>1, Zenon
  <2>4. CASE abs
    <3>1. parts = << >>
      BY <1>1, <1>3, <1>12, <2>4
    <3>2. now = parts
      BY <1>12, <2>4, <3>1, PartSteps, Zenon
    <3>3. to = [up |-> up, down |-> down]
      BY <2>1, <2>3, <2>4
    <3>4. to = here
      BY <1>4, <3>3 DEF Places
    <3>5. QED
      BY <3>2, <3>4
  <2>5. CASE ~abs
    <3>1. to.up = up + 1 /\ to.down = << >>
      BY <2>3, <2>5
    <3>2. now = Append(parts, Above)
      <4>1. CASE parts = << >>
        BY <1>12, <2>5, <4>1, PartSteps, Zenon
      <4>2. CASE parts # << >>
        <5>1. n \in 1 .. n /\ n <= up
          BY <1>1, <1>12, <4>2
        <5>2. Last(parts) = parts[n]
          BY <1>1, <4>2, LastAndFront DEF n
        <5>3. Last(parts) = Above
          BY <1>2, <5>1, <5>2
        <5>4. QED
          BY <1>12, <4>2, <5>3, PartSteps, Zenon
      <4>3. QED
        BY <4>1, <4>2
    <3> HIDE DEF up, down, to, now
    <3>3. /\ now \in Seq(AllParts) /\ Len(now) = n + 1
          /\ now[n + 1] = Above /\ \A i \in 1 .. n : now[i] = parts[i]
      BY <1>1, <1>6, <3>2, AppendProperties DEF n
    <3>4. \A i \in 1 .. n + 1 : now[i] = Above /\ i <= to.up
      <4> TAKE i \in 1 .. n + 1
      <4>1. i <= up + 1
        BY <1>1, <1>12
      <4>2. CASE i = n + 1
        BY <3>1, <3>3, <4>1, <4>2
      <4>3. CASE i # n + 1
        <5>1. i \in 1 .. n /\ i <= up
          BY <1>1, <1>12, <4>3
        <5>2. QED
          BY <1>2, <3>1, <3>3, <4>1, <5>1
      <4>4. QED
        BY <4>2, <4>3
    <3>5. Len(now) = to.up + Len(to.down)
      BY <1>1, <1>12, <3>1, <3>3
    <3>6. \A i \in 1 .. Len(now) : now[i] = IF i <= to.up THEN Above ELSE to.down[i - to.up]
      BY <3>3, <3>4
    <3>7. (abs => to.up = 0) /\ now \in Seq(AllParts)
      BY <2>5, <3>3
    <3>8. Way(now, to, abs)
      BY <1>8, <3>5, <3>6, <3>7, Zenon DEF Way
    <3>9. QED
      BY <3>8 DEF now, to
  <2>6. QED
    BY <2>4, <2>5
<1>13. QED
  <2>1. m > 0 \/ m = 0
    BY <1>1
  <2>2. QED
    BY <1>9, <1>10, <1>11, <1>12, <2>1, PartKinds, Zenon
\* What is left of a path, part by part.
IsLeft(g, abs, p) == g[0] = << >> /\ \A k \in 1 .. Len(p) : g[k] = NormStep(abs, g[k - 1], p[k])

\* What is left is a sequence of parts.
LEMMA NormStepParts ==
  ASSUME NEW parts \in Seq(AllParts), NEW abs \in BOOLEAN, NEW part \in AllParts
  PROVE  NormStep(abs, parts, part) \in Seq(AllParts)
<1>1. CASE parts # << >>
  <2>1. Front(parts) \in Seq(AllParts)
    BY <1>1, LastAndFront
  <2>2. Append(parts, part) \in Seq(AllParts)
    BY AppendProperties
  <2>3. QED
    BY <1>1, <2>1, <2>2, Zenon DEF NormStep
<1>2. CASE parts = << >>
  <2>1. Append(parts, part) \in Seq(AllParts)
    BY AppendProperties
  <2>2. QED
    BY <1>2, <2>1, Zenon DEF NormStep
<1>3. QED
  BY <1>1, <1>2, Zenon

\* A path can be made normal part by part.
LEMMA LeftExists ==
  ASSUME NEW abs \in BOOLEAN, NEW p \in Seq(AllParts)
  PROVE  \E g \in [0 .. Len(p) -> Seq(AllParts)] : IsLeft(g, abs, p)
<1> DEFINE n == Len(p)
           V == Seq(AllParts)
           F == [q \in V \X (1 .. n) |-> NormStep(abs, q[1], p[q[2]])]
<1>1. n \in Nat
  BY LenProperties
<1>2. \A q \in V, k \in 1 .. n : NormStep(abs, q, p[k]) \in V
  <2> TAKE q \in V, k \in 1 .. n
  <2>1. p[k] \in AllParts
    BY ElementOfSeq
  <2>2. QED
    BY <2>1, NormStepParts, Zenon
<1>3. << >> \in V
  BY EmptySeq
<1>4. n = Len(p)
  OBVIOUS
<1> HIDE DEF n, V
<1>5. F \in [V \X (1 .. n) -> V]
  <2> SUFFICES ASSUME NEW q \in V \X (1 .. n)
               PROVE  NormStep(abs, q[1], p[q[2]]) \in V
    OBVIOUS
  <2>1. q[1] \in V /\ q[2] \in 1 .. n
    OBVIOUS
  <2>2. QED
    BY <1>2, <2>1, Zenon
<1>6. \A q \in V, k \in 1 .. n : F[<<q, k>>] = NormStep(abs, q, p[k])
  OBVIOUS
<1> HIDE DEF F
<1>7. PICK g \in [0 .. n -> V] : Steps(g, n, << >>, F)
  BY <1>1, <1>3, <1>5, StepsExist, Zenon
<1>8. g[0] = << >> /\ \A k \in 1 .. n : g[k] = F[<<g[k - 1], k>>]
  BY <1>7, Zenon DEF Steps
<1>9. \A k \in 1 .. n : g[k] = NormStep(abs, g[k - 1], p[k])
  <2> TAKE k \in 1 .. n
  <2>1. k - 1 \in 0 .. n
    BY <1>1
  <2>2. g[k - 1] \in V
    BY <2>1
  <2>3. QED
    BY <1>6, <1>8, <2>2, Zenon
<1>10. QED
  BY <1>8, <1>9, Zenon DEF n, V, IsLeft

\* What is left of it is what is left at the end.
LEMMA LeftIs ==
  ASSUME NEW abs \in BOOLEAN, NEW p \in Seq(AllParts),
         NEW g \in [0 .. Len(p) -> Seq(AllParts)], IsLeft(g, abs, p)
  PROVE  NormParts(abs, p) = g[Len(p)]
<1> DEFINE n == Len(p)
           Body(f) == [k \in 0 .. n |-> IF k = 0 THEN << >> ELSE NormStep(abs, f[k - 1], p[k])]
           h == CHOOSE f : f = Body(f)
<1>1. n \in Nat /\ 0 \in 0 .. n
  BY LenProperties
<1>2. g[0] = << >> /\ \A k \in 1 .. n : g[k] = NormStep(abs, g[k - 1], p[k])
  BY Zenon DEF IsLeft
<1>3. NormParts(abs, p) = h[n]
  BY Zenon DEF NormParts
<1>4. g = [k \in 0 .. n |-> g[k]]
  OBVIOUS
<1> HIDE DEF n
<1>5. \A k \in 0 .. n : g[k] = IF k = 0 THEN << >> ELSE NormStep(abs, g[k - 1], p[k])
  <2> TAKE k \in 0 .. n
  <2>1. k = 0 \/ (k \in 1 .. n /\ k # 0)
    BY <1>1
  <2>2. QED
    BY <1>2, <2>1, Zenon
<1>6. g = Body(g)
  BY <1>4, <1>5, Zenon
<1> HIDE DEF Body
<1>7. h = Body(h)
  BY <1>6, Zenon
<1> HIDE DEF h
<1>8. \A k \in 0 .. n : h[k] = IF k = 0 THEN << >> ELSE NormStep(abs, h[k - 1], p[k])
  BY <1>7, Zenon DEF Body
<1>9. h[0] = g[0]
  BY <1>1, <1>2, <1>8, Zenon
<1>10. Follows(h, g, n)
  <2> SUFFICES ASSUME NEW k \in 1 .. n PROVE h[k - 1] = g[k - 1] => h[k] = g[k]
    BY Zenon DEF Follows
  <2>1. k \in 0 .. n /\ k # 0
    BY <1>1
  <2>2. QED
    BY <1>5, <1>8, <2>1, Zenon
<1>11. h[n] = g[n]
  BY <1>1, <1>9, <1>10, SameSteps, Zenon
<1>12. QED
  BY <1>3, <1>11, Zenon DEF n

\* What is left of a path is the way to where it leads.
LEMMA NormWay ==
  ASSUME NEW abs \in BOOLEAN, NEW p \in Seq(AllParts)
  PROVE  Way(NormParts(abs, p), Walk(Here, abs, p), abs)
<1> DEFINE n == Len(p)
<1>1. n \in Nat
  BY LenProperties
<1>2. Here \in Places /\ Here.up = 0 /\ Here.down = << >>
  BY EmptySeq DEF Here, Places
<1>3. PICK g \in [0 .. n -> Seq(AllParts)] : IsLeft(g, abs, p)
  BY LeftExists, Zenon
<1>4. PICK h \in [0 .. n -> Places] : IsWalk(h, Here, abs, p)
  BY <1>2, WalkExists, Zenon
<1>5. NormParts(abs, p) = g[n]
  BY <1>3, LeftIs, Zenon
<1>6. Walk(Here, abs, p) = h[n]
  BY <1>2, <1>4, WalkIs, Zenon
<1>7. g[0] = << >> /\ \A k \in 1 .. n : g[k] = NormStep(abs, g[k - 1], p[k])
  BY <1>3, Zenon DEF IsLeft
<1>8. h[0] = Here /\ \A k \in 1 .. n : h[k] = WalkStep(h[k - 1], abs, p[k])
  BY <1>4, Zenon DEF IsWalk
<1>9. \A k \in 1 .. n : p[k] \in AllParts
  BY ElementOfSeq
<1> HIDE DEF n
<1> DEFINE G == {k \in 0 .. n : Way(g[k], h[k], abs)}
<1>10. 0 \in G
  <2>1. Way(<< >>, Here, abs)
    <3>1. << >> \in Seq(AllParts) /\ Len(<< >>) = 0
      BY EmptySeq
    <3>2. Len(Here.down) = 0
      BY <1>2
    <3>3. Len(<< >>) = Here.up + Len(Here.down)
      BY <1>2, <3>1, <3>2
    <3>4. \A i \in 1 .. Len(<< >>) : << >>[i] =
            IF i <= Here.up THEN Above ELSE Here.down[i - Here.up]
      BY <3>1
    <3>5. QED
      BY <1>2, <3>1, <3>3, <3>4, Zenon DEF Way
  <2>2. 0 \in 0 .. n
    BY <1>1
  <2>3. QED
    BY <1>7, <1>8, <2>1, <2>2, Zenon
<1>11. ASSUME NEW k \in 1 .. n, k - 1 \in G PROVE k \in G
  <2>1. k \in 0 .. n
    BY <1>1
  <2>2. Way(g[k - 1], h[k - 1], abs)
    BY <1>11, Zenon
  <2>3. Way(NormStep(abs, g[k - 1], p[k]), WalkStep(h[k - 1], abs, p[k]), abs)
    BY <1>9, <2>2, WayStep, Zenon
  <2>4. Way(g[k], h[k], abs)
    BY <1>7, <1>8, <2>3, Zenon
  <2>5. QED
    BY <2>1, <2>4, Zenon
<1>12. n \in 0 .. n
  BY <1>1
<1> HIDE DEF G
<1>13. n \in G
  BY <1>1, <1>10, <1>11, <1>12, AllSteps, Zenon
<1>14. QED
  BY <1>5, <1>6, <1>13, Zenon DEF G
\* The way to a place leads there.
WayTo(here, k) ==
  IF k <= here.up THEN [up |-> k, down |-> << >>]
  ELSE [up |-> here.up, down |-> SubSeq(here.down, 1, k - here.up)]

\* The first k of a sequence.
LEMMA CutParts ==
  ASSUME NEW S, NEW t \in Seq(S), NEW k \in 0 .. Len(t)
  PROVE  /\ SubSeq(t, 1, k) \in Seq(S)
         /\ Len(SubSeq(t, 1, k)) = k
         /\ \A i \in 1 .. k : SubSeq(t, 1, k)[i] = t[i]
<1>1. Len(t) \in Nat /\ k \in Nat /\ k \in Int /\ 1 \in Int
  BY LenProperties
<1>2. \A i \in 1 .. k : t[i] \in S
  <2>1. \A i \in 1 .. k : i \in 1 .. Len(t)
    BY <1>1
  <2>2. QED
    BY <2>1, ElementOfSeq
<1> DEFINE u == SubSeq(t, 1, k)
<1>3. u \in Seq(S) /\ Len(u) = IF 1 <= k THEN k - 1 + 1 ELSE 0
  BY <1>1, <1>2, SubSeqProperties
<1>4. \A i \in 1 .. k - 1 + 1 : u[i] = t[1 + i - 1]
  BY <1>1, <1>2, SubSeqProperties
<1> HIDE DEF u
<1>5. Len(u) = k /\ \A i \in 1 .. k : u[i] = t[i]
  BY <1>1, <1>3, <1>4
<1>6. QED
  BY <1>3, <1>5, Zenon DEF u

\* The first Len(t) of t are t.
LEMMA CutWhole ==
  ASSUME NEW S, NEW t \in Seq(S)
  PROVE  SubSeq(t, 1, Len(t)) = t
<1> DEFINE u == SubSeq(t, 1, Len(t))
<1>1. Len(t) \in Nat /\ Len(t) \in 0 .. Len(t)
  BY LenProperties
<1>2. u \in Seq(S) /\ Len(u) = Len(t) /\ \A i \in 1 .. Len(t) : u[i] = t[i]
  BY <1>1, CutParts
<1> HIDE DEF u
<1>3. u = t
  BY <1>2, SeqEqual
<1>4. QED
  BY <1>3 DEF u

\* The first k of t are the first k - 1 and the k-th.
LEMMA CutLonger ==
  ASSUME NEW S, NEW t \in Seq(S), NEW k \in 1 .. Len(t)
  PROVE  SubSeq(t, 1, k) = Append(SubSeq(t, 1, k - 1), t[k])
<1> DEFINE u == SubSeq(t, 1, k)
           v == SubSeq(t, 1, k - 1)
           w == Append(v, t[k])
<1>1. k \in 0 .. Len(t) /\ k - 1 \in 0 .. Len(t)
  BY LenProperties
<1>2. u \in Seq(S) /\ Len(u) = k /\ \A i \in 1 .. k : u[i] = t[i]
  BY <1>1, CutParts
<1>3. v \in Seq(S) /\ Len(v) = k - 1 /\ \A i \in 1 .. k - 1 : v[i] = t[i]
  BY <1>1, CutParts
<1>4. t[k] \in S
  BY ElementOfSeq
<1> HIDE DEF u, v
<1>5. w \in Seq(S) /\ Len(w) = (k - 1) + 1 /\ w[(k - 1) + 1] = t[k]
      /\ \A i \in 1 .. k - 1 : w[i] = v[i]
  BY <1>3, <1>4, AppendProperties
<1> HIDE DEF w
<1>6. Len(w) = k /\ \A i \in 1 .. k : w[i] = u[i]
  <2>1. Len(w) = k /\ w[k] = t[k]
    BY <1>5
  <2>2. \A i \in 1 .. k : w[i] = t[i]
    <3> TAKE i \in 1 .. k
    <3>1. i = k \/ i \in 1 .. k - 1
      OBVIOUS
    <3>2. QED
      BY <1>3, <1>5, <2>1, <3>1
  <2>3. QED
    BY <1>2, <2>1, <2>2
<1>7. u = w
  BY <1>2, <1>5, <1>6, SeqEqual
<1>8. QED
  BY <1>7 DEF u, v, w

\* Each part of the way leads one step further.
LEMMA WayToSteps ==
  ASSUME NEW parts, NEW here, NEW abs \in BOOLEAN, Way(parts, here, abs),
         NEW k \in 1 .. Len(parts)
  PROVE  WayTo(here, k) = WalkStep(WayTo(here, k - 1), abs, parts[k])
<1> DEFINE up == here.up
           down == here.down
           from == WayTo(here, k - 1)
<1>1. /\ up \in Nat /\ down \in Seq(Names) /\ Len(down) \in Nat
      /\ Len(parts) = up + Len(down)
  BY WayParts
<1>2. parts[k] = IF k <= up THEN Above ELSE down[k - up]
  BY Zenon DEF Way
<1>3. abs => up = 0
  BY Zenon DEF Way
<1>4. CASE k <= up
  <2>1. k - 1 <= up /\ ~abs /\ (k - 1) + 1 = k
    BY <1>1, <1>3, <1>4
  <2>2. from = [up |-> k - 1, down |-> << >>]
    BY <2>1, Zenon DEF WayTo
  <2>3. from.up = k - 1 /\ from.down = << >>
    BY <2>2
  <2> HIDE DEF from
  <2>4. WalkStep(from, abs, Above) 
              = [up |-> IF abs THEN from.up ELSE from.up + 1, down |-> << >>]
    BY <2>3, StepUp, Zenon
  <2>5. (IF abs THEN from.up ELSE from.up + 1) = k
    BY <2>1, <2>3
  <2>6. WayTo(here, k) = [up |-> k, down |-> << >>]
    BY <1>4, Zenon DEF WayTo
  <2>7. parts[k] = Above
    BY <1>2, <1>4, Zenon
  <2>8. QED
    BY <2>4, <2>5, <2>6, <2>7, Zenon DEF from
<1>5. CASE ~(k <= up)
  <2> DEFINE j == k - up
             part == down[j]
  <2>1. j \in 1 .. Len(down) /\ (k - 1) - up = j - 1
    BY <1>1, <1>5
  <2>2. part \in Names /\ part \in AllParts
    <3>1. part \in Names
      BY <1>1, <2>1, ElementOfSeq
    <3>2. QED
      BY <3>1, Zenon DEF Names
  <2>3. WayTo(here, k) = [up |-> up, down |-> SubSeq(down, 1, j)]
    BY <1>5, Zenon DEF WayTo
  <2>4. parts[k] = part
    BY <1>2, <1>5, Zenon
  <2>5. SubSeq(down, 1, j) = Append(SubSeq(down, 1, j - 1), part)
    BY <1>1, <2>1, CutLonger, Zenon
  <2>6. from.up = up /\ from.down = SubSeq(down, 1, j - 1)
    <3>1. CASE k - 1 <= up
      <4>1. k - 1 = up /\ j - 1 = 0
        BY <1>1, <1>5, <3>1
      <4>2. from = [up |-> k - 1, down |-> << >>]
        BY <3>1, Zenon DEF WayTo
      <4>3. SubSeq(down, 1, 0) = << >>
        <5>1. 0 \in 0 .. Len(down)
          BY <1>1
        <5>2. SubSeq(down, 1, 0) \in Seq(Names) /\ Len(SubSeq(down, 1, 0)) = 0
          BY <1>1, <5>1, CutParts
        <5>3. QED
          BY <5>2, EmptySeq
      <4>4. SubSeq(down, 1, j - 1) = << >>
        BY <4>1, <4>3, Zenon
      <4>5. from.up = k - 1 /\ from.down = << >>
        BY <4>2
      <4>6. QED
        BY <4>1, <4>4, <4>5, Zenon
    <3>2. CASE ~(k - 1 <= up)
      <4>1. from = [up |-> up, down |-> SubSeq(down, 1, (k - 1) - up)]
        BY <3>2, Zenon DEF WayTo
      <4>2. from.up = up /\ from.down = SubSeq(down, 1, (k - 1) - up)
        BY <4>1
      <4>3. QED
        BY <2>1, <4>2
    <3>3. QED
      BY <3>1, <3>2
  <2> HIDE DEF part, from
  <2>7. WalkStep(from, abs, part) = [up |-> from.up, down |-> Append(from.down, part)]
    BY <2>2, PartSteps, Zenon
  <2> HIDE DEF up, down, j
  <2>8. WalkStep(from, abs, part) = WayTo(here, k)
    BY <2>3, <2>5, <2>6, <2>7
  <2>9. QED
    BY <2>4, <2>8, Zenon DEF from
<1>6. QED
  BY <1>4, <1>5

\* A path that leads straight to here leads here.
LEMMA WalkWay ==
  ASSUME NEW parts, NEW here, NEW abs \in BOOLEAN, Way(parts, here, abs)
  PROVE  Walk(Here, abs, parts) = here
<1> DEFINE n == Len(parts)
           up == here.up
           down == here.down
           g == [k \in 0 .. n |-> WayTo(here, k)]
<1>1. /\ up \in Nat /\ down \in Seq(Names) /\ Len(down) \in Nat
      /\ parts \in Seq(AllParts) /\ n = up + Len(down)
      /\ here = [up |-> up, down |-> down]
      /\ (down = << >> <=> Len(down) = 0)
  BY WayParts
<1>2. n \in Nat
  BY <1>1
<1>3. Here \in Places
  BY EmptySeq DEF Here, Places
<1>4. \A k \in 0 .. n : WayTo(here, k) \in Places
  <2> TAKE k \in 0 .. n
  <2>1. CASE k <= up
    <3>1. << >> \in Seq(Names) /\ k \in Nat
      BY EmptySeq
    <3>2. WayTo(here, k) = [up |-> k, down |-> << >>]
      BY <2>1, Zenon DEF WayTo
    <3>3. QED
      BY <3>1, <3>2 DEF Places
  <2>2. CASE ~(k <= up)
    <3>1. k - up \in 0 .. Len(down)
      BY <1>1, <2>2
    <3>2. SubSeq(down, 1, k - up) \in Seq(Names)
      BY <1>1, <3>1, CutParts
    <3>3. WayTo(here, k) = [up |-> up, down |-> SubSeq(down, 1, k - up)]
      BY <2>2, Zenon DEF WayTo
    <3>4. QED
      BY <1>1, <3>2, <3>3 DEF Places
  <2>3. QED
    BY <2>1, <2>2
<1>5. WayTo(here, 0) = Here
  <2>1. 0 <= up
    BY <1>1
  <2>2. QED
    BY <2>1, Zenon DEF WayTo, Here
<1>6. WayTo(here, n) = here
  <2>1. CASE n <= up
    <3>1. n = up /\ Len(down) = 0
      BY <1>1, <2>1
    <3>2. WayTo(here, n) = [up |-> n, down |-> << >>]
      BY <2>1, Zenon DEF WayTo
    <3> HIDE DEF n, up, down
    <3>3. QED
      BY <1>1, <3>1, <3>2
  <2>2. CASE ~(n <= up)
    <3>1. n - up = Len(down)
      BY <1>1
    <3>2. WayTo(here, n) = [up |-> up, down |-> SubSeq(down, 1, n - up)]
      BY <2>2, Zenon DEF WayTo
    <3>3. SubSeq(down, 1, Len(down)) = down
      BY <1>1, CutWhole
    <3> HIDE DEF n, up, down
    <3>4. QED
      BY <1>1, <3>1, <3>2, <3>3
  <2>3. QED
    BY <2>1, <2>2
<1>7. \A k \in 1 .. n : WayTo(here, k) = WalkStep(WayTo(here, k - 1), abs, parts[k])
  BY WayToSteps, Zenon
<1>8. g \in [0 .. n -> Places]
  BY <1>4, Zenon
<1>9. IsWalk(g, Here, abs, parts)
  <2>1. 0 \in 0 .. n /\ \A k \in 1 .. n : k \in 0 .. n /\ k - 1 \in 0 .. n
    BY <1>2
  <2>2. g[0] = Here
    BY <1>5, <2>1, Zenon
  <2>3. \A k \in 1 .. n : g[k] = WalkStep(g[k - 1], abs, parts[k])
    BY <1>7, <2>1, Zenon
  <2>4. QED
    BY <2>2, <2>3, Zenon DEF IsWalk
<1>10. n \in 0 .. n
  BY <1>2
<1>11. g[n] = here
  BY <1>6, <1>10, Zenon
<1>12. parts \in Seq(AllParts)
  BY <1>1
<1> HIDE DEF g
<1>13. Walk(Here, abs, parts) = g[n]
  BY <1>3, <1>8, <1>9, <1>12, WalkIs, Zenon
<1>14. QED
  BY <1>11, <1>13, Zenon

\* There is one way to a place.
LEMMA WayUnique ==
  ASSUME NEW p, NEW q, NEW here, NEW abs, Way(p, here, abs), Way(q, here, abs)
  PROVE  p = q
<1>1. p \in Seq(AllParts) /\ q \in Seq(AllParts) /\ Len(p) = Len(q)
  BY Zenon DEF Way
<1>2. \A i \in 1 .. Len(p) : p[i] = IF i <= here.up THEN Above ELSE here.down[i - here.up]
  BY Zenon DEF Way
<1>3. \A i \in 1 .. Len(q) : q[i] = IF i <= here.up THEN Above ELSE here.down[i - here.up]
  BY Zenon DEF Way
<1>4. \A i \in 1 .. Len(p) : p[i] = q[i]
  BY <1>1, <1>2, <1>3, Zenon
<1>5. QED
  BY <1>1, <1>4, SeqEqual
-----------------------------------------------------------------------------
\* The normal path is what is left of the path, or a part that leads nowhere.
Empty == ""
Dot == "."
Shown(abs, left) == IF left # << >> THEN left ELSE IF abs THEN <<Empty>> ELSE <<Dot>>

\* Paths that lead to the same place have the same parts left.
LEMMA SamePlace ==
  ASSUME NEW abs \in BOOLEAN, NEW p \in Seq(AllParts), NEW q \in Seq(AllParts),
         Walk(Here, abs, p) = Walk(Here, abs, q)
  PROVE  NormParts(abs, p) = NormParts(abs, q)
<1>1. Way(NormParts(abs, p), Walk(Here, abs, p), abs)
  BY NormWay, Zenon
<1>2. Way(NormParts(abs, q), Walk(Here, abs, p), abs)
  BY NormWay, Zenon
<1>3. QED
  BY <1>1, <1>2, WayUnique, Zenon

\* What may be shown for the parts that are left.
Normal(s, abs) ==
  \A i \in 1 .. Len(s) :
    /\ s[i] \in Nowhere => Len(s) = 1
    /\ s[i] = Above => ~abs /\ \A j \in 1 .. i : s[j] = Above

\* A path of a part that leads nowhere.
LEMMA OnePart ==
  ASSUME NEW part \in Nowhere
  PROVE  /\ part \in AllParts /\ <<part>> \in Seq(AllParts) /\ Len(<<part>>) = 1
         /\ <<part>> # << >> /\ <<part>>[1] = part
<1>1. part \in AllParts
  BY Zenon DEF AllParts, Nowhere
<1>2. QED
  BY <1>1

\* The empty part and the dot are two parts that lead nowhere.
LEMMA NowhereParts ==
  Empty \in Nowhere /\ Dot \in Nowhere /\ Dot # Empty
  BY Zenon DEF Empty, Dot, Nowhere

\* A path of one such part is normal.
LEMMA NormalOne ==
  ASSUME NEW part \in Nowhere, NEW abs
  PROVE  Normal(<<part>>, abs)
<1>1. Len(<<part>>) = 1 /\ <<part>>[1] = part /\ part # Above
  BY PartKinds, OnePart
<1>2. QED
  BY <1>1 DEF Normal

\* The way to a place is normal.
LEMMA NormalWay ==
  ASSUME NEW parts, NEW here, NEW abs \in BOOLEAN, Way(parts, here, abs)
  PROVE  Normal(parts, abs)
<1> DEFINE up == here.up
           down == here.down
<1>1. /\ up \in Nat /\ down \in Seq(Names) /\ Len(down) \in Nat
      /\ Len(parts) = up + Len(down)
  BY WayParts
<1>2. \A i \in 1 .. Len(parts) : parts[i] = IF i <= up THEN Above ELSE down[i - up]
  BY Zenon DEF Way
<1>3. abs => up = 0
  BY Zenon DEF Way
<1> HIDE DEF up
<1>4. ASSUME NEW i \in 1 .. Len(parts)
      PROVE  /\ parts[i] \in Nowhere => Len(parts) = 1
             /\ parts[i] = Above => ~abs /\ \A j \in 1 .. i : parts[j] = Above
  <2>1. CASE i <= up
    <3>1. parts[i] = Above /\ parts[i] \notin Nowhere
      <4>1. parts[i] = Above
        BY <1>2, <2>1, Zenon
      <4>2. QED
        BY <4>1, AboveParts, Zenon
    <3>2. ~abs
      BY <1>1, <1>3, <2>1
    <3>3. \A j \in 1 .. i : j \in 1 .. Len(parts) /\ j <= up
      BY <1>1, <2>1
    <3>4. \A j \in 1 .. i : parts[j] = Above
      BY <1>2, <3>3, Zenon
    <3>5. QED
      BY <3>1, <3>2, <3>4, Zenon
  <2>2. CASE ~(i <= up)
    <3>1. i - up \in 1 .. Len(down)
      BY <1>1, <2>2
    <3>2. down[i - up] \in Names
      BY <1>1, <3>1, ElementOfSeq
    <3>3. parts[i] \in Names
      BY <1>2, <2>2, <3>2, Zenon
    <3>4. parts[i] \notin Nowhere /\ parts[i] # Above
      <4>1. parts[i] \in AllParts
        BY <3>3, Zenon DEF Names
      <4>2. QED
        BY <3>3, <4>1, PartKinds, Zenon
    <3>5. QED
      BY <3>4, Zenon
  <2>3. QED
    BY <2>1, <2>2
<1>5. QED
  BY <1>4, Zenon DEF Normal

\* What is shown leads where the path does, and is normal.
LEMMA ShownParts ==
  ASSUME NEW abs \in BOOLEAN, NEW p \in Seq(AllParts), NEW s,
         s = Shown(abs, NormParts(abs, p))
  PROVE  /\ s \in Seq(AllParts)
         /\ Len(s) \in Nat /\ Len(s) > 0
         /\ Walk(Here, abs, s) = Walk(Here, abs, p)
         /\ Normal(s, abs)
         /\ ~abs /\ Len(s) > 1 => s[1] # Empty
<1> DEFINE left == NormParts(abs, p)
           w == Walk(Here, abs, p)
<1>1. Way(left, w, abs)
  BY NormWay, Zenon
<1>2. /\ w.up \in Nat /\ w.down \in Seq(Names) /\ Len(w.down) \in Nat
      /\ left \in Seq(AllParts) /\ Len(left) = w.up + Len(w.down)
      /\ w = [up |-> w.up, down |-> w.down]
      /\ (w.down = << >> <=> Len(w.down) = 0) /\ (left = << >> <=> Len(left) = 0)
  BY <1>1, WayParts, Zenon
<1> HIDE DEF left, w
<1>3. s \in Seq(AllParts) /\ Len(s) > 0 /\ Walk(Here, abs, s) = w /\ Normal(s, abs)
  <2>1. CASE left # << >>
    <3>1. s = left
      BY <2>1, Zenon DEF Shown, left
    <3>2. Len(left) > 0
      BY <1>2, <2>1
    <3>3. Walk(Here, abs, left) = w
      BY <1>1, WalkWay, Zenon
    <3>4. Normal(left, abs)
      BY <1>1, NormalWay, Zenon
    <3>5. QED
      BY <1>2, <3>1, <3>2, <3>3, <3>4, Zenon
  <2>2. CASE left = << >>
    <3>1. w = Here
      <4>1. w.up = 0 /\ w.down = << >>
        BY <1>2, <2>2
      <4>2. QED
        BY <1>2, <4>1, Zenon DEF Here
    <3>2. PICK part \in Nowhere : s = <<part>>
      <4>1. s = <<Empty>> \/ s = <<Dot>>
        BY <2>2, Zenon DEF Shown, left
      <4>2. QED
        BY <4>1, NowhereParts, Zenon
    <3>3. Here \in Places
      BY EmptySeq DEF Here, Places
    <3>4. Walk(Here, abs, <<part>>) = Here
      BY <3>3, WalkNowhere, Zenon
    <3>5. Normal(<<part>>, abs)
      BY NormalOne, Zenon
    <3>6. <<part>> \in Seq(AllParts) /\ Len(<<part>>) > 0
      BY OnePart
    <3>7. QED
      BY <3>1, <3>2, <3>4, <3>5, <3>6, Zenon
  <2>3. QED
    BY <2>1, <2>2
<1>4. Len(s) \in Nat
  BY <1>3, LenProperties
<1>5. Len(s) > 1 => s[1] # Empty
  <2> SUFFICES ASSUME Len(s) > 1, s[1] = Empty PROVE FALSE
    OBVIOUS
  <2>1. 1 \in 1 .. Len(s) /\ Len(s) # 1
    <3> DEFINE n == Len(s)
    <3>1. n \in Nat /\ n > 1
      BY <1>4, Zenon
    <3> HIDE DEF n
    <3>2. 1 \in 1 .. n /\ n # 1
      BY ONLY <3>1
    <3>3. QED
      BY <3>2, Zenon DEF n
  <2>2. s[1] \notin Nowhere
    BY <1>3, <2>1, Zenon DEF Normal
  <2>3. QED
    BY <2>2, NowhereParts
<1>6. QED
  BY <1>3, <1>4, <1>5, Zenon DEF w
\* Whether a path is absolute.
LEMMA AbsIs ==
  ASSUME NEW p
  PROVE  /\ IsAbs(p) \in BOOLEAN
         /\ IsAbs(p) <=> Len(p) > 1 /\ p[1] = Empty
<1>1. IsAbs(p) <=> Len(p) > 1 /\ p[1] = Empty
  BY Zenon DEF IsAbs, Empty
<1>2. IsAbs(p) = TRUE \/ IsAbs(p) = FALSE
  BY Zenon DEF IsAbs
<1>3. QED
  BY <1>1, <1>2

\* path_normpath, with what is left and what is shown.
LEMMA NormPathIs ==
  ASSUME NEW p
  PROVE  NormPath(p) = IF IsAbs(p) THEN <<Empty>> \o Shown(TRUE, NormParts(TRUE, p))
                       ELSE Shown(FALSE, NormParts(FALSE, p))
<1>1. ASSUME IsAbs(p)
      PROVE  NormPath(p) = <<Empty>> \o Shown(TRUE, NormParts(TRUE, p))
  <2>1. IsAbs(p) = TRUE
    BY <1>1, AbsIs
  <2>2. NormPath(p) = <<Empty>> \o Shown(IsAbs(p), NormParts(IsAbs(p), p))
    BY <1>1, Zenon DEF NormPath, Shown, Empty, Dot
  <2>3. QED
    BY <2>1, <2>2, Zenon
<1>2. ASSUME ~IsAbs(p)
      PROVE  NormPath(p) = Shown(FALSE, NormParts(FALSE, p))
  <2>1. IsAbs(p) = FALSE
    BY <1>2, AbsIs
  <2>2. NormPath(p) = Shown(IsAbs(p), NormParts(IsAbs(p), p))
    BY <1>2, Zenon DEF NormPath, Shown, Empty, Dot
  <2>3. QED
    BY <2>1, <2>2, Zenon
<1>3. QED
  BY <1>1, <1>2, Zenon

\* A slash in front makes a path absolute, and leads nowhere.
LEMMA Slashed ==
  ASSUME NEW s \in Seq(AllParts), Len(s) > 0, NEW p, p = <<Empty>> \o s
  PROVE  /\ p \in Seq(AllParts) /\ Len(p) = Len(s) + 1
         /\ IsAbs(p)
         /\ Tail(p) = s
         /\ Walk(Here, TRUE, p) = Walk(Here, TRUE, s)
<1> DEFINE e == <<Empty>>
<1>1. e \in Seq(AllParts) /\ Len(e) = 1 /\ e[1] = Empty
  BY NowhereParts, OnePart
<1>2. Len(s) \in Nat
  BY LenProperties
<1> HIDE DEF e
<1>3. p \in Seq(AllParts) /\ Len(p) = Len(s) + 1
      /\ \A i \in 1 .. Len(s) + 1 : p[i] = IF i <= 1 THEN e[i] ELSE s[i - 1]
  <2>1. p = e \o s
    BY Zenon DEF e
  <2>2. p \in Seq(AllParts) /\ Len(p) = Len(e) + Len(s)
    <3>1. e \in Seq(AllParts)
      BY <1>1
    <3>2. e \o s \in Seq(AllParts) /\ Len(e \o s) = Len(e) + Len(s)
      BY <3>1, ConcatParts, Zenon
    <3>3. QED
      BY <2>1, <3>2, Zenon
  <2>3. \A i \in 1 .. Len(e) + Len(s) : p[i] = IF i <= Len(e) THEN e[i] ELSE s[i - Len(e)]
    BY <1>1, <2>1, ConcatProperties
  <2>4. QED
    BY <1>1, <1>2, <2>2, <2>3
<1>4. IsAbs(p)
  <2>1. Len(p) > 1 /\ p[1] = Empty
    BY <1>1, <1>2, <1>3
  <2>2. QED
    BY <2>1, AbsIs, Zenon
<1>5. Tail(p) = s
  <2>1. p # << >>
    BY <1>2, <1>3, EmptySeq
  <2>2. Tail(p) \in Seq(AllParts) /\ Len(Tail(p)) = Len(p) - 1
        /\ \A i \in 1 .. Len(Tail(p)) : Tail(p)[i] = p[i + 1]
    BY <1>3, <2>1, HeadTailProperties
  <2> DEFINE t == Tail(p)
  <2> HIDE DEF t
  <2>3. Len(t) = Len(s) /\ t \in Seq(AllParts)
    BY <1>2, <1>3, <2>2 DEF t
  <2>4. \A i \in 1 .. Len(t) : t[i] = s[i]
    <3> TAKE i \in 1 .. Len(t)
    <3>1. t[i] = p[i + 1]
      BY <2>2 DEF t
    <3>2. i + 1 \in 1 .. Len(s) + 1 /\ ~(i + 1 <= 1) /\ (i + 1) - 1 = i
      BY <1>2, <2>3
    <3>3. QED
      BY <1>3, <3>1, <3>2
  <2>5. t = s
    BY <2>3, <2>4, SeqEqual
  <2>6. QED
    BY <2>5 DEF t
<1>6. Walk(Here, TRUE, p) = Walk(Here, TRUE, s)
  <2>1. Here \in Places
    BY EmptySeq DEF Here, Places
  <2>2. TRUE \in BOOLEAN
    OBVIOUS
  <2>3. Walk(Here, TRUE, e \o s) = Walk(Walk(Here, TRUE, e), TRUE, s)
    <3>1. e \in Seq(AllParts)
      BY <1>1
    <3>2. QED
      BY <2>1, <2>2, <3>1, WalkConcat, Zenon
  <2>4. Walk(Here, TRUE, e) = Here
    BY <2>1, <2>2, NowhereParts, WalkNowhere, Zenon DEF e
  <2>5. QED
    BY <2>3, <2>4, Zenon DEF e
<1>7. QED
  BY <1>3, <1>4, <1>5, <1>6, Zenon

\* What a normal path is.
IsNormal(p, norm, abs) ==
  /\ norm \in Seq(AllParts)
  /\ norm # << >>
  /\ IsAbs(norm) = abs
  /\ Walk(Here, abs, norm) = Walk(Here, abs, p)
  /\ NormPath(norm) = norm
  /\ Normal(IF abs THEN Tail(norm) ELSE norm, abs)

\* path_normpath gives such a path.
LEMMA NormPathNormal ==
  ASSUME NEW p \in Seq(AllParts)
  PROVE  IsNormal(p, NormPath(p), IsAbs(p))
<1> DEFINE norm == NormPath(p)
<1>1. CASE IsAbs(p)
  <2> DEFINE s == Shown(TRUE, NormParts(TRUE, p))
  <2>1. TRUE \in BOOLEAN /\ IsAbs(p) = TRUE
    BY <1>1, AbsIs
  <2>2. /\ s \in Seq(AllParts) /\ Len(s) \in Nat /\ Len(s) > 0
        /\ Walk(Here, TRUE, s) = Walk(Here, TRUE, p)
        /\ Normal(s, TRUE)
    BY <2>1, ShownParts, Zenon
  <2>3. norm = <<Empty>> \o s
    BY <1>1, NormPathIs, Zenon
  <2> HIDE DEF norm, s
  <2>4. /\ norm \in Seq(AllParts) /\ Len(norm) = Len(s) + 1
        /\ IsAbs(norm) /\ Tail(norm) = s
        /\ Walk(Here, TRUE, norm) = Walk(Here, TRUE, s)
    BY <2>2, <2>3, Slashed, Zenon
  <2>5. norm # << >>
    BY <2>2, <2>4, EmptySeq
  <2>6. IsAbs(norm) = TRUE
    BY <2>4, AbsIs
  <2>7. Walk(Here, TRUE, norm) = Walk(Here, TRUE, p)
    BY <2>2, <2>4, Zenon
  <2>8. NormParts(TRUE, norm) = NormParts(TRUE, p)
    BY <2>1, <2>4, <2>7, SamePlace, Zenon
  <2>9. NormPath(norm) = <<Empty>> \o Shown(TRUE, NormParts(TRUE, norm))
    BY <2>4, NormPathIs, Zenon
  <2>10. NormPath(norm) = norm
    BY <2>3, <2>8, <2>9, Zenon DEF s
  <2>11. Normal(IF TRUE THEN Tail(norm) ELSE norm, TRUE)
    BY <2>2, <2>4, Zenon
  <2>12. IsNormal(p, norm, TRUE)
    BY <2>4, <2>5, <2>6, <2>7, <2>10, <2>11, Zenon DEF IsNormal
  <2>13. QED
    BY <2>1, <2>12, Zenon DEF norm
<1>2. CASE ~IsAbs(p)
  <2>1. FALSE \in BOOLEAN /\ IsAbs(p) = FALSE
    BY <1>2, AbsIs
  <2>2. norm = Shown(FALSE, NormParts(FALSE, p))
    BY <1>2, NormPathIs, Zenon
  <2> HIDE DEF norm
  <2>3. /\ norm \in Seq(AllParts) /\ Len(norm) \in Nat /\ Len(norm) > 0
        /\ Walk(Here, FALSE, norm) = Walk(Here, FALSE, p)
        /\ Normal(norm, FALSE)
        /\ ~FALSE /\ Len(norm) > 1 => norm[1] # Empty
    BY <2>1, <2>2, ShownParts, Zenon
  <2>4. norm # << >>
    BY <2>3, EmptySeq
  <2>5. ~IsAbs(norm)
    BY <2>3, AbsIs, Zenon
  <2>6. IsAbs(norm) = FALSE
    BY <2>5, AbsIs
  <2>7. NormParts(FALSE, norm) = NormParts(FALSE, p)
    BY <2>1, <2>3, SamePlace, Zenon
  <2>8. NormPath(norm) = Shown(FALSE, NormParts(FALSE, norm))
    BY <2>5, NormPathIs, Zenon
  <2>9. NormPath(norm) = norm
    BY <2>2, <2>7, <2>8, Zenon
  <2>10. Normal(IF FALSE THEN Tail(norm) ELSE norm, FALSE)
    BY <2>3, Zenon
  <2>11. IsNormal(p, norm, FALSE)
    BY <2>3, <2>4, <2>6, <2>9, <2>10, Zenon DEF IsNormal
  <2>12. QED
    BY <2>1, <2>11, Zenon DEF norm
<1>3. QED
  BY <1>1, <1>2
\* A joined path has parts.
LEMMA JoinParts ==
  ASSUME NEW p \in Seq(AllParts), p # << >>, NEW q \in Seq(AllParts), q # << >>
  PROVE  PathJoin(p, q) \in Seq(AllParts) /\ PathJoin(p, q) # << >>
<1>1. /\ Len(p) \in Nat /\ Len(p) > 0 /\ Len(q) \in Nat /\ Len(q) > 0
      /\ Front(p) \in Seq(AllParts) /\ Len(Front(p)) = Len(p) - 1
  BY LastAndFront
<1>2. p \o q \in Seq(AllParts) /\ Len(p \o q) = Len(p) + Len(q)
  BY ConcatParts, Zenon
<1>3. Front(p) \o q \in Seq(AllParts) /\ Len(Front(p) \o q) = Len(Front(p)) + Len(q)
  BY <1>1, ConcatParts, Zenon
<1>4. p \o q # << >> /\ Front(p) \o q # << >>
  <2>1. Len(p \o q) # 0 /\ Len(Front(p) \o q) # 0
    BY <1>1, <1>2, <1>3
  <2>2. QED
    BY <1>2, <1>3, <2>1, EmptySeq
<1>5. PathJoin(p, q) \in {q, p \o q, Front(p) \o q}
  BY Zenon DEF PathJoin
<1>6. QED
  BY <1>2, <1>3, <1>4, <1>5, Zenon

\* A joined path leads where the second leads from where the first does.
LEMMA JoinLeads ==
  ASSUME NEW p \in Seq(AllParts), p # << >>, NEW q \in Seq(AllParts), ~IsAbs(q),
         NEW abs \in BOOLEAN
  PROVE  Walk(Here, abs, PathJoin(p, q)) = Walk(Walk(Here, abs, p), abs, q)
<1>1. Here \in Places
  BY EmptySeq DEF Here, Places
<1>2. CASE Last(p) # Empty
  <2>1. PathJoin(p, q) = p \o q
    BY <1>2, Zenon DEF PathJoin, Empty
  <2>2. Walk(Here, abs, p \o q) = Walk(Walk(Here, abs, p), abs, q)
    BY <1>1, WalkConcat, Zenon
  <2>3. QED
    BY <2>1, <2>2, Zenon
<1>3. CASE Last(p) = Empty
  <2> DEFINE f == Front(p)
             e == <<Empty>>
  <2>1. PathJoin(p, q) = f \o q
    BY <1>3, Zenon DEF PathJoin, Empty
  <2>2. /\ Len(p) \in Nat /\ Len(p) > 0 /\ Last(p) = p[Len(p)]
        /\ f \in Seq(AllParts) /\ Len(f) = Len(p) - 1
        /\ \A i \in 1 .. Len(p) - 1 : f[i] = p[i]
    BY LastAndFront
  <2>3. e \in Seq(AllParts) /\ Len(e) = 1 /\ e[1] = Empty
    BY NowhereParts, OnePart
  <2> HIDE DEF f, e
  <2>4. f \o e = p
    <3> DEFINE r == f \o e
    <3>1. r \in Seq(AllParts) /\ Len(r) = Len(f) + Len(e)
      <4>1. f \in Seq(AllParts)
        BY <2>2
      <4>2. e \in Seq(AllParts)
        BY <2>3
      <4>3. QED
        BY <4>1, <4>2, ConcatParts, Zenon
    <3>2. \A i \in 1 .. Len(f) + Len(e) : r[i] = IF i <= Len(f) THEN f[i] ELSE e[i - Len(f)]
      BY <2>2, <2>3, ConcatProperties
    <3> HIDE DEF r
    <3>3. Len(r) = Len(p)
      BY <2>2, <2>3, <3>1
    <3>4. \A i \in 1 .. Len(r) : r[i] = p[i]
      <4> TAKE i \in 1 .. Len(r)
      <4>1. CASE i = Len(p)
        BY <1>3, <2>2, <2>3, <3>2, <3>3, <4>1
      <4>2. CASE i # Len(p)
        <5>1. i \in 1 .. Len(p) - 1
          BY <2>2, <3>3, <4>2
        <5>2. QED
          BY <2>2, <2>3, <3>2, <5>1
      <4>3. QED
        BY <4>1, <4>2
    <3>5. r = p
      BY <3>1, <3>3, <3>4, SeqEqual
    <3>6. QED
      BY <3>5 DEF r
  <2>5. Walk(Here, abs, f \o e) = Walk(Here, abs, f)
    <3>1. f \in Seq(AllParts)
      BY <2>2
    <3>2. QED
      BY <3>1, NowhereParts, WalkBehind, Zenon DEF e
  <2>6. Walk(Here, abs, p) = Walk(Here, abs, f)
    BY <2>4, <2>5, Zenon
  <2>7. Walk(Here, abs, f \o q) = Walk(Walk(Here, abs, f), abs, q)
    <3>1. f \in Seq(AllParts)
      BY <2>2
    <3>2. QED
      BY <1>1, <3>1, WalkConcat, Zenon
  <2>8. QED
    BY <2>1, <2>6, <2>7, Zenon
<1>4. QED
  BY <1>2, <1>3

\* The paths that are joined to it.
LEMMA ShortPaths ==
  ASSUME NEW other \in BoundedSeq(PathParts, 2)
  PROVE  other \in Seq(AllParts)
<1>1. PICK m \in 0 .. 2 : other \in [1 .. m -> PathParts]
  BY DEF BoundedSeq, SeqOf
<1>2. other \in [1 .. m -> AllParts]
  <2>1. PathParts \subseteq AllParts
    BY Zenon DEF AllParts
  <2>2. QED
    BY <1>1, <2>1
<1>3. QED
  BY <1>2

-----------------------------------------------------------------------------
\* The inductive invariant: a path is made of parts, and there is always one.
PathHeld == path \in Seq(AllParts) /\ path # << >>

\* Then the property holds.
LEMMA PathHeldLeads ==
  ASSUME PathHeld
  PROVE  PathLeads
<1> DEFINE abs == IsAbs(path)
           norm == NormPath(path)
           shown == IF abs THEN Tail(norm) ELSE norm
<1>1. path \in Seq(AllParts) /\ path # << >> /\ abs \in BOOLEAN
  BY AbsIs, Zenon DEF PathHeld
<1>2. IsNormal(path, norm, abs)
  BY <1>1, NormPathNormal, Zenon
<1>3. /\ norm \in Seq(AllParts) /\ norm # << >>
      /\ IsAbs(norm) = abs
      /\ Walk(Here, abs, norm) = Walk(Here, abs, path)
      /\ NormPath(norm) = norm
      /\ Normal(shown, abs)
  BY <1>2, Zenon DEF IsNormal
<1>4. shown \in Seq(AllParts)
  <2>1. Tail(norm) \in Seq(AllParts)
    BY <1>3, HeadTailProperties
  <2>2. QED
    BY <1>3, <2>1, Zenon
<1>5. DOMAIN shown = 1 .. Len(shown)
  <2> HIDE DEF shown
  <2>1. QED
    BY <1>4, LenProperties
<1>6. \A other \in BoundedSeq(PathParts, 2) :
        other # << >> /\ ~IsAbs(other) =>
          Walk(Here, abs, PathJoin(path, other)) = Walk(Walk(Here, abs, path), abs, other)
  BY <1>1, ShortPaths, JoinLeads, Zenon
<1> HIDE DEF shown, norm
<1>7. \A i \in DOMAIN shown :
        /\ shown[i] \in Nowhere => Len(shown) = 1
        /\ shown[i] = Above => ~abs /\ \A j \in 1 .. i : shown[j] = Above
  BY <1>3, <1>5, Zenon DEF Normal
<1>8. QED
  BY <1>3, <1>6, <1>7, Zenon DEF PathLeads, Nowhere, Above, norm, shown

\* Both operations keep it.
LEMMA PathHeldNext ==
  ASSUME PathHeld, [Next]_vars
  PROVE  PathHeld'
<1>1. path \in Seq(AllParts) /\ path # << >>
  BY Zenon DEF PathHeld
<1>2. CASE UNCHANGED path
  BY <1>1, <1>2, Zenon DEF PathHeld
<1>3. CASE PathChange
  <2>1. ASSUME NEW other \in BoundedSeq(PathParts, 2), other # << >>,
               path' = PathJoin(path, other)
        PROVE  PathHeld'
    <3>1. other \in Seq(AllParts)
      BY ShortPaths, Zenon
    <3>2. PathJoin(path, other) \in Seq(AllParts) /\ PathJoin(path, other) # << >>
      BY <1>1, <2>1, <3>1, JoinParts, Zenon
    <3>3. QED
      BY <2>1, <3>2, Zenon DEF PathHeld
  <2>2. ASSUME path' = NormPath(path)
        PROVE  PathHeld'
    <3>1. IsNormal(path, NormPath(path), IsAbs(path))
      BY <1>1, NormPathNormal, Zenon
    <3>2. NormPath(path) \in Seq(AllParts) /\ NormPath(path) # << >>
      BY <3>1, Zenon DEF IsNormal
    <3>3. QED
      BY <2>2, <3>2, Zenon DEF PathHeld
  <2>3. QED
    BY <1>3, <2>1, <2>2, Zenon DEF PathChange
<1>4. CASE StrChange
  BY <1>2, <1>4 DEF StrChange
<1>5. CASE IpChange
  BY <1>2, <1>5 DEF IpChange
<1>6. CASE FormatChange
  BY <1>2, <1>6 DEF FormatChange
<1>7. CASE UNCHANGED vars
  BY <1>2, <1>7 DEF vars
<1>8. QED
  BY <1>3, <1>4, <1>5, <1>6, <1>7 DEF Next

\* Of any parts, joined and made normal in any order, the normal path leads where
\* the path does, is normal, and a joined path leads where the second leads from
\* where the first does (path.c:89-99, 134-171).
THEOREM PathsLead == Spec => []PathLeads
<1>1. Init => PathHeld
  <2>1. << "" >> \in Seq(AllParts) /\ << "" >> # << >>
    BY NowhereParts, OnePart, Zenon DEF Empty
  <2>2. QED
    BY <2>1, Zenon DEF Init, PathHeld
<1>2. PathHeld /\ [Next]_vars => PathHeld'
  BY PathHeldNext
<1>3. PathHeld => PathLeads
  BY PathHeldLeads
<1>4. QED
  BY <1>1, <1>2, <1>3, PTL DEF Spec

\* What holds at the end and goes back from all behind a place to it holds at all.
LEMMA AllDown ==
  ASSUME NEW n \in Nat, NEW G, n + 1 \in G,
         \A i \in 1 .. n : (\A j \in i + 1 .. n + 1 : j \in G) => i \in G
  PROVE  \A i \in 1 .. n + 1 : i \in G
<1> DEFINE H == {k \in 0 .. n : \A j \in n + 1 - k .. n + 1 : j \in G}
<1>1. 0 \in H
  <2>1. \A j \in n + 1 - 0 .. n + 1 : j = n + 1
    OBVIOUS
  <2>2. QED
    BY <2>1
<1>2. ASSUME NEW k \in 1 .. n, k - 1 \in H PROVE k \in H
  <2> DEFINE i == n + 1 - k
  <2>1. i \in 1 .. n /\ n + 1 - (k - 1) = i + 1 /\ k \in 0 .. n
    OBVIOUS
  <2>2. \A j \in i + 1 .. n + 1 : j \in G
    BY <1>2, <2>1
  <2>3. i \in G
    BY <2>1, <2>2
  <2>4. \A j \in i .. n + 1 : j = i \/ j \in i + 1 .. n + 1
    BY <2>1
  <2>5. \A j \in i .. n + 1 : j \in G
    BY <2>2, <2>3, <2>4
  <2>6. QED
    BY <2>1, <2>5
<1> HIDE DEF H
<1>3. \A k \in 0 .. n : k \in H
  BY <1>1, <1>2, AllSteps, Zenon
<1>4. \A i \in 1 .. n + 1 :
        i = n + 1 \/ (n + 1 - i \in 0 .. n /\ i \in n + 1 - (n + 1 - i) .. n + 1)
  OBVIOUS
<1>5. QED
  BY <1>3, <1>4 DEF H

\* A recursion that adds to what is found at a place further on has a function.
Onward(f, n, piece, next) == \A i \in 1 .. n : f[i] = piece[i] \o f[next[i]]

\* What is given at each place in terms of a later place is given.
LEMMA OnwardExists ==
  ASSUME NEW S, NEW n \in Nat, NEW piece \in [1 .. n -> Seq(S)],
         NEW next \in [1 .. n -> 1 .. n + 1], \A i \in 1 .. n : next[i] > i
  PROVE  \E f \in [1 .. n + 1 -> Seq(S)] : f[n + 1] = << >> /\ Onward(f, n, piece, next)
<1> DEFINE D == 1 .. n + 1
           V == [D -> Seq(S)]
           At(f, i) == [j \in D |-> IF j = i THEN piece[i] \o f[next[i]] ELSE f[j]]
           F == [q \in V \X (1 .. n) |-> At(q[1], n + 1 - q[2])]
           b == [j \in D |-> << >>]
<1>1. \A i \in 1 .. n : i \in D /\ piece[i] \in Seq(S) /\ next[i] \in D /\ next[i] > i
  OBVIOUS
<1>2. \A k \in 1 .. n : n + 1 - k \in 1 .. n
  OBVIOUS
<1>3. b \in V
  BY EmptySeq
<1>4. \A f \in V, i \in 1 .. n : At(f, i) \in V
  <2> TAKE f \in V, i \in 1 .. n
  <2>1. f[next[i]] \in Seq(S)
    BY <1>1
  <2>2. piece[i] \o f[next[i]] \in Seq(S)
    BY <1>1, <2>1, ConcatProperties
  <2>3. QED
    BY <2>2
<1> HIDE DEF D
<1>5. \A f \in V, i \in 1 .. n :
        /\ At(f, i)[i] = piece[i] \o f[next[i]]
        /\ \A j \in D \ {i} : At(f, i)[j] = f[j]
  BY <1>1
<1> HIDE DEF V, At
<1>6. F \in [V \X (1 .. n) -> V]
  <2> SUFFICES ASSUME NEW q \in V \X (1 .. n) PROVE At(q[1], n + 1 - q[2]) \in V
    OBVIOUS
  <2>1. q[1] \in V /\ q[2] \in 1 .. n
    OBVIOUS
  <2>2. QED
    BY <1>2, <1>4, <2>1, Zenon
<1>7. \A f \in V, k \in 1 .. n : F[<<f, k>>] = At(f, n + 1 - k)
  OBVIOUS
<1> HIDE DEF F
<1>8. PICK g \in [0 .. n -> V] : Steps(g, n, b, F)
  BY <1>3, <1>6, StepsExist, Zenon
<1>9. g[0] = b /\ \A k \in 1 .. n : g[k] = F[<<g[k - 1], k>>]
  BY <1>8, Zenon DEF Steps
<1>10. \A k \in 0 .. n : g[k] \in V
  OBVIOUS
<1>11. \A k \in 1 .. n : g[k] = At(g[k - 1], n + 1 - k)
  <2> TAKE k \in 1 .. n
  <2>1. k - 1 \in 0 .. n
    OBVIOUS
  <2>2. QED
    BY <1>7, <1>9, <1>10, <2>1, Zenon
<1> DEFINE Good(k, f) == f[n + 1] = << >> /\ \A i \in n + 1 - k .. n : f[i] = piece[i] \o f[next[i]]
           H == {k \in 0 .. n : Good(k, g[k])}
<1>12. 0 \in H
  <2>1. n + 1 \in D /\ n + 1 - 0 .. n = {} /\ 0 \in 0 .. n
    BY DEF D
  <2>2. b[n + 1] = << >>
    BY <2>1
  <2>3. QED
    BY <1>9, <2>1, <2>2
<1>13. ASSUME NEW k \in 1 .. n, k - 1 \in H PROVE k \in H
  <2> DEFINE i == n + 1 - k
             f == g[k - 1]
             h == g[k]
  <2>1. /\ i \in 1 .. n /\ n + 1 \in D \ {i} /\ k \in 0 .. n /\ k - 1 \in 0 .. n
        /\ n + 1 - (k - 1) = i + 1
        /\ \A j \in i .. n : j = i \/ j \in i + 1 .. n
        /\ \A j \in i + 1 .. n : j \in 1 .. n /\ j \in D \ {i}
        /\ \A j \in D : j > i => j \in D \ {i}
    BY DEF D
  <2>2. f \in V /\ h = At(f, i)
    BY <1>10, <1>11, <2>1, Zenon
  <2>3. f[n + 1] = << >> /\ \A j \in i + 1 .. n : f[j] = piece[j] \o f[next[j]]
    BY <1>13, <2>1
  <2> HIDE DEF f, h, i
  <2>4. h[i] = piece[i] \o f[next[i]] /\ \A j \in D \ {i} : h[j] = f[j]
    BY <1>5, <2>1, <2>2, Zenon
  <2>5. \A j \in i .. n : next[j] \in D \ {i}
    <3> TAKE j \in i .. n
    <3>1. j \in 1 .. n /\ j >= i
      BY <2>1
    <3>2. next[j] \in D /\ next[j] > j
      BY <1>1, <3>1
    <3>3. next[j] > i
      BY <2>1, <3>1, <3>2 DEF D
    <3>4. QED
      BY <2>1, <3>2, <3>3
  <2>6. \A j \in i .. n : h[j] = piece[j] \o h[next[j]]
    <3> TAKE j \in i .. n
    <3>1. h[next[j]] = f[next[j]]
      BY <2>4, <2>5, Zenon
    <3>2. CASE j = i
      BY <2>4, <3>1, <3>2, Zenon
    <3>3. CASE j # i
      <4>1. j \in i + 1 .. n /\ j \in D \ {i}
        BY <2>1, <3>3
      <4>2. QED
        BY <2>3, <2>4, <3>1, <4>1, Zenon
    <3>4. QED
      BY <3>2, <3>3
  <2>7. h[n + 1] = << >>
    BY <2>1, <2>3, <2>4, Zenon
  <2>8. Good(k, h)
    BY <2>6, <2>7 DEF i
  <2>9. QED
    BY <2>1, <2>8 DEF h
<1>14. n \in 0 .. n
  OBVIOUS
<1> HIDE DEF H
<1>15. n \in H
  BY <1>12, <1>13, <1>14, AllSteps, Zenon
<1>16. g[n][n + 1] = << >> /\ \A i \in 1 .. n : g[n][i] = piece[i] \o g[n][next[i]]
  <2>1. n + 1 - n = 1
    OBVIOUS
  <2>2. QED
    BY <1>15, <2>1 DEF H
<1>17. g[n] \in [1 .. n + 1 -> Seq(S)]
  BY <1>10, <1>14, Zenon DEF V, D
<1>18. QED
  BY <1>16, <1>17, Zenon DEF Onward

\* The n bytes of a text from a on.
IsCut(u, S, t, a, n) ==
  /\ u \in Seq(S)
  /\ Len(u) = n
  /\ \A i \in 1 .. n : u[i] = t[a + i - 1]

InText(t, a, b, n) == a \in 1 .. Len(t) + 1 /\ b \in a - 1 .. Len(t) /\ n = b - a + 1

\* A cut of a text is a sequence that holds the bytes of that part of it.
LEMMA PieceIs ==
  ASSUME NEW S, NEW t \in Seq(S), NEW a, NEW b, NEW n, InText(t, a, b, n)
  PROVE  IsCut(SubSeq(t, a, b), S, t, a, n)
<1> DEFINE u == SubSeq(t, a, b)
<1>1. /\ Len(t) \in Nat /\ a \in Int /\ b \in Int /\ n \in Nat
      /\ a \in 1 .. Len(t) + 1 /\ b \in a - 1 .. Len(t) /\ n = b - a + 1
  BY LenProperties DEF InText
<1>2. \A i \in a .. b : t[i] \in S
  <2>1. \A i \in a .. b : i \in 1 .. Len(t)
    BY <1>1
  <2>2. QED
    BY <2>1, ElementOfSeq
<1>3. u \in Seq(S) /\ Len(u) = IF a <= b THEN b - a + 1 ELSE 0
  BY <1>1, <1>2, SubSeqProperties
<1>4. \A i \in 1 .. b - a + 1 : u[i] = t[a + i - 1]
  BY <1>1, <1>2, SubSeqProperties
<1> HIDE DEF u
<1>5. Len(u) = n
  BY <1>1, <1>3
<1>6. \A i \in 1 .. n : u[i] = t[a + i - 1]
  BY <1>1, <1>4
<1>7. IsCut(u, S, t, a, n)
  BY <1>3, <1>5, <1>6, Zenon DEF IsCut
<1>8. QED
  BY <1>7, Zenon DEF u

-----------------------------------------------------------------------------
\* What is put together after each of the sequences of a sequence.
Together(g, s) == g[0] = << >> /\ \A k \in 1 .. Len(s) : g[k] = g[k - 1] \o s[k]

\* The pieces can be put one behind the other.
LEMMA TogetherExists ==
  ASSUME NEW S, NEW s \in Seq(Seq(S))
  PROVE  \E g \in [0 .. Len(s) -> Seq(S)] : Together(g, s)
<1> DEFINE n == Len(s)
           F == [q \in Seq(S) \X (1 .. n) |-> q[1] \o s[q[2]]]
           b == << >>
<1>1. n \in Nat /\ b \in Seq(S)
  BY LenProperties, EmptySeq
<1>2. \A k \in 1 .. n : s[k] \in Seq(S)
  BY ElementOfSeq
<1> HIDE DEF n
<1>3. F \in [Seq(S) \X (1 .. n) -> Seq(S)]
  <2> SUFFICES ASSUME NEW q \in Seq(S) \X (1 .. n) PROVE q[1] \o s[q[2]] \in Seq(S)
    OBVIOUS
  <2>1. q[1] \in Seq(S) /\ s[q[2]] \in Seq(S)
    BY <1>2
  <2>2. QED
    BY <2>1, ConcatProperties
<1>4. \A u \in Seq(S), k \in 1 .. n : F[<<u, k>>] = u \o s[k]
  OBVIOUS
<1> HIDE DEF F, b
<1>5. PICK g \in [0 .. n -> Seq(S)] : Steps(g, n, b, F)
  BY <1>1, <1>3, StepsExist, Zenon
<1>6. g[0] = b /\ \A k \in 1 .. n : g[k] = F[<<g[k - 1], k>>]
  BY <1>5, Zenon DEF Steps
<1>7. \A k \in 1 .. n : g[k] = g[k - 1] \o s[k]
  <2> TAKE k \in 1 .. n
  <2>1. k - 1 \in 0 .. n
    BY <1>1
  <2>2. g[k - 1] \in Seq(S)
    BY <2>1
  <2>3. QED
    BY <1>4, <1>6, <2>2, Zenon
<1>8. QED
  BY <1>6, <1>7, Zenon DEF n, Together, b

\* FlattenSeq finds it.
LEMMA FlattenIs ==
  ASSUME NEW S, NEW s \in Seq(Seq(S)), NEW g \in [0 .. Len(s) -> Seq(S)], Together(g, s)
  PROVE  FlattenSeq(s) = g[Len(s)]
<1> DEFINE n == Len(s)
<1>1. n \in Nat
  BY LenProperties
<1>2. g[0] = << >> /\ \A k \in 1 .. n : g[k] = g[k - 1] \o s[k]
  BY Zenon DEF Together
<1>3. CASE n = 0
  <2>1. s = << >>
    BY <1>3, EmptySeq
  <2>2. FlattenSeq(s) = s
    BY <1>3, Zenon DEF FlattenSeq
  <2>3. QED
    BY <1>2, <1>3, <2>1, <2>2, Zenon
<1>4. CASE n # 0
  <2> DEFINE Body(f) == [i \in 1 .. n |-> IF i = 1 THEN s[i] ELSE f[i - 1] \o s[i]]
             c == CHOOSE f : f = Body(f)
             h == [i \in 1 .. n |-> g[i]]
  <2>1. \A k \in 1 .. n : s[k] \in Seq(S)
    BY ElementOfSeq
  <2>2. h = Body(h)
    <3> SUFFICES ASSUME NEW i \in 1 .. n
                 PROVE g[i] = IF i = 1 THEN s[i] ELSE h[i - 1] \o s[i]
      OBVIOUS
    <3>1. CASE i = 1
      <4>1. 1 \in 1 .. n /\ 1 - 1 = 0
        BY <3>1
      <4>2. g[1] = g[1 - 1] \o s[1] /\ s[1] \in Seq(S)
        BY <1>2, <2>1, <4>1, Zenon
      <4>3. g[1] = << >> \o s[1]
        BY <1>2, <4>1, <4>2
      <4>4. << >> \o s[1] = s[1]
        BY <4>2, ConcatEmptySeq, Zenon
      <4>5. QED
        BY <3>1, <4>3, <4>4, Zenon
    <3>2. CASE i # 1
      <4>1. i - 1 \in 1 .. n
        BY <1>1, <3>2
      <4>2. h[i - 1] = g[i - 1]
        BY <4>1
      <4>3. QED
        BY <1>2, <3>2, <4>2, Zenon
    <3>3. QED
      BY <3>1, <3>2
  <2>3. c = Body(c)
    BY <2>2, Zenon
  <2>4. FlattenSeq(s) = c[n]
    BY <1>4, Zenon DEF FlattenSeq
  <2> HIDE DEF c
  <2>5. c[1] = s[1] /\ \A i \in 2 .. n : c[i] = c[i - 1] \o s[i]
    <3>1. 1 \in 1 .. n /\ \A i \in 2 .. n : i \in 1 .. n /\ i # 1
      BY <1>1, <1>4
    <3>2. \A i \in 1 .. n : c[i] = IF i = 1 THEN s[i] ELSE c[i - 1] \o s[i]
      BY <2>3, Zenon
    <3>3. QED
      BY <3>1, <3>2, Zenon
  <2> DEFINE u == [k \in 0 .. n - 1 |-> c[k + 1]]
             v == [k \in 0 .. n - 1 |-> g[k + 1]]
             m == n - 1
  <2>6. m \in Nat
    BY <1>1, <1>4
  <2>7. u[0] = v[0]
    <3>1. 0 \in 0 .. n - 1 /\ 1 \in 1 .. n /\ 0 + 1 = 1 /\ 1 - 1 = 0
      BY <1>1, <1>4
    <3>2. g[1] = << >> \o s[1] /\ s[1] \in Seq(S)
      BY <1>2, <2>1, <3>1
    <3>3. g[1] = s[1]
      BY <3>2, ConcatEmptySeq
    <3>4. u[0] = c[1] /\ v[0] = g[1]
      BY <3>1
    <3>5. QED
      BY <2>5, <3>3, <3>4
  <2>8. Follows(u, v, m)
    <3> SUFFICES ASSUME NEW k \in 1 .. m, u[k - 1] = v[k - 1] PROVE u[k] = v[k]
      BY DEF Follows
    <3>1. /\ k \in 0 .. n - 1 /\ k - 1 \in 0 .. n - 1 /\ k + 1 \in 2 .. n
          /\ (k + 1) - 1 = k /\ k + 1 \in 1 .. n /\ k - 1 + 1 = k
      BY <1>1
    <3>2. u[k] = c[k + 1] /\ v[k] = g[k + 1]
      BY <3>1
    <3>3. u[k - 1] = c[k] /\ v[k - 1] = g[k]
      BY <3>1
    <3>4. c[k + 1] = c[(k + 1) - 1] \o s[k + 1]
      <4>1. \A i \in 2 .. n : c[i] = c[i - 1] \o s[i]
        BY <2>5, Zenon
      <4>2. k + 1 \in 2 .. n
        BY <3>1, Zenon
      <4>3. QED
        BY <4>1, <4>2, Zenon
    <3>5. g[k + 1] = g[(k + 1) - 1] \o s[k + 1]
      <4>1. \A i \in 1 .. n : g[i] = g[i - 1] \o s[i]
        BY <1>2, Zenon
      <4>2. k + 1 \in 1 .. n
        BY <3>1, Zenon
      <4>3. QED
        BY <4>1, <4>2, Zenon
    <3>6. c[(k + 1) - 1] = c[k] /\ g[(k + 1) - 1] = g[k]
      BY <3>1
    <3>7. QED
      BY <3>2, <3>3, <3>4, <3>5, <3>6, Zenon
  <2> HIDE DEF u, v, m
  <2>9. u[m] = v[m]
    BY <2>6, <2>7, <2>8, SameSteps, Zenon
  <2>10. u[m] = c[n] /\ v[m] = g[n]
    <3>1. m \in 0 .. n - 1 /\ m + 1 = n
      BY <1>1, <1>4 DEF m
    <3>2. u[m] = c[m + 1] /\ v[m] = g[m + 1]
      BY <3>1 DEF u, v
    <3>3. QED
      BY <3>1, <3>2
  <2>11. QED
    BY <2>4, <2>9, <2>10, Zenon
<1>5. QED
  BY <1>3, <1>4

\* Nothing, one sequence more behind the others, and one more in front of them.
LEMMA FlattenNone ==
  ASSUME NEW S
  PROVE  FlattenSeq(<< >>) = << >>
<1>1. Len(<< >>) = 0
  BY EmptySeq
<1>2. QED
  BY <1>1, Zenon DEF FlattenSeq

\* Pieces of bytes put together are bytes.
LEMMA FlattenSeqs ==
  ASSUME NEW S, NEW s \in Seq(Seq(S))
  PROVE  FlattenSeq(s) \in Seq(S)
<1>1. PICK g \in [0 .. Len(s) -> Seq(S)] : Together(g, s)
  BY TogetherExists, Zenon
<1>2. Len(s) \in 0 .. Len(s)
  BY LenProperties
<1>3. g[Len(s)] \in Seq(S)
  BY <1>2
<1>4. QED
  BY <1>1, <1>3, FlattenIs, Zenon

\* One more piece comes behind the others.
LEMMA FlattenAppend ==
  ASSUME NEW S, NEW s \in Seq(Seq(S)), NEW x \in Seq(S)
  PROVE  FlattenSeq(Append(s, x)) = FlattenSeq(s) \o x
<1> DEFINE n == Len(s)
           t == Append(s, x)
<1>1. PICK g \in [0 .. Len(s) -> Seq(S)] : Together(g, s)
  BY TogetherExists, Zenon
<1>2. /\ t \in Seq(Seq(S)) /\ Len(t) = n + 1 /\ t[n + 1] = x
      /\ \A i \in 1 .. n : t[i] = s[i]
  BY AppendProperties
<1>3. n \in Nat
  BY LenProperties
<1>4. FlattenSeq(s) = g[n]
  BY <1>1, FlattenIs, Zenon
<1>5. g[0] = << >> /\ \A k \in 1 .. n : g[k] = g[k - 1] \o s[k]
  BY <1>1, Zenon DEF Together
<1>6. g \in [0 .. n -> Seq(S)]
  OBVIOUS
<1> HIDE DEF t, n
<1> DEFINE h == [k \in 0 .. n + 1 |-> IF k = n + 1 THEN g[n] \o x ELSE g[k]]
<1>7. n \in 0 .. n
  BY <1>3
<1>8. g[n] \o x \in Seq(S)
  BY <1>6, <1>7, ConcatProperties
<1>9. h \in [0 .. Len(t) -> Seq(S)]
  <2> SUFFICES ASSUME NEW k \in 0 .. n + 1, k # n + 1 PROVE g[k] \in Seq(S)
    BY <1>2, <1>8
  <2>1. k \in 0 .. n
    BY <1>3
  <2>2. QED
    BY <1>6, <2>1
<1>10. Together(h, t)
  <2>1. h[0] = << >>
    <3>1. 0 \in 0 .. n + 1 /\ 0 # n + 1
      BY <1>3
    <3>2. QED
      BY <1>5, <3>1
  <2>2. \A k \in 1 .. n + 1 : h[k] = h[k - 1] \o t[k]
    <3> TAKE k \in 1 .. n + 1
    <3>1. k - 1 \in 0 .. n + 1 /\ k - 1 # n + 1 /\ k \in 0 .. n + 1
      BY <1>3
    <3>2. h[k - 1] = g[k - 1]
      BY <3>1
    <3>3. CASE k = n + 1
      <4>1. k - 1 = n
        BY <1>3, <3>3
      <4>2. h[k] = g[n] \o x
        BY <3>1, <3>3
      <4>3. QED
        BY <1>2, <3>2, <3>3, <4>1, <4>2
    <3>4. CASE k # n + 1
      <4>1. k \in 1 .. n
        BY <1>3, <3>4
      <4>2. h[k] = g[k]
        BY <3>1, <3>4
      <4>3. QED
        BY <1>2, <1>5, <3>2, <4>1, <4>2, Zenon
    <3>5. QED
      BY <3>3, <3>4
  <2> HIDE DEF h
  <2>3. QED
    BY <1>2, <2>1, <2>2, Zenon DEF Together
<1>11. h[Len(t)] = g[n] \o x
  BY <1>2, <1>3
<1> HIDE DEF h
<1>12. FlattenSeq(t) = h[Len(t)]
  BY <1>2, <1>9, <1>10, FlattenIs, Zenon
<1>13. QED
  BY <1>4, <1>11, <1>12 DEF t

Associative(S) == \A x, y, z \in Seq(S) : (x \o y) \o z = x \o (y \o z)

\* Sequences that are put together in either order are the same.
LEMMA Associates ==
  ASSUME NEW S
  PROVE  Associative(S)
<1> USE DEF Associative
<1> TAKE x, y, z \in Seq(S)
<1> QED
  BY ConcatAssociative

IsConcat(xy, x, y) == xy = x \o y

\* x and then y and z is x and y and then z.
LEMMA Regrouped ==
  ASSUME NEW S, NEW x \in Seq(S), NEW y \in Seq(S), NEW z \in Seq(S),
         NEW xy, IsConcat(xy, x, y), NEW yz, IsConcat(yz, y, z),
         NEW w, IsConcat(w, x, yz)
  PROVE  IsConcat(w, xy, z)
<1>1. (x \o y) \o z = x \o (y \o z)
  BY ConcatAssociative
<1>2. xy = x \o y /\ yz = y \o z /\ w = x \o yz
  BY Zenon DEF IsConcat
<1>3. QED
  BY <1>1, <1>2 DEF IsConcat

\* One more piece in front comes before the others.
LEMMA FlattenCons ==
  ASSUME NEW S, NEW s \in Seq(Seq(S)), NEW a \in Seq(S)
  PROVE  FlattenSeq(<<a>> \o s) = a \o FlattenSeq(s)
<1> DEFINE n == Len(s)
           t == <<a>> \o s
<1>1. PICK g \in [0 .. Len(s) -> Seq(S)] : Together(g, s)
  BY TogetherExists, Zenon
<1>2. n \in Nat
  BY LenProperties
<1>3. <<a>> \in Seq(Seq(S)) /\ Len(<<a>>) = 1 /\ <<a>>[1] = a
  OBVIOUS
<1>4. t \in Seq(Seq(S)) /\ Len(t) = 1 + n
  BY <1>3, ConcatProperties
<1>5. t[1] = a /\ \A i \in 1 .. n : t[i + 1] = s[i]
  <2>1. \A i \in 1 .. 1 + n : t[i] = IF i <= 1 THEN <<a>>[i] ELSE s[i - 1]
    BY <1>3, ConcatProperties
  <2> HIDE DEF t
  <2>2. 1 \in 1 .. 1 + n
    BY <1>2
  <2>3. t[1] = a
    BY <1>3, <2>1, <2>2
  <2>4. \A i \in 1 .. n : i + 1 \in 1 .. 1 + n /\ ~(i + 1 <= 1) /\ (i + 1) - 1 = i
    BY <1>2
  <2>5. \A i \in 1 .. n : t[i + 1] = s[i]
    <3> TAKE i \in 1 .. n
    <3>1. t[i + 1] = s[(i + 1) - 1]
      <4>1. i + 1 \in 1 .. 1 + n
        BY <2>4, Zenon
      <4>2. ~(i + 1 <= 1)
        BY <2>4, Zenon
      <4>3. QED
        BY <2>1, <4>1, <4>2, Zenon
    <3>2. (i + 1) - 1 = i
      BY <2>4
    <3>3. QED
      BY <3>1, <3>2
  <2>6. QED
    BY <2>3, <2>5
<1>6. FlattenSeq(s) = g[n]
  BY <1>1, FlattenIs, Zenon
<1>7. g[0] = << >> /\ \A k \in 1 .. n : g[k] = g[k - 1] \o s[k]
  BY <1>1, Zenon DEF Together
<1>8. \A k \in 0 .. n : g[k] \in Seq(S)
  OBVIOUS
<1>9. \A k \in 1 .. n : s[k] \in Seq(S)
  BY ElementOfSeq
<1> HIDE DEF t, n
<1> DEFINE h == [k \in 0 .. 1 + n |-> IF k = 0 THEN << >> ELSE a \o g[k - 1]]
<1>10. h \in [0 .. Len(t) -> Seq(S)]
  <2>1. \A k \in 0 .. 1 + n : k # 0 => k - 1 \in 0 .. n
    BY <1>2
  <2>2. \A k \in 0 .. 1 + n : k # 0 => a \o g[k - 1] \in Seq(S)
    BY <1>8, <2>1, ConcatProperties
  <2>3. << >> \in Seq(S)
    BY EmptySeq
  <2>4. QED
    BY <1>4, <2>2, <2>3
<1>11. Together(h, t)
  <2>1. h[0] = << >>
    BY <1>2
  <2>2. \A k \in 1 .. 1 + n : h[k] = h[k - 1] \o t[k]
    <3> TAKE k \in 1 .. 1 + n
    <3>1. k - 1 \in 0 .. 1 + n /\ k \in 0 .. 1 + n /\ k # 0
      BY <1>2
    <3>2. h[k] = a \o g[k - 1]
      BY <3>1
    <3>3. CASE k = 1
      <4>1. h[k - 1] = << >> /\ g[k - 1] = << >> /\ t[k] = a
        BY <1>5, <1>7, <3>1, <3>3
      <4>2. a \o << >> = a /\ << >> \o a = a
        BY ConcatEmptySeq
      <4>3. QED
        BY <3>2, <4>1, <4>2, Zenon
    <3>4. CASE k # 1
      <4>1. k - 1 \in 1 .. n /\ k - 1 # 0 /\ k - 1 - 1 \in 0 .. n
        BY <1>2, <3>4
      <4>2. h[k - 1] = a \o g[k - 1 - 1]
        BY <3>1, <4>1
      <4>3. t[k] = s[k - 1]
        <5>1. t[k - 1 + 1] = s[k - 1] /\ k - 1 + 1 = k
          BY <1>5, <4>1
        <5>2. QED
          BY <5>1
      <4>4. g[k - 1] = g[k - 1 - 1] \o s[k - 1]
        BY <1>7, <4>1, Zenon
      <4>5. g[k - 1 - 1] \in Seq(S)
        BY <1>8, <4>1
      <4>6. s[k - 1] \in Seq(S)
        BY <1>9, <4>1
      <4>7. IsConcat(h[k - 1], a, g[k - 1 - 1])
        BY <4>2, Zenon DEF IsConcat
      <4>8. IsConcat(g[k - 1], g[k - 1 - 1], s[k - 1])
        BY <4>4, Zenon DEF IsConcat
      <4>9. IsConcat(h[k], a, g[k - 1])
        BY <3>2, Zenon DEF IsConcat
      <4>10. IsConcat(h[k], h[k - 1], s[k - 1])
        BY <4>5, <4>6, <4>7, <4>9, <4>8, Regrouped
      <4>11. QED
        BY <4>3, <4>10, Zenon DEF IsConcat
    <3>5. QED
      BY <3>3, <3>4
  <2> HIDE DEF h
  <2>3. QED
    BY <1>4, <2>1, <2>2, Zenon DEF Together
<1>12. h[Len(t)] = a \o g[n]
  <2>1. 1 + n \in 0 .. 1 + n
    BY <1>2
  <2>2. 1 + n # 0 /\ (1 + n) - 1 = n
    BY <1>2
  <2>3. h[1 + n] = a \o g[(1 + n) - 1]
    BY <2>1, <2>2, Zenon
  <2> HIDE DEF h
  <2>4. QED
    BY <1>4, <2>2, <2>3
<1> HIDE DEF h
<1>13. FlattenSeq(t) = h[Len(t)]
  BY <1>4, <1>10, <1>11, FlattenIs, Zenon
<1>14. QED
  BY <1>6, <1>12, <1>13 DEF t

-----------------------------------------------------------------------------
\* The bytes that one pass of readline takes: m of them, up to the end of a line,
\* of the buffer or of what there is.
Newline == "\n"
TakenUpTo(r, m) ==
  /\ m \in 0 .. Len(r)
  /\ m <= BufLen
  /\ Len(r) > 0 => m > 0
  /\ \A j \in 1 .. m - 1 : r[j] # Newline
  /\ m = Len(r) \/ m = BufLen \/ (m > 0 /\ r[m] = Newline)

\* What one pass of io_readline takes ends with the buffer or with a newline.
LEMMA PortionIs ==
  ASSUME NEW S, NEW r \in Seq(S)
  PROVE  \E m : TakenUpTo(r, m) /\ Portion(r) = SubSeq(r, 1, m)
<1> DEFINE n == IF Len(r) < BufLen THEN Len(r) ELSE BufLen
           I == {i \in 1 .. n : r[i] = Newline}
           at == IF I # {} THEN Min(I) ELSE 0
           m == IF at > 0 THEN at ELSE n
<1>1. Len(r) \in Nat /\ BufLen \in Nat /\ BufLen > 0
  BY LenProperties, BufLenAssumption
<1>2. n \in Nat /\ n <= Len(r) /\ n <= BufLen /\ (n = Len(r) \/ n = BufLen) /\ (Len(r) > 0 => n > 0)
  BY <1>1
<1>3. Portion(r) = SubSeq(r, 1, m)
  BY Zenon DEF Portion, SelectInSubSeq, Newline
<1> HIDE DEF n
<1>4. CASE I = {}
  <2>1. at = 0 /\ m = n
    BY <1>4
  <2>2. \A j \in 1 .. n : r[j] # Newline
    BY <1>4
  <2>3. \A j \in 1 .. n - 1 : j \in 1 .. n
    BY <1>2
  <2> HIDE DEF m, at, I
  <2>4. TakenUpTo(r, n)
    BY <1>1, <1>2, <2>2, <2>3 DEF TakenUpTo
  <2>5. QED
    BY <1>3, <2>1, <2>4
<1>5. CASE I # {}
  <2>1. I \in SUBSET Nat
    BY <1>2
  <2>2. Min(I) \in I /\ \A j \in I : Min(I) <= j
    BY <1>5, <2>1, MinOfNats
  <2>3. at = Min(I)
    BY <1>5
  <2>4. at \in 1 .. n /\ r[at] = Newline
    BY <2>2, <2>3
  <2>5. m = at
    BY <2>4
  <2>6. \A j \in 1 .. at - 1 : r[j] # Newline
    <3> SUFFICES ASSUME NEW j \in 1 .. at - 1, r[j] = Newline PROVE FALSE
      OBVIOUS
    <3>1. j \in 1 .. n /\ ~(at <= j)
      BY <1>2, <2>4
    <3>2. j \in I
      BY <3>1
    <3>3. QED
      BY <2>2, <2>3, <3>1, <3>2
  <2> HIDE DEF m, at, I
  <2>7. TakenUpTo(r, at)
    BY <1>1, <1>2, <2>4, <2>6 DEF TakenUpTo
  <2>8. QED
    BY <1>3, <2>5, <2>7
<1>6. QED
  BY <1>4, <1>5

\* The line that begins at i ends at e.
LineEnds(t, i, e) ==
  /\ e \in i - 1 .. Len(t)
  /\ i <= Len(t) => e >= i
  /\ \A j \in i .. e - 1 : t[j] # Newline
  /\ e = Len(t) \/ (e >= i /\ t[e] = Newline)

\* What the pass at i takes: up to e, and whether the line is complete then.
PassEnds(t, i, e, done) ==
  /\ e \in i .. Len(t)
  /\ \A j \in i .. e - 1 : t[j] # Newline
  /\ done => e = Len(t) \/ t[e] = Newline
  /\ ~done => t[e] # Newline

Rest(t, i) == SubSeq(t, i, Len(t))

\* The rest of a text is a cut of it.
LEMMA RestIs ==
  ASSUME NEW S, NEW t \in Seq(S), NEW i \in 1 .. Len(t) + 1
  PROVE  IsCut(Rest(t, i), S, t, i, Len(t) - i + 1)
<1>1. InText(t, i, Len(t), Len(t) - i + 1)
  BY LenProperties DEF InText
<1>2. QED
  BY <1>1, PieceIs, Zenon DEF Rest

\* A piece of the rest is a piece of the text.
LEMMA RestCut ==
  ASSUME NEW S, NEW t \in Seq(S), NEW i \in 1 .. Len(t) + 1, NEW m \in 0 .. Len(t) - i + 1
  PROVE  SubSeq(Rest(t, i), 1, m) = SubSeq(t, i, i + m - 1)
<1> DEFINE r == Rest(t, i)
           u == SubSeq(r, 1, m)
           v == SubSeq(t, i, i + m - 1)
<1>1. Len(t) \in Nat /\ m \in Nat /\ InText(t, i, i + m - 1, m)
  BY LenProperties DEF InText
<1>2. r \in Seq(S) /\ Len(r) = Len(t) - i + 1 /\ \A j \in 1 .. Len(t) - i + 1 : r[j] = t[i + j - 1]
  BY RestIs, Zenon DEF IsCut
<1> HIDE DEF r
<1>3. InText(r, 1, m, m)
  BY <1>1, <1>2 DEF InText
<1>4. IsCut(u, S, r, 1, m)
  BY <1>2, <1>3, PieceIs, Zenon
<1>5. IsCut(v, S, t, i, m)
  BY <1>1, PieceIs, Zenon
<1> HIDE DEF u, v
<1>6. u \in Seq(S) /\ Len(u) = m /\ \A j \in 1 .. m : u[j] = r[1 + j - 1]
  BY <1>4, Zenon DEF IsCut
<1>7. v \in Seq(S) /\ Len(v) = m /\ \A j \in 1 .. m : v[j] = t[i + j - 1]
  BY <1>5, Zenon DEF IsCut
<1>8. \A j \in 1 .. m : u[j] = v[j]
  <2> TAKE j \in 1 .. m
  <2>1. j \in 1 .. Len(t) - i + 1 /\ 1 + j - 1 = j
    BY <1>1
  <2>2. u[j] = r[j]
    BY <1>6, <2>1
  <2>3. QED
    BY <1>2, <1>7, <2>1, <2>2
<1>9. u = v
  BY <1>6, <1>7, <1>8, SeqEqual
<1>10. QED
  BY <1>9 DEF u, v, r

\* The pass at i takes a piece of the text.
PassAt(t, i) == Portion(Rest(t, i))

\* A pass from i on is a cut of the text, and is the last of its line or is full.
LEMMA PassIs ==
  ASSUME NEW S, NEW t \in Seq(S), NEW i \in 1 .. Len(t)
  PROVE  \E e : /\ PassEnds(t, i, e, LineComplete(PassAt(t, i)))
                /\ PassAt(t, i) = SubSeq(t, i, e)
                /\ Len(PassAt(t, i)) = e - i + 1
<1> DEFINE r == Rest(t, i)
           n == Len(t)
<1>1. n \in Nat /\ i \in 1 .. n + 1 /\ BufLen \in Nat
  BY LenProperties, BufLenAssumption
<1>2. r \in Seq(S) /\ Len(r) = n - i + 1 /\ \A j \in 1 .. n - i + 1 : r[j] = t[i + j - 1]
  BY <1>1, RestIs, Zenon DEF IsCut
<1>3. PICK m : TakenUpTo(r, m) /\ Portion(r) = SubSeq(r, 1, m)
  BY <1>2, PortionIs, Zenon
<1> DEFINE e == i + m - 1
           p == PassAt(t, i)
<1>4. m \in 1 .. n - i + 1 /\ m \in 0 .. n - i + 1
  <2>1. m \in 0 .. Len(r) /\ (Len(r) > 0 => m > 0)
    BY <1>3 DEF TakenUpTo
  <2>2. QED
    BY <1>1, <1>2, <2>1
<1>5. p = SubSeq(t, i, e)
  <2>1. SubSeq(Rest(t, i), 1, m) = SubSeq(t, i, i + m - 1)
    BY <1>1, <1>4, RestCut
  <2>2. QED
    BY <1>3, <2>1, Zenon DEF PassAt
<1>6. IsCut(SubSeq(t, i, e), S, t, i, m)
  <2>1. InText(t, i, e, m)
    BY <1>1, <1>4 DEF InText
  <2>2. QED
    BY <2>1, PieceIs, Zenon
<1> HIDE DEF p
<1>7. Len(p) = m /\ \A j \in 1 .. m : p[j] = t[i + j - 1]
  BY <1>5, <1>6, Zenon DEF IsCut
<1>8. /\ \A j \in 1 .. m - 1 : r[j] # Newline
      /\ m = Len(r) \/ m = BufLen \/ r[m] = Newline
      /\ m <= BufLen
  BY <1>3, Zenon DEF TakenUpTo
<1>9. LineComplete(p) <=> Len(p) < BufLen \/ p[m] = Newline
  BY <1>7, Zenon DEF LineComplete, Last, Newline
<1>10. e \in i .. n /\ p[m] = t[e] /\ r[m] = t[e]
  <2>1. m \in 1 .. m
    BY <1>4
  <2>2. QED
    BY <1>1, <1>2, <1>4, <1>7, <2>1
<1>11. \A j \in i .. e - 1 : t[j] # Newline
  <2> TAKE j \in i .. e - 1
  <2> DEFINE k == j - i + 1
  <2>1. k \in 1 .. m - 1 /\ k \in 1 .. n - i + 1 /\ i + k - 1 = j
    BY <1>1, <1>4
  <2> HIDE DEF k
  <2>2. r[k] = t[j] /\ r[k] # Newline
    BY <1>2, <1>8, <2>1
  <2>3. QED
    BY <2>2
<1>12. LineComplete(p) => e = n \/ t[e] = Newline
  <2> SUFFICES ASSUME LineComplete(p), t[e] # Newline PROVE e = n
    OBVIOUS
  <2>1. m < BufLen
    BY <1>7, <1>9, <1>10
  <2>2. m = Len(r)
    BY <1>1, <1>4, <1>8, <1>10, <2>1
  <2>3. QED
    BY <1>1, <1>2, <1>4, <2>2
<1>13. ~LineComplete(p) => t[e] # Newline
  BY <1>9, <1>10, Zenon
<1> HIDE DEF e
<1>14. PassEnds(t, i, e, LineComplete(p))
  BY <1>10, <1>11, <1>12, <1>13, Zenon DEF PassEnds
<1>15. Len(p) = e - i + 1
  BY <1>1, <1>4, <1>7 DEF e
<1>16. QED
  BY <1>5, <1>14, <1>15, Zenon DEF p

\* Behind the end nothing is taken.
LEMMA PassAtEnd ==
  ASSUME NEW S, NEW t \in Seq(S)
  PROVE  PassAt(t, Len(t) + 1) = << >> /\ LineComplete(PassAt(t, Len(t) + 1))
<1> DEFINE i == Len(t) + 1
           r == Rest(t, i)
           p == PassAt(t, i)
<1>1. Len(t) \in Nat /\ i \in 1 .. Len(t) + 1 /\ Len(t) - i + 1 = 0 /\ BufLen > 0
  BY LenProperties, BufLenAssumption
<1>2. r \in Seq(S) /\ Len(r) = Len(t) - i + 1
  BY <1>1, RestIs, Zenon DEF IsCut
<1>3. PICK m : TakenUpTo(r, m) /\ Portion(r) = SubSeq(r, 1, m)
  BY <1>2, PortionIs, Zenon
<1>4. m = 0
  BY <1>1, <1>2, <1>3 DEF TakenUpTo
<1>5. SubSeq(r, 1, m) = << >>
  BY <1>4, SubSeqEmpty
<1> HIDE DEF r, i
<1>6. p = << >>
  BY <1>3, <1>5, Zenon DEF PassAt, r
<1>7. Len(p) = 0
  BY <1>6, EmptySeq
<1>8. LineComplete(p)
  BY <1>1, <1>7 DEF LineComplete
<1>9. QED
  BY <1>6, <1>8, Zenon DEF i

\* A line that goes on where a pass ended.
LEMMA LineGoesOn ==
  ASSUME NEW t, Len(t) \in Nat, NEW i \in 1 .. Len(t), NEW e, PassEnds(t, i, e, FALSE),
         NEW f, LineEnds(t, e + 1, f)
  PROVE  LineEnds(t, i, f)
<1>1. e \in i .. Len(t) /\ t[e] # Newline /\ \A j \in i .. e - 1 : t[j] # Newline
  BY DEF PassEnds
<1>2. /\ f \in e .. Len(t) /\ (f = Len(t) \/ (f >= e + 1 /\ t[f] = Newline))
      /\ \A j \in e + 1 .. f - 1 : t[j] # Newline
  <2>1. e + 1 - 1 = e
    BY <1>1
  <2>2. QED
    BY <1>1, <2>1 DEF LineEnds
<1>3. \A j \in i .. f - 1 : j \in i .. e - 1 \/ j = e \/ j \in e + 1 .. f - 1
  BY <1>1, <1>2
<1>4. \A j \in i .. f - 1 : t[j] # Newline
  BY <1>1, <1>2, <1>3
<1>5. f \in i - 1 .. Len(t) /\ f >= i
  BY <1>1, <1>2
<1>6. f = Len(t) \/ (f >= i /\ t[f] = Newline)
  BY <1>2, <1>5
<1>7. QED
  BY <1>4, <1>5, <1>6 DEF LineEnds

\* The pass with which a line is complete ends the line.
LEMMA LineDone ==
  ASSUME NEW t, Len(t) \in Nat, NEW i \in 1 .. Len(t), NEW e, PassEnds(t, i, e, TRUE)
  PROVE  LineEnds(t, i, e)
<1>1. /\ e \in i .. Len(t) /\ (e = Len(t) \/ t[e] = Newline)
      /\ \A j \in i .. e - 1 : t[j] # Newline
  BY DEF PassEnds
<1>2. e \in i - 1 .. Len(t) /\ e >= i
  BY <1>1
<1>3. QED
  BY <1>1, <1>2 DEF LineEnds

\* What readline gives is a piece of the text that ends as a line does.
PassThen(f, t, i) ==
  PassAt(t, i) \o (IF LineComplete(PassAt(t, i)) THEN << >> ELSE f[i + Len(PassAt(t, i))])

\* The passes of a line can be read, each from the end of the last one on.
LEMMA PassesExist ==
  ASSUME NEW S, NEW t \in Seq(S)
  PROVE  \E f : f = [i \in 1 .. Len(t) + 1 |-> PassThen(f, t, i)]
<1> DEFINE n == Len(t)
           piece == [i \in 1 .. n |-> PassAt(t, i)]
           next == [i \in 1 .. n |->
                      IF LineComplete(PassAt(t, i)) THEN n + 1 ELSE i + Len(PassAt(t, i))]
<1>1. n \in Nat
  BY LenProperties
<1>2. \A i \in 1 .. n : PassAt(t, i) \in Seq(S) /\ Len(PassAt(t, i)) \in 1 .. n - i + 1
  <2> TAKE i \in 1 .. n
  <2>1. PICK e : /\ PassEnds(t, i, e, LineComplete(PassAt(t, i)))
                 /\ PassAt(t, i) = SubSeq(t, i, e)
                 /\ Len(PassAt(t, i)) = e - i + 1
    BY PassIs
  <2>2. e \in i .. n
    BY <2>1 DEF PassEnds
  <2>3. InText(t, i, e, e - i + 1)
    BY <1>1, <2>2 DEF InText
  <2>4. SubSeq(t, i, e) \in Seq(S)
    BY <2>3, PieceIs DEF IsCut
  <2>5. QED
    BY <1>1, <2>1, <2>2, <2>4
<1>3. piece \in [1 .. n -> Seq(S)]
  BY <1>2
<1>4. next \in [1 .. n -> 1 .. n + 1] /\ \A i \in 1 .. n : next[i] > i
  BY <1>1, <1>2
<1>5. \A i \in 1 .. n : piece[i] = PassAt(t, i)
  OBVIOUS
<1>6. \A i \in 1 .. n :
        next[i] = IF LineComplete(PassAt(t, i)) THEN n + 1 ELSE i + Len(PassAt(t, i))
  OBVIOUS
<1> HIDE DEF n, piece, next
<1>7. PICK f \in [1 .. n + 1 -> Seq(S)] : f[n + 1] = << >> /\ Onward(f, n, piece, next)
  BY <1>1, <1>3, <1>4, OnwardExists, Zenon
<1>8. f[n + 1] = << >> /\ \A i \in 1 .. n : f[i] = piece[i] \o f[next[i]]
  BY <1>7, Zenon DEF Onward
<1>9. \A i \in 1 .. n + 1 : f[i] = PassThen(f, t, i)
  <2> TAKE i \in 1 .. n + 1
  <2>1. CASE i = n + 1
    <3>1. PassAt(t, i) = << >> /\ LineComplete(PassAt(t, i))
      BY <2>1, PassAtEnd DEF n
    <3>2. PassThen(f, t, i) = << >> \o << >>
      BY <3>1, Zenon DEF PassThen
    <3>3. << >> \o << >> = << >>
      BY EmptySeq, ConcatEmptySeq
    <3>4. QED
      BY <1>8, <2>1, <3>2, <3>3
  <2>2. CASE i # n + 1
    <3>1. i \in 1 .. n
      BY <1>1, <2>2
    <3>2. f[i] = piece[i] \o f[next[i]]
      BY <1>8, <3>1, Zenon
    <3>3. CASE LineComplete(PassAt(t, i))
      <4>1. next[i] = n + 1
        BY <1>6, <3>1, <3>3
      <4>2. f[i] = PassAt(t, i) \o << >>
        BY <1>5, <1>8, <3>1, <3>2, <4>1
      <4>3. QED
        BY <3>3, <4>2, Zenon DEF PassThen
    <3>4. CASE ~LineComplete(PassAt(t, i))
      <4>1. next[i] = i + Len(PassAt(t, i))
        BY <1>6, <3>1, <3>4
      <4>2. f[i] = PassAt(t, i) \o f[i + Len(PassAt(t, i))]
        BY <1>5, <3>1, <3>2, <4>1
      <4>3. QED
        BY <3>4, <4>2, Zenon DEF PassThen
    <3>5. QED
      BY <3>3, <3>4
  <2>3. QED
    BY <2>1, <2>2
<1>10. f = [i \in 1 .. n + 1 |-> PassThen(f, t, i)]
  BY <1>9
<1>11. QED
  BY <1>10 DEF n

\* A line read pass by pass ends with its newline or with the text.
LEMMA ReadLineIs ==
  ASSUME NEW S, NEW t \in Seq(S)
  PROVE  \E e : LineEnds(t, 1, e) /\ ReadLine(t) = SubSeq(t, 1, e)
<1> DEFINE n == Len(t)
           Body(f) == [i \in 1 .. n + 1 |-> PassThen(f, t, i)]
           c == CHOOSE f : f = Body(f)
<1>1. n \in Nat /\ 1 \in 1 .. n + 1
  BY LenProperties
<1>2. c = Body(c)
  <2>1. \E f : f = Body(f)
    BY PassesExist, Zenon
  <2>2. QED
    BY <2>1, Zenon
<1>3. ReadLine(t) = c[1]
  BY Zenon DEF ReadLine, PassThen, PassAt, Rest
<1> HIDE DEF c
<1>4. \A i \in 1 .. n + 1 : c[i] = PassThen(c, t, i)
  BY <1>2, Zenon
<1> DEFINE G == {i \in 1 .. n + 1 : \E e : LineEnds(t, i, e) /\ c[i] = SubSeq(t, i, e)}
<1> HIDE DEF n
<1>5. n + 1 \in G
  <2>1. n + 1 \in 1 .. n + 1 /\ n < n + 1 /\ n \in Int /\ n + 1 \in Int
    BY <1>1
  <2>2. PassAt(t, n + 1) = << >> /\ LineComplete(PassAt(t, n + 1))
    BY PassAtEnd DEF n
  <2>3. c[n + 1] = << >> \o << >>
    <3>1. c[n + 1] = PassThen(c, t, n + 1)
      BY <1>4, <2>1, Zenon
    <3>2. QED
      BY <2>2, <3>1, Zenon DEF PassThen
  <2>4. << >> \o << >> = << >>
    BY EmptySeq, ConcatEmptySeq
  <2>5. SubSeq(t, n + 1, n) = << >>
    BY <2>1, SubSeqEmpty
  <2>6. LineEnds(t, n + 1, n)
    BY <1>1 DEF LineEnds, n
  <2>7. c[n + 1] = SubSeq(t, n + 1, n)
    BY <2>3, <2>4, <2>5
  <2>8. QED
    BY <2>1, <2>6, <2>7, Zenon
<1>6. ASSUME NEW i \in 1 .. n, \A j \in i + 1 .. n + 1 : j \in G PROVE i \in G
  <2> DEFINE p == PassAt(t, i)
  <2>1. PICK e : PassEnds(t, i, e, LineComplete(p)) /\ p = SubSeq(t, i, e) /\ Len(p) = e - i + 1
    BY PassIs DEF n
  <2>2. e \in i .. n /\ i \in 1 .. n + 1 /\ i \in 1 .. Len(t) /\ Len(t) \in Nat
    BY <1>1, <2>1 DEF PassEnds, n
  <2>3. c[i] = p \o (IF LineComplete(p) THEN << >> ELSE c[i + Len(p)])
    BY <1>4, <2>2, Zenon DEF PassThen
  <2> HIDE DEF p
  <2>4. CASE LineComplete(p)
    <3>1. LineEnds(t, i, e)
      <4>1. PassEnds(t, i, e, TRUE)
        BY <2>1, <2>4 DEF PassEnds
      <4>2. QED
        BY <2>2, <4>1, LineDone, Zenon
    <3>2. p \in Seq(S)
      <4>1. InText(t, i, e, e - i + 1)
        BY <1>1, <2>2 DEF InText, n
      <4>2. QED
        BY <2>1, <4>1, PieceIs DEF IsCut
    <3>3. c[i] = p \o << >>
      BY <2>3, <2>4, Zenon
    <3>4. c[i] = p
      BY <3>2, <3>3, ConcatEmptySeq
    <3>5. c[i] = SubSeq(t, i, e)
      BY <2>1, <3>4
    <3>6. QED
      BY <2>2, <3>1, <3>5, Zenon
  <2>5. CASE ~LineComplete(p)
    <3>1. e + 1 \in i + 1 .. n + 1 /\ i + Len(p) = e + 1
      BY <1>1, <2>1, <2>2
    <3>2. PICK f : LineEnds(t, e + 1, f) /\ c[e + 1] = SubSeq(t, e + 1, f)
      BY <1>6, <3>1
    <3>3. LineEnds(t, i, f)
      <4>1. PassEnds(t, i, e, FALSE)
        BY <2>1, <2>5 DEF PassEnds
      <4>2. LineEnds(t, e + 1, f)
        BY <3>2, Zenon
      <4>3. QED
        BY <2>2, <4>1, <4>2, LineGoesOn, Zenon
    <3>4. f \in e .. Len(t) /\ i \in 1 .. Len(t) + 1 /\ e \in i - 1 .. Len(t)
      BY <1>1, <2>2, <3>2 DEF LineEnds, n
    <3>5. SubSeq(t, i, e) \o SubSeq(t, e + 1, f) = SubSeq(t, i, f)
      BY <3>4, ConcatAdjacentSubSeq
    <3>6. c[i] = SubSeq(t, i, e) \o SubSeq(t, e + 1, f)
      BY <2>1, <2>3, <2>5, <3>1, <3>2
    <3>7. c[i] = SubSeq(t, i, f)
      BY <3>5, <3>6
    <3>8. QED
      BY <2>2, <3>3, <3>7, Zenon
  <2>6. QED
    BY <2>4, <2>5
<1> HIDE DEF G
<1>7. 1 \in G
  <2>1. \A i \in 1 .. n + 1 : i \in G
    BY <1>1, <1>5, <1>6, AllDown, Zenon
  <2>2. QED
    BY <1>1, <2>1
<1>8. QED
  BY <1>3, <1>7 DEF G

\* The line of a text at i.
LineAt(t, i) == ReadLine(Rest(t, i))

\* So does a line read from i on.
LEMMA LineAtIs ==
  ASSUME NEW S, NEW t \in Seq(S), NEW i \in 1 .. Len(t) + 1
  PROVE  \E e : LineEnds(t, i, e) /\ LineAt(t, i) = SubSeq(t, i, e)
<1> DEFINE r == Rest(t, i)
           n == Len(t)
<1>1. n \in Nat
  BY LenProperties
<1>2. r \in Seq(S) /\ Len(r) = n - i + 1 /\ \A j \in 1 .. n - i + 1 : r[j] = t[i + j - 1]
  BY RestIs, Zenon DEF IsCut
<1>3. PICK m : LineEnds(r, 1, m) /\ ReadLine(r) = SubSeq(r, 1, m)
  BY <1>2, ReadLineIs, Zenon
<1>4. /\ m \in 0 .. n - i + 1
      /\ 1 <= Len(r) => m >= 1
      /\ \A j \in 1 .. m - 1 : r[j] # Newline
      /\ m = Len(r) \/ (m >= 1 /\ r[m] = Newline)
  <2>1. 1 - 1 = 0
    OBVIOUS
  <2>2. QED
    BY <1>2, <1>3, <2>1 DEF LineEnds
<1> DEFINE e == i + m - 1
<1>5. LineAt(t, i) = SubSeq(t, i, e)
  BY <1>3, <1>4, RestCut DEF LineAt
<1>6. \A j \in i .. e - 1 : t[j] # Newline
  <2> TAKE j \in i .. e - 1
  <2> DEFINE k == j - i + 1
  <2>1. k \in 1 .. m - 1 /\ k \in 1 .. n - i + 1 /\ i + k - 1 = j
    BY <1>1, <1>4
  <2> HIDE DEF k
  <2>2. r[k] = t[j] /\ r[k] # Newline
    BY <1>2, <1>4, <2>1
  <2>3. QED
    BY <2>2
<1>7. e = n \/ (e >= i /\ t[e] = Newline)
  <2>1. CASE m = Len(r)
    BY <1>1, <1>2, <2>1
  <2>2. CASE m >= 1 /\ r[m] = Newline
    <3>1. m \in 1 .. n - i + 1
      BY <1>1, <1>4, <2>2
    <3>2. r[m] = t[e]
      BY <1>2, <3>1
    <3>3. QED
      BY <1>1, <1>4, <2>2, <3>2
  <2>3. QED
    BY <1>4, <2>1, <2>2
<1>8. e \in i - 1 .. n /\ (i <= n => e >= i)
  BY <1>1, <1>2, <1>4
<1> HIDE DEF e, r
<1>9. LineEnds(t, i, e)
  BY <1>6, <1>7, <1>8 DEF LineEnds
<1>10. QED
  BY <1>5, <1>9, Zenon

\* A line is a part of the text that is not empty.
LEMMA LineInText ==
  ASSUME NEW S, NEW t \in Seq(S), NEW i \in 1 .. Len(t), NEW e, LineEnds(t, i, e)
  PROVE  e \in i .. Len(t) /\ IsCut(SubSeq(t, i, e), S, t, i, e - i + 1)
<1>1. e \in i .. Len(t) /\ Len(t) \in Nat
  BY LenProperties DEF LineEnds
<1>2. InText(t, i, e, e - i + 1)
  BY <1>1 DEF InText
<1>3. IsCut(SubSeq(t, i, e), S, t, i, e - i + 1)
  BY <1>2, PieceIs
<1>4. QED
  BY <1>1, <1>3

LinesThen(f, t, i) ==
  IF LineAt(t, i) = << >> THEN << >> ELSE <<LineAt(t, i)>> \o f[i + Len(LineAt(t, i))]

\* There is a line before the end and none at it.
LEMMA LineOrEnd ==
  ASSUME NEW S, NEW t \in Seq(S)
  PROVE  /\ \A i \in 1 .. Len(t) : /\ LineAt(t, i) \in Seq(S) /\ LineAt(t, i) # << >>
                                   /\ Len(LineAt(t, i)) \in 1 .. Len(t) - i + 1
         /\ LineAt(t, Len(t) + 1) = << >>
<1>1. Len(t) \in Nat
  BY LenProperties
<1>2. ASSUME NEW i \in 1 .. Len(t)
      PROVE  /\ LineAt(t, i) \in Seq(S) /\ LineAt(t, i) # << >>
             /\ Len(LineAt(t, i)) \in 1 .. Len(t) - i + 1
  <2> DEFINE a == LineAt(t, i)
  <2>1. PICK e : LineEnds(t, i, e) /\ a = SubSeq(t, i, e)
    BY LineAtIs
  <2> HIDE DEF a
  <2>2. a \in Seq(S) /\ Len(a) = e - i + 1 /\ e \in i .. Len(t)
    <3>1. e \in i .. Len(t) /\ IsCut(SubSeq(t, i, e), S, t, i, e - i + 1)
      BY <2>1, LineInText, Zenon
    <3>2. QED
      BY <2>1, <3>1, Zenon DEF IsCut
  <2>3. Len(a) \in 1 .. Len(t) - i + 1
    BY <1>1, <2>2
  <2>4. a # << >>
    BY <2>3, EmptySeq
  <2>5. QED
    BY <2>2, <2>3, <2>4 DEF a
<1>3. LineAt(t, Len(t) + 1) = << >>
  <2> DEFINE i == Len(t) + 1
  <2>1. i \in 1 .. Len(t) + 1
    BY <1>1
  <2> HIDE DEF i
  <2>2. PICK e : LineEnds(t, i, e) /\ LineAt(t, i) = SubSeq(t, i, e)
    BY <2>1, LineAtIs
  <2>3. e = Len(t) /\ e < i /\ e \in Int /\ i \in Int
    BY <1>1, <2>2 DEF LineEnds, i
  <2>4. SubSeq(t, i, e) = << >>
    BY <2>3, SubSeqEmpty
  <2>5. QED
    BY <2>2, <2>4 DEF i
<1>4. QED
  BY <1>2, <1>3

\* The lines can be read, each from the end of the last one on.
LEMMA LinesExist ==
  ASSUME NEW S, NEW t \in Seq(S)
  PROVE  \E f : f = [i \in 1 .. Len(t) + 1 |-> LinesThen(f, t, i)]
<1> DEFINE n == Len(t)
           piece == [i \in 1 .. n |-> <<LineAt(t, i)>>]
           next == [i \in 1 .. n |-> i + Len(LineAt(t, i))]
<1>1. n \in Nat
  BY LenProperties
<1>2. \A i \in 1 .. n : LineAt(t, i) \in Seq(S) /\ Len(LineAt(t, i)) \in 1 .. n - i + 1
  BY LineOrEnd
<1>3. piece \in [1 .. n -> Seq(Seq(S))]
  BY <1>2
<1>4. next \in [1 .. n -> 1 .. n + 1] /\ \A i \in 1 .. n : next[i] > i
  BY <1>1, <1>2
<1>5. \A i \in 1 .. n : piece[i] = <<LineAt(t, i)>> /\ next[i] = i + Len(LineAt(t, i))
  OBVIOUS
<1>6. LineAt(t, n + 1) = << >>
  BY LineOrEnd
<1>7. \A i \in 1 .. n : LineAt(t, i) # << >>
  BY LineOrEnd
<1> HIDE DEF n, piece, next
<1>8. PICK f \in [1 .. n + 1 -> Seq(Seq(S))] : f[n + 1] = << >> /\ Onward(f, n, piece, next)
  BY <1>1, <1>3, <1>4, OnwardExists, Zenon
<1>9. f[n + 1] = << >> /\ \A i \in 1 .. n : f[i] = piece[i] \o f[next[i]]
  BY <1>8, Zenon DEF Onward
<1>10. \A i \in 1 .. n + 1 : f[i] = LinesThen(f, t, i)
  <2> TAKE i \in 1 .. n + 1
  <2>1. CASE i = n + 1
    BY <1>6, <1>9, <2>1, Zenon DEF LinesThen
  <2>2. CASE i # n + 1
    <3>1. i \in 1 .. n
      BY <1>1, <2>2
    <3>2. f[i] = <<LineAt(t, i)>> \o f[i + Len(LineAt(t, i))]
      BY <1>5, <1>9, <3>1
    <3>3. QED
      BY <1>7, <3>1, <3>2, Zenon DEF LinesThen
  <2>3. QED
    BY <2>1, <2>2
<1>11. f = [i \in 1 .. n + 1 |-> LinesThen(f, t, i)]
  BY <1>10
<1>12. QED
  BY <1>11 DEF n

\* Lines that are the text from i on, cut behind its newlines and nowhere else.
LineCut(line, last) ==
  \A j \in DOMAIN line :
    /\ line[j] = Newline => j = Len(line)
    /\ j = Len(line) /\ ~last => line[j] = Newline

LinesFrom(lines, S, t, i) ==
  /\ lines \in Seq(Seq(S))
  /\ FlattenSeq(lines) = Rest(t, i)
  /\ i = Len(t) + 1 => lines = << >>
  /\ \A k \in 1 .. Len(lines) : LineCut(lines[k], k = Len(lines))

\* From the end of the text on there are no lines.
LEMMA NoLines ==
  ASSUME NEW S, NEW t \in Seq(S)
  PROVE  LinesFrom(<< >>, S, t, Len(t) + 1)
<1>1. Len(t) \in Int /\ Len(t) + 1 \in Int /\ Len(t) < Len(t) + 1
  BY LenProperties
<1>2. Rest(t, Len(t) + 1) = << >>
  BY <1>1, SubSeqEmpty DEF Rest
<1>3. FlattenSeq(<< >>) = << >>
  BY FlattenNone
<1>4. << >> \in Seq(Seq(S)) /\ Len(<< >>) = 0 /\ \A k \in 1 .. 0 : FALSE
  BY EmptySeq
<1>5. \A k \in 1 .. Len(<< >>) : LineCut(<< >>[k], k = Len(<< >>))
  BY <1>4
<1>6. QED
  BY <1>2, <1>3, <1>4, <1>5, Zenon DEF LinesFrom

\* A line in front of the lines behind it gives the lines from there on.
LEMMA LineInFront ==
  ASSUME NEW S, NEW t \in Seq(S), NEW i \in 1 .. Len(t), NEW e, LineEnds(t, i, e),
         NEW lines, LinesFrom(lines, S, t, e + 1)
  PROVE  LinesFrom(<<SubSeq(t, i, e)>> \o lines, S, t, i)
<1> DEFINE a == SubSeq(t, i, e)
           ls == <<a>> \o lines
           n == Len(t)
           m == Len(lines)
<1>1. /\ a \in Seq(S) /\ Len(a) = e - i + 1 /\ e \in i .. Len(t)
      /\ \A j \in 1 .. e - i + 1 : a[j] = t[i + j - 1]
  <2>1. e \in i .. Len(t)
    BY LineInText
  <2>2. IsCut(SubSeq(t, i, e), S, t, i, e - i + 1)
    BY LineInText
  <2>3. QED
    BY <2>1, <2>2 DEF IsCut
<1>2. /\ lines \in Seq(Seq(S)) /\ FlattenSeq(lines) = Rest(t, e + 1)
      /\ e + 1 = n + 1 => lines = << >>
      /\ \A k \in 1 .. m : LineCut(lines[k], k = m)
  BY Zenon DEF LinesFrom
<1>3. n \in Nat /\ m \in Nat
  BY <1>2, LenProperties
<1>4. <<a>> \in Seq(Seq(S)) /\ Len(<<a>>) = 1 /\ <<a>>[1] = a
  BY <1>1
<1>5. ls \in Seq(Seq(S)) /\ Len(ls) = 1 + m
  BY <1>2, <1>4, ConcatProperties
<1>6. ls[1] = a /\ \A k \in 1 .. m : ls[1 + k] = lines[k]
  <2>1. \A k \in 1 .. 1 + m : ls[k] = IF k <= 1 THEN <<a>>[k] ELSE lines[k - 1]
    BY <1>2, <1>4, ConcatProperties
  <2> HIDE DEF ls, a
  <2>2. 1 \in 1 .. 1 + m /\ 1 <= 1
    BY <1>3
  <2>3. ls[1] = a
    BY <1>4, <2>1, <2>2
  <2>4. \A k \in 1 .. m : ls[1 + k] = lines[k]
    <3> TAKE k \in 1 .. m
    <3>1. 1 + k \in 1 .. 1 + m /\ ~(1 + k <= 1) /\ (1 + k) - 1 = k
      BY <1>3
    <3>2. ls[1 + k] = lines[(1 + k) - 1]
      BY <2>1, <3>1
    <3>3. QED
      BY <3>1, <3>2
  <2>5. QED
    BY <2>3, <2>4
<1>7. FlattenSeq(ls) = Rest(t, i)
  <2>1. FlattenSeq(ls) = a \o Rest(t, e + 1)
    <3>1. FlattenSeq(<<a>> \o lines) = a \o FlattenSeq(lines)
      BY <1>1, <1>2, FlattenCons
    <3>2. QED
      BY <1>2, <3>1
  <2>2. i \in 1 .. n + 1 /\ e \in i - 1 .. n /\ n \in e .. n
    BY <1>1, <1>3
  <2>3. SubSeq(t, i, e) \o SubSeq(t, e + 1, n) = SubSeq(t, i, n)
    BY <2>2, ConcatAdjacentSubSeq
  <2>4. QED
    BY <2>1, <2>3 DEF Rest
<1>8. i # n + 1
  BY <1>3
<1>9. LineCut(a, 1 = Len(ls))
  <2>1. DOMAIN a = 1 .. e - i + 1 /\ n \in Nat
    BY <1>1, <1>3, LenProperties
  <2>2. (e = n \/ t[e] = Newline) /\ \A j \in i .. e - 1 : t[j] # Newline
    BY <1>1 DEF LineEnds
  <2> HIDE DEF ls, a
  <2>3. \A j \in 1 .. e - i + 1 : a[j] = Newline => j = e - i + 1
    <3> SUFFICES ASSUME NEW j \in 1 .. e - i + 1, j # e - i + 1 PROVE a[j] # Newline
      OBVIOUS
    <3>1. i + j - 1 \in i .. e - 1
      BY <1>1, <1>3
    <3>2. QED
      BY <1>1, <2>2, <3>1
  <2>4. 1 # Len(ls) => a[e - i + 1] = Newline
    <3> SUFFICES ASSUME 1 # Len(ls) PROVE a[e - i + 1] = Newline
      OBVIOUS
    <3>1. e # n
      <4> SUFFICES ASSUME e = n PROVE FALSE
        OBVIOUS
      <4>1. lines = << >>
        BY <1>2
      <4>2. m = 0
        BY <4>1, EmptySeq
      <4>3. QED
        BY <1>5, <4>2
    <3>2. e - i + 1 \in 1 .. e - i + 1 /\ i + (e - i + 1) - 1 = e
      BY <1>1, <1>3
    <3>3. a[e - i + 1] = t[e]
      BY <1>1, <3>2
    <3>4. QED
      BY <2>2, <3>1, <3>3
  <2>5. QED
    BY <1>1, <2>1, <2>3, <2>4, Zenon DEF LineCut
<1>10. \A k \in 1 .. Len(ls) : LineCut(ls[k], k = Len(ls))
  <2> TAKE k \in 1 .. Len(ls)
  <2> HIDE DEF ls, a
  <2>1. CASE k = 1
    BY <1>6, <1>9, <2>1
  <2>2. CASE k # 1
    <3> DEFINE j == k - 1
    <3>1. j \in 1 .. m /\ 1 + j = k
      BY <1>3, <1>5, <2>2
    <3> HIDE DEF j
    <3>2. LineCut(lines[j], j = m) /\ ls[k] = lines[j]
      BY <1>2, <1>6, <3>1
    <3>3. (j = m) <=> (k = Len(ls))
      BY <1>3, <1>5, <3>1
    <3>4. QED
      BY <3>2, <3>3 DEF LineCut
  <2>3. QED
    BY <2>1, <2>2
<1> HIDE DEF ls
<1>11. LinesFrom(ls, S, t, i)
  BY <1>5, <1>7, <1>8, <1>10, Zenon DEF LinesFrom
<1>12. QED
  BY <1>11 DEF ls

\* The lines that are read are those of the whole text.
LEMMA ReadLinesIs ==
  ASSUME NEW S, NEW t \in Seq(S)
  PROVE  LinesFrom(ReadLines(t), S, t, 1)
<1> DEFINE n == Len(t)
           Body(f) == [i \in 1 .. n + 1 |-> LinesThen(f, t, i)]
           c == CHOOSE f : f = Body(f)
<1>1. n \in Nat /\ 1 \in 1 .. n + 1 /\ n + 1 \in 1 .. n + 1
  BY LenProperties
<1>2. c = Body(c)
  <2>1. \E f : f = Body(f)
    BY LinesExist, Zenon
  <2>2. QED
    BY <2>1, Zenon
<1>3. ReadLines(t) = c[1]
  BY Zenon DEF ReadLines, LinesThen, LineAt, Rest
<1> HIDE DEF c
<1>4. \A i \in 1 .. n + 1 : c[i] = LinesThen(c, t, i)
  BY <1>2, Zenon
<1> DEFINE G == {i \in 1 .. n + 1 : LinesFrom(c[i], S, t, i)}
<1>5. n + 1 \in G
  <2>1. LineAt(t, n + 1) = << >>
    BY LineOrEnd
  <2>2. c[n + 1] = LinesThen(c, t, n + 1)
    BY <1>1, <1>4, Zenon
  <2> HIDE DEF n
  <2>3. c[n + 1] = << >>
    BY <2>1, <2>2, Zenon DEF LinesThen
  <2>4. LinesFrom(<< >>, S, t, n + 1)
    BY NoLines, Zenon DEF n
  <2>5. QED
    BY <1>1, <2>3, <2>4
<1> HIDE DEF n
<1>6. ASSUME NEW i \in 1 .. n, \A j \in i + 1 .. n + 1 : j \in G PROVE i \in G
  <2> DEFINE a == LineAt(t, i)
  <2>1. i \in 1 .. Len(t) /\ i \in 1 .. Len(t) + 1 /\ i \in 1 .. n + 1 /\ Len(t) = n
    BY <1>1 DEF n
  <2>2. PICK e : LineEnds(t, i, e) /\ a = SubSeq(t, i, e)
    BY <2>1, LineAtIs, Zenon
  <2>3. LineEnds(t, i, e)
    BY <2>2, Zenon
  <2>4. e \in i .. n
    BY <2>1, <2>3, LineInText
  <2>5. IsCut(SubSeq(t, i, e), S, t, i, e - i + 1)
    BY <2>1, <2>3, LineInText
  <2>6. Len(a) = e - i + 1 /\ a # << >>
    <3>1. Len(a) = e - i + 1
      BY <2>2, <2>5, Zenon DEF IsCut
    <3>2. a # << >>
      BY <2>1, LineOrEnd
    <3>3. QED
      BY <3>1, <3>2
  <2>7. c[i] = <<a>> \o c[i + Len(a)]
    <3>1. c[i] = LinesThen(c, t, i)
      BY <1>4, <2>1, Zenon
    <3>2. QED
      BY <2>6, <3>1, Zenon DEF LinesThen
  <2> HIDE DEF a
  <2>8. i + Len(a) = e + 1 /\ e + 1 \in i + 1 .. n + 1
    BY <1>1, <2>4, <2>6
  <2>9. LinesFrom(c[e + 1], S, t, e + 1)
    BY <1>6, <2>8
  <2>10. LinesFrom(<<SubSeq(t, i, e)>> \o c[e + 1], S, t, i)
    BY <2>1, <2>3, <2>9, LineInFront, Zenon
  <2>11. c[i] = <<SubSeq(t, i, e)>> \o c[e + 1]
    BY <2>2, <2>7, <2>8
  <2>12. LinesFrom(c[i], S, t, i)
    BY <2>10, <2>11, Zenon
  <2>13. QED
    BY <2>1, <2>12
<1> HIDE DEF G
<1>7. 1 \in G
  <2>1. \A i \in 1 .. n + 1 : i \in G
    BY <1>1, <1>5, <1>6, AllDown, Zenon
  <2>2. QED
    BY <1>1, <2>1
<1>8. QED
  BY <1>3, <1>7, Zenon DEF G

\* readlines gives a text back, line for line.
LEMMA LinesGiveBack ==
  ASSUME text \in Seq(Bytes)
  PROVE  LinesReadBack
<1> DEFINE lines == ReadLines(text)
<1>1. LinesFrom(lines, Bytes, text, 1)
  BY ReadLinesIs, Zenon
<1>2. Rest(text, 1) = text
  BY SubSeqFull DEF Rest
<1> HIDE DEF lines
<1>3. lines \in Seq(Seq(Bytes)) /\ FlattenSeq(lines) = text
  BY <1>1, <1>2, Zenon DEF LinesFrom
<1>4. \A k \in 1 .. Len(lines) : LineCut(lines[k], k = Len(lines))
  BY <1>1, Zenon DEF LinesFrom
<1>5. DOMAIN lines = 1 .. Len(lines) /\ Len(lines) \in Nat
  BY <1>3, LenProperties
<1>6. ASSUME NEW k \in DOMAIN lines, NEW j \in DOMAIN lines[k]
      PROVE  /\ lines[k][j] = Newline => j = Len(lines[k])
             /\ j = Len(lines[k]) /\ k < Len(lines) => lines[k][j] = Newline
  <2>1. k \in 1 .. Len(lines)
    BY <1>5
  <2>2. k < Len(lines) => ~(k = Len(lines))
    BY <1>5, <2>1
  <2>3. LineCut(lines[k], k = Len(lines))
    BY <1>4, <2>1
  <2>4. QED
    BY <2>2, <2>3, Zenon DEF LineCut
<1>7. QED
  BY <1>3, <1>6, Zenon DEF LinesReadBack, lines, Newline

-----------------------------------------------------------------------------
\* The separator is in the text at k, byte by byte.
Occurs(t, sep, k) ==
  /\ k \in 1 .. Len(t) - Len(sep) + 1
  /\ \A j \in 1 .. Len(sep) : t[k + j - 1] = sep[j]

\* at is the first place at or behind i where it is.
FirstAt(t, sep, i, at) ==
  \/ at = 0 /\ \A k \in i .. Len(t) : ~Occurs(t, sep, k)
  \/ at \in i .. Len(t) /\ Occurs(t, sep, at) /\ \A k \in i .. at - 1 : ~Occurs(t, sep, k)

\* A text that a separator may be in: not an empty one, which strstr finds everywhere.
Separates(sep, S) == sep \in Seq(S) /\ Len(sep) \in Nat /\ Len(sep) > 0

\* The comparison of split finds sep where its bytes are.
LEMMA OccursIs ==
  ASSUME NEW S, NEW t \in Seq(S), NEW sep, Separates(sep, S), NEW k \in 1 .. Len(t) - Len(sep) + 1
  PROVE  SubSeq(t, k, k + Len(sep) - 1) = sep <=> Occurs(t, sep, k)
<1> DEFINE m == Len(sep)
           u == SubSeq(t, k, k + m - 1)
<1>1. Len(t) \in Nat /\ m \in Nat /\ m > 0 /\ sep \in Seq(S)
  BY LenProperties DEF Separates
<1>2. InText(t, k, k + m - 1, m)
  BY <1>1 DEF InText
<1>3. IsCut(u, S, t, k, m)
  BY <1>2, PieceIs, Zenon
<1> HIDE DEF u
<1>4. u \in Seq(S) /\ Len(u) = m /\ \A j \in 1 .. m : u[j] = t[k + j - 1]
  BY <1>3, Zenon DEF IsCut
<1>5. ASSUME u = sep PROVE Occurs(t, sep, k)
  BY <1>4, <1>5 DEF Occurs
<1>6. ASSUME Occurs(t, sep, k) PROVE u = sep
  <2>1. \A j \in 1 .. m : u[j] = sep[j]
    BY <1>4, <1>6 DEF Occurs
  <2> HIDE DEF m
  <2>2. \A j \in 1 .. Len(u) : u[j] = sep[j]
    BY <1>4, <2>1
  <2>3. Len(u) = Len(sep)
    BY <1>4 DEF m
  <2>4. QED
    BY <1>1, <1>4, <2>2, <2>3, SeqEqual
<1>7. QED
  BY <1>5, <1>6 DEF u

\* Found is the first place where sep is, or 0.
LEMMA FoundIs ==
  ASSUME NEW S, NEW t \in Seq(S), NEW sep, Separates(sep, S), NEW i \in 1 .. Len(t) + 1
  PROVE  FirstAt(t, sep, i, Found(t, sep, i))
<1> DEFINE last == Len(t) - Len(sep) + 1
           at == Found(t, sep, i)
           cuts == [k \in 1 .. last |-> SubSeq(t, k, k + Len(sep) - 1)]
           I == {k \in i .. last : cuts[k] = sep}
<1>1. Len(t) \in Nat /\ Len(sep) \in Nat /\ Len(sep) > 0 /\ last \in Int /\ last <= Len(t)
  BY LenProperties DEF Separates
<1>2. at = IF I # {} THEN Min(I) ELSE 0
  BY Zenon DEF Found, SelectInSubSeq
<1>3. \A k \in i .. last : cuts[k] = sep <=> Occurs(t, sep, k)
  <2> TAKE k \in i .. last
  <2>1. k \in 1 .. last
    BY <1>1
  <2>2. cuts[k] = SubSeq(t, k, k + Len(sep) - 1)
    BY <2>1
  <2>3. SubSeq(t, k, k + Len(sep) - 1) = sep <=> Occurs(t, sep, k)
    BY <2>1, OccursIs
  <2>4. QED
    BY <2>2, <2>3, Zenon
<1> HIDE DEF at, cuts
<1>4. \A k : Occurs(t, sep, k) => k \in 1 .. last
  BY DEF Occurs
<1>5. I = {k \in i .. last : Occurs(t, sep, k)}
  BY <1>3
<1> HIDE DEF I, last
<1>6. CASE I = {}
  <2>1. at = 0
    BY <1>2, <1>6
  <2>2. \A k \in i .. Len(t) : ~Occurs(t, sep, k)
    <3> SUFFICES ASSUME NEW k \in i .. Len(t), Occurs(t, sep, k) PROVE FALSE
      OBVIOUS
    <3>1. k \in i .. last
      BY <1>1, <1>4
    <3>2. QED
      BY <1>5, <1>6, <3>1
  <2>3. QED
    BY <2>1, <2>2, Zenon DEF FirstAt, at
<1>7. CASE I # {}
  <2>1. I \in SUBSET Nat
    BY <1>1, <1>5
  <2>2. Min(I) \in I /\ \A k \in I : Min(I) <= k
    BY <1>7, <2>1, MinOfNats
  <2>3. at \in I /\ \A k \in I : at <= k
    BY <1>2, <1>7, <2>2
  <2>4. at \in i .. last /\ Occurs(t, sep, at) /\ at \in i .. Len(t)
    BY <1>1, <1>5, <2>3
  <2>5. \A k \in i .. at - 1 : ~Occurs(t, sep, k)
    <3> SUFFICES ASSUME NEW k \in i .. at - 1, Occurs(t, sep, k) PROVE FALSE
      OBVIOUS
    <3>1. k \in i .. last /\ ~(at <= k)
      BY <1>1, <2>4
    <3>2. k \in I
      BY <1>5, <3>1
    <3>3. QED
      BY <2>3, <3>1, <3>2
  <2>6. QED
    BY <2>4, <2>5, Zenon DEF FirstAt, at
<1>8. QED
  BY <1>6, <1>7

\* A part without the separator, and that strstr finds none in it.
Clean(p, sep) == \A k \in 1 .. Len(p) : ~Occurs(p, sep, k)

\* In a part without sep none is found.
LEMMA CleanFound ==
  ASSUME NEW S, NEW p \in Seq(S), NEW sep, Separates(sep, S), Clean(p, sep)
  PROVE  Found(p, sep, 1) = 0
<1>1. Len(p) \in Nat /\ 1 \in 1 .. Len(p) + 1
  BY LenProperties
<1>2. FirstAt(p, sep, 1, Found(p, sep, 1))
  BY <1>1, FoundIs, Zenon
<1>3. QED
  BY <1>2, Zenon DEF FirstAt, Clean

\* A piece of a text has no separator if the text has none where the piece is.
LEMMA CleanPiece ==
  ASSUME NEW S, NEW t \in Seq(S), NEW sep, Separates(sep, S), NEW a, NEW b, NEW n,
         InText(t, a, b, n), \A k \in a .. b : ~Occurs(t, sep, k)
  PROVE  Clean(SubSeq(t, a, b), sep)
<1> DEFINE p == SubSeq(t, a, b)
           m == Len(sep)
<1>1. /\ Len(t) \in Nat /\ a \in 1 .. Len(t) + 1 /\ b \in a - 1 .. Len(t) /\ n = b - a + 1
      /\ m \in Nat /\ m > 0
  BY LenProperties DEF InText, Separates
<1>2. IsCut(p, S, t, a, n)
  BY PieceIs, Zenon
<1> HIDE DEF p
<1>3. p \in Seq(S) /\ Len(p) = n /\ \A j \in 1 .. n : p[j] = t[a + j - 1]
  BY <1>2, Zenon DEF IsCut
<1>4. ASSUME NEW k \in 1 .. Len(p), Occurs(p, sep, k) PROVE FALSE
  <2>1. k \in 1 .. n - m + 1 /\ \A j \in 1 .. m : p[k + j - 1] = sep[j]
    BY <1>3, <1>4, Zenon DEF Occurs
  <2> DEFINE h == a + k - 1
  <2>2. h \in a .. b /\ h \in 1 .. Len(t) - m + 1
    BY <1>1, <2>1
  <2>3. \A j \in 1 .. m : t[h + j - 1] = sep[j]
    <3> TAKE j \in 1 .. m
    <3>1. k + j - 1 \in 1 .. n /\ a + (k + j - 1) - 1 = h + j - 1
      <4>1. n \in Int /\ k \in Int /\ m \in Int /\ j \in Int /\ a \in Int
        BY <1>1, <2>1
      <4>2. 1 <= k /\ k <= n - m + 1 /\ 1 <= j /\ j <= m
        BY <1>1, <2>1
      <4> HIDE DEF m
      <4>3. QED
        BY <4>1, <4>2
    <3>2. p[k + j - 1] = t[a + (k + j - 1) - 1]
      BY <1>3, <3>1
    <3>3. QED
      BY <2>1, <3>1, <3>2
  <2>4. Occurs(t, sep, h)
    BY <2>2, <2>3 DEF Occurs
  <2>5. QED
    BY <2>2, <2>4
<1>5. QED
  BY <1>4, Zenon DEF Clean, p

-----------------------------------------------------------------------------
\* The parts, each with the separator behind it.
WithSep(p, sep) == [i \in DOMAIN p |-> p[i] \o sep]
Led(p, sep) == FlattenSeq(WithSep(p, sep))

\* Each part has sep behind it.
LEMMA WithSepParts ==
  ASSUME NEW S, NEW p \in Seq(Seq(S)), NEW sep \in Seq(S)
  PROVE  /\ WithSep(p, sep) \in Seq(Seq(S))
         /\ Len(WithSep(p, sep)) = Len(p)
         /\ \A i \in 1 .. Len(p) : WithSep(p, sep)[i] = p[i] \o sep
<1>1. Len(p) \in Nat /\ DOMAIN p = 1 .. Len(p)
  BY LenProperties
<1>2. \A i \in 1 .. Len(p) : p[i] \in Seq(S)
  BY ElementOfSeq
<1>3. \A i \in 1 .. Len(p) : p[i] \o sep \in Seq(S)
  BY <1>2, ConcatProperties
<1>4. WithSep(p, sep) = [i \in 1 .. Len(p) |-> p[i] \o sep]
  BY <1>1, Zenon DEF WithSep
<1>5. QED
  BY <1>1, <1>3, <1>4

\* The parts with their sep are bytes.
LEMMA LedSeqs ==
  ASSUME NEW S, NEW p \in Seq(Seq(S)), NEW sep \in Seq(S)
  PROVE  Led(p, sep) \in Seq(S)
<1>1. WithSep(p, sep) \in Seq(Seq(S))
  BY WithSepParts
<1>2. QED
  BY <1>1, FlattenSeqs, Zenon DEF Led

\* No parts are no bytes.
LEMMA LedNone ==
  ASSUME NEW S, NEW sep \in Seq(S)
  PROVE  Led(<< >>, sep) = << >>
<1>1. << >> \in Seq(Seq(S)) /\ Len(<< >>) = 0
  BY EmptySeq
<1>2. WithSep(<< >>, sep) \in Seq(Seq(S)) /\ Len(WithSep(<< >>, sep)) = 0
  BY <1>1, WithSepParts
<1>3. WithSep(<< >>, sep) = << >>
  BY <1>2, EmptySeq
<1>4. QED
  BY <1>3, FlattenNone, Zenon DEF Led

\* One more part comes behind the others with its sep.
LEMMA LedAppend ==
  ASSUME NEW S, NEW p \in Seq(Seq(S)), NEW sep \in Seq(S), NEW x \in Seq(S)
  PROVE  Led(Append(p, x), sep) = Led(p, sep) \o (x \o sep)
<1> DEFINE q == Append(p, x)
           u == WithSep(q, sep)
           w == WithSep(p, sep)
           v == Append(w, x \o sep)
           n == Len(p)
<1>1. n \in Nat /\ x \o sep \in Seq(S)
  BY LenProperties, ConcatProperties
<1>2. /\ q \in Seq(Seq(S)) /\ Len(q) = n + 1 /\ q[n + 1] = x
      /\ \A i \in 1 .. n : q[i] = p[i]
  BY AppendProperties
<1> HIDE DEF q
<1>3. u \in Seq(Seq(S)) /\ Len(u) = n + 1 /\ \A i \in 1 .. n + 1 : u[i] = q[i] \o sep
  BY <1>2, WithSepParts
<1>4. w \in Seq(Seq(S)) /\ Len(w) = n /\ \A i \in 1 .. n : w[i] = p[i] \o sep
  BY WithSepParts
<1> HIDE DEF u, w
<1>5. /\ v \in Seq(Seq(S)) /\ Len(v) = n + 1 /\ v[n + 1] = x \o sep
      /\ \A i \in 1 .. n : v[i] = w[i]
  BY <1>1, <1>4, AppendProperties
<1> HIDE DEF v, n
<1>6. \A i \in 1 .. n + 1 : u[i] = v[i]
  <2> TAKE i \in 1 .. n + 1
  <2>1. CASE i = n + 1
    BY <1>2, <1>3, <1>5, <2>1
  <2>2. CASE i # n + 1
    <3>1. i \in 1 .. n
      BY <1>1, <2>2
    <3>2. u[i] = q[i] \o sep
      BY <1>3
    <3>3. v[i] = p[i] \o sep
      BY <1>4, <1>5, <3>1
    <3>4. QED
      BY <1>2, <3>1, <3>2, <3>3
  <2>3. QED
    BY <2>1, <2>2
<1>7. u = v
  BY <1>3, <1>5, <1>6, SeqEqual
<1>8. FlattenSeq(v) = FlattenSeq(w) \o (x \o sep)
  BY <1>1, <1>4, FlattenAppend DEF v
<1>9. QED
  BY <1>7, <1>8, Zenon DEF Led, u, w, q

\* Joined, the last part has no separator behind it.
LEMMA JoinAppend ==
  ASSUME NEW S, NEW p \in Seq(Seq(S)), NEW sep \in Seq(S), NEW x \in Seq(S)
  PROVE  Join(Append(p, x), sep) = Led(p, sep) \o x
<1> DEFINE q == Append(p, x)
           u == [i \in DOMAIN q |-> IF i = Len(q) THEN q[i] ELSE q[i] \o sep]
           w == WithSep(p, sep)
           v == Append(w, x)
           n == Len(p)
<1>1. n \in Nat
  BY LenProperties
<1>2. /\ q \in Seq(Seq(S)) /\ Len(q) = n + 1 /\ q[n + 1] = x
      /\ \A i \in 1 .. n : q[i] = p[i]
  BY AppendProperties
<1>3. Join(q, sep) = FlattenSeq(u)
  BY Zenon DEF Join
<1> HIDE DEF q
<1>4. DOMAIN q = 1 .. n + 1
  BY <1>2, LenProperties
<1>5. \A i \in 1 .. n + 1 : q[i] \in Seq(S)
  BY <1>2, ElementOfSeq
<1>6. \A i \in 1 .. n + 1 : q[i] \o sep \in Seq(S)
  BY <1>5, ConcatProperties
<1>7. u = [i \in 1 .. n + 1 |-> IF i = n + 1 THEN q[i] ELSE q[i] \o sep]
  BY <1>2, <1>4, Zenon
<1> HIDE DEF u
<1>8. /\ u \in Seq(Seq(S)) /\ Len(u) = n + 1
      /\ \A i \in 1 .. n + 1 : u[i] = IF i = n + 1 THEN q[i] ELSE q[i] \o sep
  BY <1>1, <1>5, <1>6, <1>7
<1>9. w \in Seq(Seq(S)) /\ Len(w) = n /\ \A i \in 1 .. n : w[i] = p[i] \o sep
  BY WithSepParts
<1> HIDE DEF w
<1>10. /\ v \in Seq(Seq(S)) /\ Len(v) = n + 1 /\ v[n + 1] = x
       /\ \A i \in 1 .. n : v[i] = w[i]
  BY <1>9, AppendProperties
<1> HIDE DEF v, n
<1>11. \A i \in 1 .. n + 1 : u[i] = v[i]
  <2> TAKE i \in 1 .. n + 1
  <2>1. CASE i = n + 1
    BY <1>2, <1>8, <1>10, <2>1
  <2>2. CASE i # n + 1
    <3>1. i \in 1 .. n
      BY <1>1, <2>2
    <3>2. u[i] = q[i] \o sep
      BY <1>8, <2>2
    <3>3. v[i] = p[i] \o sep
      BY <1>9, <1>10, <3>1
    <3>4. QED
      BY <1>2, <3>1, <3>2, <3>3
  <2>3. QED
    BY <2>1, <2>2
<1>12. u = v
  BY <1>8, <1>10, <1>11, SeqEqual
<1>13. FlattenSeq(v) = FlattenSeq(w) \o x
  BY <1>9, FlattenAppend DEF v
<1>14. QED
  BY <1>3, <1>12, <1>13, Zenon DEF Led, w, q

-----------------------------------------------------------------------------
\* The parts of a text that is split at no more than ms places.
SplitParts(parts, S, t, sep, ms) ==
  /\ parts \in Seq(Seq(S))
  /\ Len(parts) > 0
  /\ Join(parts, sep) = t
  /\ ms >= 0 => Len(parts) <= ms + 1
  /\ \A i \in 1 .. Len(parts) :
       i < Len(parts) \/ ms < 0 \/ Len(parts) <= ms => Clean(parts[i], sep)

\* Those that were cut off in the first k rounds.
PartsSoFar(parts, k, start, S, t, sep, ms) ==
  /\ parts \in Seq(Seq(S))
  /\ Len(parts) = k
  /\ start \in k + 1 .. Len(t) + 1
  /\ Led(parts, sep) = SubSeq(t, 1, start - 1)
  /\ ms >= 0 => k <= ms
  /\ \A i \in 1 .. k : Clean(parts[i], sep)

SplitAfter(l, k, S, t, sep, ms) ==
  /\ l.start = 0 => SplitParts(l.parts, S, t, sep, ms)
  /\ l.start # 0 => PartsSoFar(l.parts, k, l.start, S, t, sep, ms)

SplitRound(t, sep, ms, l, k) ==
  IF SplitEnded(l) THEN l ELSE SplitStep(t, sep, ms, l, k - 1)

SplitStates(S, t) == [start : 0 .. Len(t) + 1, parts : Seq(Seq(S))]

\* What is split is split so far before the first round.
LEMMA SplitBegun ==
  ASSUME NEW S, NEW t \in Seq(S), NEW sep, Separates(sep, S), NEW ms \in Int
  PROVE  SplitStart \in SplitStates(S, t) /\ SplitAfter(SplitStart, 0, S, t, sep, ms)
<1>1. Len(t) \in Nat /\ sep \in Seq(S)
  BY LenProperties DEF Separates
<1>2. << >> \in Seq(Seq(S)) /\ Len(<< >>) = 0
  BY EmptySeq
<1>3. SplitStart.start = 1 /\ SplitStart.parts = << >> /\ SplitStart \in SplitStates(S, t)
  BY <1>1, <1>2 DEF SplitStart, SplitStates
<1>4. Led(<< >>, sep) = << >>
  BY <1>1, LedNone
<1>5. SubSeq(t, 1, 1 - 1) = << >>
  BY SubSeqEmpty
<1>6. 1 \in 0 + 1 .. Len(t) + 1 /\ (ms >= 0 => 0 <= ms) /\ \A i \in 1 .. 0 : FALSE
  BY <1>1
<1>7. PartsSoFar(<< >>, 0, 1, S, t, sep, ms)
  BY <1>2, <1>4, <1>5, <1>6 DEF PartsSoFar
<1>8. QED
  BY <1>3, <1>7 DEF SplitAfter

\* A part more in front of a separator.
LEMMA PartBefore ==
  ASSUME NEW S, NEW t \in Seq(S), NEW sep, Separates(sep, S), NEW ms \in Int,
         NEW parts, NEW k \in Nat, NEW start, PartsSoFar(parts, k, start, S, t, sep, ms),
         NEW at \in start .. Len(t), Occurs(t, sep, at),
         \A i \in start .. at - 1 : ~Occurs(t, sep, i), ms < 0 \/ k < ms
  PROVE  PartsSoFar(Append(parts, SubSeq(t, start, at - 1)), k + 1, AfterSep(at, sep),
                    S, t, sep, ms)
<1> DEFINE x == SubSeq(t, start, at - 1)
           m == Len(sep)
           u == SubSeq(t, 1, start - 1)
           p == Append(parts, x)
           f == AfterSep(at, sep)
<1>1. Len(t) \in Nat /\ m \in Nat /\ m > 0 /\ sep \in Seq(S)
  BY LenProperties DEF Separates
<1>2. /\ parts \in Seq(Seq(S)) /\ Len(parts) = k /\ start \in k + 1 .. Len(t) + 1
      /\ Led(parts, sep) = u /\ \A i \in 1 .. k : Clean(parts[i], sep)
  BY Zenon DEF PartsSoFar
<1>3. /\ at \in 1 .. Len(t) - m + 1 /\ start \in 1 .. Len(t) + 1 /\ at - 1 \in start - 1 .. Len(t)
      /\ at - 1 + 1 = at
  BY <1>1, <1>2 DEF Occurs
<1>4. SubSeq(t, at, at + m - 1) = sep
  BY <1>1, <1>3, OccursIs
<1>5. InText(t, start, at - 1, (at - 1) - start + 1)
  BY <1>3 DEF InText
<1>6. x \in Seq(S)
  BY <1>5, PieceIs DEF IsCut
<1>7. Clean(x, sep)
  BY <1>5, CleanPiece, Zenon
<1> HIDE DEF x
<1>8. /\ p \in Seq(Seq(S)) /\ Len(p) = k + 1 /\ p[k + 1] = x
      /\ \A i \in 1 .. k : p[i] = parts[i]
  BY <1>2, <1>6, AppendProperties
<1>9. Led(p, sep) = u \o (x \o sep)
  <2>1. sep \in Seq(S)
    BY <1>1
  <2>2. parts \in Seq(Seq(S)) /\ Led(parts, sep) = u
    BY <1>2
  <2> HIDE DEF u
  <2>3. Led(p, sep) = Led(parts, sep) \o (x \o sep)
    BY <1>6, <2>1, <2>2, LedAppend
  <2>4. QED
    BY <2>2, <2>3, Zenon
<1>10. x \o sep = SubSeq(t, start, at + m - 1)
  <2>1. at + m - 1 \in at - 1 .. Len(t)
    BY <1>1, <1>3
  <2>2. SubSeq(t, start, at - 1) \o SubSeq(t, at - 1 + 1, at + m - 1) = SubSeq(t, start, at + m - 1)
    BY <1>3, <2>1, ConcatAdjacentSubSeq
  <2>3. SubSeq(t, start, at - 1) \o SubSeq(t, at, at + m - 1) = SubSeq(t, start, at + m - 1)
    BY <1>3, <2>2
  <2>4. QED
    BY <1>4, <2>3 DEF x
<1>11. u \o SubSeq(t, start, at + m - 1) = SubSeq(t, 1, at + m - 1)
  <2>1. /\ 1 \in 1 .. Len(t) + 1 /\ start - 1 \in 1 - 1 .. Len(t)
        /\ at + m - 1 \in start - 1 .. Len(t) /\ start - 1 + 1 = start
    BY <1>1, <1>3
  <2>2. SubSeq(t, 1, start - 1) \o SubSeq(t, start - 1 + 1, at + m - 1) = SubSeq(t, 1, at + m - 1)
    BY <2>1, ConcatAdjacentSubSeq
  <2>3. QED
    BY <2>1, <2>2
<1>12. f = at + m /\ f - 1 = at + m - 1
  BY <1>1 DEF AfterSep
<1> HIDE DEF p, f, u
<1>13. Led(p, sep) = SubSeq(t, 1, f - 1)
  BY <1>9, <1>10, <1>11, <1>12
<1>14. f \in (k + 1) + 1 .. Len(t) + 1
  BY <1>1, <1>2, <1>3, <1>12
<1>15. \A i \in 1 .. k + 1 : Clean(p[i], sep)
  <2> TAKE i \in 1 .. k + 1
  <2>1. CASE i = k + 1
    BY <1>7, <1>8, <2>1
  <2>2. CASE i # k + 1
    BY <1>2, <1>8, <2>2
  <2>3. QED
    BY <2>1, <2>2
<1>16. ms >= 0 => k + 1 <= ms
  OBVIOUS
<1>17. PartsSoFar(p, k + 1, f, S, t, sep, ms)
  BY <1>8, <1>13, <1>14, <1>15, <1>16, Zenon DEF PartsSoFar
<1>18. QED
  BY <1>17, Zenon DEF p, f, x

\* The last part, behind which no separator is searched or found.
LEMMA PartAtEnd ==
  ASSUME NEW S, NEW t \in Seq(S), NEW sep, Separates(sep, S), NEW ms \in Int,
         NEW parts, NEW k \in Nat, NEW start, PartsSoFar(parts, k, start, S, t, sep, ms),
         (ms < 0 \/ k < ms) => \A i \in start .. Len(t) : ~Occurs(t, sep, i)
  PROVE  SplitParts(Append(parts, SubSeq(t, start, Len(t))), S, t, sep, ms)
<1> DEFINE x == SubSeq(t, start, Len(t))
           u == SubSeq(t, 1, start - 1)
           p == Append(parts, x)
<1>1. Len(t) \in Nat /\ sep \in Seq(S)
  BY LenProperties DEF Separates
<1>2. /\ parts \in Seq(Seq(S)) /\ Len(parts) = k /\ start \in k + 1 .. Len(t) + 1
      /\ Led(parts, sep) = u /\ \A i \in 1 .. k : Clean(parts[i], sep)
      /\ ms >= 0 => k <= ms
  BY Zenon DEF PartsSoFar
<1>3. InText(t, start, Len(t), Len(t) - start + 1)
  BY <1>1, <1>2 DEF InText
<1>4. x \in Seq(S)
  BY <1>3, PieceIs DEF IsCut
<1>5. (ms < 0 \/ k < ms) => Clean(x, sep)
  BY <1>3, CleanPiece, Zenon
<1> HIDE DEF x
<1>6. /\ p \in Seq(Seq(S)) /\ Len(p) = k + 1 /\ p[k + 1] = x
      /\ \A i \in 1 .. k : p[i] = parts[i]
  BY <1>2, <1>4, AppendProperties
<1>7. Join(p, sep) = u \o x
  BY <1>1, <1>2, <1>4, JoinAppend
<1>8. u \o x = t
  <2>1. /\ 1 \in 1 .. Len(t) + 1 /\ start - 1 \in 1 - 1 .. Len(t)
        /\ Len(t) \in start - 1 .. Len(t) /\ start - 1 + 1 = start
    BY <1>1, <1>2
  <2>2. SubSeq(t, 1, start - 1) \o SubSeq(t, start - 1 + 1, Len(t)) = SubSeq(t, 1, Len(t))
    BY <2>1, ConcatAdjacentSubSeq
  <2>3. SubSeq(t, 1, Len(t)) = t
    BY SubSeqFull
  <2>4. QED
    BY <2>1, <2>2, <2>3 DEF x
<1> HIDE DEF p, u
<1>9. \A i \in 1 .. Len(p) : i < Len(p) \/ ms < 0 \/ Len(p) <= ms => Clean(p[i], sep)
  <2> TAKE i \in 1 .. Len(p)
  <2>1. CASE i = k + 1
    <3>1. i < Len(p) \/ ms < 0 \/ Len(p) <= ms => ms < 0 \/ k < ms
      BY <1>6, <2>1
    <3>2. QED
      BY <1>5, <1>6, <2>1, <3>1
  <2>2. CASE i # k + 1
    <3>1. i \in 1 .. k
      BY <1>6, <2>2
    <3>2. QED
      BY <1>2, <1>6, <3>1
  <2>3. QED
    BY <2>1, <2>2
<1>10. Len(p) > 0 /\ (ms >= 0 => Len(p) <= ms + 1)
  BY <1>2, <1>6
<1>11. Join(p, sep) = t
  BY <1>7, <1>8
<1>12. SplitParts(p, S, t, sep, ms)
  BY <1>6, <1>9, <1>10, <1>11, Zenon DEF SplitParts
<1>13. QED
  BY <1>12, Zenon DEF p, x

\* It is after each round, if it was before it.
LEMMA SplitRoundIs ==
  ASSUME NEW S, NEW t \in Seq(S), NEW sep, Separates(sep, S), NEW ms \in Int,
         NEW l \in SplitStates(S, t), NEW k \in Nat \ {0}, SplitAfter(l, k - 1, S, t, sep, ms)
  PROVE  SplitAfter(SplitRound(t, sep, ms, l, k), k, S, t, sep, ms)
<1>1. Len(t) \in Nat /\ Len(sep) \in Nat
  BY LenProperties DEF Separates
<1>2. CASE l.start = 0
  BY <1>2 DEF SplitAfter, SplitRound, SplitEnded
<1>3. CASE l.start # 0
  <2> DEFINE start == l.start
             parts == l.parts
             at == Found(t, sep, start)
             split == k - 1
             may == ms < 0 \/ split < ms
  <2>1. PartsSoFar(parts, split, start, S, t, sep, ms)
    BY <1>3, Zenon DEF SplitAfter
  <2>2. start \in 1 .. Len(t) + 1 /\ split \in Nat
    BY <1>1, <1>3 DEF SplitStates
  <2>3. FirstAt(t, sep, start, at)
    BY <2>2, FoundIs, Zenon
  <2>4. SplitRound(t, sep, ms, l, k) = SplitStep(t, sep, ms, l, split)
    BY <1>3, Zenon DEF SplitRound, SplitEnded
  <2>5. split + 1 = k
    OBVIOUS
  <2> HIDE DEF at, split, start, parts
  <2>6. CASE may /\ at > 0
    <3>1. at \in start .. Len(t)
      BY <2>3, <2>6 DEF FirstAt
    <3>2. Occurs(t, sep, at)
      BY <2>3, <2>6 DEF FirstAt
    <3>3. \A i \in start .. at - 1 : ~Occurs(t, sep, i)
      BY <2>3, <2>6 DEF FirstAt
    <3> DEFINE p == Append(parts, SubSeq(t, start, at - 1))
               f == AfterSep(at, sep)
    <3>4. SplitStep(t, sep, ms, l, split) = [start |-> f, parts |-> p]
      BY <2>6, Zenon DEF SplitStep, at, start, parts
    <3>5. PartsSoFar(p, split + 1, f, S, t, sep, ms)
      BY <2>1, <2>2, <2>6, <3>1, <3>2, <3>3, PartBefore, Zenon
    <3>6. f # 0
      BY <1>1, <2>2, <3>1 DEF AfterSep
    <3> HIDE DEF p, f
    <3>7. SplitAfter([start |-> f, parts |-> p], k, S, t, sep, ms)
      BY <2>5, <3>5, <3>6 DEF SplitAfter
    <3>8. QED
      BY <2>4, <3>4, <3>7, Zenon
  <2>7. CASE ~(may /\ at > 0)
    <3>1. may => \A i \in start .. Len(t) : ~Occurs(t, sep, i)
      <4>1. may => ~(at \in start .. Len(t))
        BY <1>1, <2>2, <2>7
      <4>2. QED
        BY <2>3, <4>1, Zenon DEF FirstAt
    <3> DEFINE p == Append(parts, SubSeq(t, start, Len(t)))
    <3>2. SplitStep(t, sep, ms, l, split) = [start |-> 0, parts |-> p]
      <4>1. ~((IF may THEN at ELSE 0) > 0)
        BY <2>7
      <4>2. QED
        BY <4>1, Zenon DEF SplitStep, at, start, parts
    <3>3. SplitParts(p, S, t, sep, ms)
      BY <2>1, <2>2, <3>1, PartAtEnd, Zenon
    <3> HIDE DEF p
    <3>4. SplitAfter([start |-> 0, parts |-> p], k, S, t, sep, ms)
      BY <3>3 DEF SplitAfter
    <3>5. QED
      BY <2>4, <3>2, <3>4, Zenon
  <2>8. QED
    BY <2>6, <2>7
<1>4. QED
  BY <1>2, <1>3

\* Each round, also of a state that is never reached, gives a state.
LEMMA SplitRoundState ==
  ASSUME NEW S, NEW t \in Seq(S), NEW sep, Separates(sep, S), NEW ms \in Int,
         NEW l \in SplitStates(S, t), NEW k \in Nat
  PROVE  SplitRound(t, sep, ms, l, k) \in SplitStates(S, t)
<1>1. Len(t) \in Nat /\ Len(sep) \in Nat
  BY LenProperties DEF Separates
<1>2. CASE SplitEnded(l)
  BY <1>2, Zenon DEF SplitRound
<1>3. CASE ~SplitEnded(l)
  <2> DEFINE start == l.start
             parts == l.parts
             found == Found(t, sep, start)
             at == IF ms < 0 \/ k - 1 < ms THEN found ELSE 0
  <2>1. start \in 1 .. Len(t) + 1 /\ parts \in Seq(Seq(S))
    BY <1>1, <1>3 DEF SplitEnded, SplitStates
  <2>2. FirstAt(t, sep, start, found)
    BY <2>1, FoundIs, Zenon
  <2> HIDE DEF start, parts, found
  <2>3. at = 0 \/ (at \in start .. Len(t) /\ Occurs(t, sep, at))
    BY <2>2 DEF FirstAt
  <2>4. SplitRound(t, sep, ms, l, k) =
          IF at > 0 THEN [start |-> AfterSep(at, sep),
                          parts |-> Append(parts, SubSeq(t, start, at - 1))]
          ELSE [start |-> 0, parts |-> Append(parts, SubSeq(t, start, Len(t)))]
    BY <1>3, Zenon DEF SplitRound, SplitStep, start, parts, found
  <2> HIDE DEF at
  <2>5. CASE at > 0
    <3>1. at \in start .. Len(t) /\ Occurs(t, sep, at)
      BY <2>3, <2>5
    <3>2. AfterSep(at, sep) \in 0 .. Len(t) + 1
      BY <1>1, <2>1, <3>1 DEF AfterSep, Occurs
    <3>3. InText(t, start, at - 1, (at - 1) - start + 1)
      BY <1>1, <2>1, <3>1 DEF InText
    <3>4. SubSeq(t, start, at - 1) \in Seq(S)
      BY <3>3, PieceIs DEF IsCut
    <3>5. Append(parts, SubSeq(t, start, at - 1)) \in Seq(Seq(S))
      BY <2>1, <3>4, AppendProperties
    <3>6. QED
      BY <2>4, <2>5, <3>2, <3>5 DEF SplitStates
  <2>6. CASE ~(at > 0)
    <3>1. InText(t, start, Len(t), Len(t) - start + 1)
      BY <1>1, <2>1 DEF InText
    <3>2. SubSeq(t, start, Len(t)) \in Seq(S)
      BY <3>1, PieceIs DEF IsCut
    <3>3. Append(parts, SubSeq(t, start, Len(t))) \in Seq(Seq(S))
      BY <2>1, <3>2, AppendProperties
    <3>4. 0 \in 0 .. Len(t) + 1
      BY <1>1
    <3>5. QED
      BY <2>4, <2>6, <3>3, <3>4 DEF SplitStates
  <2>7. QED
    BY <2>5, <2>6
<1>4. QED
  BY <1>2, <1>3

IsSplitting(g, n, t, sep, ms) ==
  g[0] = SplitStart /\ \A k \in 1 .. n : g[k] = SplitRound(t, sep, ms, g[k - 1], k)

\* The rounds of a split can be made.
LEMMA SplittingExists ==
  ASSUME NEW S, NEW t \in Seq(S), NEW sep, Separates(sep, S), NEW ms \in Int, NEW n \in Nat
  PROVE  \E g \in [0 .. n -> SplitStates(S, t)] : IsSplitting(g, n, t, sep, ms)
<1> DEFINE V == SplitStates(S, t)
           F == [q \in V \X (1 .. n) |-> SplitRound(t, sep, ms, q[1], q[2])]
<1>1. SplitStart \in V
  BY SplitBegun, Zenon
<1>2. \A l \in V, k \in 1 .. n : SplitRound(t, sep, ms, l, k) \in V
  <2> TAKE l \in V, k \in 1 .. n
  <2>1. k \in Nat
    OBVIOUS
  <2>2. QED
    BY <2>1, SplitRoundState, Zenon
<1> HIDE DEF V
<1>3. F \in [V \X (1 .. n) -> V]
  <2> SUFFICES ASSUME NEW q \in V \X (1 .. n) PROVE SplitRound(t, sep, ms, q[1], q[2]) \in V
    OBVIOUS
  <2>1. q[1] \in V /\ q[2] \in 1 .. n
    OBVIOUS
  <2>2. QED
    BY <1>2, <2>1, Zenon
<1>4. \A l \in V, k \in 1 .. n : F[<<l, k>>] = SplitRound(t, sep, ms, l, k)
  OBVIOUS
<1> HIDE DEF F
<1>5. PICK g \in [0 .. n -> V] : Steps(g, n, SplitStart, F)
  BY <1>1, <1>3, StepsExist, Zenon
<1>6. g[0] = SplitStart /\ \A k \in 1 .. n : g[k] = F[<<g[k - 1], k>>]
  BY <1>5, Zenon DEF Steps
<1>7. \A k \in 1 .. n : g[k] = SplitRound(t, sep, ms, g[k - 1], k)
  <2> TAKE k \in 1 .. n
  <2>1. k - 1 \in 0 .. n
    OBVIOUS
  <2>2. g[k - 1] \in V
    BY <2>1
  <2>3. QED
    BY <1>4, <1>6, <2>2, Zenon
<1>8. QED
  BY <1>6, <1>7, Zenon DEF V, IsSplitting

\* A split gives parts that are joined to the text, and without sep if there is no limit.
LEMMA SplitIs ==
  ASSUME NEW S, NEW t \in Seq(S), NEW sep, Separates(sep, S), NEW ms \in Int
  PROVE  SplitParts(Split(t, sep, ms), S, t, sep, ms)
<1> DEFINE n == Len(t) + 1
           b == SplitStart
           E(l, k) == SplitRound(t, sep, ms, l, k)
<1>1. n \in Nat /\ 0 \in 0 .. n /\ n \in 0 .. n
  BY LenProperties
<1>2. Split(t, sep, ms) = Loop(n, b, E).parts
  BY Zenon DEF Split, SplitRound
<1>3. PICK g \in [0 .. n -> SplitStates(S, t)] : IsSplitting(g, n, t, sep, ms)
  BY <1>1, SplittingExists, Zenon
<1>4. g[0] = b /\ \A k \in 1 .. n : g[k] = E(g[k - 1], k)
  BY <1>3, Zenon DEF IsSplitting
<1>5. \A k \in 0 .. n : g[k] \in SplitStates(S, t)
  OBVIOUS
<1> HIDE DEF n, b
<1> DEFINE G == {k \in 0 .. n : SplitAfter(g[k], k, S, t, sep, ms)}
<1>6. 0 \in G
  <2>1. SplitAfter(b, 0, S, t, sep, ms)
    BY SplitBegun, Zenon DEF b
  <2>2. QED
    BY <1>1, <1>4, <2>1
<1>7. \A k \in 1 .. n : k - 1 \in G => k \in G
  <2> SUFFICES ASSUME NEW k \in 1 .. n, SplitAfter(g[k - 1], k - 1, S, t, sep, ms)
               PROVE  SplitAfter(g[k], k, S, t, sep, ms)
    BY <1>1
  <2>1. k - 1 \in 0 .. n /\ k \in Nat \ {0}
    BY <1>1
  <2>2. g[k - 1] \in SplitStates(S, t)
    BY <1>5, <2>1
  <2>3. SplitAfter(SplitRound(t, sep, ms, g[k - 1], k), k, S, t, sep, ms)
    BY <2>1, <2>2, SplitRoundIs, Zenon
  <2>4. QED
    BY <1>4, <2>3, Zenon
<1> HIDE DEF G, E
<1>8. n \in G
  BY <1>1, <1>6, <1>7, AllSteps, Zenon
<1>9. SplitAfter(g[n], n, S, t, sep, ms)
  BY <1>8 DEF G
<1>10. g[n].start = 0
  <2> SUFFICES ASSUME g[n].start # 0 PROVE FALSE
    OBVIOUS
  <2>1. g[n].start \in n + 1 .. Len(t) + 1
    BY <1>9, Zenon DEF SplitAfter, PartsSoFar
  <2>2. QED
    BY <1>1, <2>1, LenProperties DEF n
<1>11. SplitParts(g[n].parts, S, t, sep, ms)
  BY <1>9, <1>10, Zenon DEF SplitAfter
<1>12. \A k \in 0 .. n : g[k] = IF k = 0 THEN b ELSE E(g[k - 1], k)
  <2> TAKE k \in 0 .. n
  <2>1. k = 0 \/ (k \in 1 .. n /\ k # 0)
    BY <1>1
  <2>2. QED
    BY <1>4, <2>1, Zenon
<1>13. g = [k \in 0 .. n |-> g[k]]
  OBVIOUS
<1>14. g = [k \in 0 .. n |-> IF k = 0 THEN b ELSE E(g[k - 1], k)]
  BY <1>12, <1>13, Zenon
<1>15. PICK h : /\ h = [k \in 0 .. n |-> IF k = 0 THEN b ELSE E(h[k - 1], k)]
                /\ Loop(n, b, E) = h[n]
  BY <1>14, Zenon DEF Loop
<1>16. \A k \in 0 .. n : h[k] = IF k = 0 THEN b ELSE E(h[k - 1], k)
  BY <1>15, Zenon
<1>17. h[0] = g[0]
  BY <1>1, <1>12, <1>16, Zenon
<1>18. Follows(h, g, n)
  <2> SUFFICES ASSUME NEW k \in 1 .. n PROVE h[k - 1] = g[k - 1] => h[k] = g[k]
    BY Zenon DEF Follows
  <2>1. k \in 0 .. n /\ k # 0
    BY <1>1
  <2>2. QED
    BY <1>12, <1>16, <2>1, Zenon
<1>19. h[n] = g[n]
  BY <1>1, <1>17, <1>18, SameSteps, Zenon
<1>20. QED
  BY <1>2, <1>11, <1>15, <1>19, Zenon

-----------------------------------------------------------------------------
\* The parts up to one more.
UpTo(p, k) == SubSeq(p, 1, k)

\* The first k of a sequence are the first k - 1 and the k-th.
LEMMA UpToNext ==
  ASSUME NEW S, NEW p \in Seq(S), NEW k \in 1 .. Len(p)
  PROVE  UpTo(p, k) = Append(UpTo(p, k - 1), p[k]) /\ UpTo(p, k - 1) \in Seq(S)
<1>1. Len(p) \in Nat /\ 1 \in 1 .. Len(p) /\ p[k] \in S
  BY LenProperties, ElementOfSeq
<1>2. InText(p, 1, k - 1, k - 1)
  BY <1>1 DEF InText
<1>3. SubSeq(p, 1, k - 1) \in Seq(S)
  BY <1>2, PieceIs DEF IsCut
<1>4. SubSeq(p, 1, k) = SubSeq(p, 1, k - 1) \o <<p[k]>>
  BY <1>1, SubSeqRecursiveSecond
<1>5. Append(SubSeq(p, 1, k - 1), p[k]) = SubSeq(p, 1, k - 1) \o <<p[k]>>
  BY <1>1, <1>3, AppendIsConcat
<1>6. QED
  BY <1>3, <1>4, <1>5, Zenon DEF UpTo

\* One text begins with another.
StartsWith(t, u) == Len(u) <= Len(t) /\ \A j \in 1 .. Len(u) : t[j] = u[j]

\* What is put together starts with the first of the two.
LEMMA StartsConcat ==
  ASSUME NEW S, NEW u \in Seq(S), NEW v \in Seq(S)
  PROVE  StartsWith(u \o v, u)
<1>1. Len(u) \in Nat /\ Len(v) \in Nat
  BY LenProperties
<1>2. /\ Len(u \o v) = Len(u) + Len(v)
      /\ \A i \in 1 .. Len(u) + Len(v) : (u \o v)[i] = IF i <= Len(u) THEN u[i] ELSE v[i - Len(u)]
  BY ConcatProperties
<1>3. \A i \in 1 .. Len(u) : i \in 1 .. Len(u) + Len(v) /\ i <= Len(u)
  BY <1>1
<1>4. QED
  BY <1>1, <1>2, <1>3 DEF StartsWith

\* What starts with u starts with what u starts with.
LEMMA StartsThrough ==
  ASSUME NEW t, NEW u, NEW v, Len(t) \in Nat, Len(u) \in Nat, Len(v) \in Nat,
         StartsWith(t, u), StartsWith(u, v)
  PROVE  StartsWith(t, v)
<1>1. Len(v) <= Len(u) /\ Len(u) <= Len(t)
  BY DEF StartsWith
<1>2. \A j \in 1 .. Len(v) : j \in 1 .. Len(u)
  BY <1>1
<1>3. QED
  BY <1>1, <1>2 DEF StartsWith

\* Where part k is in the joined text, behind those in front of it.
PieceAt(t, p, k, off, c) ==
  /\ off + Len(p[k]) <= Len(t)
  /\ \A j \in 1 .. Len(p[k]) : t[off + j] = p[k][j]
  /\ k < Len(p) => off + Len(p[k]) + 1 <= Len(t) /\ t[off + Len(p[k]) + 1] = c
  /\ k = Len(p) => Len(t) = off + Len(p[k])

\* A join is all parts but the last with their sep, and the last.
LEMMA JoinLast ==
  ASSUME NEW S, NEW p \in Seq(Seq(S)), Len(p) > 0, NEW sep \in Seq(S)
  PROVE  Join(p, sep) = Led(UpTo(p, Len(p) - 1), sep) \o p[Len(p)] /\ Join(p, sep) \in Seq(S)
<1> DEFINE n == Len(p)
           q == UpTo(p, n - 1)
           x == p[n]
<1>1. n \in Nat /\ n \in 1 .. Len(p)
  BY LenProperties
<1>2. x \in Seq(S)
  BY <1>1, ElementOfSeq
<1>3. UpTo(p, n) = Append(q, x) /\ q \in Seq(Seq(S))
  BY <1>1, UpToNext, Zenon
<1>4. UpTo(p, n) = p
  BY SubSeqFull DEF UpTo
<1> HIDE DEF q, x
<1>5. Join(Append(q, x), sep) = Led(q, sep) \o x
  BY <1>2, <1>3, JoinAppend, Zenon
<1>6. Led(q, sep) \in Seq(S)
  BY <1>3, LedSeqs, Zenon
<1>7. Led(q, sep) \o x \in Seq(S)
  BY <1>2, <1>6, ConcatProperties
<1>8. p = Append(q, x)
  BY <1>3, <1>4
<1>9. Join(p, sep) = Led(q, sep) \o x
  BY <1>5, <1>8, Zenon
<1>10. QED
  BY <1>7, <1>9 DEF q, x

\* The joined text begins with the first parts, each with the separator.
LEMMA JoinStarts ==
  ASSUME NEW S, NEW p \in Seq(Seq(S)), Len(p) > 0, NEW sep \in Seq(S)
  PROVE  \A k \in 1 .. Len(p) : StartsWith(Join(p, sep), Led(UpTo(p, k - 1), sep))
<1> DEFINE m == Len(p) - 1
           t == Join(p, sep)
           L(k) == Led(UpTo(p, k - 1), sep)
           G == {k \in 1 .. m + 1 : StartsWith(t, L(k))}
<1>1. m \in Nat /\ m + 1 = Len(p) /\ (m + 1) - 1 = Len(p) - 1
  BY LenProperties
<1>2. t \in Seq(S) /\ Len(t) \in Nat
  <2>1. t \in Seq(S)
    BY JoinLast
  <2> HIDE DEF t
  <2>2. QED
    BY <2>1, LenProperties
<1>3. \A k \in 1 .. Len(p) : L(k) \in Seq(S) /\ Len(L(k)) \in Nat /\ p[k] \in Seq(S)
  <2> TAKE k \in 1 .. Len(p)
  <2>1. UpTo(p, k - 1) \in Seq(Seq(S)) /\ p[k] \in Seq(S)
    BY UpToNext, ElementOfSeq
  <2>2. L(k) \in Seq(S)
    BY <2>1, LedSeqs, Zenon
  <2> HIDE DEF L
  <2>3. QED
    BY <2>1, <2>2, LenProperties
<1>4. m + 1 \in G
  <2>1. t = L(m + 1) \o p[m + 1]
    <3>1. t = Led(UpTo(p, Len(p) - 1), sep) \o p[Len(p)]
      BY JoinLast
    <3>2. QED
      BY <1>1, <3>1
  <2>2. m + 1 \in 1 .. Len(p) /\ m + 1 \in 1 .. m + 1
    BY <1>1
  <2> HIDE DEF L, t, m
  <2>3. L(m + 1) \in Seq(S) /\ p[m + 1] \in Seq(S)
    BY <1>3, <2>2
  <2>4. StartsWith(L(m + 1) \o p[m + 1], L(m + 1))
    BY <2>3, StartsConcat, Zenon
  <2>5. QED
    BY <2>1, <2>2, <2>4
<1>5. ASSUME NEW k \in 1 .. m, \A j \in k + 1 .. m + 1 : j \in G PROVE k \in G
  <2>1. k \in 1 .. Len(p) /\ k + 1 \in 1 .. Len(p) /\ k + 1 \in k + 1 .. m + 1 /\ (k + 1) - 1 = k
    BY <1>1
  <2>2. StartsWith(t, L(k + 1))
    BY <1>5, <2>1
  <2>3. UpTo(p, k) = Append(UpTo(p, k - 1), p[k]) /\ UpTo(p, k - 1) \in Seq(Seq(S))
    BY <2>1, UpToNext, Zenon
  <2>4. p[k] \in Seq(S) /\ L(k) \in Seq(S) /\ Len(L(k)) \in Nat /\ Len(L(k + 1)) \in Nat
    BY <1>3, <2>1
  <2>5. L(k + 1) = L(k) \o (p[k] \o sep)
    <3>1. Led(Append(UpTo(p, k - 1), p[k]), sep) = Led(UpTo(p, k - 1), sep) \o (p[k] \o sep)
      BY <2>3, <2>4, LedAppend, Zenon
    <3>2. L(k + 1) = Led(UpTo(p, k), sep)
      BY <2>1
    <3>3. QED
      BY <2>3, <3>1, <3>2, Zenon
  <2> HIDE DEF L, t
  <2>6. p[k] \o sep \in Seq(S)
    BY <2>4, ConcatProperties
  <2>7. StartsWith(L(k) \o (p[k] \o sep), L(k))
    BY <2>4, <2>6, StartsConcat
  <2>8. StartsWith(L(k + 1), L(k))
    BY <2>5, <2>7
  <2>9. StartsWith(t, L(k))
    BY <1>2, <2>2, <2>4, <2>8, StartsThrough
  <2>10. QED
    BY <1>1, <2>9
<1> HIDE DEF G, m
<1>6. \A k \in 1 .. m + 1 : k \in G
  BY <1>1, <1>4, <1>5, AllDown, Zenon
<1>7. QED
  BY <1>1, <1>6 DEF G

\* The second of two that are put together lies behind the first.
LEMMA BehindIs ==
  ASSUME NEW S, NEW u \in Seq(S), NEW v \in Seq(S)
  PROVE  /\ Len(u \o v) = Len(u) + Len(v)
         /\ \A j \in 1 .. Len(v) : (u \o v)[Len(u) + j] = v[j]
<1> DEFINE w == u \o v
<1>1. Len(u) \in Nat /\ Len(v) \in Nat
  BY LenProperties
<1>2. /\ Len(w) = Len(u) + Len(v)
      /\ \A i \in 1 .. Len(u) + Len(v) : w[i] = IF i <= Len(u) THEN u[i] ELSE v[i - Len(u)]
  BY ConcatProperties
<1> HIDE DEF w
<1>3. ASSUME NEW j \in 1 .. Len(v) PROVE w[Len(u) + j] = v[j]
  <2>1. Len(u) + j \in 1 .. Len(u) + Len(v) /\ ~(Len(u) + j <= Len(u)) /\ (Len(u) + j) - Len(u) = j
    BY <1>1
  <2>2. w[Len(u) + j] = v[(Len(u) + j) - Len(u)]
    BY <1>2, <2>1
  <2>3. QED
    BY <2>1, <2>2
<1>4. QED
  BY <1>2, <1>3 DEF w

\* Each part lies in the join where those before it end.
LEMMA JoinPiece ==
  ASSUME NEW S, NEW p \in Seq(Seq(S)), Len(p) > 0, NEW c \in S, NEW k \in 1 .. Len(p)
  PROVE  PieceAt(Join(p, <<c>>), p, k, Len(Led(UpTo(p, k - 1), <<c>>)), c)
<1> DEFINE sep == <<c>>
           n == Len(p)
           t == Join(p, sep)
           u == Led(UpTo(p, k - 1), sep)
           v == p[k]
           off == Len(u)
<1>1. n \in Nat /\ sep \in Seq(S) /\ Len(sep) = 1 /\ sep[1] = c
  BY LenProperties
<1>2. UpTo(p, k) = Append(UpTo(p, k - 1), v) /\ UpTo(p, k - 1) \in Seq(Seq(S)) /\ v \in Seq(S)
  BY UpToNext, ElementOfSeq
<1> HIDE DEF sep
<1>3. u \in Seq(S)
  BY <1>1, <1>2, LedSeqs, Zenon
<1>4. t = Led(UpTo(p, n - 1), sep) \o p[n] /\ t \in Seq(S)
  BY <1>1, JoinLast, Zenon
<1>5. \A i \in 1 .. n : StartsWith(t, Led(UpTo(p, i - 1), sep))
  BY <1>1, JoinStarts, Zenon
<1> HIDE DEF t, n
<1>6. Len(v) \in Nat /\ off \in Nat /\ Len(t) \in Nat
  <2> HIDE DEF u, v
  <2>1. QED
    BY <1>2, <1>3, <1>4, LenProperties
<1>7. CASE k = n
  <2>1. t = u \o v
    BY <1>4, <1>7
  <2> HIDE DEF u, v
  <2>2. Len(t) = off + Len(v) /\ \A j \in 1 .. Len(v) : t[off + j] = v[j]
    BY <1>2, <1>3, <2>1, BehindIs
  <2>3. ~(k < n)
    BY <1>1, <1>7
  <2>4. off + Len(v) <= Len(t)
    BY <1>6, <2>2
  <2>5. QED
    BY <2>2, <2>3, <2>4, Zenon DEF PieceAt, t, u, v, n, sep
<1>8. CASE k # n
  <2> DEFINE x == v \o sep
             w == u \o x
  <2>1. k + 1 \in 1 .. n /\ (k + 1) - 1 = k
    BY <1>1, <1>8 DEF n
  <2>2. StartsWith(t, Led(UpTo(p, k), sep))
    <3>1. StartsWith(t, Led(UpTo(p, (k + 1) - 1), sep))
      BY <1>5, <2>1, Zenon
    <3>2. QED
      BY <2>1, <3>1
  <2>3. Led(Append(UpTo(p, k - 1), v), sep) = w
    BY <1>1, <1>2, LedAppend, Zenon
  <2>4. StartsWith(t, w)
    BY <1>2, <2>2, <2>3
  <2> HIDE DEF u, v
  <2>5. x \in Seq(S)
    BY <1>1, <1>2, ConcatProperties
  <2>6. Len(x) = Len(v) + 1 /\ \A j \in 1 .. Len(v) : x[j] = v[j]
    <3>1. StartsWith(x, v)
      BY <1>1, <1>2, StartsConcat, Zenon
    <3>2. Len(x) = Len(v) + Len(sep)
      BY <1>1, <1>2, BehindIs
    <3> HIDE DEF x
    <3>3. QED
      BY <1>1, <3>1, <3>2 DEF StartsWith
  <2>7. x[Len(v) + 1] = c
    <3>1. \A j \in 1 .. Len(sep) : x[Len(v) + j] = sep[j]
      BY <1>1, <1>2, BehindIs
    <3>2. 1 \in 1 .. Len(sep)
      BY <1>1
    <3> HIDE DEF x
    <3>3. QED
      BY <1>1, <3>1, <3>2
  <2> HIDE DEF x
  <2>8. Len(w) = off + Len(x) /\ \A j \in 1 .. Len(x) : w[off + j] = x[j]
    BY <1>3, <2>5, BehindIs
  <2> HIDE DEF w
  <2>9. Len(w) <= Len(t) /\ \A j \in 1 .. Len(w) : t[j] = w[j]
    BY <2>4 DEF StartsWith
  <2>10. off + Len(v) + 1 <= Len(t) /\ off + Len(v) <= Len(t)
    BY <1>6, <2>6, <2>8, <2>9
  <2>11. \A j \in 1 .. Len(x) : t[off + j] = x[j]
    <3> TAKE j \in 1 .. Len(x)
    <3>1. off + j \in 1 .. Len(w)
      BY <1>6, <2>6, <2>8
    <3>2. QED
      BY <2>8, <2>9, <3>1
  <2>12. \A j \in 1 .. Len(v) : t[off + j] = v[j]
    <3> TAKE j \in 1 .. Len(v)
    <3>1. j \in 1 .. Len(x)
      BY <1>6, <2>6
    <3>2. QED
      BY <2>6, <2>11, <3>1
  <2>13. t[off + Len(v) + 1] = c
    <3>1. Len(v) + 1 \in 1 .. Len(x) /\ off + (Len(v) + 1) = off + Len(v) + 1
      BY <1>6, <2>6
    <3>2. t[off + (Len(v) + 1)] = x[Len(v) + 1]
      BY <2>11, <3>1
    <3>3. QED
      BY <2>7, <3>1, <3>2
  <2>14. QED
    BY <1>8, <2>10, <2>12, <2>13, Zenon DEF PieceAt, t, u, v, n, sep
<1>9. QED
  BY <1>7, <1>8

\* Parts without the byte that separates them are those of no other sequence.
Bare(p, c) == \A k \in 1 .. Len(p) : \A j \in 1 .. Len(p[k]) : p[k][j] # c

\* A part is not shorter than one in the same place that has no sep in it.
LEMMA NotShorter ==
  ASSUME NEW S, NEW p \in Seq(Seq(S)), NEW q \in Seq(Seq(S)), NEW c, NEW t,
         NEW k \in 1 .. Len(p), k \in 1 .. Len(q), NEW off \in Nat,
         PieceAt(t, p, k, off, c), PieceAt(t, q, k, off, c), Bare(q, c)
  PROVE  ~(Len(p[k]) < Len(q[k]))
<1> DEFINE a == p[k]
           b == q[k]
<1>1. Len(a) \in Nat /\ Len(b) \in Nat /\ Len(p) \in Nat
  <2>1. a \in Seq(S) /\ b \in Seq(S)
    BY ElementOfSeq
  <2> HIDE DEF a, b
  <2>2. QED
    BY <2>1, LenProperties
<1>2. /\ k < Len(p) => t[off + Len(a) + 1] = c
      /\ k = Len(p) => Len(t) = off + Len(a)
  BY Zenon DEF PieceAt
<1>3. /\ off + Len(b) <= Len(t)
      /\ \A j \in 1 .. Len(b) : t[off + j] = b[j]
  BY Zenon DEF PieceAt
<1>4. \A j \in 1 .. Len(b) : b[j] # c
  BY Zenon DEF Bare
<1> HIDE DEF a, b
<1>5. ASSUME Len(a) < Len(b) PROVE FALSE
  <2>1. Len(a) + 1 \in 1 .. Len(b) /\ off + (Len(a) + 1) = off + Len(a) + 1
    BY <1>1, <1>5
  <2>2. t[off + Len(a) + 1] # c
    <3>1. t[off + (Len(a) + 1)] = b[Len(a) + 1]
      BY <1>3, <2>1
    <3>2. b[Len(a) + 1] # c
      BY <1>4, <2>1
    <3>3. QED
      BY <2>1, <3>1, <3>2
  <2>3. k = Len(p)
    BY <1>1, <1>2, <2>2
  <2>4. QED
    BY <1>1, <1>2, <1>3, <1>5, <2>3
<1>6. QED
  BY <1>5 DEF a, b

\* Two parts in the same place, without sep, are the same.
LEMMA SamePiece ==
  ASSUME NEW S, NEW p \in Seq(Seq(S)), NEW q \in Seq(Seq(S)), NEW c, NEW t,
         NEW k \in 1 .. Len(p), k \in 1 .. Len(q), NEW off \in Nat,
         PieceAt(t, p, k, off, c), PieceAt(t, q, k, off, c), Bare(p, c), Bare(q, c)
  PROVE  p[k] = q[k] /\ (k = Len(p) <=> k = Len(q))
<1> DEFINE a == p[k]
           b == q[k]
<1>1. a \in Seq(S) /\ b \in Seq(S) /\ Len(p) \in Nat /\ Len(q) \in Nat
  BY ElementOfSeq, LenProperties
<1>2. ~(Len(a) < Len(b))
  BY NotShorter, Zenon
<1>3. ~(Len(b) < Len(a))
  BY NotShorter, Zenon
<1>4. /\ \A j \in 1 .. Len(a) : t[off + j] = a[j]
      /\ k < Len(p) => off + Len(a) + 1 <= Len(t)
      /\ k = Len(p) => Len(t) = off + Len(a)
  BY Zenon DEF PieceAt
<1>5. /\ \A j \in 1 .. Len(b) : t[off + j] = b[j]
      /\ k < Len(q) => off + Len(b) + 1 <= Len(t)
      /\ k = Len(q) => Len(t) = off + Len(b)
  BY Zenon DEF PieceAt
<1> HIDE DEF a, b
<1>6. Len(a) = Len(b) /\ Len(a) \in Nat
  BY <1>1, <1>2, <1>3, LenProperties
<1>7. a = b
  BY <1>1, <1>4, <1>5, <1>6, SeqEqual
<1>8. k = Len(p) <=> k = Len(q)
  BY <1>1, <1>4, <1>5, <1>6
<1>9. QED
  BY <1>7, <1>8 DEF a, b

\* Parts without the sep are known from their join.
LEMMA SameParts ==
  ASSUME NEW S, NEW p \in Seq(Seq(S)), NEW q \in Seq(Seq(S)), NEW c \in S,
         Len(p) > 0, Len(q) > 0, Bare(p, c), Bare(q, c), Join(p, <<c>>) = Join(q, <<c>>)
  PROVE  p = q
<1> DEFINE n == Len(p)
           t == Join(p, <<c>>)
           Good(k) == /\ UpTo(p, k) = UpTo(q, k)
                      /\ k < n => k < Len(q)
                      /\ k = n => k = Len(q)
           G == {k \in 0 .. n : Good(k)}
<1>1. n \in Nat /\ Len(q) \in Nat /\ n > 0
  BY LenProperties
<1>2. 0 \in G
  <2>1. UpTo(p, 0) = << >> /\ UpTo(q, 0) = << >>
    BY SubSeqEmpty DEF UpTo
  <2>2. QED
    BY <1>1, <2>1
<1>3. \A k \in 1 .. n : k - 1 \in G => k \in G
  <2> SUFFICES ASSUME NEW k \in 1 .. n, k - 1 \in G PROVE k \in G
    OBVIOUS
  <2> DEFINE off == Len(Led(UpTo(p, k - 1), <<c>>))
  <2>1. UpTo(p, k - 1) = UpTo(q, k - 1) /\ (k - 1 < n => k - 1 < Len(q))
    BY <1>1
  <2>2. k \in 1 .. Len(p) /\ k \in 1 .. Len(q) /\ k \in 0 .. n
    BY <1>1, <2>1
  <2>3. PieceAt(t, p, k, off, c)
    BY <2>2, JoinPiece
  <2>4. PieceAt(t, q, k, off, c)
    <3>1. PieceAt(Join(q, <<c>>), q, k, Len(Led(UpTo(q, k - 1), <<c>>)), c)
      BY <2>2, JoinPiece
    <3>2. QED
      BY <2>1, <3>1, Zenon
  <2>5. off \in Nat
    <3>1. UpTo(p, k - 1) \in Seq(Seq(S)) /\ <<c>> \in Seq(S)
      BY <2>2, UpToNext
    <3>2. Led(UpTo(p, k - 1), <<c>>) \in Seq(S)
      BY <3>1, LedSeqs, Zenon
    <3>3. QED
      BY <3>2, LenProperties
  <2> HIDE DEF off, t, n, G
  <2>6. p[k] = q[k] /\ (k = Len(p) <=> k = Len(q))
    BY <2>2, <2>3, <2>4, <2>5, SamePiece, Zenon
  <2>7. UpTo(p, k) = UpTo(q, k)
    <3>1. UpTo(p, k) = Append(UpTo(p, k - 1), p[k])
      BY <2>2, UpToNext, Zenon
    <3>2. UpTo(q, k) = Append(UpTo(q, k - 1), q[k])
      BY <2>2, UpToNext, Zenon
    <3>3. QED
      BY <2>1, <2>6, <3>1, <3>2, Zenon
  <2>8. (k < n => k < Len(q)) /\ (k = n => k = Len(q))
    BY <1>1, <2>2, <2>6 DEF n
  <2>9. QED
    BY <2>2, <2>7, <2>8, Zenon DEF G
<1> HIDE DEF G
<1>4. \A k \in 0 .. n : k \in G
  BY <1>1, <1>2, <1>3, AllSteps, Zenon
<1>5. Good(n)
  <2>1. n \in 0 .. n
    BY <1>1
  <2>2. QED
    BY <1>4, <2>1 DEF G
<1>6. UpTo(p, n) = p
  BY SubSeqFull DEF UpTo
<1>7. UpTo(q, Len(q)) = q
  BY SubSeqFull DEF UpTo
<1>8. QED
  BY <1>5, <1>6, <1>7

-----------------------------------------------------------------------------
\* Split at a byte, joined parts without it are what they were.
LEMMA OneByte ==
  ASSUME NEW S, NEW c \in S
  PROVE  Separates(<<c>>, S) /\ <<c>> \in Seq(S) /\ Len(<<c>>) = 1 /\ <<c>>[1] = c
<1>1. <<c>> \in Seq(S) /\ Len(<<c>>) = 1 /\ <<c>>[1] = c
  OBVIOUS
<1>2. QED
  BY <1>1 DEF Separates

\* A part in which a sep of one byte does not occur does not have that byte.
LEMMA CleanOf ==
  ASSUME NEW S, NEW c \in S, NEW u \in Seq(S), Clean(u, <<c>>)
  PROVE  \A j \in 1 .. Len(u) : u[j] # c
<1> DEFINE sep == <<c>>
<1>1. Len(sep) = 1 /\ sep[1] = c /\ Len(u) \in Nat
  BY OneByte, LenProperties
<1>2. \A j \in 1 .. Len(u) : ~Occurs(u, sep, j)
  BY Zenon DEF Clean
<1> HIDE DEF sep
<1>3. SUFFICES ASSUME NEW j \in 1 .. Len(u), u[j] = c PROVE FALSE
  BY DEF sep
<1>4. j \in 1 .. Len(u) - Len(sep) + 1 /\ \A i \in 1 .. Len(sep) : u[j + i - 1] = sep[i]
  BY <1>1, <1>3
<1>5. Occurs(u, sep, j)
  BY <1>4, Zenon DEF Occurs
<1>6. QED
  BY <1>2, <1>5

\* So none of the parts has it.
LEMMA BareIs ==
  ASSUME NEW S, NEW c \in S, NEW p \in Seq(Seq(S)),
         \A i \in 1 .. Len(p) : Clean(p[i], <<c>>)
  PROVE  Bare(p, c)
<1>1. \A k \in 1 .. Len(p) : p[k] \in Seq(S)
  BY ElementOfSeq
<1>2. \A k \in 1 .. Len(p) : \A j \in 1 .. Len(p[k]) : p[k][j] # c
  BY <1>1, CleanOf, Zenon
<1>3. QED
  BY <1>2, Zenon DEF Bare

\* A join of parts without the sep is split into these parts.
LEMMA SplitJoined ==
  ASSUME NEW S, NEW c \in S, NEW p \in Seq(Seq(S)), Len(p) > 0, Bare(p, c)
  PROVE  Split(Join(p, <<c>>), <<c>>, -1) = p
<1> DEFINE sep == <<c>>
           t == Join(p, sep)
           q == Split(t, sep, -1)
<1>1. Separates(sep, S) /\ sep \in Seq(S)
  BY OneByte
<1>2. t \in Seq(S)
  BY <1>1, JoinLast
<1>3. -1 \in Int
  OBVIOUS
<1> HIDE DEF sep, t
<1>4. SplitParts(q, S, t, sep, -1)
  BY <1>1, <1>2, <1>3, SplitIs, Zenon
<1> HIDE DEF q
<1>5. /\ q \in Seq(Seq(S)) /\ Len(q) > 0 /\ Join(q, sep) = t
      /\ \A i \in 1 .. Len(q) : Clean(q[i], sep)
  BY <1>4 DEF SplitParts
<1>6. Bare(q, c)
  BY <1>5, BareIs, Zenon DEF sep
<1>7. Join(p, <<c>>) = Join(q, <<c>>)
  BY <1>5, Zenon DEF t, sep
<1>8. p = q
  BY <1>5, <1>6, <1>7, SameParts
<1>9. QED
  BY <1>8, Zenon DEF q, t, sep

\* One part is joined to itself by whatever separates.
LEMMA JoinOne ==
  ASSUME NEW S, NEW p \in Seq(Seq(S)), Len(p) = 1, NEW sep \in Seq(S)
  PROVE  Join(p, sep) = p[1]
<1>1. Join(p, sep) = Led(UpTo(p, 1 - 1), sep) \o p[1]
  <2>1. Len(p) > 0
    OBVIOUS
  <2>2. Join(p, sep) = Led(UpTo(p, Len(p) - 1), sep) \o p[Len(p)]
    BY <2>1, JoinLast, Zenon
  <2>3. QED
    BY <2>2
<1>2. UpTo(p, 1 - 1) = << >>
  BY SubSeqEmpty DEF UpTo
<1>3. Led(<< >>, sep) = << >>
  BY LedNone
<1>4. p[1] \in Seq(S)
  BY ElementOfSeq
<1>5. << >> \o p[1] = p[1]
  BY <1>4, ConcatEmptySeq
<1>6. QED
  BY <1>1, <1>2, <1>3, <1>5, Zenon

\* A separator is replaced by a byte that is not in the text, and back.
LEMMA ReplaceThere ==
  ASSUME NEW S, NEW t \in Seq(S), NEW old, Separates(old, S), NEW ms \in Int,
         NEW c
  PROVE  Replace(t, old, <<c>>, ms) = Join(Split(t, old, ms), <<c>>)
<1> DEFINE W == S \cup {c}
           p == Split(t, old, ms)
<1>1. Replace(t, old, <<c>>, ms) = IF Len(p) > 1 THEN Join(p, <<c>>) ELSE t
  BY Zenon DEF Replace
<1>2. SplitParts(p, S, t, old, ms)
  BY SplitIs
<1> HIDE DEF p
<1>3. p \in Seq(Seq(S)) /\ Len(p) > 0 /\ Join(p, old) = t /\ old \in Seq(S)
  BY <1>2 DEF SplitParts, Separates
<1>4. CASE Len(p) > 1
  BY <1>1, <1>4, Zenon DEF p
<1>5. CASE ~(Len(p) > 1)
  <2>1. Len(p) = 1
    <3>1. Len(p) \in Nat
      BY <1>3, LenProperties, Zenon
    <3>2. \A n \in Nat : n > 0 /\ ~(n > 1) => n = 1
      OBVIOUS
    <3>3. QED
      BY <1>3, <1>5, <3>1, <3>2, Zenon
  <2>2. Replace(t, old, <<c>>, ms) = t
    BY <1>1, <1>5, Zenon
  <2>3. t = p[1]
    BY <1>3, <2>1, JoinOne, Zenon
  <2>4. p \in Seq(Seq(W)) /\ <<c>> \in Seq(W)
    <3>1. Seq(S) \subseteq Seq(W)
      BY SeqMonotonic
    <3>2. c \in W
      OBVIOUS
    <3>3. QED
      BY <1>3, <3>1, <3>2, SeqMonotonic, OneByte
  <2>5. Join(p, <<c>>) = p[1]
    BY <2>1, <2>4, JoinOne, Zenon
  <2>6. QED
    BY <2>2, <2>3, <2>5, Zenon DEF p
<1>6. QED
  BY <1>4, <1>5

\* To replace the sep of a join gives the join with the other one.
LEMMA ReplaceBack ==
  ASSUME NEW S, NEW p \in Seq(Seq(S)), Len(p) > 0, NEW sep \in Seq(S), NEW c, c \notin S
  PROVE  Replace(Join(p, <<c>>), <<c>>, sep, -1) = Join(p, sep)
<1> DEFINE W == S \cup {c}
           t == Join(p, <<c>>)
<1>1. c \in W /\ S \subseteq W
  OBVIOUS
<1>2. p \in Seq(Seq(W)) /\ sep \in Seq(W) /\ <<c>> \in Seq(W)
  <2>1. Seq(S) \subseteq Seq(W)
    BY SeqMonotonic
  <2>2. QED
    BY <2>1, SeqMonotonic
<1>3. \A k \in 1 .. Len(p) : p[k] \in Seq(S)
  BY ElementOfSeq
<1>4. \A k \in 1 .. Len(p) : \A j \in 1 .. Len(p[k]) : p[k][j] # c
  BY <1>3, ElementOfSeq, Zenon
<1>5. Bare(p, c)
  BY <1>4, Zenon DEF Bare
<1> HIDE DEF W
<1>6. Split(t, <<c>>, -1) = p
  BY <1>1, <1>2, <1>5, SplitJoined
<1>7. CASE Len(p) > 1
  BY <1>6, <1>7, Zenon DEF Replace, t
<1>8. CASE ~(Len(p) > 1)
  <2>1. Len(p) = 1
    <3>1. Len(p) \in Nat
      BY LenProperties, Zenon
    <3>2. \A n \in Nat : n > 0 /\ ~(n > 1) => n = 1
      OBVIOUS
    <3>3. QED
      BY <1>8, <3>1, <3>2, Zenon
  <2>2. Replace(t, <<c>>, sep, -1) = t
    BY <1>6, <1>8, Zenon DEF Replace
  <2>3. t = p[1] /\ Join(p, sep) = p[1]
    <3>1. t = p[1]
      BY <1>2, <2>1, JoinOne, Zenon
    <3>2. Join(p, sep) = p[1]
      BY <2>1, JoinOne, Zenon
    <3>3. QED
      BY <3>1, <3>2
  <2>4. QED
    BY <2>2, <2>3, Zenon
<1>9. QED
  BY <1>7, <1>8

\* The end of a text is not one of its bytes.
LEMMA NulOutside == NUL \notin Bytes
<1>1. NUL \notin Printable
  BY Zenon DEF NUL, Printable
<1>2. NUL # "\n" /\ NUL # CTL /\ NUL # LEAD /\ NUL # CONT
  BY Zenon DEF NUL, CTL, LEAD, CONT
<1>3. Bytes \subseteq Printable \cup {"\n", CTL, LEAD, CONT}
  BY ValuesAssumption, Zenon
<1>4. QED
  BY <1>1, <1>2, <1>3, Zenon

\* What a split wrote is read back, for every separator and number of places.
LEMMA SplitsGiveBack ==
  ASSUME text \in Seq(Bytes)
  PROVE  SplitsReadBack
<1> SUFFICES ASSUME NEW sep \in Texts \ {<< >>}, NEW ms \in -1 .. 2
             PROVE  LET parts == Split(text, sep, ms) IN
                    /\ Join(parts, sep) = text
                    /\ ms >= 0 => Len(parts) <= ms + 1
                    /\ \A i \in DOMAIN parts :
                         i < Len(parts) \/ ms < 0 \/ Len(parts) <= ms
                           => Found(parts[i], sep, 1) = 0
                    /\ Replace(Replace(text, sep, <<NUL>>, ms), <<NUL>>, sep, -1) = text
  BY Zenon DEF SplitsReadBack
<1> DEFINE p == Split(text, sep, ms)
<1>1. ms \in Int
  OBVIOUS
<1>2. sep \in Seq(Bytes) /\ sep # << >>
  BY ValuesAssumption
<1>3. Separates(sep, Bytes)
  <2>1. Len(sep) \in Nat /\ Len(sep) # 0
    BY <1>2, LenProperties, EmptySeq
  <2>2. Len(sep) > 0
    BY <2>1
  <2>3. QED
    BY <1>2, <2>1, <2>2, Zenon DEF Separates
<1>4. SplitParts(p, Bytes, text, sep, ms)
  BY <1>1, <1>3, SplitIs
<1>5. Replace(text, sep, <<NUL>>, ms) = Join(p, <<NUL>>)
  BY <1>1, <1>3, ReplaceThere
<1> HIDE DEF p
<1>6. /\ p \in Seq(Seq(Bytes)) /\ Len(p) > 0 /\ Join(p, sep) = text
      /\ ms >= 0 => Len(p) <= ms + 1
      /\ \A i \in 1 .. Len(p) :
           i < Len(p) \/ ms < 0 \/ Len(p) <= ms => Clean(p[i], sep)
  BY <1>4, Zenon DEF SplitParts
<1>7. DOMAIN p = 1 .. Len(p)
  BY <1>6, LenProperties
<1>8. \A i \in DOMAIN p :
        i < Len(p) \/ ms < 0 \/ Len(p) <= ms => Found(p[i], sep, 1) = 0
  <2> SUFFICES ASSUME NEW i \in 1 .. Len(p), i < Len(p) \/ ms < 0 \/ Len(p) <= ms
               PROVE  Found(p[i], sep, 1) = 0
    BY <1>7, Zenon
  <2>1. p[i] \in Seq(Bytes)
    BY <1>6, ElementOfSeq, Zenon
  <2>2. Clean(p[i], sep)
    BY <1>6, Zenon
  <2>3. QED
    BY <1>3, <2>1, <2>2, CleanFound, Zenon
<1>9. Replace(Replace(text, sep, <<NUL>>, ms), <<NUL>>, sep, -1) = text
  <2>1. Replace(Join(p, <<NUL>>), <<NUL>>, sep, -1) = Join(p, sep)
    BY <1>2, <1>6, NulOutside, ReplaceBack, Zenon
  <2>2. QED
    BY <1>5, <1>6, <2>1, Zenon
<1>10. QED
  BY <1>6, <1>8, <1>9, Zenon DEF p

-----------------------------------------------------------------------------
\* What reads a text back byte by byte goes on behind what it has read.
IsReading(f, n, gives, byte, next) ==
  f = [i \in 1 .. n + 4 |-> IF i > n THEN << >>
                            ELSE IF i \in gives THEN <<byte[i]>> \o f[next[i]] ELSE f[next[i]]]

\* A reader that goes on from each place gives something at each place.
LEMMA ReadingExists ==
  ASSUME NEW S, NEW n \in Nat, NEW gives, NEW byte \in [1 .. n -> S],
         NEW next \in [1 .. n -> 1 .. n + 4], \A i \in 1 .. n : next[i] > i
  PROVE  \E f : IsReading(f, n, gives, byte, next)
<1> DEFINE m == n + 3
           piece == [i \in 1 .. m |-> IF i <= n /\ i \in gives THEN <<byte[i]>> ELSE << >>]
           to == [i \in 1 .. m |-> IF i <= n THEN next[i] ELSE i + 1]
<1>1. piece \in [1 .. m -> Seq(S)]
  <2> SUFFICES ASSUME NEW i \in 1 .. m
               PROVE  (IF i <= n /\ i \in gives THEN <<byte[i]>> ELSE << >>) \in Seq(S)
    OBVIOUS
  <2>1. CASE i <= n /\ i \in gives
    <3>1. byte[i] \in S
      BY <2>1
    <3> DEFINE x == byte[i]
    <3> HIDE DEF x
    <3>2. x \in S => <<x>> \in Seq(S)
      OBVIOUS
    <3>3. QED
      BY <2>1, <3>1, <3>2 DEF x
  <2>2. CASE ~(i <= n /\ i \in gives)
    BY <2>2
  <2>3. QED
    BY <2>1, <2>2
<1>2. to \in [1 .. m -> 1 .. m + 1] /\ (\A i \in 1 .. m : to[i] > i) /\ m \in Nat
  OBVIOUS
<1>3. \A i \in 1 .. m :
        /\ piece[i] = IF i <= n /\ i \in gives THEN <<byte[i]>> ELSE << >>
        /\ to[i] = IF i <= n THEN next[i] ELSE i + 1
  OBVIOUS
<1> HIDE DEF piece, to
<1>4. PICK f \in [1 .. m + 1 -> Seq(S)] : f[m + 1] = << >> /\ Onward(f, m, piece, to)
  BY <1>1, <1>2, OnwardExists, Zenon
<1>5. f[m + 1] = << >> /\ \A i \in 1 .. m : f[i] = piece[i] \o f[to[i]]
  BY <1>4, Zenon DEF Onward
<1>6. \A i \in 1 .. m + 1 : f[i] \in Seq(S)
  BY <1>4
<1>7. \A i \in 1 .. m : to[i] \in 1 .. m + 1
  BY <1>2
<1>8. \A i \in 1 .. m : << >> \o f[to[i]] = f[to[i]]
  BY <1>6, <1>7, ConcatEmptySeq, Zenon
<1>9. \A i \in n + 1 .. m : f[i] = f[i + 1]
  <2> TAKE i \in n + 1 .. m
  <2>1. i \in 1 .. m /\ ~(i <= n)
    OBVIOUS
  <2>2. piece[i] = << >> /\ to[i] = i + 1
    BY <1>3, <2>1
  <2>3. QED
    BY <1>5, <1>8, <2>1, <2>2, Zenon
<1>10. f[n + 4] = << >> /\ f[n + 3] = << >> /\ f[n + 2] = << >> /\ f[n + 1] = << >>
  <2>1. m + 1 = n + 4 /\ n + 3 \in n + 1 .. m /\ n + 2 \in n + 1 .. m /\ n + 1 \in n + 1 .. m
    OBVIOUS
  <2>2. n + 3 + 1 = n + 4 /\ n + 2 + 1 = n + 3 /\ n + 1 + 1 = n + 2
    OBVIOUS
  <2>3. f[n + 4] = << >>
    BY <1>5, <2>1
  <2>4. f[n + 3] = << >>
    BY <1>9, <2>1, <2>2, <2>3
  <2>5. f[n + 2] = << >>
    BY <1>9, <2>1, <2>2, <2>4
  <2>6. f[n + 1] = << >>
    BY <1>9, <2>1, <2>2, <2>5
  <2>7. QED
    BY <2>3, <2>4, <2>5, <2>6
<1>11. \A i \in 1 .. n + 4 :
         f[i] = IF i > n THEN << >>
                ELSE IF i \in gives THEN <<byte[i]>> \o f[next[i]] ELSE f[next[i]]
  <2> TAKE i \in 1 .. n + 4
  <2>1. CASE i > n
    <3>1. i = n + 1 \/ i = n + 2 \/ i = n + 3 \/ i = n + 4
      BY <2>1
    <3>2. f[i] = << >>
      BY <1>10, <3>1, Zenon
    <3>3. QED
      BY <2>1, <3>2
  <2>2. CASE ~(i > n)
    <3>1. i \in 1 .. m /\ i <= n
      BY <2>2
    <3>2. to[i] = next[i] /\ piece[i] = IF i \in gives THEN <<byte[i]>> ELSE << >>
      BY <1>3, <3>1
    <3>3. f[i] = piece[i] \o f[next[i]] /\ << >> \o f[next[i]] = f[next[i]]
      BY <1>5, <1>8, <3>1, <3>2, Zenon
    <3>4. QED
      BY <2>2, <3>2, <3>3, Zenon
  <2>3. QED
    BY <2>1, <2>2
<1>12. f = [i \in 1 .. n + 4 |-> f[i]]
  <2>1. m + 1 = n + 4
    OBVIOUS
  <2>2. QED
    BY <1>4, <2>1
<1>13. f = [i \in 1 .. n + 4 |-> IF i > n THEN << >>
                                 ELSE IF i \in gives THEN <<byte[i]>> \o f[next[i]]
                                 ELSE f[next[i]]]
  BY <1>11, <1>12, Zenon
<1>14. QED
  BY <1>13, Zenon DEF IsReading

\* One place of what cstr_unescape and cstr_unrepr read: a byte that is skipped, a
\* byte that stands for itself, a letter behind a backslash, or two digits.
Backslash == "\\"
Digits == "x"
ReadAt(f, t, i, skip, letter) ==
  IF i > Len(t) THEN << >>
  ELSE IF t[i] \in skip THEN f[i + 1]
  ELSE IF t[i] # Backslash THEN <<t[i]>> \o f[i + 1]
  ELSE IF i = Len(t) THEN << >>
  ELSE IF t[i + 1] \in DOMAIN letter THEN <<letter[t[i + 1]]>> \o f[i + 2]
  ELSE IF t[i + 1] = Digits THEN <<FromHex(SubSeq(t, i + 2, i + 3))>> \o f[i + 4]
  ELSE f[i + 2]

IsReader(f, t, skip, letter) ==
  f = [i \in 1 .. Len(t) + 4 |-> ReadAt(f, t, i, skip, letter)]

\* There is such a reader for each key.
LEMMA ReaderExists ==
  ASSUME NEW t, Len(t) \in Nat, NEW skip, NEW letter
  PROVE  \E f : IsReader(f, t, skip, letter)
<1> DEFINE n == Len(t)
           Plain(i) == t[i] # Backslash
           Known(i) == t[i + 1] \in DOMAIN letter
           Hexed(i) == t[i + 1] = Digits
           B(i) == IF Plain(i) THEN t[i] ELSE IF Known(i) THEN letter[t[i + 1]]
                   ELSE FromHex(SubSeq(t, i + 2, i + 3))
           N(i) == IF t[i] \in skip \/ Plain(i) \/ i = n THEN i + 1
                   ELSE IF Known(i) THEN i + 2 ELSE IF Hexed(i) THEN i + 4 ELSE i + 2
           S == {B(i) : i \in 1 .. n}
           gives == {i \in 1 .. n :
                       t[i] \notin skip /\ (Plain(i) \/ (i # n /\ (Known(i) \/ Hexed(i))))}
           byte == [i \in 1 .. n |-> B(i)]
           next == [i \in 1 .. n |-> N(i)]
<1> HIDE DEF B
<1>1. byte \in [1 .. n -> S]
  OBVIOUS
<1> HIDE DEF Plain, Known, Hexed
<1>2. next \in [1 .. n -> 1 .. n + 4] /\ \A i \in 1 .. n : next[i] > i
  OBVIOUS
<1>3. \A i \in 1 .. n :
        /\ byte[i] = B(i)
        /\ next[i] = N(i)
        /\ i \in gives <=> t[i] \notin skip /\ (Plain(i) \/ (i # n /\ (Known(i) \/ Hexed(i))))
  OBVIOUS
<1> HIDE DEF byte, next, gives, S
<1>4. PICK f : IsReading(f, n, gives, byte, next)
  BY <1>1, <1>2, ReadingExists, Zenon
<1> DEFINE R(i) == IF i > n THEN << >>
                   ELSE IF i \in gives THEN <<byte[i]>> \o f[next[i]] ELSE f[next[i]]
<1>5. f = [i \in 1 .. n + 4 |-> R(i)]
  BY <1>4, Zenon DEF IsReading
<1>6. n + 1 \in 1 .. n + 4 /\ n + 1 > n
  OBVIOUS
<1>7. f[n + 1] = << >>
  <2>1. f[n + 1] = R(n + 1)
    BY <1>5, <1>6, Zenon
  <2>2. QED
    BY <1>6, <2>1, Zenon
<1>8. \A i \in 1 .. n + 4 : R(i) = ReadAt(f, t, i, skip, letter)
  <2> TAKE i \in 1 .. n + 4
  <2>1. CASE i > n
    BY <2>1, Zenon DEF ReadAt
  <2>2. CASE ~(i > n)
    <3>1. i \in 1 .. n
      BY <2>2
    <3>2. byte[i] = B(i) /\ next[i] = N(i)
      BY <1>3, <3>1, Zenon
    <3>3. i \in gives <=> t[i] \notin skip /\ (Plain(i) \/ (i # n /\ (Known(i) \/ Hexed(i))))
      BY <1>3, <3>1, Zenon
    <3>4. R(i) = IF i \in gives THEN <<B(i)>> \o f[N(i)] ELSE f[N(i)]
      BY <2>2, <3>2, Zenon
    <3> HIDE DEF R
    <3>5. CASE t[i] \in skip
      BY <2>2, <3>3, <3>4, <3>5, Zenon DEF ReadAt
    <3>6. CASE t[i] \notin skip /\ Plain(i)
      <4>1. R(i) = <<t[i]>> \o f[i + 1]
        BY <3>3, <3>4, <3>6, Zenon DEF B
      <4>2. QED
        BY <2>2, <3>6, <4>1, Zenon DEF ReadAt, Plain
    <3>7. CASE t[i] \notin skip /\ ~Plain(i) /\ i = n
      <4>1. R(i) = f[i + 1]
        BY <3>3, <3>4, <3>7, Zenon
      <4>2. R(i) = << >>
        BY <1>7, <3>7, <4>1
      <4>3. QED
        BY <2>2, <3>7, <4>2, Zenon DEF ReadAt, Plain
    <3>8. CASE t[i] \notin skip /\ ~Plain(i) /\ i # n /\ Known(i)
      <4>1. R(i) = <<letter[t[i + 1]]>> \o f[i + 2]
        BY <3>3, <3>4, <3>8, Zenon DEF B
      <4>2. QED
        BY <2>2, <3>8, <4>1, Zenon DEF ReadAt, Plain, Known
    <3>9. CASE t[i] \notin skip /\ ~Plain(i) /\ i # n /\ ~Known(i) /\ Hexed(i)
      <4>1. R(i) = <<FromHex(SubSeq(t, i + 2, i + 3))>> \o f[i + 4]
        BY <3>3, <3>4, <3>9, Zenon DEF B
      <4>2. QED
        BY <2>2, <3>9, <4>1, Zenon DEF ReadAt, Plain, Known, Hexed
    <3>10. CASE t[i] \notin skip /\ ~Plain(i) /\ i # n /\ ~Known(i) /\ ~Hexed(i)
      <4>1. R(i) = f[i + 2]
        BY <3>3, <3>4, <3>10, Zenon
      <4>2. QED
        BY <2>2, <3>10, <4>1, Zenon DEF ReadAt, Plain, Known, Hexed
    <3>11. QED
      BY <3>5, <3>6, <3>7, <3>8, <3>9, <3>10, Zenon
  <2>3. QED
    BY <2>1, <2>2
<1> HIDE DEF R
<1>9. f = [i \in 1 .. n + 4 |-> ReadAt(f, t, i, skip, letter)]
  BY <1>5, <1>8, Zenon
<1>10. QED
  BY <1>9, Zenon DEF IsReader

\* The letters behind a backslash that cstr_unescape and cstr_unrepr know.
EscapeKey ==
  [l \in EscapeLetters |-> CHOOSE c \in {"\n", NUL, "\\", "\""} : EscapeLetter(c) = l]
ReprKey == [l \in ReprLetters |-> CHOOSE c \in {"\n", "\\", "\""} : ReprLetter(c) = l]

\* cstr_unescape skips nothing, cstr_unrepr the marks around the text.
Mark == "\""
NoSkips == {}
MarkSkips == {Mark}

UnescapeAt(f, t, i) ==
  IF i > Len(t) THEN << >>
  ELSE IF t[i] # "\\" THEN <<t[i]>> \o f[i + 1]
  ELSE IF i = Len(t) THEN << >>
  ELSE IF t[i + 1] \in EscapeLetters
  THEN <<CHOOSE c \in {"\n", NUL, "\\", "\""} : EscapeLetter(c) = t[i + 1]>> \o f[i + 2]
  ELSE IF t[i + 1] = "x"
  THEN <<FromHex(SubSeq(t, i + 2, i + 3))>> \o f[i + 4]
  ELSE f[i + 2]

UnreprAt(f, t, i) ==
  IF i > Len(t) THEN << >>
  ELSE IF t[i] = "\"" THEN f[i + 1]
  ELSE IF t[i] # "\\" THEN <<t[i]>> \o f[i + 1]
  ELSE IF i = Len(t) THEN << >>
  ELSE IF t[i + 1] \in ReprLetters
  THEN <<CHOOSE c \in {"\n", "\\", "\""} : ReprLetter(c) = t[i + 1]>> \o f[i + 2]
  ELSE IF t[i + 1] = "x"
  THEN <<FromHex(SubSeq(t, i + 2, i + 3))>> \o f[i + 4]
  ELSE f[i + 2]

\* A reader of a key reads as a loop does whose body is the same everywhere.
LEMMA UnescapeIs ==
  ASSUME NEW t, Len(t) \in Nat
  PROVE  \E f : IsReader(f, t, NoSkips, EscapeKey) /\ Unescape(t) = f[1]
<1> DEFINE n == Len(t)
           Body(f) == [i \in 1 .. n + 4 |-> UnescapeAt(f, t, i)]
           c == CHOOSE f : f = Body(f)
<1>1. Unescape(t) = c[1]
  BY Zenon DEF Unescape, UnescapeAt
<1>2. \A f : \A i \in 1 .. n + 4 : UnescapeAt(f, t, i) = ReadAt(f, t, i, NoSkips, EscapeKey)
  <2> TAKE f
  <2> TAKE i \in 1 .. n + 4
  <2>1. /\ DOMAIN EscapeKey = EscapeLetters
        /\ \A l \in EscapeLetters :
             EscapeKey[l] = CHOOSE x \in {"\n", NUL, "\\", "\""} : EscapeLetter(x) = l
    BY Zenon DEF EscapeKey
  <2>2. t[i] \notin NoSkips
    BY Zenon DEF NoSkips
  <2>3. CASE i > n \/ t[i] # Backslash \/ i = n
    BY <2>2, <2>3, Zenon DEF UnescapeAt, ReadAt, Backslash
  <2>4. CASE ~(i > n) /\ t[i] = Backslash /\ i # n /\ t[i + 1] \in EscapeLetters
    <3> DEFINE K == CHOOSE x \in {"\n", NUL, "\\", "\""} : EscapeLetter(x) = t[i + 1]
    <3>1. EscapeKey[t[i + 1]] = K
      BY <2>1, <2>4, Zenon
    <3>2. UnescapeAt(f, t, i) = <<K>> \o f[i + 2]
      BY <2>4, Zenon DEF UnescapeAt, Backslash
    <3>3. ReadAt(f, t, i, NoSkips, EscapeKey) = <<EscapeKey[t[i + 1]]>> \o f[i + 2]
      BY <2>1, <2>2, <2>4, Zenon DEF ReadAt
    <3> HIDE DEF K
    <3>4. QED
      BY <3>1, <3>2, <3>3, Zenon
  <2>5. CASE ~(i > n) /\ t[i] = Backslash /\ i # n /\ t[i + 1] \notin EscapeLetters
    BY <2>1, <2>2, <2>5, Zenon DEF UnescapeAt, ReadAt, Backslash, Digits
  <2>6. QED
    BY <2>3, <2>4, <2>5, Zenon
<1>3. \A f : Body(f) = [i \in 1 .. n + 4 |-> ReadAt(f, t, i, NoSkips, EscapeKey)]
  BY <1>2, Zenon
<1>4. \E f : IsReader(f, t, NoSkips, EscapeKey)
  BY ReaderExists, Zenon
<1>5. \E f : f = Body(f)
  <2>1. PICK f : IsReader(f, t, NoSkips, EscapeKey)
    BY <1>4, Zenon
  <2>2. f = [i \in 1 .. n + 4 |-> ReadAt(f, t, i, NoSkips, EscapeKey)]
    BY <2>1, Zenon DEF IsReader
  <2>3. f = Body(f)
    BY <1>3, <2>2, Zenon
  <2> HIDE DEF Body
  <2>4. QED
    BY <2>3, Zenon
<1>6. c = Body(c)
  BY <1>5, Zenon
<1> HIDE DEF c
<1>7. IsReader(c, t, NoSkips, EscapeKey)
  BY <1>3, <1>6, Zenon DEF IsReader
<1>8. QED
  BY <1>1, <1>7, Zenon

\* Unrepr too reads as such a reader does.
LEMMA UnreprIs ==
  ASSUME NEW t, Len(t) \in Nat
  PROVE  \E f : IsReader(f, t, MarkSkips, ReprKey) /\ Unrepr(t) = f[1]
<1> DEFINE n == Len(t)
           Body(f) == [i \in 1 .. n + 4 |-> UnreprAt(f, t, i)]
           c == CHOOSE f : f = Body(f)
<1>1. Unrepr(t) = c[1]
  BY Zenon DEF Unrepr, UnreprAt
<1>2. \A f : \A i \in 1 .. n + 4 : UnreprAt(f, t, i) = ReadAt(f, t, i, MarkSkips, ReprKey)
  <2> TAKE f
  <2> TAKE i \in 1 .. n + 4
  <2>1. /\ DOMAIN ReprKey = ReprLetters
        /\ \A l \in ReprLetters :
             ReprKey[l] = CHOOSE x \in {"\n", "\\", "\""} : ReprLetter(x) = l
    BY Zenon DEF ReprKey
  <2>2. t[i] \in MarkSkips <=> t[i] = "\""
    BY Zenon DEF MarkSkips, Mark
  <2>3. CASE i > n \/ t[i] = "\"" \/ t[i] # Backslash \/ i = n
    BY <2>2, <2>3, Zenon DEF UnreprAt, ReadAt, Backslash
  <2>4. CASE ~(i > n) /\ t[i] # "\"" /\ t[i] = Backslash /\ i # n /\ t[i + 1] \in ReprLetters
    <3> DEFINE K == CHOOSE x \in {"\n", "\\", "\""} : ReprLetter(x) = t[i + 1]
    <3>1. ReprKey[t[i + 1]] = K
      BY <2>1, <2>4, Zenon
    <3>2. UnreprAt(f, t, i) = <<K>> \o f[i + 2]
      BY <2>4, Zenon DEF UnreprAt, Backslash
    <3>3. ReadAt(f, t, i, MarkSkips, ReprKey) = <<ReprKey[t[i + 1]]>> \o f[i + 2]
      BY <2>1, <2>2, <2>4, Zenon DEF ReadAt
    <3> HIDE DEF K
    <3>4. QED
      BY <3>1, <3>2, <3>3, Zenon
  <2>5. CASE ~(i > n) /\ t[i] # "\"" /\ t[i] = Backslash /\ i # n /\ t[i + 1] \notin ReprLetters
    BY <2>1, <2>2, <2>5, Zenon DEF UnreprAt, ReadAt, Backslash, Digits
  <2>6. QED
    BY <2>3, <2>4, <2>5, Zenon
<1>3. \A f : Body(f) = [i \in 1 .. n + 4 |-> ReadAt(f, t, i, MarkSkips, ReprKey)]
  BY <1>2, Zenon
<1>4. \E f : IsReader(f, t, MarkSkips, ReprKey)
  BY ReaderExists, Zenon
<1>5. \E f : f = Body(f)
  BY <1>3, <1>4, Zenon DEF IsReader
<1>6. c = Body(c)
  BY <1>5, Zenon
<1> HIDE DEF c
<1>7. IsReader(c, t, MarkSkips, ReprKey)
  BY <1>3, <1>6, Zenon DEF IsReader
<1>8. QED
  BY <1>1, <1>7, Zenon

\* What the letters say, and that the one in front of two digits is none of them.
EnLetter == "n"

\* The key of an escape gives a newline for its letter, and none for the hex digits.
LEMMA EscapeKeyIs ==
  /\ Digits \notin DOMAIN EscapeKey
  /\ EnLetter \in DOMAIN EscapeKey /\ EscapeKey[EnLetter] = Newline
<1>1. DOMAIN EscapeKey = EscapeLetters
  BY Zenon DEF EscapeKey
<1>2. Digits \notin EscapeLetters /\ EnLetter \in EscapeLetters
  BY Zenon DEF Digits, EnLetter, EscapeLetters
<1>3. EscapeKey[EnLetter] = CHOOSE x \in {"\n", NUL, "\\", "\""} : EscapeLetter(x) = EnLetter
  BY <1>2, Zenon DEF EscapeKey
<1>4. EscapeLetter("\n") = EnLetter
  <2>1. NUL # "\n"
    BY Zenon DEF NUL
  <2>2. QED
    BY <2>1, Zenon DEF EscapeLetter, EnLetter
<1>5. EscapeLetter(NUL) # EnLetter
  <2>1. NUL # "\n" /\ "0" # EnLetter
    BY Zenon DEF NUL, EnLetter
  <2>2. QED
    BY <2>1, Zenon DEF EscapeLetter
<1>6. EscapeLetter("\\") # EnLetter /\ EscapeLetter("\"") # EnLetter
  <2>1. "\\" # "\n" /\ "\\" # NUL /\ "\\" # EnLetter
    BY Zenon DEF NUL, EnLetter
  <2>2. "\"" # "\n" /\ "\"" # NUL /\ "\"" # EnLetter
    BY Zenon DEF NUL, EnLetter
  <2>3. EscapeLetter("\\") = "\\" /\ EscapeLetter("\"") = "\""
    BY <2>1, <2>2, Zenon DEF EscapeLetter
  <2>4. QED
    BY <2>1, <2>2, <2>3, Zenon
<1>7. \A x \in {"\n", NUL, "\\", "\""} : EscapeLetter(x) = EnLetter <=> x = "\n"
  BY <1>4, <1>5, <1>6, Zenon
<1>8. (CHOOSE x \in {"\n", NUL, "\\", "\""} : EscapeLetter(x) = EnLetter) = "\n"
  BY <1>7, Zenon
<1>9. QED
  BY <1>1, <1>2, <1>3, <1>8, Zenon DEF Newline

\* The key of a repr gives each byte for its letter, and none for the hex digits.
LEMMA ReprKeyIs ==
  /\ Digits \notin DOMAIN ReprKey
  /\ \A x \in {"\n", "\\", "\""} : ReprLetter(x) \in DOMAIN ReprKey /\ ReprKey[ReprLetter(x)] = x
<1>1. DOMAIN ReprKey = ReprLetters
  BY Zenon DEF ReprKey
<1>2. Digits \notin ReprLetters
  BY Zenon DEF Digits, ReprLetters
<1>3. "\\" # "\n" /\ "\"" # "\n" /\ "\\" # "\"" /\ "\\" # "n" /\ "\"" # "n"
  BY Zenon
<1>4. ReprLetter("\n") = "n" /\ ReprLetter("\\") = "\\" /\ ReprLetter("\"") = "\""
  BY <1>3, Zenon DEF ReprLetter
<1>5. \A x, y \in {"\n", "\\", "\""} : ReprLetter(x) = ReprLetter(y) => x = y
  BY <1>3, <1>4, Zenon
<1>6. ASSUME NEW x \in {"\n", "\\", "\""}
      PROVE  ReprLetter(x) \in ReprLetters /\ ReprKey[ReprLetter(x)] = x
  <2>1. ReprLetter(x) \in ReprLetters
    BY <1>4, Zenon DEF ReprLetters
  <2>2. ReprKey[ReprLetter(x)] = CHOOSE y \in {"\n", "\\", "\""} : ReprLetter(y) = ReprLetter(x)
    BY <2>1, Zenon DEF ReprKey
  <2>3. \A y \in {"\n", "\\", "\""} : ReprLetter(y) = ReprLetter(x) <=> y = x
    BY <1>5, Zenon
  <2>4. (CHOOSE y \in {"\n", "\\", "\""} : ReprLetter(y) = ReprLetter(x)) = x
    BY <2>3, Zenon
  <2>5. QED
    BY <2>1, <2>2, <2>4, Zenon
<1>7. QED
  BY <1>1, <1>2, <1>6, Zenon

\* The bytes e are in the text behind the first off, and reading them gives out.
LiesAt(t, e, off) == off + Len(e) <= Len(t) /\ \A j \in 1 .. Len(e) : t[off + j] = e[j]
Decodes(f, off, e, out) == f[off + 1] = out \o f[off + Len(e) + 1]

\* What the reader gives at a place of the text.
LEMMA ReadHere ==
  ASSUME NEW t, Len(t) \in Nat, NEW skip, NEW letter, NEW f, IsReader(f, t, skip, letter),
         NEW i \in 1 .. Len(t) + 4
  PROVE  f[i] = ReadAt(f, t, i, skip, letter)
BY Zenon DEF IsReader

SkipsOn(f, off) == f[off + 1] = f[off + 2]

\* A byte that is skipped adds nothing.
LEMMA ReadSkipped ==
  ASSUME NEW t, Len(t) \in Nat, NEW skip, NEW letter, NEW f, IsReader(f, t, skip, letter),
         NEW off \in Nat, NEW x, LiesAt(t, <<x>>, off), x \in skip
  PROVE  SkipsOn(f, off)
<1>1. off + 1 <= Len(t) /\ t[off + 1] = x
  BY DEF LiesAt
<1>2. off + 1 \in 1 .. Len(t) + 4 /\ ~(off + 1 > Len(t)) /\ (off + 1) + 1 = off + 2
  BY <1>1
<1>3. f[off + 1] = ReadAt(f, t, off + 1, skip, letter)
  BY <1>2, ReadHere
<1>4. ReadAt(f, t, off + 1, skip, letter) = f[(off + 1) + 1]
  BY <1>1, <1>2, Zenon DEF ReadAt
<1>5. QED
  BY <1>2, <1>3, <1>4 DEF SkipsOn

\* A byte that is not escaped is read as itself.
LEMMA ReadPlain ==
  ASSUME NEW t, Len(t) \in Nat, NEW skip, NEW letter, NEW f, IsReader(f, t, skip, letter),
         NEW off \in Nat, NEW x, LiesAt(t, <<x>>, off), x \notin skip, x # Backslash
  PROVE  Decodes(f, off, <<x>>, <<x>>)
<1>1. off + 1 <= Len(t) /\ t[off + 1] = x /\ Len(<<x>>) = 1
  BY DEF LiesAt
<1>2. off + 1 \in 1 .. Len(t) + 4 /\ ~(off + 1 > Len(t)) /\ (off + 1) + 1 = off + Len(<<x>>) + 1
  BY <1>1
<1>3. f[off + 1] = ReadAt(f, t, off + 1, skip, letter)
  BY <1>2, ReadHere
<1>4. ReadAt(f, t, off + 1, skip, letter) = <<x>> \o f[(off + 1) + 1]
  BY <1>1, <1>2, Zenon DEF ReadAt
<1>5. QED
  BY <1>2, <1>3, <1>4, Zenon DEF Decodes

\* A letter behind a backslash is read as the byte it is for.
LEMMA ReadLetter ==
  ASSUME NEW t, Len(t) \in Nat, NEW skip, NEW letter, NEW f, IsReader(f, t, skip, letter),
         NEW off \in Nat, NEW x, LiesAt(t, <<Backslash, x>>, off), Backslash \notin skip,
         x \in DOMAIN letter
  PROVE  Decodes(f, off, <<Backslash, x>>, <<letter[x]>>)
<1>1. off + 2 <= Len(t) /\ t[off + 1] = Backslash /\ t[off + 2] = x /\ Len(<<Backslash, x>>) = 2
  BY DEF LiesAt
<1>2. /\ off + 1 \in 1 .. Len(t) + 4 /\ ~(off + 1 > Len(t)) /\ off + 1 # Len(t)
      /\ (off + 1) + 1 = off + 2 /\ (off + 1) + 2 = off + Len(<<Backslash, x>>) + 1
  BY <1>1
<1>3. f[off + 1] = ReadAt(f, t, off + 1, skip, letter)
  BY <1>2, ReadHere
<1>4. t[(off + 1) + 1] = x
  BY <1>1, <1>2
<1>5. ReadAt(f, t, off + 1, skip, letter) = <<letter[x]>> \o f[(off + 1) + 2]
  BY <1>1, <1>2, <1>4, Zenon DEF ReadAt
<1>6. QED
  BY <1>2, <1>3, <1>5, Zenon DEF Decodes

\* The two digits of a byte are those of no other.
HexBytes == {CTL, LEAD, CONT}
HexDigits == {"0", "1", "c", "3", "a", "9"}

\* Two hex digits are read as the byte they are of.
LEMMA HexIs ==
  ASSUME NEW c \in HexBytes
  PROVE  (\E a \in HexDigits, b \in HexDigits : Hex(c) = <<a, b>>) /\ FromHex(Hex(c)) = c
<1> DEFINE zero == "0"
           one == "1"
           cc == "c"
           three == "3"
           aa == "a"
           nine == "9"
<1>1. CTL # LEAD /\ CTL # CONT /\ LEAD # CONT
  BY Zenon DEF CTL, LEAD, CONT
<1>2. zero # cc /\ zero # aa /\ cc # aa
  BY Zenon
<1>3. Hex(CTL) = <<zero, one>> /\ Hex(LEAD) = <<cc, three>> /\ Hex(CONT) = <<aa, nine>>
  BY <1>1, Zenon DEF Hex
<1>4. {zero, one, cc, three, aa, nine} \subseteq HexDigits
  BY Zenon DEF HexDigits
<1> HIDE DEF zero, one, cc, three, aa, nine
<1>5. \A a, b, x, y : <<a, b>> = <<x, y>> => a = x
  OBVIOUS
<1>6. Hex(CTL) # Hex(LEAD) /\ Hex(CTL) # Hex(CONT) /\ Hex(LEAD) # Hex(CONT)
  BY <1>2, <1>3, <1>5, Zenon
<1>7. \A d \in {CTL, LEAD, CONT} : Hex(d) = Hex(c) <=> d = c
  BY <1>6, Zenon DEF HexBytes
<1>8. (CHOOSE d \in {CTL, LEAD, CONT} : Hex(d) = Hex(c)) = c
  BY <1>7, Zenon DEF HexBytes
<1>9. \E a \in HexDigits, b \in HexDigits : Hex(c) = <<a, b>>
  BY <1>3, <1>4, Zenon DEF HexBytes
<1>10. QED
  BY <1>8, <1>9, Zenon DEF FromHex

HexPiece(c) == <<Backslash, Digits>> \o Hex(c)

\* What is written for a byte in hex: a backslash, an x and two digits.
LEMMA HexPieceIs ==
  ASSUME NEW c \in HexBytes
  PROVE  \E a \in HexDigits, b \in HexDigits :
           /\ Hex(c) = <<a, b>>
           /\ HexPiece(c) = <<Backslash, Digits, a, b>>
<1>1. PICK a \in HexDigits, b \in HexDigits : Hex(c) = <<a, b>>
  BY HexIs
<1> DEFINE S == {Backslash, Digits, a, b}
           u == <<Backslash, Digits>>
           v == <<a, b>>
           w == <<Backslash, Digits, a, b>>
<1>2. /\ u \in Seq(S) /\ v \in Seq(S) /\ w \in Seq(S)
      /\ Len(u) = 2 /\ Len(v) = 2 /\ Len(w) = 4
      /\ u[1] = w[1] /\ u[2] = w[2] /\ v[1] = w[3] /\ v[2] = w[4]
  OBVIOUS
<1> HIDE DEF S, u, v, w
<1>3. /\ u \o v \in Seq(S) /\ Len(u \o v) = 4
      /\ \A i \in 1 .. 4 : (u \o v)[i] = IF i <= 2 THEN u[i] ELSE v[i - 2]
  <2> DEFINE y == u \o v
  <2>1. /\ y \in Seq(S) /\ Len(y) = Len(u) + Len(v)
        /\ \A i \in 1 .. Len(u) + Len(v) : y[i] = IF i <= Len(u) THEN u[i] ELSE v[i - Len(u)]
    BY <1>2, ConcatProperties
  <2> HIDE DEF y
  <2>2. Len(u) + Len(v) = 4
    BY <1>2
  <2>3. QED
    BY <1>2, <2>1, <2>2 DEF y
<1>4. \A i \in 1 .. 4 : (u \o v)[i] = w[i]
  <2>1. \A i \in 1 .. 4 : i = 1 \/ i = 2 \/ i = 3 \/ i = 4
    OBVIOUS
  <2>2. (u \o v)[1] = w[1] /\ (u \o v)[2] = w[2] /\ (u \o v)[3] = w[3] /\ (u \o v)[4] = w[4]
    BY <1>2, <1>3
  <2>3. QED
    BY <2>1, <2>2
<1>5. u \o v = w
  BY <1>2, <1>3, <1>4, SeqEqual
<1>6. HexPiece(c) = w
  BY <1>1, <1>5, Zenon DEF HexPiece, u, v
<1>7. QED
  BY <1>1, <1>6, Zenon DEF w

\* It is read as that byte.
LEMMA ReadHex ==
  ASSUME NEW t, Len(t) \in Nat, NEW skip, NEW letter, NEW f, IsReader(f, t, skip, letter),
         NEW off \in Nat, NEW c \in HexBytes, LiesAt(t, HexPiece(c), off), Backslash \notin skip,
         Digits \notin DOMAIN letter, NEW S, t \in Seq(S)
  PROVE  Decodes(f, off, HexPiece(c), <<c>>)
<1>1. PICK a, b : Hex(c) = <<a, b>> /\ HexPiece(c) = <<Backslash, Digits, a, b>>
  BY HexPieceIs
<1> DEFINE e == <<Backslash, Digits, a, b>>
<1>2. Len(e) = 4 /\ e[1] = Backslash /\ e[2] = Digits /\ e[3] = a /\ e[4] = b
  OBVIOUS
<1>3. LiesAt(t, e, off)
  BY <1>1, Zenon
<1> HIDE DEF e
<1>4. /\ off + 4 <= Len(t) /\ t[off + 1] = Backslash /\ t[off + 2] = Digits
      /\ t[off + 3] = a /\ t[off + 4] = b
  BY <1>2, <1>3 DEF LiesAt
<1>5. /\ off + 1 \in 1 .. Len(t) + 4 /\ ~(off + 1 > Len(t)) /\ off + 1 # Len(t)
      /\ (off + 1) + 1 = off + 2 /\ (off + 1) + 4 = off + Len(e) + 1
      /\ (off + 1) + 2 = off + 3 /\ (off + 1) + 3 = off + 4
  BY <1>2, <1>4
<1>6. f[off + 1] = ReadAt(f, t, off + 1, skip, letter)
  BY <1>5, ReadHere
<1>7. t[(off + 1) + 1] = Digits
  BY <1>4, <1>5
<1>8. SubSeq(t, (off + 1) + 2, (off + 1) + 3) = <<a, b>>
  <2> DEFINE u == SubSeq(t, off + 3, off + 4)
             v == <<a, b>>
             W == S \cup {a, b}
  <2>1. InText(t, off + 3, off + 4, 2)
    BY <1>4 DEF InText
  <2>2. IsCut(u, S, t, off + 3, 2)
    BY <2>1, PieceIs, Zenon
  <2> HIDE DEF u
  <2>3. u \in Seq(S) /\ Len(u) = 2 /\ \A i \in 1 .. 2 : u[i] = t[off + 3 + i - 1]
    BY <2>2, Zenon DEF IsCut
  <2>4. u[1] = a /\ u[2] = b
    <3>1. 1 \in 1 .. 2 /\ 2 \in 1 .. 2 /\ off + 3 + 1 - 1 = off + 3 /\ off + 3 + 2 - 1 = off + 4
      OBVIOUS
    <3>2. QED
      BY <1>4, <2>3, <3>1
  <2>5. v \in Seq(W) /\ Len(v) = 2 /\ v[1] = a /\ v[2] = b
    OBVIOUS
  <2>6. u \in Seq(W)
    BY <2>3, SeqMonotonic
  <2> HIDE DEF v, W
  <2>7. \A i \in 1 .. Len(u) : u[i] = v[i]
    <3>1. \A i \in 1 .. 2 : i = 1 \/ i = 2
      OBVIOUS
    <3>2. QED
      BY <2>3, <2>4, <2>5, <3>1
  <2>8. u = v
    BY <2>3, <2>5, <2>6, <2>7, SeqEqual
  <2>9. QED
    BY <1>5, <2>8 DEF u, v
<1>9. FromHex(SubSeq(t, (off + 1) + 2, (off + 1) + 3)) = c
  BY <1>1, <1>8, HexIs, Zenon
<1>10. ReadAt(f, t, off + 1, skip, letter)
         = <<FromHex(SubSeq(t, (off + 1) + 2, (off + 1) + 3))>> \o f[(off + 1) + 4]
  BY <1>4, <1>5, <1>7, Zenon DEF ReadAt
<1>11. f[off + 1] = <<c>> \o f[off + Len(e) + 1]
  BY <1>5, <1>6, <1>9, <1>10
<1>12. QED
  BY <1>1, <1>11, Zenon DEF Decodes, e

\* Where a piece lies in the pieces put together.
LEMMA LiesThrough ==
  ASSUME NEW t, NEW u, NEW e, NEW off \in Nat, Len(t) \in Nat, Len(u) \in Nat, Len(e) \in Nat,
         StartsWith(t, u), LiesAt(u, e, off)
  PROVE  LiesAt(t, e, off)
<1>1. off + Len(e) <= Len(u) /\ Len(u) <= Len(t)
  BY DEF StartsWith, LiesAt
<1>2. \A j \in 1 .. Len(e) : off + j \in 1 .. Len(u) /\ u[off + j] = e[j]
  BY <1>1 DEF LiesAt
<1>3. \A j \in 1 .. Len(u) : t[j] = u[j]
  BY DEF StartsWith
<1>4. \A j \in 1 .. Len(e) : t[off + j] = e[j]
  BY <1>2, <1>3
<1>5. QED
  BY <1>1, <1>4 DEF LiesAt

\* Pieces put together lie one behind the other.
LEMMA PiecesLie ==
  ASSUME NEW S, NEW s \in Seq(Seq(S)), NEW g \in [0 .. Len(s) -> Seq(S)], Together(g, s)
  PROVE  \A k \in 1 .. Len(s) : /\ LiesAt(g[Len(s)], s[k], Len(g[k - 1]))
                                /\ Len(g[k]) = Len(g[k - 1]) + Len(s[k])
<1> DEFINE n == Len(s)
           t == g[n]
           G == {i \in 1 .. n + 1 : StartsWith(t, g[i - 1])}
<1>1. n \in Nat
  BY LenProperties
<1>2. \A k \in 1 .. n : s[k] \in Seq(S)
  BY ElementOfSeq
<1>3. \A k \in 1 .. n : g[k] = g[k - 1] \o s[k]
  BY Zenon DEF Together
<1>4. \A k \in 0 .. n : g[k] \in Seq(S)
  OBVIOUS
<1> HIDE DEF n
<1>5. \A k \in 0 .. n : Len(g[k]) \in Nat
  BY <1>4, LenProperties
<1>6. \A k \in 1 .. n : k \in 0 .. n /\ k - 1 \in 0 .. n
  BY <1>1
<1>7. n + 1 \in G
  <2>1. n + 1 \in 1 .. n + 1 /\ (n + 1) - 1 = n /\ n \in 0 .. n
    BY <1>1
  <2>2. StartsWith(t, t)
    <3>1. Len(t) \in Nat
      BY <1>5, <2>1
    <3> HIDE DEF t
    <3>2. QED
      BY <3>1 DEF StartsWith
  <2>3. QED
    BY <2>1, <2>2
<1>8. ASSUME NEW i \in 1 .. n, \A j \in i + 1 .. n + 1 : j \in G PROVE i \in G
  <2>1. i + 1 \in i + 1 .. n + 1 /\ (i + 1) - 1 = i /\ i \in 1 .. n + 1 /\ n \in 0 .. n
    BY <1>1
  <2>2. StartsWith(t, g[i])
    BY <1>8, <2>1
  <2>3. i \in 0 .. n /\ i - 1 \in 0 .. n
    BY <1>6
  <2>4. StartsWith(g[i], g[i - 1])
    <3>1. g[i - 1] \in Seq(S) /\ s[i] \in Seq(S) /\ g[i] = g[i - 1] \o s[i]
      BY <1>2, <1>3, <1>4, <2>3
    <3>2. StartsWith(g[i - 1] \o s[i], g[i - 1])
      BY <3>1, StartsConcat, Zenon
    <3>3. QED
      BY <3>1, <3>2, Zenon
  <2>5. Len(t) \in Nat /\ Len(g[i]) \in Nat /\ Len(g[i - 1]) \in Nat
    BY <1>5, <2>1, <2>3
  <2> HIDE DEF t
  <2>6. StartsWith(t, g[i - 1])
    BY <2>2, <2>4, <2>5, StartsThrough, Zenon
  <2>7. QED
    BY <2>1, <2>6
<1> HIDE DEF G
<1>9. \A i \in 1 .. n + 1 : i \in G
  BY <1>1, <1>7, <1>8, AllDown, Zenon
<1>10. SUFFICES ASSUME NEW k \in 1 .. n
                PROVE  LiesAt(t, s[k], Len(g[k - 1])) /\ Len(g[k]) = Len(g[k - 1]) + Len(s[k])
  BY DEF n
<1> DEFINE u == g[k - 1]
           v == g[k]
           e == s[k]
<1>11. /\ k \in 0 .. n /\ k - 1 \in 0 .. n /\ n \in 0 .. n
       /\ k + 1 \in 1 .. n + 1 /\ (k + 1) - 1 = k
  BY <1>1
<1>12. u \in Seq(S) /\ v \in Seq(S) /\ e \in Seq(S) /\ t \in Seq(S) /\ v = u \o e
  BY <1>2, <1>3, <1>4, <1>11
<1>13. StartsWith(t, v)
  BY <1>9, <1>11 DEF G
<1> HIDE DEF u, v, e, t
<1>14. Len(v) = Len(u) + Len(e) /\ \A j \in 1 .. Len(e) : v[Len(u) + j] = e[j]
  BY <1>12, BehindIs
<1>15. Len(u) \in Nat /\ Len(v) \in Nat /\ Len(e) \in Nat /\ Len(t) \in Nat
  BY <1>12, LenProperties
<1>16. LiesAt(v, e, Len(u))
  BY <1>14, <1>15 DEF LiesAt
<1>17. LiesAt(t, e, Len(u))
  BY <1>13, <1>15, <1>16, LiesThrough, Zenon
<1>18. QED
  BY <1>14, <1>17, Zenon DEF u, v, e, t

\* What is read from piece to piece is the rest of the text from each of them on.
Chained(m, f, pos, rest) ==
  /\ f[pos[m] + 1] = rest[m + 1]
  /\ \A k \in 1 .. m : f[pos[k] + 1] = rest[k + 1] => f[pos[k - 1] + 1] = rest[k]

ChainGives(f, pos, rest) == f[pos[0] + 1] = rest[1]

\* If each piece is read and then what is behind it, all of them are read.
LEMMA ChainRead ==
  ASSUME NEW m \in Nat, NEW f, NEW pos, NEW rest, Chained(m, f, pos, rest)
  PROVE  ChainGives(f, pos, rest)
<1> DEFINE G == {i \in 1 .. m + 1 : f[pos[i - 1] + 1] = rest[i]}
<1>1. m + 1 \in G
  <2>1. m + 1 \in 1 .. m + 1 /\ (m + 1) - 1 = m
    OBVIOUS
  <2>2. f[pos[m] + 1] = rest[m + 1]
    BY Zenon DEF Chained
  <2>3. QED
    BY <2>1, <2>2
<1>2. ASSUME NEW i \in 1 .. m, \A j \in i + 1 .. m + 1 : j \in G PROVE i \in G
  <2>1. i + 1 \in i + 1 .. m + 1 /\ (i + 1) - 1 = i /\ i \in 1 .. m + 1
    OBVIOUS
  <2>2. f[pos[i] + 1] = rest[i + 1]
    BY <1>2, <2>1
  <2>3. f[pos[i - 1] + 1] = rest[i]
    BY <2>2, Zenon DEF Chained
  <2>4. QED
    BY <2>1, <2>3
<1> HIDE DEF G
<1>3. \A i \in 1 .. m + 1 : i \in G
  BY <1>1, <1>2, AllDown, Zenon
<1>4. 1 \in 1 .. m + 1 /\ 1 - 1 = 0
  OBVIOUS
<1>5. QED
  BY <1>3, <1>4 DEF G, ChainGives

\* The rest of a text is its first byte and the rest behind that.
LEMMA RestCons ==
  ASSUME NEW S, NEW t \in Seq(S), NEW k \in 1 .. Len(t)
  PROVE  SubSeq(t, k, Len(t)) = <<t[k]>> \o SubSeq(t, k + 1, Len(t))
<1>1. Len(t) \in Nat /\ t[k] \in S
  BY LenProperties, ElementOfSeq
<1>2. SubSeq(t, k, k) \o SubSeq(t, k + 1, Len(t)) = SubSeq(t, k, Len(t))
  <2>1. k \in 1 .. Len(t) + 1 /\ k \in k - 1 .. Len(t) /\ Len(t) \in k .. Len(t)
    BY <1>1
  <2>2. QED
    BY <2>1, ConcatAdjacentSubSeq
<1>3. SubSeq(t, k, k) = <<t[k]>>
  <2> DEFINE u == SubSeq(t, k, k)
             v == <<t[k]>>
  <2>1. InText(t, k, k, 1)
    BY <1>1 DEF InText
  <2>2. IsCut(u, S, t, k, 1)
    BY <2>1, PieceIs, Zenon
  <2> HIDE DEF u
  <2>3. u \in Seq(S) /\ Len(u) = 1 /\ \A i \in 1 .. 1 : u[i] = t[k + i - 1]
    BY <2>2, Zenon DEF IsCut
  <2>4. u[1] = t[k]
    <3>1. 1 \in 1 .. 1 /\ k + 1 - 1 = k
      OBVIOUS
    <3>2. QED
      BY <2>3, <3>1
  <2>5. v \in Seq(S) /\ Len(v) = 1 /\ v[1] = t[k]
    BY <1>1
  <2> HIDE DEF v
  <2>6. \A i \in 1 .. Len(u) : u[i] = v[i]
    <3>1. \A i \in 1 .. 1 : i = 1
      OBVIOUS
    <3>2. QED
      BY <2>3, <2>4, <2>5, <3>1
  <2>7. QED
    BY <2>3, <2>5, <2>6, SeqEqual DEF u, v
<1>4. QED
  BY <1>2, <1>3, Zenon

\* Every byte is printable, a newline, or one that is written as two digits.
OutBytes ==
  Printable \cup {Newline, CTL, LEAD, CONT} \cup {Backslash, EnLetter, Digits} \cup HexDigits

\* Each byte is printable, the newline or written in hex, and only one of these.
LEMMA Sorts ==
  /\ Bytes \subseteq Printable \cup {Newline} \cup HexBytes
  /\ Newline \notin Printable /\ Newline \notin HexBytes
  /\ \A c \in HexBytes : c \notin Printable
  /\ Backslash \in Printable
  /\ Bytes \subseteq OutBytes
<1>1. Bytes \subseteq Printable \cup {"\n", CTL, LEAD, CONT}
  BY ValuesAssumption, Zenon
<1>2. Newline \notin Printable
  BY Zenon DEF Newline, Printable
<1>3. Newline \notin HexBytes
  BY Zenon DEF Newline, HexBytes, CTL, LEAD, CONT
<1>4. CTL \notin Printable /\ LEAD \notin Printable /\ CONT \notin Printable
  BY Zenon DEF Printable, CTL, LEAD, CONT
<1>5. Backslash \in Printable
  BY Zenon DEF Printable, Backslash
<1>6. Bytes \subseteq Printable \cup {Newline} \cup HexBytes
  BY <1>1, Zenon DEF HexBytes, Newline
<1>7. Bytes \subseteq OutBytes
  BY <1>1, Zenon DEF OutBytes, Newline
<1>8. \A c \in HexBytes : c \notin Printable
  BY <1>4, Zenon DEF HexBytes
<1>9. QED
  BY <1>2, <1>3, <1>5, <1>6, <1>7, <1>8, Zenon

\* What is written in hex are bytes of an output.
LEMMA HexWritten ==
  ASSUME NEW c \in HexBytes
  PROVE  HexPiece(c) \in Seq(OutBytes)
<1>1. PICK a \in HexDigits, b \in HexDigits : HexPiece(c) = <<Backslash, Digits, a, b>>
  BY HexPieceIs, Zenon
<1>2. Backslash \in OutBytes /\ Digits \in OutBytes /\ a \in OutBytes /\ b \in OutBytes
  BY Zenon DEF OutBytes
<1>3. \A x, y \in OutBytes : <<x, y, a, b>> \in Seq(OutBytes)
  BY <1>2
<1>4. QED
  BY <1>1, <1>2, <1>3, Zenon

\* How each is escaped.
LEMMA EscapedIs ==
  ASSUME NEW c \in Bytes
  PROVE  /\ Escaped(c) \in Seq(OutBytes)
         /\ c \in Printable => Escaped(c) = <<c>>
         /\ c = Newline => Escaped(c) = <<Backslash, EnLetter>>
         /\ c \in HexBytes => Escaped(c) = HexPiece(c)
<1>1. c \in Printable => Escaped(c) = <<c>>
  BY Zenon DEF Escaped
<1>2. EscapeLetter("\n") = EnLetter
  <2>1. NUL # "\n"
    BY Zenon DEF NUL
  <2>2. QED
    BY <2>1, Zenon DEF EscapeLetter, EnLetter
<1>3. c = Newline => Escaped(c) = <<Backslash, EnLetter>>
  <2> SUFFICES ASSUME c = Newline PROVE Escaped(c) = <<Backslash, EnLetter>>
    OBVIOUS
  <2>1. c \notin Printable /\ c = "\n"
    BY Sorts, Zenon DEF Newline
  <2>2. Escaped(c) = <<"\\", EscapeLetter(c)>>
    BY <2>1, Zenon DEF Escaped
  <2>3. EscapeLetter(c) = EnLetter
    BY <1>2, <2>1, Zenon
  <2>4. QED
    BY <2>2, <2>3, Zenon DEF Backslash
<1>4. c \in HexBytes => Escaped(c) = HexPiece(c)
  <2> SUFFICES ASSUME c \in HexBytes PROVE Escaped(c) = HexPiece(c)
    OBVIOUS
  <2>1. c \notin Printable /\ c # "\n"
    BY Sorts, Zenon DEF Newline
  <2>2. QED
    BY <2>1, Zenon DEF Escaped, HexPiece, Backslash, Digits
<1>5. Escaped(c) \in Seq(OutBytes)
  <2>1. c \in OutBytes /\ Backslash \in OutBytes /\ EnLetter \in OutBytes
    BY Sorts, Zenon DEF OutBytes
  <2>2. \A x, y \in OutBytes : <<x>> \in Seq(OutBytes) /\ <<x, y>> \in Seq(OutBytes)
    OBVIOUS
  <2>3. CASE c \in Printable
    BY <1>1, <2>1, <2>2, <2>3, Zenon
  <2>4. CASE c = Newline
    BY <1>3, <2>1, <2>2, <2>4, Zenon
  <2>5. CASE c \in HexBytes
    BY <1>4, <2>5, HexWritten, Zenon
  <2>6. QED
    BY <2>3, <2>4, <2>5, Sorts, Zenon
<1>6. QED
  BY <1>1, <1>3, <1>4, <1>5, Zenon

\* What is read of it.
LEMMA EscapedDecodes ==
  ASSUME NEW t, Len(t) \in Nat, t \in Seq(OutBytes), NEW f, IsReader(f, t, NoSkips, EscapeKey),
         NEW off \in Nat, NEW c \in Bytes, c # Backslash, LiesAt(t, Escaped(c), off)
  PROVE  Decodes(f, off, Escaped(c), <<c>>)
<1>1. c \notin NoSkips /\ Backslash \notin NoSkips
  BY Zenon DEF NoSkips
<1>2. CASE c \in Printable
  <2>1. Escaped(c) = <<c>>
    BY <1>2, EscapedIs, Zenon
  <2>2. LiesAt(t, <<c>>, off)
    BY <2>1, Zenon
  <2>3. Decodes(f, off, <<c>>, <<c>>)
    BY <1>1, <2>2, ReadPlain, Zenon
  <2>4. QED
    BY <2>1, <2>3, Zenon
<1>3. CASE c = Newline
  <2>1. Escaped(c) = <<Backslash, EnLetter>>
    BY <1>3, EscapedIs, Zenon
  <2>2. LiesAt(t, <<Backslash, EnLetter>>, off)
    BY <2>1, Zenon
  <2>3. EnLetter \in DOMAIN EscapeKey /\ EscapeKey[EnLetter] = c
    BY <1>3, EscapeKeyIs, Zenon
  <2>4. Decodes(f, off, <<Backslash, EnLetter>>, <<EscapeKey[EnLetter]>>)
    BY <1>1, <2>2, <2>3, ReadLetter, Zenon
  <2>5. QED
    BY <2>1, <2>3, <2>4, Zenon
<1>4. CASE c \in HexBytes
  <2>1. Escaped(c) = HexPiece(c)
    BY <1>4, EscapedIs, Zenon
  <2>2. LiesAt(t, HexPiece(c), off)
    BY <2>1, Zenon
  <2>3. Digits \notin DOMAIN EscapeKey
    BY EscapeKeyIs, Zenon
  <2>4. Decodes(f, off, HexPiece(c), <<c>>)
    BY <1>1, <1>4, <2>2, <2>3, ReadHex, Zenon
  <2>5. QED
    BY <2>1, <2>4, Zenon
<1>5. QED
  BY <1>2, <1>3, <1>4, Sorts, Zenon

\* What is escaped is read back.
LEMMA EscapeReadBack ==
  ASSUME NEW t \in Seq(Bytes), Backslash \notin ToSet(t)
  PROVE  Unescape(Escape(t)) = t
<1> DEFINE n == Len(t)
           s == [i \in DOMAIN t |-> Escaped(t[i])]
           T == FlattenSeq(s)
<1>1. n \in Nat /\ DOMAIN t = 1 .. n
  BY LenProperties
<1>2. \A i \in 1 .. n : t[i] \in Bytes
  BY ElementOfSeq
<1>3. \A i \in 1 .. n : Escaped(t[i]) \in Seq(OutBytes)
  BY <1>2, EscapedIs, Zenon
<1>4. \A i \in 1 .. n : t[i] # Backslash
  <2>1. ToSet(t) = {t[i] : i \in DOMAIN t}
    BY Zenon DEF ToSet
  <2>2. QED
    BY <1>1, <2>1, Zenon
<1>5. s \in Seq(Seq(OutBytes)) /\ Len(s) = n /\ \A i \in 1 .. n : s[i] = Escaped(t[i])
  <2>1. s = [i \in 1 .. n |-> Escaped(t[i])]
    BY <1>1, Zenon
  <2> HIDE DEF s, n
  <2>2. QED
    BY <1>1, <1>3, <2>1
<1>6. Escape(t) = T
  BY Zenon DEF Escape
<1> HIDE DEF s
<1>7. PICK g \in [0 .. Len(s) -> Seq(OutBytes)] : Together(g, s)
  BY <1>5, TogetherExists, Zenon
<1>8. T = g[n]
  <2>1. FlattenSeq(s) = g[Len(s)]
    BY <1>5, <1>7, FlattenIs, Zenon
  <2>2. QED
    BY <1>5, <2>1, Zenon
<1>9. \A k \in 1 .. n : LiesAt(T, s[k], Len(g[k - 1])) /\ Len(g[k]) = Len(g[k - 1]) + Len(s[k])
  <2>1. \A k \in 1 .. Len(s) : LiesAt(g[Len(s)], s[k], Len(g[k - 1]))
                               /\ Len(g[k]) = Len(g[k - 1]) + Len(s[k])
    BY <1>5, <1>7, PiecesLie, Zenon
  <2>2. QED
    BY <1>5, <1>8, <2>1, Zenon
<1>10. \A k \in 0 .. n : g[k] \in Seq(OutBytes) /\ Len(g[k]) \in Nat
  <2>1. \A k \in 0 .. n : g[k] \in Seq(OutBytes)
    BY <1>5
  <2>2. QED
    BY <2>1, LenProperties
<1>11. n \in 0 .. n /\ 0 \in 0 .. n
  BY <1>1
<1>12. T \in Seq(OutBytes) /\ Len(T) \in Nat /\ Len(T) = Len(g[n])
  BY <1>8, <1>10, <1>11, Zenon
<1>13. g[0] = << >>
  BY <1>7, Zenon DEF Together
<1> HIDE DEF T
<1>14. PICK f : IsReader(f, T, NoSkips, EscapeKey) /\ Unescape(T) = f[1]
  BY <1>12, UnescapeIs, Zenon
<1> DEFINE pos == [k \in 0 .. n |-> Len(g[k])]
           rest == [k \in 1 .. n + 1 |-> SubSeq(t, k, n)]
<1>15. \A k \in 1 .. n : f[pos[k] + 1] = rest[k + 1] => f[pos[k - 1] + 1] = rest[k]
  <2> SUFFICES ASSUME NEW k \in 1 .. n, f[pos[k] + 1] = rest[k + 1]
               PROVE  f[pos[k - 1] + 1] = rest[k]
    BY Zenon
  <2>1. /\ k \in 0 .. n /\ k - 1 \in 0 .. n /\ k \in 1 .. n + 1 /\ k + 1 \in 1 .. n + 1
    BY <1>1
  <2>2. pos[k] = Len(g[k]) /\ pos[k - 1] = Len(g[k - 1]) /\ pos[k - 1] \in Nat
    BY <1>10, <2>1
  <2>3. rest[k] = SubSeq(t, k, n) /\ rest[k + 1] = SubSeq(t, k + 1, n)
    BY <2>1
  <2> HIDE DEF pos, rest
  <2>4. LiesAt(T, Escaped(t[k]), pos[k - 1])
    BY <1>5, <1>9, <2>2, Zenon
  <2>5. Decodes(f, pos[k - 1], Escaped(t[k]), <<t[k]>>)
    BY <1>2, <1>4, <1>12, <1>14, <2>2, <2>4, EscapedDecodes, Zenon
  <2>6. pos[k - 1] + Len(Escaped(t[k])) = pos[k]
    BY <1>5, <1>9, <2>2, Zenon
  <2>7. f[pos[k - 1] + 1] = <<t[k]>> \o f[pos[k] + 1]
    BY <2>5, <2>6, Zenon DEF Decodes
  <2>8. SubSeq(t, k, n) = <<t[k]>> \o SubSeq(t, k + 1, n)
    BY RestCons, Zenon DEF n
  <2>9. QED
    BY <2>3, <2>7, <2>8, Zenon
<1>16. f[pos[n] + 1] = rest[n + 1]
  <2>1. pos[n] = Len(T) /\ n + 1 \in 1 .. n + 1
    BY <1>1, <1>11, <1>12
  <2>2. rest[n + 1] = << >>
    <3>1. rest[n + 1] = SubSeq(t, n + 1, n)
      BY <2>1
    <3>2. SubSeq(t, n + 1, n) = << >>
      <4>1. n + 1 \in Int /\ n \in Int /\ n < n + 1
        BY <1>1
      <4> HIDE DEF n
      <4>2. QED
        BY <4>1, SubSeqEmpty
    <3>3. QED
      BY <3>1, <3>2, Zenon
  <2>3. Len(T) + 1 \in 1 .. Len(T) + 4 /\ Len(T) + 1 > Len(T)
    BY <1>12
  <2>4. f[Len(T) + 1] = ReadAt(f, T, Len(T) + 1, NoSkips, EscapeKey)
    BY <1>14, <2>3, Zenon DEF IsReader
  <2>5. f[Len(T) + 1] = << >>
    BY <2>3, <2>4, Zenon DEF ReadAt
  <2>6. QED
    BY <2>1, <2>2, <2>5
<1>17. pos[0] + 1 = 1
  <2>1. pos[0] = Len(g[0])
    BY <1>11
  <2>2. Len(g[0]) = 0
    BY <1>13, EmptySeq
  <2>3. QED
    BY <2>1, <2>2
<1>18. rest[1] = t
  <2>1. rest[1] = SubSeq(t, 1, n)
    BY <1>1
  <2>2. QED
    BY <2>1, SubSeqFull
<1> HIDE DEF pos, rest, n
<1>19. f[pos[0] + 1] = rest[1]
  <2>1. Chained(n, f, pos, rest)
    BY <1>15, <1>16, Zenon DEF Chained
  <2>2. n \in Nat
    BY <1>1, Zenon
  <2>3. ChainGives(f, pos, rest)
    BY <2>1, <2>2, ChainRead, Zenon
  <2>4. QED
    BY <2>3, Zenon DEF ChainGives
<1>20. QED
  BY <1>6, <1>14, <1>17, <1>18, <1>19, Zenon

-----------------------------------------------------------------------------
\* A buffer of a size that has room holds what was written to it.
Holds(w, u, size) ==
  /\ HasLen(w, Len(u), size)
  /\ Begun(w.dest, Len(u))
  /\ \A i \in 0 .. Len(u) - 1 : w.dest[i] = u[i + 1]

\* What is written where there is room for it comes behind what is there.
LEMMA EmitHolds ==
  ASSUME NEW S, NEW w, NEW u \in Seq(S), NEW e \in Seq(S), NEW size \in Nat,
         Holds(w, u, size), Len(u) + Len(e) < size
  PROVE  Holds(Emit(w, e), u \o e, size)
<1> DEFINE l == Len(u)
           m == Len(e)
           x == u \o e
           c == Emit(w, e)
           d == c.dest
<1>1. l \in Nat /\ m \in Nat
  BY LenProperties
<1>2. Len(x) = l + m /\ \A i \in 1 .. l + m : x[i] = IF i <= l THEN u[i] ELSE e[i - l]
  BY ConcatProperties
<1>3. HasLen(w, l, size) /\ Begun(w.dest, l) /\ \A i \in 0 .. l - 1 : w.dest[i] = u[i + 1]
  BY Zenon DEF Holds
<1>4. c.len = w.len + m /\ c.size = w.size
  BY EmitParts, Zenon
<1>5. l < size /\ m < size - l
  BY <1>1
<1>6. Room(m, l, size, e)
  BY <1>1, <1>5 DEF Room
<1>7. EmitsTo(w, l, e, m)
  <2>1. Len(e) \in Nat
    BY <1>1
  <2> HIDE DEF l, m
  <2>2. QED
    BY <1>1, <1>3, <1>5, <1>6, <2>1, EmitWithRoom, Zenon
<1>8. d = EmittedDest(w.dest, l, e, m)
  BY <1>7, Zenon DEF EmitsTo
<1> HIDE DEF l, m, x, d, c
<1>9. HasLen(c, l + m, size)
  BY <1>3, <1>4 DEF HasLen
<1>10. DOMAIN d = 0 .. l + m
  BY <1>8 DEF EmittedDest
<1>11. \A i \in 0 .. l + m : d[i] = IF i < l THEN w.dest[i]
                                   ELSE IF i = l + m THEN NUL ELSE e[i - l + 1]
  BY <1>8, Zenon DEF EmittedDest
<1>12. \A i \in 0 .. (l + m) - 1 : d[i] = x[i + 1]
  <2> TAKE i \in 0 .. (l + m) - 1
  <2>1. i \in 0 .. l + m /\ i # l + m /\ i + 1 \in 1 .. l + m
    BY <1>1
  <2>2. CASE i < l
    <3>1. i \in 0 .. l - 1 /\ i + 1 <= l
      BY <1>1, <2>2
    <3>2. d[i] = u[i + 1]
      BY <1>3, <1>11, <2>1, <2>2, <3>1
    <3>3. x[i + 1] = u[i + 1]
      BY <1>2, <2>1, <3>1
    <3>4. QED
      BY <3>2, <3>3
  <2>3. CASE ~(i < l)
    <3>1. ~(i + 1 <= l) /\ (i + 1) - l = i - l + 1
      BY <1>1, <2>3
    <3>2. d[i] = e[i - l + 1]
      BY <1>11, <2>1, <2>3
    <3>3. x[i + 1] = e[(i + 1) - l]
      <4>1. x[i + 1] = IF i + 1 <= l THEN u[i + 1] ELSE e[(i + 1) - l]
        BY <1>2, <2>1, Zenon
      <4>2. QED
        BY <3>1, <4>1, Zenon
    <3>4. QED
      BY <3>1, <3>2, <3>3
  <2>4. QED
    BY <2>2, <2>3
<1>13. Begun(d, l + m)
  <2>1. l + m \in 0 .. l + m
    BY <1>1
  <2>2. QED
    BY <1>10, <2>1 DEF Begun
<1>14. Len(x) = l + m
  BY <1>2, Zenon
<1>15. Holds(c, x, size)
  <2>1. HasLen(c, Len(x), size) /\ Begun(c.dest, Len(x))
    BY <1>9, <1>13, <1>14, Zenon DEF d
  <2>2. \A i \in 0 .. Len(x) - 1 : c.dest[i] = x[i + 1]
    BY <1>12, <1>14, Zenon DEF d
  <2>3. QED
    BY <2>1, <2>2, Zenon DEF Holds
<1>16. QED
  BY <1>15, Zenon DEF c, x

\* How the byte at a place is written by cstr_repr.
Pair(t, k) == t[k] = LEAD /\ k < Len(t) /\ t[k + 1] = CONT
Marked == {Mark, Backslash, Newline}

\* What cstr_repr writes for a byte of each sort.
LEMMA ReprPieceIs ==
  ASSUME NEW t \in Seq(Bytes), NEW k \in 1 .. Len(t)
  PROVE  /\ Continued(t, k) => ReprPiece(t, k) = << >>
         /\ ~Continued(t, k) /\ t[k] \in Marked =>
              ReprPiece(t, k) = <<Backslash, ReprLetter(t[k])>>
         /\ ~Continued(t, k) /\ t[k] \notin Marked /\ t[k] \in Printable =>
              ReprPiece(t, k) = <<t[k]>>
         /\ ~Continued(t, k) /\ Pair(t, k) => ReprPiece(t, k) = <<t[k], t[k + 1]>>
         /\ ~Continued(t, k) /\ t[k] \in HexBytes /\ ~Pair(t, k) =>
              ReprPiece(t, k) = HexPiece(t[k])
<1>1. Continued(t, k) => ReprPiece(t, k) = << >>
  BY Zenon DEF ReprPiece
<1>2. ~Continued(t, k) /\ t[k] \in Marked => ReprPiece(t, k) = <<Backslash, ReprLetter(t[k])>>
  BY Zenon DEF ReprPiece, Marked, Mark, Backslash, Newline
<1>3. ~Continued(t, k) /\ t[k] \notin Marked /\ t[k] \in Printable => ReprPiece(t, k) = <<t[k]>>
  BY Zenon DEF ReprPiece, Marked, Mark, Backslash, Newline
<1>4. Mark \in Printable
  BY Zenon DEF Mark, Printable
<1>5. \A c \in HexBytes : c \notin Marked /\ c \notin Printable
  BY <1>4, Sorts, Zenon DEF Marked
<1>6. ~Continued(t, k) /\ t[k] \in HexBytes =>
        ReprPiece(t, k) = IF Utf8Len(t, k) > 1 THEN SubSeq(t, k, k + Utf8Len(t, k) - 1)
                          ELSE HexPiece(t[k])
  <2> SUFFICES ASSUME ~Continued(t, k), t[k] \in HexBytes
               PROVE  ReprPiece(t, k) = IF Utf8Len(t, k) > 1
                                        THEN SubSeq(t, k, k + Utf8Len(t, k) - 1)
                                        ELSE HexPiece(t[k])
    OBVIOUS
  <2>1. t[k] \notin {"\"", "\\", "\n"} /\ t[k] \notin Printable
    BY <1>5, Zenon DEF Marked, Mark, Backslash, Newline
  <2>2. CASE Utf8Len(t, k) > 1
    BY <2>1, <2>2, Zenon DEF ReprPiece
  <2>3. CASE ~(Utf8Len(t, k) > 1)
    BY <2>1, <2>3, Zenon DEF ReprPiece, HexPiece, Backslash, Digits
  <2>4. QED
    BY <2>2, <2>3, Zenon
<1>7. Pair(t, k) => Utf8Len(t, k) = 2 /\ t[k] \in HexBytes
  BY Zenon DEF Pair, Utf8Len, HexBytes
<1>8. ~Pair(t, k) => Utf8Len(t, k) = 1 \/ Utf8Len(t, k) = 0
  BY Zenon DEF Pair, Utf8Len
<1>9. Pair(t, k) => SubSeq(t, k, k + 2 - 1) = <<t[k], t[k + 1]>>
  <2> SUFFICES ASSUME Pair(t, k) PROVE SubSeq(t, k, k + 2 - 1) = <<t[k], t[k + 1]>>
    OBVIOUS
  <2> DEFINE u == SubSeq(t, k, k + 2 - 1)
             v == <<t[k], t[k + 1]>>
  <2>1. k < Len(t) /\ Len(t) \in Nat
    BY LenProperties DEF Pair
  <2>2. InText(t, k, k + 2 - 1, 2)
    BY <2>1 DEF InText
  <2>3. IsCut(u, Bytes, t, k, 2)
    BY <2>2, PieceIs, Zenon
  <2> HIDE DEF u
  <2>4. u \in Seq(Bytes) /\ Len(u) = 2 /\ \A i \in 1 .. 2 : u[i] = t[k + i - 1]
    BY <2>3, Zenon DEF IsCut
  <2>5. t[k] \in Bytes /\ t[k + 1] \in Bytes
    <3>1. k + 1 \in 1 .. Len(t)
      BY <2>1
    <3>2. QED
      BY <3>1, ElementOfSeq
  <2>6. v \in Seq(Bytes) /\ Len(v) = 2 /\ v[1] = t[k] /\ v[2] = t[k + 1]
    BY <2>5
  <2>7. u[1] = t[k] /\ u[2] = t[k + 1]
    <3>1. 1 \in 1 .. 2 /\ 2 \in 1 .. 2 /\ k + 1 - 1 = k /\ k + 2 - 1 = k + 1
      OBVIOUS
    <3>2. QED
      BY <2>4, <3>1
  <2> HIDE DEF v
  <2>8. \A i \in 1 .. Len(u) : u[i] = v[i]
    <3>1. \A i \in 1 .. 2 : i = 1 \/ i = 2
      OBVIOUS
    <3>2. QED
      BY <2>4, <2>6, <2>7, <3>1
  <2>9. QED
    BY <2>4, <2>6, <2>8, SeqEqual DEF u, v
<1>10. ~Continued(t, k) /\ Pair(t, k) => ReprPiece(t, k) = <<t[k], t[k + 1]>>
  <2>1. 2 > 1
    OBVIOUS
  <2>2. QED
    BY <1>6, <1>7, <1>9, <2>1, Zenon
<1>11. ~Continued(t, k) /\ t[k] \in HexBytes /\ ~Pair(t, k) => ReprPiece(t, k) = HexPiece(t[k])
  <2>1. ~(1 > 1) /\ ~(0 > 1)
    OBVIOUS
  <2>2. QED
    BY <1>6, <1>8, <2>1, Zenon
<1>12. QED
  BY <1>1, <1>2, <1>3, <1>10, <1>11, Zenon

\* A byte is one of these.
LEMMA ReprSorts ==
  ASSUME NEW t \in Seq(Bytes), NEW k \in 1 .. Len(t)
  PROVE  t[k] \in Marked \/ (t[k] \notin Marked /\ t[k] \in Printable) \/ t[k] \in HexBytes
<1>1. t[k] \in Bytes
  BY ElementOfSeq
<1>2. QED
  BY <1>1, Sorts, Zenon DEF Marked

\* What it writes for a byte are bytes of an output.
LEMMA ReprPieceWritten ==
  ASSUME NEW t \in Seq(Bytes), NEW k \in 1 .. Len(t)
  PROVE  ReprPiece(t, k) \in Seq(OutBytes)
<1>1. t[k] \in OutBytes /\ Backslash \in OutBytes
  BY ElementOfSeq, Sorts, Zenon DEF OutBytes
<1>2. /\ << >> \in Seq(OutBytes)
      /\ \A x, y \in OutBytes : <<x>> \in Seq(OutBytes) /\ <<x, y>> \in Seq(OutBytes)
  BY EmptySeq
<1>3. CASE Continued(t, k)
  BY <1>2, <1>3, ReprPieceIs, Zenon
<1>4. CASE ~Continued(t, k) /\ t[k] \in Marked
  <2>1. \A x : ReprLetter(x) = EnLetter \/ ReprLetter(x) = x
    BY Zenon DEF ReprLetter, EnLetter
  <2>2. ReprLetter(t[k]) \in OutBytes
    BY <1>1, <2>1, Zenon DEF OutBytes
  <2>3. QED
    BY <1>1, <1>2, <1>4, <2>2, ReprPieceIs, Zenon
<1>5. CASE ~Continued(t, k) /\ t[k] \notin Marked /\ t[k] \in Printable
  BY <1>1, <1>2, <1>5, ReprPieceIs, Zenon
<1>6. CASE ~Continued(t, k) /\ Pair(t, k)
  <2>1. t[k + 1] \in OutBytes
    BY <1>6, Zenon DEF Pair, OutBytes
  <2>2. QED
    BY <1>1, <1>2, <1>6, <2>1, ReprPieceIs, Zenon
<1>7. CASE ~Continued(t, k) /\ t[k] \in HexBytes /\ ~Pair(t, k)
  BY <1>7, ReprPieceIs, HexWritten, Zenon
<1>8. QED
  BY <1>3, <1>4, <1>5, <1>6, <1>7, ReprSorts, Zenon

\* The text in a buffer.
LEMMA HeldText ==
  ASSUME NEW S, NEW w, NEW u \in Seq(S), NEW size, Holds(w, u, size)
  PROVE  [i \in 1 .. w.len |-> w.dest[i - 1]] = u
<1>1. w.len = Len(u) /\ \A i \in 0 .. Len(u) - 1 : w.dest[i] = u[i + 1]
  BY Zenon DEF Holds, HasLen
<1>2. Len(u) \in Nat /\ u = [i \in 1 .. Len(u) |-> u[i]]
  BY LenProperties
<1> DEFINE n == Len(u)
<1> HIDE DEF n
<1>3. n \in Nat /\ \A i \in 0 .. n - 1 : w.dest[i] = u[i + 1]
  BY <1>1, <1>2, Zenon DEF n
<1>4. \A i \in 1 .. n : i - 1 \in 0 .. n - 1 /\ (i - 1) + 1 = i
  BY <1>3
<1>5. \A i \in 1 .. n : w.dest[i - 1] = u[i]
  BY <1>3, <1>4, Zenon
<1>6. [i \in 1 .. n |-> w.dest[i - 1]] = [i \in 1 .. n |-> u[i]]
  BY <1>5, Zenon
<1>7. QED
  BY <1>1, <1>2, <1>6, Zenon DEF n

\* The pieces that cstr_repr writes, and with the marks around them.
ReprPieces(t) == [k \in 1 .. Len(t) |-> ReprPiece(t, k)]
Around(u) == (Quote \o u) \o Quote

\* It writes a mark before and behind the text.
LEMMA QuoteIs == Quote \in Seq(OutBytes) /\ Len(Quote) = 1 /\ Quote = <<Mark>>
<1>1. Mark \in OutBytes
  BY Zenon DEF OutBytes, Printable, Mark
<1>2. Quote = <<Mark>>
  BY Zenon DEF Quote, Mark
<1>3. <<Mark>> \in Seq(OutBytes) /\ Len(<<Mark>>) = 1
  BY <1>1
<1>4. QED
  BY <1>2, <1>3, Zenon

\* What it writes for each byte, one by one.
LEMMA ReprPiecesAre ==
  ASSUME NEW t \in Seq(Bytes)
  PROVE  /\ ReprPieces(t) \in Seq(Seq(OutBytes))
         /\ Len(ReprPieces(t)) = Len(t)
         /\ \A k \in 1 .. Len(t) : ReprPieces(t)[k] = ReprPiece(t, k)
<1> DEFINE n == Len(t)
           p(k) == ReprPiece(t, k)
<1>1. n \in Nat
  BY LenProperties
<1>2. \A k \in 1 .. n : p(k) \in Seq(OutBytes)
  BY ReprPieceWritten, Zenon
<1>3. ReprPieces(t) = [k \in 1 .. n |-> p(k)]
  BY Zenon DEF ReprPieces
<1> HIDE DEF n, p
<1>4. /\ ReprPieces(t) \in Seq(Seq(OutBytes)) /\ Len(ReprPieces(t)) = n
      /\ \A k \in 1 .. n : ReprPieces(t)[k] = p(k)
  BY <1>1, <1>2, <1>3
<1>5. QED
  BY <1>4, Zenon DEF n, p

\* The buffer of five bytes for each and three more has room for them.
LEMMA ReprHolds ==
  ASSUME NEW t \in Seq(Bytes), NEW g \in [0 .. Len(t) -> Seq(OutBytes)],
         Together(g, ReprPieces(t))
  PROVE  Holds(Repr(t, 5 * Len(t) + 3), Around(g[Len(t)]), 5 * Len(t) + 3)
<1> DEFINE n == Len(t)
           size == 5 * n + 3
           Fits(k) == Len(g[k]) <= 4 * k
<1>1. n \in Nat /\ size \in Nat
  BY LenProperties
<1>2. PICK h : IsRun(h, t, size, n) /\ Repr(t, size) = Emit(h[n], Quote)
  BY <1>1, ReprRun, Zenon
<1>3. \A k \in 0 .. n : h[k] = IF k = 0 THEN Opened(size) ELSE Emit(h[k - 1], ReprPiece(t, k))
  BY <1>2, Zenon DEF IsRun
<1>4. Len(ReprPieces(t)) = n /\ \A k \in 1 .. n : ReprPieces(t)[k] = ReprPiece(t, k)
  BY ReprPiecesAre, Zenon
<1>5. g[0] = << >> /\ \A k \in 1 .. n : g[k] = g[k - 1] \o ReprPiece(t, k)
  BY <1>4, Zenon DEF Together
<1>6. \A k \in 1 .. n : ReprPiece(t, k) \in Seq(OutBytes) /\ Len(ReprPiece(t, k)) \in 0 .. 4
  BY ReprPieceWritten, PieceShort, Zenon
<1>7. \A k \in 0 .. n : g[k] \in Seq(OutBytes)
  OBVIOUS
<1>8. Quote \in Seq(OutBytes) /\ Len(Quote) = 1
  BY QuoteIs, Zenon
<1> HIDE DEF n, size
<1>9. \A k \in 0 .. n : Len(g[k]) \in Nat /\ Len(Quote \o g[k]) = 1 + Len(g[k])
                        /\ Quote \o g[k] \in Seq(OutBytes)
  <2> TAKE k \in 0 .. n
  <2> DEFINE u == g[k]
             x == Quote \o u
  <2>1. u \in Seq(OutBytes)
    BY <1>7
  <2> HIDE DEF u
  <2>2. Len(u) \in Nat /\ x \in Seq(OutBytes) /\ Len(x) = Len(Quote) + Len(u)
    BY <1>8, <2>1, LenProperties, ConcatProperties
  <2> HIDE DEF x
  <2>3. Len(x) = 1 + Len(u)
    BY <1>8, <2>2
  <2>4. QED
    BY <2>2, <2>3 DEF x, u
<1> DEFINE G == {k \in 0 .. n : Holds(h[k], Quote \o g[k], size) /\ Fits(k)}
<1>10. 0 \in G
  <2>1. Holds(Buffer(size), << >>, size)
    <3>1. Len(<< >>) = 0
      OBVIOUS
    <3>2. HasLen(Buffer(size), 0, size) /\ Begun(Buffer(size).dest, 0)
      BY DEF HasLen, Buffer, Begun
    <3>3. \A i \in 0 .. 0 - 1 : FALSE
      OBVIOUS
    <3>4. QED
      BY <3>1, <3>2, <3>3, Zenon DEF Holds
  <2>2. << >> \in Seq(OutBytes) /\ Len(<< >>) + Len(Quote) < size
    BY <1>1, <1>8, EmptySeq DEF size
  <2>3. Holds(Emit(Buffer(size), Quote), << >> \o Quote, size)
    BY <1>1, <1>8, <2>1, <2>2, EmitHolds, Zenon
  <2>4. << >> \o Quote = Quote /\ Quote \o << >> = Quote
    BY <1>8, ConcatEmptySeq
  <2>5. h[0] = Emit(Buffer(size), Quote) /\ 0 \in 0 .. n
    <3>1. 0 \in 0 .. n
      BY <1>1
    <3>2. QED
      BY <1>3, <3>1, Zenon DEF Opened
  <2>6. Holds(h[0], Quote \o g[0], size)
    <3>1. << >> \o Quote = Quote \o g[0]
      BY <1>5, <2>4, Zenon
    <3>2. QED
      BY <2>3, <2>5, <3>1, Zenon
  <2>7. Fits(0)
    <3>1. Len(g[0]) = 0
      BY <1>5, EmptySeq
    <3>2. QED
      BY <3>1
  <2>8. QED
    BY <2>5, <2>6, <2>7
<1>11. ASSUME NEW k \in 1 .. n, k - 1 \in G PROVE k \in G
  <2> DEFINE e == ReprPiece(t, k)
             u == Quote \o g[k - 1]
  <2>1. k \in 0 .. n /\ k - 1 \in 0 .. n /\ k # 0 /\ k <= n
    BY <1>1
  <2>2. Holds(h[k - 1], u, size) /\ Fits(k - 1)
    BY <1>11, Zenon
  <2>3. h[k] = Emit(h[k - 1], e)
    BY <1>3, <2>1, Zenon
  <2>4. e \in Seq(OutBytes) /\ Len(e) \in 0 .. 4
    BY <1>6, Zenon
  <2>5. Len(u) = 1 + Len(g[k - 1]) /\ u \in Seq(OutBytes) /\ Len(g[k - 1]) \in Nat
    BY <1>9, <2>1, Zenon
  <2>6. g[k] = g[k - 1] \o e /\ g[k - 1] \in Seq(OutBytes)
    BY <1>5, <1>7, <2>1, Zenon
  <2>7. Quote \o g[k] = u \o e
    <3> DEFINE v == g[k - 1]
    <3>1. v \in Seq(OutBytes)
      BY <2>6
    <3> HIDE DEF v, e
    <3>2. (Quote \o v) \o e = Quote \o (v \o e)
      <4> DEFINE q == Quote
      <4>1. q \in Seq(OutBytes)
        BY <1>8
      <4> HIDE DEF q
      <4>2. e \in Seq(OutBytes)
        BY <2>4
      <4>3. Associative(OutBytes)
        BY Associates, Zenon
      <4>4. (q \o v) \o e = q \o (v \o e)
        BY <3>1, <4>1, <4>2, <4>3, Zenon DEF Associative
      <4>5. QED
        BY <4>4 DEF q
    <3>3. Quote \o g[k] = Quote \o (v \o e)
      BY <2>6 DEF v
    <3>4. QED
      BY <3>2, <3>3 DEF v
  <2>8. Len(g[k]) = Len(g[k - 1]) + Len(e)
    <3> DEFINE v == g[k - 1]
    <3>1. v \in Seq(OutBytes)
      BY <2>6
    <3> HIDE DEF v, e
    <3>2. Len(v \o e) = Len(v) + Len(e)
      BY <2>4, <3>1, ConcatProperties
    <3>3. QED
      BY <2>6, <3>2 DEF v
  <2> HIDE DEF e, u, G
  <2>9. Fits(k) /\ Len(u) + Len(e) < size
    <3>1. Len(g[k - 1]) <= 4 * (k - 1)
      BY <2>2
    <3>2. \A a \in Nat, b \in 0 .. 4 :
            a <= 4 * (k - 1) => a + b <= 4 * k /\ (1 + a) + b < size
      BY <1>1, <2>1 DEF size
    <3>3. Len(g[k - 1]) + Len(e) <= 4 * k /\ (1 + Len(g[k - 1])) + Len(e) < size
      BY <2>4, <2>5, <3>1, <3>2, Zenon
    <3>4. QED
      BY <2>5, <2>8, <3>3, Zenon
  <2>10. Holds(Emit(h[k - 1], e), u \o e, size)
    BY <1>1, <2>2, <2>4, <2>5, <2>9, EmitHolds, Zenon
  <2>11. Holds(h[k], Quote \o g[k], size)
    BY <2>3, <2>7, <2>10, Zenon
  <2>12. QED
    BY <2>1, <2>9, <2>11, Zenon DEF G
<1> HIDE DEF G
<1>12. \A k \in 0 .. n : k \in G
  BY <1>1, <1>10, <1>11, AllSteps, Zenon
<1>13. n \in 0 .. n
  BY <1>1
<1>14. Holds(h[n], Quote \o g[n], size) /\ Fits(n)
  BY <1>12, <1>13, Zenon DEF G
<1>15. Len(Quote \o g[n]) = 1 + Len(g[n]) /\ Len(g[n]) \in Nat /\ Quote \o g[n] \in Seq(OutBytes)
  BY <1>9, <1>13, Zenon
<1>16. Len(Quote \o g[n]) + Len(Quote) < size
  BY <1>1, <1>8, <1>14, <1>15 DEF size
<1>17. Holds(Emit(h[n], Quote), (Quote \o g[n]) \o Quote, size)
  BY <1>1, <1>8, <1>14, <1>15, <1>16, EmitHolds, Zenon
<1>18. QED
  BY <1>2, <1>17, Zenon DEF Around, size, n

\* What lies in a text lies behind what is put in front of it.
LEMMA LiesBehind ==
  ASSUME NEW S, NEW u \in Seq(S), NEW v \in Seq(S), NEW e, Len(e) \in Nat, NEW off \in Nat,
         LiesAt(v, e, off)
  PROVE  LiesAt(u \o v, e, Len(u) + off)
<1> DEFINE l == Len(u)
           w == u \o v
<1>1. l \in Nat /\ Len(v) \in Nat
  BY LenProperties
<1>2. Len(w) = l + Len(v) /\ \A j \in 1 .. Len(v) : w[l + j] = v[j]
  BY BehindIs
<1> HIDE DEF l, w
<1>3. off + Len(e) <= Len(v) /\ \A j \in 1 .. Len(e) : v[off + j] = e[j]
  BY DEF LiesAt
<1>4. \A j \in 1 .. Len(e) : off + j \in 1 .. Len(v) /\ (l + off) + j = l + (off + j)
  BY <1>1, <1>3
<1>5. \A j \in 1 .. Len(e) : w[(l + off) + j] = e[j]
  BY <1>2, <1>3, <1>4
<1>6. (l + off) + Len(e) <= Len(w)
  BY <1>1, <1>2, <1>3
<1>7. LiesAt(w, e, l + off)
  BY <1>5, <1>6 DEF LiesAt
<1>8. QED
  BY <1>7 DEF l, w

\* The marks lie at both ends.
LEMMA AroundIs ==
  ASSUME NEW u \in Seq(OutBytes)
  PROVE  /\ Around(u) \in Seq(OutBytes)
         /\ Len(Around(u)) = Len(u) + 2
         /\ LiesAt(Around(u), <<Mark>>, 0)
         /\ LiesAt(Around(u), <<Mark>>, 1 + Len(u))
<1> DEFINE q == Quote
           x == q \o u
           r == x \o q
           e == <<Mark>>
<1>1. q \in Seq(OutBytes) /\ Len(q) = 1 /\ q = e
  BY QuoteIs, Zenon
<1>2. Len(e) = 1 /\ e[1] = Mark
  OBVIOUS
<1> HIDE DEF q, e
<1>3. x \in Seq(OutBytes) /\ Len(x) = Len(q) + Len(u)
  BY <1>1, ConcatProperties
<1> HIDE DEF x
<1>4. r \in Seq(OutBytes) /\ Len(r) = Len(x) + Len(q)
  BY <1>1, <1>3, ConcatProperties
<1>5. Len(u) \in Nat /\ Len(x) = 1 + Len(u)
  BY <1>1, <1>3, LenProperties
<1>6. StartsWith(x, q)
  BY <1>1, StartsConcat DEF x
<1>7. StartsWith(r, x)
  BY <1>1, <1>3, StartsConcat
<1>8. LiesAt(q, e, 0)
  <2>1. \A j \in 1 .. Len(e) : 0 + j = j
    BY <1>2
  <2>2. 0 + Len(e) <= Len(q) /\ \A j \in 1 .. Len(e) : q[0 + j] = e[j]
    BY <1>1, <1>2, <2>1
  <2>3. QED
    BY <2>2, Zenon DEF LiesAt
<1> HIDE DEF r
<1>9. Len(q) \in Nat /\ Len(x) \in Nat /\ Len(r) \in Nat /\ Len(e) \in Nat /\ 0 \in Nat
  BY <1>1, <1>2, <1>4, <1>5
<1>10. LiesAt(x, e, 0)
  BY <1>6, <1>8, <1>9, LiesThrough, Zenon
<1>11. LiesAt(r, e, 0)
  BY <1>7, <1>9, <1>10, LiesThrough, Zenon
<1>12. LiesAt(r, e, 1 + Len(u))
  <2>1. LiesAt(x \o q, e, Len(x) + 0)
    BY <1>1, <1>3, <1>8, <1>9, LiesBehind, Zenon
  <2>2. Len(x) + 0 = 1 + Len(u)
    BY <1>5
  <2>3. QED
    BY <2>1, <2>2, Zenon DEF r
<1>13. Len(r) = Len(u) + 2
  <2>1. \A a \in Nat : (1 + a) + 1 = a + 2
    OBVIOUS
  <2>2. QED
    BY <1>1, <1>4, <1>5, <2>1, Zenon
<1>14. r = Around(u)
  BY Zenon DEF r, x, q, Around
<1>15. QED
  BY <1>4, <1>11, <1>12, <1>13, <1>14, Zenon DEF e

\* What lies between the marks lies one byte further on.
LEMMA AroundLies ==
  ASSUME NEW u \in Seq(OutBytes), NEW e, Len(e) \in Nat, NEW off \in Nat, LiesAt(u, e, off)
  PROVE  LiesAt(Around(u), e, 1 + off)
<1> DEFINE q == Quote
           x == q \o u
           r == x \o q
<1>1. q \in Seq(OutBytes) /\ Len(q) = 1
  BY QuoteIs, Zenon
<1> HIDE DEF q
<1>2. x \in Seq(OutBytes)
  BY <1>1, ConcatProperties
<1>3. LiesAt(q \o u, e, Len(q) + off)
  BY <1>1, LiesBehind, Zenon
<1>4. LiesAt(x, e, 1 + off) /\ 1 + off \in Nat
  BY <1>1, <1>3
<1> HIDE DEF x
<1>5. r \in Seq(OutBytes) /\ StartsWith(r, x)
  BY <1>1, <1>2, StartsConcat, ConcatProperties
<1> HIDE DEF r
<1>6. Len(x) \in Nat /\ Len(r) \in Nat
  BY <1>2, <1>5, LenProperties
<1>7. LiesAt(r, e, 1 + off)
  BY <1>4, <1>5, <1>6, LiesThrough, Zenon
<1>8. QED
  BY <1>7, Zenon DEF r, x, q, Around

\* What is still to be read at a byte: one that was written with the byte in front
\* of it has been read.
RestFrom(t, k) ==
  IF k <= Len(t) /\ Continued(t, k) THEN SubSeq(t, k + 1, Len(t)) ELSE SubSeq(t, k, Len(t))

\* Behind a byte that is written alone the rest of the text is to be read.
LEMMA RestBehind ==
  ASSUME NEW t \in Seq(Bytes), NEW k \in 1 .. Len(t), t[k] # LEAD \/ ~Pair(t, k)
  PROVE  RestFrom(t, k + 1) = SubSeq(t, k + 1, Len(t))
<1>1. Len(t) \in Nat /\ (k + 1) - 1 = k
  BY LenProperties
<1>2. CASE k + 1 <= Len(t)
  <2>1. ~(t[k + 1] = CONT /\ t[k] = LEAD)
    BY <1>1, <1>2 DEF Pair
  <2>2. ~Continued(t, k + 1)
    BY <1>1, <2>1 DEF Continued
  <2>3. QED
    BY <2>2, Zenon DEF RestFrom
<1>3. CASE ~(k + 1 <= Len(t))
  BY <1>3, Zenon DEF RestFrom
<1>4. QED
  BY <1>2, <1>3

\* So it is at a byte that is not written with the one before it.
LEMMA RestHere ==
  ASSUME NEW t \in Seq(Bytes), NEW k \in 1 .. Len(t), ~Continued(t, k)
  PROVE  RestFrom(t, k) = <<t[k]>> \o SubSeq(t, k + 1, Len(t))
<1>1. RestFrom(t, k) = SubSeq(t, k, Len(t))
  BY Zenon DEF RestFrom
<1>2. QED
  BY <1>1, RestCons, Zenon

\* One byte of what cstr_repr wrote is read back.
IsUnrepr(f, u) == IsReader(f, u, MarkSkips, ReprKey)
ReadsRest(f, at, t, k) == f[at + 1] = RestFrom(t, k)

\* If the rest is read behind what is written for a byte, it is read from there on.
LEMMA ReprDecodes ==
  ASSUME NEW t \in Seq(Bytes), NEW k \in 1 .. Len(t), NEW u \in Seq(OutBytes),
         NEW f, IsUnrepr(f, u), NEW off \in Nat, LiesAt(u, ReprPiece(t, k), off),
         ReadsRest(f, off + Len(ReprPiece(t, k)), t, k + 1)
  PROVE  ReadsRest(f, off, t, k)
<1> DEFINE p == ReprPiece(t, k)
           c == t[k]
           next == SubSeq(t, k + 1, Len(t))
<1>1. Len(t) \in Nat /\ Len(u) \in Nat /\ c \in Bytes
  BY LenProperties, ElementOfSeq
<1>2. IsReader(f, u, MarkSkips, ReprKey)
  BY Zenon DEF IsUnrepr
<1>3. f[off + Len(p) + 1] = RestFrom(t, k + 1)
  BY Zenon DEF ReadsRest
<1>4. Mark # Backslash /\ Mark \in Printable /\ LEAD # CONT
  BY Zenon DEF Mark, Backslash, Printable, LEAD, CONT
<1>5. Backslash \notin MarkSkips
  BY <1>4, Zenon DEF MarkSkips
<1>6. SUFFICES f[off + 1] = RestFrom(t, k)
  BY Zenon DEF ReadsRest
<1>7. CASE Continued(t, k)
  <2>1. p = << >> /\ Len(<< >>) = 0 /\ off + 0 + 1 = off + 1
    BY <1>7, ReprPieceIs, EmptySeq
  <2>2. f[off + 1] = RestFrom(t, k + 1)
    BY <1>3, <2>1
  <2>3. c = CONT
    BY <1>7, Zenon DEF Continued
  <2>4. RestFrom(t, k + 1) = next
    BY <1>4, <2>3, RestBehind, Zenon
  <2>5. k <= Len(t)
    BY <1>1
  <2>6. RestFrom(t, k) = next
    BY <1>7, <2>5, Zenon DEF RestFrom
  <2>7. QED
    BY <2>2, <2>4, <2>6, Zenon

\* Of a byte that stands alone it is enough that it decodes to itself.
<1>8. ASSUME ~Continued(t, k), c # LEAD \/ ~Pair(t, k), Decodes(f, off, p, <<c>>)
      PROVE  f[off + 1] = RestFrom(t, k)
  <2>1. f[off + 1] = <<c>> \o f[off + Len(p) + 1]
    BY <1>8, Zenon DEF Decodes
  <2>2. RestFrom(t, k + 1) = next
    BY <1>8, RestBehind, Zenon
  <2>3. RestFrom(t, k) = <<c>> \o next
    BY <1>8, RestHere, Zenon
  <2>4. QED
    BY <1>3, <2>1, <2>2, <2>3, Zenon
<1>9. c \in HexBytes => c \notin Marked /\ c \notin Printable
  BY <1>4, Sorts, Zenon DEF Marked
<1>10. LEAD \in HexBytes /\ CONT \in HexBytes
  BY Zenon DEF HexBytes
<1>11. CASE ~Continued(t, k) /\ c \in Marked
  <2>1. p = <<Backslash, ReprLetter(c)>>
    BY <1>11, ReprPieceIs, Zenon
  <2>2. ReprLetter(c) \in DOMAIN ReprKey /\ ReprKey[ReprLetter(c)] = c
    <3>1. c \in {"\n", "\\", "\""}
      BY <1>11, Zenon DEF Marked, Newline, Backslash, Mark
    <3>2. QED
      BY <3>1, ReprKeyIs, Zenon
  <2>3. LiesAt(u, <<Backslash, ReprLetter(c)>>, off)
    BY <2>1, Zenon
  <2> DEFINE l == ReprLetter(c)
  <2> HIDE DEF l, p, c, next
  <2>4. Decodes(f, off, <<Backslash, l>>, <<ReprKey[l]>>)
    <3>1. LiesAt(u, <<Backslash, l>>, off) /\ l \in DOMAIN ReprKey
      BY <2>2, <2>3, Zenon DEF l
    <3>2. QED
      BY <1>1, <1>2, <1>5, <3>1, ReadLetter, Zenon
  <2>5. Decodes(f, off, p, <<c>>)
    BY <2>1, <2>2, <2>4, Zenon DEF l
  <2>6. c # LEAD
    BY <1>9, <1>10, <1>11, Zenon
  <2>7. QED
    BY <1>8, <1>11, <2>5, <2>6, Zenon
<1>12. CASE ~Continued(t, k) /\ c \notin Marked /\ c \in Printable
  <2>1. p = <<c>>
    BY <1>12, ReprPieceIs, Zenon
  <2>2. c \notin MarkSkips /\ c # Backslash
    BY <1>12, Zenon DEF Marked, MarkSkips
  <2>3. LiesAt(u, <<c>>, off)
    BY <2>1, Zenon
  <2> HIDE DEF p, c, next
  <2>4. Decodes(f, off, <<c>>, <<c>>)
    BY <1>1, <1>2, <2>2, <2>3, ReadPlain, Zenon
  <2>5. Decodes(f, off, p, <<c>>)
    BY <2>1, <2>4, Zenon
  <2>6. c # LEAD
    BY <1>9, <1>10, <1>12, Zenon
  <2>7. QED
    BY <1>8, <1>12, <2>5, <2>6, Zenon
<1>13. CASE ~Continued(t, k) /\ Pair(t, k)
  <2> DEFINE d == t[k + 1]
  <2>1. p = <<c, d>> /\ c = LEAD /\ d = CONT /\ k < Len(t)
    BY <1>13, ReprPieceIs, Zenon DEF Pair
  <2>2. Len(<<c, d>>) = 2 /\ <<c, d>>[1] = c /\ <<c, d>>[2] = d
    OBVIOUS
  <2>3. off + 2 <= Len(u) /\ u[off + 1] = c /\ u[off + 2] = d
    <3> DEFINE e == <<c, d>>
    <3>1. LiesAt(u, e, off) /\ Len(e) = 2 /\ e[1] = c /\ e[2] = d
      BY <2>1, <2>2
    <3> HIDE DEF e, c, d
    <3>2. QED
      BY <3>1 DEF LiesAt
  <2>4. LiesAt(u, <<c>>, off) /\ LiesAt(u, <<d>>, off + 1) /\ off + 1 \in Nat
    <3> HIDE DEF c, d
    <3>1. \A x : Len(<<x>>) = 1 /\ <<x>>[1] = x
      OBVIOUS
    <3>2. \A j \in 1 .. 1 : j = 1 /\ off + j = off + 1 /\ (off + 1) + j = off + 2
      OBVIOUS
    <3>3. off + 1 <= Len(u) /\ (off + 1) + 1 <= Len(u)
      BY <1>1, <2>3
    <3>4. QED
      BY <2>3, <3>1, <3>2, <3>3 DEF LiesAt
  <2>5. c \notin MarkSkips /\ d \notin MarkSkips /\ c # Backslash /\ d # Backslash
    BY <1>4, <1>10, <2>1, Sorts, Zenon DEF MarkSkips
  <2> HIDE DEF p, c, d, next
  <2>6. Decodes(f, off, <<c>>, <<c>>)
    BY <1>1, <1>2, <2>4, <2>5, ReadPlain, Zenon
  <2>7. Decodes(f, off + 1, <<d>>, <<d>>)
    BY <1>1, <1>2, <2>4, <2>5, ReadPlain, Zenon
  <2>8. /\ Len(<<c>>) = 1 /\ Len(<<d>>) = 1 /\ off + 1 + 1 = off + 2 /\ off + 1 + 1 + 1 = off + 3
        /\ off + 2 + 1 = off + 3
    OBVIOUS
  <2>9. f[off + 1] = <<c>> \o f[off + 2] /\ f[off + 2] = <<d>> \o f[off + 3]
    <3>1. f[off + 1] = <<c>> \o f[off + 1 + 1]
      BY <2>6, <2>8, Zenon DEF Decodes
    <3>2. f[off + 1 + 1] = <<d>> \o f[off + 1 + 1 + 1]
      BY <2>7, <2>8, Zenon DEF Decodes
    <3>3. QED
      BY <2>8, <3>1, <3>2, Zenon
  <2>10. f[off + 3] = RestFrom(t, k + 1)
    BY <1>3, <2>1, <2>2, <2>8, Zenon
  <2>11. Continued(t, k + 1) /\ k + 1 <= Len(t) /\ k + 1 \in 1 .. Len(t)
    <3>1. k + 1 > 1 /\ (k + 1) - 1 = k /\ k + 1 <= Len(t) /\ k + 1 \in 1 .. Len(t)
      BY <1>1, <2>1
    <3>2. t[k + 1] = CONT /\ t[k] = LEAD
      BY <2>1, Zenon DEF c, d
    <3>3. QED
      BY <3>1, <3>2 DEF Continued
  <2>12. RestFrom(t, k + 1) = SubSeq(t, k + 1 + 1, Len(t))
    BY <2>11, Zenon DEF RestFrom
  <2>13. next = <<d>> \o SubSeq(t, k + 1 + 1, Len(t))
    BY <2>11, RestCons, Zenon DEF next, d
  <2>14. RestFrom(t, k) = <<c>> \o next
    BY <1>13, RestHere, Zenon DEF c, next
  <2>15. f[off + 2] = next
    BY <2>9, <2>10, <2>12, <2>13, Zenon
  <2>16. QED
    BY <2>9, <2>14, <2>15, Zenon
<1>14. CASE ~Continued(t, k) /\ c \in HexBytes /\ ~Pair(t, k)
  <2>1. p = HexPiece(c)
    BY <1>14, ReprPieceIs, Zenon
  <2>2. LiesAt(u, HexPiece(c), off) /\ Digits \notin DOMAIN ReprKey
    BY <2>1, ReprKeyIs, Zenon
  <2> HIDE DEF p, c, next
  <2>3. Decodes(f, off, HexPiece(c), <<c>>)
    BY <1>1, <1>2, <1>5, <1>14, <2>2, ReadHex, Zenon
  <2>4. Decodes(f, off, p, <<c>>)
    BY <2>1, <2>3, Zenon
  <2>5. QED
    BY <1>8, <1>14, <2>4, Zenon
<1>15. QED
  BY <1>7, <1>11, <1>12, <1>13, <1>14, ReprSorts, Zenon

\* What cstr_repr wrote of a text is read back.
LEMMA ReprReadBack ==
  ASSUME NEW t \in Seq(Bytes)
  PROVE  LET repr == Repr(t, 5 * Len(t) + 3) IN
         Unrepr([i \in 1 .. repr.len |-> repr.dest[i - 1]]) = t
<1> DEFINE n == Len(t)
           s == ReprPieces(t)
           repr == Repr(t, 5 * n + 3)
<1>1. n \in Nat
  BY LenProperties
<1>2. s \in Seq(Seq(OutBytes)) /\ Len(s) = n /\ \A k \in 1 .. n : s[k] = ReprPiece(t, k)
  BY ReprPiecesAre, Zenon
<1>3. PICK g \in [0 .. Len(s) -> Seq(OutBytes)] : Together(g, s)
  BY <1>2, TogetherExists, Zenon
<1>4. g \in [0 .. n -> Seq(OutBytes)]
  BY <1>2, <1>3, Zenon
<1> DEFINE u == g[n]
           r == Around(u)
<1>5. n \in 0 .. n /\ 0 \in 0 .. n
  BY <1>1
<1>6. \A k \in 0 .. n : g[k] \in Seq(OutBytes)
  BY <1>4
<1>7. \A k \in 0 .. n : Len(g[k]) \in Nat
  BY <1>6, LenProperties
<1>8. u \in Seq(OutBytes) /\ Len(u) \in Nat
  BY <1>5, <1>6, <1>7, Zenon
<1>9. Holds(repr, r, 5 * n + 3)
  BY <1>3, <1>4, ReprHolds, Zenon
<1>10. \A k \in 1 .. n : LiesAt(u, s[k], Len(g[k - 1])) /\ Len(g[k]) = Len(g[k - 1]) + Len(s[k])
  <2>1. \A k \in 1 .. Len(s) : LiesAt(g[Len(s)], s[k], Len(g[k - 1]))
                               /\ Len(g[k]) = Len(g[k - 1]) + Len(s[k])
    BY <1>2, <1>3, PiecesLie, Zenon
  <2>2. QED
    BY <1>2, <2>1, Zenon
<1> HIDE DEF s, u
<1>11. /\ r \in Seq(OutBytes) /\ Len(r) = Len(u) + 2
       /\ LiesAt(r, <<Mark>>, 0) /\ LiesAt(r, <<Mark>>, 1 + Len(u))
  BY <1>8, AroundIs, Zenon
<1>12. [i \in 1 .. repr.len |-> repr.dest[i - 1]] = r
  BY <1>9, <1>11, HeldText, Zenon
<1>13. \A k \in 1 .. n : ReprPiece(t, k) \in Seq(OutBytes) /\ Len(ReprPiece(t, k)) \in Nat
  <2> TAKE k \in 1 .. n
  <2> DEFINE p == ReprPiece(t, k)
  <2>1. p \in Seq(OutBytes)
    BY ReprPieceWritten, Zenon
  <2> HIDE DEF p
  <2>2. Len(p) \in Nat
    BY <2>1, LenProperties
  <2>3. QED
    BY <2>1, <2>2 DEF p
<1> HIDE DEF r, repr
<1>14. Len(r) \in Nat /\ 1 + Len(u) \in Nat /\ Mark \in MarkSkips
  <2>1. \A a \in Nat : a + 2 \in Nat /\ 1 + a \in Nat
    OBVIOUS
  <2>2. QED
    BY <1>8, <1>11, <2>1, Zenon DEF MarkSkips
<1>15. PICK f : IsReader(f, r, MarkSkips, ReprKey) /\ Unrepr(r) = f[1]
  BY <1>14, UnreprIs, Zenon
<1> DEFINE pos == [k \in 0 .. n |-> 1 + Len(g[k])]
           rest == [k \in 1 .. n + 1 |-> RestFrom(t, k)]
<1>16. \A k \in 1 .. n : f[pos[k] + 1] = rest[k + 1] => f[pos[k - 1] + 1] = rest[k]
  <2> SUFFICES ASSUME NEW k \in 1 .. n, f[pos[k] + 1] = rest[k + 1]
               PROVE  f[pos[k - 1] + 1] = rest[k]
    BY Zenon
  <2> DEFINE p == ReprPiece(t, k)
             off == Len(g[k - 1])
  <2>1. k \in 0 .. n /\ k - 1 \in 0 .. n /\ k \in 1 .. n + 1 /\ k + 1 \in 1 .. n + 1
    BY <1>1
  <2>2. off \in Nat /\ Len(p) \in Nat /\ Len(g[k]) = off + Len(p) /\ LiesAt(u, p, off)
    BY <1>2, <1>7, <1>10, <1>13, <2>1, Zenon
  <2>3. LiesAt(r, p, 1 + off)
    BY <1>8, <2>2, AroundLies, Zenon DEF r
  <2>4. pos[k] = 1 + Len(g[k]) /\ pos[k - 1] = 1 + off
    BY <2>1
  <2>5. rest[k + 1] = RestFrom(t, k + 1) /\ rest[k] = RestFrom(t, k)
    BY <2>1
  <2> HIDE DEF pos, rest, p, off
  <2>6. 1 + Len(g[k]) = (1 + off) + Len(p) /\ 1 + off \in Nat
    BY <2>2
  <2>7. ReadsRest(f, (1 + off) + Len(p), t, k + 1)
    BY <2>4, <2>5, <2>6, Zenon DEF ReadsRest
  <2>8. IsUnrepr(f, r)
    BY <1>15, Zenon DEF IsUnrepr
  <2>9. ReadsRest(f, 1 + off, t, k)
    BY <1>11, <2>3, <2>6, <2>7, <2>8, ReprDecodes, Zenon DEF p
  <2>10. QED
    BY <2>4, <2>5, <2>9, Zenon DEF ReadsRest
<1>17. f[pos[n] + 1] = rest[n + 1]
  <2>1. pos[n] = 1 + Len(u) /\ n + 1 \in 1 .. n + 1 /\ ~(n + 1 <= n)
    BY <1>1, <1>5 DEF u
  <2>2. rest[n + 1] = << >>
    <3>1. rest[n + 1] = RestFrom(t, n + 1)
      BY <2>1
    <3>2. RestFrom(t, n + 1) = SubSeq(t, n + 1, n)
      BY <2>1, Zenon DEF RestFrom
    <3>3. SubSeq(t, n + 1, n) = << >>
      <4>1. n + 1 \in Int /\ n \in Int /\ n < n + 1
        BY <1>1
      <4> HIDE DEF n
      <4>2. QED
        BY <4>1, SubSeqEmpty
    <3>4. QED
      BY <3>1, <3>2, <3>3, Zenon
  <2>3. f[(1 + Len(u)) + 1] = f[(1 + Len(u)) + 2]
    <3>1. SkipsOn(f, 1 + Len(u))
      BY <1>11, <1>14, <1>15, ReadSkipped, Zenon
    <3>2. QED
      BY <3>1, Zenon DEF SkipsOn
  <2>4. /\ (1 + Len(u)) + 2 = Len(r) + 1
        /\ Len(r) + 1 \in 1 .. Len(r) + 4 /\ Len(r) + 1 > Len(r)
    BY <1>8, <1>11, <1>14
  <2>5. f[Len(r) + 1] = ReadAt(f, r, Len(r) + 1, MarkSkips, ReprKey)
    BY <1>15, <2>4, Zenon DEF IsReader
  <2>6. f[Len(r) + 1] = << >>
    BY <2>4, <2>5, Zenon DEF ReadAt
  <2> HIDE DEF pos, rest
  <2>7. QED
    BY <2>1, <2>2, <2>3, <2>4, <2>6, Zenon
<1>18. pos[0] + 1 = 2
  <2>1. pos[0] = 1 + Len(g[0])
    BY <1>5
  <2>2. g[0] = << >>
    BY <1>3, Zenon DEF Together
  <2>3. Len(g[0]) = 0
    BY <2>2, EmptySeq
  <2>4. QED
    BY <2>1, <2>3
<1>19. rest[1] = t
  <2>1. rest[1] = RestFrom(t, 1) /\ ~(1 > 1)
    BY <1>1
  <2>2. RestFrom(t, 1) = SubSeq(t, 1, n)
    BY <2>1, Zenon DEF RestFrom, Continued
  <2>3. SubSeq(t, 1, n) = t
    BY SubSeqFull
  <2>4. QED
    BY <2>1, <2>2, <2>3, Zenon
<1> HIDE DEF pos, rest, n
<1>20. f[2] = t
  <2>1. Chained(n, f, pos, rest)
    BY <1>16, <1>17, Zenon DEF Chained
  <2>2. ChainGives(f, pos, rest)
    BY <1>1, <2>1, ChainRead, Zenon
  <2>3. f[pos[0] + 1] = rest[1]
    BY <2>2, Zenon DEF ChainGives
  <2>4. QED
    BY <1>18, <1>19, <2>3
<1>21. f[1] = f[2]
  <2>1. 0 \in Nat /\ 0 + 1 = 1 /\ 0 + 2 = 2
    OBVIOUS
  <2>2. SkipsOn(f, 0)
    BY <1>11, <1>14, <1>15, <2>1, ReadSkipped, Zenon
  <2>3. QED
    BY <2>1, <2>2 DEF SkipsOn
<1>22. Unrepr([i \in 1 .. repr.len |-> repr.dest[i - 1]]) = t
  BY <1>12, <1>15, <1>20, <1>21, Zenon
<1>23. QED
  BY <1>22, Zenon DEF repr, n

\* What is written of a text is read back from it.
LEMMA EscapesGiveBack ==
  ASSUME text \in Seq(Bytes)
  PROVE  EscapesReadBack
<1>1. "\\" \notin ToSet(text) => Unescape(Escape(text)) = text
  BY EscapeReadBack, Zenon DEF Backslash
<1>2. LET repr == Repr(text, 5 * Len(text) + 3) IN
      Unrepr([i \in 1 .. repr.len |-> repr.dest[i - 1]]) = text
  BY ReprReadBack, Zenon
<1>3. QED
  BY <1>1, <1>2, Zenon DEF EscapesReadBack

\* Whatever operations gave a text: what cstr_repr and cstr_escape write of it is
\* read back, a file that holds it is read line for line however short the buffer
\* is, and what was split is joined to it again (cstr.c:48-241, 329-352,
\* io.c:43-79, file.c:124-161, str.c:499-548).
THEOREM TextsReadBack == Spec => []ReadsBack
<1>1. Init => TextHeld
  BY TextHeldInit
<1>2. TextHeld /\ [Next]_vars => TextHeld'
  BY TextHeldNext
<1>3. TextHeld => ReadsBack
  <2> SUFFICES ASSUME TextHeld PROVE ReadsBack
    OBVIOUS
  <2>1. text \in Seq(Bytes)
    BY Zenon DEF TextHeld, IsStrOf
  <2>2. EscapesReadBack
    BY <2>1, EscapesGiveBack, Zenon
  <2>3. LinesReadBack
    BY <2>1, LinesGiveBack, Zenon
  <2>4. SplitsReadBack
    BY <2>1, SplitsGiveBack, Zenon
  <2>5. QED
    BY <2>2, <2>3, <2>4, Zenon DEF ReadsBack
<1>4. QED
  BY <1>1, <1>2, <1>3, PTL DEF Spec
=============================================================================
