-------------------------- MODULE Iterables_proofs --------------------------
(***************************************************************************)
(* That the containers are sound and an Iter stays in place, for all sets  *)
(* of objects, keys and nodes, all lengths and all indexes.                *)
(*                                                                         *)
(* A chain of nodes runs along a sequence of nodes (RunsAlong): the head   *)
(* is its first, the pointer of each leads to the next, and no other node  *)
(* is allocated.  There is one such sequence, and Chain gives it.  What    *)
(* an operation does to the pointers is then what it does to a sequence.   *)
(***************************************************************************)
EXTENDS Iterables, MascListLemmas, FiniteSetTheorems

-----------------------------------------------------------------------------
(***************************************************************************)
(* Chains of nodes that hold members of S.                                 *)
(***************************************************************************)
NodesOrNull == Nodes \cup {Null}

ChainType(c, S) ==
  c \in [head : NodesOrNull, next : [Nodes -> NodesOrNull], obj : [Nodes -> S \cup {Null}]]

RunsAlong(c, p) ==
  /\ p \in Seq(Nodes)
  /\ IsInjective(p)
  /\ ToSet(p) = Allocated(c)
  /\ c.head = IF Len(p) = 0 THEN Null ELSE p[1]
  /\ \A i \in 1 .. Len(p) : c.next[p[i]] = IF i = Len(p) THEN Null ELSE p[i + 1]
  /\ \A node \in Nodes \ ToSet(p) : c.next[node] = Null

\* Chain follows the pointers, and so it finds the nodes in their order.
LEMMA ChainIsPath ==
  ASSUME NEW c, NEW p, RunsAlong(c, p)
  PROVE  Chain(c) = p
<1> DEFINE at(node) == CHOOSE i \in 1 .. Len(p) : p[i] = node
           After(node) == IF node = Null THEN << >>
                          ELSE IF node \in ToSet(p) THEN SubSeq(p, at(node), Len(p))
                          ELSE <<node>>
           Follows(g) == g = [node \in Nodes \cup {Null} |->
                                IF node = Null THEN << >> ELSE <<node>> \o g[c.next[node]]]
           f == [node \in Nodes \cup {Null} |-> After(node)]
           from == CHOOSE g : Follows(g)
<1>1. /\ p \in Seq(Nodes) /\ Len(p) \in Nat
      /\ \A i, j \in 1 .. Len(p) : p[i] = p[j] => i = j
      /\ \A i \in 1 .. Len(p) : p[i] \in Nodes /\ p[i] # Null /\ p[i] \in ToSet(p)
  BY ListNodesAssumption, InjectiveSeq, LenProperties, ElementOfSeq, ToSetMember DEF RunsAlong
<1>2. \A i \in 1 .. Len(p) : at(p[i]) = i
  BY <1>1
<1>3. \A i \in 1 .. Len(p) : f[p[i]] = SubSeq(p, i, Len(p))
  BY <1>1, <1>2
<1>4. f[Null] = << >> /\ \A node \in Nodes \ ToSet(p) : f[node] = <<node>>
  BY ListNodesAssumption
<1>a. f = [node \in Nodes \cup {Null} |-> f[node]]
  OBVIOUS
<1> HIDE DEF at, After, f
<1>5. Follows(f)
  <2>1. ASSUME NEW i \in 1 .. Len(p)
        PROVE  f[p[i]] = <<p[i]>> \o f[c.next[p[i]]]
    <3>1. CASE i = Len(p)
      <4>1. f[c.next[p[i]]] = << >>
        BY <1>4, <3>1 DEF RunsAlong
      <4>2. SubSeq(p, i, Len(p)) = <<p[i]>> \o SubSeq(p, i + 1, Len(p))
        BY <1>1, <3>1, SubSeqRecursiveFirst
      <4>3. SubSeq(p, i + 1, Len(p)) = << >>
        BY <1>1, <3>1, SubSeqEmpty
      <4>4. QED
        BY <1>3, <4>1, <4>2, <4>3
    <3>2. CASE i # Len(p)
      <4>1. i + 1 \in 1 .. Len(p)
        BY <1>1, <3>2
      <4>2. f[c.next[p[i]]] = SubSeq(p, i + 1, Len(p))
        BY <1>3, <3>2, <4>1 DEF RunsAlong
      <4>3. SubSeq(p, i, Len(p)) = <<p[i]>> \o SubSeq(p, i + 1, Len(p))
        BY <1>1, SubSeqRecursiveFirst
      <4>4. QED
        BY <1>3, <4>2, <4>3
    <3>3. QED
      BY <3>1, <3>2
  <2>2. ASSUME NEW node \in Nodes \ ToSet(p)
        PROVE  f[node] = <<node>> \o f[c.next[node]]
    <3>1. f[c.next[node]] = << >>
      BY <1>4 DEF RunsAlong
    <3>2. <<node>> \o << >> = <<node>>
      BY ConcatEmptySeq, <<node>> \in Seq(Nodes)
    <3>3. QED
      BY <1>4, <3>1, <3>2
  <2>3. ASSUME NEW node \in Nodes
        PROVE  f[node] = <<node>> \o f[c.next[node]]
    <3>1. CASE node \in ToSet(p)
      <4>1. PICK i \in 1 .. Len(p) : p[i] = node
        BY <1>1, <3>1, ToSetMember
      <4>2. QED
        BY <2>1, <4>1
    <3>2. QED
      BY <2>2, <3>1
  <2>4. \A node \in Nodes \cup {Null} :
          f[node] = IF node = Null THEN << >> ELSE <<node>> \o f[c.next[node]]
    BY <1>4, <2>3
  <2>5. f = [node \in Nodes \cup {Null} |->
               IF node = Null THEN << >> ELSE <<node>> \o f[c.next[node]]]
    BY <1>a, <2>4
  <2>6. QED
    BY <2>5
<1>6. Follows(from)
  BY <1>5, Zenon
<1>7. Chain(c) = from[c.head]
  BY DEF Chain
<1> HIDE DEF from
<1>8. from[Null] = << >> /\ \A node \in Nodes : from[node] = <<node>> \o from[c.next[node]]
  BY <1>6, ListNodesAssumption
<1> HIDE DEF Follows
<1>9. \A i \in 1 .. Len(p) : from[p[i]] = SubSeq(p, i, Len(p))
  <2> DEFINE Bad == {k \in 0 .. Len(p) - 1 :
                       from[p[Len(p) - k]] # SubSeq(p, Len(p) - k, Len(p))}
  <2>1. Bad = {}
    <3> SUFFICES ASSUME Bad # {} PROVE FALSE
      OBVIOUS
    <3>1. Bad \in SUBSET Nat
      BY <1>1
    <3>2. PICK k \in Bad : \A j \in Bad : k <= j
      BY <3>1, MinOfNats
    <3>3. PICK i \in 1 .. Len(p) : i = Len(p) - k
      BY <1>1
    <3>4. from[p[i]] = <<p[i]>> \o from[c.next[p[i]]]
      BY <1>1, <1>8, <3>3
    <3>5. SubSeq(p, i, Len(p)) = <<p[i]>> \o SubSeq(p, i + 1, Len(p))
      <4>1. Len(p) \in i .. Len(p)
        BY <1>1, <3>3
      <4>2. QED
        BY <1>1, <3>3, <4>1, SubSeqRecursiveFirst, Zenon
    <3>6. from[c.next[p[i]]] = SubSeq(p, i + 1, Len(p))
      <4>1. CASE i = Len(p)
        <5>1. SubSeq(p, i + 1, Len(p)) = << >>
          BY <1>1, <4>1, SubSeqEmpty
        <5>2. c.next[p[i]] = Null
          BY <3>3, <4>1 DEF RunsAlong
        <5>3. QED
          BY <1>8, <5>1, <5>2
      <4>2. CASE i # Len(p)
        <5>1. k - 1 \in 0 .. Len(p) - 1 /\ ~(k <= k - 1) /\ Len(p) - (k - 1) = i + 1
          BY <1>1, <3>3, <4>2
        <5>2. k - 1 \notin Bad
          BY <3>2, <5>1, Zenon
        <5>3. from[p[i + 1]] = SubSeq(p, i + 1, Len(p))
          BY <5>1, <5>2
        <5>4. c.next[p[i]] = p[i + 1]
          BY <3>3, <4>2 DEF RunsAlong
        <5>5. QED
          BY <5>3, <5>4
      <4>3. QED
        BY <4>1, <4>2
    <3>7. from[p[i]] = SubSeq(p, i, Len(p))
      BY <3>4, <3>5, <3>6
    <3>8. QED
      BY <3>3, <3>7
  <2>2. ASSUME NEW i \in 1 .. Len(p)
        PROVE  from[p[i]] = SubSeq(p, i, Len(p))
    <3>1. Len(p) - i \in 0 .. Len(p) - 1 /\ Len(p) - (Len(p) - i) = i
      BY <1>1
    <3>2. Len(p) - i \notin Bad
      BY <2>1
    <3>3. QED
      BY <3>1, <3>2
  <2>3. QED
    BY <2>2
<1>10. QED
  <2>1. CASE Len(p) = 0
    <3>1. p = << >> /\ c.head = Null
      BY <1>1, <2>1, EmptySeq DEF RunsAlong
    <3>2. QED
      BY <1>7, <1>8, <3>1
  <2>2. CASE Len(p) # 0
    <3>1. c.head = p[1] /\ 1 \in 1 .. Len(p)
      BY <1>1, <2>2 DEF RunsAlong
    <3>2. QED
      BY <1>1, <1>7, <1>9, <3>1, SubSeqFull
  <2>3. QED
    BY <2>1, <2>2

\* A chain that is sound has nodes that hold something, each once.
ChainSound(c, S) == ChainType(c, S) /\ RunsAlong(c, Chain(c))

LEMMA SoundChain ==
  ASSUME NEW c, NEW S, NEW p, ChainType(c, S), RunsAlong(c, p)
  PROVE  ChainSound(c, S) /\ Chain(c) = p
BY ChainIsPath DEF ChainSound

LEMMA ChainFacts ==
  ASSUME NEW c, NEW S, ChainSound(c, S)
  PROVE  /\ Chain(c) \in Seq(Nodes) /\ Len(Chain(c)) \in Nat
         /\ \A i, j \in 1 .. Len(Chain(c)) : Chain(c)[i] = Chain(c)[j] => i = j
         /\ \A i \in 1 .. Len(Chain(c)) :
              /\ Chain(c)[i] \in Nodes /\ Chain(c)[i] # Null
              /\ Chain(c)[i] \in ToSet(Chain(c)) /\ c.obj[Chain(c)[i]] \in S
         /\ Held(c) \in Seq(S) /\ Len(Held(c)) = Len(Chain(c))
         /\ DOMAIN Held(c) = 1 .. Len(Chain(c))
         /\ \A i \in 1 .. Len(Chain(c)) : Held(c)[i] = c.obj[Chain(c)[i]]
         /\ c.head = Null <=> Len(Chain(c)) = 0
         /\ Chain(c) = << >> <=> Len(Chain(c)) = 0
         /\ Held(c) = << >> <=> Len(Chain(c)) = 0
<1> DEFINE p == Chain(c)
<1>1. /\ p \in Seq(Nodes) /\ Len(p) \in Nat /\ DOMAIN p = 1 .. Len(p)
      /\ \A i, j \in 1 .. Len(p) : p[i] = p[j] => i = j
      /\ \A i \in 1 .. Len(p) : p[i] \in Nodes /\ p[i] # Null /\ p[i] \in ToSet(p)
  BY ListNodesAssumption, InjectiveSeq, LenProperties, ElementOfSeq, ToSetMember
  DEF RunsAlong, ChainSound
<1>2. \A i \in 1 .. Len(p) : c.obj[p[i]] \in S
  <2>1. c.obj \in [Nodes -> S \cup {Null}] /\ ToSet(p) = Allocated(c)
    BY DEF ChainSound, ChainType, RunsAlong
  <2> HIDE DEF p
  <2>2. QED
    BY <1>1, <2>1 DEF Allocated
<1>3. Held(c) = [k \in 1 .. Len(p) |-> c.obj[p[k]]]
  BY <1>1 DEF Held
<1> HIDE DEF p
<1>4. Held(c) \in Seq(S) /\ Len(Held(c)) = Len(p)
  BY <1>1, <1>2, <1>3
<1>5. c.head = IF Len(p) = 0 THEN Null ELSE p[1]
  BY DEF ChainSound, RunsAlong, p
<1>6. c.head = Null <=> Len(p) = 0
  BY <1>1, <1>5
<1>7. p = << >> <=> Len(p) = 0
  BY <1>1, EmptySeq
<1>8. Held(c) = << >> <=> Len(p) = 0
  BY <1>1, <1>4, EmptySeq
<1>9. QED
  BY <1>1, <1>2, <1>3, <1>4, <1>6, <1>7, <1>8 DEF p

-----------------------------------------------------------------------------
\* The node behind the first j: what Linked is told of it.
Before(c, j) == IF j = 0 THEN Null ELSE Chain(c)[j]

\* Linked puts a new node behind the first j, and changes nothing else.
LEMMA LinkedSound ==
  ASSUME NEW c, NEW S, Null \notin S, ChainSound(c, S), Allocated(c) # Nodes,
         NEW o \in S, NEW j \in 0 .. Len(Chain(c))
  PROVE  /\ ChainSound(Linked(c, Before(c, j), o), S)
         /\ Held(Linked(c, Before(c, j), o)) = InsertAt(Held(c), j + 1, o)
         /\ \E new \in Nodes \ ToSet(Chain(c)) :
              /\ Chain(Linked(c, Before(c, j), o)) = InsertAt(Chain(c), j + 1, new)
              /\ Linked(c, Before(c, j), o).obj = [c.obj EXCEPT ![new] = o]
<1> DEFINE p == Chain(c)
           n == Len(p)
           new == CHOOSE node \in Nodes : c.obj[node] = Null
           prev == Before(c, j)
           d == Linked(c, prev, o)
           q == InsertAt(p, j + 1, new)
<1>1. /\ p \in Seq(Nodes) /\ n \in Nat /\ IsInjective(p)
      /\ j \in Nat /\ j <= n /\ j + 1 \in 1 .. n + 1
      /\ \A i, k \in 1 .. n : p[i] = p[k] => i = k
      /\ \A i \in 1 .. n : p[i] \in Nodes /\ p[i] # Null /\ p[i] \in ToSet(p)
  BY ChainFacts DEF ChainSound, RunsAlong
<1>2. /\ ToSet(p) = Allocated(c)
      /\ c.head = IF n = 0 THEN Null ELSE p[1]
      /\ \A i \in 1 .. n : c.next[p[i]] = IF i = n THEN Null ELSE p[i + 1]
      /\ \A node \in Nodes \ ToSet(p) : c.next[node] = Null
      /\ ChainType(c, S)
  BY DEF ChainSound, RunsAlong
<1>3. new \in Nodes /\ c.obj[new] = Null
  BY DEF Allocated
<1>4. new \notin ToSet(p) /\ new # Null
  BY <1>2, <1>3, ListNodesAssumption DEF Allocated
<1>5. d = IF prev = Null
          THEN [c EXCEPT !.head = new, !.next[new] = c.head, !.obj[new] = o]
          ELSE [c EXCEPT !.next[prev] = new, !.next[new] = c.next[prev], !.obj[new] = o]
  BY DEF Linked
<1>6. j = 0 => prev = Null
  BY DEF Before
<1>7. j # 0 => prev = p[j] /\ j \in 1 .. n /\ prev # Null /\ prev \in Nodes /\ prev # new
  <2> SUFFICES ASSUME j # 0
               PROVE  prev = p[j] /\ j \in 1 .. n /\ prev # Null /\ prev \in Nodes /\ prev # new
    OBVIOUS
  <2>1. prev = p[j] /\ j \in 1 .. n
    BY <1>1 DEF Before
  <2> HIDE DEF prev, p, new
  <2>2. QED
    BY <1>1, <1>4, <2>1
<1> HIDE DEF new, prev, d, p
<1>8. /\ q \in Seq(Nodes) /\ IsInjective(q) /\ ToSet(q) = ToSet(p) \cup {new}
      /\ Len(q) = n + 1
      /\ \A k \in 1 .. n + 1 : q[k] = IF k < j + 1 THEN p[k] ELSE IF k = j + 1 THEN new ELSE p[k - 1]
  BY <1>1, <1>3, <1>4, InsertAtInjective, InsertAtProperties
<1> HIDE DEF q
<1>9. /\ ChainType(d, S)
      /\ d.head = IF j = 0 THEN new ELSE c.head
      /\ d.obj = [c.obj EXCEPT ![new] = o]
      /\ d.next[new] = IF j = 0 THEN c.head ELSE c.next[prev]
      /\ j # 0 => d.next[prev] = new
      /\ \A node \in Nodes \ {new, prev} : d.next[node] = c.next[node]
  BY <1>2, <1>3, <1>5, <1>6, <1>7 DEF ChainType, NodesOrNull
<1>10. RunsAlong(d, q)
  <2>1. ToSet(q) = Allocated(d)
    BY <1>2, <1>3, <1>8, <1>9 DEF Allocated, ChainType
  <2>2. d.head = IF Len(q) = 0 THEN Null ELSE q[1]
    BY <1>1, <1>2, <1>8, <1>9
  <2>3. ASSUME NEW i \in 1 .. Len(q)
        PROVE  d.next[q[i]] = IF i = Len(q) THEN Null ELSE q[i + 1]
    <3>1. CASE i < j
      <4>1. /\ i \in 1 .. n /\ i + 1 \in 1 .. n + 1 /\ i # Len(q) /\ i # n
            /\ q[i] = p[i] /\ q[i + 1] = p[i + 1] /\ p[i] # prev
        BY <1>1, <1>7, <1>8, <3>1
      <4>2. p[i] \in Nodes \ {new, prev}
        BY <1>1, <1>4, <4>1
      <4>3. QED
        BY <1>2, <1>9, <4>1, <4>2
    <3>2. CASE i = j
      <4>1. i \in 1 .. n + 1 /\ i + 1 \in 1 .. n + 1 /\ i # Len(q) /\ q[i] = prev /\ q[i + 1] = new
        BY <1>1, <1>7, <1>8, <3>2
      <4>2. QED
        BY <1>7, <1>9, <3>2, <4>1
    <3>3. CASE i = j + 1
      <4>1. q[i] = new
        BY <1>1, <1>8, <3>3
      <4>2. CASE j = n
        BY <1>1, <1>2, <1>7, <1>8, <1>9, <3>3, <4>1, <4>2
      <4>3. CASE j # n
        <5>1. i + 1 \in 1 .. n + 1 /\ q[i + 1] = p[j + 1] /\ i # Len(q)
          BY <1>1, <1>8, <3>3, <4>3
        <5>2. QED
          BY <1>1, <1>2, <1>7, <1>9, <4>1, <4>3, <5>1
      <4>4. QED
        BY <4>2, <4>3
    <3>4. CASE i > j + 1
      <4>1. i \in 1 .. n + 1 /\ ~(i < j + 1) /\ i # j + 1
        BY <1>1, <1>8, <3>4
      <4>2. q[i] = p[i - 1]
        BY <1>8, <4>1
      <4>3. i - 1 \in 1 .. n /\ i - 1 # j
        BY <1>1, <3>4, <4>1
      <4>4. p[i - 1] \in Nodes \ {new, prev}
        BY <1>1, <1>4, <1>6, <1>7, <4>3
      <4>5. c.next[p[i - 1]] = IF i - 1 = n THEN Null ELSE p[i]
        BY <1>2, <4>3
      <4>6. ASSUME i # n + 1
            PROVE  i + 1 \in 1 .. n + 1 /\ q[i + 1] = p[i]
        <5>1. /\ i + 1 \in 1 .. n + 1 /\ ~(i + 1 < j + 1) /\ i + 1 # j + 1
              /\ (i + 1) - 1 = i
          BY <1>1, <3>4, <4>1, <4>6
        <5>2. QED
          BY <1>8, <5>1
      <4>7. QED
        BY <1>1, <1>8, <1>9, <4>2, <4>3, <4>4, <4>5, <4>6
    <3>5. QED
      BY <1>1, <1>8, <3>1, <3>2, <3>3, <3>4
  <2>4. ASSUME NEW node \in Nodes \ ToSet(q)
        PROVE  d.next[node] = Null
    <3>1. node # new /\ node \notin ToSet(p) /\ node # prev
      BY <1>1, <1>6, <1>7, <1>8, ListNodesAssumption
    <3>2. QED
      BY <1>2, <1>9, <3>1
  <2>5. QED
    BY <1>8, <2>1, <2>2, <2>3, <2>4 DEF RunsAlong
<1>11. ChainSound(d, S) /\ Chain(d) = q
  BY <1>9, <1>10, SoundChain
<1>12. Held(d) = InsertAt(Held(c), j + 1, o)
  <2> DEFINE h == Held(c)
             r == InsertAt(h, j + 1, o)
  <2>1. /\ h \in Seq(S) /\ Len(h) = n /\ \A i \in 1 .. n : h[i] = c.obj[p[i]]
    BY ChainFacts DEF p
  <2>2. /\ Held(d) \in Seq(S) /\ Len(Held(d)) = n + 1
        /\ \A i \in 1 .. n + 1 : Held(d)[i] = d.obj[q[i]]
    <3>1. /\ Held(d) \in Seq(S) /\ Len(Held(d)) = Len(Chain(d))
          /\ \A i \in 1 .. Len(Chain(d)) : Held(d)[i] = d.obj[Chain(d)[i]]
      BY <1>11, ChainFacts
    <3>2. Len(Chain(d)) = n + 1 /\ Chain(d) = q
      BY <1>8, <1>11
    <3>3. QED
      BY <3>1, <3>2, Zenon
  <2> HIDE DEF h
  <2>3. /\ r \in Seq(S) /\ Len(r) = n + 1
        /\ r[j + 1] = o
        /\ \A k \in 1 .. (j + 1) - 1 : r[k] = h[k]
        /\ \A k \in (j + 1) + 1 .. n + 1 : r[k] = h[k - 1]
    <3> DEFINE m == j + 1
    <3>1. h \in Seq(S) /\ m \in 1 .. Len(h) + 1 /\ o \in S
      BY <1>1, <2>1
    <3>2. r = InsertAt(h, m, o)
      OBVIOUS
    <3> HIDE DEF m, r
    <3>a. InsertAt(h, m, o)[m] = o
      BY <3>1, InsertAtItself, Zenon
    <3>3. /\ InsertAt(h, m, o) \in Seq(S)
          /\ Len(InsertAt(h, m, o)) = Len(h) + 1
          /\ \A i \in 1 .. m - 1 : InsertAt(h, m, o)[i] = h[i]
          /\ \A i \in m + 1 .. Len(h) + 1 : InsertAt(h, m, o)[i] = h[i - 1]
      <4>b. InsertAt(h, m, o) \in Seq(S)
        BY <3>1, InsertAtElements, SMT
      <4>c. Len(InsertAt(h, m, o)) = Len(h) + 1
        BY <3>1, InsertAtElements, SMT
      <4>d. \A i \in 1 .. m - 1 : InsertAt(h, m, o)[i] = h[i]
        BY <3>1, InsertAtElements, SMT
      <4>e. \A i \in m + 1 .. Len(h) + 1 : InsertAt(h, m, o)[i] = h[i - 1]
        BY <3>1, InsertAtElements, SMT
      <4>f. QED
        BY <4>b, <4>c, <4>d, <4>e, Zenon
    <3>4. QED
      BY <2>1, <3>2, <3>a, <3>3, Zenon DEF m
  <2> HIDE DEF r
  <2>4. ASSUME NEW k \in 1 .. n + 1
        PROVE  Held(d)[k] = r[k]
    <3>1. c.obj \in [Nodes -> S \cup {Null}] /\ d.obj = [c.obj EXCEPT ![new] = o]
      BY <1>2, <1>9 DEF ChainType
    <3>2. CASE k < j + 1
      <4>1. k \in 1 .. n /\ q[k] = p[k] /\ p[k] # new
        BY <1>1, <1>4, <1>8, <3>2
      <4>2. r[k] = c.obj[p[k]]
        <5>1. k \in 1 .. (j + 1) - 1
          BY <1>1, <3>2, <4>1
        <5>2. QED
          BY <2>1, <2>3, <4>1, <5>1, Zenon
      <4>5. Held(d)[k] = d.obj[p[k]]
        BY <2>2, <4>1, Zenon
      <4>3. d.obj[p[k]] = c.obj[p[k]]
        BY <1>1, <3>1, <4>1
      <4>4. QED
        BY <4>2, <4>3, <4>5
    <3>3. CASE k = j + 1
      <4>1. q[k] = new /\ ~(k < j + 1)
        BY <1>1, <1>8, <3>3
      <4>2. r[k] = o /\ Held(d)[k] = d.obj[new]
        BY <2>2, <2>3, <3>3, <4>1
      <4>3. d.obj[new] = o
        BY <1>3, <3>1
      <4>4. QED
        BY <4>2, <4>3
    <3>4. CASE k > j + 1
      <4>1. k - 1 \in 1 .. n /\ q[k] = p[k - 1] /\ p[k - 1] # new
        BY <1>1, <1>4, <1>8, <3>4
      <4>2. ~(k < j + 1) /\ k # j + 1
        BY <1>1, <3>4
      <4>3. r[k] = h[k - 1]
        BY <2>3, <4>2
      <4>4. Held(d)[k] = c.obj[p[k - 1]]
        BY <1>1, <2>2, <3>1, <4>1
      <4>5. QED
        BY <2>1, <4>1, <4>3, <4>4
    <3>5. QED
      BY <1>1, <3>2, <3>3, <3>4
  <2>5. QED
    BY <2>2, <2>3, <2>4, SeqEqual DEF h, r
<1>13. QED
  BY <1>3, <1>4, <1>9, <1>11, <1>12 DEF d, prev, p, q

-----------------------------------------------------------------------------
\* A sequence without duplicates, without one of its elements.
LEMMA RemoveAtInjective ==
  ASSUME NEW S, NEW s \in Seq(S), IsInjective(s), NEW k \in 1 .. Len(s)
  PROVE  IsInjective(RemoveAt(s, k)) /\ ToSet(RemoveAt(s, k)) = ToSet(s) \ {s[k]}
<1>1. s[k] \in ToSet(s)
  BY ToSetMember
<1>2. PICK i \in 1 .. Len(s) : s[i] = s[k] /\ RemoveFirst(s, s[k]) = RemoveAt(s, i)
  BY <1>1, RemoveFirstIsRemoveAt
<1>3. i = k
  BY <1>2, InjectiveSeq
<1>4. QED
  BY <1>2, <1>3, RemoveFirstInjective

\* Unlinked takes out the j-th node, and changes nothing else.
LEMMA UnlinkedSound ==
  ASSUME NEW c, NEW S, Null \notin S, ChainSound(c, S), NEW j \in 1 .. Len(Chain(c))
  PROVE  /\ ChainSound(Unlinked(c, Before(c, j - 1)), S)
         /\ Chain(Unlinked(c, Before(c, j - 1))) = RemoveAt(Chain(c), j)
         /\ Held(Unlinked(c, Before(c, j - 1))) = RemoveAt(Held(c), j)
         /\ Unlinked(c, Before(c, j - 1)).obj = [c.obj EXCEPT ![Chain(c)[j]] = Null]
<1> DEFINE p == Chain(c)
           n == Len(p)
           old == p[j]
           prev == Before(c, j - 1)
           d == Unlinked(c, prev)
           q == RemoveAt(p, j)
<1>1. /\ p \in Seq(Nodes) /\ n \in Nat /\ IsInjective(p) /\ j \in 1 .. n
      /\ \A i, k \in 1 .. n : p[i] = p[k] => i = k
      /\ \A i \in 1 .. n : p[i] \in Nodes /\ p[i] # Null /\ p[i] \in ToSet(p)
  BY ChainFacts DEF ChainSound, RunsAlong
<1>2. /\ ToSet(p) = Allocated(c)
      /\ c.head = IF n = 0 THEN Null ELSE p[1]
      /\ \A i \in 1 .. n : c.next[p[i]] = IF i = n THEN Null ELSE p[i + 1]
      /\ \A node \in Nodes \ ToSet(p) : c.next[node] = Null
      /\ ChainType(c, S)
  BY DEF ChainSound, RunsAlong
<1>3. j = 1 => prev = Null
  BY DEF Before
<1>4. j # 1 => /\ prev = p[j - 1] /\ j - 1 \in 1 .. n /\ prev # Null
               /\ prev \in Nodes /\ prev # old
  <2> SUFFICES ASSUME j # 1
               PROVE  /\ prev = p[j - 1] /\ j - 1 \in 1 .. n /\ prev # Null
                      /\ prev \in Nodes /\ prev # old
    OBVIOUS
  <2>1. prev = p[j - 1] /\ j - 1 \in 1 .. n
    BY <1>1 DEF Before
  <2> HIDE DEF prev, p
  <2>2. QED
    BY <1>1, <2>1
<1>5. old \in Nodes /\ old # Null /\ old \in ToSet(p)
  BY <1>1
<1> HIDE DEF p
<1>6. old = IF prev = Null THEN c.head ELSE c.next[prev]
  BY <1>1, <1>2, <1>3, <1>4
<1>7. d = IF prev = Null
          THEN [c EXCEPT !.head = c.next[old], !.next[old] = Null, !.obj[old] = Null]
          ELSE [c EXCEPT !.next[prev] = c.next[old], !.next[old] = Null, !.obj[old] = Null]
  BY <1>6 DEF Unlinked
<1> HIDE DEF prev, d
<1>8. /\ q \in Seq(Nodes) /\ IsInjective(q) /\ ToSet(q) = ToSet(p) \ {old}
      /\ Len(q) = n - 1
      /\ \A k \in 1 .. n - 1 : q[k] = IF k < j THEN p[k] ELSE p[k + 1]
  BY <1>1, RemoveAtInjective, RemoveAtProperties
<1> HIDE DEF q
<1>9. c.next[old] = IF j = n THEN Null ELSE p[j + 1]
  BY <1>1, <1>2
<1>10. old = p[j]
  OBVIOUS
<1> HIDE DEF old
<1>11. /\ ChainType(d, S)
       /\ d.head = IF j = 1 THEN c.next[old] ELSE c.head
       /\ d.obj = [c.obj EXCEPT ![old] = Null]
       /\ d.next[old] = Null
       /\ j # 1 => d.next[prev] = c.next[old]
       /\ \A node \in Nodes \ {old, prev} : d.next[node] = c.next[node]
  <2>1. c.next[old] \in NodesOrNull
    BY <1>2, <1>5 DEF ChainType
  <2>2. QED
    BY <1>2, <1>3, <1>4, <1>5, <1>7, <2>1 DEF ChainType, NodesOrNull
<1>12. RunsAlong(d, q)
  <2>1. ToSet(q) = Allocated(d)
    BY <1>2, <1>5, <1>8, <1>11 DEF Allocated, ChainType
  <2>2. d.head = IF Len(q) = 0 THEN Null ELSE q[1]
    <3>1. CASE j = 1
      <4>1. n # 1 => 1 \in 1 .. n - 1 /\ q[1] = p[2]
        BY <1>1, <1>8, <3>1
      <4>2. QED
        BY <1>1, <1>8, <1>9, <1>11, <3>1, <4>1
    <3>2. CASE j # 1
      <4>1. 1 \in 1 .. n - 1 /\ 1 < j
        BY <1>1, <3>2
      <4>2. q[1] = p[1]
        BY <1>8, <4>1
      <4>3. QED
        BY <1>1, <1>2, <1>8, <1>11, <3>2, <4>1, <4>2
    <3>3. QED
      BY <3>1, <3>2
  <2>3. ASSUME NEW i \in 1 .. Len(q)
        PROVE  d.next[q[i]] = IF i = Len(q) THEN Null ELSE q[i + 1]
    <3>0. i \in 1 .. n - 1 /\ i \in 1 .. n /\ i + 1 \in 1 .. n /\ (i + 1) + 1 = i + 2
      BY <1>1, <1>8
    <3>1. CASE i + 1 < j
      <4>1. i < j /\ i + 1 \in 1 .. n - 1 /\ i # j - 1 /\ i # n /\ i # n - 1
        BY <1>1, <3>0, <3>1
      <4>2. q[i] = p[i] /\ q[i + 1] = p[i + 1]
        BY <1>8, <3>0, <3>1, <4>1
      <4>3. p[i] \in Nodes \ {old, prev}
        BY <1>1, <1>3, <1>4, <1>10, <3>0, <4>1
      <4>4. QED
        BY <1>2, <1>8, <1>11, <3>0, <4>1, <4>2, <4>3
    <3>2. CASE i + 1 = j
      <4>1. i < j /\ i = j - 1 /\ j # 1
        BY <1>1, <3>0, <3>2
      <4>2. q[i] = prev
        BY <1>4, <1>8, <3>0, <4>1
      <4>3. j # n => j \in 1 .. n - 1 /\ ~(j < j)
        BY <1>1
      <4>4. j # n => q[j] = p[j + 1]
        BY <1>8, <4>3
      <4>5. i = n - 1 <=> j = n
        BY <1>1, <3>0, <3>2
      <4>6. QED
        BY <1>8, <1>9, <1>11, <3>2, <4>1, <4>2, <4>4, <4>5
    <3>3. CASE i + 1 > j
      <4>1. ~(i < j) /\ i + 1 # j /\ i + 1 # j - 1 /\ ~(i + 1 < j)
        BY <1>1, <3>0, <3>3
      <4>2. q[i] = p[i + 1]
        BY <1>8, <3>0, <4>1
      <4>3. i # n - 1 => i + 1 \in 1 .. n - 1
        BY <1>1, <3>0
      <4>4. i # n - 1 => q[i + 1] = p[i + 2]
        BY <1>8, <3>0, <4>1, <4>3
      <4>5. p[i + 1] \in Nodes \ {old, prev}
        BY <1>1, <1>3, <1>4, <1>10, <3>0, <4>1
      <4>6. c.next[p[i + 1]] = IF i + 1 = n THEN Null ELSE p[i + 2]
        BY <1>2, <3>0
      <4>7. i = n - 1 <=> i + 1 = n
        BY <1>1, <3>0
      <4>8. QED
        BY <1>8, <1>11, <4>2, <4>4, <4>5, <4>6, <4>7
    <3>4. QED
      BY <1>1, <3>0, <3>1, <3>2, <3>3
  <2>4. ASSUME NEW node \in Nodes \ ToSet(q)
        PROVE  d.next[node] = Null
    <3>1. CASE node = old
      BY <1>11, <3>1
    <3>2. CASE node # old
      <4>1. node \notin ToSet(p) /\ node # prev
        BY <1>1, <1>3, <1>4, <1>8, <3>2, ListNodesAssumption
      <4>2. QED
        BY <1>2, <1>11, <3>2, <4>1
    <3>3. QED
      BY <3>1, <3>2
  <2>5. QED
    BY <1>8, <2>1, <2>2, <2>3, <2>4 DEF RunsAlong
<1>13. ChainSound(d, S) /\ Chain(d) = q
  BY <1>11, <1>12, SoundChain
<1>14. Held(d) = RemoveAt(Held(c), j)
  <2> DEFINE h == Held(c)
             r == RemoveAt(h, j)
  <2>1. /\ h \in Seq(S) /\ Len(h) = n /\ \A i \in 1 .. n : h[i] = c.obj[p[i]]
    BY ChainFacts DEF p
  <2>2. /\ Held(d) \in Seq(S) /\ Len(Held(d)) = n - 1
        /\ \A i \in 1 .. n - 1 : Held(d)[i] = d.obj[q[i]]
    <3>1. /\ Held(d) \in Seq(S) /\ Len(Held(d)) = Len(Chain(d))
          /\ \A i \in 1 .. Len(Chain(d)) : Held(d)[i] = d.obj[Chain(d)[i]]
      BY <1>13, ChainFacts
    <3>2. Len(Chain(d)) = n - 1 /\ Chain(d) = q
      BY <1>8, <1>13
    <3>3. QED
      BY <3>1, <3>2, Zenon
  <2> HIDE DEF h
  <2>3. /\ r \in Seq(S) /\ Len(r) = n - 1
        /\ \A k \in 1 .. n - 1 : /\ k < j => r[k] = h[k]
                                 /\ ~(k < j) => r[k] = h[k + 1]
    <3>1. h \in Seq(S) /\ j \in 1 .. Len(h)
      BY <1>1, <2>1
    <3>2. /\ r \in Seq(S) /\ Len(r) = Len(h) - 1
          /\ \A k \in 1 .. Len(h) - 1 : /\ k < j => r[k] = h[k]
                                        /\ ~(k < j) => r[k] = h[k + 1]
      BY <3>1, RemoveAtElements, Zenon
    <3>3. QED
      BY <2>1, <3>2, Zenon
  <2> HIDE DEF r
  <2>4. ASSUME NEW k \in 1 .. n - 1
        PROVE  Held(d)[k] = r[k]
    <3>1. c.obj \in [Nodes -> S \cup {Null}] /\ d.obj = [c.obj EXCEPT ![old] = Null]
      BY <1>2, <1>11 DEF ChainType
    <3>2. k \in 1 .. n /\ k + 1 \in 1 .. n
      BY <1>1
    <3>3. k < j => k # j
      BY <1>1
    <3>4. ~(k < j) => k + 1 # j
      BY <1>1
    <3>5. q[k] # old /\ q[k] \in Nodes
      BY <1>1, <1>8, <1>10, <3>2, <3>3, <3>4
    <3>6. d.obj[q[k]] = c.obj[q[k]]
      BY <3>1, <3>5
    <3>7. QED
      <4>1. Held(d)[k] = c.obj[q[k]]
        BY <2>2, <3>6
      <4>2. r[k] = IF k < j THEN c.obj[p[k]] ELSE c.obj[p[k + 1]]
        BY <2>1, <2>3, <3>2
      <4>3. q[k] = IF k < j THEN p[k] ELSE p[k + 1]
        BY <1>8
      <4>4. QED
        BY <4>1, <4>2, <4>3
  <2>5. QED
    BY <2>2, <2>3, <2>4, SeqEqual DEF h, r
<1>15. QED
  BY <1>11, <1>13, <1>14 DEF d, prev, p, q, old

-----------------------------------------------------------------------------
(***************************************************************************)
(* Which nodes the operations of a List find: each is Linked or Unlinked   *)
(* at one place, or nothing.                                               *)
(***************************************************************************)
LEMMA NodeAtPlace ==
  ASSUME NEW c, NEW S, ChainSound(c, S), NEW idx \in Int
  PROVE  LET at == PlaceOf(Len(Chain(c)), idx)
         IN  /\ at \in Nat
             /\ NodeAt(c, idx) = IF at < Len(Chain(c)) THEN Chain(c)[at + 1] ELSE Null
<1> DEFINE n == Len(Chain(c))
<1>1. n \in Nat
  BY ChainFacts
<1>2. PlaceOf(n, idx) \in Nat
  BY <1>1 DEF PlaceOf
<1>3. IF PlaceOf(n, idx) < n
      THEN FixIndex(n, idx) = PlaceOf(n, idx) /\ FixIndex(n, idx) \in 0 .. n - 1
      ELSE FixIndex(n, idx) \notin 0 .. n - 1
  BY <1>1 DEF PlaceOf, FixIndex
<1> HIDE DEF n
<1>4. NodeAt(c, idx) = IF FixIndex(n, idx) \in 0 .. n - 1 THEN Chain(c)[FixIndex(n, idx) + 1]
                       ELSE Null
  BY DEF NodeAt, n
<1>5. QED
  BY <1>2, <1>3, <1>4 DEF n

LEMMA InsertPlace ==
  ASSUME NEW c, NEW S, ChainSound(c, S), NEW idx \in Int, NEW o
  PROVE  LET n == Len(Chain(c))
             at == PlaceOf(n, idx)
         IN  ListInsertAt(c, idx, o) =
               IF at <= n /\ (n # 0 \/ idx \in {0, -1}) THEN Linked(c, Before(c, at), o) ELSE c
<1> DEFINE n == Len(Chain(c))
           at == PlaceOf(n, idx)
           i == FixIndex(n, idx)
           prev == NodeAt(c, idx - 1)
<1>1. /\ n \in Nat /\ (c.head = Null <=> n = 0)
      /\ \A k \in 1 .. n : Chain(c)[k] # Null
  BY ChainFacts
<1>2. /\ PlaceOf(n, idx - 1) \in Nat
      /\ prev = IF PlaceOf(n, idx - 1) < n THEN Chain(c)[PlaceOf(n, idx - 1) + 1] ELSE Null
  <2>1. idx - 1 \in Int
    OBVIOUS
  <2>2. QED
    BY <2>1, NodeAtPlace
<1>3. ListInsertAt(c, idx, o) =
        IF i = 0 \/ (c.head = Null /\ idx \in {0, -1}) THEN Linked(c, Null, o)
        ELSE IF i > 0 /\ prev # Null THEN Linked(c, prev, o)
        ELSE c
  BY DEF ListInsertAt
<1> HIDE DEF n, prev
<1>4. CASE i = 0 \/ (n = 0 /\ idx \in {0, -1})
  <2>1. at = 0 /\ at <= n /\ (n # 0 \/ idx \in {0, -1})
    BY <1>1, <1>4 DEF PlaceOf, FixIndex
  <2>2. Before(c, at) = Null
    BY <2>1 DEF Before
  <2>3. QED
    BY <1>1, <1>3, <1>4, <2>1, <2>2 DEF n
<1>5. CASE ~(i = 0 \/ (n = 0 /\ idx \in {0, -1})) /\ i > 0
  <2>1. n # 0 /\ at # 0 /\ at \in Nat /\ PlaceOf(n, idx - 1) = at - 1
    BY <1>1, <1>5 DEF PlaceOf, FixIndex
  <2>2. at - 1 < n <=> at <= n
    BY <1>1, <2>1
  <2>3. (at - 1) + 1 = at
    BY <2>1
  <2> HIDE DEF at, i
  <2>4. prev = IF at <= n THEN Chain(c)[at] ELSE Null
    BY <1>2, <2>1, <2>2, <2>3
  <2>5. Before(c, at) = Chain(c)[at]
    BY <2>1 DEF Before
  <2>6. at <= n => at \in 1 .. n /\ Chain(c)[at] # Null
    BY <1>1, <2>1
  <2>7. QED
    BY <1>1, <1>3, <1>5, <2>1, <2>4, <2>5, <2>6 DEF at, i, n
<1>6. CASE ~(i = 0 \/ (n = 0 /\ idx \in {0, -1})) /\ ~(i > 0)
  <2>1. n = 0 /\ idx \notin {0, -1}
    BY <1>1, <1>6 DEF FixIndex
  <2>2. QED
    BY <1>1, <1>3, <1>6, <2>1 DEF n
<1>7. QED
  BY <1>4, <1>5, <1>6

LEMMA InsertAfterPlace ==
  ASSUME NEW c, NEW S, ChainSound(c, S), NEW idx \in Int, NEW o
  PROVE  LET n == Len(Chain(c))
             at == PlaceOf(n, idx)
         IN  ListInsertAfter(c, idx, o) =
               IF at < n THEN Linked(c, Before(c, at + 1), o) ELSE c
<1> DEFINE n == Len(Chain(c))
           at == PlaceOf(n, idx)
<1>1. n \in Nat /\ \A k \in 1 .. n : Chain(c)[k] # Null
  BY ChainFacts
<1>2. at \in Nat /\ NodeAt(c, idx) = IF at < n THEN Chain(c)[at + 1] ELSE Null
  BY NodeAtPlace
<1> HIDE DEF n, at
<1>3. at < n => at + 1 \in 1 .. n /\ at + 1 # 0
  BY <1>1, <1>2
<1>4. at < n => NodeAt(c, idx) = Before(c, at + 1) /\ NodeAt(c, idx) # Null
  BY <1>1, <1>2, <1>3 DEF Before
<1>5. QED
  BY <1>2, <1>4 DEF ListInsertAfter, n, at

LEMMA AppendPlace ==
  ASSUME NEW c, NEW S, ChainSound(c, S), NEW o
  PROVE  ListAppend(c, o) = Linked(c, Before(c, Len(Chain(c))), o)
BY ChainFacts DEF ListAppend, Before, Last

LEMMA RemovePlace ==
  ASSUME NEW c, NEW S, ChainSound(c, S), NEW idx \in Int
  PROVE  LET n == Len(Chain(c))
             at == PlaceOf(n, idx)
         IN  ListRemoveAt(c, idx) = IF at < n THEN Unlinked(c, Before(c, at)) ELSE c
<1> DEFINE n == Len(Chain(c))
           at == PlaceOf(n, idx)
           i == FixIndex(n, idx)
           prev == NodeAt(c, idx - 1)
<1>1. /\ n \in Nat
      /\ \A k \in 1 .. n : Chain(c)[k] # Null
      /\ \A k \in 1 .. n : c.next[Chain(c)[k]] = IF k = n THEN Null ELSE Chain(c)[k + 1]
  BY ChainFacts DEF ChainSound, RunsAlong
<1>2. /\ PlaceOf(n, idx - 1) \in Nat
      /\ prev = IF PlaceOf(n, idx - 1) < n THEN Chain(c)[PlaceOf(n, idx - 1) + 1] ELSE Null
  <2>1. idx - 1 \in Int
    OBVIOUS
  <2>2. QED
    BY <2>1, NodeAtPlace
<1>3. ListRemoveAt(c, idx) =
        IF i = 0 THEN Unlinked(c, Null)
        ELSE IF i > 0 /\ prev # Null /\ c.next[prev] # Null THEN Unlinked(c, prev)
        ELSE c
  BY DEF ListRemoveAt
<1> HIDE DEF n, prev
<1>4. CASE i = 0
  <2>1. at = 0 /\ at < n
    BY <1>1, <1>4 DEF PlaceOf, FixIndex
  <2>2. Before(c, at) = Null
    BY <2>1 DEF Before
  <2>3. QED
    BY <1>3, <1>4, <2>1, <2>2 DEF n
<1>5. CASE i > 0
  <2>1. n # 0 /\ at # 0 /\ at \in Nat /\ PlaceOf(n, idx - 1) = at - 1
    BY <1>1, <1>5 DEF PlaceOf, FixIndex
  <2>2. (at - 1 < n <=> at <= n) /\ (at - 1) + 1 = at
    BY <1>1, <2>1
  <2>a. i # 0
    BY <1>5
  <2> HIDE DEF at, i
  <2>4. prev = IF at <= n THEN Chain(c)[at] ELSE Null
    BY <1>2, <2>1, <2>2
  <2>5. Before(c, at) = Chain(c)[at]
    BY <2>1 DEF Before
  <2>6. at <= n => /\ at \in 1 .. n /\ Chain(c)[at] # Null
                   /\ c.next[Chain(c)[at]] = IF at = n THEN Null ELSE Chain(c)[at + 1]
    BY <1>1, <2>1
  <2>7. at < n => at <= n /\ at # n /\ at + 1 \in 1 .. n /\ Chain(c)[at + 1] # Null
    BY <1>1, <2>1
  <2>8. ~(at < n) => ~(at <= n) \/ at = n
    BY <1>1, <2>1
  <2>9. QED
    BY <1>3, <1>5, <2>a, <2>4, <2>5, <2>6, <2>7, <2>8 DEF at, i, n
<1>6. CASE ~(i = 0) /\ ~(i > 0)
  <2>1. n = 0
    BY <1>1, <1>6 DEF FixIndex
  <2>2. ~(at < n)
    BY <1>1, <2>1 DEF PlaceOf
  <2>3. QED
    BY <1>3, <1>6, <2>2 DEF n
<1>7. QED
  BY <1>4, <1>5, <1>6

\* The first node of a set, if one is there, is taken out.
LEMMA RemoveFirstPlace ==
  ASSUME NEW c, NEW S, ChainSound(c, S), NEW test
  PROVE  \/ /\ \A k \in 1 .. Len(Chain(c)) : Chain(c)[k] \notin test
            /\ RemoveFirstNode(c, test) = c
         \/ \E j \in 1 .. Len(Chain(c)) :
              /\ Chain(c)[j] \in test
              /\ RemoveFirstNode(c, test) = Unlinked(c, Before(c, j - 1))
<1> DEFINE n == Len(Chain(c))
           I == {k \in 1 .. n : Chain(c)[k] \in test}
           at == IF I # {} THEN Min(I) ELSE 0
<1>1. n \in Nat
  BY ChainFacts
<1>2. RemoveFirstNode(c, test) =
        IF at = 0 THEN c ELSE Unlinked(c, IF at = 1 THEN Null ELSE Chain(c)[at - 1])
  BY DEF RemoveFirstNode, SelectInSeq
<1>3. CASE I = {}
  BY <1>2, <1>3
<1>4. CASE I # {}
  <2>1. I \in SUBSET Nat
    BY <1>1
  <2>2. PICK j \in I : at = j
    BY <1>4, <2>1, MinOfNats
  <2>3. j \in 1 .. n /\ j # 0 /\ j \in Nat /\ (j = 1 <=> j - 1 = 0) /\ Chain(c)[j] \in test
    BY <1>1
  <2> HIDE DEF at
  <2>4. RemoveFirstNode(c, test) = Unlinked(c, Before(c, j - 1))
    BY <1>2, <2>2, <2>3 DEF Before
  <2>5. QED
    BY <2>3, <2>4
<1>5. QED
  BY <1>3, <1>4

\* What is sorted in comes behind all that are not greater, up to the first
\* that is.
LEMMA SortedPlace ==
  ASSUME NEW c, NEW S, ChainSound(c, S), NEW o
  PROVE  \E j \in 0 .. Len(Chain(c)) :
           /\ ListSortedIn(c, o) = Linked(c, Before(c, j), o)
           /\ \A k \in 1 .. j : ~(Rank[c.obj[Chain(c)[k]]] > Rank[o])
           /\ j # Len(Chain(c)) => Rank[c.obj[Chain(c)[j + 1]]] > Rank[o]
<1> DEFINE p == Chain(c)
           n == Len(p)
           I == {k \in 1 .. n : Rank[c.obj[p[k]]] > Rank[o]}
           at == IF I # {} THEN Min(I) ELSE 0
<1>1. n \in Nat /\ (p = << >> <=> n = 0)
  BY ChainFacts
<1>2. ListSortedIn(c, o) =
        Linked(c, IF at = 1 \/ p = << >> THEN Null ELSE IF at = 0 THEN Last(p) ELSE p[at - 1], o)
  BY DEF ListSortedIn, SelectInSeq
<1>3. CASE I = {}
  <2>1. ListSortedIn(c, o) = Linked(c, Before(c, n), o)
    <3>1. at = 0
      BY <1>3
    <3> HIDE DEF at
    <3>2. QED
      BY <1>1, <1>2, <3>1 DEF Before, Last
  <2>2. n \in 0 .. n
    BY <1>1
  <2>3. QED
    BY <1>3, <2>1, <2>2
<1>4. CASE I # {}
  <2>1. I \in SUBSET Nat
    BY <1>1
  <2>2. PICK j \in I : at = j /\ \A k \in I : j <= k
    BY <1>4, <2>1, MinOfNats
  <2>3. /\ j \in 1 .. n /\ j \in Nat /\ j # 0 /\ (j = 1 <=> j - 1 = 0) /\ n # 0
        /\ j - 1 \in 0 .. n /\ (j - 1) + 1 = j
        /\ Rank[c.obj[p[j]]] > Rank[o]
    BY <1>1
  <2>4. \A k \in 1 .. j - 1 : k \in 1 .. n /\ ~(j <= k)
    BY <1>1, <2>3
  <2>5. \A k \in 1 .. j - 1 : k \notin I
    BY <2>2, <2>4
  <2> HIDE DEF at
  <2>6. ListSortedIn(c, o) = Linked(c, Before(c, j - 1), o)
    BY <1>1, <1>2, <2>2, <2>3 DEF Before
  <2>7. \A k \in 1 .. j - 1 : ~(Rank[c.obj[p[k]]] > Rank[o])
    BY <2>4, <2>5
  <2>8. QED
    BY <2>3, <2>6, <2>7
<1>5. QED
  BY <1>3, <1>4

-----------------------------------------------------------------------------
(***************************************************************************)
(* Sorting and copying.                                                    *)
(***************************************************************************)
LEMMA CountOfSeq ==
  ASSUME NEW S, NEW s \in Seq(S), IsInjective(s)
  PROVE  IsFiniteSet(ToSet(s)) /\ Cardinality(ToSet(s)) = Len(s)
<1>1. Len(s) \in Nat /\ DOMAIN s = 1 .. Len(s) /\ s \in [1 .. Len(s) -> S]
  BY LenProperties
<1>2. s \in Bijection(1 .. Len(s), ToSet(s))
  BY <1>1 DEF Bijection, Injection, Surjection, IsInjective, ToSet
<1>3. ExistsBijection(1 .. Len(s), ToSet(s))
  BY <1>2 DEF ExistsBijection
<1>4. QED
  BY <1>1, <1>3, FS_NatBijection, FS_CountingElements

\* A sequence of all members of a set of nodes, each once.
LEMMA SeqOfSet ==
  ASSUME NEW T \in SUBSET Nodes, IsFiniteSet(T), NEW s \in SetToSeqs(T)
  PROVE  s \in Seq(Nodes) /\ Len(s) = Cardinality(T) /\ IsInjective(s) /\ ToSet(s) = T
<1> DEFINE n == Cardinality(T)
<1>1. n \in Nat
  BY FS_CardinalityType
<1>2. s \in [1 .. n -> T] /\ \A i, j \in 1 .. n : i # j => s[i] # s[j]
  BY DEF SetToSeqs
<1> HIDE DEF n
<1>3. s \in Seq(Nodes) /\ Len(s) = n
  BY <1>1, <1>2
<1>4. IsInjective(s)
  BY <1>2 DEF IsInjective
<1>5. IsFiniteSet(1 .. n) /\ Cardinality(1 .. n) = n
  BY <1>1, FS_Interval
<1>6. s \in Surjection(1 .. n, T)
  <2>1. s \in Injection(1 .. n, T)
    BY <1>2, <1>4 DEF Injection
  <2>2. QED
    BY <1>5, <2>1, FS_Injection DEF n
<1>7. ToSet(s) = T
  BY <1>2, <1>6 DEF Surjection, ToSet
<1>8. QED
  BY <1>3, <1>4, <1>7 DEF n

\* list_sort: the nodes are linked again in another order.
LEMMA SortsSound ==
  ASSUME NEW c, NEW S, ChainSound(c, S), NEW d \in ListSorts(c)
  PROVE  ChainSound(d, S) /\ d.obj = c.obj
<1>1. CASE c.head = Null
  BY <1>1 DEF ListSorts
<1>2. CASE c.head # Null
  <2> DEFINE T == ToSet(Chain(c))
             linked(s) == [node \in Nodes |->
                             LET at == SelectInSeq(s, LAMBDA other : other = node)
                             IN  IF at \in 1 .. Len(s) - 1 THEN s[at + 1] ELSE Null]
  <2>1. PICK s \in SetToSeqs(T) : d = [c EXCEPT !.head = Head(s), !.next = linked(s)]
    BY <1>2 DEF ListSorts
  <2>2. /\ T \in SUBSET Nodes /\ IsFiniteSet(T) /\ Cardinality(T) = Len(Chain(c))
        /\ Len(Chain(c)) \in Nat /\ Len(Chain(c)) # 0
    <3>1. Chain(c) \in Seq(Nodes) /\ IsInjective(Chain(c)) /\ Len(Chain(c)) # 0
      BY <1>2, ChainFacts DEF ChainSound, RunsAlong
    <3>2. T \in SUBSET Nodes
      BY ChainFacts DEF ToSet
    <3>3. QED
      BY <3>1, <3>2, ChainFacts, CountOfSeq
  <2>3. /\ s \in Seq(Nodes) /\ Len(s) = Len(Chain(c)) /\ IsInjective(s) /\ ToSet(s) = T
    BY <2>2, SeqOfSet
  <2>4. /\ Len(s) \in Nat /\ Len(s) # 0 /\ \A i, j \in 1 .. Len(s) : s[i] = s[j] => i = j
        /\ \A i \in 1 .. Len(s) : s[i] \in Nodes
    BY <2>2, <2>3, InjectiveSeq, ElementOfSeq
  <2>5. ASSUME NEW node \in Nodes
        PROVE  LET I == {i \in 1 .. Len(s) : s[i] = node}
                   at == IF I # {} THEN Min(I) ELSE 0
               IN  linked(s)[node] = IF at \in 1 .. Len(s) - 1 THEN s[at + 1] ELSE Null
    BY DEF SelectInSeq
  <2>6. ASSUME NEW i \in 1 .. Len(s)
        PROVE  linked(s)[s[i]] = IF i = Len(s) THEN Null ELSE s[i + 1]
    <3> DEFINE I == {k \in 1 .. Len(s) : s[k] = s[i]}
    <3>1. i \in I /\ I \in SUBSET Nat /\ \A k \in I : k = i
      BY <2>4
    <3>2. Min(I) = i
      BY <3>1, MinOfNats
    <3>3. linked(s)[s[i]] = IF i \in 1 .. Len(s) - 1 THEN s[i + 1] ELSE Null
      <4>1. s[i] \in Nodes /\ I # {}
        BY <2>4, <3>1
      <4>2. LET at == IF I # {} THEN Min(I) ELSE 0
            IN  linked(s)[s[i]] = IF at \in 1 .. Len(s) - 1 THEN s[at + 1] ELSE Null
        BY <2>5, <4>1
      <4> HIDE DEF I, linked
      <4>3. QED
        BY <3>2, <4>1, <4>2
    <3>4. i \in 1 .. Len(s) - 1 <=> i # Len(s)
      BY <2>4
    <3>5. QED
      BY <3>3, <3>4
  <2>7. ASSUME NEW node \in Nodes \ ToSet(s)
        PROVE  linked(s)[node] = Null
    <3>1. {k \in 1 .. Len(s) : s[k] = node} = {}
      BY <2>3, ToSetMember
    <3>2. 0 \notin 1 .. Len(s) - 1
      OBVIOUS
    <3>3. QED
      BY <2>5, <3>1, <3>2
  <2>8. linked(s) \in [Nodes -> NodesOrNull]
    <3>1. ASSUME NEW node \in Nodes
          PROVE  linked(s)[node] \in NodesOrNull
      <4>1. CASE node \in ToSet(s)
        <5>1. PICK i \in 1 .. Len(s) : s[i] = node
          BY <2>3, <4>1, ToSetMember
        <5>2. i # Len(s) => i + 1 \in 1 .. Len(s)
          BY <2>4
        <5> HIDE DEF linked
        <5>3. QED
          BY <2>4, <2>6, <5>1, <5>2 DEF NodesOrNull
      <4>2. QED
        BY <2>7, <4>1 DEF NodesOrNull
    <3>2. linked(s) = [node \in Nodes |-> linked(s)[node]]
      OBVIOUS
    <3> HIDE DEF linked
    <3>3. QED
      BY <3>1, <3>2
  <2> HIDE DEF linked
  <2>9. Head(s) = s[1] /\ s[1] \in Nodes
    BY <2>3, <2>4
  <2>10. /\ ChainType(d, S) /\ d.obj = c.obj /\ d.head = s[1] /\ d.next = linked(s)
    BY <2>1, <2>8, <2>9 DEF ChainSound, ChainType, NodesOrNull
  <2>11. RunsAlong(d, s)
    <3>1. ToSet(s) = Allocated(d)
      BY <2>3, <2>10 DEF ChainSound, RunsAlong, Allocated
    <3>2. QED
      BY <2>3, <2>4, <2>6, <2>7, <2>10, <3>1 DEF RunsAlong
  <2>12. QED
    BY <2>10, <2>11, SoundChain
<1>3. QED
  BY <1>1, <1>2

LEMMA EmptySound ==
  ASSUME NEW S
  PROVE  /\ ChainSound(EmptyChain, S) /\ Chain(EmptyChain) = << >> /\ Held(EmptyChain) = << >>
         /\ Allocated(EmptyChain) = {}
<1>1. ChainType(EmptyChain, S)
  BY DEF ChainType, EmptyChain, NodesOrNull
<1>2. Allocated(EmptyChain) = {}
  BY DEF EmptyChain, Allocated
<1>3. RunsAlong(EmptyChain, << >>)
  <2>1. << >> \in Seq(Nodes) /\ Len(<< >>) = 0 /\ ToSet(<< >>) = {} /\ IsInjective(<< >>)
    BY EmptySeq DEF ToSet, IsInjective
  <2>2. EmptyChain.head = Null /\ \A node \in Nodes : EmptyChain.next[node] = Null
    BY DEF EmptyChain
  <2>3. 1 .. Len(<< >>) = {}
    BY <2>1
  <2>4. QED
    BY <1>2, <2>1, <2>2, <2>3 DEF RunsAlong
<1>4. ChainSound(EmptyChain, S) /\ Chain(EmptyChain) = << >>
  BY <1>1, <1>3, SoundChain
<1>5. Held(EmptyChain) = << >>
  BY <1>4, ChainFacts
<1>6. QED
  BY <1>2, <1>4, <1>5

\* Appending one by one: the lists that are made on the way.
MadeOf(objs, f) ==
  f = [k \in 0 .. Len(objs) |->
         IF k = 0 THEN EmptyChain ELSE ListAppend(f[k - 1], objs[k])]

LEMMA ListOfMade ==
  ASSUME NEW S, NEW objs \in Seq(S)
  PROVE  \E f : MadeOf(objs, f) /\ ListOf(objs) = f[Len(objs)]
<1> DEFINE Step(g, n) == g = [k \in 0 .. n |->
                                IF k = 0 THEN EmptyChain ELSE ListAppend(g[k - 1], objs[k])]
           Bad == {n \in Nat : ~\E g : Step(g, n)}
<1>1. Len(objs) \in Nat
  BY LenProperties
<1>2. Step([k \in 0 .. 0 |-> EmptyChain], 0)
  OBVIOUS
<1>3. ASSUME NEW n \in Nat, n # 0, NEW g, Step(g, n - 1)
      PROVE  \E h : Step(h, n)
  <2> DEFINE h == [k \in 0 .. n |-> IF k = n THEN ListAppend(g[n - 1], objs[n]) ELSE g[k]]
  <2>1. ASSUME NEW k \in 0 .. n
        PROVE  h[k] = IF k = 0 THEN EmptyChain ELSE ListAppend(h[k - 1], objs[k])
    <3>1. CASE k = n
      <4>1. h[k] = ListAppend(g[n - 1], objs[n])
        BY <3>1
      <4>2. n - 1 \in 0 .. n /\ n - 1 # n
        BY <1>3
      <4>3. h[n - 1] = g[n - 1]
        BY <4>2
      <4> HIDE DEF h
      <4>4. QED
        BY <1>3, <3>1, <4>1, <4>3
    <3>2. CASE k # n
      <4>1. k \in 0 .. n - 1
        BY <1>3, <3>2
      <4>2. h[k] = g[k]
        BY <3>2
      <4>3. g[k] = IF k = 0 THEN EmptyChain ELSE ListAppend(g[k - 1], objs[k])
        BY <1>3, <4>1
      <4>4. k # 0 => k - 1 \in 0 .. n /\ k - 1 # n
        BY <3>2, <4>1
      <4>5. k # 0 => h[k - 1] = g[k - 1]
        BY <4>4
      <4> HIDE DEF h
      <4>6. QED
        BY <4>2, <4>3, <4>5
    <3>3. QED
      BY <3>1, <3>2
  <2>2. h = [k \in 0 .. n |-> h[k]]
    OBVIOUS
  <2> HIDE DEF h
  <2>3. Step(h, n)
    BY <2>1, <2>2
  <2> HIDE DEF Step
  <2>4. QED
    BY <2>3
<1> HIDE DEF Step
<1>4. Bad = {}
  <2> SUFFICES ASSUME Bad # {} PROVE FALSE
    OBVIOUS
  <2>1. PICK n \in Bad : \A m \in Bad : n <= m
    <3>1. Bad \in SUBSET Nat
      OBVIOUS
    <3>2. QED
      BY <3>1, MinOfNats
  <2>2. n # 0
    BY <1>2
  <2>3. n - 1 \in Nat /\ ~(n <= n - 1)
    BY <2>2
  <2>4. n - 1 \notin Bad
    BY <2>1, <2>3
  <2>5. \E g : Step(g, n - 1)
    BY <2>3, <2>4
  <2>6. QED
    BY <1>3, <2>2, <2>5
<1>5. \E g : Step(g, Len(objs))
  BY <1>1, <1>4
<1>6. Step(CHOOSE g : Step(g, Len(objs)), Len(objs))
  BY <1>5, Zenon
<1>7. ListOf(objs) = (CHOOSE g : Step(g, Len(objs)))[Len(objs)]
  BY DEF ListOf, Step
<1>8. \A g : Step(g, Len(objs)) <=> MadeOf(objs, g)
  BY DEF Step, MadeOf
<1>9. QED
  BY <1>6, <1>7, <1>8

\* There is memory for as many nodes.
HasRoom(n) == \E T \in SUBSET Nodes : IsFiniteSet(T) /\ Cardinality(T) >= n

LEMMA RoomForOneMore ==
  ASSUME NEW n \in Nat, HasRoom(n), NEW c, NEW S, ChainSound(c, S), Len(Chain(c)) < n
  PROVE  Allocated(c) # Nodes
<1> SUFFICES ASSUME Allocated(c) = Nodes PROVE FALSE
  OBVIOUS
<1>1. PICK T \in SUBSET Nodes : IsFiniteSet(T) /\ Cardinality(T) >= n
  BY DEF HasRoom
<1>2. /\ Chain(c) \in Seq(Nodes) /\ IsInjective(Chain(c)) /\ ToSet(Chain(c)) = Nodes
      /\ Len(Chain(c)) \in Nat
  BY ChainFacts DEF ChainSound, RunsAlong
<1>3. IsFiniteSet(Nodes) /\ Cardinality(Nodes) = Len(Chain(c))
  BY <1>2, CountOfSeq
<1>4. Cardinality(T) <= Cardinality(Nodes) /\ Cardinality(T) \in Nat
  BY <1>1, <1>3, FS_Subset, FS_CardinalityType
<1>5. QED
  BY <1>1, <1>2, <1>3, <1>4

\* Each of them holds the objects up to there.
LEMMA MadeSound ==
  ASSUME NEW S, Null \notin S, NEW objs \in Seq(S), HasRoom(Len(objs)),
         NEW f, MadeOf(objs, f)
  PROVE  \A k \in 0 .. Len(objs) : ChainSound(f[k], S) /\ Held(f[k]) = SubSeq(objs, 1, k)
<1> DEFINE Good(k) == ChainSound(f[k], S) /\ Held(f[k]) = SubSeq(objs, 1, k)
           Bad == {k \in 0 .. Len(objs) : ~Good(k)}
<1>1. Len(objs) \in Nat /\ \A i \in 1 .. Len(objs) : objs[i] \in S
  BY LenProperties, ElementOfSeq
<1>2. \A k \in 0 .. Len(objs) :
        f[k] = IF k = 0 THEN EmptyChain ELSE ListAppend(f[k - 1], objs[k])
  BY DEF MadeOf
<1>3. Good(0)
  <2>1. f[0] = EmptyChain
    BY <1>1, <1>2
  <2>2. SubSeq(objs, 1, 0) = << >>
    BY SubSeqEmpty
  <2>3. QED
    BY <2>1, <2>2, EmptySound
<1>4. ASSUME NEW k \in 1 .. Len(objs), Good(k - 1)
      PROVE  Good(k)
  <2> DEFINE c == f[k - 1]
             s == SubSeq(objs, 1, k - 1)
  <2>1. /\ ChainSound(c, S) /\ Held(c) = s
        /\ f[k] = ListAppend(c, objs[k])
    BY <1>1, <1>2, <1>4
  <2>2. s \in Seq(S) /\ Len(s) = k - 1 /\ \A i \in 1 .. k - 1 : s[i] = objs[i]
    <3>1. \A i \in 1 .. k - 1 : objs[i] \in S
      BY <1>1
    <3>2. 1 \in Int /\ k - 1 \in Int
      BY <1>1
    <3>3. QED
      BY <3>1, <3>2, SubSeqProperties
  <2> HIDE DEF c, s
  <2>3. Len(Chain(c)) = k - 1 /\ Len(Chain(c)) \in Nat
    BY <2>1, <2>2, ChainFacts
  <2>4. Allocated(c) # Nodes
    BY <1>1, <2>1, <2>3, RoomForOneMore
  <2>5. f[k] = Linked(c, Before(c, k - 1), objs[k])
    BY <2>1, <2>3, AppendPlace
  <2>6. /\ ChainSound(f[k], S)
        /\ Held(f[k]) = InsertAt(s, k, objs[k])
    <3>1. k - 1 \in 0 .. Len(Chain(c)) /\ (k - 1) + 1 = k /\ objs[k] \in S
      BY <1>1, <2>3
    <3>2. QED
      BY <2>1, <2>4, <2>5, <3>1, LinkedSound
  <2>7. InsertAt(s, k, objs[k]) = SubSeq(objs, 1, k)
    <3> DEFINE a == InsertAt(s, k, objs[k])
               b == SubSeq(objs, 1, k)
    <3>1. /\ a \in Seq(S) /\ Len(a) = k
          /\ \A i \in 1 .. k : a[i] = IF i < k THEN s[i] ELSE IF i = k THEN objs[k] ELSE s[i - 1]
      <4> DEFINE e == objs[k]
      <4>1. s \in Seq(S) /\ k \in 1 .. Len(s) + 1 /\ e \in S
        BY <1>1, <2>2
      <4>2. a = InsertAt(s, k, e)
        OBVIOUS
      <4> HIDE DEF a, e
      <4>a. InsertAt(s, k, e)[k] = e
        BY <4>1, InsertAtItself, Zenon
      <4>3. /\ InsertAt(s, k, e) \in Seq(S)
            /\ Len(InsertAt(s, k, e)) = Len(s) + 1
            /\ \A i \in 1 .. k - 1 : InsertAt(s, k, e)[i] = s[i]
            /\ \A i \in k + 1 .. Len(s) + 1 : InsertAt(s, k, e)[i] = s[i - 1]
        <5>b. InsertAt(s, k, e) \in Seq(S)
          BY <4>1, InsertAtElements, SMT
        <5>c. Len(InsertAt(s, k, e)) = Len(s) + 1
          BY <4>1, InsertAtElements, SMT
        <5>d. \A i \in 1 .. k - 1 : InsertAt(s, k, e)[i] = s[i]
          BY <4>1, InsertAtElements, SMT
        <5>e. \A i \in k + 1 .. Len(s) + 1 : InsertAt(s, k, e)[i] = s[i - 1]
          BY <4>1, InsertAtElements, SMT
        <5>f. QED
          BY <5>b, <5>c, <5>d, <5>e, Zenon
      <4>4. /\ a \in Seq(S) /\ Len(a) = Len(s) + 1 /\ a[k] = e
            /\ \A i \in 1 .. k - 1 : a[i] = s[i]
            /\ \A i \in k + 1 .. Len(s) + 1 : a[i] = s[i - 1]
        BY <4>2, <4>3, <4>a, Zenon
      <4>5. k \in Int /\ Len(s) \in Nat /\ Len(s) + 1 = k
        BY <1>1, <2>2
      <4>6. /\ a \in Seq(S) /\ Len(a) = k
            /\ \A i \in 1 .. k : a[i] = IF i < k THEN s[i] ELSE IF i = k THEN e ELSE s[i - 1]
        BY ONLY <4>1, <4>4, <4>5
      <4>7. QED
        BY <4>6 DEF e
    <3>2. b \in Seq(S) /\ Len(b) = k /\ \A i \in 1 .. k : b[i] = objs[i]
      <4>1. \A i \in 1 .. k : objs[i] \in S
        BY <1>1
      <4>2. 1 \in Int /\ k \in Int /\ 1 <= k
        BY <1>1
      <4>3. QED
        BY <4>1, <4>2, SubSeqProperties
    <3> HIDE DEF a, b
    <3>3. \A i \in 1 .. k : a[i] = b[i]
      BY <2>2, <3>1, <3>2
    <3>4. QED
      BY <3>1, <3>2, <3>3, SeqEqual DEF a, b
  <2>8. QED
    BY <2>6, <2>7
<1> HIDE DEF Good
<1>5. Bad = {}
  <2> SUFFICES ASSUME Bad # {} PROVE FALSE
    OBVIOUS
  <2>1. PICK k \in Bad : \A m \in Bad : k <= m
    <3>1. Bad \in SUBSET Nat
      BY <1>1
    <3>2. QED
      BY <3>1, MinOfNats
  <2>2. k # 0 /\ k \in 1 .. Len(objs)
    BY <1>1, <1>3
  <2>3. k - 1 \in 0 .. Len(objs) /\ ~(k <= k - 1)
    BY <1>1, <2>2
  <2>4. Good(k - 1)
    BY <2>1, <2>3
  <2>5. QED
    BY <1>4, <2>2, <2>4
<1>6. QED
  BY <1>5 DEF Good

LEMMA ListOfSound ==
  ASSUME NEW S, Null \notin S, NEW objs \in Seq(S), HasRoom(Len(objs))
  PROVE  ChainSound(ListOf(objs), S) /\ Held(ListOf(objs)) = objs
<1>1. PICK f : MadeOf(objs, f) /\ ListOf(objs) = f[Len(objs)]
  BY ListOfMade
<1>2. Len(objs) \in 0 .. Len(objs)
  BY LenProperties
<1>3. SubSeq(objs, 1, Len(objs)) = objs
  BY SubSeqFull
<1>4. QED
  BY <1>1, <1>2, <1>3, MadeSound

-----------------------------------------------------------------------------
(***************************************************************************)
(* A Map: the entries of S, and no key twice.                              *)
(***************************************************************************)
Entries == [key : Keys, value : Objs \cup {Null}]

OneNodePerKey(c) == \A m, n \in Allocated(c) : c.obj[m].key = c.obj[n].key => m = n

\* The node of a key, if there is one.
LEMMA NodeByKeyFound ==
  ASSUME NEW c, NEW S, ChainSound(c, S), NEW key
  PROVE  \/ /\ NodeByKey(c, key) = Null
            /\ \A node \in Allocated(c) : c.obj[node].key # key
         \/ \E j \in 1 .. Len(Chain(c)) :
              NodeByKey(c, key) = Chain(c)[j] /\ c.obj[Chain(c)[j]].key = key
<1> DEFINE p == Chain(c)
           n == Len(p)
           I == {k \in 1 .. n : c.obj[p[k]].key = key}
           at == IF I # {} THEN Min(I) ELSE 0
<1>1. n \in Nat /\ p \in Seq(Nodes) /\ ToSet(p) = Allocated(c)
  BY ChainFacts DEF ChainSound, RunsAlong
<1>2. NodeByKey(c, key) = IF at = 0 THEN Null ELSE p[at]
  BY DEF NodeByKey, SelectInSeq
<1>3. CASE I = {}
  <2>1. ASSUME NEW node \in Allocated(c) PROVE c.obj[node].key # key
    <3>1. PICK k \in 1 .. n : p[k] = node
      BY <1>1, ToSetMember
    <3>2. QED
      BY <1>3, <3>1
  <2>2. QED
    BY <1>2, <1>3, <2>1
<1>4. CASE I # {}
  <2>1. I \in SUBSET Nat
    BY <1>1
  <2>2. PICK j \in I : at = j
    BY <1>4, <2>1, MinOfNats
  <2>3. j \in 1 .. n /\ j # 0 /\ c.obj[p[j]].key = key
    BY <1>1
  <2> HIDE DEF at
  <2>4. QED
    BY <1>2, <2>2, <2>3
<1>5. QED
  BY <1>3, <1>4

\* map_copy makes the lists that ListOf makes of the entries.
LEMMA MapCopySound ==
  ASSUME Null \notin Entries, NEW c, ChainSound(c, Entries), OneNodePerKey(c)
  PROVE  ChainSound(MapCopy(c), Entries) /\ Held(MapCopy(c)) = Held(c)
<1> DEFINE h == Held(c)
           n == Len(h)
           Copies(g) == g = [k \in 0 .. n |->
                               IF k = 0 THEN EmptyChain
                               ELSE MapSet(g[k - 1], h[k].key, h[k].value)]
<1>1. /\ h \in Seq(Entries) /\ n \in Nat /\ \A i \in 1 .. n : h[i] \in Entries
      /\ n = Len(Chain(c))
  BY ChainFacts, ElementOfSeq
<1>2. HasRoom(n)
  <2>1. Chain(c) \in Seq(Nodes) /\ IsInjective(Chain(c)) /\ ToSet(Chain(c)) \in SUBSET Nodes
    BY ChainFacts DEF ChainSound, RunsAlong, ToSet
  <2>2. IsFiniteSet(ToSet(Chain(c))) /\ Cardinality(ToSet(Chain(c))) >= n
    BY <1>1, <2>1, CountOfSeq
  <2>3. QED
    BY <2>1, <2>2 DEF HasRoom
<1>3. \A i, j \in 1 .. n : h[i].key = h[j].key => i = j
  <2> SUFFICES ASSUME NEW i \in 1 .. n, NEW j \in 1 .. n, h[i].key = h[j].key
               PROVE  i = j
    OBVIOUS
  <2>1. /\ Chain(c)[i] \in Allocated(c) /\ Chain(c)[j] \in Allocated(c)
        /\ h[i] = c.obj[Chain(c)[i]] /\ h[j] = c.obj[Chain(c)[j]]
    <3>1. ToSet(Chain(c)) = Allocated(c)
      BY DEF ChainSound, RunsAlong
    <3>2. i \in 1 .. Len(Chain(c)) /\ j \in 1 .. Len(Chain(c))
      BY <1>1
    <3>3. \A k \in 1 .. Len(Chain(c)) :
            Chain(c)[k] \in ToSet(Chain(c)) /\ h[k] = c.obj[Chain(c)[k]]
      BY ChainFacts
    <3>4. QED
      BY ONLY <3>1, <3>2, <3>3
  <2>2. Chain(c)[i] = Chain(c)[j]
    BY <2>1 DEF OneNodePerKey
  <2>3. QED
    BY <1>1, <2>2, ChainFacts
<1>4. PICK f : MadeOf(h, f) /\ ListOf(h) = f[n]
  BY <1>1, ListOfMade
<1>5. \A k \in 0 .. n : ChainSound(f[k], Entries) /\ Held(f[k]) = SubSeq(h, 1, k)
  BY <1>1, <1>2, <1>4, MadeSound
<1>6. MapCopy(c) = (CHOOSE g : Copies(g))[n]
  BY DEF MapCopy
<1> HIDE DEF h
<1>7. \A k \in 0 .. n : f[k] = IF k = 0 THEN EmptyChain ELSE ListAppend(f[k - 1], h[k])
  BY <1>4 DEF MadeOf
<1>8. ASSUME NEW k \in 1 .. n
      PROVE  MapSet(f[k - 1], h[k].key, h[k].value) = ListAppend(f[k - 1], h[k])
  <2> DEFINE d == f[k - 1]
  <2>1. ChainSound(d, Entries) /\ Held(d) = SubSeq(h, 1, k - 1)
    BY <1>1, <1>5
  <2>2. Len(SubSeq(h, 1, k - 1)) = k - 1 /\ \A i \in 1 .. k - 1 : SubSeq(h, 1, k - 1)[i] = h[i]
    <3>1. 1 \in Int /\ k - 1 \in Int /\ \A i \in 1 .. k - 1 : h[i] \in Entries
      BY <1>1
    <3>2. QED
      BY <1>1, <3>1, SubSeqProperties
  <2> HIDE DEF d
  <2>3. \A i \in 1 .. Len(Chain(d)) : d.obj[Chain(d)[i]].key # h[k].key
    <3> SUFFICES ASSUME NEW i \in 1 .. Len(Chain(d)) PROVE d.obj[Chain(d)[i]].key # h[k].key
      OBVIOUS
    <3>1. i \in 1 .. k - 1 /\ d.obj[Chain(d)[i]] = h[i]
      BY <2>1, <2>2, ChainFacts
    <3>2. i \in 1 .. n /\ i # k
      BY <1>1, <3>1
    <3>3. QED
      BY <1>3, <3>1, <3>2
  <2> DEFINE key == h[k].key
  <2>a. \A i \in 1 .. Len(Chain(d)) : d.obj[Chain(d)[i]].key # key
    BY <2>3
  <2> HIDE DEF key
  <2>b. NodeByKey(d, key) = Null
    BY <2>1, <2>a, NodeByKeyFound
  <2>4. NodeByKey(d, h[k].key) = Null
    BY <2>b DEF key
  <2>5. h[k] = [key |-> h[k].key, value |-> h[k].value]
    BY <1>1 DEF Entries
  <2>6. QED
    BY <2>4, <2>5 DEF MapSet, d
<1>9. Copies(f)
  <2>1. \A k \in 0 .. n : f[k] = IF k = 0 THEN EmptyChain
                                 ELSE MapSet(f[k - 1], h[k].key, h[k].value)
    <3> SUFFICES ASSUME NEW k \in 0 .. n
                 PROVE  f[k] = IF k = 0 THEN EmptyChain
                               ELSE MapSet(f[k - 1], h[k].key, h[k].value)
      OBVIOUS
    <3>1. k # 0 => k \in 1 .. n
      BY <1>1
    <3>2. QED
      BY <1>7, <1>8, <3>1
  <2>2. f = [k \in 0 .. n |-> f[k]]
    BY <1>4 DEF MadeOf
  <2>3. QED
    BY <2>1, <2>2
<1> DEFINE g == CHOOSE e : Copies(e)
<1>10. Copies(g)
  BY <1>9, Zenon
<1> HIDE DEF g
<1>11. \A k \in 0 .. n : g[k] = IF k = 0 THEN EmptyChain
                                ELSE MapSet(g[k - 1], h[k].key, h[k].value)
  BY <1>10
<1> HIDE DEF Copies
<1>12. \A k \in 0 .. n : g[k] = f[k]
  <2> DEFINE Bad == {k \in 0 .. n : g[k] # f[k]}
  <2>1. Bad = {}
    <3> SUFFICES ASSUME Bad # {} PROVE FALSE
      OBVIOUS
    <3>1. PICK k \in Bad : \A m \in Bad : k <= m
      <4>1. Bad \in SUBSET Nat
        BY <1>1
      <4>2. QED
        BY <4>1, MinOfNats
    <3>2. k # 0 /\ k \in 1 .. n
      BY <1>1, <1>7, <1>11
    <3>3. k - 1 \in 0 .. n /\ ~(k <= k - 1)
      BY <1>1, <3>2
    <3>4. g[k - 1] = f[k - 1]
      BY <3>1, <3>3
    <3>5. g[k] = f[k]
      BY <1>7, <1>8, <1>11, <3>2, <3>4
    <3>6. QED
      BY <3>5
  <2>2. QED
    BY <2>1
<1>13. MapCopy(c) = f[n]
  BY <1>1, <1>6, <1>12 DEF g, Copies
<1>14. SubSeq(h, 1, n) = h
  BY <1>1, SubSeqFull
<1>15. QED
  BY <1>1, <1>5, <1>13, <1>14 DEF h

-----------------------------------------------------------------------------
(***************************************************************************)
(* What a container holds: no object is in a List twice, no key in a Map.  *)
(***************************************************************************)
LEMMA NodesAndPlaces ==
  ASSUME NEW c, NEW S, ChainSound(c, S)
  PROVE  /\ \A node \in Allocated(c) : \E i \in 1 .. Len(Chain(c)) : Chain(c)[i] = node
         /\ \A i \in 1 .. Len(Chain(c)) : Chain(c)[i] \in Allocated(c)
         /\ ToSet(Held(c)) = {c.obj[node] : node \in Allocated(c)}
         /\ HasRoom(Len(Held(c)))
<1> DEFINE p == Chain(c)
<1>1. /\ p \in Seq(Nodes) /\ IsInjective(p) /\ ToSet(p) = Allocated(c) /\ Len(p) \in Nat
      /\ Len(Held(c)) = Len(p) /\ DOMAIN Held(c) = 1 .. Len(p)
      /\ \A i \in 1 .. Len(p) : Held(c)[i] = c.obj[p[i]] /\ p[i] \in Allocated(c)
  BY ChainFacts DEF ChainSound, RunsAlong
<1> HIDE DEF p
<1>2. \A node \in Allocated(c) : \E i \in 1 .. Len(p) : p[i] = node
  BY <1>1, ToSetMember
<1>3. ToSet(Held(c)) = {c.obj[node] : node \in Allocated(c)}
  <2>1. ToSet(Held(c)) = {Held(c)[i] : i \in 1 .. Len(p)}
    BY <1>1 DEF ToSet
  <2>2. QED
    BY <1>1, <1>2, <2>1
<1>4. HasRoom(Len(Held(c)))
  <2>1. IsFiniteSet(ToSet(p)) /\ Cardinality(ToSet(p)) = Len(p)
    BY <1>1, CountOfSeq
  <2>2. ToSet(p) \in SUBSET Nodes /\ Cardinality(ToSet(p)) >= Len(Held(c))
    BY <1>1, <2>1 DEF Allocated
  <2>3. QED
    BY <2>1, <2>2 DEF HasRoom
<1>5. QED
  BY <1>1, <1>2, <1>3, <1>4 DEF p

\* A node that holds another thing, in its place.
LEMMA ObjSetSound ==
  ASSUME NEW c, NEW S, Null \notin S, ChainSound(c, S),
         NEW j \in 1 .. Len(Chain(c)), NEW o \in S
  PROVE  LET d == [c EXCEPT !.obj[Chain(c)[j]] = o]
         IN  /\ ChainSound(d, S) /\ Chain(d) = Chain(c) /\ Allocated(d) = Allocated(c)
             /\ Held(d) = [Held(c) EXCEPT ![j] = o]
<1> DEFINE p == Chain(c)
           d == [c EXCEPT !.obj[p[j]] = o]
<1>1. /\ p \in Seq(Nodes) /\ Len(p) \in Nat /\ ChainType(c, S) /\ RunsAlong(c, p)
      /\ \A i \in 1 .. Len(p) : p[i] \in Nodes
      /\ \A i, k \in 1 .. Len(p) : p[i] = p[k] => i = k
      /\ p[j] \in Allocated(c) /\ j \in 1 .. Len(p)
  BY ChainFacts, NodesAndPlaces DEF ChainSound
<1> HIDE DEF p
<1>2. /\ ChainType(d, S) /\ d.head = c.head /\ d.next = c.next
      /\ d.obj = [c.obj EXCEPT ![p[j]] = o] /\ c.obj \in [Nodes -> S \cup {Null}]
  BY <1>1 DEF ChainType
<1>3. Allocated(d) = Allocated(c)
  BY <1>1, <1>2 DEF Allocated
<1> HIDE DEF d
<1>4. RunsAlong(d, p)
  BY <1>1, <1>2, <1>3 DEF RunsAlong
<1>5. ChainSound(d, S) /\ Chain(d) = p
  BY <1>2, <1>4, SoundChain
<1>6. Held(d) = [Held(c) EXCEPT ![j] = o]
  <2> DEFINE h == Held(c)
  <2>1. h \in Seq(S) /\ Len(h) = Len(p) /\ \A i \in 1 .. Len(p) : h[i] = c.obj[p[i]]
    BY ChainFacts DEF p
  <2>2. /\ Held(d) \in Seq(S) /\ Len(Held(d)) = Len(p)
        /\ \A i \in 1 .. Len(p) : Held(d)[i] = d.obj[p[i]]
    BY <1>5, ChainFacts
  <2> HIDE DEF h
  <2>3. /\ [h EXCEPT ![j] = o] \in Seq(S) /\ Len([h EXCEPT ![j] = o]) = Len(p)
        /\ \A i \in 1 .. Len(p) : [h EXCEPT ![j] = o][i] = IF i = j THEN o ELSE h[i]
    BY <1>1, <2>1, ExceptSeq
  <2>4. \A i \in 1 .. Len(p) : Held(d)[i] = IF i = j THEN o ELSE h[i]
    BY <1>1, <1>2, <2>1, <2>2
  <2>5. QED
    BY <2>2, <2>3, <2>4, SeqEqual DEF h
<1>7. QED
  BY <1>3, <1>5, <1>6 DEF d, p

ListSound(c) == ChainSound(c, Objs) /\ IsInjective(Held(c))
MapSound(c) == ChainSound(c, Entries) /\ OneNodePerKey(c)

LEMMA NullIsNothing == Null \notin Objs /\ Null \notin Entries /\ Null \notin Keys /\ Null # "none"
BY IterablesAssumption DEF Entries

LEMMA ListSoundInserted ==
  ASSUME NEW c, ListSound(c), Allocated(c) # Nodes,
         NEW o \in Objs \ ToSet(Held(c)), NEW j \in 0 .. Len(Chain(c))
  PROVE  ListSound(Linked(c, Before(c, j), o))
<1>1. /\ ChainSound(Linked(c, Before(c, j), o), Objs)
      /\ Held(Linked(c, Before(c, j), o)) = InsertAt(Held(c), j + 1, o)
  BY LinkedSound, NullIsNothing DEF ListSound
<1>2. /\ Held(c) \in Seq(Objs) /\ IsInjective(Held(c)) /\ o \in Objs /\ o \notin ToSet(Held(c))
      /\ j + 1 \in 1 .. Len(Held(c)) + 1
  BY ChainFacts DEF ListSound
<1>3. QED
  BY <1>1, <1>2, InsertAtInjective DEF ListSound

LEMMA ListSoundRemoved ==
  ASSUME NEW c, ListSound(c), NEW j \in 1 .. Len(Chain(c))
  PROVE  ListSound(Unlinked(c, Before(c, j - 1)))
<1>1. /\ ChainSound(Unlinked(c, Before(c, j - 1)), Objs)
      /\ Held(Unlinked(c, Before(c, j - 1))) = RemoveAt(Held(c), j)
  BY UnlinkedSound, NullIsNothing DEF ListSound
<1>2. Held(c) \in Seq(Objs) /\ IsInjective(Held(c)) /\ j \in 1 .. Len(Held(c))
  BY ChainFacts DEF ListSound
<1>3. QED
  BY <1>1, <1>2, RemoveAtInjective DEF ListSound

LEMMA ListSoundSet ==
  ASSUME NEW c, ListSound(c), NEW idx \in Int, NEW o \in Objs \ ToSet(Held(c))
  PROVE  ListSound(ListSetAt(c, idx, o))
<1> DEFINE n == Len(Chain(c))
           at == PlaceOf(n, idx)
<1>1. at \in Nat /\ NodeAt(c, idx) = IF at < n THEN Chain(c)[at + 1] ELSE Null
  BY NodeAtPlace DEF ListSound
<1>2. n \in Nat
  BY ChainFacts DEF ListSound
<1> HIDE DEF n, at
<1>3. CASE ~(at < n)
  BY <1>1, <1>3 DEF ListSetAt
<1>4. CASE at < n
  <2> DEFINE h == Held(c)
             d == [c EXCEPT !.obj[Chain(c)[at + 1]] = o]
  <2>1. at + 1 \in 1 .. n
    BY <1>1, <1>2, <1>4
  <2>2. NodeAt(c, idx) # Null
    BY <1>1, <1>4, <2>1, ChainFacts DEF ListSound, n
  <2>3. ListSetAt(c, idx, o) = d
    BY <1>1, <1>4, <2>2 DEF ListSetAt
  <2>4. ChainSound(d, Objs) /\ Held(d) = [h EXCEPT ![at + 1] = o]
    BY <2>1, ObjSetSound, NullIsNothing DEF ListSound, n
  <2>5. /\ h \in Seq(Objs) /\ Len(h) = n /\ DOMAIN h = 1 .. n /\ IsInjective(h)
        /\ \A i \in 1 .. n : h[i] # o
    <3>1. h \in Seq(Objs) /\ Len(h) = n /\ DOMAIN h = 1 .. n /\ IsInjective(h)
      BY ChainFacts DEF ListSound, n
    <3>2. QED
      BY <3>1, ToSetMember
  <2> HIDE DEF h, d
  <2>6. IsInjective([h EXCEPT ![at + 1] = o])
    BY <2>1, <2>5 DEF IsInjective
  <2>7. QED
    BY <2>3, <2>4, <2>6 DEF ListSound
<1>5. QED
  BY <1>3, <1>4

LEMMA ListSoundSorted ==
  ASSUME NEW c, ListSound(c), NEW d \in ListSorts(c)
  PROVE  ListSound(d)
<1>1. ChainSound(d, Objs) /\ d.obj = c.obj /\ ChainSound(c, Objs)
  BY SortsSound DEF ListSound
<1>2. Allocated(d) = Allocated(c)
  BY <1>1 DEF Allocated
<1>3. \A m, n \in Allocated(c) : c.obj[m] = c.obj[n] => m = n
  <2> SUFFICES ASSUME NEW m \in Allocated(c), NEW n \in Allocated(c), c.obj[m] = c.obj[n]
               PROVE  m = n
    OBVIOUS
  <2>1. PICK i \in 1 .. Len(Chain(c)) : Chain(c)[i] = m
    BY <1>1, NodesAndPlaces
  <2>2. PICK j \in 1 .. Len(Chain(c)) : Chain(c)[j] = n
    BY <1>1, NodesAndPlaces
  <2>3. Held(c)[i] = Held(c)[j] /\ i \in DOMAIN Held(c) /\ j \in DOMAIN Held(c)
    BY <1>1, <2>1, <2>2, ChainFacts
  <2>4. QED
    BY <2>1, <2>2, <2>3 DEF ListSound, IsInjective
<1>4. ASSUME NEW i \in DOMAIN Held(d), NEW j \in DOMAIN Held(d), Held(d)[i] = Held(d)[j]
      PROVE  i = j
  <2>1. i \in 1 .. Len(Chain(d)) /\ j \in 1 .. Len(Chain(d))
    BY <1>1, ChainFacts
  <2>2. /\ d.obj[Chain(d)[i]] = d.obj[Chain(d)[j]]
        /\ Chain(d)[i] \in Allocated(d) /\ Chain(d)[j] \in Allocated(d)
    BY <1>1, <1>4, <2>1, ChainFacts, NodesAndPlaces
  <2>3. Chain(d)[i] = Chain(d)[j]
    BY <1>1, <1>2, <1>3, <2>2
  <2>4. QED
    BY <1>1, <2>1, <2>3, ChainFacts
<1>5. QED
  BY <1>1, <1>4 DEF ListSound, IsInjective

LEMMA ListSoundCopied ==
  ASSUME NEW c, ListSound(c)
  PROVE  ListSound(ListCopy(c)) /\ Held(ListCopy(c)) = Held(c)
<1>1. Held(c) \in Seq(Objs) /\ HasRoom(Len(Held(c)))
  BY ChainFacts, NodesAndPlaces DEF ListSound
<1>2. QED
  BY <1>1, ListOfSound, NullIsNothing DEF ListSound, ListCopy

LEMMA ListSoundEmpty == ListSound(EmptyChain)
BY EmptySound DEF ListSound, IsInjective

LEMMA MapSoundEmpty == MapSound(EmptyChain)
BY EmptySound DEF MapSound, OneNodePerKey

LEMMA MapSoundRemoved ==
  ASSUME NEW c, MapSound(c), NEW j \in 1 .. Len(Chain(c))
  PROVE  MapSound(Unlinked(c, Before(c, j - 1)))
<1> DEFINE d == Unlinked(c, Before(c, j - 1))
           node == Chain(c)[j]
<1>1. ChainSound(d, Entries) /\ d.obj = [c.obj EXCEPT ![node] = Null]
  BY UnlinkedSound, NullIsNothing DEF MapSound
<1>2. c.obj \in [Nodes -> Entries \cup {Null}]
  BY DEF MapSound, ChainSound, ChainType
<1> HIDE DEF d, node
<1>3. \A n \in Allocated(d) : n \in Allocated(c) /\ d.obj[n] = c.obj[n]
  BY <1>1, <1>2 DEF Allocated
<1>4. OneNodePerKey(d)
  BY <1>3 DEF OneNodePerKey, MapSound
<1>5. QED
  BY <1>1, <1>4 DEF MapSound, d

LEMMA MapSoundAppended ==
  ASSUME NEW c, MapSound(c), Allocated(c) # Nodes, NEW e \in Entries,
         \A node \in Allocated(c) : c.obj[node].key # e.key
  PROVE  MapSound(ListAppend(c, e))
<1> DEFINE d == Linked(c, Before(c, Len(Chain(c))), e)
<1>1. ListAppend(c, e) = d /\ Len(Chain(c)) \in 0 .. Len(Chain(c)) /\ ChainSound(c, Entries)
  BY AppendPlace, ChainFacts DEF MapSound
<1>2. PICK new \in Nodes : d.obj = [c.obj EXCEPT ![new] = e]
  <2>1. \E new \in Nodes \ ToSet(Chain(c)) :
          /\ Chain(d) = InsertAt(Chain(c), Len(Chain(c)) + 1, new)
          /\ d.obj = [c.obj EXCEPT ![new] = e]
    <3>1. \A j \in 0 .. Len(Chain(c)) : \E new \in Nodes \ ToSet(Chain(c)) :
            /\ Chain(Linked(c, Before(c, j), e)) = InsertAt(Chain(c), j + 1, new)
            /\ Linked(c, Before(c, j), e).obj = [c.obj EXCEPT ![new] = e]
      <4>1. ChainSound(c, Entries) /\ Null \notin Entries /\ Allocated(c) # Nodes /\ e \in Entries
        BY <1>1, NullIsNothing
      <4>2. QED
        BY ONLY <4>1, LinkedSound, SMTT(30)
    <3>2. QED
      BY <1>1, <3>1, Zenon
  <2> HIDE DEF d
  <2>2. QED
    BY <2>1
<1>3. ChainSound(d, Entries)
  BY <1>1, LinkedSound, NullIsNothing
<1>4. c.obj \in [Nodes -> Entries \cup {Null}]
  BY <1>1 DEF ChainSound, ChainType
<1> HIDE DEF d
<1>5. \A n \in Allocated(d) : n = new \/ (n \in Allocated(c) /\ d.obj[n] = c.obj[n])
  <2>1. \A n \in Nodes : n # new => d.obj[n] = c.obj[n]
    BY <1>2, <1>4
  <2>2. QED
    BY <2>1 DEF Allocated
<1>6. d.obj[new] = e
  BY <1>2, <1>4
<1>7. OneNodePerKey(d)
  BY <1>5, <1>6 DEF OneNodePerKey, MapSound
<1>8. QED
  BY <1>1, <1>3, <1>7 DEF MapSound

\* map_set puts an entry behind all others, or another value into the entry of
\* its key.
LEMMA MapSetPlace ==
  ASSUME NEW c, MapSound(c), NEW key \in Keys, NEW value \in Objs \cup {Null}
  PROVE  LET e == [key |-> key, value |-> value]
         IN  \/ /\ \A node \in Allocated(c) : c.obj[node].key # key
                /\ MapSet(c, key, value) = ListAppend(c, e)
             \/ \E j \in 1 .. Len(Chain(c)) :
                  /\ c.obj[Chain(c)[j]].key = key
                  /\ NodeByKey(c, key) = Chain(c)[j]
                  /\ MapSet(c, key, value) = [c EXCEPT !.obj[Chain(c)[j]] = e]
<1> DEFINE e == [key |-> key, value |-> value]
<1>1. CASE /\ NodeByKey(c, key) = Null
           /\ \A node \in Allocated(c) : c.obj[node].key # key
  BY <1>1 DEF MapSet
<1>2. ASSUME NEW j \in 1 .. Len(Chain(c)),
             NodeByKey(c, key) = Chain(c)[j], c.obj[Chain(c)[j]].key = key
      PROVE  MapSet(c, key, value) = [c EXCEPT !.obj[Chain(c)[j]] = e]
  <2>1. Chain(c)[j] \in Nodes /\ Chain(c)[j] # Null /\ c.obj[Chain(c)[j]] \in Entries
    BY ChainFacts DEF MapSound
  <2>2. MapSet(c, key, value) = [c EXCEPT !.obj[Chain(c)[j]].value = value]
    BY <1>2, <2>1 DEF MapSet
  <2>3. [c.obj[Chain(c)[j]] EXCEPT !.value = value] = e
    BY <1>2, <2>1 DEF Entries
  <2>4. QED
    BY <2>2, <2>3
<1>3. ChainSound(c, Entries)
  BY DEF MapSound
<1>4. QED
  BY <1>1, <1>2, <1>3, NodeByKeyFound

LEMMA MapSoundRenewed ==
  ASSUME NEW c, MapSound(c), NEW j \in 1 .. Len(Chain(c)), NEW e \in Entries,
         c.obj[Chain(c)[j]].key = e.key
  PROVE  LET d == [c EXCEPT !.obj[Chain(c)[j]] = e]
         IN  /\ MapSound(d) /\ Chain(d) = Chain(c) /\ Allocated(d) = Allocated(c)
             /\ Held(d) = [Held(c) EXCEPT ![j] = e]
<1> DEFINE node == Chain(c)[j]
           d == [c EXCEPT !.obj[node] = e]
<1>1. ChainSound(c, Entries)
  BY DEF MapSound
<1>2. /\ ChainSound(d, Entries) /\ Chain(d) = Chain(c) /\ Allocated(d) = Allocated(c)
      /\ Held(d) = [Held(c) EXCEPT ![j] = e]
  BY <1>1, ObjSetSound, NullIsNothing
<1>3. c \in [head : NodesOrNull, next : [Nodes -> NodesOrNull], obj : [Nodes -> Entries \cup {Null}]]
  BY <1>1 DEF ChainSound, ChainType
<1> HIDE DEF node
<1>4. d.obj = [c.obj EXCEPT ![node] = e] /\ c.obj \in [Nodes -> Entries \cup {Null}]
  BY <1>3
<1>5. c.obj[node].key = e.key
  BY DEF node
<1> HIDE DEF d
<1>6. \A n \in Nodes : d.obj[n].key = c.obj[n].key
  BY <1>4, <1>5
<1>7. OneNodePerKey(d)
  BY <1>2, <1>6 DEF OneNodePerKey, MapSound, Allocated
<1>8. QED
  BY <1>2, <1>7 DEF MapSound, d, node

LEMMA MapSoundSet ==
  ASSUME NEW c, MapSound(c), Allocated(c) # Nodes,
         NEW key \in Keys, NEW value \in Objs \cup {Null}
  PROVE  MapSound(MapSet(c, key, value))
<1> DEFINE e == [key |-> key, value |-> value]
<1>1. e \in Entries /\ e.key = key
  BY DEF Entries
<1> HIDE DEF e
<1>2. CASE /\ \A node \in Allocated(c) : c.obj[node].key # key
           /\ MapSet(c, key, value) = ListAppend(c, e)
  BY <1>1, <1>2, MapSoundAppended
<1>3. CASE \E j \in 1 .. Len(Chain(c)) :
             /\ c.obj[Chain(c)[j]].key = key
             /\ MapSet(c, key, value) = [c EXCEPT !.obj[Chain(c)[j]] = e]
  <2>1. PICK j \in 1 .. Len(Chain(c)) :
             /\ c.obj[Chain(c)[j]].key = key
             /\ MapSet(c, key, value) = [c EXCEPT !.obj[Chain(c)[j]] = e]
    BY <1>3
  <2>2. MapSound([c EXCEPT !.obj[Chain(c)[j]] = e])
    BY <1>1, <2>1, MapSoundRenewed
  <2>3. QED
    BY <2>1, <2>2
<1>4. QED
  BY <1>2, <1>3, MapSetPlace DEF e

\* map_remove_key takes out the entry of the key, if there is one.
LEMMA MapRemovePlace ==
  ASSUME NEW c, MapSound(c), NEW key
  PROVE  \/ /\ \A node \in Allocated(c) : c.obj[node].key # key
            /\ MapRemoveKey(c, key) = c
         \/ \E j \in 1 .. Len(Chain(c)) :
              /\ c.obj[Chain(c)[j]].key = key
              /\ MapRemoveKey(c, key) = Unlinked(c, Before(c, j - 1))
<1> DEFINE test == {NodeByKey(c, key)}
<1>1. ChainSound(c, Entries)
  BY DEF MapSound
<1>2. MapRemoveKey(c, key) = RemoveFirstNode(c, test)
  BY DEF MapRemoveKey
<1>3. \A i \in 1 .. Len(Chain(c)) : Chain(c)[i] # Null
  BY <1>1, ChainFacts
<1> HIDE DEF test
<1>4. \/ /\ \A k \in 1 .. Len(Chain(c)) : Chain(c)[k] \notin test
         /\ RemoveFirstNode(c, test) = c
      \/ \E j \in 1 .. Len(Chain(c)) :
           /\ Chain(c)[j] \in test
           /\ RemoveFirstNode(c, test) = Unlinked(c, Before(c, j - 1))
  BY <1>1, RemoveFirstPlace
<1>5. CASE /\ NodeByKey(c, key) = Null
           /\ \A node \in Allocated(c) : c.obj[node].key # key
  BY <1>2, <1>3, <1>4, <1>5 DEF test
<1>6. CASE \E j \in 1 .. Len(Chain(c)) :
             NodeByKey(c, key) = Chain(c)[j] /\ c.obj[Chain(c)[j]].key = key
  <2>1. PICK i \in 1 .. Len(Chain(c)) :
             NodeByKey(c, key) = Chain(c)[i] /\ c.obj[Chain(c)[i]].key = key
    BY <1>6
  <2>2. Chain(c)[i] \in test /\ \A j \in 1 .. Len(Chain(c)) : Chain(c)[j] \in test => Chain(c)[j] = Chain(c)[i]
    BY <2>1 DEF test
  <2>3. QED
    BY <1>2, <1>4, <2>1, <2>2
<1>7. QED
  BY <1>1, <1>5, <1>6, NodeByKeyFound

LEMMA MapSoundKeyRemoved ==
  ASSUME NEW c, MapSound(c), NEW key
  PROVE  MapSound(MapRemoveKey(c, key))
BY MapRemovePlace, MapSoundRemoved

LEMMA MapSoundCopied ==
  ASSUME NEW c, MapSound(c)
  PROVE  MapSound(MapCopy(c)) /\ Held(MapCopy(c)) = Held(c)
<1> DEFINE d == MapCopy(c)
<1>1. ChainSound(c, Entries) /\ ChainSound(d, Entries) /\ Held(d) = Held(c)
  BY MapCopySound, NullIsNothing DEF MapSound
<1> HIDE DEF d
<1>2. ASSUME NEW m \in Allocated(d), NEW n \in Allocated(d), d.obj[m].key = d.obj[n].key
      PROVE  m = n
  <2>1. PICK i \in 1 .. Len(Chain(d)) : Chain(d)[i] = m
    BY <1>1, NodesAndPlaces
  <2>2. PICK j \in 1 .. Len(Chain(d)) : Chain(d)[j] = n
    BY <1>1, NodesAndPlaces
  <2>3. Len(Chain(d)) = Len(Chain(c))
    BY <1>1, ChainFacts
  <2>4. Held(d)[i] = d.obj[m] /\ Held(d)[j] = d.obj[n]
    BY <1>1, <2>1, <2>2, ChainFacts
  <2>5. /\ Held(c)[i] = c.obj[Chain(c)[i]] /\ Held(c)[j] = c.obj[Chain(c)[j]]
        /\ Chain(c)[i] \in Allocated(c) /\ Chain(c)[j] \in Allocated(c)
    BY <1>1, <2>3, ChainFacts, NodesAndPlaces
  <2>6. Chain(c)[i] = Chain(c)[j]
    BY <1>1, <1>2, <2>4, <2>5 DEF MapSound, OneNodePerKey
  <2>7. i = j
    BY <1>1, <2>3, <2>6, ChainFacts
  <2>8. QED
    BY <2>1, <2>2, <2>7
<1>3. QED
  BY <1>1, <1>2 DEF MapSound, OneNodePerKey, d

-----------------------------------------------------------------------------
(***************************************************************************)
(* The inductive invariant: the chain is sound for its class, the indexes  *)
(* of an Array are inside of it, and an Iter stands behind what it kept.   *)
(***************************************************************************)
SoundFor(class, c) == IF class = "Map" THEN MapSound(c) ELSE ListSound(c)

IdsFor(class, c) ==
  [k \in DOMAIN Held(c) |-> IF class = "Map" THEN Held(c)[k].key ELSE Held(c)[k]]

\* Where an Iter stands that kept kp and that lt elements came behind.
IterAt(class, c, it, cur, kp, lt) ==
  LET ids == IdsFor(class, c) IN
  /\ it = [next |-> it.next, idx |-> Len(kp) - 1]
  /\ kp \in Seq(Objs \cup Keys)
  /\ Len(kp) <= Len(ids)
  /\ \A i \in 1 .. Len(kp) : kp[i] = ids[i]
  /\ cur => Len(kp) # 0
  /\ lt \in Nat
  /\ it.next = Null => Len(ids) = Len(kp) + lt
  /\ it.next # Null => /\ lt = 0
                       /\ Len(kp) < Len(ids)
                       /\ it.next = Chain(c)[Len(kp) + 1]

ContainerInv ==
  /\ cls \in {"List", "Map", "Array"}
  /\ SoundFor(cls, chain)
  /\ DOMAIN block = 0 .. ArrayLen - 1
  /\ place \in 0 .. ArrayLen - 1

IterInv ==
  /\ ~Idle /\ cls # "Array" => IterAt(cls, chain, itr, current, kept, late)
  /\ ~Idle /\ cls = "Array" =>
       /\ itr.idx \in Int
       /\ itr.idx >= -1
       /\ current => itr.idx \in 0 .. ArrayLen - 1

Elems(class) == IF class = "Map" THEN Entries ELSE Objs

\* What is known of the chain and the ids of a sound container.
LEMMA IdsFacts ==
  ASSUME NEW class, NEW c, SoundFor(class, c)
  PROVE  LET ids == IdsFor(class, c)
             p == Chain(c)
         IN  /\ ChainSound(c, Elems(class)) /\ Null \notin Elems(class)
             /\ p \in Seq(Nodes) /\ Len(p) \in Nat /\ Len(p) = Cardinality(Allocated(c))
             /\ \A i \in 1 .. Len(p) : p[i] \in Nodes /\ p[i] # Null
             /\ \A i, j \in 1 .. Len(p) : p[i] = p[j] => i = j
             /\ ids \in Seq(Objs \cup Keys) /\ Len(ids) = Len(p)
             /\ DOMAIN ids = 1 .. Len(p)
             /\ \A i \in 1 .. Len(p) :
                  ids[i] = IF class = "Map" THEN Held(c)[i].key ELSE Held(c)[i]
             /\ IsInjective(ids)
<1> DEFINE ids == IdsFor(class, c)
           p == Chain(c)
           h == Held(c)
<1>1. ChainSound(c, Elems(class)) /\ Null \notin Elems(class)
  BY NullIsNothing DEF SoundFor, MapSound, ListSound, Elems
<1>2. /\ p \in Seq(Nodes) /\ Len(p) \in Nat
      /\ \A i \in 1 .. Len(p) : p[i] \in Nodes /\ p[i] # Null
      /\ \A i, j \in 1 .. Len(p) : p[i] = p[j] => i = j
      /\ h \in Seq(Elems(class)) /\ Len(h) = Len(p) /\ DOMAIN h = 1 .. Len(p)
      /\ \A i \in 1 .. Len(p) : h[i] = c.obj[p[i]] /\ p[i] \in Allocated(c)
  BY <1>1, ChainFacts, NodesAndPlaces
<1>3. Len(p) = Cardinality(Allocated(c))
  BY <1>1, <1>2, CountOfSeq DEF ChainSound, RunsAlong
<1> HIDE DEF p, h
<1>4. ids = [k \in 1 .. Len(p) |-> IF class = "Map" THEN h[k].key ELSE h[k]]
  BY <1>2 DEF IdsFor, h
<1>5. \A k \in 1 .. Len(p) : h[k] \in Elems(class)
  BY <1>2
<1>6. \A k \in 1 .. Len(p) : ids[k] \in Objs \cup Keys
  BY <1>4, <1>5 DEF Elems, Entries
<1>7. ids \in Seq(Objs \cup Keys) /\ Len(ids) = Len(p) /\ DOMAIN ids = 1 .. Len(p)
  BY <1>2, <1>4, <1>6
<1>8. IsInjective(ids)
  <2> SUFFICES ASSUME NEW i \in 1 .. Len(p), NEW j \in 1 .. Len(p), ids[i] = ids[j]
               PROVE  i = j
    BY <1>7 DEF IsInjective
  <2>1. CASE class = "Map"
    <3>1. h[i].key = h[j].key
      BY <1>4, <2>1
    <3>2. p[i] = p[j]
      BY <1>2, <2>1, <3>1 DEF SoundFor, MapSound, OneNodePerKey
    <3>3. QED
      BY <1>2, <3>2
  <2>2. CASE class # "Map"
    BY <1>2, <1>4, <2>2 DEF SoundFor, ListSound, IsInjective, h
  <2>3. QED
    BY <2>1, <2>2
<1>9. QED
  BY <1>1, <1>2, <1>3, <1>4, <1>7, <1>8 DEF p, h

\* A new Iter stands in front of the first element.
LEMMA IterAtNew ==
  ASSUME NEW class, NEW c, SoundFor(class, c)
  PROVE  IterAt(class, c, [next |-> c.head, idx |-> -1], FALSE, << >>, 0)
<1>1. Len(IdsFor(class, c)) = Len(Chain(c)) /\ Len(Chain(c)) \in Nat /\ ChainSound(c, Elems(class))
  BY IdsFacts
<1>2. c.head = IF Len(Chain(c)) = 0 THEN Null ELSE Chain(c)[1]
  BY <1>1 DEF ChainSound, RunsAlong
<1>3. << >> \in Seq(Objs \cup Keys) /\ Len(<< >>) = 0
  OBVIOUS
<1>4. c.head = Null => Len(Chain(c)) = 0
  BY <1>1, ChainFacts
<1> QED
  BY <1>1, <1>2, <1>3, <1>4 DEF IterAt

\* next() goes on by one, and comes to the end behind the last.
LEMMA IterAtNext ==
  ASSUME NEW class, NEW c, SoundFor(class, c), NEW it, NEW cur, NEW kp, NEW lt,
         IterAt(class, c, it, cur, kp, lt), it.next # Null
  PROVE  LET id == IF class = "Map" THEN c.obj[it.next].key ELSE c.obj[it.next]
         IN  IterAt(class, c, [next |-> c.next[it.next], idx |-> it.idx + 1], TRUE,
                    Append(kp, id), lt)
<1> DEFINE ids == IdsFor(class, c)
           p == Chain(c)
           id == IF class = "Map" THEN c.obj[it.next].key ELSE c.obj[it.next]
           k == Len(kp) + 1
<1>1. /\ ids \in Seq(Objs \cup Keys) /\ Len(ids) = Len(p) /\ Len(p) \in Nat
      /\ ChainSound(c, Elems(class))
      /\ \A i \in 1 .. Len(p) : p[i] # Null
      /\ \A i \in 1 .. Len(p) : ids[i] = IF class = "Map" THEN Held(c)[i].key ELSE Held(c)[i]
  BY IdsFacts
<1>2. \A i \in 1 .. Len(p) : Held(c)[i] = c.obj[p[i]]
  BY <1>1, ChainFacts
<1>3. \A i \in 1 .. Len(p) : c.next[p[i]] = IF i = Len(p) THEN Null ELSE p[i + 1]
  BY <1>1 DEF ChainSound, RunsAlong
<1>4. /\ kp \in Seq(Objs \cup Keys) /\ Len(kp) < Len(ids) /\ it.next = p[k] /\ lt = 0
      /\ \A i \in 1 .. Len(kp) : kp[i] = ids[i]
      /\ it.idx = Len(kp) - 1 /\ Len(kp) \in Nat
  BY DEF IterAt
<1> HIDE DEF ids, p
<1>5. k \in 1 .. Len(p) /\ k = Len(kp) + 1
  BY <1>1, <1>4
<1>6. id = ids[k]
  BY <1>1, <1>2, <1>4, <1>5
<1>7. ids[k] \in Objs \cup Keys
  BY <1>1, <1>5
<1> HIDE DEF id, k
<1>8. /\ Append(kp, id) \in Seq(Objs \cup Keys) /\ Len(Append(kp, id)) = k
      /\ \A i \in 1 .. k : Append(kp, id)[i] = ids[i]
  <2>1. Append(kp, id) \in Seq(Objs \cup Keys) /\ Len(Append(kp, id)) = k
    BY <1>4, <1>5, <1>6, <1>7
  <2>2. \A i \in 1 .. k : Append(kp, id)[i] = IF i = k THEN id ELSE kp[i]
    BY <1>4, <1>5
  <2>3. \A i \in 1 .. k : i # k => i \in 1 .. Len(kp)
    BY <1>4, <1>5
  <2>4. QED
    BY <1>4, <1>6, <2>1, <2>2, <2>3
<1>9. c.next[it.next] = IF k = Len(p) THEN Null ELSE p[k + 1]
  BY <1>3, <1>4, <1>5
<1>10. it.idx + 1 = k - 1 /\ k # 0 /\ k <= Len(ids) /\ k \in Nat
  BY <1>1, <1>4, <1>5
<1>11. k # Len(p) => p[k + 1] # Null /\ k < Len(ids)
  BY <1>1, <1>5
<1> DEFINE jt == [next |-> c.next[it.next], idx |-> it.idx + 1]
           kq == Append(kp, id)
<1>12. jt = [next |-> jt.next, idx |-> k - 1] /\ jt.next = IF k = Len(p) THEN Null ELSE p[k + 1]
  BY <1>9, <1>10
<1> HIDE DEF jt, kq
<1>13. kq \in Seq(Objs \cup Keys) /\ Len(kq) = k /\ \A i \in 1 .. k : kq[i] = ids[i]
  BY <1>8 DEF kq
<1>14. jt.next = Null => Len(ids) = k + lt
  BY <1>1, <1>4, <1>10, <1>11, <1>12
<1>15. jt.next # Null => lt = 0 /\ k < Len(ids) /\ jt.next = p[k + 1]
  BY <1>4, <1>11, <1>12
<1>16. IterAt(class, c, jt, TRUE, kq, lt)
  BY <1>4, <1>10, <1>12, <1>13, <1>14, <1>15 DEF IterAt, ids, p
<1>17. QED
  BY <1>16 DEF jt, kq, id

\* What is put at the end, or into an element without changing what it is known
\* by, leaves the Iter where it is.
LEMMA IterAtExtended ==
  ASSUME NEW class, NEW c, SoundFor(class, c), NEW d, SoundFor(class, d),
         Len(Chain(c)) <= Len(Chain(d)),
         \A i \in 1 .. Len(Chain(c)) :
           /\ Chain(d)[i] = Chain(c)[i]
           /\ IdsFor(class, d)[i] = IdsFor(class, c)[i],
         NEW it, NEW cur, NEW kp, NEW lt, IterAt(class, c, it, cur, kp, lt)
  PROVE  IterAt(class, d, it, cur, kp,
                lt + (IF it.next = Null
                      THEN Cardinality(Allocated(d)) - Cardinality(Allocated(c)) ELSE 0))
<1> DEFINE m == Len(Chain(c))
           n == Len(Chain(d))
           ids == IdsFor(class, c)
           jds == IdsFor(class, d)
           more == IF it.next = Null
                   THEN Cardinality(Allocated(d)) - Cardinality(Allocated(c)) ELSE 0
<1>1. /\ m \in Nat /\ n \in Nat /\ m <= n /\ Len(ids) = m /\ Len(jds) = n
      /\ Cardinality(Allocated(c)) = m /\ Cardinality(Allocated(d)) = n
  BY IdsFacts
<1>2. \A i \in 1 .. m : jds[i] = ids[i] /\ Chain(d)[i] = Chain(c)[i]
  OBVIOUS
<1>3. /\ it = [next |-> it.next, idx |-> Len(kp) - 1]
      /\ kp \in Seq(Objs \cup Keys) /\ Len(kp) \in Nat /\ Len(kp) <= m
      /\ \A i \in 1 .. Len(kp) : kp[i] = ids[i]
      /\ cur => Len(kp) # 0
      /\ lt \in Nat
      /\ it.next = Null => m = Len(kp) + lt
      /\ it.next # Null => lt = 0 /\ Len(kp) < m /\ it.next = Chain(c)[Len(kp) + 1]
  BY <1>1 DEF IterAt
<1>4. more = IF it.next = Null THEN n - m ELSE 0
  BY <1>1
<1> HIDE DEF ids, jds, more, m, n
<1>5. \A i \in 1 .. Len(kp) : i \in 1 .. m
  BY <1>1, <1>3
<1>6. \A i \in 1 .. Len(kp) : kp[i] = jds[i]
  BY <1>2, <1>3, <1>5
<1>7. Len(kp) <= n /\ lt + more \in Nat /\ (it.next = Null => n = Len(kp) + (lt + more))
  <2>1. CASE it.next = Null
    <3>1. m = Len(kp) + lt /\ more = n - m
      BY <1>3, <1>4, <2>1
    <3> DEFINE k == Len(kp)
    <3>2. m \in Nat /\ n \in Nat /\ m <= n /\ k \in Nat /\ lt \in Nat /\ k <= m
      BY <1>1, <1>3
    <3> HIDE DEF k
    <3>3. lt + (n - m) \in Nat /\ (m = k + lt => n = k + (lt + (n - m))) /\ k <= n
      BY ONLY <3>2
    <3>4. QED
      BY <3>1, <3>3, Zenon DEF k
  <2>2. CASE it.next # Null
    BY <1>1, <1>3, <1>4, <2>2
  <2>3. QED
    BY <2>1, <2>2
<1>8. it.next # Null => lt + more = 0 /\ Len(kp) < n /\ it.next = Chain(d)[Len(kp) + 1]
  <2> SUFFICES ASSUME it.next # Null
               PROVE  lt + more = 0 /\ Len(kp) < n /\ it.next = Chain(d)[Len(kp) + 1]
    OBVIOUS
  <2>1. Len(kp) + 1 \in 1 .. m
    BY <1>1, <1>3
  <2>2. QED
    BY <1>1, <1>2, <1>3, <1>4, <2>1
<1>9. IterAt(class, d, it, cur, kp, lt + more)
  BY <1>1, <1>3, <1>6, <1>7, <1>8 DEF IterAt, jds
<1>10. QED
  BY <1>9 DEF more

\* The element it came to is taken out, and the Iter goes back by one.
LEMMA IterAtRemoved ==
  ASSUME NEW class, NEW c, SoundFor(class, c), NEW it, NEW kp, NEW lt,
         IterAt(class, c, it, TRUE, kp, lt),
         SoundFor(class, Unlinked(c, Before(c, Len(kp) - 1)))
  PROVE  IterAt(class, Unlinked(c, Before(c, Len(kp) - 1)), [it EXCEPT !.idx = @ - 1],
                FALSE, Front(kp), lt)
<1> DEFINE d == Unlinked(c, Before(c, Len(kp) - 1))
           n == Len(Chain(c))
           k == Len(kp)
           ids == IdsFor(class, c)
           jds == IdsFor(class, d)
           p == Chain(c)
           q == Chain(d)
           kq == Front(kp)
           jt == [it EXCEPT !.idx = @ - 1]
<1>1. /\ ChainSound(c, Elems(class)) /\ Null \notin Elems(class)
      /\ n \in Nat /\ Len(ids) = n /\ p \in Seq(Nodes)
      /\ \A i \in 1 .. n : p[i] # Null
      /\ \A i \in 1 .. n : ids[i] = IF class = "Map" THEN Held(c)[i].key ELSE Held(c)[i]
  BY IdsFacts
<1>2. /\ it = [next |-> it.next, idx |-> k - 1]
      /\ kp \in Seq(Objs \cup Keys) /\ k \in 1 .. n
      /\ \A i \in 1 .. k : kp[i] = ids[i]
      /\ lt \in Nat
      /\ it.next = Null => n = k + lt
      /\ it.next # Null => lt = 0 /\ k < n /\ it.next = p[k + 1]
  BY <1>1 DEF IterAt
<1>3. /\ q = RemoveAt(p, k) /\ Held(d) = RemoveAt(Held(c), k)
  BY <1>1, <1>2, UnlinkedSound
<1>4. Held(c) \in Seq(Elems(class)) /\ Len(Held(c)) = n
  BY <1>1, ChainFacts
<1>5. /\ Len(q) = n - 1 /\ Len(jds) = n - 1
      /\ \A i \in 1 .. n - 1 : jds[i] = IF class = "Map" THEN Held(d)[i].key ELSE Held(d)[i]
  <2>1. Len(q) = n - 1
    BY <1>1, <1>2, <1>3, RemoveAtProperties
  <2>2. QED
    BY <2>1, IdsFacts
<1>6. \A i \in 1 .. n - 1 : Held(d)[i] = IF i < k THEN Held(c)[i] ELSE Held(c)[i + 1]
  <2> DEFINE h == Held(c)
  <2> HIDE DEF h, k, n
  <2>1. h \in Seq(Elems(class)) /\ Len(h) = n /\ k \in 1 .. Len(h)
    BY <1>2, <1>4 DEF h
  <2>2. \A i \in 1 .. Len(h) - 1 : RemoveAt(h, k)[i] = IF i < k THEN h[i] ELSE h[i + 1]
    BY ONLY <2>1, RemoveAtProperties
  <2>3. QED
    BY <1>3, <2>1, <2>2 DEF h
<1>7. \A i \in 1 .. n - 1 : q[i] = IF i < k THEN p[i] ELSE p[i + 1]
  <2> HIDE DEF p, q, k
  <2>1. p \in Seq(Nodes) /\ Len(p) = n /\ k \in 1 .. Len(p)
    BY <1>1, <1>2 DEF p
  <2>2. \A i \in 1 .. Len(p) - 1 : RemoveAt(p, k)[i] = IF i < k THEN p[i] ELSE p[i + 1]
    BY ONLY <2>1, RemoveAtProperties
  <2> HIDE DEF n
  <2>3. QED
    BY <1>3, <2>1, <2>2
<1>8. kq \in Seq(Objs \cup Keys) /\ Len(kq) = k - 1 /\ \A i \in 1 .. k - 1 : kq[i] = kp[i]
  <2>1. 1 \in Int /\ k - 1 \in Int /\ \A i \in 1 .. k - 1 : kp[i] \in Objs \cup Keys
    BY <1>2
  <2>2. kq = SubSeq(kp, 1, k - 1)
    BY DEF Front
  <2> HIDE DEF kq, k
  <2>3. /\ kq \in Seq(Objs \cup Keys) /\ Len(kq) = IF 1 <= k - 1 THEN k - 1 - 1 + 1 ELSE 0
        /\ \A i \in 1 .. k - 1 - 1 + 1 : kq[i] = kp[1 + i - 1]
    BY ONLY <2>1, <2>2, SubSeqProperties
  <2>4. k \in Nat /\ k >= 1
    BY <1>1, <1>2
  <2>5. \A i \in 1 .. k - 1 : 1 + i - 1 = i /\ i \in 1 .. k - 1 - 1 + 1
    BY <2>4
  <2>6. QED
    BY <2>3, <2>4, <2>5
<1>9. jt = [next |-> it.next, idx |-> k - 2] /\ jt.next = it.next
  <2>1. it.idx = k - 1
    BY <1>2
  <2>2. jt = [next |-> it.next, idx |-> it.idx - 1]
    BY <1>2
  <2>3. it.idx - 1 = k - 2
    BY <1>2, <2>1
  <2>4. QED
    BY <2>2, <2>3
<1> HIDE DEF d, n, k, ids, jds, p, q, kq, jt
<1>10. \A i \in 1 .. k - 1 : i \in 1 .. n - 1 /\ i < k /\ i \in 1 .. k /\ i \in 1 .. n
  BY <1>1, <1>2
<1>11. \A i \in 1 .. k - 1 : kq[i] = jds[i]
  <2> SUFFICES ASSUME NEW i \in 1 .. k - 1 PROVE kq[i] = jds[i]
    OBVIOUS
  <2>1. i \in 1 .. n - 1 /\ i < k /\ i \in 1 .. k /\ i \in 1 .. n
    BY <1>10
  <2>2. Held(d)[i] = Held(c)[i]
    BY <1>6, <2>1
  <2>3. jds[i] = ids[i]
    BY <1>1, <1>5, <2>1, <2>2
  <2>4. kq[i] = ids[i]
    BY <1>2, <1>8, <2>1
  <2>5. QED
    BY <2>3, <2>4
<1>12. /\ Len(kq) - 1 = k - 2 /\ Len(kq) <= n - 1
       /\ it.next = Null => n - 1 = Len(kq) + lt
  BY <1>1, <1>2, <1>8
<1>13. it.next # Null => Len(kq) < n - 1 /\ it.next = q[Len(kq) + 1]
  <2> SUFFICES ASSUME it.next # Null
               PROVE  Len(kq) < n - 1 /\ it.next = q[Len(kq) + 1]
    OBVIOUS
  <2>1. k \in 1 .. n - 1 /\ ~(k < k) /\ Len(kq) + 1 = k /\ Len(kq) < n - 1
    BY <1>1, <1>2, <1>8
  <2>2. QED
    BY <1>2, <1>7, <2>1
<1>14. IterAt(class, d, jt, FALSE, kq, lt)
  BY <1>2, <1>5, <1>8, <1>9, <1>11, <1>12, <1>13 DEF IterAt, jds, q
<1>15. QED
  BY <1>14 DEF d, jt, kq, k

-----------------------------------------------------------------------------
(***************************************************************************)
(* Every operation keeps the chain sound.                                  *)
(***************************************************************************)
LEMMA ListInsertsSound ==
  ASSUME NEW c, ListSound(c), Allocated(c) # Nodes,
         NEW o \in Objs \ ToSet(Held(c)), NEW idx \in Int
  PROVE  /\ ListSound(ListInsertAt(c, idx, o))
         /\ ListSound(ListInsertAfter(c, idx, o))
         /\ ListSound(ListSetAt(c, idx, o))
         /\ ListSound(ListSortedIn(c, o))
         /\ ListSound(ListAppend(c, o))
<1> DEFINE n == Len(Chain(c))
           at == PlaceOf(n, idx)
<1>1. ChainSound(c, Objs) /\ n \in Nat /\ at \in Nat
  BY ChainFacts, NodeAtPlace DEF ListSound
<1>2. /\ ListInsertAt(c, idx, o) =
           IF at <= n /\ (n # 0 \/ idx \in {0, -1}) THEN Linked(c, Before(c, at), o) ELSE c
      /\ ListInsertAfter(c, idx, o) =
           IF at < n THEN Linked(c, Before(c, at + 1), o) ELSE c
      /\ ListAppend(c, o) = Linked(c, Before(c, n), o)
  BY <1>1, InsertPlace, InsertAfterPlace, AppendPlace
<1> HIDE DEF at
<1>3. \A j \in 0 .. n : ListSound(Linked(c, Before(c, j), o))
  BY ListSoundInserted
<1>4. PICK j \in 0 .. n : ListSortedIn(c, o) = Linked(c, Before(c, j), o)
  BY <1>1, SortedPlace
<1> HIDE DEF n
<1>5. ListSound(ListInsertAt(c, idx, o))
  BY <1>1, <1>2, <1>3
<1>6. ListSound(ListInsertAfter(c, idx, o))
  BY <1>1, <1>2, <1>3
<1>7. ListSound(ListAppend(c, o))
  BY <1>1, <1>2, <1>3
<1>8. QED
  BY <1>3, <1>4, <1>5, <1>6, <1>7, ListSoundSet

LEMMA ListRemovesSound ==
  ASSUME NEW c, ListSound(c)
  PROVE  /\ \A o : ListSound(ListRemoveObj(c, o))
         /\ \A idx \in Int : ListSound(ListRemoveAt(c, idx))
<1> DEFINE n == Len(Chain(c))
<1>1. ChainSound(c, Objs) /\ n \in Nat
  BY ChainFacts DEF ListSound
<1>2. \A j \in 1 .. n : ListSound(Unlinked(c, Before(c, j - 1)))
  BY ListSoundRemoved
<1>3. ASSUME NEW o PROVE ListSound(ListRemoveObj(c, o))
  BY <1>1, <1>2, RemoveFirstPlace DEF ListRemoveObj
<1>4. ASSUME NEW idx \in Int PROVE ListSound(ListRemoveAt(c, idx))
  <2> DEFINE at == PlaceOf(n, idx)
  <2>1. at \in Nat
    BY <1>1, NodeAtPlace
  <2>2. ListRemoveAt(c, idx) = IF at < n THEN Unlinked(c, Before(c, at)) ELSE c
    BY <1>1, RemovePlace
  <2> HIDE DEF at, n
  <2>3. at < n => at + 1 \in 1 .. n /\ (at + 1) - 1 = at
    BY <1>1, <2>1
  <2>4. at < n => ListSound(Unlinked(c, Before(c, at)))
    <3> SUFFICES ASSUME at < n PROVE ListSound(Unlinked(c, Before(c, at)))
      OBVIOUS
    <3>1. ListSound(Unlinked(c, Before(c, (at + 1) - 1)))
      BY <1>2, <2>3
    <3>2. QED
      BY <2>3, <3>1
  <2>5. QED
    BY <2>2, <2>4
<1>5. QED
  BY <1>3, <1>4

-----------------------------------------------------------------------------
(***************************************************************************)
(* Each action keeps the inductive invariant.                              *)
(***************************************************************************)
IndInv == ContainerInv /\ IterInv

LEMMA IndexIsInt == \A idx \in Indexes : idx \in Int
BY IterablesAssumption DEF Indexes

\* The operations that are called while no Iter is on the container.
LEMMA NewChainIdle ==
  ASSUME IndInv, Idle, UNCHANGED itr, NEW c, SoundFor(cls, c), Becomes(c)
  PROVE  IndInv'
<1>1. ContainerInv'
  BY DEF IndInv, ContainerInv, Becomes
<1>2. IterInv'
  BY DEF IterInv, Idle
<1>3. QED
  BY <1>1, <1>2 DEF IndInv

LEMMA KeepsListChange ==
  ASSUME IndInv, ListChange
  PROVE  IndInv'
<1>1. /\ cls = "List" /\ Idle /\ UNCHANGED itr /\ ListSound(chain)
  BY DEF ListChange, IndInv, ContainerInv, SoundFor
<1>2. \E c : ListSound(c) /\ Becomes(c)
  <2>1. ASSUME NEW o \in Objs \ ToSet(Held(chain)), CanAllocate, NEW idx \in Indexes,
               \/ Becomes(ListInsertAt(chain, idx, o))
               \/ Becomes(ListInsertAfter(chain, idx, o))
               \/ Becomes(ListSetAt(chain, idx, o))
        PROVE  \E c : ListSound(c) /\ Becomes(c)
    BY <1>1, <2>1, ListInsertsSound, IndexIsInt DEF CanAllocate
  <2>2. ASSUME NEW o \in Objs \ ToSet(Held(chain)), CanAllocate,
               Becomes(ListSortedIn(chain, o))
        PROVE  \E c : ListSound(c) /\ Becomes(c)
    <3>1. 0 \in Int
      OBVIOUS
    <3>2. ListSound(ListSortedIn(chain, o))
      BY <1>1, <2>2, <3>1, ListInsertsSound DEF CanAllocate
    <3>3. QED
      BY <2>2, <3>2
  <2>3. ASSUME NEW o \in Objs, Becomes(ListRemoveObj(chain, o))
        PROVE  \E c : ListSound(c) /\ Becomes(c)
    BY <1>1, <2>3, ListRemovesSound
  <2>4. ASSUME NEW idx \in Indexes, Becomes(ListRemoveAt(chain, idx))
        PROVE  \E c : ListSound(c) /\ Becomes(c)
    BY <1>1, <2>4, ListRemovesSound, IndexIsInt
  <2>5. ASSUME NEW c \in ListSorts(chain), Becomes(c)
        PROVE  \E d : ListSound(d) /\ Becomes(d)
    BY <1>1, <2>5, ListSoundSorted
  <2>6. CASE Becomes(EmptyChain)
    BY <2>6, ListSoundEmpty
  <2>7. CASE Becomes(ListCopy(chain))
    BY <1>1, <2>7, ListSoundCopied
  <2>8. QED
    BY <2>1, <2>2, <2>3, <2>4, <2>5, <2>6, <2>7 DEF ListChange
<1>3. PICK c : ListSound(c) /\ Becomes(c)
  BY <1>2
<1>4. SoundFor(cls, c)
  BY <1>1, <1>3 DEF SoundFor
<1>5. QED
  BY <1>1, <1>3, <1>4, NewChainIdle

LEMMA KeepsMapChange ==
  ASSUME IndInv, MapChange
  PROVE  IndInv'
<1>1. /\ cls = "Map" /\ Idle /\ UNCHANGED itr /\ MapSound(chain)
  BY DEF MapChange, IndInv, ContainerInv, SoundFor
<1>2. \E c : MapSound(c) /\ Becomes(c)
  BY <1>1, MapSoundKeyRemoved, MapSoundCopied DEF MapChange
<1>3. PICK c : MapSound(c) /\ Becomes(c)
  BY <1>2
<1>4. SoundFor(cls, c)
  BY <1>1, <1>3 DEF SoundFor
<1>5. QED
  BY <1>1, <1>3, <1>4, NewChainIdle

\* The chain c has at its start the elements of the chain.
Extends(class, c, d) ==
  /\ Len(Chain(c)) <= Len(Chain(d))
  /\ \A i \in 1 .. Len(Chain(c)) :
       /\ Chain(d)[i] = Chain(c)[i]
       /\ IdsFor(class, d)[i] = IdsFor(class, c)[i]

\* An append, which leaves what is in front of the end.
LEMMA AppendExtends ==
  ASSUME NEW class, NEW c, SoundFor(class, c), Allocated(c) # Nodes,
         NEW o \in Elems(class), SoundFor(class, ListAppend(c, o))
  PROVE  Extends(class, c, ListAppend(c, o))
<1> DEFINE d == ListAppend(c, o)
           n == Len(Chain(c))
           p == Chain(c)
           h == Held(c)
<1>1. /\ ChainSound(c, Elems(class)) /\ Null \notin Elems(class) /\ n \in Nat
      /\ p \in Seq(Nodes)
      /\ \A i \in 1 .. n : IdsFor(class, c)[i] = IF class = "Map" THEN h[i].key ELSE h[i]
  BY IdsFacts
<1>2. h \in Seq(Elems(class)) /\ Len(h) = n
  BY <1>1, ChainFacts
<1>3. d = Linked(c, Before(c, n), o) /\ n \in 0 .. n
  BY <1>1, AppendPlace
<1>4. Held(d) = InsertAt(h, n + 1, o) /\ \E new \in Nodes : Chain(d) = InsertAt(p, n + 1, new)
  <2> DEFINE e == Linked(c, Before(c, n), o)
  <2>1. /\ Held(e) = InsertAt(h, n + 1, o)
        /\ \E new \in Nodes \ ToSet(p) :
             Chain(e) = InsertAt(p, n + 1, new) /\ e.obj = [c.obj EXCEPT ![new] = o]
    <3>1. \A j \in 0 .. n :
            /\ Held(Linked(c, Before(c, j), o)) = InsertAt(h, j + 1, o)
            /\ \E new \in Nodes \ ToSet(p) :
                 /\ Chain(Linked(c, Before(c, j), o)) = InsertAt(p, j + 1, new)
                 /\ Linked(c, Before(c, j), o).obj = [c.obj EXCEPT ![new] = o]
      BY <1>1, LinkedSound
    <3>2. QED
      BY <1>3, <3>1, Zenon
  <2> HIDE DEF d, e, p, h, n
  <2>2. d = e
    BY <1>3 DEF e
  <2>3. QED
    BY <2>1, <2>2
<1>5. \A i \in 1 .. Len(Chain(d)) :
        IdsFor(class, d)[i] = IF class = "Map" THEN Held(d)[i].key ELSE Held(d)[i]
  BY IdsFacts
<1> HIDE DEF d, n, p, h
<1>6. \A i \in 1 .. n : Held(d)[i] = h[i]
  <2>1. n + 1 \in 1 .. Len(h) + 1 /\ \A i \in 1 .. n : i < n + 1 /\ i \in 1 .. Len(h) + 1
    BY <1>1, <1>2
  <2>2. QED
    BY <1>2, <1>4, <2>1, InsertAtProperties
<1>7. Len(Chain(d)) = n + 1 /\ \A i \in 1 .. n : Chain(d)[i] = p[i]
  <2>1. PICK new \in Nodes : Chain(d) = InsertAt(p, n + 1, new)
    BY <1>4
  <2>2. Len(p) = n
    BY DEF n, p
  <2>3. n + 1 \in 1 .. Len(p) + 1 /\ \A i \in 1 .. n : i < n + 1 /\ i \in 1 .. Len(p) + 1
    BY <1>1, <2>2
  <2>4. /\ Len(InsertAt(p, n + 1, new)) = Len(p) + 1
        /\ \A i \in 1 .. Len(p) + 1 :
             InsertAt(p, n + 1, new)[i] =
               IF i < n + 1 THEN p[i] ELSE IF i = n + 1 THEN new ELSE p[i - 1]
    BY ONLY <1>1, <2>3, InsertAtProperties
  <2>5. QED
    BY <2>1, <2>2, <2>3, <2>4
<1>8. \A i \in 1 .. n : i \in 1 .. Len(Chain(d))
  BY <1>1, <1>7
<1>9. \A i \in 1 .. n : IdsFor(class, d)[i] = IdsFor(class, c)[i]
  BY <1>1, <1>5, <1>6, <1>8
<1>10. n <= Len(Chain(d))
  BY <1>1, <1>7
<1>11. QED
  BY <1>7, <1>9, <1>10 DEF Extends, d, n, p

\* A key that is there keeps its place.
LEMMA MapSetExtends ==
  ASSUME NEW c, MapSound(c), Allocated(c) # Nodes,
         NEW key \in Keys, NEW value \in Objs \cup {Null}
  PROVE  Extends("Map", c, MapSet(c, key, value))
<1> DEFINE e == [key |-> key, value |-> value]
           d == MapSet(c, key, value)
<1>1. e \in Entries /\ e.key = key /\ Elems("Map") = Entries
  BY DEF Entries, Elems
<1>2. SoundFor("Map", c) /\ SoundFor("Map", d)
  BY MapSoundSet DEF SoundFor
<1> HIDE DEF e
<1>3. CASE d = ListAppend(c, e)
  BY <1>1, <1>2, <1>3, AppendExtends
<1>4. ASSUME NEW j \in 1 .. Len(Chain(c)), c.obj[Chain(c)[j]].key = key,
             d = [c EXCEPT !.obj[Chain(c)[j]] = e]
      PROVE  Extends("Map", c, d)
  <2>1. Chain(d) = Chain(c) /\ Held(d) = [Held(c) EXCEPT ![j] = e]
    BY <1>1, <1>4, MapSoundRenewed
  <2>2. ChainSound(c, Entries)
    BY DEF MapSound
  <2>3. /\ Len(Chain(c)) \in Nat /\ DOMAIN Held(c) = 1 .. Len(Chain(c))
        /\ \A i \in 1 .. Len(Chain(c)) : Held(c)[i] = c.obj[Chain(c)[i]]
    BY <2>2, ChainFacts
  <2>4. /\ \A i \in 1 .. Len(Chain(c)) : IdsFor("Map", c)[i] = Held(c)[i].key
        /\ \A i \in 1 .. Len(Chain(d)) : IdsFor("Map", d)[i] = Held(d)[i].key
    BY <1>2, IdsFacts
  <2> HIDE DEF d
  <2>5. \A i \in 1 .. Len(Chain(c)) : Held(d)[i] = IF i = j THEN e ELSE Held(c)[i]
    BY <2>1, <2>3
  <2>6. \A i \in 1 .. Len(Chain(c)) : Held(d)[i].key = Held(c)[i].key
    BY <1>1, <1>4, <2>3, <2>5
  <2>7. QED
    BY <2>1, <2>3, <2>4, <2>6 DEF Extends
<1>5. QED
  BY <1>3, <1>4, MapSetPlace DEF e

LEMMA KeepsAdd ==
  ASSUME IndInv, Add
  PROVE  IndInv'
<1>1. SoundFor(cls, chain) /\ Allocated(chain) # Nodes
  BY DEF Add, CanAllocate, IndInv, ContainerInv
<1>2. \E c : SoundFor(cls, c) /\ Extends(cls, chain, c) /\ Added(c) /\ cls # "Array"
  <2>1. ASSUME cls = "List", NEW o \in Objs \ ToSet(Held(chain)), Added(ListAppend(chain, o))
        PROVE  \E c : SoundFor(cls, c) /\ Extends(cls, chain, c) /\ Added(c) /\ cls # "Array"
    <3>1. ListSound(chain) /\ o \in Elems(cls) /\ 0 \in Int
      BY <1>1, <2>1 DEF SoundFor, Elems
    <3>2. SoundFor(cls, ListAppend(chain, o))
      BY <1>1, <2>1, <3>1, ListInsertsSound DEF SoundFor
    <3>3. Extends(cls, chain, ListAppend(chain, o))
      BY <1>1, <3>1, <3>2, AppendExtends
    <3>4. QED
      BY <2>1, <3>2, <3>3
  <2>2. ASSUME cls = "Map", NEW key \in Keys, NEW value \in Objs \cup {Null},
               Added(MapSet(chain, key, value))
        PROVE  \E c : SoundFor(cls, c) /\ Extends(cls, chain, c) /\ Added(c) /\ cls # "Array"
    <3>1. MapSound(chain)
      BY <1>1, <2>2 DEF SoundFor
    <3>2. MapSound(MapSet(chain, key, value))
      BY <1>1, <3>1, MapSoundSet
    <3>3. SoundFor(cls, MapSet(chain, key, value))
      BY <2>2, <3>2 DEF SoundFor
    <3>4. Extends(cls, chain, MapSet(chain, key, value))
      BY <1>1, <2>2, <3>1, MapSetExtends
    <3>5. QED
      BY <2>2, <3>3, <3>4
  <2>3. QED
    BY <2>1, <2>2 DEF Add
<1>3. PICK c : SoundFor(cls, c) /\ Extends(cls, chain, c) /\ Added(c) /\ cls # "Array"
  BY <1>2
<1>4. ContainerInv'
  BY <1>3 DEF IndInv, ContainerInv, Added, Becomes
<1>5. IterInv'
  <2> SUFFICES ASSUME ~Idle'
               PROVE  IterAt(cls, c, itr, current, kept, late')
    BY <1>3 DEF IterInv, Added, Becomes
  <2>1. ~Idle
    BY <1>3 DEF Idle, Added
  <2>2. IterAt(cls, chain, itr, current, kept, late)
    BY <1>3, <2>1 DEF IndInv, IterInv
  <2>3. /\ Len(Chain(chain)) <= Len(Chain(c))
        /\ \A i \in 1 .. Len(Chain(chain)) :
             /\ Chain(c)[i] = Chain(chain)[i]
             /\ IdsFor(cls, c)[i] = IdsFor(cls, chain)[i]
    BY <1>3 DEF Extends
  <2>4. late' = late + (IF itr.next = Null
                        THEN Cardinality(Allocated(c)) - Cardinality(Allocated(chain)) ELSE 0)
    BY <1>3, <2>1 DEF Added
  <2>5. IterAt(cls, c, itr, current, kept,
               late + (IF itr.next = Null
                       THEN Cardinality(Allocated(c)) - Cardinality(Allocated(chain)) ELSE 0))
    BY <1>1, <1>3, <2>2, <2>3, IterAtExtended
  <2>6. QED
    BY <2>4, <2>5
<1>6. QED
  BY <1>4, <1>5 DEF IndInv

\* An index below the length means a place of the Array.
LEMMA ArrayPlaceIn ==
  ASSUME NEW idx \in Int, idx < ArrayLen
  PROVE  ArrayPlace(idx) \in 0 .. ArrayLen - 1
BY IterablesAssumption DEF ArrayPlace, FixIndex

LEMMA KeepsArrayChange ==
  ASSUME IndInv, ArrayChange
  PROVE  IndInv'
<1>1. PICK idx \in Indexes :
        /\ idx < ArrayLen /\ place' = ArrayPlace(idx)
        /\ DOMAIN block' = DOMAIN block
  BY DEF ArrayChange
<1>2. place' \in 0 .. ArrayLen - 1
  BY <1>1, ArrayPlaceIn, IndexIsInt
<1>3. UNCHANGED <<cls, chain, itr, current, kept, late>>
  BY DEF ArrayChange
<1>4. ContainerInv'
  BY <1>1, <1>2, <1>3 DEF IndInv, ContainerInv
<1>5. IterInv'
  BY <1>3 DEF IndInv, IterInv, Idle
<1>6. QED
  BY <1>4, <1>5 DEF IndInv

LEMMA KeepsArrayCopy ==
  ASSUME IndInv, ArrayCopy
  PROVE  IndInv'
<1>1. DOMAIN block' = DOMAIN block /\ UNCHANGED <<cls, chain, place, itr, current, kept, late>>
  BY DEF ArrayCopy
<1>2. ContainerInv'
  BY <1>1 DEF IndInv, ContainerInv
<1>3. IterInv'
  BY <1>1 DEF IndInv, IterInv, Idle
<1>4. QED
  BY <1>2, <1>3 DEF IndInv

LEMMA KeepsIterNew ==
  ASSUME IndInv, IterNew
  PROVE  IndInv'
<1>1. /\ itr' = [next |-> IF cls = "Array" THEN 0 ELSE chain.head, idx |-> -1]
      /\ current' = FALSE /\ kept' = << >> /\ late' = 0
      /\ UNCHANGED <<cls, chain, block, place>>
  BY DEF IterNew
<1>2. ContainerInv'
  BY <1>1 DEF IndInv, ContainerInv
<1>3. IterInv'
  <2>1. CASE cls = "Array"
    BY <1>1, <2>1 DEF IterInv
  <2>2. CASE cls # "Array"
    <3>1. IterAt(cls, chain, [next |-> chain.head, idx |-> -1], FALSE, << >>, 0)
      BY IterAtNew DEF IndInv, ContainerInv
    <3>2. QED
      BY <1>1, <2>2, <3>1 DEF IterInv
  <2>3. QED
    BY <2>1, <2>2
<1>4. QED
  BY <1>2, <1>3 DEF IndInv

LEMMA KeepsChainNext ==
  ASSUME IndInv, ChainNext
  PROVE  IndInv'
<1>1. ~Idle /\ cls # "Array" /\ UNCHANGED <<cls, chain, block, place, late>>
  BY DEF ChainNext
<1>2. ContainerInv'
  BY <1>1 DEF IndInv, ContainerInv
<1>3. IterAt(cls, chain, itr, current, kept, late) /\ SoundFor(cls, chain)
  BY <1>1 DEF IndInv, IterInv, ContainerInv
<1>4. IterAt(cls, chain, itr', current', kept', late)
  <2>1. CASE itr.next # Null
    <3>1. /\ itr' = [next |-> chain.next[itr.next], idx |-> itr.idx + 1]
          /\ kept' = Append(kept, IF cls = "Map" THEN chain.obj[itr.next].key
                                  ELSE chain.obj[itr.next])
          /\ current' = TRUE
      BY <2>1 DEF ChainNext, Id
    <3>2. QED
      BY <1>3, <2>1, <3>1, IterAtNext
  <2>2. CASE itr.next = Null
    <3>1. itr' = itr /\ kept' = kept /\ current' = FALSE
      BY <2>2 DEF ChainNext
    <3>2. QED
      BY <1>3, <3>1 DEF IterAt
  <2>3. QED
    BY <2>1, <2>2
<1>5. IterInv'
  BY <1>1, <1>4 DEF IterInv
<1>6. QED
  BY <1>2, <1>5 DEF IndInv

LEMMA KeepsArrayNext ==
  ASSUME IndInv, ArrayNext
  PROVE  IndInv'
<1>1. /\ ~Idle /\ cls = "Array" /\ UNCHANGED <<cls, chain, block, place, late>>
      /\ itr'.idx = itr.idx + 1 /\ current' = (itr.idx + 1 < ArrayLen)
  BY DEF ArrayNext
<1>2. ContainerInv'
  BY <1>1 DEF IndInv, ContainerInv
<1>3. itr.idx \in Int /\ itr.idx >= -1
  BY <1>1 DEF IndInv, IterInv
<1>4. itr'.idx \in Int /\ itr'.idx >= -1 /\ (current' => itr'.idx \in 0 .. ArrayLen - 1)
  <2>1. itr.idx + 1 \in Int /\ itr.idx + 1 >= -1
    BY <1>3
  <2>2. itr.idx + 1 < ArrayLen => itr.idx + 1 \in 0 .. ArrayLen - 1
    BY <1>3, IterablesAssumption
  <2>3. QED
    BY <1>1, <2>1, <2>2, Zenon
<1>5. IterInv'
  BY <1>1, <1>4 DEF IterInv
<1>6. QED
  BY <1>2, <1>5 DEF IndInv

LEMMA KeepsChainDelObj ==
  ASSUME IndInv, ChainDelObj
  PROVE  IndInv'
<1> DEFINE k == Len(kept)
           d == Unlinked(chain, Before(chain, k - 1))
           p == Chain(chain)
<1>1. /\ ~Idle /\ current /\ cls \in {"List", "Map"} /\ UNCHANGED <<cls, block, place, late>>
      /\ kept' = Front(kept) /\ current' = FALSE
      /\ \/ cls = "List" /\ ListDelObj
         \/ cls = "Map" /\ MapDelObj
  BY DEF ChainDelObj
<1>2. itr' = [itr EXCEPT !.idx = @ - 1]
  BY <1>1 DEF ListDelObj, MapDelObj
<1>3. IterAt(cls, chain, itr, current, kept, late) /\ SoundFor(cls, chain)
  BY <1>1 DEF IndInv, IterInv, ContainerInv
<1>4. IterAt(cls, chain, itr, TRUE, kept, late)
  BY <1>1, <1>3 DEF IterAt
<1>5. /\ ChainSound(chain, Elems(cls)) /\ Len(p) \in Nat
      /\ Len(IdsFor(cls, chain)) = Len(p)
      /\ \A i \in 1 .. Len(p) :
           IdsFor(cls, chain)[i] = IF cls = "Map" THEN Held(chain)[i].key ELSE Held(chain)[i]
      /\ \A i, j \in 1 .. Len(p) : p[i] = p[j] => i = j
  BY <1>3, IdsFacts
<1>6. /\ itr.idx = k - 1 /\ k \in 1 .. Len(p) /\ kept \in Seq(Objs \cup Keys)
      /\ kept[k] = IdsFor(cls, chain)[k]
  <2> DEFINE ids == IdsFor(cls, chain)
  <2>1. /\ itr = [next |-> itr.next, idx |-> k - 1] /\ kept \in Seq(Objs \cup Keys)
        /\ k <= Len(ids) /\ k # 0 /\ \A i \in 1 .. k : kept[i] = ids[i]
    BY <1>4 DEF IterAt
  <2> HIDE DEF ids
  <2>2. k \in Nat /\ Len(ids) = Len(p)
    BY <1>5, <2>1 DEF ids
  <2> HIDE DEF k, p
  <2>3. k \in 1 .. k /\ k \in 1 .. Len(p)
    BY <1>5, <2>1, <2>2
  <2>4. itr.idx = k - 1
    BY <2>1
  <2>5. QED
    BY <2>1, <2>3, <2>4 DEF ids
<1>7. chain' = d /\ SoundFor(cls, d)
  <2>1. CASE cls = "List"
    <3>1. ListSound(chain) /\ k - 1 \in Int
      BY <1>3, <1>6, <2>1 DEF SoundFor
    <3>2. ListRemoveAt(chain, k - 1) =
            IF PlaceOf(Len(p), k - 1) < Len(p)
            THEN Unlinked(chain, Before(chain, PlaceOf(Len(p), k - 1))) ELSE chain
      BY <3>1, RemovePlace DEF ListSound
    <3>3. PlaceOf(Len(p), k - 1) = k - 1 /\ k - 1 < Len(p)
      BY <1>5, <1>6 DEF PlaceOf
    <3>4. ListRemoveAt(chain, k - 1) = d
      BY <3>2, <3>3
    <3>5. ListSound(d)
      BY <1>6, <3>1, ListSoundRemoved
    <3>6. QED
      BY <1>1, <1>6, <2>1, <3>4, <3>5 DEF ListDelObj, SoundFor
  <2>2. CASE cls = "Map"
    <3>1. MapSound(chain)
      BY <1>3, <2>2 DEF SoundFor
    <3>2. /\ Held(chain)[k] = chain.obj[p[k]] /\ p[k] \in Allocated(chain)
          /\ \A j \in 1 .. Len(p) : p[j] \in Allocated(chain)
      BY <1>5, <1>6, ChainFacts, NodesAndPlaces
    <3>3. Last(kept) = chain.obj[p[k]].key
      BY <1>5, <1>6, <2>2, <3>2 DEF Last
    <3>4. PICK j \in 1 .. Len(p) :
            /\ chain.obj[p[j]].key = Last(kept)
            /\ MapRemoveKey(chain, Last(kept)) = Unlinked(chain, Before(chain, j - 1))
      BY <3>1, <3>2, <3>3, MapRemovePlace
    <3>5. j = k
      <4>1. p[j] = p[k]
        BY <3>1, <3>2, <3>3, <3>4 DEF MapSound, OneNodePerKey
      <4>2. QED
        BY <1>5, <1>6, <4>1
    <3>6. MapSound(d)
      BY <1>6, <3>1, MapSoundRemoved
    <3>7. QED
      BY <1>1, <2>2, <3>4, <3>5, <3>6 DEF MapDelObj, SoundFor
  <2>3. QED
    BY <1>1, <2>1, <2>2
<1>8. IterAt(cls, d, [itr EXCEPT !.idx = @ - 1], FALSE, Front(kept), late)
  BY <1>3, <1>4, <1>7, IterAtRemoved
<1> HIDE DEF d
<1>9. ContainerInv'
  BY <1>1, <1>7 DEF IndInv, ContainerInv
<1>10. IterInv'
  BY <1>1, <1>2, <1>7, <1>8 DEF IterInv
<1>11. QED
  BY <1>9, <1>10 DEF IndInv

LEMMA KeepsArrayDelObj ==
  ASSUME IndInv, ArrayDelObj
  PROVE  IndInv'
<1>1. /\ ~Idle /\ current /\ cls = "Array" /\ current' = FALSE
      /\ place' = ArrayPlace(itr.idx) /\ DOMAIN block' = DOMAIN block
      /\ UNCHANGED <<cls, chain, itr, kept, late>>
  BY DEF ArrayDelObj
<1>2. itr.idx \in Int /\ itr.idx >= -1 /\ itr.idx \in 0 .. ArrayLen - 1
  BY <1>1 DEF IndInv, IterInv
<1>3. place' \in 0 .. ArrayLen - 1
  <2>1. itr.idx < ArrayLen
    BY <1>2, IterablesAssumption
  <2>2. QED
    BY <1>1, <1>2, <2>1, ArrayPlaceIn
<1>4. ContainerInv'
  BY <1>1, <1>3 DEF IndInv, ContainerInv
<1>5. IterInv'
  BY <1>1, <1>2 DEF IterInv
<1>6. QED
  BY <1>4, <1>5 DEF IndInv

LEMMA KeepsIterDelete ==
  ASSUME IndInv, IterDelete
  PROVE  IndInv'
<1>1. Idle' /\ UNCHANGED <<cls, chain, block, place>>
  BY DEF IterDelete, Idle
<1>2. QED
  BY <1>1 DEF IndInv, ContainerInv, IterInv

-----------------------------------------------------------------------------
LEMMA StartsSound == Init => IndInv
<1> SUFFICES ASSUME Init PROVE IndInv
  OBVIOUS
<1>1. SoundFor(cls, chain)
  BY ListSoundEmpty, MapSoundEmpty DEF Init, SoundFor
<1>2. 0 \in 0 .. ArrayLen - 1
  BY IterablesAssumption
<1>3. ContainerInv
  BY <1>1, <1>2 DEF Init, ContainerInv
<1>4. IterInv
  BY DEF Init, IterInv, Idle
<1>5. QED
  BY <1>3, <1>4 DEF IndInv

LEMMA StepSound == IndInv /\ [Next]_vars => IndInv'
<1> SUFFICES ASSUME IndInv, [Next]_vars PROVE IndInv'
  OBVIOUS
<1>1. CASE UNCHANGED vars
  BY <1>1 DEF IndInv, ContainerInv, IterInv, Idle, vars
<1>2. CASE ListChange
  BY <1>2, KeepsListChange
<1>3. CASE MapChange
  BY <1>3, KeepsMapChange
<1>4. CASE Add
  BY <1>4, KeepsAdd
<1>5. CASE ArrayChange
  BY <1>5, KeepsArrayChange
<1>6. CASE ArrayCopy
  BY <1>6, KeepsArrayCopy
<1>7. CASE IterNew
  BY <1>7, KeepsIterNew
<1>8. CASE ChainNext
  BY <1>8, KeepsChainNext
<1>9. CASE ArrayNext
  BY <1>9, KeepsArrayNext
<1>10. CASE ChainDelObj
  BY <1>10, KeepsChainDelObj
<1>11. CASE ArrayDelObj
  BY <1>11, KeepsArrayDelObj
<1>12. CASE IterDelete
  BY <1>12, KeepsIterDelete
<1>13. QED
  BY <1>1, <1>2, <1>3, <1>4, <1>5, <1>6, <1>7, <1>8, <1>9, <1>10, <1>11, <1>12 DEF Next

LEMMA AlwaysSound == Spec => []IndInv
<1>1. QED
  BY StartsSound, StepSound, PTL DEF Spec

\* The Ids are those of the invariant.
LEMMA IdsAgree ==
  ASSUME IndInv
  PROVE  /\ Ids = IdsFor(cls, chain)
         /\ SoundFor(cls, chain)
         /\ IsInjective(Ids) /\ Ids \in Seq(Objs \cup Keys) /\ Len(Ids) = Len(Chain(chain))
         /\ \A i \in 1 .. Len(Ids) :
              Ids[i] = IF cls = "Map" THEN Held(chain)[i].key ELSE Held(chain)[i]
<1>1. SoundFor(cls, chain) /\ Ids = IdsFor(cls, chain)
  BY DEF IndInv, ContainerInv, Ids, Id, IdsFor
<1>2. QED
  BY <1>1, IdsFacts

\* What the run calls NodesSound holds for any numbers of nodes, objects and
\* keys, any length of an Array and any indexes: whatever operations are called
\* in whatever order, the pointers of a List or Map run once through every node
\* that is allocated, no object or key is there twice, and an Array is used
\* inside of its block only (list.c:162-359, map.c:127-198, array.c:79-160).
THEOREM ContainersSound == Spec => []NodesSound
<1>1. IndInv => NodesSound
  <2> SUFFICES ASSUME IndInv PROVE NodesSound
    OBVIOUS
  <2>1. ChainSound(chain, Elems(cls)) /\ IsInjective(Ids)
    BY IdsAgree, IdsFacts
  <2>2. QED
    BY <2>1 DEF NodesSound, ChainSound, RunsAlong, IndInv, ContainerInv
<1>2. QED
  BY <1>1, AlwaysSound, PTL

\* What the run calls IterInPlace holds for all of them, too: after any number
\* of steps, deletions through the Iter and additions behind it, an Iter on a
\* List or Map has returned and kept exactly what is in front of it, and
\* iter_is_last says so at the last element only (list.c:389-427,
\* map.c:269-316, iterable_class.c:24-33).
THEOREM IterStays == Spec => []IterInPlace
<1>1. IndInv => IterInPlace
  <2> SUFFICES ASSUME IndInv, ~Idle, cls # "Array"
               PROVE  /\ itr.idx = Len(kept) - 1
                      /\ kept = SubSeq(Ids, 1, Len(kept))
                      /\ IF itr.next = Null
                         THEN Len(Ids) = Len(kept) + late
                         ELSE itr.next = Chain(chain)[Len(kept) + 1]
                      /\ IsLast <=> Len(kept) + late = Len(Ids)
    BY DEF IterInPlace
  <2> DEFINE ids == Ids
             k == Len(kept)
  <2>1. ids \in Seq(Objs \cup Keys) /\ Len(ids) \in Nat
    BY IdsAgree
  <2>2. /\ itr = [next |-> itr.next, idx |-> k - 1]
        /\ kept \in Seq(Objs \cup Keys) /\ k \in Nat /\ k <= Len(ids)
        /\ \A i \in 1 .. k : kept[i] = ids[i]
        /\ late \in Nat
        /\ itr.next = Null => Len(ids) = k + late
        /\ itr.next # Null => late = 0 /\ k < Len(ids) /\ itr.next = Chain(chain)[k + 1]
    BY IdsAgree DEF IndInv, IterInv, IterAt
  <2> HIDE DEF ids
  <2>3. itr.idx = k - 1
    BY <2>2
  <2>4. kept = SubSeq(ids, 1, k)
    <3> HIDE DEF k
    <3>1. 1 \in Int /\ k \in Int /\ \A i \in 1 .. k : ids[i] \in Objs \cup Keys
      BY <2>1, <2>2
    <3>2. /\ SubSeq(ids, 1, k) \in Seq(Objs \cup Keys)
          /\ Len(SubSeq(ids, 1, k)) = IF 1 <= k THEN k - 1 + 1 ELSE 0
          /\ \A i \in 1 .. k - 1 + 1 : SubSeq(ids, 1, k)[i] = ids[1 + i - 1]
      BY ONLY <3>1, SubSeqProperties
    <3>3. Len(SubSeq(ids, 1, k)) = k /\ \A i \in 1 .. k : SubSeq(ids, 1, k)[i] = ids[i]
      <4>1. k \in Nat
        BY <2>2
      <4>2. \A i \in 1 .. k : 1 + i - 1 = i /\ i \in 1 .. k - 1 + 1
        BY <4>1
      <4>3. (IF 1 <= k THEN k - 1 + 1 ELSE 0) = k
        BY <4>1
      <4>4. QED
        BY <3>2, <4>2, <4>3
    <3>4. Len(kept) = k
      BY DEF k
    <3>5. QED
      BY <2>2, <3>2, <3>3, <3>4, SeqEqual
  <2>5. IsLast <=> k + late = Len(ids)
    <3>1. CASE itr.next = Null
      BY <2>2, <3>1 DEF IsLast
    <3>2. CASE itr.next # Null
      <4>1. ~IsLast
        BY <3>2 DEF IsLast
      <4>2. k + late # Len(ids)
        BY <2>1, <2>2, <3>2
      <4>3. QED
        BY <4>1, <4>2
    <3>3. QED
      BY <3>1, <3>2
  <2>6. QED
    BY <2>2, <2>3, <2>4, <2>5 DEF ids
<1>2. QED
  BY <1>1, AlwaysSound, PTL

-----------------------------------------------------------------------------
(***************************************************************************)
(* What the operations do to the elements.                                 *)
(***************************************************************************)
LEMMA IndexOps ==
  ASSUME NEW c, ListSound(c), Allocated(c) # Nodes,
         NEW idx \in Int, NEW o \in Objs
  PROVE  LET s == Held(c)
             at == PlaceOf(Len(s), idx)
         IN  /\ ListGetAt(c, idx) = IF at < Len(s) THEN s[at + 1] ELSE Null
             /\ Held(ListInsertAt(c, idx, o)) =
                  IF at <= Len(s) /\ (s # << >> \/ idx \in {0, -1})
                  THEN InsertAt(s, at + 1, o) ELSE s
             /\ Held(ListInsertAfter(c, idx, o)) =
                  IF at < Len(s) THEN InsertAt(s, at + 2, o) ELSE s
             /\ Held(ListSetAt(c, idx, o)) =
                  IF at < Len(s) THEN ReplaceAt(s, at + 1, o) ELSE s
             /\ Held(ListRemoveAt(c, idx)) =
                  IF at < Len(s) THEN RemoveAt(s, at + 1) ELSE s
<1> DEFINE s == Held(c)
           n == Len(Chain(c))
           at == PlaceOf(n, idx)
<1>1. ChainSound(c, Objs) /\ Null \notin Objs
  BY NullIsNothing DEF ListSound
<1>2. /\ Len(s) = n /\ n \in Nat /\ (s = << >> <=> n = 0)
      /\ \A i \in 1 .. n : s[i] = c.obj[Chain(c)[i]] /\ Chain(c)[i] # Null
  BY <1>1, ChainFacts
<1>3. at \in Nat /\ NodeAt(c, idx) = IF at < n THEN Chain(c)[at + 1] ELSE Null
  BY <1>1, NodeAtPlace
<1>4. /\ ListInsertAt(c, idx, o) =
           IF at <= n /\ (n # 0 \/ idx \in {0, -1}) THEN Linked(c, Before(c, at), o) ELSE c
      /\ ListInsertAfter(c, idx, o) =
           IF at < n THEN Linked(c, Before(c, at + 1), o) ELSE c
      /\ ListRemoveAt(c, idx) = IF at < n THEN Unlinked(c, Before(c, at)) ELSE c
  BY <1>1, InsertPlace, InsertAfterPlace, RemovePlace
<1>5. \A j \in 0 .. n : Held(Linked(c, Before(c, j), o)) = InsertAt(s, j + 1, o)
  BY <1>1, LinkedSound
<1>6. \A j \in 1 .. n : Held(Unlinked(c, Before(c, j - 1))) = RemoveAt(s, j)
  BY <1>1, UnlinkedSound
<1>7. \A j \in 1 .. n : Held([c EXCEPT !.obj[Chain(c)[j]] = o]) = [s EXCEPT ![j] = o]
  BY <1>1, ObjSetSound
<1>8. Held(c) = s
  OBVIOUS
<1> HIDE DEF s, n, at
<1>9. /\ at <= n => at \in 0 .. n
      /\ at < n => at + 1 \in 0 .. n /\ at + 1 \in 1 .. n /\ (at + 1) - 1 = at
                   /\ (at + 1) + 1 = at + 2
  BY <1>2, <1>3
<1>10. ListGetAt(c, idx) = IF at < n THEN s[at + 1] ELSE Null
  BY <1>2, <1>3, <1>9 DEF ListGetAt
<1>11. Held(ListInsertAt(c, idx, o)) =
         IF at <= n /\ (s # << >> \/ idx \in {0, -1}) THEN InsertAt(s, at + 1, o) ELSE s
  BY <1>2, <1>4, <1>5, <1>8, <1>9
<1>12. Held(ListInsertAfter(c, idx, o)) = IF at < n THEN InsertAt(s, at + 2, o) ELSE s
  <2>1. CASE at < n
    <3>1. Held(Linked(c, Before(c, at + 1), o)) = InsertAt(s, (at + 1) + 1, o)
      BY <1>5, <1>9, <2>1
    <3>2. QED
      BY <1>4, <1>9, <2>1, <3>1
  <2>2. CASE ~(at < n)
    BY <1>4, <1>8, <2>2
  <2>3. QED
    BY <2>1, <2>2
<1>13. Held(ListSetAt(c, idx, o)) = IF at < n THEN ReplaceAt(s, at + 1, o) ELSE s
  <2>1. CASE at < n
    <3>1. Held([c EXCEPT !.obj[Chain(c)[at + 1]] = o]) = [s EXCEPT ![at + 1] = o]
      BY <1>7, <1>9, <2>1
    <3>2. ListSetAt(c, idx, o) = [c EXCEPT !.obj[Chain(c)[at + 1]] = o]
      BY <1>2, <1>3, <1>9, <2>1 DEF ListSetAt
    <3>3. QED
      BY <2>1, <3>1, <3>2 DEF ReplaceAt
  <2>2. CASE ~(at < n)
    BY <1>3, <1>8, <2>2 DEF ListSetAt
  <2>3. QED
    BY <2>1, <2>2
<1>14. Held(ListRemoveAt(c, idx)) = IF at < n THEN RemoveAt(s, at + 1) ELSE s
  <2>1. CASE at < n
    <3>1. Held(Unlinked(c, Before(c, (at + 1) - 1))) = RemoveAt(s, at + 1)
      BY <1>6, <1>9, <2>1
    <3>2. QED
      BY <1>4, <1>9, <2>1, <3>1
  <2>2. CASE ~(at < n)
    BY <1>4, <1>8, <2>2
  <2>3. QED
    BY <2>1, <2>2
<1>15. at = PlaceOf(Len(s), idx)
  BY <1>2 DEF at
<1>16. QED
  BY <1>2, <1>10, <1>11, <1>12, <1>13, <1>14, <1>15 DEF s

LEMMA SortedInOrder ==
  ASSUME NEW c, ListSound(c), Allocated(c) # Nodes, NEW o \in Objs, InRankOrder(Held(c))
  PROVE  InRankOrder(Held(ListSortedIn(c, o)))
<1> DEFINE s == Held(c)
           n == Len(Chain(c))
           t == Held(ListSortedIn(c, o))
           rank(i) == Rank[s[i]]
<1>1. ChainSound(c, Objs) /\ Null \notin Objs
  BY NullIsNothing DEF ListSound
<1>2. /\ s \in Seq(Objs) /\ Len(s) = n /\ n \in Nat /\ DOMAIN s = 1 .. n
      /\ \A i \in 1 .. n : s[i] = c.obj[Chain(c)[i]]
  BY <1>1, ChainFacts
<1>3. PICK j \in 0 .. n :
           /\ ListSortedIn(c, o) = Linked(c, Before(c, j), o)
           /\ \A k \in 1 .. j : ~(Rank[c.obj[Chain(c)[k]]] > Rank[o])
           /\ j # n => Rank[c.obj[Chain(c)[j + 1]]] > Rank[o]
  BY <1>1, SortedPlace
<1>4. t = InsertAt(s, j + 1, o)
  BY <1>1, <1>3, LinkedSound
<1> HIDE DEF n, t
<1>5. /\ Len(t) = n + 1 /\ t \in Seq(Objs)
      /\ \A i \in 1 .. n + 1 : t[i] = IF i < j + 1 THEN s[i] ELSE IF i = j + 1 THEN o ELSE s[i - 1]
  <2> HIDE DEF s
  <2>a. Len(s) = n
    BY <1>2
  <2>1. j + 1 \in 1 .. Len(s) + 1 /\ s \in Seq(Objs) /\ o \in Objs
    BY <1>2
  <2>2. /\ t \in Seq(Objs) /\ Len(t) = Len(s) + 1
        /\ t[j + 1] = o
        /\ \A i \in 1 .. (j + 1) - 1 : t[i] = s[i]
        /\ \A i \in (j + 1) + 1 .. Len(s) + 1 : t[i] = s[i - 1]
    <3> DEFINE m == j + 1
    <3>1. m \in 1 .. Len(s) + 1 /\ t = InsertAt(s, m, o)
      BY <1>4, <2>1
    <3> HIDE DEF m
    <3>a. InsertAt(s, m, o)[m] = o
      BY <2>1, <3>1, InsertAtItself, Zenon
    <3>2. /\ InsertAt(s, m, o) \in Seq(Objs)
          /\ Len(InsertAt(s, m, o)) = Len(s) + 1
          /\ \A i \in 1 .. m - 1 : InsertAt(s, m, o)[i] = s[i]
          /\ \A i \in m + 1 .. Len(s) + 1 : InsertAt(s, m, o)[i] = s[i - 1]
      <4>1. s \in Seq(Objs) /\ m \in 1 .. Len(s) + 1 /\ o \in Objs
        BY <2>1, <3>1
      <4>b. InsertAt(s, m, o) \in Seq(Objs)
        BY <4>1, InsertAtElements, SMT
      <4>c. Len(InsertAt(s, m, o)) = Len(s) + 1
        BY <4>1, InsertAtElements, SMT
      <4>d. \A i \in 1 .. m - 1 : InsertAt(s, m, o)[i] = s[i]
        BY <4>1, InsertAtElements, SMT
      <4>e. \A i \in m + 1 .. Len(s) + 1 : InsertAt(s, m, o)[i] = s[i - 1]
        BY <4>1, InsertAtElements, SMT
      <4>f. QED
        BY <4>b, <4>c, <4>d, <4>e, Zenon
    <3>3. QED
      BY <3>1, <3>2, <3>a, Zenon DEF m
  <2>3. j \in Int /\ n \in Int
    BY <1>2
  <2>4. QED
    BY ONLY <2>a, <2>1, <2>2, <2>3
<1>6. Rank[o] \in Int /\ \A i \in 1 .. n : rank(i) \in Int
  BY <1>2, IterablesAssumption
<1>7. \A i, k \in 1 .. n : i < k => rank(i) <= rank(k)
  BY <1>2 DEF InRankOrder
<1>8. \A k \in 1 .. j : rank(k) <= Rank[o]
  <2> SUFFICES ASSUME NEW k \in 1 .. j PROVE rank(k) <= Rank[o]
    OBVIOUS
  <2>1. k \in 1 .. n
    BY <1>2
  <2>2. ~(rank(k) > Rank[o])
    BY <1>2, <1>3, <2>1
  <2>3. QED
    BY <1>6, <2>1, <2>2
<1>9. \A k \in j + 1 .. n : Rank[o] <= rank(k)
  <2> SUFFICES ASSUME NEW k \in j + 1 .. n PROVE Rank[o] <= rank(k)
    OBVIOUS
  <2>1. j + 1 \in 1 .. n /\ k \in 1 .. n /\ j # n
    BY <1>2
  <2>2. rank(j + 1) > Rank[o]
    BY <1>2, <1>3, <2>1
  <2>3. k = j + 1 \/ rank(j + 1) <= rank(k)
    BY <1>7, <2>1
  <2>4. QED
    BY <1>6, <2>1, <2>2, <2>3
<1> HIDE DEF s
<1>10. ASSUME NEW i \in 1 .. n + 1, NEW k \in 1 .. n + 1, i < k
       PROVE  Rank[t[i]] <= Rank[t[k]]
  <2> HIDE DEF rank
  <2>1. \A m \in 1 .. n + 1 : Rank[t[m]] = IF m < j + 1 THEN rank(m)
                                           ELSE IF m = j + 1 THEN Rank[o] ELSE rank(m - 1)
    BY <1>5 DEF rank
  <2>2. CASE k < j + 1
    <3>1. i < j + 1 /\ i \in 1 .. n /\ k \in 1 .. n
      BY <1>2, <1>10, <2>2
    <3>2. QED
      BY <1>7, <1>10, <2>1, <2>2, <3>1
  <2>3. CASE k = j + 1
    <3>1. i \in 1 .. j /\ i < j + 1
      BY <1>10, <2>3
    <3>2. QED
      BY <1>8, <2>1, <2>3, <3>1
  <2>4. CASE k > j + 1
    <3>1. k - 1 \in j + 1 .. n /\ k - 1 \in 1 .. n /\ ~(k < j + 1) /\ k # j + 1
      BY <1>2, <2>4
    <3>2. Rank[t[k]] = rank(k - 1) /\ Rank[o] <= rank(k - 1)
      BY <1>9, <2>1, <3>1
    <3>3. CASE i < j + 1
      <4>1. i \in 1 .. n /\ i < k - 1
        BY <1>2, <2>4, <3>3
      <4>2. QED
        BY <1>7, <2>1, <3>1, <3>2, <3>3, <4>1
    <3>4. CASE i = j + 1
      BY <2>1, <3>2, <3>4
    <3>5. CASE i > j + 1
      <4>1. i - 1 \in 1 .. n /\ i - 1 < k - 1 /\ ~(i < j + 1) /\ i # j + 1
        BY <1>2, <1>10, <3>5
      <4>2. QED
        BY <1>7, <2>1, <3>1, <3>2, <4>1
    <3>6. QED
      BY <3>3, <3>4, <3>5
  <2>5. QED
    BY <2>2, <2>3, <2>4
<1>11. DOMAIN t = 1 .. n + 1
  BY <1>5
<1>12. QED
  BY <1>10, <1>11 DEF InRankOrder, t

\* The value of a key is that of the node that has it.
LEMMA MapGetFound ==
  ASSUME NEW c, MapSound(c), NEW key
  PROVE  \/ /\ \A node \in Allocated(c) : c.obj[node].key # key
            /\ NodeByKey(c, key) = Null
            /\ MapGet(c, key) = Null
         \/ \E node \in Allocated(c) :
              /\ c.obj[node].key = key
              /\ MapGet(c, key) = c.obj[node].value
              /\ NodeByKey(c, key) = node
<1>1. ChainSound(c, Entries)
  BY DEF MapSound
<1>2. \A j \in 1 .. Len(Chain(c)) : Chain(c)[j] \in Allocated(c) /\ Chain(c)[j] # Null
  BY <1>1, ChainFacts, NodesAndPlaces
<1>3. CASE /\ NodeByKey(c, key) = Null
           /\ \A node \in Allocated(c) : c.obj[node].key # key
  BY <1>3 DEF MapGet
<1>4. CASE \E j \in 1 .. Len(Chain(c)) :
             NodeByKey(c, key) = Chain(c)[j] /\ c.obj[Chain(c)[j]].key = key
  <2>1. PICK j \in 1 .. Len(Chain(c)) :
             NodeByKey(c, key) = Chain(c)[j] /\ c.obj[Chain(c)[j]].key = key
    BY <1>4
  <2>2. MapGet(c, key) = c.obj[Chain(c)[j]].value
    BY <1>2, <2>1 DEF MapGet
  <2>3. QED
    BY <1>2, <2>1, <2>2
<1>5. QED
  BY <1>1, <1>3, <1>4, NodeByKeyFound

\* Two maps with the same entry of a key, or none, give the same value for it.
LEMMA SameValue ==
  ASSUME NEW c, MapSound(c), NEW d, MapSound(d), NEW other,
         \A n \in Allocated(c) : c.obj[n].key = other => n \in Allocated(d) /\ d.obj[n] = c.obj[n],
         \A n \in Allocated(d) : d.obj[n].key = other => n \in Allocated(c) /\ d.obj[n] = c.obj[n]
  PROVE  MapGet(d, other) = MapGet(c, other)
<1>1. MapSound(d)
  OBVIOUS
<1>2. /\ \A n \in Allocated(c) : c.obj[n].key = other => n \in Allocated(d) /\ d.obj[n] = c.obj[n]
      /\ \A n \in Allocated(d) : d.obj[n].key = other => n \in Allocated(c) /\ d.obj[n] = c.obj[n]
  OBVIOUS
<1>3. CASE \A n \in Allocated(c) : c.obj[n].key # other
  <2>1. \A n \in Allocated(d) : d.obj[n].key # other
    BY <1>2, <1>3
  <2>2. MapGet(c, other) = Null
    BY <1>3, MapGetFound
  <2>3. MapGet(d, other) = Null
    BY ONLY <1>1, <2>1, MapGetFound
  <2>4. QED
    BY <2>2, <2>3
<1>4. CASE \E n \in Allocated(c) : c.obj[n].key = other
  <2>1. PICK n \in Allocated(c) : c.obj[n].key = other /\ MapGet(c, other) = c.obj[n].value
    BY <1>4, MapGetFound
  <2>2. n \in Allocated(d) /\ d.obj[n] = c.obj[n]
    BY <1>2, <2>1
  <2>3. PICK m \in Allocated(d) : d.obj[m].key = other /\ MapGet(d, other) = d.obj[m].value
    <3>1. \E m \in Allocated(d) : d.obj[m].key = other
      BY <2>1, <2>2
    <3>2. QED
      BY ONLY <1>1, <3>1, MapGetFound
  <2>4. m = n
    BY <2>1, <2>2, <2>3 DEF MapSound, OneNodePerKey
  <2>5. QED
    BY <2>1, <2>2, <2>3, <2>4
<1>5. QED
  BY <1>3, <1>4

LEMMA KeyOps ==
  ASSUME NEW c, MapSound(c), Allocated(c) # Nodes, NEW key \in Keys, NEW value \in Objs
  PROVE  /\ MapGet(MapSet(c, key, value), key) = value
         /\ NodeByKey(MapRemoveKey(c, key), key) = Null
         /\ \A other \in Keys \ {key} :
              /\ MapGet(MapSet(c, key, value), other) = MapGet(c, other)
              /\ MapGet(MapRemoveKey(c, key), other) = MapGet(c, other)
<1> DEFINE e == [key |-> key, value |-> value]
           d == MapSet(c, key, value)
           r == MapRemoveKey(c, key)
<1>1. /\ ChainSound(c, Entries) /\ Null \notin Entries /\ e \in Entries
      /\ c.obj \in [Nodes -> Entries \cup {Null}] /\ ToSet(Chain(c)) = Allocated(c)
  BY NullIsNothing DEF MapSound, ChainSound, ChainType, RunsAlong, Entries
<1>2. MapSound(d) /\ MapSound(r)
  BY MapSoundSet, MapSoundKeyRemoved
<1>3. \E node \in Nodes : /\ d.obj = [c.obj EXCEPT ![node] = e]
                          /\ node \in Allocated(c) => c.obj[node].key = key
  <2>1. CASE d = ListAppend(c, e)
    <3> DEFINE f == Linked(c, Before(c, Len(Chain(c))), e)
    <3>1. ListAppend(c, e) = f /\ Len(Chain(c)) \in 0 .. Len(Chain(c))
      BY <1>1, AppendPlace, ChainFacts
    <3>2. \E new \in Nodes \ ToSet(Chain(c)) :
            /\ Chain(f) = InsertAt(Chain(c), Len(Chain(c)) + 1, new)
            /\ f.obj = [c.obj EXCEPT ![new] = e]
      <4>1. \A j \in 0 .. Len(Chain(c)) : \E new \in Nodes \ ToSet(Chain(c)) :
              /\ Chain(Linked(c, Before(c, j), e)) = InsertAt(Chain(c), j + 1, new)
              /\ Linked(c, Before(c, j), e).obj = [c.obj EXCEPT ![new] = e]
        BY <1>1, LinkedSound
      <4>2. QED
        BY <3>1, <4>1
    <3> HIDE DEF d, e, f
    <3>3. QED
      BY <1>1, <2>1, <3>1, <3>2
  <2>2. ASSUME NEW j \in 1 .. Len(Chain(c)), c.obj[Chain(c)[j]].key = key,
               d = [c EXCEPT !.obj[Chain(c)[j]] = e]
        PROVE  \E node \in Nodes : /\ d.obj = [c.obj EXCEPT ![node] = e]
                                   /\ node \in Allocated(c) => c.obj[node].key = key
    <3>1. Chain(c)[j] \in Nodes
      BY <1>1, ChainFacts
    <3>2. c \in [head : NodesOrNull, next : [Nodes -> NodesOrNull],
                 obj : [Nodes -> Entries \cup {Null}]]
      BY <1>1 DEF ChainSound, ChainType
    <3> HIDE DEF d, e
    <3>3. d.obj = [c.obj EXCEPT ![Chain(c)[j]] = e]
      BY <2>2, <3>2
    <3>4. QED
      BY <2>2, <3>1, <3>3
  <2>3. value \in Objs \cup {Null}
    OBVIOUS
  <2>4. QED
    BY <2>1, <2>2, <2>3, MapSetPlace
<1>4. \/ (r = c /\ \A node \in Allocated(c) : c.obj[node].key # key)
      \/ \E node \in Nodes : r.obj = [c.obj EXCEPT ![node] = Null] /\ c.obj[node].key = key
                             /\ node \in Allocated(c)
  <2>1. ASSUME NEW j \in 1 .. Len(Chain(c)), c.obj[Chain(c)[j]].key = key,
               r = Unlinked(c, Before(c, j - 1))
        PROVE  \E node \in Nodes : r.obj = [c.obj EXCEPT ![node] = Null] /\ c.obj[node].key = key
                                   /\ node \in Allocated(c)
    <3>1. Chain(c)[j] \in Nodes /\ Chain(c)[j] \in Allocated(c)
      BY <1>1, ChainFacts, NodesAndPlaces
    <3>2. r.obj = [c.obj EXCEPT ![Chain(c)[j]] = Null]
      BY <1>1, <2>1, UnlinkedSound
    <3> HIDE DEF r
    <3>3. QED
      BY <2>1, <3>1, <3>2
  <2>2. QED
    BY <2>1, MapRemovePlace
<1>5. PICK node \in Nodes : /\ d.obj = [c.obj EXCEPT ![node] = e]
                            /\ node \in Allocated(c) => c.obj[node].key = key
  BY <1>3
<1> HIDE DEF d, r
<1>6. MapGet(d, key) = value
  <2>1. node \in Allocated(d) /\ d.obj[node] = e
    BY <1>1, <1>5 DEF Allocated
  <2>2. PICK m \in Allocated(d) : d.obj[m].key = key /\ MapGet(d, key) = d.obj[m].value
    BY <1>2, <2>1, MapGetFound
  <2>3. m = node
    BY <1>2, <2>1, <2>2 DEF MapSound, OneNodePerKey
  <2>4. QED
    BY <2>1, <2>2, <2>3
<1>7. NodeByKey(r, key) = Null
  <2>1. CASE r = c /\ \A n \in Allocated(c) : c.obj[n].key # key
    BY <2>1, MapGetFound
  <2>2. CASE \E n \in Nodes : r.obj = [c.obj EXCEPT ![n] = Null] /\ c.obj[n].key = key
                              /\ n \in Allocated(c)
    <3>1. PICK n \in Nodes : r.obj = [c.obj EXCEPT ![n] = Null] /\ c.obj[n].key = key
                             /\ n \in Allocated(c)
      BY <2>2
    <3>2. \A m \in Allocated(r) : m # n /\ r.obj[m] = c.obj[m] /\ m \in Allocated(c)
      BY <1>1, <3>1 DEF Allocated
    <3>3. \A m \in Allocated(r) : r.obj[m].key # key
      BY <3>1, <3>2 DEF MapSound, OneNodePerKey
    <3>4. QED
      BY <1>2, <3>3, MapGetFound
  <2>3. QED
    BY <1>4, <2>1, <2>2
<1>8. ASSUME NEW other \in Keys \ {key}
      PROVE  MapGet(d, other) = MapGet(c, other) /\ MapGet(r, other) = MapGet(c, other)
  <2>1. MapGet(d, other) = MapGet(c, other)
    <3>1. d.obj[node] = e /\ \A n \in Nodes : n # node => d.obj[n] = c.obj[n]
      BY <1>1, <1>5
    <3>2. \A n \in Allocated(c) : c.obj[n].key = other => n \in Allocated(d) /\ d.obj[n] = c.obj[n]
      BY <1>5, <3>1 DEF Allocated
    <3>3. \A n \in Allocated(d) : d.obj[n].key = other => n \in Allocated(c) /\ d.obj[n] = c.obj[n]
      BY <3>1 DEF Allocated
    <3>4. MapSound(c) /\ MapSound(d)
      BY <1>2
    <3>5. QED
      BY ONLY <3>2, <3>3, <3>4, SameValue
  <2>2. MapGet(r, other) = MapGet(c, other)
    <3>1. CASE r = c
      BY <3>1
    <3>2. ASSUME NEW n \in Nodes, r.obj = [c.obj EXCEPT ![n] = Null], c.obj[n].key = key
          PROVE  MapGet(r, other) = MapGet(c, other)
      <4>1. r.obj[n] = Null /\ \A m \in Nodes : m # n => r.obj[m] = c.obj[m]
        BY <1>1, <3>2
      <4>2. \A m \in Allocated(c) : c.obj[m].key = other => m \in Allocated(r) /\ r.obj[m] = c.obj[m]
        BY <3>2, <4>1 DEF Allocated
      <4>3. \A m \in Allocated(r) : r.obj[m].key = other => m \in Allocated(c) /\ r.obj[m] = c.obj[m]
        BY <4>1 DEF Allocated
      <4>4. MapSound(c) /\ MapSound(r)
        BY <1>2
      <4>5. QED
        BY ONLY <4>2, <4>3, <4>4, SameValue
    <3>3. QED
      BY <1>4, <3>1, <3>2
  <2>3. QED
    BY <2>1, <2>2
<1>9. QED
  BY <1>6, <1>7, <1>8 DEF d, r

\* map_get_keys and map_get_values list what the nodes hold, in their order.
LEMMA MapLists ==
  ASSUME NEW c, MapSound(c)
  PROVE  /\ Held(MapKeys(c)) = [k \in DOMAIN Held(c) |-> Held(c)[k].key]
         /\ Len(Held(MapValues(c))) = Len(Held(c))
         /\ \A k \in DOMAIN Held(c) :
              MapGet(c, Held(c)[k].key) \in {Null, Held(MapValues(c))[k]}
<1> DEFINE h == Held(c)
           n == Len(Chain(c))
           keys == [k \in DOMAIN h |-> h[k].key]
           values == [k \in DOMAIN h |-> IF h[k].value = Null THEN "none" ELSE h[k].value]
           V == Objs \cup {"none"}
<1>1. /\ ChainSound(c, Entries) /\ Null \notin Keys /\ Null \notin V
      /\ h \in Seq(Entries) /\ Len(h) = n /\ n \in Nat /\ DOMAIN h = 1 .. n /\ HasRoom(n)
      /\ \A i \in 1 .. n : h[i] = c.obj[Chain(c)[i]] /\ Chain(c)[i] \in Allocated(c)
  <2>1. ChainSound(c, Entries)
    BY DEF MapSound
  <2>2. HasRoom(Len(Held(c)))
    BY <2>1, NodesAndPlaces
  <2>3. QED
    BY <2>1, <2>2, NullIsNothing, ChainFacts, NodesAndPlaces
<1>2. MapKeys(c) = ListOf(keys) /\ MapValues(c) = ListOf(values)
  BY DEF MapKeys, MapValues
<1> HIDE DEF h, n
<1>3. \A k \in 1 .. n : h[k] \in Entries
  BY <1>1
<1>4. keys \in Seq(Keys) /\ Len(keys) = n
  <2>1. \A k \in 1 .. n : h[k].key \in Keys
    BY <1>3 DEF Entries
  <2>2. QED
    BY <1>1, <2>1
<1>5. values \in Seq(V) /\ Len(values) = n
  <2>1. \A k \in 1 .. n : (IF h[k].value = Null THEN "none" ELSE h[k].value) \in V
    BY <1>3 DEF Entries
  <2> HIDE DEF V
  <2>2. QED
    BY <1>1, <2>1
<1>6. \A k \in 1 .. n : values[k] = IF h[k].value = Null THEN "none" ELSE h[k].value
  BY <1>1
<1> HIDE DEF keys, values, V
<1>7. Held(ListOf(keys)) = keys
  BY <1>1, <1>4, ListOfSound
<1>8. Held(ListOf(values)) = values
  BY <1>1, <1>5, ListOfSound
<1>9. \A k \in 1 .. n : MapGet(c, h[k].key) \in {Null, values[k]}
  <2> SUFFICES ASSUME NEW k \in 1 .. n PROVE MapGet(c, h[k].key) \in {Null, values[k]}
    OBVIOUS
  <2>1. Chain(c)[k] \in Allocated(c) /\ c.obj[Chain(c)[k]] = h[k]
    BY <1>1
  <2>2. PICK node \in Allocated(c) :
          c.obj[node].key = h[k].key /\ MapGet(c, h[k].key) = c.obj[node].value
    BY <2>1, MapGetFound
  <2>3. node = Chain(c)[k]
    BY <2>1, <2>2 DEF MapSound, OneNodePerKey
  <2>4. MapGet(c, h[k].key) = h[k].value
    BY <2>1, <2>2, <2>3
  <2>5. QED
    BY <1>6, <2>4
<1>10. QED
  BY <1>1, <1>2, <1>4, <1>5, <1>7, <1>8, <1>9 DEF h, n, keys

\* What the run calls OpsAgree holds for any index, however far from the list,
\* and for any ranks, keys and values: an index means the same place to every
\* operation of a List, counted from the front or the end (list.c:128-359), what
\* is sorted into a sorted List leaves it sorted (list.c:259-287), setting or
\* removing a key leaves the values of all others (map.c:96-205), and copies and
\* the lists of keys and values hold the same in the same order, a NULL value in
\* its place (list.c:42-56, map.c:43-62, 207-220).
THEOREM OperationsAgree == Spec => []OpsAgree
<1>1. IndInv => OpsAgree
  <2> SUFFICES ASSUME IndInv PROVE OpsAgree
    OBVIOUS
  <2>1. SoundFor(cls, chain)
    BY DEF IndInv, ContainerInv
  <2>2. IndexOpsAgree
    <3> SUFFICES ASSUME cls = "List", CanAllocate, NEW idx \in Indexes,
                        NEW o \in Objs \ ToSet(Held(chain))
                 PROVE  LET s == Held(chain)
                            at == PlaceOf(Len(s), idx)
                        IN
                        /\ ListGetAt(chain, idx) = IF at < Len(s) THEN s[at + 1] ELSE Null
                        /\ Held(ListInsertAt(chain, idx, o)) =
                             IF at <= Len(s) /\ (s # << >> \/ idx \in {0, -1})
                             THEN InsertAt(s, at + 1, o) ELSE s
                        /\ Held(ListInsertAfter(chain, idx, o)) =
                             IF at < Len(s) THEN InsertAt(s, at + 2, o) ELSE s
                        /\ Held(ListSetAt(chain, idx, o)) =
                             IF at < Len(s) THEN ReplaceAt(s, at + 1, o) ELSE s
                        /\ Held(ListRemoveAt(chain, idx)) =
                             IF at < Len(s) THEN RemoveAt(s, at + 1) ELSE s
                        /\ InRankOrder(s) => InRankOrder(Held(ListSortedIn(chain, o)))
      BY DEF IndexOpsAgree
    <3>1. ListSound(chain) /\ Allocated(chain) # Nodes /\ idx \in Int /\ o \in Objs
      BY <2>1, IndexIsInt DEF SoundFor, CanAllocate
    <3>2. InRankOrder(Held(chain)) => InRankOrder(Held(ListSortedIn(chain, o)))
      BY <3>1, SortedInOrder
    <3>3. QED
      BY <3>1, <3>2, IndexOps
  <2>3. KeyOpsAgree
    BY <2>1, KeyOps DEF KeyOpsAgree, SoundFor, CanAllocate
  <2>4. CopiesAgree
    <3>1. CASE cls = "List"
      BY <2>1, <3>1, ListSoundCopied DEF CopiesAgree, SoundFor
    <3>2. CASE cls = "Map"
      <4>1. MapSound(chain)
        BY <2>1, <3>2 DEF SoundFor
      <4>2. /\ Held(MapCopy(chain)) = Held(chain)
            /\ Held(MapKeys(chain)) = [k \in DOMAIN Held(chain) |-> Held(chain)[k].key]
            /\ Len(Held(MapValues(chain))) = Len(Held(chain))
            /\ \A k \in DOMAIN Held(chain) :
                 MapGet(chain, Held(chain)[k].key) \in {Null, Held(MapValues(chain))[k]}
        BY <4>1, MapSoundCopied, MapLists
      <4>3. Ids = [k \in DOMAIN Held(chain) |-> Held(chain)[k].key]
        BY <3>2 DEF Ids, Id
      <4>4. DOMAIN Ids = DOMAIN Held(chain)
            /\ \A k \in DOMAIN Ids : Ids[k] = Held(chain)[k].key
        BY <4>3
      <4>5. Len(Ids) = Len(Held(chain))
        <5>1. ChainSound(chain, Entries)
          BY <4>1 DEF MapSound
        <5>2. QED
          BY <5>1, IdsAgree, ChainFacts
      <4>6. QED
        BY <3>2, <4>2, <4>3, <4>4, <4>5 DEF CopiesAgree
    <3>3. CASE cls = "Array"
      BY <3>3 DEF CopiesAgree
    <3>4. QED
      BY <3>1, <3>2, <3>3 DEF IndInv, ContainerInv
  <2>5. QED
    BY <2>2, <2>3, <2>4 DEF OpsAgree
<1>2. QED
  BY <1>1, AlwaysSound, PTL
=============================================================================
