-------------------------- MODULE MemTracer_proofs ---------------------------
(***************************************************************************)
(* That the table of the tracer is right and that the logger releases what *)
(* it takes, for every size of the table and for every allocator, program  *)
(* and use of the logger.  Each call of the tracer keeps the memory sound  *)
(* if it is handed an address that is not in use, and every step of Log    *)
(* makes such calls only; and the blocks in use are parted among those     *)
(* that use them.                                                          *)
(***************************************************************************)
EXTENDS Log, FiniteSetTheorems, FunctionTheorems, SequenceTheorems,
        WellFoundedInduction, TLAPS

-----------------------------------------------------------------------------
\* A loop that looks for something that is there finds it.
LEMMA FirstFound ==
  ASSUME NEW S \in SUBSET Slots, S # {}
  PROVE  First(S) \in S
<1>1. Slots \subseteq Nat
  BY MemTracerAssumption DEF Slots
<1>2. PICK x \in S : \A y \in S : ~(<<y, x>> \in OpToRel(<, Nat))
  BY <1>1, NatLessThanWellFounded, WFMin
<1>3. ASSUME NEW y \in S
      PROVE  x <= y
  <2>1. ~(<<y, x>> \in OpToRel(<, Nat))
    BY <1>2
  <2>2. x \in Nat /\ y \in Nat
    BY <1>1
  <2>3. ~(y < x)
    BY <2>1, <2>2 DEF OpToRel
  <2>4. QED
    BY <2>2, <2>3
<1>4. \E i \in S : \A j \in S : i <= j
  BY <1>3
<1>5. QED
  BY <1>4 DEF First

-----------------------------------------------------------------------------
Entry == [ptr : Ptrs \cup {NULL}, size : Nat]

MemType(m) ==
  m \in [tracing : BOOLEAN, entries : [Slots -> Entry], count : Nat,
         max : {0, MaxEntries}, table : Ptrs \cup {NULL}, live : SUBSET Ptrs,
         exited : BOOLEAN, asked : [Ptrs -> Nat]]

\* What every call keeps: while it traces, all slots are in use by the tracer, and
\* the table is right.
MemSound(m) ==
  /\ MemType(m)
  /\ m.tracing => m.max = MaxEntries
  /\ m.tracing /\ ~m.exited => Traced(m)

\* The slots in use are finitely many, and not all if they are fewer.
LEMMA UsedFinite ==
  ASSUME NEW S \in SUBSET Slots
  PROVE  /\ IsFiniteSet(S)
         /\ Cardinality(S) \in Nat
         /\ Cardinality(S) < MaxEntries => \E i \in Slots : i \notin S
<1>1. IsFiniteSet(Slots) /\ Cardinality(Slots) = MaxEntries
  BY FS_Interval, MemTracerAssumption DEF Slots
<1>2. IsFiniteSet(S) /\ Cardinality(S) \in Nat
  BY <1>1, FS_Subset, FS_CardinalityType
<1>3. Cardinality(S) < MaxEntries => S # Slots
  BY <1>1, MemTracerAssumption, <1>2
<1>4. QED
  BY <1>2, <1>3

\* A new block gets an entry in an unused slot.
LEMMA EntryAdded ==
  ASSUME NEW m, NEW n, MemType(m), MemType(n), Traced(m),
         NEW i \in Slots, m.entries[i].size = 0,
         NEW ptr \in Ptrs, m.asked[ptr] = 0, n.asked[ptr] # 0,
         n.entries[i].ptr = ptr, n.entries[i].size >= n.asked[ptr],
         \A j \in Slots \ {i} : n.entries[j] = m.entries[j],
         \A p \in Ptrs \ {ptr} : n.asked[p] = m.asked[p],
         n.count = m.count + 1,
         n.live = m.live \cup {ptr}
  PROVE  Traced(n)
<1>1. Used(n) = Used(m) \cup {i} /\ i \notin Used(m)
  <2>1. n.entries[i].size # 0
    BY DEF MemType, Entry
  <2>2. QED
    BY <2>1 DEF Used
<1>2. n.count = Cardinality(Used(n))
  <2>1. IsFiniteSet(Used(m))
    BY UsedFinite DEF Used
  <2>2. Cardinality(Used(n)) = Cardinality(Used(m)) + 1
    BY <1>1, <2>1, FS_AddElement
  <2>3. m.count = Cardinality(Used(m))
    BY DEF Traced
  <2>4. QED
    BY <2>2, <2>3
<1>5. \A j \in Used(m) : j \in Slots /\ m.entries[j].ptr \in Ptrs /\ m.entries[j].ptr # ptr
  BY DEF Traced, Used, MemType, Entry
<1>6. \A j \in Slots : n.entries[j].ptr = NULL <=> n.entries[j].size = 0
  <2>1. n.entries[i].ptr # NULL /\ n.entries[i].size # 0
    BY MemTracerAssumption DEF MemType, Entry
  <2>2. QED
    BY <2>1 DEF Traced
<1>7. \A j, k \in Used(n) : n.entries[j].ptr = n.entries[k].ptr => j = k
  BY <1>1, <1>5 DEF Traced
<1>8. \A j \in Used(n) : n.entries[j].size >= n.asked[n.entries[j].ptr]
  BY <1>1, <1>5 DEF Traced
<1>9. \A p \in Ptrs : n.asked[p] # 0 <=> \E j \in Used(n) : n.entries[j].ptr = p
  <2> SUFFICES ASSUME NEW p \in Ptrs
               PROVE  n.asked[p] # 0 <=> \E j \in Used(n) : n.entries[j].ptr = p
    OBVIOUS
  <2>1. CASE p = ptr
    BY <2>1, <1>1
  <2>2. CASE p # ptr
    <3>1. n.asked[p] = m.asked[p]
      BY <2>2
    <3>2. (\E j \in Used(n) : n.entries[j].ptr = p) <=> \E j \in Used(m) : m.entries[j].ptr = p
      BY <2>2, <1>1, <1>5
    <3>3. QED
      BY <3>1, <3>2 DEF Traced
  <2>3. QED
    BY <2>1, <2>2
<1>10. \A p \in Ptrs : n.asked[p] # 0 => p \in n.live
  BY DEF Traced
<1>11. QED
  BY <1>2, <1>6, <1>7, <1>8, <1>9, <1>10 DEF Traced

\* An entry is taken out with its block.
LEMMA EntryRemoved ==
  ASSUME NEW m, NEW n, MemType(m), MemType(n), Traced(m),
         NEW i \in Used(m),
         n.entries = [m.entries EXCEPT ![i] = NoEntry],
         n.count = m.count - 1,
         n.asked = [m.asked EXCEPT ![m.entries[i].ptr] = 0],
         n.live = m.live \ {m.entries[i].ptr}
  PROVE  Traced(n)
<1> DEFINE ptr == m.entries[i].ptr
<1>0. i \in Slots
  BY DEF Used
<1>1. Used(n) = Used(m) \ {i}
  BY <1>0 DEF Used, MemType, NoEntry
<1>2. n.count = Cardinality(Used(n))
  <2>1. IsFiniteSet(Used(m))
    BY UsedFinite DEF Used
  <2>2. QED
    BY <1>1, <2>1, FS_RemoveElement DEF Traced
<1>3. \A j \in Slots : n.entries[j] = IF j = i THEN NoEntry ELSE m.entries[j]
  BY <1>0 DEF MemType
<1>4. ptr \in Ptrs
  BY <1>0 DEF Traced, Used, MemType, Entry
<1>5. \A p \in Ptrs : n.asked[p] = IF p = ptr THEN 0 ELSE m.asked[p]
  BY <1>4 DEF MemType
<1>6. \A j \in Used(n) : j \in Slots /\ n.entries[j] = m.entries[j] /\ m.entries[j].ptr # ptr
  BY <1>1, <1>3 DEF Traced, Used
<1>7. \A j \in Slots : n.entries[j].ptr = NULL <=> n.entries[j].size = 0
  BY <1>3 DEF Traced, NoEntry
<1>8. \A j, k \in Used(n) : n.entries[j].ptr = n.entries[k].ptr => j = k
  BY <1>1, <1>6 DEF Traced
<1>9. \A j \in Used(n) : n.entries[j].size >= n.asked[n.entries[j].ptr]
  <2>1. \A j \in Used(n) : m.entries[j].ptr \in Ptrs
    BY <1>6, <1>1 DEF Traced, Used, MemType, Entry
  <2>2. QED
    BY <1>1, <1>5, <1>6, <2>1 DEF Traced
<1>10. \A p \in Ptrs : n.asked[p] # 0 <=> \E j \in Used(n) : n.entries[j].ptr = p
  <2> SUFFICES ASSUME NEW p \in Ptrs
               PROVE  n.asked[p] # 0 <=> \E j \in Used(n) : n.entries[j].ptr = p
    OBVIOUS
  <2>1. CASE p = ptr
    BY <2>1, <1>5, <1>6
  <2>2. CASE p # ptr
    <3>1. n.asked[p] = m.asked[p]
      BY <2>2, <1>5
    <3>2. (\E j \in Used(n) : n.entries[j].ptr = p) <=> \E j \in Used(m) : m.entries[j].ptr = p
      BY <2>2, <1>1, <1>6
    <3>3. QED
      BY <3>1, <3>2 DEF Traced
  <2>3. QED
    BY <2>1, <2>2
<1>11. \A p \in Ptrs : n.asked[p] # 0 => p \in n.live
  BY <1>5 DEF Traced
<1>12. QED
  BY <1>2, <1>7, <1>8, <1>9, <1>10, <1>11 DEF Traced

-----------------------------------------------------------------------------
\* An allocation whose block is noted with at least the size asked for; a full
\* table ends the program, and any other has an unused slot.
LEMMA AllocSound ==
  ASSUME NEW m, MemSound(m), ~m.exited,
         NEW ptr \in (Ptrs \ m.live) \cup {NULL},
         NEW size \in Nat, NEW noted \in Nat, size <= noted, size = 0 <=> noted = 0
  PROVE  LET r == RealMalloc(m, ptr, size)
         IN MemSound(IF m.tracing THEN AddEntry(r, ptr, noted) ELSE r)
<1> DEFINE r == RealMalloc(m, ptr, size)
           a == AddEntry(r, ptr, noted)
<1> USE DEF MemSound
<1>1. CASE ptr = NULL
  BY <1>1 DEF RealMalloc, AddEntry
<1>2. CASE ptr # NULL
  <2>1. ptr \in Ptrs /\ ptr \notin m.live
    BY <1>2
  <2>2. /\ MemType(r) /\ r.tracing = m.tracing /\ r.max = m.max /\ r.exited = m.exited
        /\ r.entries = m.entries /\ r.count = m.count
        /\ r.live = m.live \cup {ptr}
        /\ r.asked = [m.asked EXCEPT ![ptr] = IF m.tracing THEN size ELSE 0]
    BY <2>1, <1>2 DEF RealMalloc, MemType
  <2>3. CASE ~m.tracing
    BY <2>2, <2>3
  <2>4. CASE m.tracing /\ noted = 0
    <3>1. Traced(m) /\ m.asked[ptr] = 0 /\ size = 0
      BY <2>1, <2>4 DEF Traced
    <3>2. r.asked = m.asked
      BY <2>1, <2>2, <2>4, <3>1 DEF MemType
    <3>3. Used(r) = Used(m)
      BY <2>2 DEF Used
    <3>4. Traced(r)
      BY <2>2, <3>1, <3>2, <3>3 DEF Traced
    <3>5. a = r
      BY <2>4 DEF AddEntry
    <3>6. QED
      BY <2>2, <2>4, <3>4, <3>5
  <2>5. CASE m.tracing /\ noted # 0 /\ m.count >= m.max
    <3>1. a = [r EXCEPT !.exited = TRUE]
      BY <1>2, <2>2, <2>5 DEF AddEntry
    <3>2. MemType(a) /\ a.exited /\ a.tracing = r.tracing /\ a.max = r.max
      BY <2>2, <3>1 DEF MemType
    <3>3. QED
      BY <2>2, <2>5, <3>2
  <2>6. CASE m.tracing /\ noted # 0 /\ ~(m.count >= m.max)
    <3>1. Traced(m) /\ m.asked[ptr] = 0 /\ size # 0 /\ m.max = MaxEntries
      BY <2>1, <2>6 DEF Traced
    <3>2. PICK j \in Slots : j \notin Used(m)
      <4>1. Cardinality(Used(m)) < MaxEntries
        BY <2>6, <3>1, MemTracerAssumption DEF Traced, MemType
      <4>2. QED
        BY <4>1, UsedFinite DEF Used
    <3>3. Unused(r) # {} /\ Unused(r) \subseteq Slots
      <4>1. j \in Unused(r)
        BY <2>2, <3>1, <3>2, MemTracerAssumption DEF Unused, Used, Slots
      <4>2. QED
        BY <4>1 DEF Unused
    <3> DEFINE i == First(Unused(r))
    <3>4. i \in Slots /\ m.entries[i].size = 0
      BY <3>3, <2>2, FirstFound DEF Unused
    <3> HIDE DEF i
    <3>5. a = [r EXCEPT !.entries = [@ EXCEPT ![i] = [ptr |-> ptr, size |-> noted]],
                        !.count = @ + 1]
      BY <1>2, <2>2, <2>6, <3>3 DEF AddEntry, i
    <3>6. /\ MemType(a) /\ a.tracing = m.tracing /\ a.max = m.max
          /\ a.entries = [m.entries EXCEPT ![i] = [ptr |-> ptr, size |-> noted]]
          /\ a.count = m.count + 1
          /\ a.live = m.live \cup {ptr}
          /\ a.asked = [m.asked EXCEPT ![ptr] = size]
      <4>1. [m.entries EXCEPT ![i] = [ptr |-> ptr, size |-> noted]] \in [Slots -> Entry]
        BY <2>1, <3>4 DEF MemType, Entry
      <4>2. m.count + 1 \in Nat
        BY DEF MemType
      <4>3. a = [r EXCEPT !.entries = [m.entries EXCEPT ![i] = [ptr |-> ptr, size |-> noted]],
                          !.count = m.count + 1]
        BY <2>2, <3>5 DEF MemType
      <4>4. r.asked = [m.asked EXCEPT ![ptr] = size]
        BY <2>2, <2>6
      <4> QED
        BY <2>2, <4>1, <4>2, <4>3, <4>4 DEF MemType
    <3>7. Traced(a)
      <4>1. /\ a.entries[i].ptr = ptr /\ a.entries[i].size = noted
            /\ \A k \in Slots \ {i} : a.entries[k] = m.entries[k]
        BY <3>4, <3>6 DEF MemType
      <4>2. a.asked[ptr] = size /\ \A p \in Ptrs \ {ptr} : a.asked[p] = m.asked[p]
        BY <2>1, <3>6 DEF MemType
      <4>3. MemType(a) /\ MemType(m)
        BY <3>6
      <4>4. a.asked[ptr] # 0 /\ a.entries[i].size >= a.asked[ptr]
        BY <3>1, <4>1, <4>2
      <4>5. a.count = m.count + 1 /\ a.live = m.live \cup {ptr}
        BY <3>6
      <4>6. Traced(m) /\ m.asked[ptr] = 0 /\ ptr \in Ptrs
        BY <2>1, <3>1
      <4> HIDE DEF a, r, MemSound
      <4>7. QED
        BY <3>4, <4>1, <4>2, <4>3, <4>4, <4>5, <4>6, EntryAdded
    <3>8. QED
      BY <2>6, <3>1, <3>6, <3>7
  <2>7. QED
    BY <2>3, <2>4, <2>5, <2>6
<1>3. QED
  BY <1>1, <1>2

\* A block that is freed has its one entry taken out, if it has one.
LEMMA FreeSound ==
  ASSUME NEW m, MemSound(m), NEW ptr \in Ptrs \cup {NULL}
  PROVE  MemSound(WrapFree(m, ptr))
<1> USE DEF MemSound
<1> DEFINE f == WrapFree(m, ptr)
           e == RemoveEntry(m, ptr)
<1>1. CASE m.exited \/ ptr = NULL
  BY <1>1 DEF WrapFree
<1>2. CASE ~m.exited /\ ptr # NULL /\ ~m.tracing
  BY <1>2 DEF WrapFree, RealFree, MemType
<1>3. CASE ~m.exited /\ ptr # NULL /\ m.tracing
  <2>1. Traced(m) /\ m.max = MaxEntries /\ ptr \in Ptrs
    BY <1>3
  <2>2. f = [e EXCEPT !.live = @ \ {ptr}, !.asked[ptr] = 0]
    BY <1>3 DEF WrapFree, RealFree
  <2>3. \A i \in Holding(m, ptr) : i \in Used(m)
    BY <1>3, <2>1 DEF Holding, Used, Traced
  <2>4. CASE Holding(m, ptr) = {}
    <3>1. e = m
      BY <2>4 DEF RemoveEntry
    <3>2. /\ MemType(f) /\ f.tracing = m.tracing /\ f.max = m.max /\ f.exited = m.exited
          /\ f.entries = m.entries /\ f.count = m.count
          /\ f.live = m.live \ {ptr}
          /\ f.asked = [m.asked EXCEPT ![ptr] = 0]
      <4>1. [m.asked EXCEPT ![ptr] = 0] \in [Ptrs -> Nat]
        BY <2>1 DEF MemType
      <4>2. f = [m EXCEPT !.live = m.live \ {ptr}, !.asked = [m.asked EXCEPT ![ptr] = 0]]
        BY <2>2, <3>1 DEF MemType
      <4> HIDE DEF f
      <4>3. QED
        BY <4>1, <4>2 DEF MemType
    <3>3. \A i \in Slots : m.entries[i].ptr # ptr
      BY <2>1, <2>4, MemTracerAssumption DEF Holding, Slots
    <3>4. m.asked[ptr] = 0
      BY <2>1, <3>3 DEF Traced, Used
    <3>5. f.asked = m.asked
      BY <2>1, <3>2, <3>4 DEF MemType
    <3>6. Used(f) = Used(m)
      BY <3>2 DEF Used
    <3>7. Traced(f)
      BY <2>1, <3>2, <3>4, <3>5, <3>6 DEF Traced
    <3>8. QED
      BY <1>3, <2>1, <3>2, <3>7
  <2>5. CASE Holding(m, ptr) # {}
    <3> DEFINE i == First(Holding(m, ptr))
    <3>1. i \in Holding(m, ptr)
      BY <2>5, FirstFound DEF Holding
    <3> HIDE DEF i
    <3>2. i \in Used(m) /\ i \in Slots /\ m.entries[i].ptr = ptr
      BY <2>3, <3>1 DEF Holding
    <3>3. e = [m EXCEPT !.entries[i] = NoEntry, !.count = @ - 1]
      BY <2>5 DEF RemoveEntry, i
    <3>4. m.count # 0
      BY <2>1, <3>2, UsedFinite, FS_EmptySet DEF Traced, Used
    <3>5. m.count - 1 \in Nat
      BY <3>4 DEF MemType
    <3>6. /\ MemType(f) /\ f.tracing = m.tracing /\ f.max = m.max
          /\ f.entries = [m.entries EXCEPT ![i] = NoEntry]
          /\ f.count = m.count - 1
          /\ f.live = m.live \ {ptr}
          /\ f.asked = [m.asked EXCEPT ![ptr] = 0]
      <4>1. [m.entries EXCEPT ![i] = NoEntry] \in [Slots -> Entry]
        BY <3>2 DEF MemType, Entry, NoEntry
      <4>2. [m.asked EXCEPT ![ptr] = 0] \in [Ptrs -> Nat]
        BY <2>1 DEF MemType
      <4>3. f = [m EXCEPT !.entries = [m.entries EXCEPT ![i] = NoEntry],
                          !.count = m.count - 1, !.live = m.live \ {ptr},
                          !.asked = [m.asked EXCEPT ![ptr] = 0]]
        BY <2>2, <3>3 DEF MemType
      <4> HIDE DEF f
      <4>4. QED
        BY <3>5, <4>1, <4>2, <4>3 DEF MemType
    <3>7. Traced(f)
      BY <2>1, <3>2, <3>6, EntryRemoved
    <3>8. QED
      BY <2>1, <3>6, <3>7
  <2>6. QED
    BY <2>4, <2>5
<1>4. QED
  BY <1>1, <1>2, <1>3 DEF MemType

\* The block ptr in slot i of the memory m is at address new in the memory n.
MovedEntry(m, n, i, ptr, new) ==
  /\ ptr \in Ptrs /\ new \in Ptrs
  /\ new = ptr \/ m.asked[new] = 0
  /\ n.asked[new] # 0 /\ n.entries[i].size >= n.asked[new]
  /\ \A j \in Slots \ {i} : n.entries[j] = m.entries[j]
  /\ new # ptr => n.asked[ptr] = 0
  /\ \A p \in Ptrs \ {ptr, new} : n.asked[p] = m.asked[p]
  /\ n.count = m.count
  /\ n.live = (m.live \ {ptr}) \cup {new}

\* The entry follows a block that was moved or resized.
LEMMA EntryMoved ==
  ASSUME NEW m, NEW n, MemType(m), MemType(n), Traced(m),
         NEW i \in Used(m), MovedEntry(m, n, i, m.entries[i].ptr, n.entries[i].ptr)
  PROVE  Traced(n)
<1> DEFINE ptr == m.entries[i].ptr
           new == n.entries[i].ptr
<1>0. /\ ptr \in Ptrs /\ new \in Ptrs
      /\ new = ptr \/ m.asked[new] = 0
      /\ n.asked[new] # 0 /\ n.entries[i].size >= n.asked[new]
      /\ \A j \in Slots \ {i} : n.entries[j] = m.entries[j]
      /\ new # ptr => n.asked[ptr] = 0
      /\ \A p \in Ptrs \ {ptr, new} : n.asked[p] = m.asked[p]
      /\ n.count = m.count
      /\ n.live = (m.live \ {ptr}) \cup {new}
  BY DEF MovedEntry
<1> USE <1>0
<1>1. i \in Slots /\ n.entries[i].size # 0
  BY DEF Used, MemType, Entry
<1>2. Used(n) = Used(m)
  BY <1>1 DEF Used
<1>3. \A j \in Used(m) \ {i} :
        /\ j \in Slots /\ n.entries[j] = m.entries[j]
        /\ m.entries[j].ptr \in Ptrs \ {ptr, new}
  <2>1. ASSUME NEW j \in Used(m) \ {i}
        PROVE  /\ j \in Slots /\ n.entries[j] = m.entries[j]
               /\ m.entries[j].ptr \in Ptrs \ {ptr, new}
    <3>1. j \in Slots /\ m.entries[j].ptr \in Ptrs
      BY DEF Traced, Used, MemType, Entry
    <3>2. m.entries[j].ptr # ptr
      BY DEF Traced
    <3>3. m.asked[m.entries[j].ptr] # 0
      BY <3>1 DEF Traced
    <3>4. QED
      BY <3>1, <3>2, <3>3
  <2>2. QED
    BY <2>1
<1>4. \A j \in Slots : n.entries[j].ptr = NULL <=> n.entries[j].size = 0
  <2>1. n.entries[i].ptr # NULL
    BY MemTracerAssumption
  <2>2. QED
    BY <1>1, <2>1 DEF Traced
<1>5. \A j, k \in Used(n) : n.entries[j].ptr = n.entries[k].ptr => j = k
  BY <1>2, <1>3 DEF Traced
<1>6. \A j \in Used(n) : n.entries[j].size >= n.asked[n.entries[j].ptr]
  BY <1>2, <1>3 DEF Traced
<1>7. \A p \in Ptrs : n.asked[p] # 0 <=> \E j \in Used(n) : n.entries[j].ptr = p
  <2> SUFFICES ASSUME NEW p \in Ptrs
               PROVE  n.asked[p] # 0 <=> \E j \in Used(n) : n.entries[j].ptr = p
    OBVIOUS
  <2>1. CASE p = new
    BY <2>1, <1>2
  <2>2. CASE p # new /\ p = ptr
    BY <2>2, <1>2, <1>3
  <2>3. CASE p \notin {ptr, new}
    <3>1. n.asked[p] = m.asked[p]
      BY <2>3
    <3>2. (\E j \in Used(n) : n.entries[j].ptr = p) <=> \E j \in Used(m) : m.entries[j].ptr = p
      BY <2>3, <1>2, <1>3
    <3>3. QED
      BY <3>1, <3>2 DEF Traced
  <2>4. QED
    BY <2>1, <2>2, <2>3
<1>8. \A p \in Ptrs : n.asked[p] # 0 => p \in n.live
  BY DEF Traced
<1>9. n.count = Cardinality(Used(n))
  BY <1>2 DEF Traced
<1>10. QED
  BY <1>4, <1>5, <1>6, <1>7, <1>8, <1>9 DEF Traced

\* malloc, calloc and strdup.
LEMMA MallocSound ==
  ASSUME NEW m, MemSound(m), NEW ptr \in (Ptrs \ m.live) \cup {NULL}, NEW size \in Nat
  PROVE  /\ MemSound(WrapMalloc(m, ptr, size))
         /\ WrapMalloc(m, ptr, size).live \subseteq m.live \cup {ptr}
<1>1. MemSound(WrapMalloc(m, ptr, size))
  BY AllocSound DEF WrapMalloc
<1>2. WrapMalloc(m, ptr, size).live \subseteq m.live \cup {ptr}
  BY DEF WrapMalloc, RealMalloc, AddEntry, MemSound, MemType
<1>3. QED
  BY <1>1, <1>2

\* strndup, whose entry may be larger than its block.
LEMMA StrndupSound ==
  ASSUME NEW m, MemSound(m), NEW ptr \in (Ptrs \ m.live) \cup {NULL},
         NEW len \in Nat, NEW n \in Nat
  PROVE  MemSound(WrapStrndup(m, ptr, len, n))
<1> DEFINE size == (IF len < n THEN len ELSE n) + 1
           noted == (IF len > n THEN len ELSE n) + 1
<1>1. size \in Nat /\ noted \in Nat /\ size <= noted /\ (size = 0 <=> noted = 0)
  OBVIOUS
<1> HIDE DEF size, noted
<1>2. ~m.exited => MemSound(IF m.tracing THEN AddEntry(RealMalloc(m, ptr, size), ptr, noted)
                            ELSE RealMalloc(m, ptr, size))
  BY <1>1, AllocSound
<1>3. QED
  BY <1>2 DEF WrapStrndup, size, noted

\* realloc, in place, to another address, without memory, and of NULL.
LEMMA ReallocSound ==
  ASSUME NEW m, MemSound(m),
         NEW ptr \in Ptrs \cup {NULL}, NEW new \in Ptrs \cup {NULL},
         new = ptr \/ new \notin m.live,
         NEW size \in Nat \ {0}
  PROVE  MemSound(WrapRealloc(m, ptr, new, size))
<1> USE DEF MemSound
<1> DEFINE r == RealRealloc(m, ptr, new, size)
           u == UpdateEntry(r, ptr, new, size)
<1>1. CASE m.exited
  BY <1>1 DEF WrapRealloc
<1>2. CASE ~m.exited /\ ptr = NULL
  <2>1. new \in (Ptrs \ m.live) \cup {NULL}
    BY <1>2
  <2>2. WrapRealloc(m, ptr, new, size) = WrapMalloc(m, new, size)
    BY <1>2 DEF WrapRealloc
  <2> HIDE DEF MemSound
  <2>3. QED
    BY <2>1, <2>2, MallocSound
<1>3. CASE ~m.exited /\ ptr # NULL /\ new = NULL
  BY <1>3 DEF WrapRealloc, RealRealloc, UpdateEntry
<1>4. CASE ~m.exited /\ ptr # NULL /\ new # NULL
  <2>1. ptr \in Ptrs /\ new \in Ptrs
    BY <1>4
  <2> DEFINE asked == [p \in Ptrs |-> IF p = new THEN IF m.asked[ptr] = 0 THEN 0 ELSE size
                                      ELSE IF p = ptr THEN 0 ELSE m.asked[p]]
  <2>2. asked \in [Ptrs -> Nat]
    BY <2>1 DEF MemType
  <2>3. r = [m EXCEPT !.live = (m.live \ {ptr}) \cup {new}, !.asked = asked]
    BY <1>4 DEF RealRealloc, MemType
  <2> HIDE DEF asked, r
  <2>4. /\ MemType(r) /\ r.tracing = m.tracing /\ r.max = m.max /\ r.exited = m.exited
        /\ r.entries = m.entries /\ r.count = m.count /\ r.asked = asked
        /\ r.live = (m.live \ {ptr}) \cup {new}
    BY <2>1, <2>2, <2>3 DEF MemType
  <2>5. CASE ~m.tracing
    BY <1>4, <2>4, <2>5 DEF WrapRealloc, r
  <2>6. CASE m.tracing
    <3>1. /\ Traced(m) /\ m.max = MaxEntries
          /\ WrapRealloc(m, ptr, new, size) = u
      BY <1>4, <2>6 DEF WrapRealloc, r
    <3>2. \A i \in Slots : i <= m.max
      BY <3>1, MemTracerAssumption DEF Slots
    <3>3. CASE Holding(r, ptr) = {}
      <4>1. u = r
        BY <1>4, <3>3 DEF UpdateEntry
      <4>2. \A i \in Slots : m.entries[i].ptr # ptr
        BY <2>4, <3>2, <3>3 DEF Holding
      <4>3. m.asked[ptr] = 0 /\ (new # ptr => m.asked[new] = 0)
        BY <2>1, <3>1, <4>2 DEF Traced, Used
      <4>4. asked = m.asked
        BY <2>1, <4>3 DEF asked, MemType
      <4>5. Used(r) = Used(m)
        BY <2>4 DEF Used
      <4>6. Traced(r)
        BY <2>1, <2>4, <3>1, <4>3, <4>4, <4>5 DEF Traced
      <4>7. QED
        BY <2>4, <2>6, <3>1, <4>1, <4>6
    <3>4. CASE Holding(r, ptr) # {}
      <4> DEFINE i == First(Holding(r, ptr))
      <4>1. i \in Holding(r, ptr)
        BY <3>4, FirstFound DEF Holding
      <4> HIDE DEF i
      <4>2. i \in Slots /\ m.entries[i].ptr = ptr
        BY <2>4, <4>1 DEF Holding
      <4>3. i \in Used(m)
        BY <1>4, <3>1, <4>2 DEF Traced, Used
      <4>4. [r.entries EXCEPT ![i] = [ptr |-> new, size |-> size]] \in [Slots -> Entry]
        BY <2>1, <2>4, <4>2 DEF MemType, Entry
      <4>5. u = [r EXCEPT !.entries = [r.entries EXCEPT ![i] = [ptr |-> new, size |-> size]]]
        BY <1>4, <3>4, <2>4 DEF UpdateEntry, i, MemType
      <4> HIDE DEF u
      <4>6. /\ MemType(u) /\ u.tracing = m.tracing /\ u.max = m.max /\ u.asked = asked
            /\ u.count = m.count /\ u.live = (m.live \ {ptr}) \cup {new}
            /\ u.entries = [m.entries EXCEPT ![i] = [ptr |-> new, size |-> size]]
        BY <2>4, <4>4, <4>5 DEF MemType
      <4>7. m.asked[ptr] # 0 /\ (new = ptr \/ m.asked[new] = 0)
        BY <2>1, <3>1, <4>2, <4>3 DEF Traced
      <4>8. /\ u.entries[i].ptr = new /\ u.entries[i].size = size
            /\ \A j \in Slots \ {i} : u.entries[j] = m.entries[j]
        BY <4>2, <4>6 DEF MemType
      <4>9. /\ u.asked[new] = size /\ (new # ptr => u.asked[ptr] = 0)
            /\ \A p \in Ptrs \ {ptr, new} : u.asked[p] = m.asked[p]
        BY <2>1, <4>6, <4>7 DEF asked
      <4>10. u.asked[new] # 0 /\ u.entries[i].size >= u.asked[new]
        BY <4>8, <4>9
      <4>11. MemType(m)
        OBVIOUS
      <4>12. Traced(u)
        <5> HIDE DEF MemSound
        <5>1. MovedEntry(m, u, i, m.entries[i].ptr, u.entries[i].ptr)
          BY <2>1, <4>2, <4>6, <4>7, <4>8, <4>9, <4>10 DEF MovedEntry
        <5>2. QED
          BY <3>1, <4>3, <4>6, <4>11, <5>1, EntryMoved
      <4>13. QED
        BY <2>6, <3>1, <4>6, <4>12
    <3>5. QED
      BY <3>3, <3>4
  <2>7. QED
    BY <2>5, <2>6
<1>5. QED
  BY <1>1, <1>2, <1>3, <1>4

\* A table of zeros is right for a memory of which nothing is known.
LEMMA EmptyTable ==
  ASSUME NEW m, MemType(m), m.entries = Zeroed, m.count = 0, m.asked = Forgotten
  PROVE  Traced(m)
<1>1. Used(m) = {}
  BY DEF Used, Zeroed, NoEntry
<1>2. m.count = Cardinality(Used(m))
  BY <1>1, FS_EmptySet
<1>3. \A i \in Slots : m.entries[i].ptr = NULL /\ m.entries[i].size = 0
  BY DEF Zeroed, NoEntry
<1>4. \A p \in Ptrs : m.asked[p] = 0
  BY DEF Forgotten
<1>5. QED
  BY <1>1, <1>2, <1>3, <1>4 DEF Traced

\* The tracer turned on, reset and turned off.
LEMMA TracerSound ==
  ASSUME NEW m, MemSound(m), NEW ptr \in (Ptrs \ m.live) \cup {NULL}
  PROVE  /\ MemSound(MtraceInit(m, ptr))
         /\ MemSound(MtraceReset(m))
         /\ MemSound(MtraceDestroy(m))
<1> USE DEF MemSound
<1>1. Zeroed \in [Slots -> Entry] /\ Forgotten \in [Ptrs -> Nat]
  BY DEF Zeroed, Forgotten, NoEntry, Entry
<1>2. MemSound(MtraceInit(m, ptr))
  <2> DEFINE n == MtraceInit(m, ptr)
  <2>1. CASE ptr = NULL
    BY <2>1 DEF MtraceInit, MemType
  <2>2. CASE ptr # NULL
    <3>1. /\ MemType(n) /\ n.max = MaxEntries
          /\ n.entries = Zeroed /\ n.count = 0 /\ n.asked = Forgotten
      BY <2>2, <1>1 DEF MtraceInit, RealMalloc, MemType
    <3>2. QED
      BY <3>1, EmptyTable
  <2>3. QED
    BY <2>1, <2>2
<1>3. MemSound(MtraceReset(m))
  <2> DEFINE n == MtraceReset(m)
  <2>1. CASE m.table = NULL
    BY <2>1 DEF MtraceReset
  <2>2. CASE m.table # NULL
    <3>1. /\ MemType(n) /\ n.max = m.max /\ n.tracing = m.tracing
          /\ n.entries = Zeroed /\ n.count = 0 /\ n.asked = Forgotten
      BY <2>2, <1>1 DEF MtraceReset, MemType
    <3>2. QED
      BY <3>1, EmptyTable
  <2>3. QED
    BY <2>1, <2>2
<1>4. MemSound(MtraceDestroy(m))
  BY <1>1, MemTracerAssumption DEF MtraceDestroy, MemType
<1>5. QED
  BY <1>2, <1>3, <1>4

-----------------------------------------------------------------------------
\* What the logger and the program hand to those calls.
LogType ==
  /\ own \subseteq Ptrs
  /\ lmsg \in [blk : Ptrs \cup {NULL}, at : Nat, marks : Nat]
  /\ facilities \in Seq([type : Types, fac : Ptrs, node : Ptrs])

LogInv == LogType /\ MemSound(mem)

\* The allocator returns addresses that are not in use.
LEMMA FreshOnes ==
  ASSUME NEW live \in SUBSET Ptrs
  PROVE  \A p \in Fresh(live) : p \in Ptrs \ live
BY MemTracerAssumption

\* At the start nothing is allocated and traced.
LEMMA InitSound == Init => LogInv
<1> SUFFICES ASSUME Init
             PROVE  LogInv
  OBVIOUS
<1>1. LogType
  BY DEF Init, LogType, NoMsg
<1>2. MemType(mem) /\ ~mem.tracing
  BY MemTracerAssumption DEF Init, MemInit, MemType, Zeroed, Forgotten, NoEntry, Entry
<1>3. QED
  BY <1>1, <1>2 DEF LogInv, MemSound

\* Every step of the program and of the logger hands addresses to the calls that
\* keep the memory sound.
LEMMA NextSound == LogInv /\ [Next]_vars => LogInv'
<1> SUFFICES ASSUME LogInv, [Next]_vars
             PROVE  LogInv'
  OBVIOUS
<1> USE DEF LogInv
<1>1. mem.live \in SUBSET Ptrs /\ \A p \in Result(mem) : p \in (Ptrs \ mem.live) \cup {NULL}
  BY FreshOnes DEF Result, MemSound, MemType
<1>2. CASE ProgramStep
  <2>1. UNCHANGED <<facilities, lmsg>>
    BY <1>2 DEF ProgramStep, logVars
  <2>2. CASE ProgramMalloc
    <3>1. PICK p \in Result(mem), size \in Sizes : mem' = WrapMalloc(mem, p, size) /\ Keep(p)
      BY <2>2 DEF ProgramMalloc
    <3>2. MemSound(mem')
      BY <1>1, <3>1, MallocSound, LogAssumption
    <3>3. QED
      BY <1>1, <2>1, <3>1, <3>2 DEF LogType, Keep, MemSound
  <2>3. CASE ProgramStrndup
    <3>1. PICK p \in Result(mem), len \in Sizes, n \in Sizes :
            mem' = WrapStrndup(mem, p, len, n) /\ Keep(p)
      BY <2>3 DEF ProgramStrndup
    <3>2. MemSound(mem')
      BY <1>1, <3>1, StrndupSound, LogAssumption
    <3>3. QED
      BY <1>1, <2>1, <3>1, <3>2 DEF LogType, Keep, MemSound
  <2>4. CASE ProgramRealloc
    <3>1. PICK p \in own : \E q \in Result(mem) \cup {p}, size \in Sizes \ {0} :
            /\ mem' = WrapRealloc(mem, p, q, size)
            /\ own' = IF q = NULL THEN own ELSE (own \ {p}) \cup {q}
      BY <2>4 DEF ProgramRealloc
    <3>2. PICK q \in Result(mem) \cup {p}, size \in Sizes \ {0} :
            /\ mem' = WrapRealloc(mem, p, q, size)
            /\ own' = IF q = NULL THEN own ELSE (own \ {p}) \cup {q}
      BY <3>1
    <3>3. /\ p \in Ptrs /\ q \in Ptrs \cup {NULL} /\ size \in Nat \ {0}
          /\ q = p \/ q \notin mem.live
      BY <1>1, MemTracerAssumption, LogAssumption DEF LogType
    <3>4. MemSound(mem')
      BY <3>2, <3>3, ReallocSound
    <3>5. QED
      BY <2>1, <3>2, <3>3, <3>4 DEF LogType, MemSound
  <2>5. CASE ProgramFree
    <3>1. PICK p \in own : mem' = WrapFree(mem, p) /\ own' = own \ {p}
      BY <2>5 DEF ProgramFree
    <3>2. MemSound(mem')
      BY <3>1, FreeSound DEF LogType
    <3>3. QED
      BY <2>1, <3>1, <3>2 DEF LogType, MemSound
  <2>6. QED
    BY <1>2, <2>2, <2>3, <2>4, <2>5 DEF ProgramStep
<1>3. CASE TracerStep
  <2>1. NULL \in (Ptrs \ mem.live) \cup {NULL}
    OBVIOUS
  <2>2. MemSound(mem')
    BY <1>1, <1>3, <2>1, TracerSound DEF TracerStep
  <2>3. QED
    BY <1>3, <2>2 DEF TracerStep, logVars, LogType, MemSound
<1>4. CASE LogInit
  BY <1>4 DEF LogInit, LogType
<1>5. CASE LogAdd
  <2>1. PICK f \in Fresh(mem.live) : \E node \in Fresh(mem.live \cup {f}), type \in Types :
          /\ mem' = WrapMalloc(WrapMalloc(mem, f, FacSize), node, NodeSize)
          /\ facilities' = Append(facilities, [type |-> type, fac |-> f, node |-> node])
    BY <1>5 DEF LogAdd
  <2>2. PICK node \in Fresh(mem.live \cup {f}), type \in Types :
          /\ mem' = WrapMalloc(WrapMalloc(mem, f, FacSize), node, NodeSize)
          /\ facilities' = Append(facilities, [type |-> type, fac |-> f, node |-> node])
    BY <2>1
  <2>3. f \in Ptrs \ mem.live /\ node \in Ptrs /\ node \notin mem.live \cup {f}
    BY <1>1, FreshOnes
  <2> DEFINE m == WrapMalloc(mem, f, FacSize)
  <2>4. MemSound(m) /\ m.live \subseteq mem.live \cup {f}
    BY <2>3, MallocSound, LogAssumption
  <2> HIDE DEF m
  <2>5. MemSound(WrapMalloc(m, node, NodeSize))
    BY <2>3, <2>4, MallocSound, LogAssumption
  <2>6. MemSound(mem')
    BY <2>2, <2>5 DEF m
  <2>7. facilities' \in Seq([type : Types, fac : Ptrs, node : Ptrs])
    BY <2>2, <2>3 DEF LogType
  <2>8. QED
    BY <1>5, <2>6, <2>7 DEF LogAdd, LogType, MemSound
<1>6. ASSUME NEW m, MemSound(m), NEW level, NEW blk \in Fresh(m.live), Begin(m, level, blk)
      PROVE  MemSound(mem') /\ lmsg' \in [blk : Ptrs \cup {NULL}, at : Nat, marks : Nat]
  <2>1. blk \in Ptrs \ m.live
    BY <1>6, FreshOnes DEF MemSound, MemType
  <2>2. QED
    BY <1>6, <2>1, MallocSound DEF Begin
<1>7. CASE LogMsg
  BY <1>6, <1>7 DEF LogMsg, LogType, MemSound
<1>8. CASE LogAddFileFails
  <2>1. PICK f \in Fresh(mem.live) :
          LET made == WrapMalloc(mem, f, FacSize) IN
          \/ \E blk \in Fresh(made.live) : Begin(made, LOG_ERR, blk)
          \/ mem' = made /\ UNCHANGED lmsg
    BY <1>8 DEF LogAddFileFails
  <2> DEFINE made == WrapMalloc(mem, f, FacSize)
  <2>2. MemSound(made)
    BY <1>1, FreshOnes, MallocSound, LogAssumption
  <2> HIDE DEF made
  <2>3. MemSound(mem') /\ lmsg' \in [blk : Ptrs \cup {NULL}, at : Nat, marks : Nat]
    <3>1. CASE \E blk \in Fresh(made.live) : Begin(made, LOG_ERR, blk)
      BY <1>6, <2>2, <3>1
    <3>2. CASE mem' = made /\ UNCHANGED lmsg
      BY <2>2, <3>2 DEF LogType
    <3>3. QED
      BY <2>1, <3>1, <3>2 DEF made
  <2>4. QED
    BY <1>8, <2>3 DEF LogAddFileFails, LogType, MemSound
<1>9. CASE Deliver
  <2>1. CASE UNCHANGED mem /\ lmsg' = [lmsg EXCEPT !.at = @ + 1]
    <3>1. lmsg' \in [blk : Ptrs \cup {NULL}, at : Nat, marks : Nat]
      BY <2>1 DEF LogType
    <3>2. UNCHANGED <<own, facilities, mem>>
      BY <1>9, <2>1 DEF Deliver
    <3>3. QED
      BY <3>1, <3>2 DEF LogType, MemSound, MemType, Traced, Used
  <2>2. CASE \E temp \in Fresh(mem.live) :
             \E blk \in Fresh(mem.live \cup {temp}) \cup {lmsg.blk} :
               /\ mem' = Marked(mem, temp, blk)
               /\ lmsg' = [blk |-> blk, at |-> lmsg.at + 1, marks |-> lmsg.marks + 1]
    <3>1. PICK temp \in Fresh(mem.live) :
            \E blk \in Fresh(mem.live \cup {temp}) \cup {lmsg.blk} :
              /\ mem' = Marked(mem, temp, blk)
              /\ lmsg' = [blk |-> blk, at |-> lmsg.at + 1, marks |-> lmsg.marks + 1]
      BY <2>2
    <3>2. PICK blk \in Fresh(mem.live \cup {temp}) \cup {lmsg.blk} :
            /\ mem' = Marked(mem, temp, blk)
            /\ lmsg' = [blk |-> blk, at |-> lmsg.at + 1, marks |-> lmsg.marks + 1]
      BY <3>1
    <3>3. /\ temp \in Ptrs \ mem.live /\ blk \in Ptrs \cup {NULL}
          /\ lmsg.blk \in Ptrs \cup {NULL}
          /\ blk = lmsg.blk \/ blk \notin mem.live \cup {temp}
      BY <1>1, FreshOnes DEF LogType
    <3> DEFINE size == 1 + 2 * lmsg.marks
               m1 == WrapMalloc(mem, temp, 1)
               m2 == WrapRealloc(m1, lmsg.blk, blk, size + 1)
               m3 == WrapFree(m2, temp)
    <3>4. size + 1 \in Nat \ {0} /\ size + 2 \in Nat \ {0}
      BY DEF LogType
    <3>5. mem' = WrapRealloc(m3, blk, blk, size + 2)
      BY <3>2 DEF Marked
    <3> HIDE DEF size
    <3>6. MemSound(m1) /\ m1.live \subseteq mem.live \cup {temp}
      BY <3>3, MallocSound
    <3> HIDE DEF m1
    <3>7. MemSound(m2)
      <4>1. blk = lmsg.blk \/ blk \notin m1.live
        BY <3>3, <3>6
      <4>2. QED
        BY <3>3, <3>4, <3>6, <4>1, ReallocSound
    <3> HIDE DEF m2
    <3>8. MemSound(m3)
      BY <3>3, <3>7, FreeSound
    <3> HIDE DEF m3
    <3>9. MemSound(mem')
      BY <3>3, <3>4, <3>5, <3>8, ReallocSound
    <3>10. lmsg' \in [blk : Ptrs \cup {NULL}, at : Nat, marks : Nat]
      BY <3>2, <3>3 DEF LogType
    <3>11. QED
      BY <1>9, <3>9, <3>10 DEF Deliver, LogType, MemSound
  <2>3. QED
    BY <1>9, <2>1, <2>2 DEF Deliver
<1>10. CASE LogMsgReturns
  <2>1. MemSound(mem')
    BY <1>10, FreeSound DEF LogMsgReturns, LogType
  <2>2. QED
    BY <1>10, <2>1 DEF LogMsgReturns, LogType, NoMsg, MemSound
<1>11. CASE LogDestroy
  BY <1>11 DEF LogDestroy, LogType, MemSound
<1>12. CASE FacilityDelete
  <2>1. CASE facilities = << >>
    BY <1>12, <2>1 DEF FacilityDelete, LogType, MemSound
  <2>2. CASE facilities # << >>
    <3> DEFINE f == Head(facilities)
    <3>1. f.fac \in Ptrs /\ f.node \in Ptrs
      <4>1. facilities \in Seq([type : Types, fac : Ptrs, node : Ptrs])
        BY DEF LogType
      <4>2. f \in [type : Types, fac : Ptrs, node : Ptrs]
        BY <2>2, <4>1, HeadTailProperties
      <4> HIDE DEF f
      <4>3. QED
        BY <4>2
    <3>2. facilities' = Tail(facilities) /\ mem' = WrapFree(WrapFree(mem, f.fac), f.node)
      BY <1>12, <2>2 DEF FacilityDelete, Freed
    <3>3. MemSound(mem')
      BY <3>1, <3>2, FreeSound
    <3>4. facilities' \in Seq([type : Types, fac : Ptrs, node : Ptrs])
      BY <2>2, <3>2 DEF LogType
    <3>5. QED
      BY <1>12, <3>3, <3>4 DEF FacilityDelete, LogType, MemSound
  <2>3. QED
    BY <2>1, <2>2
<1>13. CASE UNCHANGED vars
  BY <1>13 DEF vars, LogType, MemSound
<1>14. QED
  BY <1>2, <1>3, <1>4, <1>5, <1>7, <1>8, <1>9, <1>10, <1>11, <1>12, <1>13 DEF Next

\* Whatever the program and the logger allocate, move and free, for a table of any
\* size and any allocator, the table holds exactly what is in use, and its count
\* is right (mtrace.c:34-210, log.c:56-200).
THEOREM TableRight == Spec => []BlocksTraced
<1>1. LogInv => BlocksTraced
  BY DEF LogInv, MemSound, BlocksTraced
<1>2. QED
  BY <1>1, InitSound, NextSound, PTL DEF Spec

-----------------------------------------------------------------------------
(***************************************************************************)
(* What the calls do to the blocks in use, unless they end the program.    *)
(***************************************************************************)
LEMMA MallocLive ==
  ASSUME NEW m, MemSound(m), NEW ptr \in (Ptrs \ m.live) \cup {NULL}, NEW size \in Nat,
         ~WrapMalloc(m, ptr, size).exited
  PROVE  /\ ~m.exited
         /\ WrapMalloc(m, ptr, size).live = m.live \cup ({ptr} \ {NULL})
         /\ WrapMalloc(m, ptr, size).table = m.table
BY MemTracerAssumption DEF WrapMalloc, RealMalloc, AddEntry, MemSound, MemType

LEMMA StrndupLive ==
  ASSUME NEW m, MemSound(m), NEW ptr \in (Ptrs \ m.live) \cup {NULL},
         NEW len \in Nat, NEW n \in Nat, ~WrapStrndup(m, ptr, len, n).exited
  PROVE  /\ ~m.exited
         /\ WrapStrndup(m, ptr, len, n).live = m.live \cup ({ptr} \ {NULL})
         /\ WrapStrndup(m, ptr, len, n).table = m.table
BY MemTracerAssumption DEF WrapStrndup, RealMalloc, AddEntry, MemSound, MemType

LEMMA FreeLive ==
  ASSUME NEW m, MemSound(m), NEW ptr \in Ptrs, ~WrapFree(m, ptr).exited
  PROVE  /\ ~m.exited
         /\ WrapFree(m, ptr).live = m.live \ {ptr}
         /\ WrapFree(m, ptr).table = m.table
BY MemTracerAssumption DEF WrapFree, RealFree, RemoveEntry, MemSound, MemType

LEMMA ReallocLive ==
  ASSUME NEW m, MemSound(m), NEW ptr \in Ptrs, NEW new \in Ptrs \cup {NULL},
         NEW size \in Nat \ {0}, ~WrapRealloc(m, ptr, new, size).exited
  PROVE  /\ ~m.exited
         /\ new = NULL => WrapRealloc(m, ptr, new, size).live = m.live
         /\ new # NULL => WrapRealloc(m, ptr, new, size).live = (m.live \ {ptr}) \cup {new}
         /\ WrapRealloc(m, ptr, new, size).table = m.table
<1> DEFINE r == RealRealloc(m, ptr, new, size)
<1>1. /\ r.exited = m.exited /\ r.table = m.table
      /\ r.live = IF new = NULL THEN m.live ELSE (m.live \ {ptr}) \cup {new}
      /\ r = [tracing |-> r.tracing, entries |-> r.entries, count |-> r.count,
              max |-> r.max, table |-> r.table, live |-> r.live,
              exited |-> r.exited, asked |-> r.asked]
  BY DEF RealRealloc, MemSound, MemType
<1> HIDE DEF r
<1>2. LET u == UpdateEntry(r, ptr, new, size) IN
      u.exited = r.exited /\ u.live = r.live /\ u.table = r.table
  BY <1>1 DEF UpdateEntry, RemoveEntry
<1>3. ptr # NULL
  BY MemTracerAssumption
<1>4. QED
  BY <1>1, <1>2, <1>3 DEF WrapRealloc, r

LEMMA TracerLive ==
  ASSUME NEW m, MemSound(m), NEW ptr \in Ptrs \cup {NULL}
  PROVE  /\ MtraceInit(m, ptr).exited = m.exited
         /\ MtraceInit(m, ptr).live = m.live \cup ({ptr} \ {NULL})
         /\ m.table = NULL => MtraceInit(m, ptr).table = ptr
         /\ MtraceReset(m).exited = m.exited
         /\ MtraceReset(m).live = m.live
         /\ MtraceReset(m).table = m.table
         /\ MtraceDestroy(m).exited = m.exited
         /\ MtraceDestroy(m).live = m.live \ {m.table}
         /\ MtraceDestroy(m).table = NULL
<1>1. /\ MtraceInit(m, ptr).exited = m.exited
      /\ MtraceInit(m, ptr).live = m.live \cup ({ptr} \ {NULL})
      /\ m.table = NULL => MtraceInit(m, ptr).table = ptr
  BY MemTracerAssumption DEF MtraceInit, RealMalloc, MemSound, MemType
<1>2. /\ MtraceReset(m).exited = m.exited
      /\ MtraceReset(m).live = m.live
      /\ MtraceReset(m).table = m.table
  BY DEF MtraceReset, MemSound, MemType
<1>3. /\ MtraceDestroy(m).exited = m.exited
      /\ MtraceDestroy(m).live = m.live \ {m.table}
      /\ MtraceDestroy(m).table = NULL
  BY DEF MtraceDestroy, MemSound, MemType
<1>4. QED
  BY <1>1, <1>2, <1>3

-----------------------------------------------------------------------------
(***************************************************************************)
(* That the logger releases what it takes.  The blocks in use are parted   *)
(* among the program, the table of the tracer, the facilities, the nodes   *)
(* of their list, what is lost and the text of the message; each call      *)
(* takes a new block into one part or one out of it.                       *)
(***************************************************************************)
Apart(a, b, c, d, e, f) ==
  /\ a \cap b = {} /\ a \cap c = {} /\ a \cap d = {} /\ a \cap e = {} /\ a \cap f = {}
  /\ b \cap c = {} /\ b \cap d = {} /\ b \cap e = {} /\ b \cap f = {}
  /\ c \cap d = {} /\ c \cap e = {} /\ c \cap f = {}
  /\ d \cap e = {} /\ d \cap f = {}
  /\ e \cap f = {}

Parted(live, a, b, c, d, e, f) ==
  live = a \cup b \cup c \cup d \cup e \cup f /\ Apart(a, b, c, d, e, f)

\* New blocks are taken into a part, or blocks out of it; the parts may be named
\* in any order.
LEMMA PartGrows ==
  ASSUME NEW live, NEW a, NEW b, NEW c, NEW d, NEW e, NEW f,
         Parted(live, a, b, c, d, e, f), NEW new, new \cap live = {}
  PROVE  Parted(live \cup new, a \cup new, b, c, d, e, f)
BY DEF Parted, Apart

LEMMA PartShrinks ==
  ASSUME NEW live, NEW a, NEW b, NEW c, NEW d, NEW e, NEW f,
         Parted(live, a, b, c, d, e, f), NEW old, old \subseteq a
  PROVE  Parted(live \ old, a \ old, b, c, d, e, f)
BY DEF Parted, Apart

LEMMA PartsSwap ==
  ASSUME NEW live, NEW a, NEW b, NEW c, NEW d, NEW e, NEW f,
         Parted(live, a, b, c, d, e, f)
  PROVE  /\ Parted(live, b, a, c, d, e, f)
         /\ Parted(live, c, b, a, d, e, f)
         /\ Parted(live, d, b, c, a, e, f)
         /\ Parted(live, e, b, c, d, a, f)
         /\ Parted(live, f, b, c, d, e, a)
BY DEF Parted, Apart

\* The blocks of the parts are those of all.
LEMMA PartsCount ==
  ASSUME NEW live, NEW a, NEW b, NEW c, NEW d, NEW e, NEW f,
         Parted(live, a, b, c, d, e, f),
         IsFiniteSet(a), IsFiniteSet(b), IsFiniteSet(c),
         IsFiniteSet(d), IsFiniteSet(e), IsFiniteSet(f)
  PROVE  Cardinality(live) = Cardinality(a) + Cardinality(b) + Cardinality(c) +
                             Cardinality(d) + Cardinality(e) + Cardinality(f)
<1>1. ASSUME NEW S, NEW T, IsFiniteSet(S), IsFiniteSet(T), S \cap T = {}
      PROVE  /\ IsFiniteSet(S \cup T)
             /\ Cardinality(S \cup T) = Cardinality(S) + Cardinality(T)
             /\ Cardinality(S) \in Nat /\ Cardinality(T) \in Nat
  <2>1. Cardinality(S) \in Nat /\ Cardinality(T) \in Nat
    BY <1>1, FS_CardinalityType
  <2>2. Cardinality(S \cap T) = 0
    BY <1>1, FS_EmptySet
  <2>3. /\ IsFiniteSet(S \cup T)
        /\ Cardinality(S \cup T) = Cardinality(S) + Cardinality(T) - Cardinality(S \cap T)
    BY <1>1, FS_Union
  <2>4. QED
    BY <2>1, <2>2, <2>3
<1> DEFINE ab == a \cup b
           abc == ab \cup c
           abcd == abc \cup d
           abcde == abcd \cup e
<1>2. /\ a \cap b = {} /\ ab \cap c = {} /\ abc \cap d = {} /\ abcd \cap e = {}
      /\ abcde \cap f = {} /\ live = abcde \cup f
  BY DEF Parted, Apart
<1>3. IsFiniteSet(ab) /\ Cardinality(ab) = Cardinality(a) + Cardinality(b)
  BY <1>1, <1>2
<1> HIDE DEF ab
<1>4. IsFiniteSet(abc) /\ Cardinality(abc) = Cardinality(ab) + Cardinality(c)
  BY <1>1, <1>2, <1>3
<1> HIDE DEF abc
<1>5. IsFiniteSet(abcd) /\ Cardinality(abcd) = Cardinality(abc) + Cardinality(d)
  BY <1>1, <1>2, <1>4
<1> HIDE DEF abcd
<1>6. IsFiniteSet(abcde) /\ Cardinality(abcde) = Cardinality(abcd) + Cardinality(e)
  BY <1>1, <1>2, <1>5
<1> HIDE DEF abcde
<1>7. Cardinality(live) = Cardinality(abcde) + Cardinality(f)
  BY <1>1, <1>2, <1>6
<1>8. QED
  BY <1>3, <1>4, <1>5, <1>6, <1>7

-----------------------------------------------------------------------------
\* A list of facilities: its blocks, its open files, and that no block is in two
\* of its places.
Facility == [type : Types, fac : Ptrs, node : Ptrs]
FacsOf(s) == {s[i].fac : i \in DOMAIN s}
NodesOf(s) == {s[i].node : i \in DOMAIN s}
FilesOf(s) == {s[i].fac : i \in {j \in DOMAIN s : s[j].type = "FILE"}}
Unlike(s) ==
  \A i, j \in DOMAIN s : i # j => s[i].fac # s[j].fac /\ s[i].node # s[j].node

\* How many of the first n facilities write to a file or the console.
Written(s, n) == Cardinality({j \in 1 .. n : Writes(s[j].type)})

LEMMA FacilityAdded ==
  ASSUME NEW s \in Seq(Facility), NEW e \in Facility
  PROVE  /\ FacsOf(Append(s, e)) = FacsOf(s) \cup {e.fac}
         /\ NodesOf(Append(s, e)) = NodesOf(s) \cup {e.node}
         /\ FilesOf(Append(s, e)) =
              IF e.type = "FILE" THEN FilesOf(s) \cup {e.fac} ELSE FilesOf(s)
         /\ Unlike(s) /\ e.fac \notin FacsOf(s) /\ e.node \notin NodesOf(s)
              => Unlike(Append(s, e))
<1> DEFINE t == Append(s, e)
           n == Len(s) + 1
<1>1. /\ n \in Nat /\ DOMAIN s = 1 .. Len(s) /\ DOMAIN t = 1 .. n
      /\ t[n] = e /\ \A i \in DOMAIN s : t[i] = s[i]
  OBVIOUS
<1>2. DOMAIN t = DOMAIN s \cup {n} /\ n \notin DOMAIN s
  BY <1>1
<1> HIDE DEF t, n
<1>3. FacsOf(t) = FacsOf(s) \cup {e.fac} /\ NodesOf(t) = NodesOf(s) \cup {e.node}
  <2>1. ASSUME NEW p
        PROVE  /\ p \in FacsOf(t) <=> p \in FacsOf(s) \/ p = e.fac
               /\ p \in NodesOf(t) <=> p \in NodesOf(s) \/ p = e.node
    <3>1. p \in FacsOf(t) <=> \E i \in DOMAIN t : p = t[i].fac
      BY DEF FacsOf
    <3>2. p \in FacsOf(s) <=> \E i \in DOMAIN s : p = s[i].fac
      BY DEF FacsOf
    <3>3. p \in NodesOf(t) <=> \E i \in DOMAIN t : p = t[i].node
      BY DEF NodesOf
    <3>4. p \in NodesOf(s) <=> \E i \in DOMAIN s : p = s[i].node
      BY DEF NodesOf
    <3>5. QED
      BY <1>1, <1>2, <3>1, <3>2, <3>3, <3>4
  <2>2. QED
    BY <2>1
<1>4. FilesOf(t) = IF e.type = "FILE" THEN FilesOf(s) \cup {e.fac} ELSE FilesOf(s)
  <2>1. ASSUME NEW p
        PROVE  p \in FilesOf(t) <=> p \in FilesOf(s) \/ (e.type = "FILE" /\ p = e.fac)
    BY <1>1, <1>2 DEF FilesOf
  <2>2. QED
    BY <2>1
<1>5. Unlike(s) /\ e.fac \notin FacsOf(s) /\ e.node \notin NodesOf(s) => Unlike(t)
  <2> SUFFICES ASSUME Unlike(s), e.fac \notin FacsOf(s), e.node \notin NodesOf(s)
               PROVE  Unlike(t)
    OBVIOUS
  <2>1. \A i \in DOMAIN s : s[i].fac # e.fac /\ s[i].node # e.node
    BY DEF FacsOf, NodesOf
  <2>2. \A i, j \in DOMAIN s : i # j => s[i].fac # s[j].fac /\ s[i].node # s[j].node
    BY DEF Unlike
  <2>3. QED
    BY <1>1, <1>2, <2>1, <2>2 DEF Unlike
<1>6. QED
  BY <1>3, <1>4, <1>5 DEF t

LEMMA FacilityTaken ==
  ASSUME NEW s \in Seq(Facility), s # << >>, Unlike(s)
  PROVE  /\ Head(s) \in Facility
         /\ Head(s).fac \in FacsOf(s) /\ Head(s).node \in NodesOf(s)
         /\ FacsOf(Tail(s)) = FacsOf(s) \ {Head(s).fac}
         /\ NodesOf(Tail(s)) = NodesOf(s) \ {Head(s).node}
         /\ FilesOf(Tail(s)) = FilesOf(s) \ {Head(s).fac}
         /\ Unlike(Tail(s))
<1> DEFINE t == Tail(s)
           n == Len(s)
<1>1. /\ n \in Nat \ {0} /\ DOMAIN s = 1 .. n /\ DOMAIN t = 1 .. n - 1
      /\ Head(s) = s[1] /\ \A i \in 1 .. n - 1 : t[i] = s[i + 1]
  BY HeadTailProperties
<1> HIDE DEF t, n
<1>2. /\ 1 \in DOMAIN s
      /\ \A i \in DOMAIN t : \E j \in DOMAIN s : j # 1 /\ s[j] = t[i]
      /\ \A j \in DOMAIN s : j # 1 => \E i \in DOMAIN t : t[i] = s[j]
  <2>1. \A i \in DOMAIN t : i + 1 \in DOMAIN s /\ i + 1 # 1 /\ s[i + 1] = t[i]
    BY <1>1
  <2>2. \A j \in DOMAIN s : j # 1 => j - 1 \in DOMAIN t /\ t[j - 1] = s[j]
    BY <1>1
  <2>3. QED
    BY <1>1, <2>1, <2>2
<1>10. \A i \in DOMAIN s : i # 1 => s[i].fac # s[1].fac /\ s[i].node # s[1].node
  BY <1>2 DEF Unlike
<1>3. Head(s) \in Facility
  BY <1>1, <1>2
<1>4. FacsOf(t) = FacsOf(s) \ {s[1].fac}
  <2>1. ASSUME NEW p
        PROVE  p \in FacsOf(t) <=> p \in FacsOf(s) /\ p # s[1].fac
    <3>1. p \in FacsOf(t) <=> \E i \in DOMAIN t : p = t[i].fac
      BY DEF FacsOf
    <3>2. p \in FacsOf(s) <=> \E i \in DOMAIN s : p = s[i].fac
      BY DEF FacsOf
    <3>3. QED
      BY <1>2, <1>10, <3>1, <3>2
  <2>2. QED
    BY <2>1
<1>5. NodesOf(t) = NodesOf(s) \ {s[1].node}
  <2>1. ASSUME NEW p
        PROVE  p \in NodesOf(t) <=> p \in NodesOf(s) /\ p # s[1].node
    <3>1. p \in NodesOf(t) <=> \E i \in DOMAIN t : p = t[i].node
      BY DEF NodesOf
    <3>2. p \in NodesOf(s) <=> \E i \in DOMAIN s : p = s[i].node
      BY DEF NodesOf
    <3>3. QED
      BY <1>2, <1>10, <3>1, <3>2
  <2>2. QED
    BY <2>1
<1>6. FilesOf(t) = FilesOf(s) \ {s[1].fac}
  <2>1. ASSUME NEW p
        PROVE  p \in FilesOf(t) <=> p \in FilesOf(s) /\ p # s[1].fac
    <3>1. p \in FilesOf(t) <=> \E i \in DOMAIN t : t[i].type = "FILE" /\ p = t[i].fac
      BY DEF FilesOf
    <3>2. p \in FilesOf(s) <=> \E i \in DOMAIN s : s[i].type = "FILE" /\ p = s[i].fac
      BY DEF FilesOf
    <3>3. QED
      BY <1>2, <1>10, <3>1, <3>2
  <2>2. QED
    BY <2>1
<1>7. Unlike(t)
  <2> SUFFICES ASSUME NEW i \in DOMAIN t, NEW j \in DOMAIN t, i # j
               PROVE  t[i].fac # t[j].fac /\ t[i].node # t[j].node
    BY DEF Unlike
  <2>1. /\ i + 1 \in DOMAIN s /\ j + 1 \in DOMAIN s /\ i + 1 # j + 1
        /\ t[i] = s[i + 1] /\ t[j] = s[j + 1]
    BY <1>1
  <2>2. QED
    BY <2>1 DEF Unlike
<1>8. Head(s).fac \in FacsOf(s) /\ Head(s).node \in NodesOf(s)
  BY <1>1, <1>2 DEF FacsOf, NodesOf
<1>9. QED
  BY <1>1, <1>3, <1>4, <1>5, <1>6, <1>7, <1>8 DEF t

\* There are as many blocks of each kind as facilities.
LEMMA FacilitiesCount ==
  ASSUME NEW s \in Seq(Facility), Unlike(s)
  PROVE  /\ IsFiniteSet(FacsOf(s)) /\ Cardinality(FacsOf(s)) = Len(s)
         /\ IsFiniteSet(NodesOf(s)) /\ Cardinality(NodesOf(s)) = Len(s)
<1>1. /\ Len(s) \in Nat /\ DOMAIN s = 1 .. Len(s)
      /\ IsFiniteSet(1 .. Len(s)) /\ Cardinality(1 .. Len(s)) = Len(s)
  <2>1. Len(s) \in Nat /\ DOMAIN s = 1 .. Len(s)
    OBVIOUS
  <2>2. /\ IsFiniteSet(1 .. Len(s))
        /\ Cardinality(1 .. Len(s)) = IF 1 > Len(s) THEN 0 ELSE Len(s) - 1 + 1
    BY <2>1, FS_Interval
  <2>3. QED
    BY <2>1, <2>2
<1>2. IsFiniteSet(FacsOf(s)) /\ Cardinality(FacsOf(s)) = Len(s)
  <2> DEFINE f == [i \in 1 .. Len(s) |-> s[i].fac]
  <2>1. f \in Bijection(1 .. Len(s), FacsOf(s))
    <3>1. f \in [1 .. Len(s) -> FacsOf(s)]
      BY <1>1 DEF FacsOf
    <3>2. \A i, j \in 1 .. Len(s) : f[i] = f[j] => i = j
      BY <1>1 DEF Unlike
    <3>3. \A p \in FacsOf(s) : \E i \in 1 .. Len(s) : f[i] = p
      BY <1>1 DEF FacsOf
    <3>4. QED
      BY <3>1, <3>2, <3>3, Fun_IsBij
  <2>2. QED
    BY <1>1, <2>1, FS_Bijection, Fun_ExistsBij
<1>3. IsFiniteSet(NodesOf(s)) /\ Cardinality(NodesOf(s)) = Len(s)
  <2> DEFINE f == [i \in 1 .. Len(s) |-> s[i].node]
  <2>1. f \in Bijection(1 .. Len(s), NodesOf(s))
    <3>1. f \in [1 .. Len(s) -> NodesOf(s)]
      BY <1>1 DEF NodesOf
    <3>2. \A i, j \in 1 .. Len(s) : f[i] = f[j] => i = j
      BY <1>1 DEF Unlike
    <3>3. \A p \in NodesOf(s) : \E i \in 1 .. Len(s) : f[i] = p
      BY <1>1 DEF NodesOf
    <3>4. QED
      BY <3>1, <3>2, <3>3, Fun_IsBij
  <2>2. QED
    BY <1>1, <2>1, FS_Bijection, Fun_ExistsBij
<1>4. QED
  BY <1>2, <1>3

-----------------------------------------------------------------------------
(***************************************************************************)
(* The inductive invariant of the logger, for a program that goes on.      *)
(***************************************************************************)
LoggerParts ==
  Parted(mem.live, own, {mem.table} \ {NULL}, FacsOf(facilities), NodesOf(facilities),
         lost, {lmsg.blk} \ {NULL})

\* What was shown of a message to the facilities before the place in the list.
Sending ==
  IF phase = "sending"
  THEN /\ lmsg.blk \in Ptrs
       /\ lmsg.at \in 1 .. Len(facilities) + 1
       /\ lmsg.marks = Written(facilities, lmsg.at - 1)
       /\ Len(shown) = lmsg.at - 1
       /\ \A i \in 1 .. lmsg.at - 1 : /\ shown[i].fac = facilities[i].fac
                                     /\ shown[i].marks = Written(facilities, i)
  ELSE lmsg = NoMsg /\ shown = << >>

LoggerState ==
  /\ IsFiniteSet(own) /\ IsFiniteSet(lost)
  /\ LoggerParts
  /\ Unlike(facilities)
  /\ files = FilesOf(facilities)
  /\ shown \in Seq([fac : Ptrs, marks : Nat])
  /\ Sending

LEMMA FiniteOwn ==
  ASSUME NEW S, IsFiniteSet(S), NEW p
  PROVE  IsFiniteSet(S \cup ({p} \ {NULL})) /\ IsFiniteSet(S \ {p}) /\ IsFiniteSet(S \cup {p})
<1>1. IsFiniteSet(S \ {p}) /\ IsFiniteSet(S \cup {p})
  BY FS_AddElement, FS_RemoveElement
<1>2. S \cup ({p} \ {NULL}) = S \/ S \cup ({p} \ {NULL}) = S \cup {p}
  OBVIOUS
<1>3. QED
  BY <1>1, <1>2

\* A step that changes the memory of the program only.
LEMMA ProgramKeeps ==
  ASSUME LogInv, LoggerState, ProgramStep, ~mem'.exited
  PROVE  LoggerState'
<1> USE DEF LogInv
<1>1. MemSound(mem) /\ mem.live \subseteq Ptrs /\ own \subseteq Ptrs /\ Ptrs \ own \subseteq Ptrs
  BY DEF MemSound, MemType, LogType
<1>2. \A p \in Result(mem) : p \in (Ptrs \ mem.live) \cup {NULL}
  BY <1>1, FreshOnes DEF Result
<1> DEFINE OthersIn(live, ours) ==
             Parted(live, ours, {mem.table} \ {NULL}, FacsOf(facilities),
                    NodesOf(facilities), lost, {lmsg.blk} \ {NULL})
<1>3. OthersIn(mem.live, own)
  BY DEF LoggerState, LoggerParts
<1>4. ASSUME OthersIn(mem'.live, own'), mem'.table = mem.table, IsFiniteSet(own')
      PROVE  LoggerState'
  BY <1>4 DEF ProgramStep, logVars, LoggerState, LoggerParts, Sending, NoMsg
<1>5. ASSUME NEW p \in (Ptrs \ mem.live) \cup {NULL}, Keep(p),
             mem'.live = mem.live \cup ({p} \ {NULL}), mem'.table = mem.table
      PROVE  LoggerState'
  <2>1. ({p} \ {NULL}) \cap mem.live = {}
    OBVIOUS
  <2>2. OthersIn(mem.live \cup ({p} \ {NULL}), own \cup ({p} \ {NULL}))
    BY <1>3, <2>1, PartGrows
  <2>3. IsFiniteSet(own')
    BY <1>5, FiniteOwn DEF LoggerState, Keep
  <2>4. QED
    BY <1>4, <1>5, <2>2, <2>3 DEF Keep
<1>6. CASE ProgramMalloc
  <2>1. PICK p \in Result(mem), size \in Sizes : mem' = WrapMalloc(mem, p, size) /\ Keep(p)
    BY <1>6 DEF ProgramMalloc
  <2>2. QED
    BY <1>1, <1>2, <1>5, <2>1, MallocLive, LogAssumption
<1>7. CASE ProgramStrndup
  <2>1. PICK p \in Result(mem), len \in Sizes, n \in Sizes :
          mem' = WrapStrndup(mem, p, len, n) /\ Keep(p)
    BY <1>7 DEF ProgramStrndup
  <2>2. QED
    BY <1>1, <1>2, <1>5, <2>1, StrndupLive, LogAssumption
<1>8. CASE ProgramRealloc
  <2>1. PICK p \in own : \E q \in Result(mem) \cup {p}, size \in Sizes \ {0} :
          /\ mem' = WrapRealloc(mem, p, q, size)
          /\ own' = IF q = NULL THEN own ELSE (own \ {p}) \cup {q}
    BY <1>8 DEF ProgramRealloc
  <2>2. PICK q \in Result(mem) \cup {p}, size \in Sizes \ {0} :
          /\ mem' = WrapRealloc(mem, p, q, size)
          /\ own' = IF q = NULL THEN own ELSE (own \ {p}) \cup {q}
    BY <2>1
  <2>3. p \in Ptrs /\ q \in Ptrs \cup {NULL} /\ size \in Nat \ {0} /\ (q = p \/ q \notin mem.live)
    BY <1>1, <1>2, MemTracerAssumption, LogAssumption
  <2>4. /\ q = NULL => mem'.live = mem.live
        /\ q # NULL => mem'.live = (mem.live \ {p}) \cup {q}
        /\ mem'.table = mem.table
    BY <1>1, <2>2, <2>3, ReallocLive
  <2>5. CASE q = NULL
    BY <1>3, <1>4, <2>2, <2>4, <2>5 DEF LoggerState
  <2>6. CASE q # NULL
    <3>1. OthersIn(mem.live \ {p}, own \ {p})
      BY <1>3, PartShrinks
    <3>2. {q} \cap (mem.live \ {p}) = {}
      BY <2>3
    <3>3. OthersIn((mem.live \ {p}) \cup {q}, (own \ {p}) \cup {q})
      BY <3>1, <3>2, PartGrows
    <3>4. IsFiniteSet((own \ {p}) \cup {q})
      BY FiniteOwn DEF LoggerState
    <3>5. QED
      BY <1>4, <2>2, <2>4, <2>6, <3>3, <3>4
  <2>7. QED
    BY <2>5, <2>6
<1>9. CASE ProgramFree
  <2>1. PICK p \in own : mem' = WrapFree(mem, p) /\ own' = own \ {p}
    BY <1>9 DEF ProgramFree
  <2>2. mem'.live = mem.live \ {p} /\ mem'.table = mem.table
    BY <1>1, <2>1, FreeLive
  <2>3. OthersIn(mem.live \ {p}, own \ {p})
    BY <1>3, PartShrinks
  <2>4. IsFiniteSet(own \ {p})
    BY FiniteOwn DEF LoggerState
  <2>5. QED
    BY <1>4, <2>1, <2>2, <2>3, <2>4
<1>10. QED
  BY <1>6, <1>7, <1>8, <1>9 DEF ProgramStep

\* The table of the tracer is a block of its own.
LEMMA TracerKeeps ==
  ASSUME LogInv, LoggerState, TracerStep, ~mem'.exited
  PROVE  LoggerState'
<1> USE DEF LogInv
<1>1. MemSound(mem) /\ mem.live \subseteq Ptrs /\ mem.table \in Ptrs \cup {NULL}
  BY DEF MemSound, MemType
<1>2. \A p \in Result(mem) : p \in (Ptrs \ mem.live) \cup {NULL}
  BY <1>1, FreshOnes DEF Result
<1> DEFINE OthersIn(live, table) ==
             Parted(live, table, own, FacsOf(facilities),
                    NodesOf(facilities), lost, {lmsg.blk} \ {NULL})
           old == {mem.table} \ {NULL}
<1>3. OthersIn(mem.live, old)
  BY PartsSwap DEF LoggerState, LoggerParts
<1>4. ASSUME OthersIn(mem'.live, {mem'.table} \ {NULL})
      PROVE  LoggerState'
  <2>1. Parted(mem'.live, own, {mem'.table} \ {NULL}, FacsOf(facilities),
               NodesOf(facilities), lost, {lmsg.blk} \ {NULL})
    BY <1>4, PartsSwap
  <2>2. UNCHANGED <<logVars, own, lost>>
    BY DEF TracerStep
  <2>3. QED
    BY <2>1, <2>2 DEF logVars, LoggerState, LoggerParts, Sending, NoMsg
<1>5. CASE mem.table = NULL /\ \E p \in Result(mem) : mem' = MtraceInit(mem, p)
  <2>1. PICK p \in Result(mem) : mem' = MtraceInit(mem, p)
    BY <1>5
  <2>2. mem'.live = mem.live \cup ({p} \ {NULL}) /\ mem'.table = p
    BY <1>1, <1>2, <1>5, <2>1, TracerLive
  <2>3. ({p} \ {NULL}) \cap mem.live = {}
    BY <1>2
  <2>4. OthersIn(mem.live \cup ({p} \ {NULL}), old \cup ({p} \ {NULL}))
    BY <1>3, <2>3, PartGrows
  <2>5. old \cup ({p} \ {NULL}) = {p} \ {NULL}
    BY <1>5
  <2>6. QED
    BY <1>4, <2>2, <2>4, <2>5
<1>6. CASE mem' = MtraceReset(mem)
  BY <1>1, <1>3, <1>4, <1>6, TracerLive
<1>7. CASE mem' = MtraceDestroy(mem)
  <2>1. mem'.live = mem.live \ {mem.table} /\ mem'.table = NULL
    BY <1>1, <1>7, TracerLive
  <2>2. mem.live \ {mem.table} = mem.live \ old
    BY <1>1, MemTracerAssumption
  <2>3. OthersIn(mem.live \ old, old \ old)
    BY <1>3, PartShrinks
  <2>4. old \ old = {NULL} \ {NULL}
    OBVIOUS
  <2>5. QED
    BY <1>4, <2>1, <2>2, <2>3, <2>4
<1>8. QED
  BY <1>5, <1>6, <1>7 DEF TracerStep

\* A count of the first n is not changed by what comes behind them.
LEMMA WrittenAppended ==
  ASSUME NEW s \in Seq(Facility), NEW e \in Facility, NEW n \in 0 .. Len(s)
  PROVE  Written(Append(s, e), n) = Written(s, n)
<1>1. \A j \in 1 .. n : Append(s, e)[j] = s[j]
  OBVIOUS
<1>2. {j \in 1 .. n : Writes(Append(s, e)[j].type)} = {j \in 1 .. n : Writes(s[j].type)}
  BY <1>1
<1>3. QED
  BY <1>2 DEF Written

LEMMA WrittenNext ==
  ASSUME NEW s \in Seq(Facility), NEW n \in 1 .. Len(s)
  PROVE  /\ Written(s, n - 1) \in Nat
         /\ Written(s, n) = Written(s, n - 1) + (IF Writes(s[n].type) THEN 1 ELSE 0)
<1> DEFINE before == {j \in 1 .. n - 1 : Writes(s[j].type)}
           upto == {j \in 1 .. n : Writes(s[j].type)}
<1>1. n \in Nat \ {0}
  OBVIOUS
<1>2. IsFiniteSet(before) /\ Cardinality(before) \in Nat
  <2>1. IsFiniteSet(1 .. n - 1)
    BY <1>1, FS_Interval
  <2>2. QED
    BY <2>1, FS_Subset, FS_CardinalityType
<1>3. n \notin before
  BY <1>1
<1>4. upto = IF Writes(s[n].type) THEN before \cup {n} ELSE before
  BY <1>1
<1> HIDE DEF before, upto
<1>5. Cardinality(upto) = Cardinality(before) + (IF Writes(s[n].type) THEN 1 ELSE 0)
  <2>1. Cardinality(before \cup {n}) = Cardinality(before) + 1
    BY <1>2, <1>3, FS_AddElement
  <2>2. QED
    BY <1>2, <1>4, <2>1
<1>6. QED
  BY <1>2, <1>5 DEF Written, before, upto

\* A facility that is added, also while a message is sent, comes last.
LEMMA AddKeeps ==
  ASSUME LogInv, LoggerState, LogAdd, ~mem'.exited
  PROVE  LoggerState'
<1> USE DEF LogInv
<1>1. MemSound(mem) /\ mem.live \subseteq Ptrs /\ facilities \in Seq(Facility)
  BY DEF MemSound, MemType, LogType, Facility
<1>2. PICK f \in Fresh(mem.live) : \E node \in Fresh(mem.live \cup {f}), type \in Types :
        /\ mem' = WrapMalloc(WrapMalloc(mem, f, FacSize), node, NodeSize)
        /\ facilities' = Append(facilities, [type |-> type, fac |-> f, node |-> node])
        /\ files' = IF type = "FILE" THEN files \cup {f} ELSE files
  BY DEF LogAdd
<1>3. PICK node \in Fresh(mem.live \cup {f}), type \in Types :
        /\ mem' = WrapMalloc(WrapMalloc(mem, f, FacSize), node, NodeSize)
        /\ facilities' = Append(facilities, [type |-> type, fac |-> f, node |-> node])
        /\ files' = IF type = "FILE" THEN files \cup {f} ELSE files
  BY <1>2
<1>4. f \in Ptrs \ mem.live /\ node \in Ptrs /\ node \notin mem.live \cup {f}
  BY <1>1, FreshOnes
<1> DEFINE e == [type |-> type, fac |-> f, node |-> node]
           m == WrapMalloc(mem, f, FacSize)
<1>5. e \in Facility /\ e.fac = f /\ e.node = node /\ e.type = type
  BY <1>4 DEF Facility
<1>6. /\ mem'.live = (mem.live \cup {f}) \cup {node} /\ mem'.table = mem.table
  <2>1. MemSound(m) /\ m.live \subseteq mem.live \cup {f}
    BY <1>1, <1>4, MallocSound, LogAssumption
  <2>2. mem' = WrapMalloc(m, node, NodeSize)
    BY <1>3
  <2>3. f # NULL /\ node # NULL
    BY <1>4, MemTracerAssumption
  <2> HIDE DEF m
  <2>4. ~m.exited /\ mem'.live = m.live \cup ({node} \ {NULL}) /\ mem'.table = m.table
    BY <1>4, <2>1, <2>2, MallocLive, LogAssumption
  <2>5. m.live = mem.live \cup ({f} \ {NULL}) /\ m.table = mem.table
    BY <1>1, <1>4, <2>4, MallocLive, LogAssumption DEF m
  <2>6. QED
    BY <2>3, <2>4, <2>5
<1> HIDE DEF e, m
<1>7. facilities' = Append(facilities, e)
  BY <1>3 DEF e
<1> DEFINE T == {mem.table} \ {NULL}
           M == {lmsg.blk} \ {NULL}
           F == FacsOf(facilities)
           N == NodesOf(facilities)
<1>8. Parted(mem.live, own, T, F, N, lost, M)
  BY DEF LoggerState, LoggerParts
<1>9. f \notin F /\ node \notin N
  BY <1>4, <1>8 DEF Parted
<1>10. /\ FacsOf(facilities') = F \cup {f} /\ NodesOf(facilities') = N \cup {node}
       /\ files' = FilesOf(facilities')
       /\ Unlike(facilities')
  <2>1. /\ FacsOf(facilities') = F \cup {f} /\ NodesOf(facilities') = N \cup {node}
        /\ Unlike(facilities')
    BY <1>1, <1>5, <1>7, <1>9, FacilityAdded DEF LoggerState
  <2>2. FilesOf(facilities') =
          IF type = "FILE" THEN FilesOf(facilities) \cup {f} ELSE FilesOf(facilities)
    BY <1>1, <1>5, <1>7, FacilityAdded
  <2>3. files = FilesOf(facilities)
    BY DEF LoggerState
  <2>4. QED
    BY <1>3, <2>1, <2>2, <2>3
<1>11. Parted(mem'.live, own, T, F \cup {f}, N \cup {node}, lost, M)
  <2> HIDE DEF T, M, F, N
  <2>1. {f} \cap mem.live = {} /\ {node} \cap (mem.live \cup {f}) = {}
    BY <1>4
  <2>2. Parted(mem.live \cup {f}, F \cup {f}, T, own, N, lost, M)
    BY <1>8, <2>1, PartsSwap, PartGrows
  <2>3. Parted(mem.live \cup {f}, N, T, own, F \cup {f}, lost, M)
    BY <2>2, PartsSwap
  <2>4. Parted((mem.live \cup {f}) \cup {node}, N \cup {node}, T, own, F \cup {f}, lost, M)
    BY <2>1, <2>3, PartGrows
  <2>5. Parted((mem.live \cup {f}) \cup {node}, own, T, F \cup {f}, N \cup {node}, lost, M)
    BY <2>4 DEF Parted, Apart
  <2>6. QED
    BY <1>6, <2>5
<1>12. UNCHANGED <<phase, lmsg, own, lost, shown>>
  BY DEF LogAdd
<1>13. Sending'
  <2>1. CASE phase = "sending"
    <3>1. Len(facilities') = Len(facilities) + 1 /\ Len(facilities) \in Nat
      BY <1>1, <1>7
    <3>2. \A i \in 1 .. lmsg.at - 1 :
            facilities'[i] = facilities[i] /\ Written(facilities', i) = Written(facilities, i)
      BY <1>1, <1>5, <1>7, <2>1, WrittenAppended DEF LoggerState, Sending
    <3>3. Written(facilities', lmsg.at - 1) = Written(facilities, lmsg.at - 1)
      BY <1>1, <1>5, <1>7, <2>1, WrittenAppended DEF LoggerState, Sending
    <3>4. lmsg.at \in 1 .. Len(facilities') + 1
      BY <2>1, <3>1 DEF LoggerState, Sending
    <3>5. QED
      BY <1>12, <2>1, <3>2, <3>3, <3>4 DEF LoggerState, Sending
  <2>2. CASE phase # "sending"
    BY <1>12, <2>2 DEF LoggerState, Sending, NoMsg
  <2>3. QED
    BY <2>1, <2>2
<1>14. LoggerParts'
  BY <1>6, <1>10, <1>11, <1>12 DEF LoggerParts
<1>15. QED
  BY <1>10, <1>12, <1>13, <1>14 DEF LoggerState

\* A message whose text is a new block goes to the first of the facilities.
LEMMA BeginKeeps ==
  ASSUME LogInv, LoggerState, phase = "ready", ~mem'.exited,
         NEW m, MemSound(m), NEW gone,
         Parted(m.live, own, {m.table} \ {NULL}, FacsOf(facilities), NodesOf(facilities),
                gone, {}),
         NEW blk \in Fresh(m.live), NEW level, Begin(m, level, blk),
         IsFiniteSet(gone), lost' = gone, UNCHANGED <<facilities, files, own, shown>>
  PROVE  LoggerState'
<1>1. m.live \subseteq Ptrs
  BY DEF MemSound, MemType
<1>2. blk \in Ptrs /\ blk \notin m.live /\ blk # NULL
  BY <1>1, FreshOnes, MemTracerAssumption
<1>3. mem'.live = m.live \cup {blk} /\ mem'.table = m.table
  <2>1. mem' = WrapMalloc(m, blk, 1)
    BY DEF Begin
  <2>2. mem'.live = m.live \cup ({blk} \ {NULL}) /\ mem'.table = m.table
    BY <1>2, <2>1, MallocLive
  <2>3. QED
    BY <1>2, <2>2
<1>4. Parted(m.live \cup {blk}, {} \cup {blk}, {m.table} \ {NULL}, FacsOf(facilities),
             NodesOf(facilities), gone, own)
  <2>1. Parted(m.live, {}, {m.table} \ {NULL}, FacsOf(facilities), NodesOf(facilities),
               gone, own)
    BY PartsSwap
  <2>2. {blk} \cap m.live = {}
    BY <1>2
  <2>3. QED
    BY <2>1, <2>2, PartGrows
<1>5. Parted(m.live \cup {blk}, own, {m.table} \ {NULL}, FacsOf(facilities),
             NodesOf(facilities), gone, {} \cup {blk})
  BY <1>4, PartsSwap
<1>6. lmsg' = [blk |-> blk, at |-> 1, marks |-> 0] /\ phase' = "sending"
  BY DEF Begin
<1>7. LoggerParts'
  <2>1. {lmsg'.blk} \ {NULL} = {} \cup {blk}
    BY <1>2, <1>6
  <2>2. QED
    BY <1>3, <1>5, <2>1 DEF LoggerParts
<1>8. Sending'
  <2>1. shown' = << >>
    BY DEF LoggerState, Sending
  <2>2. Written(facilities', 0) = 0
    <3>1. {j \in 1 .. 0 : Writes(facilities'[j].type)} = {}
      OBVIOUS
    <3>2. QED
      BY <3>1, FS_EmptySet DEF Written
  <2>3. Len(facilities') \in Nat
    BY DEF LogInv, LogType
  <2>4. QED
    BY <1>2, <1>6, <2>1, <2>2, <2>3 DEF Sending
<1>9. QED
  BY <1>7, <1>8 DEF LoggerState

LEMMA MessageKeeps ==
  ASSUME LogInv, LoggerState, LogMsg, ~mem'.exited
  PROVE  LoggerState'
<1>1. PICK level \in Levels, blk \in Fresh(mem.live) : Begin(mem, level, blk)
  BY DEF LogMsg
<1>2. phase = "ready" /\ UNCHANGED <<facilities, files, own, lost, shown>>
  BY DEF LogMsg
<1>3. {lmsg.blk} \ {NULL} = {}
  BY <1>2 DEF LoggerState, Sending, NoMsg
<1>4. Parted(mem.live, own, {mem.table} \ {NULL}, FacsOf(facilities), NodesOf(facilities),
             lost, {})
  BY <1>3 DEF LoggerState, LoggerParts
<1>5. MemSound(mem) /\ IsFiniteSet(lost)
  BY DEF LogInv, LoggerState
<1>6. QED
  BY <1>1, <1>2, <1>4, <1>5, BeginKeeps

\* The facility of a file that cannot be opened is lost.
LEMMA FileFailsKeeps ==
  ASSUME LogInv, LoggerState, LogAddFileFails, ~mem'.exited
  PROVE  LoggerState'
<1>1. PICK f \in Fresh(mem.live) :
        LET made == WrapMalloc(mem, f, FacSize) IN
        /\ lost' = lost \cup {f}
        /\ \/ \E blk \in Fresh(made.live) : Begin(made, LOG_ERR, blk)
           \/ mem' = made /\ UNCHANGED <<phase, lmsg>>
  BY DEF LogAddFileFails
<1> DEFINE made == WrapMalloc(mem, f, FacSize)
<1>2. MemSound(mem) /\ mem.live \subseteq Ptrs
  BY DEF LogInv, MemSound, MemType
<1>3. f \in Ptrs \ mem.live /\ f # NULL
  BY <1>2, FreshOnes, MemTracerAssumption
<1>4. MemSound(made)
  BY <1>2, <1>3, MallocSound, LogAssumption
<1>5. ~made.exited
  <2>1. ASSUME made.exited, NEW blk
        PROVE  WrapMalloc(made, blk, 1).exited
    BY <2>1 DEF WrapMalloc
  <2> HIDE DEF made
  <2>2. QED
    BY <1>1, <2>1 DEF made, Begin
<1>6. made.live = mem.live \cup {f} /\ made.table = mem.table
  <2>1. made.live = mem.live \cup ({f} \ {NULL}) /\ made.table = mem.table
    BY <1>2, <1>3, <1>5, MallocLive, LogAssumption
  <2>2. QED
    BY <1>3, <2>1
<1>7. phase = "ready" /\ UNCHANGED <<facilities, files, own, shown>>
  BY DEF LogAddFileFails
<1>8. {lmsg.blk} \ {NULL} = {}
  BY <1>7 DEF LoggerState, Sending, NoMsg
<1>9. Parted(mem.live \cup {f}, own, {mem.table} \ {NULL}, FacsOf(facilities),
             NodesOf(facilities), lost \cup {f}, {})
  <2>1. Parted(mem.live, lost, {mem.table} \ {NULL}, FacsOf(facilities),
               NodesOf(facilities), own, {})
    <3>1. Parted(mem.live, own, {mem.table} \ {NULL}, FacsOf(facilities),
                 NodesOf(facilities), lost, {})
      BY <1>8 DEF LoggerState, LoggerParts
    <3>2. QED
      BY <3>1, PartsSwap
  <2>2. Parted(mem.live \cup {f}, lost \cup {f}, {mem.table} \ {NULL}, FacsOf(facilities),
               NodesOf(facilities), own, {})
    BY <1>3, <2>1, PartGrows
  <2>3. QED
    BY <2>2, PartsSwap
<1>10. IsFiniteSet(lost \cup {f}) /\ lost' = lost \cup {f}
  BY <1>1, FiniteOwn DEF LoggerState
<1> HIDE DEF made
<1>11. CASE \E blk \in Fresh(made.live) : Begin(made, LOG_ERR, blk)
  <2>1. PICK blk \in Fresh(made.live) : Begin(made, LOG_ERR, blk)
    BY <1>11
  <2>2. QED
    BY <1>4, <1>6, <1>7, <1>9, <1>10, <2>1, BeginKeeps
<1>12. CASE mem' = made /\ UNCHANGED <<phase, lmsg>>
  <2>1. LoggerParts'
    BY <1>6, <1>7, <1>8, <1>9, <1>10, <1>12 DEF LoggerParts
  <2>2. Sending'
    BY <1>7, <1>12 DEF LoggerState, Sending, NoMsg
  <2>3. QED
    BY <1>7, <1>10, <2>1, <2>2 DEF LoggerState
<1>13. QED
  BY <1>1, <1>11, <1>12 DEF made

\* The text may move when a facility puts its marks around it; the next facility
\* gets it as it is then.
LEMMA DeliverKeeps ==
  ASSUME LogInv, LoggerState, Deliver, ~mem'.exited
  PROVE  LoggerState'
<1>1. /\ MemSound(mem) /\ mem.live \subseteq Ptrs /\ facilities \in Seq(Facility)
      /\ lmsg \in [blk : Ptrs \cup {NULL}, at : Nat, marks : Nat]
  BY DEF LogInv, MemSound, MemType, LogType, Facility
<1>2. /\ phase = "sending" /\ phase' = "sending" /\ lmsg.at <= Len(facilities)
      /\ UNCHANGED <<facilities, files, own, lost>>
      /\ shown' = Append(shown, [fac |-> Current.fac, marks |-> lmsg'.marks])
  BY DEF Deliver
<1>3. lmsg.blk \in Ptrs /\ lmsg.at \in 1 .. Len(facilities)
  BY <1>1, <1>2 DEF LoggerState, Sending
<1> DEFINE Rest(live, text) ==
             Parted(live, text, {mem.table} \ {NULL}, FacsOf(facilities),
                    NodesOf(facilities), lost, own)
<1>4. Rest(mem.live, {lmsg.blk}) /\ lmsg.blk # NULL
  <2>1. lmsg.blk # NULL
    BY <1>3, MemTracerAssumption
  <2>2. {lmsg.blk} \ {NULL} = {lmsg.blk}
    BY <2>1
  <2>3. QED
    <3>1. Parted(mem.live, own, {mem.table} \ {NULL}, FacsOf(facilities),
                 NodesOf(facilities), lost, {lmsg.blk})
      BY <2>2 DEF LoggerState, LoggerParts
    <3>2. QED
      BY <2>1, <3>1, PartsSwap
<1>5. /\ Rest(mem'.live, {lmsg'.blk}) /\ mem'.table = mem.table
      /\ lmsg'.blk \in Ptrs /\ lmsg'.at = lmsg.at + 1
      /\ lmsg'.marks = lmsg.marks + (IF Writes(Current.type) THEN 1 ELSE 0)
  <2>1. CASE ~Writes(Current.type)
    <3>1. mem' = mem /\ lmsg' = [lmsg EXCEPT !.at = @ + 1]
      BY <2>1 DEF Deliver
    <3>2. lmsg'.blk = lmsg.blk /\ lmsg'.at = lmsg.at + 1 /\ lmsg'.marks = lmsg.marks
      BY <1>1, <3>1
    <3>3. QED
      BY <1>1, <1>3, <1>4, <2>1, <3>1, <3>2
  <2>2. CASE Writes(Current.type)
    <3>1. PICK temp \in Fresh(mem.live) :
            \E blk \in Fresh(mem.live \cup {temp}) \cup {lmsg.blk} :
              /\ mem' = Marked(mem, temp, blk)
              /\ lmsg' = [blk |-> blk, at |-> lmsg.at + 1, marks |-> lmsg.marks + 1]
      BY <2>2 DEF Deliver
    <3>2. PICK blk \in Fresh(mem.live \cup {temp}) \cup {lmsg.blk} :
            /\ mem' = Marked(mem, temp, blk)
            /\ lmsg' = [blk |-> blk, at |-> lmsg.at + 1, marks |-> lmsg.marks + 1]
      BY <3>1
    <3>3. temp \in Ptrs \ mem.live
      BY <1>1, FreshOnes
    <3>4. lmsg.blk \in mem.live
      BY <1>4 DEF Parted
    <3>5. blk \in Ptrs /\ blk # temp /\ (blk = lmsg.blk \/ blk \notin mem.live)
      <4>1. mem.live \cup {temp} \in SUBSET Ptrs
        BY <1>1, <3>3
      <4>2. \A p \in Fresh(mem.live \cup {temp}) : p \in Ptrs /\ p \notin mem.live \cup {temp}
        BY <4>1, FreshOnes
      <4>3. QED
        BY <1>3, <3>3, <3>4, <4>2
    <3>6. blk # NULL /\ temp # NULL
      BY <3>3, <3>5, MemTracerAssumption
    <3> DEFINE size == 1 + 2 * lmsg.marks
               m1 == WrapMalloc(mem, temp, 1)
               m2 == WrapRealloc(m1, lmsg.blk, blk, size + 1)
               m3 == WrapFree(m2, temp)
    <3>7. size + 1 \in Nat \ {0} /\ size + 2 \in Nat \ {0}
      BY <1>1
    <3>8. mem' = WrapRealloc(m3, blk, blk, size + 2)
      BY <3>2 DEF Marked
    <3> HIDE DEF size
    <3>9. MemSound(m1) /\ m1.live \subseteq mem.live \cup {temp}
      BY <1>1, <3>3, MallocSound
    <3> HIDE DEF m1
    <3>10. MemSound(m2)
      <4>1. blk = lmsg.blk \/ blk \notin m1.live
        BY <3>5, <3>9
      <4>2. QED
        BY <1>3, <3>5, <3>7, <3>9, <4>1, ReallocSound
    <3> HIDE DEF m2
    <3>11. MemSound(m3)
      BY <3>3, <3>10, FreeSound
    <3> HIDE DEF m3
    <3>12. /\ ~m3.exited /\ mem'.live = (m3.live \ {blk}) \cup {blk}
           /\ mem'.table = m3.table
      BY <3>5, <3>6, <3>7, <3>8, <3>11, ReallocLive
    <3>13. ~m2.exited /\ m3.live = m2.live \ {temp} /\ m3.table = m2.table
      BY <3>3, <3>10, <3>12, FreeLive DEF m3
    <3>14. /\ ~m1.exited /\ m2.live = (m1.live \ {lmsg.blk}) \cup {blk}
           /\ m2.table = m1.table
      BY <1>3, <3>5, <3>6, <3>7, <3>9, <3>13, ReallocLive DEF m2
    <3>15. m1.live = mem.live \cup ({temp} \ {NULL}) /\ m1.table = mem.table
      BY <1>1, <3>3, <3>14, MallocLive DEF m1
    <3>16. mem'.live = (mem.live \ {lmsg.blk}) \cup {blk} /\ mem'.table = mem.table
      BY <3>3, <3>4, <3>5, <3>6, <3>12, <3>13, <3>14, <3>15
    <3>17. Rest(mem.live \ {lmsg.blk}, {lmsg.blk} \ {lmsg.blk})
      BY <1>4, PartShrinks
    <3>18. {blk} \cap (mem.live \ {lmsg.blk}) = {}
      BY <3>5
    <3>19. Rest((mem.live \ {lmsg.blk}) \cup {blk}, ({lmsg.blk} \ {lmsg.blk}) \cup {blk})
      BY <3>17, <3>18, PartGrows
    <3>20. ({lmsg.blk} \ {lmsg.blk}) \cup {blk} = {blk}
      OBVIOUS
    <3>21. Rest(mem'.live, {blk})
      BY <3>16, <3>19, <3>20
    <3>22. lmsg'.blk = blk /\ lmsg'.at = lmsg.at + 1 /\ lmsg'.marks = lmsg.marks + 1
      BY <3>2
    <3>23. QED
      BY <2>2, <3>5, <3>16, <3>21, <3>22
  <2>3. QED
    BY <2>1, <2>2
<1>6. LoggerParts'
  <2>1. {lmsg'.blk} \ {NULL} = {lmsg'.blk}
    BY <1>5, MemTracerAssumption
  <2>2. Parted(mem'.live, own, {mem'.table} \ {NULL}, FacsOf(facilities), NodesOf(facilities),
               lost, {lmsg'.blk})
    BY <1>5, PartsSwap
  <2>3. QED
    BY <1>2, <2>1, <2>2 DEF LoggerParts
<1> DEFINE n == lmsg.at
<1>7. /\ n \in Nat \ {0} /\ Len(shown) = n - 1 /\ lmsg.marks = Written(facilities, n - 1)
      /\ shown \in Seq([fac : Ptrs, marks : Nat])
      /\ \A i \in 1 .. n - 1 : /\ shown[i].fac = facilities[i].fac
                               /\ shown[i].marks = Written(facilities, i)
  BY <1>1, <1>2, <1>3 DEF LoggerState, Sending
<1>8. lmsg'.marks = Written(facilities, n) /\ lmsg'.marks \in Nat
  <2>1. Current = facilities[n]
    BY DEF Current
  <2>2. /\ Written(facilities, n - 1) \in Nat
        /\ Written(facilities, n) =
             Written(facilities, n - 1) + (IF Writes(facilities[n].type) THEN 1 ELSE 0)
    BY <1>1, <1>3, WrittenNext
  <2>3. QED
    BY <1>5, <1>7, <2>1, <2>2
<1> DEFINE e == [fac |-> Current.fac, marks |-> lmsg'.marks]
<1>9. e \in [fac : Ptrs, marks : Nat] /\ e.fac = facilities[n].fac
      /\ e.marks = Written(facilities, n)
  <2>1. facilities[n] \in Facility
    BY <1>1, <1>3
  <2>2. QED
    BY <1>8, <2>1 DEF Current, Facility
<1> HIDE DEF e
<1>10. shown' = Append(shown, e)
  BY <1>2 DEF e
<1>11. /\ shown' \in Seq([fac : Ptrs, marks : Nat]) /\ Len(shown') = n
       /\ shown'[n] = e /\ \A i \in 1 .. n - 1 : shown'[i] = shown[i]
  BY <1>7, <1>9, <1>10
<1>12. \A i \in 1 .. n : /\ shown'[i].fac = facilities[i].fac
                         /\ shown'[i].marks = Written(facilities, i)
  <2>1. \A i \in 1 .. n : i = n \/ i \in 1 .. n - 1
    BY <1>7
  <2>2. QED
    BY <1>7, <1>9, <1>11, <2>1
<1>13. Sending'
  <2>1. lmsg'.at = n + 1 /\ n + 1 \in 1 .. Len(facilities) + 1 /\ n + 1 - 1 = n
    BY <1>1, <1>3, <1>5, <1>7
  <2> HIDE DEF n
  <2>2. QED
    BY <1>2, <1>5, <1>8, <1>11, <1>12, <2>1 DEF Sending
<1>14. QED
  BY <1>2, <1>6, <1>11, <1>13 DEF LoggerState

LEMMA ReturnKeeps ==
  ASSUME LogInv, LoggerState, LogMsgReturns, ~mem'.exited
  PROVE  LoggerState'
<1>1. /\ phase = "sending" /\ phase' = "ready" /\ lmsg' = NoMsg /\ shown' = << >>
      /\ mem' = WrapFree(mem, lmsg.blk) /\ UNCHANGED <<facilities, files, own, lost>>
  BY DEF LogMsgReturns
<1>2. lmsg.blk \in Ptrs /\ MemSound(mem)
  BY <1>1 DEF LogInv, LoggerState, Sending
<1>3. mem'.live = mem.live \ {lmsg.blk} /\ mem'.table = mem.table
  BY <1>1, <1>2, FreeLive
<1> DEFINE Rest(live, text) ==
             Parted(live, text, {mem.table} \ {NULL}, FacsOf(facilities),
                    NodesOf(facilities), lost, own)
<1>4. Rest(mem.live, {lmsg.blk} \ {NULL})
  BY PartsSwap DEF LoggerState, LoggerParts
<1>5. {lmsg.blk} \ {NULL} = {lmsg.blk}
  BY <1>2, MemTracerAssumption
<1>6. Rest(mem.live \ {lmsg.blk}, {lmsg.blk} \ {lmsg.blk})
  BY <1>4, <1>5, PartShrinks
<1>7. {lmsg.blk} \ {lmsg.blk} = {lmsg'.blk} \ {NULL}
  BY <1>1 DEF NoMsg
<1>8. LoggerParts'
  <2>1. Parted(mem.live \ {lmsg.blk}, own, {mem.table} \ {NULL}, FacsOf(facilities),
               NodesOf(facilities), lost, {lmsg.blk} \ {lmsg.blk})
    BY <1>6, PartsSwap
  <2>2. QED
    BY <1>1, <1>3, <1>7, <2>1 DEF LoggerParts
<1>9. Sending'
  BY <1>1 DEF Sending, NoMsg
<1>10. QED
  BY <1>1, <1>8, <1>9 DEF LoggerState

\* A facility goes with its node.
LEMMA DeleteKeeps ==
  ASSUME LogInv, LoggerState, FacilityDelete, ~mem'.exited
  PROVE  LoggerState'
<1>1. phase = "deleting" /\ UNCHANGED <<lmsg, own, lost, shown>>
  BY DEF FacilityDelete
<1>2. lmsg = NoMsg /\ shown = << >>
  BY <1>1 DEF LoggerState, Sending
<1>3. CASE facilities = << >>
  <2>1. phase' = "off" /\ UNCHANGED <<mem, facilities, files>>
    BY <1>3 DEF FacilityDelete
  <2>2. Sending'
    BY <1>1, <1>2, <2>1 DEF Sending, NoMsg
  <2>3. QED
    BY <1>1, <2>1, <2>2 DEF LoggerState, LoggerParts
<1>4. CASE facilities # << >>
  <2> DEFINE f == Head(facilities).fac
             node == Head(facilities).node
             m == WrapFree(mem, f)
             T == {mem.table} \ {NULL}
             M == {lmsg.blk} \ {NULL}
             F == FacsOf(facilities)
             N == NodesOf(facilities)
  <2>1. /\ mem' = WrapFree(m, node) /\ files' = files \ {f}
        /\ facilities' = Tail(facilities) /\ UNCHANGED phase
    BY <1>4 DEF FacilityDelete, Freed
  <2>2. facilities \in Seq(Facility) /\ Unlike(facilities) /\ MemSound(mem)
    BY DEF LogInv, LogType, Facility, LoggerState
  <2>3. /\ f \in Ptrs /\ node \in Ptrs /\ f \in F /\ node \in N
        /\ FacsOf(facilities') = F \ {f} /\ NodesOf(facilities') = N \ {node}
        /\ FilesOf(facilities') = FilesOf(facilities) \ {f}
        /\ Unlike(facilities')
    BY <1>4, <2>1, <2>2, FacilityTaken DEF Facility
  <2>4. MemSound(m)
    BY <2>2, <2>3, FreeSound
  <2> HIDE DEF f, node, m
  <2>5. ~m.exited /\ mem'.live = m.live \ {node} /\ mem'.table = m.table
    BY <2>1, <2>3, <2>4, FreeLive
  <2>6. m.live = mem.live \ {f} /\ m.table = mem.table
    BY <2>2, <2>3, <2>5, FreeLive DEF m
  <2>7. Parted(mem.live, own, T, F, N, lost, M)
    BY DEF LoggerState, LoggerParts
  <2> HIDE DEF T, M, F, N
  <2>8. Parted(mem.live \ {f}, F \ {f}, T, own, N, lost, M)
    BY <2>3, <2>7, PartsSwap, PartShrinks
  <2>9. Parted(mem.live \ {f}, N, T, own, F \ {f}, lost, M)
    BY <2>8, PartsSwap
  <2>10. Parted((mem.live \ {f}) \ {node}, N \ {node}, T, own, F \ {f}, lost, M)
    BY <2>3, <2>9, PartShrinks
  <2>11. Parted((mem.live \ {f}) \ {node}, own, T, F \ {f}, N \ {node}, lost, M)
    BY <2>10 DEF Parted, Apart
  <2>12. LoggerParts'
    BY <1>1, <2>3, <2>5, <2>6, <2>11 DEF LoggerParts, T, M
  <2>13. Sending'
    BY <1>1, <1>2, <2>1 DEF Sending, NoMsg
  <2>14. files' = FilesOf(facilities')
    BY <2>1, <2>3 DEF LoggerState
  <2>15. QED
    BY <1>1, <2>3, <2>12, <2>13, <2>14 DEF LoggerState
<1>5. QED
  BY <1>3, <1>4

-----------------------------------------------------------------------------
LoggerInv == LogInv /\ (~mem.exited => LoggerState)

LEMMA LoggerInit == Init => LoggerInv
<1> SUFFICES ASSUME Init
             PROVE  LoggerInv
  OBVIOUS
<1>1. /\ mem.live = {} /\ mem.table = NULL /\ own = {} /\ lost = {} /\ files = {}
      /\ facilities = << >> /\ lmsg = NoMsg /\ shown = << >> /\ phase = "off"
  BY DEF Init, MemInit
<1>2. FacsOf(facilities) = {} /\ NodesOf(facilities) = {} /\ FilesOf(facilities) = {}
  BY <1>1 DEF FacsOf, NodesOf, FilesOf
<1>3. LoggerParts
  BY <1>1, <1>2 DEF LoggerParts, Parted, Apart, NoMsg
<1>4. Unlike(facilities) /\ Sending
  BY <1>1 DEF Unlike, Sending, NoMsg
<1>5. IsFiniteSet(own) /\ IsFiniteSet(lost)
  BY <1>1, FS_EmptySet
<1>6. shown \in Seq([fac : Ptrs, marks : Nat])
  BY <1>1
<1>7. LoggerState
  BY <1>1, <1>2, <1>3, <1>4, <1>5, <1>6 DEF LoggerState
<1>8. QED
  BY <1>7, InitSound DEF LoggerInv

LEMMA LoggerNext == LoggerInv /\ [Next]_vars => LoggerInv'
<1> SUFFICES ASSUME LoggerInv, [Next]_vars
             PROVE  LoggerInv'
  OBVIOUS
<1>1. LogInv'
  BY NextSound DEF LoggerInv
<1> SUFFICES ASSUME ~mem'.exited
             PROVE  LoggerState'
  BY <1>1 DEF LoggerInv
<1>2. CASE UNCHANGED vars
  <2>1. UNCHANGED <<mem, facilities, phase, lmsg, files, own, lost, shown>>
    BY <1>2 DEF vars
  <2>2. QED
    BY <2>1 DEF LoggerInv, LoggerState, LoggerParts, Sending, NoMsg
<1>3. CASE Next
  <2>1. LogInv /\ LoggerState
    BY <1>3 DEF LoggerInv, Next, ProgramStep, TracerStep, ProgramRuns, LogInit, LogAdd,
                LogMsg, LogAddFileFails, Deliver, LogMsgReturns, LogDestroy, FacilityDelete
  <2>2. CASE LogInit \/ LogDestroy
    <3>1. /\ UNCHANGED <<mem, facilities, lmsg, files, own, lost, shown>>
          /\ phase # "sending" /\ phase' # "sending"
      BY <2>2 DEF LogInit, LogDestroy
    <3>2. Sending'
      BY <2>1, <3>1 DEF LoggerState, Sending, NoMsg
    <3>3. QED
      BY <2>1, <3>1, <3>2 DEF LoggerState, LoggerParts
  <2>3. QED
    BY <1>3, <2>1, <2>2, ProgramKeeps, TracerKeeps, AddKeeps, MessageKeeps, FileFailsKeeps,
       DeliverKeeps, ReturnKeeps, DeleteKeeps DEF Next
<1>4. QED
  BY <1>2, <1>3

\* The parts make up the blocks in use, one by one.
LEMMA LoggerSound == LoggerInv => LogSound
<1> SUFFICES ASSUME LogInv, LoggerState
             PROVE  LogReleases /\ MessageShared
  BY DEF LoggerInv, LogSound
<1> DEFINE T == {mem.table} \ {NULL}
           M == {lmsg.blk} \ {NULL}
           F == FacsOf(facilities)
           N == NodesOf(facilities)
<1>1. facilities \in Seq(Facility) /\ Len(facilities) \in Nat
  BY DEF LogInv, LogType, Facility
<1>2. Parted(mem.live, own, T, F, N, lost, M)
  BY DEF LoggerState, LoggerParts
<1>3. F = {facilities[i].fac : i \in Facs} /\ N = {facilities[i].node : i \in Facs}
  BY DEF FacsOf, NodesOf, Facs
<1>4. mem.live = own \cup T \cup LogBlocks
  <2>1. LogBlocks = F \cup N \cup lost \cup M
    BY <1>3 DEF LogBlocks
  <2> HIDE DEF T, M, F, N
  <2>2. QED
    BY <1>2, <2>1 DEF Parted
<1>5. ASSUME NEW p
      PROVE  IsFiniteSet({p} \ {NULL}) /\ Cardinality({p} \ {NULL}) \in Nat
  <2>1. IsFiniteSet({p})
    BY FS_Singleton
  <2>2. IsFiniteSet({p} \ {NULL})
    BY <2>1, FS_Subset
  <2>3. QED
    BY <2>2, FS_CardinalityType
<1>6. Cardinality(M) = IF phase = "sending" THEN 1 ELSE 0
  <2>1. CASE phase = "sending"
    <3>1. M = {lmsg.blk}
      BY <2>1, MemTracerAssumption DEF LoggerState, Sending
    <3>2. QED
      BY <2>1, <3>1, FS_Singleton
  <2>2. CASE phase # "sending"
    <3>1. M = {}
      BY <2>2 DEF LoggerState, Sending, NoMsg
    <3>2. QED
      BY <2>2, <3>1, FS_EmptySet
  <2>3. QED
    BY <2>1, <2>2
<1>7. /\ IsFiniteSet(F) /\ Cardinality(F) = Len(facilities)
      /\ IsFiniteSet(N) /\ Cardinality(N) = Len(facilities)
  BY <1>1, FacilitiesCount DEF LoggerState
<1>8. /\ IsFiniteSet(own) /\ Cardinality(own) \in Nat
      /\ IsFiniteSet(lost) /\ Cardinality(lost) \in Nat
      /\ IsFiniteSet(T) /\ Cardinality(T) \in Nat /\ IsFiniteSet(M)
  BY <1>5, FS_CardinalityType DEF LoggerState
<1>9. Cardinality(mem.live) = Cardinality(own) + Cardinality(T) + 2 * Len(facilities) +
                              Cardinality(lost) + (IF phase = "sending" THEN 1 ELSE 0)
  <2> HIDE DEF T, M, F, N
  <2>1. Cardinality(mem.live) = Cardinality(own) + Cardinality(T) + Cardinality(F) +
                                Cardinality(N) + Cardinality(lost) + Cardinality(M)
    BY <1>2, <1>7, <1>8, PartsCount
  <2>2. QED
    <3>1. Cardinality(mem.live) = Cardinality(own) + Cardinality(T) + Len(facilities) +
                                  Len(facilities) + Cardinality(lost) + Cardinality(M)
      BY <1>7, <2>1
    <3>2. Cardinality(M) \in Nat
      BY <1>6
    <3>3. Cardinality(mem.live) = Cardinality(own) + Cardinality(T) + 2 * Len(facilities) +
                                  Cardinality(lost) + Cardinality(M)
      BY <1>1, <1>8, <3>1, <3>2
    <3>4. QED
      BY <1>6, <3>3
<1>10. files = {facilities[i].fac : i \in {j \in Facs : facilities[j].type = "FILE"}}
  BY DEF LoggerState, FilesOf, Facs
<1>11. LogReleases
  BY <1>4, <1>9, <1>10 DEF LogReleases
<1>12. MessageShared
  <2> SUFFICES ASSUME phase = "sending"
               PROVE  /\ Len(shown) = lmsg.at - 1
                      /\ \A i \in DOMAIN shown :
                           /\ shown[i].fac = facilities[i].fac
                           /\ shown[i].marks = Written(facilities, i)
    BY DEF MessageShared, Written
  <2>1. shown \in Seq([fac : Ptrs, marks : Nat]) /\ Sending
    BY DEF LoggerState
  <2>2. DOMAIN shown = 1 .. lmsg.at - 1
    BY <2>1 DEF Sending
  <2>3. QED
    BY <2>1, <2>2 DEF Sending
<1>13. QED
  BY <1>11, <1>12

\* While the tracer has not ended the program, each block in use has one place it
\* is released from, and each facility gets the message once, in order and with
\* the marks of those before it: for any allocator and any number of facilities,
\* levels and messages (log.c:56-200).
THEOREM LoggerReleases == Spec => []LogSound
<1>1. QED
  BY LoggerInit, LoggerNext, LoggerSound, PTL DEF Spec
=============================================================================
