------------------------------ MODULE MemTracer ------------------------------
(***************************************************************************)
(* The tracer of memory blocks (src/memtracer/mtrace.c): malloc() and the  *)
(* like are wrapped, and a table of at most MaxEntries entries holds the   *)
(* blocks that were allocated while tracing was on and are not freed yet.  *)
(* The operators take the memory and give it after the call; the program   *)
(* and the library that call them are in Log.                              *)
(***************************************************************************)
EXTENDS Naturals, FiniteSets

CONSTANTS
  Ptrs,        (* the addresses of memory blocks                           *)
  NULL,        (* the null pointer                                         *)
  MaxEntries,  (* the size of the table, given to mtrace_init              *)
  Fresh(_)     (* the addresses malloc may return, from those in use       *)

ASSUME MemTracerAssumption ==
  /\ NULL \notin Ptrs
  /\ MaxEntries \in Nat
  /\ \A live \in SUBSET Ptrs : Fresh(live) \subseteq Ptrs \ live

VARIABLE
  mem  (* the memory and the tracer: tracing, entries, count and max are   *)
       (* its variables, table the block of the entries, live the blocks   *)
       (* in use, exited that the tracer has ended the program, and        *)
       (* asked (history) the size asked for of each block in use that was *)
       (* allocated or moved while tracing was on, 0 for others            *)

NoEntry == [ptr |-> NULL, size |-> 0]
Slots == 1 .. MaxEntries
Zeroed == [i \in Slots |-> NoEntry]
Forgotten == [p \in Ptrs |-> 0]

MemInit ==
  mem = [tracing |-> FALSE, entries |-> Zeroed, count |-> 0, max |-> 0,
         table |-> NULL, live |-> {}, exited |-> FALSE, asked |-> Forgotten]

\* What an allocation may return; NULL if there is no memory.
Result(m) == Fresh(m.live) \cup {NULL}

-----------------------------------------------------------------------------
\* The slots below max that the loops look for, and the first of them.
Unused(m) == {i \in Slots : i <= m.max /\ m.entries[i].size = 0}
Holding(m, ptr) == {i \in Slots : i <= m.max /\ m.entries[i].ptr = ptr}
First(slots) == CHOOSE i \in slots : \A j \in slots : i <= j

\* _add_entry: a full table ends the program.
AddEntry(m, ptr, size) ==
  IF ptr = NULL \/ size = 0 THEN m
  ELSE IF m.count >= m.max THEN [m EXCEPT !.exited = TRUE]
  ELSE [m EXCEPT
          !.entries = IF Unused(m) = {} THEN @
                      ELSE [@ EXCEPT ![First(Unused(m))] = [ptr |-> ptr, size |-> size]],
          !.count = @ + 1]

\* PLANTED BUG: the count is not set down.
RemoveEntryCounted(m, ptr) ==
  IF Holding(m, ptr) = {} THEN m ELSE [m EXCEPT !.entries[First(Holding(m, ptr))] = NoEntry]

\* _remove_entry
RemoveEntry(m, ptr) ==
  IF Holding(m, ptr) = {} THEN m
  ELSE [m EXCEPT !.entries[First(Holding(m, ptr))] = NoEntry, !.count = @ - 1]

\* _update_entry: a block that was not moved for want of memory keeps its entry.
UpdateEntry(m, ptr, new, size) ==
  IF new = NULL THEN m
  ELSE IF size = 0 THEN RemoveEntry(m, ptr)
  ELSE IF Holding(m, ptr) = {} THEN m
  ELSE [m EXCEPT !.entries[First(Holding(m, ptr))] = [ptr |-> new, size |-> size]]

-----------------------------------------------------------------------------
\* EXTERNAL: an allocation of the C library that returns ptr.
RealMalloc(m, ptr, size) ==
  IF ptr = NULL THEN m
  ELSE [m EXCEPT !.live = @ \cup {ptr}, !.asked[ptr] = IF m.tracing THEN size ELSE 0]

\* EXTERNAL: a reallocation of the C library that returns new.
RealRealloc(m, ptr, new, size) ==
  IF new = NULL THEN m
  ELSE [m EXCEPT
          !.live = (@ \ {ptr}) \cup {new},
          !.asked = [p \in Ptrs |-> IF p = new
                                    THEN IF @[ptr] = 0 THEN 0 ELSE size
                                    ELSE IF p = ptr THEN 0 ELSE @[p]]]

\* EXTERNAL: free() of the C library.
RealFree(m, ptr) == [m EXCEPT !.live = @ \ {ptr}, !.asked[ptr] = 0]

\* __wrap_malloc, __wrap_calloc and __wrap_strdup: size is what they ask for.
WrapMalloc(m, ptr, size) ==
  IF m.exited THEN m
  ELSE IF m.tracing THEN AddEntry(RealMalloc(m, ptr, size), ptr, size)
  ELSE RealMalloc(m, ptr, size)

\* __wrap_strndup of a text of len bytes: the larger of len and n is noted.  For a
\* text that does not end in its first n bytes strlen reads on: len is then what it
\* comes to, any length above n.
WrapStrndup(m, ptr, len, n) ==
  LET real == RealMalloc(m, ptr, (IF len < n THEN len ELSE n) + 1) IN
  IF m.exited THEN m
  ELSE IF m.tracing THEN AddEntry(real, ptr, (IF len > n THEN len ELSE n) + 1)
  ELSE real

\* __wrap_realloc of a block, or of NULL, to a size above 0.
WrapRealloc(m, ptr, new, size) ==
  IF m.exited THEN m
  ELSE IF ptr = NULL THEN WrapMalloc(m, new, size)
  ELSE IF m.tracing THEN UpdateEntry(RealRealloc(m, ptr, new, size), ptr, new, size)
  ELSE RealRealloc(m, ptr, new, size)

\* __wrap_free; for NULL it does nothing.
WrapFree(m, ptr) ==
  IF m.exited \/ ptr = NULL THEN m
  ELSE IF m.tracing THEN RealFree(RemoveEntry(m, ptr), ptr)
  ELSE RealFree(m, ptr)

-----------------------------------------------------------------------------
\* mtrace_init, where the table is not there: a block ptr for it.
MtraceInit(m, ptr) ==
  LET off == [m EXCEPT !.tracing = FALSE]
      made == RealMalloc(off, ptr, 0)
  IN IF ptr = NULL THEN off
     ELSE [made EXCEPT !.table = ptr, !.entries = Zeroed, !.count = 0,
                       !.max = MaxEntries, !.tracing = TRUE, !.asked = Forgotten]

\* mtrace_reset: all blocks are forgotten; without a table nothing happens.
MtraceReset(m) ==
  IF m.table = NULL THEN m
  ELSE [m EXCEPT !.entries = Zeroed, !.count = 0, !.asked = Forgotten]

\* mtrace_destroy; with a max of 0 nothing reads the entries that are freed.
MtraceDestroy(m) ==
  [m EXCEPT !.tracing = FALSE, !.live = @ \ {m.table}, !.table = NULL,
            !.entries = Zeroed, !.count = 0, !.max = 0, !.asked = Forgotten]

-----------------------------------------------------------------------------
Used(m) == {i \in Slots : m.entries[i].size # 0}

\* The table of a memory m holds every block that was allocated while tracing was
\* on and is still in use, once and with at least its size, and nothing else; the
\* count is that of its entries, so that the program is ended for a full table
\* only and an entry that is to be added finds a slot.
Traced(m) ==
  /\ m.count = Cardinality(Used(m))
  /\ \A i \in Slots : m.entries[i].ptr = NULL <=> m.entries[i].size = 0
  /\ \A i, j \in Used(m) : m.entries[i].ptr = m.entries[j].ptr => i = j
  /\ \A i \in Used(m) : m.entries[i].size >= m.asked[m.entries[i].ptr]
  /\ \A p \in Ptrs : m.asked[p] # 0 <=> \E i \in Used(m) : m.entries[i].ptr = p
  /\ \A p \in Ptrs : m.asked[p] # 0 => p \in m.live

\* At any time after mtrace_init, whatever the program and the library allocate,
\* move and free in any order, the table is right (mtrace.c:34-210).
BlocksTraced == mem.tracing /\ ~mem.exited => Traced(mem)
=============================================================================
