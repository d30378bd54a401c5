------------------------------- MODULE StrBlock ------------------------------
(***************************************************************************)
(* A Str on its block of memory (src/str.c): cstr is the block, byte 0     *)
(* first, size its size.  Most operations move the text inside of the      *)
(* block, byte by byte.                                                    *)
(***************************************************************************)
EXTENDS CstrText

\* A byte is written; one outside of the block makes it larger than its size.
Put(b, i, c) == [j \in DOMAIN b \cup {i} |-> IF j = i THEN c ELSE b[j]]

\* realloc: what is new in the block has no value yet.
Resized(b, size) == [i \in 0 .. size - 1 |-> IF i \in DOMAIN b THEN b[i] ELSE "junk"]

\* Bytes written from a place on, with the byte that ends the text.
Copied(b, at, t) ==
  [i \in DOMAIN b \cup (at .. at + Len(t)) |->
     IF i = at + Len(t) THEN NUL
     ELSE IF i \in at .. at + Len(t) THEN t[i - at + 1] ELSE b[i]]

Str(b, size) == [cstr |-> b, size |-> size]

\* str_init_cstr, str_copy
StrOf(t) == Str(Copied(<< >>, 0, t), Len(t) + 1)

StrLen(s) == IF s.size > 0 THEN s.size - 1 ELSE 0

\* _fix_index
FixIndex(s, index) ==
  IF index < 0 THEN IF index + StrLen(s) < 0 THEN 0 ELSE index + StrLen(s)
  ELSE IF index >= StrLen(s) THEN StrLen(s) ELSE index

\* str_set_at
StrSetAt(s, idx, c) == [s EXCEPT !.cstr = Put(@, FixIndex(s, idx), c)]

\* n bytes move to the front, the first byte first.
MovedDown(b, to, from, n) ==
  Loop(n, b, LAMBDA m, k : Put(m, to + k - 1, m[from + k - 1]))

\* str_delete_at: what is behind moves to the front by one.
StrDeleteAt(s, idx) ==
  LET at == FixIndex(s, idx)
      b == MovedDown(s.cstr, at, at + 1, s.size - at - 1)
  IN IF StrLen(s) > 0 THEN Str(Resized(b, s.size - 1), s.size - 1) ELSE s

\* The first n bytes move to the back, the last byte first.
MovedUp(b, by, n) == Loop(n, b, LAMBDA m, k : Put(m, by + n - k, m[n - k]))

\* str_prepend
StrPrepend(s, t) ==
  LET size == s.size + Len(t)
      moved == MovedUp(Resized(s.cstr, size), Len(t), s.size)
  IN IF t = << >> THEN s
     ELSE Str([i \in DOMAIN moved |-> IF i < Len(t) THEN t[i + 1] ELSE moved[i]], size)

\* str_append
StrAppend(s, t) ==
  LET size == s.size + Len(t)
  IN IF t = << >> THEN s ELSE Str(Copied(Resized(s.cstr, size), StrLen(s), t), size)

\* The first half of n bytes is swapped with the second.
Swapped(b, n) ==
  Loop(n \div 2, b, LAMBDA m, k : Put(Put(m, k - 1, m[n - k]), n - k, m[k - 1]))

\* str_reverse
StrReverse(s) == [s EXCEPT !.cstr = Swapped(@, StrLen(s))]

\* The number of spaces the text begins with.
LeadingSpaces(s) ==
  CHOOSE i \in 0 .. StrLen(s) :
    /\ \A j \in 0 .. i - 1 : s.cstr[j] \in Spaces
    /\ i = StrLen(s) \/ s.cstr[i] \notin Spaces

\* The place of the last byte that is no space, -1 if there is none.
LastOther(s) ==
  CHOOSE i \in -1 .. StrLen(s) - 1 :
    /\ \A j \in i + 1 .. StrLen(s) - 1 : s.cstr[j] \in Spaces
    /\ i = -1 \/ s.cstr[i] \notin Spaces

\* The n bytes from a place on move to the front and are the text now.
MovedToFront(s, from, n) ==
  Str(Resized(Put(MovedDown(s.cstr, 0, from, n), n, NUL), n + 1), n + 1)

StrLStrip(s) == MovedToFront(s, LeadingSpaces(s), StrLen(s) - LeadingSpaces(s))

StrRStrip(s) ==
  LET n == LastOther(s) + 1
  IN IF s.size < 2 THEN s ELSE Str(Put(Resized(s.cstr, n + 1), n, NUL), n + 1)

\* str_strip: the last byte that is no space is looked for behind the first.
StrStrip(s) ==
  LET l == LeadingSpaces(s)
      r == IF l < StrLen(s) THEN LastOther(s) ELSE l - 1
  IN IF s.size < 2 THEN s ELSE MovedToFront(s, l, r - l + 1)

\* The end takes the place of the last of n bytes.
Ended(b, n, end) ==
  Loop(Len(end), b,
       LAMBDA m, k : IF n - k >= 0 THEN Put(m, n - k, end[Len(end) - k + 1]) ELSE m)

\* str_truncate
StrTruncate(s, n, end) ==
  IF n >= s.size - 1 THEN s
  ELSE Str(Put(Ended(Resized(s.cstr, n + 1), n, end), n, NUL), n + 1)

-----------------------------------------------------------------------------
\* n bytes from a place on are filled.
Filled(b, at, n, fill) == Loop(n, b, LAMBDA m, k : Put(m, at + k - 1, fill))

\* str_ljust
StrLJust(s, width, fill) ==
  LET b == Filled(Resized(s.cstr, width + 1), StrLen(s), width - StrLen(s), fill)
  IN IF width >= s.size THEN Str(Put(b, width, NUL), width + 1) ELSE s

\* PLANTED BUG: the loop goes up, over bytes that were not moved yet.
SpreadUp(b, len, width, lspace, fill) ==
  LET Step(m, k) ==
        LET i == k - 1
            moved == IF i < len THEN Put(m, i + lspace, m[i]) ELSE m
        IN IF i < lspace \/ i >= lspace + len THEN Put(moved, i, fill) ELSE moved
  IN Loop(width, b, Step)

\* The loop of str_rjust and str_center: down from the last place the text is
\* moved by lspace and the rest filled.
Spread(b, len, width, lspace, fill) ==
  LET Step(m, k) ==
        LET i == width - k
            moved == IF i < len THEN Put(m, i + lspace, m[i]) ELSE m
        IN IF i < lspace \/ i >= lspace + len THEN Put(moved, i, fill) ELSE moved
  IN Loop(width, b, Step)

Widened(s, width, lspace, fill) ==
  LET b == Spread(Resized(s.cstr, width + 1), StrLen(s), width, lspace, fill)
  IN Str(Put(b, width, NUL), width + 1)

StrRJust(s, width, fill) ==
  IF width >= s.size THEN Widened(s, width, width - StrLen(s), fill) ELSE s

StrCenter(s, width, fill) ==
  IF width >= s.size THEN Widened(s, width, (width - StrLen(s)) \div 2, fill) ELSE s

\* str_slice, str_init_slice
StrSlice(s, start, end) ==
  LET from == FixIndex(s, start)
      to == FixIndex(s, end)
      n == IF to > from THEN to - from ELSE 0
  IN StrOf([i \in 1 .. n |-> s.cstr[from + i - 1]])

\* filter() on a Str: next(), and iter_del_obj for the byte to drop, which sets
\* the Iter back by one.
FilterStep(it, drop) ==
  LET i == it.idx + 1 IN
  IF i >= it.str.size - 1 THEN it
  ELSE IF it.str.cstr[i] # drop THEN [it EXCEPT !.idx = i]
  ELSE [str |-> StrDeleteAt(it.str, i), idx |-> i - 1]

StrFilter(s, drop) ==
  Loop(StrLen(s), [str |-> s, idx |-> -1], LAMBDA it, k : FilterStep(it, drop)).str
=============================================================================
