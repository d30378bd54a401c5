------------------------------ MODULE CstrText -------------------------------
(***************************************************************************)
(* Texts and how they are escaped, written into a buffer, split and joined *)
(* (src/cstr.c).  A text is a sequence of bytes without the one that ends  *)
(* it; a byte is a character, or stands for a class of bytes.              *)
(***************************************************************************)
EXTENDS Integers, SequencesExt

NUL  == "NUL"
CTL  == "CTL"   \* 0x01: a control character that has no letter of its own
LEAD == "LEAD"  \* 0xc3: the first byte of a UTF-8 sequence of two
CONT == "CONT"  \* 0xa9: a byte that continues a UTF-8 sequence

Printable == {"a", "n", "x", "0", " ", "\"", "\\", "/", "."}
Spaces == {" ", "\n"}

\* The two digits behind \x, for the bytes that are written this way.
Hex(c) == CASE c = CTL -> <<"0", "1">> [] c = LEAD -> <<"c", "3">>
            [] c = CONT -> <<"a", "9">>
FromHex(h) == CHOOSE c \in {CTL, LEAD, CONT} : Hex(c) = h

-----------------------------------------------------------------------------
\* After step n of a loop that begins with b.
Loop(n, b, Step(_, _)) ==
  LET after[k \in 0 .. n] == IF k = 0 THEN b ELSE Step(after[k - 1], k)
  IN after[n]

\* PLANTED BUG: a byte that just fits takes the place of the end.
EmitFull(w, chars) ==
  LET room == w.size - w.len
      n == IF Len(chars) <= room THEN Len(chars) ELSE room - 1
  IN
  [dest |-> [i \in DOMAIN w.dest \cup (w.len .. w.len + n) |->
               IF i < w.len \/ i > w.len + n THEN w.dest[i]
               ELSE IF i = w.len + n THEN NUL ELSE chars[i - w.len + 1]],
   len |-> w.len + Len(chars), size |-> w.size]

\* cstr_putc, cstr_ncopy and snprintf: what has room is written behind what is
\* there, with the byte that ends it; the length counts all.
Emit(w, chars) ==
  LET room == w.size - w.len
      n == IF Len(chars) < room THEN Len(chars) ELSE room - 1
  IN
  [dest |-> [i \in DOMAIN w.dest \cup (w.len .. w.len + n) |->
               IF i < w.len \/ i > w.len + n THEN w.dest[i]
               ELSE IF i = w.len + n THEN NUL ELSE chars[i - w.len + 1]],
   len |-> w.len + Len(chars), size |-> w.size]

\* A buffer of a size, as it is before anything was written to it.
Buffer(size) == [dest |-> << >>, len |-> 0, size |-> size]

-----------------------------------------------------------------------------
\* What cstr_escape and cstr_unescape know by a letter (c2esc), and what
\* cstr_repr and cstr_unrepr do (c2jesc).
EscapeLetter(c) == CASE c = "\n" -> "n" [] c = NUL -> "0" [] OTHER -> c
EscapeLetters == {"n", "0", "\\", "\""}
ReprLetter(c) == IF c = "\n" THEN "n" ELSE c
ReprLetters == {"n", "\\", "\""}

\* cstr_escape: a backslash is printable and stays as it is.
Escaped(c) ==
  IF c \in Printable THEN <<c>>
  ELSE IF c = "\n" THEN <<"\\", EscapeLetter(c)>> ELSE <<"\\", "x">> \o Hex(c)

Escape(text) == FlattenSeq([i \in DOMAIN text |-> Escaped(text[i])])

\* cstr_unescape
Unescape(text) ==
  LET n == Len(text)
      from[i \in 1 .. n + 4] ==
        IF i > n THEN << >>
        ELSE IF text[i] # "\\" THEN <<text[i]>> \o from[i + 1]
        ELSE IF i = n THEN << >>
        ELSE IF text[i + 1] \in EscapeLetters
        THEN <<CHOOSE c \in {"\n", NUL, "\\", "\""} : EscapeLetter(c) = text[i + 1]>>
             \o from[i + 2]
        ELSE IF text[i + 1] = "x"
        THEN <<FromHex(SubSeq(text, i + 2, i + 3))>> \o from[i + 4]
        ELSE from[i + 2]
  IN from[1]

\* _check_utf8_seq: the length of the sequence that begins at i, 0 if it is cut.
Utf8Len(text, i) ==
  IF text[i] # LEAD THEN 1
  ELSE IF i < Len(text) /\ text[i + 1] = CONT THEN 2 ELSE 0

\* The byte was written with the first byte of its UTF-8 sequence.
Continued(text, i) == i > 1 /\ text[i] = CONT /\ text[i - 1] = LEAD

\* cstr_repr: what is written for the byte at i, or for the UTF-8 sequence
\* that begins there.
ReprPiece(text, i) ==
  IF Continued(text, i) THEN << >>
  ELSE IF text[i] \in {"\"", "\\", "\n"} THEN <<"\\", ReprLetter(text[i])>>
  ELSE IF text[i] \in Printable THEN <<text[i]>>
  ELSE IF Utf8Len(text, i) > 1 THEN SubSeq(text, i, i + Utf8Len(text, i) - 1)
  ELSE <<"\\", "x">> \o Hex(text[i])

\* cstr_repr into a buffer of size bytes.
Repr(text, size) ==
  Emit(Loop(Len(text), Emit(Buffer(size), <<"\"">>),
            LAMBDA w, i : Emit(w, ReprPiece(text, i))),
       <<"\"">>)

\* cstr_unrepr; cstr_repr never writes \u, whose branch is left out.
Unrepr(text) ==
  LET n == Len(text)
      from[i \in 1 .. n + 4] ==
        IF i > n THEN << >>
        ELSE IF text[i] = "\"" THEN from[i + 1]
        ELSE IF text[i] # "\\" THEN <<text[i]>> \o from[i + 1]
        ELSE IF i = n THEN << >>
        ELSE IF text[i + 1] \in ReprLetters
        THEN <<CHOOSE c \in {"\n", "\\", "\""} : ReprLetter(c) = text[i + 1]>>
             \o from[i + 2]
        ELSE IF text[i + 1] = "x"
        THEN <<FromHex(SubSeq(text, i + 2, i + 3))>> \o from[i + 4]
        ELSE from[i + 2]
  IN from[1]

-----------------------------------------------------------------------------
\* strstr: the first place at or behind i where sep is, 0 if there is none.
Found(text, sep, i) ==
  LET last == Len(text) - Len(sep) + 1 IN
  SelectInSubSeq([k \in 1 .. last |-> SubSeq(text, k, k + Len(sep) - 1)],
                 i, last, LAMBDA part : part = sep)

\* PLANTED BUG: the search goes on one byte behind the beginning of sep.
AfterSepShort(at, sep) == at + 1

\* Where the next part begins.
AfterSep(at, sep) == at + Len(sep)

\* The loop of cstr_split before its first round, and after its last one (0).
SplitStart == [start |-> 1, parts |-> << >>]
SplitEnded(l) == l.start = 0

\* A round: split is the number of those before it.
SplitStep(text, sep, maxsplit, l, split) ==
  LET at == IF maxsplit < 0 \/ split < maxsplit THEN Found(text, sep, l.start) ELSE 0 IN
  IF at > 0
  THEN [start |-> AfterSep(at, sep),
        parts |-> Append(l.parts, SubSeq(text, l.start, at - 1))]
  ELSE [start |-> 0, parts |-> Append(l.parts, SubSeq(text, l.start, Len(text)))]

\* cstr_split, at no more than maxsplit places unless it is negative.
Split(text, sep, maxsplit) ==
  Loop(Len(text) + 1, SplitStart,
       LAMBDA l, k : IF SplitEnded(l) THEN l
                     ELSE SplitStep(text, sep, maxsplit, l, k - 1)).parts

\* str_join
Join(parts, sep) ==
  FlattenSeq([i \in DOMAIN parts |->
                IF i = Len(parts) THEN parts[i] ELSE parts[i] \o sep])

\* str_replace: every occurrence, or the first count of them.
Replace(text, old, now, count) ==
  LET parts == Split(text, old, count) IN
  IF Len(parts) > 1 THEN Join(parts, now) ELSE text
=============================================================================
