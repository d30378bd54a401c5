------------------------------ MODULE FormatText -----------------------------
(***************************************************************************)
(* vformat (src/print.c): printf with %O for an object.  The format is cut *)
(* at every %O, and each piece is given to vsnprintf with the arguments    *)
(* from ap_p on; ap_q walks over all arguments to find where the next      *)
(* piece begins.  Arguments are numbered from 1.                           *)
(***************************************************************************)
EXTENDS Integers, SequencesExt

\* A part of a format: text that is copied, or a directive with a length, maybe
\* a width and a precision of their own arguments, and a type.
Literal == [type |-> "text", length |-> "", star |-> FALSE, prec |-> FALSE]
Directive(type, length, star, prec) ==
  [type |-> type, length |-> length, star |-> star, prec |-> prec]

IntTypes == {"i", "d", "u", "x", "X", "o"}
DoubleTypes == {"f", "F", "e", "E", "g", "G", "a", "A"}
OtherTypes == {"s", "c", "p", "n"}

\* The lengths of an integer that the switch knows; l, of a long, is not one.
IntLengths == {"", "h", "hh", "L", "z", "j", "t"}
Lengths == IntLengths \cup {"l", "ll"}

\* The parts of a format; an object has no precision of its own argument, it is not
\* seen as an object then (contract).
IsPart(part) ==
  \/ part = Literal
  \/ part \in [type : IntTypes \cup DoubleTypes \cup OtherTypes, length : Lengths,
               star : BOOLEAN, prec : BOOLEAN]
  \/ part \in [type : {"O"}, length : Lengths, star : BOOLEAN, prec : {FALSE}]

One(b) == IF b THEN 1 ELSE 0

Arg(part) == One(part.type # "text")

\* EXTERNAL: what vsnprintf takes for a part, and to_cstr for an object.
Needs(part) == One(part.star) + One(part.prec) + Arg(part)

\* Behind a precision of its own argument the walk does not come to the type.
TypeTakes(part) ==
  One(~part.prec /\ (part.type \in IntTypes => part.length \in IntLengths))

\* How far a part moves ap_q.
Takes(part) == IF part.type = "text" THEN 0 ELSE One(part.star) + TypeTakes(part)

\* vsnprintf on the parts from first to last, with the arguments from ap on: the
\* argument that each part shows, 0 for a text.
Vsnprintf(fmt, first, last, ap) ==
  LET before[i \in first .. last + 1] ==
        IF i = first THEN ap - 1 ELSE before[i - 1] + Needs(fmt[i - 1])
  IN [k \in 1 .. last - first + 1 |->
        IF Arg(fmt[first + k - 1]) = 0 THEN 0
        ELSE before[first + k - 1] + Needs(fmt[first + k - 1])]

\* PLANTED BUG: the next piece begins with the object again.
NextArgStale(v, part) == v.q

\* Behind an object the next piece begins with the argument ap_q has come to.
NextArg(v, part) == v.q + Takes(part)

\* An object: what stands in front of it is printed, and then the object.
FormatObject(fmt, v) ==
  LET part == fmt[v.at]
      piece == Vsnprintf(fmt, v.first, v.at - 1, v.p)
  IN [at |-> v.at + 1, first |-> v.at + 1, p |-> NextArg(v, part), q |-> v.q + Takes(part),
      shown |-> v.shown \o piece \o <<v.q + Takes(part) - 1>>]

\* Any other part: ap_q moves behind its arguments.
FormatOther(fmt, v) ==
  [at |-> v.at + 1, first |-> v.first, p |-> v.p, q |-> v.q + Takes(fmt[v.at]),
   shown |-> v.shown]

\* vformat: the argument each part shows, in order.
Vformat(fmt) ==
  LET start == [at |-> 1, first |-> 1, p |-> 1, q |-> 1, shown |-> << >>]
      after[n \in 0 .. Len(fmt)] ==
        IF n = 0 THEN start
        ELSE IF fmt[n].type = "O" THEN FormatObject(fmt, after[n - 1])
        ELSE FormatOther(fmt, after[n - 1])
      end == after[Len(fmt)]
  IN end.shown \o Vsnprintf(fmt, end.first, Len(fmt), end.p)
=============================================================================
