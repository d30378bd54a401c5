-------------------------------- MODULE Values -------------------------------
(***************************************************************************)
(* The life of one value: a Str that is changed, a path that is joined and *)
(* made normal, an Ip that becomes its network or broadcast address, or a  *)
(* format that is written part by part.                                    *)
(***************************************************************************)
EXTENDS StrBlock, PathIp, FormatText

CONSTANTS
  Bytes,      (* the bytes that are put into a Str                         *)
  Texts,      (* the texts that are put in front of it and behind it       *)
  Fill,       (* what str_ljust and the like fill with                     *)
  PathParts,  (* the parts of a path                                       *)
  Parts,      (* the parts of a format                                     *)
  MaxLen      (* BOUND: the length of a text, a path and a format          *)

ASSUME ValuesAssumption ==
  /\ Bytes \subseteq Printable \cup {"\n", CTL, LEAD, CONT}
  /\ Texts \subseteq Seq(Bytes)
  /\ Fill \in Bytes
  /\ \A part \in Parts : IsPart(part)
  /\ MaxLen \in Nat

VARIABLES
  kind,  (* what the value is                                              *)
  str,   (* the Str                                                        *)
  text,  (* history: the text it should hold                               *)
  path,  (* the path                                                       *)
  ip,    (* the Ip                                                         *)
  fmt    (* the format                                                     *)

vars == <<kind, str, text, path, ip, fmt>>

Indexes == -MaxLen - 1 .. MaxLen + 1
Addresses == [data : [1 .. AddrBytes -> 0 .. FullByte],
              prefixlen : {NoPrefixLen} \cup 0 .. AddrBytes * ByteBits]

Init ==
  /\ kind \in {"Str", "Path", "Ip", "Format"}
  /\ str = StrOf(<< >>)
  /\ text = << >>
  /\ path = <<"">>
  /\ fmt = << >>
  /\ IF kind = "Ip" THEN ip \in Addresses
     ELSE ip = [data |-> << >>, prefixlen |-> NoPrefixLen]

-----------------------------------------------------------------------------
\* What the operations should do to a text.
Place(idx) == IF idx >= 0 THEN idx ELSE IF idx + Len(text) < 0 THEN 0 ELSE idx + Len(text)
Others == {i \in DOMAIN text : text[i] \notin Spaces}
NoSpacesBefore == IF Others = {} THEN << >> ELSE SubSeq(text, Min(Others), Len(text))
NoSpacesBehind == IF Others = {} THEN << >> ELSE SubSeq(text, 1, Max(Others))
NoSpacesAround == IF Others = {} THEN << >> ELSE SubSeq(text, Min(Others), Max(Others))
Blank(n) == [i \in 1 .. n |-> Fill]
Missing(width) == IF width > Len(text) THEN width - Len(text) ELSE 0
Without(t, c) ==
  Loop(Len(t), << >>, LAMBDA kept, k : IF t[k] = c THEN kept ELSE Append(kept, t[k]))
EndOf(t, n) == SubSeq(t, IF Len(t) > n THEN Len(t) - n + 1 ELSE 1, Len(t))
Truncated(n, end) ==
  IF n >= Len(text) THEN text
  ELSE SubSeq(text, 1, n - Len(EndOf(end, n))) \o EndOf(end, n)

\* The Str after an operation, and the text it should hold then.
Becomes(s, t) ==
  /\ Len(t) <= MaxLen
  /\ str' = s
  /\ text' = t

\* str_set_at, str_delete_at; an index at or beyond the length is not used.
StrIndexed ==
  \E idx \in Indexes :
    /\ idx < Len(text)
    /\ text # << >>
    /\ \/ \E c \in Bytes : Becomes(StrSetAt(str, idx, c), ReplaceAt(text, Place(idx) + 1, c))
       \/ Becomes(StrDeleteAt(str, idx), RemoveAt(text, Place(idx) + 1))

\* str_prepend, str_append, str_truncate
StrExtended ==
  \E t \in Texts :
    \/ Becomes(StrPrepend(str, t), t \o text)
    \/ Becomes(StrAppend(str, t), text \o t)
    \/ \E n \in 0 .. MaxLen : Becomes(StrTruncate(str, n, t), Truncated(n, t))

\* str_lstrip, str_rstrip, str_strip, str_reverse, filter
StrReduced ==
  \/ Becomes(StrLStrip(str), NoSpacesBefore)
  \/ Becomes(StrRStrip(str), NoSpacesBehind)
  \/ Becomes(StrStrip(str), NoSpacesAround)
  \/ Becomes(StrReverse(str), Reverse(text))
  \/ \E c \in Bytes : Becomes(StrFilter(str, c), Without(text, c))

\* str_ljust, str_rjust, str_center
StrJustified ==
  \E width \in 0 .. MaxLen :
    LET n == Missing(width) IN
    \/ Becomes(StrLJust(str, width, Fill), text \o Blank(n))
    \/ Becomes(StrRJust(str, width, Fill), Blank(n) \o text)
    \/ Becomes(StrCenter(str, width, Fill), Blank(n \div 2) \o text \o Blank(n - (n \div 2)))

\* str_slice
StrSliced ==
  \E start, end \in Indexes :
    Becomes(StrSlice(str, start, end),
            SubSeq(text, Place(start) + 1,
                   IF Place(end) < Len(text) THEN Place(end) ELSE Len(text)))

StrChange ==
  /\ kind = "Str"
  /\ StrIndexed \/ StrExtended \/ StrReduced \/ StrJustified \/ StrSliced
  /\ UNCHANGED <<kind, path, ip, fmt>>

\* path_join, path_normpath
PathChange ==
  /\ kind = "Path"
  /\ \/ \E other \in BoundedSeq(PathParts, 2) :
          other # << >> /\ path' = PathJoin(path, other)
     \/ path' = NormPath(path)
  /\ Len(path') <= MaxLen + 1
  /\ UNCHANGED <<kind, str, text, ip, fmt>>

\* ip_network_of, ip_broadcast_of, ip_convert_inet6
IpChange ==
  /\ kind = "Ip"
  /\ \/ \E ones \in BOOLEAN : ip' = NetworkOf(ip, ones)
     \/ Len(ip.data) = AddrBytes /\ ip' = ConvertInet6(ip)
  /\ UNCHANGED <<kind, str, text, path, fmt>>

\* A format gets one more part, or another is begun.
FormatChange ==
  /\ kind = "Format"
  /\ \/ Len(fmt) < MaxLen /\ \E part \in Parts : fmt' = Append(fmt, part)
     \/ fmt' = << >>
  /\ UNCHANGED <<kind, str, text, path, ip>>

Next == StrChange \/ PathChange \/ IpChange \/ FormatChange

Spec == Init /\ [][Next]_vars

-----------------------------------------------------------------------------
\* After any sequence of operations the block of a Str holds the text that they
\* should give, the byte that ends it, and nothing else: no operation that moves
\* the text inside of the block writes over what it still needs, or outside of
\* the block (str.c:98-262, 352-492, 606-620).
TextKept ==
  /\ str.size = Len(text) + 1
  /\ str.cstr = [i \in 0 .. Len(text) |-> IF i = Len(text) THEN NUL ELSE text[i + 1]]

\* What is written is read back: by cstr_unrepr what str_repr wrote of any text,
\* by cstr_unescape what str_escape wrote of one without a backslash, which
\* cstr_escape leaves as it is; by readlines a file line for line, cut behind its
\* newlines and nowhere else, however the lines fit into the buffer; and by
\* joining what a split wrote, no part of which holds the separator but for the
\* last one after maxsplit splits (cstr.c:48-241, 329-352, io.c:43-79,
\* file.c:124-161, str.c:499-548).
EscapesReadBack ==
  LET size == 5 * Len(text) + 3
      repr == Repr(text, size)
  IN
  /\ Unrepr([i \in 1 .. repr.len |-> repr.dest[i - 1]]) = text
  /\ "\\" \notin ToSet(text) => Unescape(Escape(text)) = text

LinesReadBack ==
  LET lines == ReadLines(text) IN
  /\ FlattenSeq(lines) = text
  /\ \A i \in DOMAIN lines : \A j \in DOMAIN lines[i] :
       /\ lines[i][j] = "\n" => j = Len(lines[i])
       /\ j = Len(lines[i]) /\ i < Len(lines) => lines[i][j] = "\n"

SplitsReadBack ==
  \A sep \in Texts \ {<< >>}, maxsplit \in -1 .. 2 :
    LET parts == Split(text, sep, maxsplit) IN
    /\ Join(parts, sep) = text
    /\ maxsplit >= 0 => Len(parts) <= maxsplit + 1
    /\ \A i \in DOMAIN parts :
         i < Len(parts) \/ maxsplit < 0 \/ Len(parts) <= maxsplit
           => Found(parts[i], sep, 1) = 0
    /\ Replace(Replace(text, sep, <<NUL>>, maxsplit), <<NUL>>, sep, -1) = text

ReadsBack == EscapesReadBack /\ LinesReadBack /\ SplitsReadBack

\* A buffer that is too short for cstr_repr holds the beginning of what is
\* written to a larger one, ended inside of the buffer, and the length that is
\* returned is that of the whole (cstr.c:18-46, 146-185).
WrittenFits ==
  LET whole == Repr(text, 5 * Len(text) + 3) IN
  \A size \in 1 .. whole.len :
    LET cut == Repr(text, size) IN
    /\ cut.len = whole.len
    /\ cut.dest = [i \in 0 .. size - 1 |-> IF i = size - 1 THEN NUL ELSE whole.dest[i]]

\* Where a path leads from a place: up above the beginning, and down from there.
WalkStep(here, abs, part) ==
  IF part \in {"", "."} THEN here
  ELSE IF part # ".." THEN [up |-> here.up, down |-> Append(here.down, part)]
  ELSE IF here.down # << >> THEN [up |-> here.up, down |-> Front(here.down)]
  ELSE [up |-> IF abs THEN here.up ELSE here.up + 1, down |-> << >>]

Walk(at, abs, parts) ==
  Loop(Len(parts), at, LAMBDA here, k : WalkStep(here, abs, parts[k]))

Here == [up |-> 0, down |-> << >>]

\* The normal path leads where the path does and is normal: its only .. are in
\* front, it has no empty part, and normalising it again changes nothing.  A
\* joined path leads where the second leads from where the first does
\* (path.c:89-99, 134-171).
PathLeads ==
  LET norm == NormPath(path)
      shown == IF IsAbs(path) THEN Tail(norm) ELSE norm
  IN
  /\ IsAbs(norm) = IsAbs(path)
  /\ Walk(Here, IsAbs(path), norm) = Walk(Here, IsAbs(path), path)
  /\ NormPath(norm) = norm
  /\ \A i \in DOMAIN shown :
       /\ shown[i] \in {"", "."} => Len(shown) = 1
       /\ shown[i] = ".." => ~IsAbs(path) /\ \A j \in 1 .. i : shown[j] = ".."
  /\ \A other \in BoundedSeq(PathParts, 2) :
       other # << >> /\ ~IsAbs(other) =>
         Walk(Here, IsAbs(path), PathJoin(path, other)) =
           Walk(Walk(Here, IsAbs(path), path), IsAbs(path), other)

\* The network address is the address with all bits behind the prefix 0, the
\* broadcast address with all of them 1, at every prefix, also where it ends
\* inside of a byte or at one of the ends; the type says so, and an address that
\* was converted to IPv6 has the same networks (ip.c:120-212, 269-283).
NetworksAgree ==
  LET Number(data) == FoldLeft(LAMBDA v, byte : v * (FullByte + 1) + byte, 0, data)
      v == Number(ip.data)
      host == v % 2^(Bits(ip) - ip.prefixlen)
      last == 2^(Bits(ip) - ip.prefixlen) - 1
  IN
  kind = "Ip" /\ ip.prefixlen # NoPrefixLen =>
    /\ Number(NetworkOf(ip, FALSE).data) = v - host
    /\ Number(NetworkOf(ip, TRUE).data) = v - host + last
    /\ ip.prefixlen < Bits(ip) - 1 =>
         IpType(ip) = IF host = 0 THEN "NETWORK"
                      ELSE IF host = last THEN "BROADCAST" ELSE "CIDR_ADDR"
    /\ ConvertInet6(NetworkOf(ip, FALSE)) = NetworkOf(ConvertInet6(ip), FALSE)

\* The object that a part stands behind, or is: the last one up to it, 0 if none.
IsLastObject(j, i) ==
  /\ j = 0 \/ (j <= i /\ fmt[j].type = "O")
  /\ \A k \in j + 1 .. i : fmt[k].type # "O"

\* What the second walk over the arguments counts: no l in front of the type of an
\* integer, and no precision that is an argument.
Counted(part) == ~part.prec /\ ~(part.type \in IntTypes /\ part.length \in {"l", "ll"})

\* Every directive of a format shows its own argument, also behind an object,
\* where a second walk over the arguments has to have counted everything that
\* vsnprintf took for the parts in front of it; behind an object that something
\* uncounted stands in front of, and that object itself, it is an argument of a
\* directive before it, but maybe for a double, which can be passed in another
\* register (print.c:112-305).
FormatTakesArgs ==
  LET own[i \in 0 .. Len(fmt)] == IF i = 0 THEN 0 ELSE own[i - 1] + Needs(fmt[i])
      shown == Vformat(fmt)
  IN \A i \in DOMAIN fmt, j \in 0 .. Len(fmt) :
       fmt[i] # Literal /\ IsLastObject(j, i) =>
         IF \A k \in 1 .. j : Counted(fmt[k]) THEN shown[i] = own[i]
         ELSE fmt[i].type \notin DoubleTypes => shown[i] < own[i]
=============================================================================
