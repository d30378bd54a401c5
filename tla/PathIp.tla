-------------------------------- MODULE PathIp -------------------------------
(***************************************************************************)
(* Paths, split at their slashes (src/path.c), addresses as sequences of   *)
(* bytes with a prefix (src/ip.c), and lines read through a buffer         *)
(* (src/io.c, src/file.c).                                                 *)
(***************************************************************************)
EXTENDS Integers, SequencesExt

CONSTANTS
  ByteBits,   (* the bits of a byte of an address; 8 in the code           *)
  AddrBytes,  (* the bytes of an IPv4 address; 4 in the code               *)
  MapBytes,   (* the bytes of an IPv6 address in front of it; 12           *)
  BufLen      (* the bytes one pass of readline can take; 127 in the code  *)

ASSUME BufLenAssumption == BufLen \in Nat \ {0}

\* PLANTED BUG: .. always takes the part before it away.
GoesUpAlways(abs, parts) == TRUE

\* .. takes the part before it away, unless that is .. too, or is not there.
GoesUp(abs, parts) ==
  /\ abs \/ parts # << >>
  /\ parts = << >> \/ Last(parts) # ".."

\* The parts after one more part of the path.
NormStep(abs, parts, part) ==
  IF part \in {"", "."} THEN parts
  ELSE IF part = ".." /\ GoesUp(abs, parts)
  THEN IF parts = << >> THEN parts ELSE Front(parts)
  ELSE Append(parts, part)

\* path_is_abs: there is nothing in front of the first slash.
IsAbs(path) == Len(path) > 1 /\ path[1] = ""

\* The parts that are left of a path.
NormParts(abs, path) ==
  LET left[k \in 0 .. Len(path)] ==
        IF k = 0 THEN << >> ELSE NormStep(abs, left[k - 1], path[k])
  IN left[Len(path)]

\* path_normpath
NormPath(path) ==
  LET parts == NormParts(IsAbs(path), path)
      shown == IF parts # << >> THEN parts ELSE IF IsAbs(path) THEN <<"">> ELSE <<".">>
  IN IF IsAbs(path) THEN <<"">> \o shown ELSE shown

\* path_join: with a slash between the two, unless there is one or no path.
PathJoin(path, other) ==
  IF IsAbs(other) THEN other
  ELSE IF Last(path) = "" THEN Front(path) \o other
  ELSE path \o other

-----------------------------------------------------------------------------
Bits(ip) == ByteBits * Len(ip.data)
FullByte == 2^ByteBits - 1
NoPrefixLen == -1

\* PLANTED BUG: the bits of the byte that is masked in part are cut off by one.
MaskedByteShort(byte, bits, ones) ==
  IF bits = 0 THEN byte
  ELSE byte - (byte % 2^(bits - 1)) + (IF ones THEN 2^(bits - 1) - 1 ELSE 0)

\* _mask_bytes, _mask_bits: the last bits of a byte become all 0 or all 1.
MaskedByte(byte, bits, ones) ==
  byte - (byte % 2^bits) + (IF ones THEN 2^bits - 1 ELSE 0)

\* How many of the last bits of byte i are not in the prefix: all, some or none.
HostBits(ip, i) ==
  LET free == Bits(ip) - ip.prefixlen
      behind == Len(ip.data) - i
  IN IF behind < free \div ByteBits THEN ByteBits
     ELSE IF behind = free \div ByteBits THEN free % ByteBits ELSE 0

\* ip_network_of, ip_broadcast_of
NetworkOf(ip, ones) ==
  [ip EXCEPT !.data = [i \in DOMAIN @ |->
     IF ip.prefixlen = NoPrefixLen THEN @[i] ELSE MaskedByte(@[i], HostBits(ip, i), ones)]]

\* _check_bytes, _check_bits: all bits behind the prefix are 0, or 1.
AllHostBits(ip, ones) ==
  \A i \in DOMAIN ip.data :
    LET n == 2^HostBits(ip, i) IN
    (IF ones THEN FullByte - ip.data[i] ELSE ip.data[i]) % n = 0

\* ip_type
IpType(ip) ==
  CASE ip.prefixlen = NoPrefixLen -> "ADDR"
    [] ip.prefixlen = Bits(ip) -> "HOST"
    [] ip.prefixlen = Bits(ip) - 1 -> "P2P"
    [] OTHER -> IF AllHostBits(ip, FALSE) THEN "NETWORK"
                ELSE IF AllHostBits(ip, TRUE) THEN "BROADCAST" ELSE "CIDR_ADDR"

\* ip_convert_inet6: the address behind bytes that are 0, the last two all 1.
ConvertInet6(ip) ==
  [data |-> [i \in 1 .. MapBytes |-> IF i > MapBytes - 2 THEN FullByte ELSE 0]
            \o ip.data,
   prefixlen |-> IF ip.prefixlen = NoPrefixLen THEN NoPrefixLen
                 ELSE ip.prefixlen + MapBytes * ByteBits]

-----------------------------------------------------------------------------
\* The bytes one pass of the loop takes: up to the end of a line, of the buffer
\* or of what there is.
Portion(rest) ==
  LET n == IF Len(rest) < BufLen THEN Len(rest) ELSE BufLen
      at == SelectInSubSeq(rest, 1, n, LAMBDA c : c = "\n")
  IN SubSeq(rest, 1, IF at > 0 THEN at ELSE n)

\* The pass was the last one of the line.
LineComplete(portion) ==
  Len(portion) < BufLen \/ Last(portion) = "\n"

\* io_readline, file_readline: the line that begins at place i, empty at the end.
ReadLine(text) ==
  LET from[i \in 1 .. Len(text) + 1] ==
        LET portion == Portion(SubSeq(text, i, Len(text))) IN
        portion \o (IF LineComplete(portion) THEN << >> ELSE from[i + Len(portion)])
  IN from[1]

\* readlines
ReadLines(text) ==
  LET from[i \in 1 .. Len(text) + 1] ==
        LET line == ReadLine(SubSeq(text, i, Len(text))) IN
        IF line = << >> THEN << >> ELSE <<line>> \o from[i + Len(line)]
  IN from[1]
=============================================================================
