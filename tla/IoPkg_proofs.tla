---------------------------- MODULE IoPkg_proofs ----------------------------
(***************************************************************************)
(* The packet reader implements a packet stream, for all bytes, portions   *)
(* and lengths.  PkgInv says at every point of _pkg_data_cb which of the   *)
(* bytes that have arrived are where in the buffer.                        *)
(***************************************************************************)
EXTENDS IoPkg, SequenceTheorems, TLAPS

\* Between two calls.
Resting ==
  /\ taken + size = Len(received)
  /\ Len(data) = size
  /\ \A j \in 1 .. size : data[j] = received[taken + j] /\ data[j] # Sentinel

\* While the buffer is searched: its first pos bytes were cut off.
Searching ==
  /\ pos <= i /\ i <= n
  /\ pos <= taken
  /\ taken - pos + n = Len(received)
  /\ Len(Buf) = n
  /\ \A j \in 1 .. n : Buf[j] = received[taken - pos + j]
  /\ \A j \in pos + 1 .. i : Buf[j] # Sentinel

\* While the rest is moved: its first i bytes have arrived at their new place,
\* and the others are still at their old one.
Moving ==
  /\ i <= size
  /\ taken + size = Len(received)
  /\ Len(data) = pos + size
  /\ pos > 0
  /\ \A j \in 1 .. i : data[j] = received[taken + j]
  /\ \A j \in i + 1 .. size : data[pos + j] = received[taken + j]
  /\ \A j \in 1 .. size : received[taken + j] # Sentinel

PkgInv ==
  /\ TypeOK
  /\ pc = "idle" => Resting
  /\ pc \in {"scan", "callback"} => Searching
  /\ pc = "move" => Moving
  /\ pc = "callback" <=> pkg # << >>

-----------------------------------------------------------------------------
LEMMA InitPkgInv == Init => PkgInv
BY DEF Init, PkgInv, TypeOK, Resting

\* The place of a byte in a sequence that was put together from two.
LEMMA ConcatAt ==
  ASSUME NEW S, NEW s \in Seq(S), NEW t \in Seq(S)
  PROVE  /\ s \o t \in Seq(S)
         /\ Len(s \o t) = Len(s) + Len(t)
         /\ \A j \in 1 .. Len(s) : (s \o t)[j] = s[j]
         /\ \A j \in 1 .. Len(t) : (s \o t)[Len(s) + j] = t[j]
<1>1. Len(s) \in Nat /\ Len(t) \in Nat
  BY LenProperties
<1>2. /\ s \o t \in Seq(S)
      /\ Len(s \o t) = Len(s) + Len(t)
      /\ \A j \in 1 .. Len(s) + Len(t) :
           (s \o t)[j] = IF j <= Len(s) THEN s[j] ELSE t[j - Len(s)]
  BY ConcatProperties
<1> DEFINE u == s \o t
<1> HIDE DEF u
<1>3. \A j \in 1 .. Len(s) + Len(t) :
        u[j] = IF j <= Len(s) THEN s[j] ELSE t[j - Len(s)]
  BY <1>2 DEF u
<1>4. \A j \in 1 .. Len(s) : u[j] = s[j]
  BY <1>1, <1>3
<1>5. ASSUME NEW j \in 1 .. Len(t) PROVE u[Len(s) + j] = t[j]
  <2>1. /\ Len(s) + j \in 1 .. Len(s) + Len(t)
        /\ ~(Len(s) + j <= Len(s))
        /\ (Len(s) + j) - Len(s) = j
    BY <1>1
  <2>2. QED
    BY <1>3, <2>1
<1>6. QED
  BY <1>2, <1>4, <1>5 DEF u

\* New bytes stand behind the rest of those that have arrived before.
LEMMA DataCbInv ==
  ASSUME PkgInv, NEW c \in Chunks, DataCb(c)
  PROVE  PkgInv'
<1>1. /\ pc = "idle" /\ pc' = "scan" /\ pos' = 0 /\ i' = 0
      /\ chunk' = c /\ received' = received \o c
      /\ UNCHANGED <<pkgCb, pkg, taken>>
  BY DEF DataCb
<1>a. pos' = 0 /\ i' = 0 /\ taken' = taken
  BY <1>1
<1>2. c \in Seq(Bytes) /\ c # << >>
  BY IoPkgAssumption
<1>3. Resting /\ TypeOK /\ pkg = << >>
  BY <1>1 DEF PkgInv
<1>4. /\ data \in Seq(Bytes) /\ size \in Nat /\ taken \in Nat
      /\ received \in Seq(Bytes) /\ Len(received) \in Nat /\ Len(c) \in Nat
      /\ taken + size = Len(received) /\ Len(data) = size
  BY <1>2, <1>3, LenProperties DEF TypeOK, Resting
<1>5. /\ received' \in Seq(Bytes)
      /\ Len(received') = Len(received) + Len(c)
      /\ \A j \in 1 .. Len(received) : received'[j] = received[j]
      /\ \A j \in 1 .. Len(c) : received'[Len(received) + j] = c[j]
  BY <1>1, <1>2, <1>4, ConcatAt
<1>6. \A j \in 1 .. size : data[j] = received'[taken + j]
  <2> SUFFICES ASSUME NEW j \in 1 .. size
               PROVE  data[j] = received'[taken + j]
    OBVIOUS
  <2>1. taken + j \in 1 .. Len(received)
    BY <1>4
  <2>2. data[j] = received[taken + j]
    BY <1>3 DEF Resting
  <2>3. QED
    BY <1>5, <2>1, <2>2
<1>7. /\ n' = size + Len(c)
      /\ data' \in Seq(Bytes) /\ size' \in Nat
      /\ Len(Buf') = n'
      /\ \A j \in 1 .. n' : Buf'[j] = received'[taken + j]
  <2>1. CASE data # << >>
    <3>1. data' = SubSeq(data, 1, size) \o c /\ size' = size + Len(c) /\ n' = size + Len(c)
      BY <2>1 DEF DataCb, Grown
    <3>2. SubSeq(data, 1, size) = data
      BY <1>4, SubSeqFull
    <3>3. /\ data' \in Seq(Bytes)
          /\ Len(data') = size + Len(c)
          /\ \A j \in 1 .. size : data'[j] = data[j]
          /\ \A j \in 1 .. Len(c) : data'[size + j] = c[j]
      BY <1>2, <1>4, <3>1, <3>2, ConcatAt
    <3>4. c # << >> => Len(c) # 0
      BY <1>2, EmptySeq
    <3>5. data' # << >>
      BY <1>2, <1>4, <3>3, <3>4, EmptySeq
    <3>6. ASSUME NEW j \in 1 .. size + Len(c)
          PROVE  data'[j] = received'[taken + j]
      <4>1. CASE j <= size
        BY <1>4, <1>6, <3>3, <4>1
      <4>2. CASE j > size
        <5>1. /\ j - size \in 1 .. Len(c)
              /\ size + (j - size) = j
              /\ Len(received) + (j - size) = taken + j
          BY <1>4, <4>2
        <5>2. QED
          BY <1>5, <3>3, <5>1
      <4>3. QED
        BY <1>4, <4>1, <4>2
    <3>7. QED
      BY <1>4, <3>1, <3>3, <3>5, <3>6 DEF Buf
  <2>2. CASE data = << >>
    <3>1. n' = Len(c) /\ data' = data /\ size' = size /\ size = 0
      BY <1>4, <2>2, EmptySeq DEF DataCb
    <3>2. Buf' = c
      BY <1>1, <2>2, <3>1 DEF Buf
    <3>3. ASSUME NEW j \in 1 .. Len(c) PROVE c[j] = received'[taken + j]
      <4>1. Len(received) + j = taken + j
        BY <1>4, <3>1
      <4>2. QED
        BY <1>5, <4>1
    <3>4. QED
      BY <1>4, <3>1, <3>2, <3>3
  <2>3. QED
    BY <2>1, <2>2
<1>8. TypeOK'
  BY <1>1, <1>2, <1>3, <1>4, <1>5, <1>7 DEF TypeOK
<1>9. Searching'
  <2>1. taken - 0 + n' = Len(received')
    <3>1. Len(received') = Len(received) + Len(c)
      BY <1>5
    <3>2. n' = size + Len(c)
      BY <1>7
    <3>3. /\ taken + size = Len(received)
          /\ taken \in Nat /\ size \in Nat /\ Len(c) \in Nat
      BY <1>4
    <3>4. QED
      BY <3>1, <3>2, <3>3
  <2>2. \A j \in 1 .. n' : taken - 0 + j = taken + j
    BY <1>4
  <2>3. \A j \in pos' + 1 .. i' : FALSE
    BY <1>a
  <2>5. 0 <= n'
    BY <1>4, <1>7
  <2>4. QED
    BY <1>a, <1>4, <1>7, <2>1, <2>2, <2>3, <2>5 DEF Searching
<1>10. QED
  BY <1>1, <1>3, <1>8, <1>9 DEF PkgInv
-----------------------------------------------------------------------------
\* The types of the variables, where the searched bytes are looked at.
LEMMA SearchingTypes ==
  ASSUME PkgInv, pc = "scan"
  PROVE  /\ Searching /\ TypeOK
         /\ taken \in Nat /\ pos \in Nat /\ i \in Nat /\ n \in Nat
         /\ size \in Nat /\ Len(received) \in Nat
         /\ Buf \in Seq(Bytes) /\ Len(Buf) = n
         /\ pkg = << >>
BY LenProperties DEF PkgInv, Searching, TypeOK, Buf

LEMMA SearchInv ==
  ASSUME PkgInv, Search
  PROVE  PkgInv'
<1>1. /\ pc = "scan" /\ i < n /\ Buf[i + 1] # Sentinel /\ i' = i + 1
      /\ UNCHANGED <<pkgCb, pc, chunk, data, size, n, pos, pkg, received, taken>>
  BY DEF Search
<1>2. /\ Searching /\ TypeOK
      /\ taken \in Nat /\ pos \in Nat /\ i \in Nat /\ n \in Nat
  BY <1>1, SearchingTypes
<1>3. TypeOK'
  BY <1>1, <1>2 DEF TypeOK
<1>4. \A j \in pos + 1 .. i + 1 : Buf[j] # Sentinel
  <2>1. \A j \in pos + 1 .. i + 1 : j \in pos + 1 .. i \/ j = i + 1
    BY <1>2
  <2>2. QED
    BY <1>1, <1>2, <2>1 DEF Searching
<1>5. pos <= i + 1 /\ i + 1 <= n
  BY <1>1, <1>2 DEF Searching
<1>6. Buf' = Buf
  BY <1>1 DEF Buf
<1>7. Searching'
  BY <1>1, <1>2, <1>4, <1>5, <1>6 DEF Searching
<1>8. QED
  BY <1>1, <1>3, <1>7 DEF PkgInv

\* A packet is cut off: the bytes up to and with the next sentinel.
LEMMA PacketCut ==
  ASSUME PkgInv, Packet
  PROVE  LET end == taken + i + 1 - pos IN
         /\ taken' = end
         /\ end \in taken + 1 .. Len(received)
         /\ end - (i + 1) = taken - pos
         /\ received[end] = Sentinel
         /\ \A k \in taken + 1 .. end - 1 : received[k] # Sentinel
         /\ SubSeq(Buf, pos + 1, i + 1) = SubSeq(received, taken + 1, end)
         /\ SubSeq(Buf, pos + 1, i + 1) \in Seq(Bytes) \ {<< >>}
<1> DEFINE end == taken + i + 1 - pos
<1>1. pc = "scan" /\ i < n /\ Buf[i + 1] = Sentinel /\ taken' = end
  BY DEF Packet, PacketEnd, PkgInv, TypeOK
<1>2. /\ Searching /\ TypeOK
      /\ taken \in Nat /\ pos \in Nat /\ i \in Nat /\ n \in Nat
      /\ Len(received) \in Nat /\ Buf \in Seq(Bytes) /\ Len(Buf) = n
  BY <1>1, SearchingTypes
<1>3. pos <= i /\ pos <= taken /\ taken - pos + n = Len(received)
  BY <1>2 DEF Searching
<1>4. /\ end \in taken + 1 .. Len(received)
      /\ i + 1 \in 1 .. n /\ taken - pos + (i + 1) = end
      /\ end - (i + 1) = taken - pos
  BY <1>1, <1>2, <1>3
<1>5. received[end] = Sentinel
  BY <1>1, <1>2, <1>4 DEF Searching
<1>6. ASSUME NEW k \in taken + 1 .. end - 1
      PROVE  received[k] # Sentinel
  <2>1. /\ k - taken + pos \in pos + 1 .. i
        /\ k - taken + pos \in 1 .. n
        /\ taken - pos + (k - taken + pos) = k
    BY <1>1, <1>2, <1>3
  <2>2. QED
    BY <1>2, <2>1 DEF Searching
<1> DEFINE left == SubSeq(Buf, pos + 1, i + 1)
           right == SubSeq(received, taken + 1, end)
           len == i + 1 - pos
<1>7. /\ left \in Seq(Bytes) /\ Len(left) = len
      /\ \A j \in 1 .. len : left[j] = Buf[pos + j]
  <2>1. \A j \in pos + 1 .. i + 1 : Buf[j] \in Bytes
    BY <1>1, <1>2, ElementOfSeq
  <2>2. /\ left \in Seq(Bytes)
        /\ Len(left) = IF pos + 1 <= i + 1 THEN i + 1 - (pos + 1) + 1 ELSE 0
        /\ \A j \in 1 .. i + 1 - (pos + 1) + 1 : left[j] = Buf[pos + 1 + j - 1]
    BY <1>2, <2>1, SubSeqProperties
  <2> HIDE DEF left
  <2>3. /\ pos + 1 <= i + 1 /\ i + 1 - (pos + 1) + 1 = len
        /\ \A j \in 1 .. len : pos + 1 + j - 1 = pos + j
    BY <1>2, <1>3
  <2>4. QED
    BY <2>2, <2>3
<1>8. /\ right \in Seq(Bytes) /\ Len(right) = len
      /\ \A j \in 1 .. len : right[j] = received[taken + j]
  <2>1. \A j \in taken + 1 .. end : received[j] \in Bytes
    BY <1>2, <1>4, ElementOfSeq DEF TypeOK
  <2>2. /\ right \in Seq(Bytes)
        /\ Len(right) = IF taken + 1 <= end THEN end - (taken + 1) + 1 ELSE 0
        /\ \A j \in 1 .. end - (taken + 1) + 1 : right[j] = received[taken + 1 + j - 1]
    BY <1>2, <2>1, SubSeqProperties
  <2> HIDE DEF right
  <2>3. /\ taken + 1 <= end /\ end - (taken + 1) + 1 = len
        /\ \A j \in 1 .. len : taken + 1 + j - 1 = taken + j
    BY <1>2, <1>3
  <2>4. QED
    BY <2>2, <2>3
<1> HIDE DEF left, right
<1>9. ASSUME NEW j \in 1 .. len
      PROVE  left[j] = right[j]
  <2>1. pos + j \in 1 .. n /\ taken - pos + (pos + j) = taken + j
    BY <1>1, <1>2, <1>3
  <2>2. Buf[pos + j] = received[taken - pos + (pos + j)]
    BY <1>2, <2>1 DEF Searching
  <2>3. QED
    BY <1>7, <1>8, <2>1, <2>2
<1>10. left = right
  BY <1>7, <1>8, <1>9, SeqEqual
<1>11. left # << >>
  <2>1. len > 0
    BY <1>2, <1>3
  <2>2. QED
    BY <1>7, <2>1
<1>12. QED
  BY <1>1, <1>4, <1>5, <1>6, <1>7, <1>10, <1>11 DEF left, right

LEMMA PacketInv ==
  ASSUME PkgInv, Packet
  PROVE  PkgInv'
<1>1. /\ pc = "scan" /\ i < n /\ pos' = i + 1 /\ i' = i + 1
      /\ UNCHANGED <<pkgCb, chunk, data, size, n, received>>
      /\ \/ pkg' = SubSeq(Buf, pos + 1, i + 1) /\ pc' = "callback"
         \/ UNCHANGED <<pkg, pc>>
  BY DEF Packet, PacketEnd
<1>2. /\ Searching /\ TypeOK /\ pkg = << >>
      /\ taken \in Nat /\ pos \in Nat /\ i \in Nat /\ n \in Nat
      /\ Len(received) \in Nat
  BY <1>1, SearchingTypes
<1>3. /\ taken' = taken + i + 1 - pos
      /\ taken' \in taken + 1 .. Len(received)
      /\ SubSeq(Buf, pos + 1, i + 1) \in Seq(Bytes) \ {<< >>}
  BY PacketCut
<1>4. TypeOK'
  <2>1. i + 1 \in Nat /\ taken' \in 0 .. Len(received')
    BY <1>1, <1>2, <1>3
  <2>2. pkg' \in Seq(Bytes)
    BY <1>1, <1>2, <1>3 DEF TypeOK
  <2>3. pc' \in {"scan", "callback"}
    BY <1>1
  <2>4. QED
    BY <1>1, <1>2, <2>1, <2>2, <2>3 DEF TypeOK
<1>5. Searching'
  <2>1. /\ i + 1 <= n /\ i + 1 <= taken'
        /\ taken' - (i + 1) = taken - pos
    BY <1>1, <1>2, <1>3 DEF Searching
  <2>2. Buf' = Buf
    BY <1>1 DEF Buf
  <2>3. \A j \in pos' + 1 .. i' : FALSE
    BY <1>1, <1>2
  <2>4. pos' <= i' /\ i' <= n' /\ pos' <= taken'
    BY <1>1, <1>2, <2>1
  <2>5. taken' - pos' = taken - pos /\ n' = n /\ received' = received
    BY <1>1, <2>1
  <2>6. /\ taken - pos + n = Len(received)
        /\ Len(Buf) = n
        /\ \A j \in 1 .. n : Buf[j] = received[taken - pos + j]
    BY <1>2 DEF Searching
  <2>7. QED
    BY <2>2, <2>3, <2>4, <2>5, <2>6 DEF Searching
<1>6. pc' = "callback" <=> pkg' # << >>
  BY <1>1, <1>2, <1>3
<1>7. QED
  BY <1>1, <1>4, <1>5, <1>6 DEF PkgInv

LEMMA PkgCbReturnsInv ==
  ASSUME PkgInv, PkgCbReturns
  PROVE  PkgInv'
<1>1. TypeOK'
  BY DEF PkgCbReturns, PkgInv, TypeOK
<1>2. Searching'
  <2>1. Buf' = Buf
    BY DEF PkgCbReturns, Buf
  <2>2. QED
    BY <2>1 DEF PkgCbReturns, PkgInv, Searching
<1>3. QED
  BY <1>1, <1>2 DEF PkgCbReturns, PkgInv

-----------------------------------------------------------------------------
\* What the search has found when it comes to the end of the bytes.
LEMMA SearchEnd ==
  ASSUME PkgInv, SearchDone
  PROVE  /\ pc = "scan" /\ i = n /\ size' = n - pos
         /\ TypeOK /\ pkg = << >>
         /\ n - pos \in Nat /\ n \in Nat /\ pos \in Nat /\ taken \in Nat
         /\ Buf \in Seq(Bytes) /\ Len(Buf) = n
         /\ taken + (n - pos) = Len(received)
         /\ \A j \in 1 .. n - pos :
              Buf[pos + j] = received[taken + j] /\ Buf[pos + j] # Sentinel
<1>1. pc = "scan" /\ i = n /\ size' = n - pos
  BY DEF SearchDone
<1>2. /\ Searching /\ TypeOK /\ pkg = << >>
      /\ taken \in Nat /\ pos \in Nat /\ i \in Nat /\ n \in Nat
      /\ Len(received) \in Nat /\ Buf \in Seq(Bytes) /\ Len(Buf) = n
  BY <1>1, SearchingTypes
<1>3. pos <= i /\ pos <= taken /\ taken - pos + n = Len(received)
  BY <1>2 DEF Searching
<1>4. n - pos \in Nat /\ taken + (n - pos) = Len(received)
  BY <1>1, <1>2, <1>3
<1>5. ASSUME NEW j \in 1 .. n - pos
      PROVE  Buf[pos + j] = received[taken + j] /\ Buf[pos + j] # Sentinel
  <2>1. /\ pos + j \in 1 .. n /\ pos + j \in pos + 1 .. i
        /\ taken - pos + (pos + j) = taken + j
    BY <1>1, <1>2, <1>3
  <2>2. QED
    BY <1>2, <2>1 DEF Searching
<1>6. QED
  BY <1>1, <1>2, <1>4, <1>5

\* The bytes i + 1 .. n of a sequence, with i = pos.
LEMMA SubSeqAt ==
  ASSUME NEW S, NEW s \in Seq(S), NEW p \in Nat, NEW len \in Nat,
         p + len <= Len(s)
  PROVE  /\ SubSeq(s, p + 1, p + len) \in Seq(S)
         /\ Len(SubSeq(s, p + 1, p + len)) = len
         /\ \A j \in 1 .. len : SubSeq(s, p + 1, p + len)[j] = s[p + j]
<1> DEFINE t == SubSeq(s, p + 1, p + len)
<1>1. \A j \in p + 1 .. p + len : s[j] \in S
  BY LenProperties, ElementOfSeq
<1>2. /\ t \in Seq(S)
      /\ Len(t) = IF p + 1 <= p + len THEN p + len - (p + 1) + 1 ELSE 0
      /\ \A j \in 1 .. p + len - (p + 1) + 1 : t[j] = s[p + 1 + j - 1]
  BY <1>1, SubSeqProperties
<1> HIDE DEF t
<1>3. /\ p + len - (p + 1) + 1 = len
      /\ p + 1 <= p + len <=> len # 0
      /\ \A j \in 1 .. len : p + 1 + j - 1 = p + j
  OBVIOUS
<1>4. t \in Seq(S) /\ Len(t) = len /\ \A j \in 1 .. len : t[j] = s[p + j]
  BY <1>2, <1>3
<1>5. QED
  BY <1>4 DEF t

LEMMA DrainedInv ==
  ASSUME PkgInv, Drained
  PROVE  PkgInv'
<1>1. /\ SearchDone /\ n = pos /\ pc' = "idle" /\ data' = << >>
      /\ UNCHANGED <<pkgCb, chunk, n, pos, i, pkg, received, taken>>
  BY DEF Drained
<1>2. size' = 0 /\ taken = Len(received) /\ TypeOK /\ pkg = << >>
  BY <1>1, SearchEnd
<1>3. TypeOK'
  BY <1>1, <1>2 DEF TypeOK
<1>4. Resting'
  BY <1>1, <1>2, <1>3 DEF Resting, TypeOK
<1>5. QED
  BY <1>1, <1>2, <1>3, <1>4 DEF PkgInv

LEMMA StoredInv ==
  ASSUME PkgInv, Stored
  PROVE  PkgInv'
<1>1. /\ SearchDone /\ pc' = "idle" /\ data' = SubSeq(Buf, pos + 1, n)
      /\ UNCHANGED <<pkgCb, chunk, n, pos, i, pkg, received, taken>>
  BY DEF Stored
<1>2. /\ size' = n - pos /\ TypeOK /\ pkg = << >>
      /\ n - pos \in Nat /\ n \in Nat /\ pos \in Nat /\ taken \in Nat
      /\ Buf \in Seq(Bytes) /\ Len(Buf) = n
      /\ taken + (n - pos) = Len(received)
      /\ \A j \in 1 .. n - pos :
           Buf[pos + j] = received[taken + j] /\ Buf[pos + j] # Sentinel
  BY <1>1, SearchEnd
<1>3. /\ data' \in Seq(Bytes) /\ Len(data') = n - pos
      /\ \A j \in 1 .. n - pos : data'[j] = Buf[pos + j]
  <2>1. pos + (n - pos) = n
    BY <1>2
  <2>2. QED
    BY <1>1, <1>2, <2>1, SubSeqAt
<1>4. TypeOK'
  BY <1>1, <1>2, <1>3 DEF TypeOK
<1>5. Resting'
  BY <1>1, <1>2, <1>3 DEF Resting
<1>6. QED
  BY <1>1, <1>2, <1>4, <1>5 DEF PkgInv

LEMMA KeptInv ==
  ASSUME PkgInv, Kept
  PROVE  PkgInv'
<1>1. /\ SearchDone /\ pc' = "idle" /\ data # << >> /\ pos = 0 /\ Buf = data
      /\ UNCHANGED <<pkgCb, chunk, data, n, pos, i, pkg, received, taken>>
  BY DEF Kept, Buf
<1>2. /\ size' = n - 0 /\ TypeOK /\ pkg = << >>
      /\ n \in Nat /\ taken \in Nat
      /\ Len(Buf) = n
      /\ taken + (n - 0) = Len(received)
      /\ \A j \in 1 .. n - 0 :
           Buf[0 + j] = received[taken + j] /\ Buf[0 + j] # Sentinel
  BY <1>1, SearchEnd
<1>3. TypeOK'
  BY <1>1, <1>2 DEF TypeOK
<1>4. Resting'
  BY <1>1, <1>2 DEF Resting
<1>5. QED
  BY <1>1, <1>2, <1>3, <1>4 DEF PkgInv

LEMMA MoveBeginInv ==
  ASSUME PkgInv, MoveBegin
  PROVE  PkgInv'
<1>1. /\ SearchDone /\ pc' = "move" /\ data # << >> /\ pos > 0 /\ Buf = data
      /\ i' = 0
      /\ UNCHANGED <<pkgCb, chunk, data, n, pos, pkg, received, taken>>
  BY DEF MoveBegin, Buf
<1>2. /\ size' = n - pos /\ TypeOK /\ pkg = << >>
      /\ n - pos \in Nat /\ n \in Nat /\ pos \in Nat /\ taken \in Nat
      /\ Len(Buf) = n
      /\ taken + (n - pos) = Len(received)
      /\ \A j \in 1 .. n - pos :
           Buf[pos + j] = received[taken + j] /\ Buf[pos + j] # Sentinel
  BY <1>1, SearchEnd
<1>3. TypeOK'
  BY <1>1, <1>2 DEF TypeOK
<1>4. pos + (n - pos) = n /\ 0 <= n - pos
  BY <1>2
<1>5. Moving'
  <2>1. /\ i' <= size'
        /\ taken' + size' = Len(received')
        /\ Len(data') = pos' + size'
        /\ pos' > 0
    BY <1>1, <1>2, <1>4
  <2>2. \A j \in 1 .. i' : FALSE
    BY <1>1
  <2>3. /\ \A j \in 1 .. size' : data'[pos' + j] = received'[taken' + j]
        /\ \A j \in 1 .. size' : received'[taken' + j] # Sentinel
    BY <1>1, <1>2
  <2>4. i' + 1 .. size' = 1 .. size'
    BY <1>1, <1>2
  <2>5. QED
    BY <2>1, <2>2, <2>3, <2>4 DEF Moving
<1>6. QED
  BY <1>1, <1>2, <1>3, <1>5 DEF PkgInv

\* One byte is moved: its source is behind everything that was moved before,
\* and its destination in front of everything that is still to be moved.
LEMMA MoveInv ==
  ASSUME PkgInv, Move
  PROVE  PkgInv'
<1>1. /\ pc = "move" /\ i < size /\ i' = i + 1
      /\ data' = [data EXCEPT ![i + 1] = data[pos + i + 1]]
      /\ UNCHANGED <<pkgCb, pc, chunk, size, n, pos, pkg, received, taken>>
  BY DEF Move, Moved
<1>2. /\ Moving /\ TypeOK /\ pkg = << >>
      /\ data \in Seq(Bytes) /\ Len(data) \in Nat
      /\ i \in Nat /\ pos \in Nat /\ size \in Nat /\ taken \in Nat
      /\ Len(data) = pos + size /\ pos > 0
  BY <1>1, LenProperties DEF PkgInv, TypeOK, Moving
<1>3. i + 1 \in 1 .. Len(data) /\ pos + i + 1 \in 1 .. Len(data)
  BY <1>1, <1>2
<1>4. data[pos + i + 1] \in Bytes
  BY <1>2, <1>3, ElementOfSeq
<1>5. /\ data' \in Seq(Bytes) /\ Len(data') = Len(data)
      /\ \A j \in 1 .. Len(data) :
           data'[j] = IF j = i + 1 THEN data[pos + i + 1] ELSE data[j]
  BY <1>1, <1>2, <1>3, <1>4, ExceptSeq
<1>6. TypeOK'
  BY <1>1, <1>2, <1>5 DEF TypeOK
<1>7. ASSUME NEW j \in 1 .. i + 1
      PROVE  data'[j] = received[taken + j]
  <2>1. CASE j = i + 1
    <3>1. data'[j] = data[pos + j]
      <4>1. pos + j = pos + i + 1
        BY <1>2, <2>1
      <4>2. QED
        BY <1>3, <1>5, <2>1, <4>1
    <3>2. j \in i + 1 .. size
      BY <1>1, <1>2, <2>1
    <3>3. QED
      BY <1>2, <3>1, <3>2 DEF Moving
  <2>2. CASE j # i + 1
    <3>1. j \in 1 .. i /\ j \in 1 .. Len(data)
      BY <1>1, <1>2, <2>2
    <3>2. QED
      BY <1>2, <1>5, <2>2, <3>1 DEF Moving
  <2>3. QED
    BY <2>1, <2>2
<1>8. ASSUME NEW j \in (i + 1) + 1 .. size
      PROVE  data'[pos + j] = received[taken + j]
  <2>1. /\ j \in i + 1 .. size
        /\ pos + j \in 1 .. Len(data) /\ pos + j # i + 1
    BY <1>1, <1>2
  <2>2. QED
    BY <1>2, <1>5, <2>1 DEF Moving
<1>9. i + 1 <= size
  BY <1>1, <1>2
<1>10. Moving'
  BY <1>1, <1>2, <1>5, <1>7, <1>8, <1>9 DEF Moving
<1>11. QED
  BY <1>1, <1>2, <1>6, <1>10 DEF PkgInv

LEMMA MoveDoneInv ==
  ASSUME PkgInv, MoveDone
  PROVE  PkgInv'
<1>1. /\ pc = "move" /\ i = size /\ pc' = "idle"
      /\ data' = SubSeq(data, 1, size)
      /\ UNCHANGED <<pkgCb, chunk, size, n, pos, i, pkg, received, taken>>
  BY DEF MoveDone, Shrunk
<1>2. /\ Moving /\ TypeOK /\ pkg = << >>
      /\ data \in Seq(Bytes) /\ size \in Nat /\ pos \in Nat
      /\ Len(data) = pos + size
  BY <1>1 DEF PkgInv, TypeOK, Moving
<1>3. /\ data' \in Seq(Bytes) /\ Len(data') = size
      /\ \A j \in 1 .. size : data'[j] = data[0 + j]
  <2>1. 0 + size <= Len(data) /\ 0 + 1 = 1 /\ 0 + size = size
    BY <1>2
  <2>2. QED
    BY <1>1, <1>2, <2>1, SubSeqAt
<1>4. TypeOK'
  BY <1>1, <1>2, <1>3 DEF TypeOK
<1>5. Resting'
  BY <1>1, <1>2, <1>3 DEF Resting, Moving
<1>6. QED
  BY <1>1, <1>2, <1>4, <1>5 DEF PkgInv

-----------------------------------------------------------------------------
LEMMA PkgInvStep == PkgInv /\ [Next]_vars => PkgInv'
<1> SUFFICES ASSUME PkgInv, [Next]_vars PROVE PkgInv'
  OBVIOUS
<1>1. CASE \E c \in Chunks : DataCb(c)
  BY <1>1, DataCbInv
<1>2. CASE Handler
  BY <1>2, SearchInv, PacketInv, PkgCbReturnsInv, DrainedInv, StoredInv,
     KeptInv, MoveBeginInv, MoveInv, MoveDoneInv
  DEF Handler
<1>3. CASE UNCHANGED vars
  BY <1>3 DEF vars, PkgInv, TypeOK, Resting, Searching, Moving, Buf
<1>4. QED
  BY <1>1, <1>2, <1>3 DEF Next

LEMMA PkgInvAlways == Spec => []PkgInv
BY InitPkgInv, PkgInvStep, PTL DEF Spec

\* Between two calls of _pkg_data_cb the buffer holds exactly the bytes that
\* have arrived and belong to no complete packet.
THEOREM BufferHoldsRest == Spec => []BufferIsRest
<1>1. PkgInv => BufferIsRest
  <2> SUFFICES ASSUME PkgInv, pc = "idle"
               PROVE  /\ data = SubSeq(received, taken + 1, Len(received))
                      /\ size = Len(data)
    BY DEF BufferIsRest
  <2>1. /\ Resting /\ data \in Seq(Bytes) /\ received \in Seq(Bytes)
        /\ size \in Nat /\ taken \in Nat
    BY DEF PkgInv, TypeOK
  <2>2. taken + size = Len(received) /\ Len(data) = size
    BY <2>1 DEF Resting
  <2> DEFINE rest == SubSeq(received, taken + 1, taken + size)
  <2>3. /\ rest \in Seq(Bytes) /\ Len(rest) = size
        /\ \A j \in 1 .. size : rest[j] = received[taken + j]
    BY <2>1, <2>2, SubSeqAt
  <2> HIDE DEF rest
  <2>4. \A j \in 1 .. Len(data) : data[j] = rest[j]
    BY <2>1, <2>2, <2>3 DEF Resting
  <2>5. data = rest
    BY <2>1, <2>2, <2>3, <2>4, SeqEqual
  <2>6. QED
    BY <2>2, <2>5 DEF rest
<1>2. QED
  BY <1>1, PkgInvAlways, PTL

-----------------------------------------------------------------------------
\* Each step of the packet reader is a step of the packet stream or changes
\* nothing that can be seen of it.
LEMMA StreamStep ==
  ASSUME PkgInv, [Next]_vars
  PROVE  [Stream!StreamNext]_(Stream!streamVars)
<1>1. CASE \E c \in Chunks : DataCb(c)
  <2>1. PICK c \in Chunks : DataCb(c)
    BY <1>1
  <2>2. /\ pc = "idle" /\ received' = received \o c
        /\ UNCHANGED <<pkgCb, pkg, taken>>
    BY <2>1 DEF DataCb
  <2>3. /\ Resting /\ pkg = << >>
        /\ size \in Nat /\ taken \in Nat /\ taken + size = Len(received)
    BY <2>2 DEF PkgInv, TypeOK, Resting
  <2>4. ASSUME NEW j \in taken + 1 .. Len(received)
        PROVE  received[j] # Sentinel
    <3>1. j - taken \in 1 .. size /\ taken + (j - taken) = j
      BY <2>3
    <3>2. QED
      BY <2>3, <3>1 DEF Resting
  <2>5. Stream!Receive(c)
    BY <2>2, <2>3, <2>4 DEF Stream!Receive
  <2>6. QED
    BY <2>5 DEF Stream!StreamNext
<1>2. CASE Packet
  <2> DEFINE end == taken + i + 1 - pos
  <2>1. /\ pc = "scan" /\ UNCHANGED <<pkgCb, received>>
        /\ pkg' = IF pkgCb THEN SubSeq(Buf, pos + 1, i + 1) ELSE pkg
        /\ pkg = << >>
    BY <1>2 DEF Packet, PkgInv
  <2>2. /\ taken' = end
        /\ end \in taken + 1 .. Len(received)
        /\ received[end] = Sentinel
        /\ \A k \in taken + 1 .. end - 1 : received[k] # Sentinel
        /\ SubSeq(Buf, pos + 1, i + 1) = SubSeq(received, taken + 1, end)
    BY <1>2, PacketCut
  <2> HIDE DEF end
  <2>3. Stream!Complete(end)
    BY <2>2 DEF Stream!Complete
  <2>4. Stream!HandOver
    BY <2>1, <2>2, <2>3 DEF Stream!HandOver
  <2>5. QED
    BY <2>4 DEF Stream!StreamNext
<1>3. CASE PkgCbReturns
  <2>1. Stream!Taken
    BY <1>3 DEF PkgCbReturns, PkgInv, Stream!Taken
  <2>2. QED
    BY <2>1 DEF Stream!StreamNext
<1>4. CASE \/ Search \/ Drained \/ Stored \/ Kept \/ MoveBegin \/ Move \/ MoveDone
           \/ UNCHANGED vars
  <2>1. UNCHANGED <<pkgCb, received, taken, pkg>>
    BY <1>4 DEF Search, Drained, Stored, Kept, MoveBegin, Move, MoveDone, vars
  <2>2. QED
    BY <2>1 DEF Stream!streamVars
<1>5. QED
  BY <1>1, <1>2, <1>3, <1>4 DEF Next, Handler

\* The packet reader implements the packet stream: no byte is lost, repeated,
\* reordered or changed, whatever portions the bytes arrive in.
THEOREM PacketsAreAStream == Spec => ImplementsStream
<1>1. Init => Stream!StreamInit
  BY DEF Init, Stream!StreamInit
<1>2. PkgInv /\ [Next]_vars => [Stream!StreamNext]_(Stream!streamVars)
  BY StreamStep
<1>3. QED
  BY <1>1, <1>2, PkgInvAlways, PTL
  DEF Spec, ImplementsStream, Stream!StreamSpec
=============================================================================
