--------------------------- MODULE MascListLemmas ---------------------------
(***************************************************************************)
(* What the operations of MascList return, for every list.                 *)
(***************************************************************************)
EXTENDS MascList, SequenceTheorems, WellFoundedInduction, TLAPS

LessNat == {ss \in Nat \X Nat : ss[1] < ss[2]}

\* A non-empty set of natural numbers has a least element, and Min finds it.
LEMMA MinOfNats ==
  ASSUME NEW I \in SUBSET Nat, I # {}
  PROVE  Min(I) \in I /\ \A j \in I : Min(I) <= j
<1>1. IsWellFoundedOn(LessNat, Nat)
  BY NatLessThanWellFounded, Zenon DEF OpToRel, LessNat
<1>2. PICK i \in I : \A j \in I : ~(<<j, i>> \in LessNat)
  BY <1>1, WFMin
<1>3. ASSUME NEW j \in I PROVE i <= j
  <2>1. i \in Nat /\ j \in Nat
    OBVIOUS
  <2>2. j < i => <<j, i>> \in LessNat
    BY <2>1 DEF LessNat
  <2>3. QED
    BY <1>2, <2>1, <2>2
<1>4. QED
  BY <1>3 DEF Min

-----------------------------------------------------------------------------
\* The elements of a sequence are the members of its set.
LEMMA ToSetMember ==
  ASSUME NEW S, NEW s \in Seq(S), NEW e
  PROVE  e \in ToSet(s) <=> \E i \in 1 .. Len(s) : s[i] = e
BY LenProperties DEF ToSet

LEMMA InjectiveSeq ==
  ASSUME NEW S, NEW s \in Seq(S)
  PROVE  IsInjective(s) <=> \A i, j \in 1 .. Len(s) : s[i] = s[j] => i = j
BY LenProperties DEF IsInjective

\* RemoveAt closes the gap: what is behind it moves one place to the front.
LEMMA RemoveAtProperties ==
  ASSUME NEW S, NEW s \in Seq(S), NEW k \in 1 .. Len(s)
  PROVE  /\ RemoveAt(s, k) \in Seq(S)
         /\ Len(RemoveAt(s, k)) = Len(s) - 1
         /\ \A j \in 1 .. Len(s) - 1 :
              RemoveAt(s, k)[j] = IF j < k THEN s[j] ELSE s[j + 1]
<1> DEFINE front == SubSeq(s, 1, k - 1)
           back == SubSeq(s, k + 1, Len(s))
<1>1. Len(s) \in Nat /\ k \in Nat
  BY LenProperties
<1>2. \A i \in 1 .. Len(s) : s[i] \in S
  BY ElementOfSeq
<1>3. /\ front \in Seq(S)
      /\ Len(front) = k - 1
      /\ \A i \in 1 .. k - 1 : front[i] = s[i]
  BY <1>1, <1>2, SubSeqProperties
<1>4. /\ back \in Seq(S)
      /\ Len(back) = Len(s) - k
      /\ \A i \in 1 .. Len(s) - k : back[i] = s[k + i]
  BY <1>1, <1>2, SubSeqProperties
<1> HIDE DEF front, back
<1> DEFINE all == front \o back
<1>5. /\ all \in Seq(S)
      /\ Len(all) = Len(front) + Len(back)
      /\ \A j \in 1 .. Len(front) + Len(back) : all[j] =
           IF j <= Len(front) THEN front[j] ELSE back[j - Len(front)]
  BY <1>3, <1>4, ConcatProperties
<1> HIDE DEF all
<1>6. Len(all) = Len(s) - 1
  BY <1>1, <1>3, <1>4, <1>5
<1>7. ASSUME NEW j \in 1 .. Len(s) - 1
      PROVE  all[j] = IF j < k THEN s[j] ELSE s[j + 1]
  <2>1. j \in 1 .. Len(front) + Len(back)
    BY <1>1, <1>3, <1>4
  <2>2. all[j] = IF j <= k - 1 THEN front[j] ELSE back[j - (k - 1)]
    BY <2>1, <1>3, <1>5
  <2>3. CASE j < k
    BY <2>2, <2>3, <1>1, <1>3
  <2>4. CASE j >= k
    <3>1. j - (k - 1) \in 1 .. Len(s) - k /\ k + (j - (k - 1)) = j + 1
      BY <2>4, <1>1
    <3>2. QED
      BY <2>2, <2>4, <3>1, <1>1, <1>4
  <2>5. QED
    BY <2>3, <2>4, <1>1
<1>8. QED
  BY <1>5, <1>6, <1>7 DEF RemoveAt, front, back, all

\* InsertAt opens a gap: what is behind it moves one place to the back.
LEMMA InsertAtProperties ==
  ASSUME NEW S, NEW s \in Seq(S), NEW e \in S, NEW k \in 1 .. Len(s) + 1
  PROVE  /\ InsertAt(s, k, e) \in Seq(S)
         /\ Len(InsertAt(s, k, e)) = Len(s) + 1
         /\ \A j \in 1 .. Len(s) + 1 :
              InsertAt(s, k, e)[j] =
                IF j < k THEN s[j] ELSE IF j = k THEN e ELSE s[j - 1]
<1> DEFINE front == SubSeq(s, 1, k - 1)
           back == SubSeq(s, k, Len(s))
<1>1. Len(s) \in Nat /\ k \in Nat
  BY LenProperties
<1>2. \A i \in 1 .. Len(s) : s[i] \in S
  BY ElementOfSeq
<1>3. /\ front \in Seq(S)
      /\ Len(front) = k - 1
      /\ \A i \in 1 .. k - 1 : front[i] = s[i]
  BY <1>1, <1>2, SubSeqProperties
<1>4. /\ back \in Seq(S)
      /\ Len(back) = Len(s) + 1 - k
      /\ \A i \in 1 .. Len(s) + 1 - k : back[i] = s[k + i - 1]
  BY <1>1, <1>2, SubSeqProperties
<1>5. <<e>> \in Seq(S) /\ Len(<<e>>) = 1 /\ <<e>>[1] = e
  OBVIOUS
<1> HIDE DEF front, back
<1> DEFINE left == front \o <<e>>
<1>6. /\ left \in Seq(S)
      /\ Len(left) = k
      /\ \A j \in 1 .. k : left[j] =
           IF j <= k - 1 THEN front[j] ELSE <<e>>[j - (k - 1)]
  BY <1>1, <1>3, <1>5, ConcatProperties
<1> HIDE DEF left
<1> DEFINE all == left \o back
<1>a. /\ all \in Seq(S)
      /\ Len(all) = Len(left) + Len(back)
      /\ \A j \in 1 .. Len(left) + Len(back) : all[j] =
           IF j <= Len(left) THEN left[j] ELSE back[j - Len(left)]
  BY <1>4, <1>6, ConcatProperties
<1> HIDE DEF all
<1>7. /\ all \in Seq(S)
      /\ Len(all) = Len(s) + 1
      /\ \A j \in 1 .. Len(s) + 1 : all[j] =
           IF j <= k THEN left[j] ELSE back[j - k]
  BY <1>1, <1>4, <1>6, <1>a
<1>8. ASSUME NEW j \in 1 .. Len(s) + 1
      PROVE  all[j] = IF j < k THEN s[j] ELSE IF j = k THEN e ELSE s[j - 1]
  <2>1. CASE j < k
    BY <2>1, <1>1, <1>3, <1>6, <1>7
  <2>2. CASE j = k
    BY <2>2, <1>1, <1>5, <1>6, <1>7
  <2>3. CASE j > k
    <3>1. all[j] = back[j - k]
      BY <2>3, <1>1, <1>7
    <3>2. j - k \in 1 .. Len(s) + 1 - k /\ k + (j - k) - 1 = j - 1
      BY <2>3, <1>1
    <3>3. QED
      BY <2>3, <3>1, <3>2, <1>1, <1>4
  <2>4. QED
    BY <2>1, <2>2, <2>3, <1>1
<1>9. QED
  BY <1>7, <1>8 DEF InsertAt, front, back, left, all

\* The same, place by place: before and behind k, and at k.
LEMMA InsertAtElements ==
  ASSUME NEW S, NEW s \in Seq(S), NEW e \in S, NEW k \in 1 .. Len(s) + 1
  PROVE  /\ InsertAt(s, k, e) \in Seq(S)
         /\ Len(InsertAt(s, k, e)) = Len(s) + 1
         /\ \A i \in 1 .. k - 1 : InsertAt(s, k, e)[i] = s[i]
         /\ \A i \in k + 1 .. Len(s) + 1 : InsertAt(s, k, e)[i] = s[i - 1]
<1> DEFINE t == InsertAt(s, k, e)
<1>1. /\ t \in Seq(S) /\ Len(t) = Len(s) + 1
      /\ \A j \in 1 .. Len(s) + 1 : t[j] = IF j < k THEN s[j] ELSE IF j = k THEN e ELSE s[j - 1]
  BY InsertAtProperties, Z3T(20)
<1>2. k \in Int /\ Len(s) \in Nat
  BY LenProperties
<1> HIDE DEF t
<1>3. /\ \A i \in 1 .. k - 1 : t[i] = s[i]
      /\ \A i \in k + 1 .. Len(s) + 1 : t[i] = s[i - 1]
  BY <1>1, <1>2
<1>4. QED
  BY <1>1, <1>3, Zenon DEF t

LEMMA InsertAtItself ==
  ASSUME NEW S, NEW s \in Seq(S), NEW e \in S, NEW k \in 1 .. Len(s) + 1
  PROVE  InsertAt(s, k, e)[k] = e
<1> DEFINE t == InsertAt(s, k, e)
<1>1. \A j \in 1 .. Len(s) + 1 : t[j] = IF j < k THEN s[j] ELSE IF j = k THEN e ELSE s[j - 1]
  BY InsertAtProperties, Z3T(20)
<1>2. k \in Int
  BY LenProperties
<1> HIDE DEF t
<1>3. t[k] = e
  BY <1>1, <1>2
<1>4. QED
  BY <1>3 DEF t

LEMMA RemoveAtElements ==
  ASSUME NEW S, NEW s \in Seq(S), NEW k \in 1 .. Len(s)
  PROVE  /\ RemoveAt(s, k) \in Seq(S)
         /\ Len(RemoveAt(s, k)) = Len(s) - 1
         /\ \A i \in 1 .. Len(s) - 1 :
              /\ i < k => RemoveAt(s, k)[i] = s[i]
              /\ ~(i < k) => RemoveAt(s, k)[i] = s[i + 1]
<1> DEFINE t == RemoveAt(s, k)
<1>1. /\ t \in Seq(S) /\ Len(t) = Len(s) - 1
      /\ \A i \in 1 .. Len(s) - 1 : t[i] = IF i < k THEN s[i] ELSE s[i + 1]
  BY RemoveAtProperties
<1> HIDE DEF t
<1>2. \A i \in 1 .. Len(s) - 1 : (i < k => t[i] = s[i]) /\ (~(i < k) => t[i] = s[i + 1])
  BY <1>1
<1>3. QED
  BY <1>1, <1>2 DEF t

-----------------------------------------------------------------------------
\* list_remove takes out the first node that holds e, and nothing else.
LEMMA RemoveFirstIsRemoveAt ==
  ASSUME NEW S, NEW s \in Seq(S), NEW e, e \in ToSet(s)
  PROVE  \E k \in 1 .. Len(s) : s[k] = e /\ RemoveFirst(s, e) = RemoveAt(s, k)
<1> DEFINE I == {i \in 1 .. Len(s) : s[i] = e}
<1>1. I \in SUBSET Nat /\ I # {}
  BY ToSetMember, LenProperties
<1>2. Min(I) \in I
  BY <1>1, MinOfNats
<1>3. RemoveFirst(s, e) = RemoveAt(s, Min(I))
  BY <1>1 DEF RemoveFirst, SelectInSeq
<1>4. QED
  BY <1>2, <1>3

LEMMA RemoveFirstAbsent ==
  ASSUME NEW S, NEW s \in Seq(S), NEW e, e \notin ToSet(s)
  PROVE  RemoveFirst(s, e) = s
BY ToSetMember DEF RemoveFirst

\* From a list without duplicates list_remove removes e altogether.
LEMMA RemoveFirstInjective ==
  ASSUME NEW S, NEW s \in Seq(S), IsInjective(s), NEW e
  PROVE  /\ RemoveFirst(s, e) \in Seq(S)
         /\ IsInjective(RemoveFirst(s, e))
         /\ ToSet(RemoveFirst(s, e)) = ToSet(s) \ {e}
<1>1. CASE e \notin ToSet(s)
  BY <1>1, RemoveFirstAbsent
<1>2. CASE e \in ToSet(s)
  <2>1. PICK k \in 1 .. Len(s) : s[k] = e /\ RemoveFirst(s, e) = RemoveAt(s, k)
    BY <1>2, RemoveFirstIsRemoveAt
  <2> DEFINE r == RemoveAt(s, k)
  <2>2. /\ r \in Seq(S)
        /\ Len(r) = Len(s) - 1
        /\ \A j \in 1 .. Len(s) - 1 : r[j] = IF j < k THEN s[j] ELSE s[j + 1]
    BY RemoveAtProperties
  <2>3. Len(s) \in Nat /\ k \in Nat
    BY LenProperties
  <2>4. \A i, j \in 1 .. Len(s) : s[i] = s[j] => i = j
    BY InjectiveSeq
  <2> HIDE DEF r
  <2>5. \A i, j \in 1 .. Len(r) : r[i] = r[j] => i = j
    <3> TAKE i, j \in 1 .. Len(r)
    <3> DEFINE old(n) == IF n < k THEN n ELSE n + 1
    <3>1. old(i) \in 1 .. Len(s) /\ old(j) \in 1 .. Len(s)
      BY <2>2, <2>3
    <3>2. r[i] = s[old(i)] /\ r[j] = s[old(j)]
      BY <2>2, <2>3
    <3>3. old(i) = old(j) => i = j
      BY <2>2, <2>3
    <3> HIDE DEF old
    <3>4. QED
      BY <2>4, <3>1, <3>2, <3>3
  <2>6. ASSUME NEW x \in ToSet(r) PROVE x \in ToSet(s) \ {e}
    <3>1. PICK j \in 1 .. Len(r) : r[j] = x
      BY <2>2, ToSetMember
    <3> DEFINE old == IF j < k THEN j ELSE j + 1
    <3>2. old \in 1 .. Len(s) /\ old # k /\ s[old] = x
      BY <2>2, <2>3, <3>1
    <3> HIDE DEF old
    <3>3. QED
      BY <2>1, <2>4, <3>2, ToSetMember
  <2>7. ASSUME NEW x \in ToSet(s) \ {e} PROVE x \in ToSet(r)
    <3>1. PICK j \in 1 .. Len(s) : s[j] = x
      BY ToSetMember
    <3>2. j # k
      BY <2>1, <3>1
    <3> DEFINE new == IF j < k THEN j ELSE j - 1
    <3>3. new \in 1 .. Len(r)
      BY <2>2, <2>3, <3>2
    <3>4. r[new] = x
      <4>1. CASE j < k
        BY <2>2, <2>3, <3>1, <3>3, <4>1
      <4>2. CASE j > k
        <5>1. (j - 1) + 1 = j /\ new = j - 1 /\ ~(new < k)
          BY <2>3, <4>2
        <5>2. QED
          BY <2>2, <3>1, <3>3, <5>1
      <4>3. QED
        BY <2>3, <3>2, <4>1, <4>2
    <3> HIDE DEF new
    <3>5. QED
      BY <2>2, <3>3, <3>4, ToSetMember
  <2>8. QED
    BY <2>1, <2>2, <2>5, <2>6, <2>7, InjectiveSeq DEF r
<1>3. QED
  BY <1>1, <1>2

-----------------------------------------------------------------------------
\* Inserting an object that is not in the list keeps the list without
\* duplicates, wherever it goes.
LEMMA InsertAtInjective ==
  ASSUME NEW S, NEW s \in Seq(S), IsInjective(s),
         NEW e \in S, e \notin ToSet(s), NEW k \in 1 .. Len(s) + 1
  PROVE  /\ InsertAt(s, k, e) \in Seq(S)
         /\ IsInjective(InsertAt(s, k, e))
         /\ ToSet(InsertAt(s, k, e)) = ToSet(s) \cup {e}
<1>1. Len(s) \in Nat /\ k \in Nat
  BY LenProperties
<1> DEFINE r == InsertAt(s, k, e)
<1>2. /\ r \in Seq(S)
      /\ Len(r) = Len(s) + 1
      /\ \A j \in 1 .. Len(s) + 1 :
           r[j] = IF j < k THEN s[j] ELSE IF j = k THEN e ELSE s[j - 1]
  <2>1. r \in Seq(S)
    BY <1>1, InsertAtProperties
  <2>2. Len(r) = Len(s) + 1
    BY <1>1, InsertAtProperties
  <2>3. \A j \in 1 .. Len(s) + 1 :
          r[j] = IF j < k THEN s[j] ELSE IF j = k THEN e ELSE s[j - 1]
    BY <1>1, InsertAtProperties
  <2>4. QED
    BY <2>1, <2>2, <2>3
<1>3. \A i, j \in 1 .. Len(s) : s[i] = s[j] => i = j
  BY InjectiveSeq
<1>4. \A i \in 1 .. Len(s) : s[i] # e
  BY ToSetMember
<1> HIDE DEF r
<1>5. \A i, j \in 1 .. Len(r) : r[i] = r[j] => i = j
  <2> TAKE i, j \in 1 .. Len(r)
  <2> DEFINE old(n) == IF n < k THEN n ELSE n - 1
  <2>1. \A n \in 1 .. Len(r) : n # k => old(n) \in 1 .. Len(s) /\ r[n] = s[old(n)]
    BY <1>1, <1>2
  <2>2. i # k /\ j # k /\ old(i) = old(j) => i = j
    BY <1>1, <1>2
  <2>3. r[k] = e
    BY <1>1, <1>2
  <2> HIDE DEF old
  <2>4. QED
    BY <1>3, <1>4, <2>1, <2>2, <2>3
<1>6. ASSUME NEW x \in ToSet(r) PROVE x \in ToSet(s) \cup {e}
  <2>1. PICK j \in 1 .. Len(r) : r[j] = x
    BY <1>2, ToSetMember
  <2>2. CASE j = k
    BY <1>1, <1>2, <2>1, <2>2
  <2>3. CASE j # k
    <3> DEFINE old == IF j < k THEN j ELSE j - 1
    <3>1. old \in 1 .. Len(s) /\ s[old] = x
      BY <1>1, <1>2, <2>1, <2>3
    <3> HIDE DEF old
    <3>2. QED
      BY <3>1, ToSetMember
  <2>4. QED
    BY <2>2, <2>3
<1>7. ASSUME NEW x \in ToSet(s) \cup {e} PROVE x \in ToSet(r)
  <2>1. CASE x = e
    <3>1. k \in 1 .. Len(r) /\ r[k] = e
      BY <1>1, <1>2
    <3>2. QED
      BY <1>2, <2>1, <3>1, ToSetMember
  <2>2. CASE x \in ToSet(s)
    <3>1. PICK j \in 1 .. Len(s) : s[j] = x
      BY <2>2, ToSetMember
    <3> DEFINE new == IF j < k THEN j ELSE j + 1
    <3>2. new \in 1 .. Len(r)
      BY <1>1, <1>2
    <3>3. r[new] = x
      <4>1. CASE j < k
        BY <1>1, <1>2, <3>1, <3>2, <4>1
      <4>2. CASE j >= k
        <5>1. new = j + 1 /\ (j + 1) - 1 = j /\ ~(new < k) /\ new # k
          BY <1>1, <4>2
        <5>2. QED
          BY <1>2, <3>1, <3>2, <5>1
      <4>3. QED
        BY <1>1, <4>1, <4>2
    <3> HIDE DEF new
    <3>4. QED
      BY <1>2, <3>2, <3>3, ToSetMember
  <2>3. QED
    BY <2>1, <2>2
<1>8. QED
  BY <1>2, <1>5, <1>6, <1>7, InjectiveSeq DEF r

LEMMA AppendInjectiveSeq ==
  ASSUME NEW S, NEW s \in Seq(S), IsInjective(s), NEW e \in S, e \notin ToSet(s)
  PROVE  /\ Append(s, e) \in Seq(S)
         /\ IsInjective(Append(s, e))
         /\ ToSet(Append(s, e)) = ToSet(s) \cup {e}
<1>1. Len(s) \in Nat
  BY LenProperties
<1>2. SubSeq(s, 1, (Len(s) + 1) - 1) = s
  BY <1>1, SubSeqFull
<1>3. SubSeq(s, Len(s) + 1, Len(s)) = << >>
  BY <1>1, SubSeqEmpty
<1>4. InsertAt(s, Len(s) + 1, e) = Append(s, e)
  <2>1. s \o <<e>> = Append(s, e)
    BY AppendIsConcat
  <2>2. Append(s, e) \o << >> = Append(s, e)
    BY AppendProperties, ConcatEmptySeq
  <2>3. QED
    BY <1>2, <1>3, <2>1, <2>2 DEF InsertAt
<1>5. Len(s) + 1 \in 1 .. Len(s) + 1
  BY <1>1
<1>6. \A k \in 1 .. Len(s) + 1 :
        /\ InsertAt(s, k, e) \in Seq(S)
        /\ IsInjective(InsertAt(s, k, e))
        /\ ToSet(InsertAt(s, k, e)) = ToSet(s) \cup {e}
  BY InsertAtInjective
<1>7. QED
  BY <1>4, <1>5, <1>6

\* Taking the first node off the list.
LEMMA TailInjective ==
  ASSUME NEW S, NEW s \in Seq(S), IsInjective(s), s # << >>
  PROVE  /\ Head(s) \in ToSet(s)
         /\ Tail(s) \in Seq(S)
         /\ IsInjective(Tail(s))
         /\ ToSet(Tail(s)) = ToSet(s) \ {Head(s)}
<1>1. /\ Tail(s) \in Seq(S)
      /\ Len(Tail(s)) = Len(s) - 1
      /\ \A i \in 1 .. Len(Tail(s)) : Tail(s)[i] = s[i + 1]
  BY HeadTailProperties
<1>2. Len(s) \in Nat \ {0}
  BY EmptySeq
<1>3. Head(s) = s[1]
  BY <1>2
<1>4. \A i, j \in 1 .. Len(s) : s[i] = s[j] => i = j
  BY InjectiveSeq
<1>5. \A i, j \in 1 .. Len(Tail(s)) : Tail(s)[i] = Tail(s)[j] => i = j
  BY <1>1, <1>2, <1>4
<1>6. Head(s) \in ToSet(s)
  BY <1>2, <1>3, ToSetMember
<1>7. ASSUME NEW x \in ToSet(Tail(s)) PROVE x \in ToSet(s) \ {Head(s)}
  <2>1. PICK j \in 1 .. Len(Tail(s)) : Tail(s)[j] = x
    BY <1>1, ToSetMember
  <2>2. j + 1 \in 1 .. Len(s) /\ s[j + 1] = x /\ j + 1 # 1
    BY <1>1, <1>2, <2>1
  <2>3. QED
    BY <1>2, <1>3, <1>4, <2>2, ToSetMember
<1>8. ASSUME NEW x \in ToSet(s) \ {Head(s)} PROVE x \in ToSet(Tail(s))
  <2>1. PICK j \in 1 .. Len(s) : s[j] = x
    BY ToSetMember
  <2>2. j - 1 \in 1 .. Len(Tail(s)) /\ Tail(s)[j - 1] = x
    BY <1>1, <1>2, <1>3, <2>1
  <2>3. QED
    BY <1>1, <2>2, ToSetMember
<1>9. QED
  BY <1>1, <1>5, <1>6, <1>7, <1>8, InjectiveSeq

-----------------------------------------------------------------------------
\* The list is in the order of the values that time gives its objects.
InOrder(s, time) ==
  \A i, j \in 1 .. Len(s) : i < j => time[s[i]] <= time[s[j]]

LEMMA RemoveFirstInOrder ==
  ASSUME NEW S, NEW s \in Seq(S), NEW time, InOrder(s, time), NEW e
  PROVE  InOrder(RemoveFirst(s, e), time)
<1>1. CASE e \notin ToSet(s)
  BY <1>1, RemoveFirstAbsent
<1>2. CASE e \in ToSet(s)
  <2>1. PICK k \in 1 .. Len(s) : RemoveFirst(s, e) = RemoveAt(s, k)
    BY <1>2, RemoveFirstIsRemoveAt
  <2>2. Len(s) \in Nat /\ k \in Nat
    BY LenProperties
  <2> DEFINE r == RemoveAt(s, k)
  <2>3. /\ Len(r) = Len(s) - 1
        /\ \A j \in 1 .. Len(s) - 1 : r[j] = IF j < k THEN s[j] ELSE s[j + 1]
    BY <2>2, RemoveAtProperties
  <2> HIDE DEF r
  <2>4. ASSUME NEW i \in 1 .. Len(r), NEW j \in 1 .. Len(r), i < j
        PROVE  time[r[i]] <= time[r[j]]
    <3> DEFINE old(n) == IF n < k THEN n ELSE n + 1
    <3>1. old(i) \in 1 .. Len(s) /\ old(j) \in 1 .. Len(s)
      BY <2>2, <2>3
    <3>2. r[i] = s[old(i)] /\ r[j] = s[old(j)]
      BY <2>2, <2>3
    <3>3. old(i) < old(j)
      BY <2>2, <2>3, <2>4
    <3> HIDE DEF old
    <3>4. QED
      BY <3>1, <3>2, <3>3 DEF InOrder
  <2>5. QED
    BY <2>1, <2>4 DEF InOrder, r
<1>3. QED
  BY <1>1, <1>2

LEMMA TailInOrder ==
  ASSUME NEW S, NEW s \in Seq(S), s # << >>, NEW time, InOrder(s, time)
  PROVE  InOrder(Tail(s), time)
<1>1. /\ Len(s) \in Nat
      /\ Len(Tail(s)) = Len(s) - 1
      /\ \A i \in 1 .. Len(Tail(s)) : Tail(s)[i] = s[i + 1]
  BY HeadTailProperties, LenProperties
<1>2. ASSUME NEW i \in 1 .. Len(Tail(s)), NEW j \in 1 .. Len(Tail(s)), i < j
      PROVE  time[Tail(s)[i]] <= time[Tail(s)[j]]
  <2>1. i + 1 \in 1 .. Len(s) /\ j + 1 \in 1 .. Len(s) /\ i + 1 < j + 1
    BY <1>1, <1>2
  <2>2. QED
    BY <1>1, <2>1 DEF InOrder
<1>3. QED
  BY <1>2 DEF InOrder

\* Only the values of the objects in the list matter.
LEMMA InOrderAgree ==
  ASSUME NEW S, NEW s \in Seq(S), NEW time, NEW other, InOrder(s, time),
         \A x \in ToSet(s) : other[x] = time[x]
  PROVE  InOrder(s, other)
<1>1. \A i \in 1 .. Len(s) : s[i] \in ToSet(s)
  BY ToSetMember
<1>2. QED
  BY <1>1 DEF InOrder

\* list_sort_in: between what is not greater and what is.
LEMMA InsertAtInOrder ==
  ASSUME NEW S, NEW s \in Seq(S), NEW e \in S, NEW time \in [S -> Int],
         InOrder(s, time), NEW k \in 1 .. Len(s) + 1,
         \A i \in 1 .. Len(s) : i < k => time[s[i]] <= time[e],
         \A i \in 1 .. Len(s) : i >= k => time[e] <= time[s[i]]
  PROVE  InOrder(InsertAt(s, k, e), time)
<1>1. Len(s) \in Nat /\ k \in Nat
  BY LenProperties
<1> DEFINE r == InsertAt(s, k, e)
<1>2. /\ Len(r) = Len(s) + 1
      /\ \A j \in 1 .. Len(s) + 1 :
           r[j] = IF j < k THEN s[j] ELSE IF j = k THEN e ELSE s[j - 1]
  BY <1>1, InsertAtProperties
<1> HIDE DEF r
<1>3. ASSUME NEW i \in 1 .. Len(r), NEW j \in 1 .. Len(r), i < j
      PROVE  time[r[i]] <= time[r[j]]
  <2> DEFINE old(n) == IF n < k THEN n ELSE n - 1
  <2>1. \A n \in 1 .. Len(r) :
          n # k => old(n) \in 1 .. Len(s) /\ r[n] = s[old(n)]
    BY <1>1, <1>2
  <2>2. k \in 1 .. Len(r) /\ r[k] = e
    BY <1>1, <1>2
  <2>3. CASE j = k
    <3>1. i # k /\ old(i) < k
      BY <1>1, <1>2, <1>3, <2>3
    <3> HIDE DEF old
    <3>2. QED
      BY <2>1, <2>2, <2>3, <3>1
  <2>4. CASE i = k
    <3>1. j # k /\ old(j) >= k
      BY <1>1, <1>2, <1>3, <2>4
    <3> HIDE DEF old
    <3>2. QED
      BY <2>1, <2>2, <2>4, <3>1
  <2>5. CASE i # k /\ j # k
    <3>1. old(i) < old(j)
      BY <1>1, <1>2, <1>3, <2>5
    <3> HIDE DEF old
    <3>2. QED
      BY <2>1, <2>5, <3>1 DEF InOrder
  <2>6. QED
    BY <2>3, <2>4, <2>5
<1>4. QED
  BY <1>3 DEF InOrder, r
-----------------------------------------------------------------------------
(***************************************************************************)
(* Which of two objects comes first in a list.                             *)
(***************************************************************************)
Precedes(s, x, y) ==
  \E i, j \in 1 .. Len(s) : i < j /\ s[i] = x /\ s[j] = y

LEMMA PrecedesMembers ==
  ASSUME NEW S, NEW s \in Seq(S), NEW x, NEW y, Precedes(s, x, y)
  PROVE  x \in ToSet(s) /\ y \in ToSet(s)
BY ToSetMember DEF Precedes

\* Taking an object out of a list without duplicates keeps the order of the others.
LEMMA RemoveFirstPrecedes ==
  ASSUME NEW S, NEW s \in Seq(S), IsInjective(s), NEW e, NEW x, NEW y
  PROVE  Precedes(RemoveFirst(s, e), x, y) <=>
           Precedes(s, x, y) /\ x # e /\ y # e
<1>1. CASE e \notin ToSet(s)
  BY <1>1, RemoveFirstAbsent, PrecedesMembers
<1>2. CASE e \in ToSet(s)
  <2>1. PICK k \in 1 .. Len(s) : s[k] = e /\ RemoveFirst(s, e) = RemoveAt(s, k)
    BY <1>2, RemoveFirstIsRemoveAt
  <2> DEFINE r == RemoveAt(s, k)
  <2>2. /\ Len(r) = Len(s) - 1
        /\ \A j \in 1 .. Len(s) - 1 : r[j] = IF j < k THEN s[j] ELSE s[j + 1]
    BY RemoveAtProperties
  <2>3. Len(s) \in Nat /\ k \in Nat
    BY LenProperties
  <2>4. \A i, j \in 1 .. Len(s) : s[i] = s[j] => i = j
    BY InjectiveSeq
  <2> HIDE DEF r
  <2>5. ASSUME Precedes(r, x, y)
        PROVE  Precedes(s, x, y) /\ x # e /\ y # e
    <3>1. PICK i, j \in 1 .. Len(r) : i < j /\ r[i] = x /\ r[j] = y
      BY <2>5 DEF Precedes
    <3> DEFINE old(n) == IF n < k THEN n ELSE n + 1
    <3>2. /\ old(i) \in 1 .. Len(s) /\ old(j) \in 1 .. Len(s)
          /\ old(i) < old(j) /\ old(i) # k /\ old(j) # k
      BY <2>2, <2>3, <3>1
    <3>3. s[old(i)] = x /\ s[old(j)] = y
      BY <2>2, <2>3, <3>1
    <3> HIDE DEF old
    <3>4. QED
      BY <2>1, <2>4, <3>2, <3>3 DEF Precedes
  <2>6. ASSUME Precedes(s, x, y), x # e, y # e
        PROVE  Precedes(r, x, y)
    <3>1. PICK i, j \in 1 .. Len(s) : i < j /\ s[i] = x /\ s[j] = y
      BY <2>6 DEF Precedes
    <3>2. i # k /\ j # k
      BY <2>1, <2>6, <3>1
    <3> DEFINE new(n) == IF n < k THEN n ELSE n - 1
    <3>3. /\ new(i) \in 1 .. Len(s) - 1 /\ new(j) \in 1 .. Len(s) - 1
          /\ new(i) < new(j)
          /\ new(i) < k => new(i) = i
          /\ ~(new(i) < k) => new(i) + 1 = i
          /\ new(j) < k => new(j) = j
          /\ ~(new(j) < k) => new(j) + 1 = j
      BY <2>3, <3>1, <3>2
    <3> HIDE DEF new
    <3>4. r[new(i)] = x /\ r[new(j)] = y
      BY <2>2, <3>1, <3>3
    <3>5. QED
      BY <2>2, <3>3, <3>4 DEF Precedes
  <2>7. QED
    BY <2>1, <2>5, <2>6 DEF r
<1>3. QED
  BY <1>1, <1>2

\* What is put at the end is behind all the others.
LEMMA AppendPrecedes ==
  ASSUME NEW S, NEW s \in Seq(S), NEW e \in S, NEW x, NEW y,
         Precedes(s, x, y) \/ (x \in ToSet(s) /\ y = e)
  PROVE  Precedes(Append(s, e), x, y)
<1>1. /\ Len(s) \in Nat
      /\ Len(Append(s, e)) = Len(s) + 1
      /\ \A i \in 1 .. Len(s) : Append(s, e)[i] = s[i]
      /\ Append(s, e)[Len(s) + 1] = e
  BY AppendProperties, LenProperties
<1>2. CASE Precedes(s, x, y)
  <2>1. PICK i, j \in 1 .. Len(s) : i < j /\ s[i] = x /\ s[j] = y
    BY <1>2 DEF Precedes
  <2>2. i \in 1 .. Len(Append(s, e)) /\ j \in 1 .. Len(Append(s, e))
    BY <1>1
  <2>3. QED
    BY <1>1, <2>1, <2>2 DEF Precedes
<1>3. CASE x \in ToSet(s) /\ y = e
  <2>1. PICK i \in 1 .. Len(s) : s[i] = x
    BY <1>3, ToSetMember
  <2>2. /\ i \in 1 .. Len(Append(s, e)) /\ i < Len(s) + 1
        /\ Len(s) + 1 \in 1 .. Len(Append(s, e))
    BY <1>1
  <2>3. QED
    BY <1>1, <1>3, <2>1, <2>2 DEF Precedes
<1>4. QED
  BY <1>2, <1>3

\* What is put into a list is in front of those behind its place only.
LEMMA InsertAtPrecedes ==
  ASSUME NEW S, NEW s \in Seq(S), NEW e \in S, NEW k \in 1 .. Len(s) + 1,
         NEW x, NEW y, Precedes(InsertAt(s, k, e), x, y)
  PROVE  \/ Precedes(s, x, y)
         \/ x = e /\ \E i \in 1 .. Len(s) : i >= k /\ s[i] = y
         \/ y = e /\ x \in ToSet(s)
<1> DEFINE r == InsertAt(s, k, e)
<1>1. /\ Len(r) = Len(s) + 1
      /\ \A j \in 1 .. Len(s) + 1 :
           r[j] = IF j < k THEN s[j] ELSE IF j = k THEN e ELSE s[j - 1]
  BY InsertAtProperties, SMTT(30)
<1>2. Len(s) \in Nat /\ k \in Nat
  BY LenProperties
<1> HIDE DEF r
<1>3. PICK i, j \in 1 .. Len(r) : i < j /\ r[i] = x /\ r[j] = y
  BY DEF Precedes, r
<1> DEFINE old(n) == IF n < k THEN n ELSE n - 1
<1>4. /\ i # k => old(i) \in 1 .. Len(s) /\ s[old(i)] = x
      /\ j # k => old(j) \in 1 .. Len(s) /\ s[old(j)] = y
      /\ i = k => x = e
      /\ j = k => y = e
  BY <1>1, <1>2, <1>3
<1>5. /\ i # k /\ j # k => old(i) < old(j)
      /\ i = k => j # k /\ old(j) >= k
      /\ j = k => i # k
  BY <1>1, <1>2, <1>3
<1> HIDE DEF old
<1>6. CASE i = k
  BY <1>4, <1>5, <1>6
<1>7. CASE j = k
  BY <1>4, <1>5, <1>7, ToSetMember
<1>8. CASE i # k /\ j # k
  BY <1>4, <1>5, <1>8 DEF Precedes
<1>9. QED
  BY <1>6, <1>7, <1>8

LEMMA TailPrecedes ==
  ASSUME NEW S, NEW s \in Seq(S), s # << >>, NEW x, NEW y,
         Precedes(Tail(s), x, y)
  PROVE  Precedes(s, x, y)
<1>1. /\ Len(s) \in Nat
      /\ Len(Tail(s)) = Len(s) - 1
      /\ \A i \in 1 .. Len(Tail(s)) : Tail(s)[i] = s[i + 1]
  BY HeadTailProperties, LenProperties
<1>2. PICK i, j \in 1 .. Len(Tail(s)) : i < j /\ Tail(s)[i] = x /\ Tail(s)[j] = y
  BY DEF Precedes
<1>3. i + 1 \in 1 .. Len(s) /\ j + 1 \in 1 .. Len(s) /\ i + 1 < j + 1
  BY <1>1, <1>2
<1>4. QED
  BY <1>1, <1>2, <1>3 DEF Precedes

\* The first of a list is in front of all others.
LEMMA HeadPrecedes ==
  ASSUME NEW S, NEW s \in Seq(S), NEW y \in ToSet(s), s # << >>, y # Head(s)
  PROVE  Precedes(s, Head(s), y)
<1>1. Len(s) \in Nat /\ 1 \in 1 .. Len(s) /\ s[1] = Head(s)
  BY LenProperties, EmptySeq
<1>2. PICK j \in 1 .. Len(s) : s[j] = y
  BY ToSetMember
<1>3. 1 < j
  BY <1>1, <1>2
<1>4. QED
  BY <1>1, <1>2, <1>3 DEF Precedes
=============================================================================
