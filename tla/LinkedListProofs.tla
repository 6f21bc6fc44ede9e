-------------------------- MODULE LinkedListProofs --------------------------
(* What linking and unlinking an entry do to a list of distinct entries.   *)
EXTENDS LinkedList, SequenceTheorems, TLAPS

LEMMA PlaceOf ==
    ASSUME NEW S, NEW s \in Seq(S), NEW e \in Listed(s)
    PROVE  Place(s, e) \in 1 .. Len(s) /\ s[Place(s, e)] = e
<1>1. \E i \in 1 .. Len(s) : s[i] = e
    BY DEF Listed
<1> QED
    BY <1>1 DEF Place

\* The entry looked up before a callback is another one, or the end.
LEMMA AfterIsNext ==
    ASSUME NEW S, NEW s \in Seq(S), Distinct(s), NEW e \in Listed(s), None \notin S
    PROVE  After(s, e) \in (Listed(s) \ {e}) \cup {None}
<1> DEFINE p == Place(s, e)
<1>1. p \in 1 .. Len(s) /\ s[p] = e /\ Len(s) \in Nat
    BY PlaceOf
<1>2. CASE p = Len(s)
    BY <1>2 DEF After
<1>3. CASE p # Len(s)
    <2>1. p + 1 \in 1 .. Len(s)
        BY <1>1, <1>3
    <2>2. s[p + 1] \in Listed(s) /\ s[p + 1] # e
        BY <2>1, <1>1 DEF Listed, Distinct
    <2> QED
        BY <2>2, <1>3 DEF After
<1> QED
    BY <1>2, <1>3

\* What is left when an entry is removed, place by place.
LEMMA WithoutElements ==
    ASSUME NEW S, NEW s \in Seq(S), NEW e \in Listed(s)
    PROVE  /\ Without(s, e) \in Seq(S)
           /\ Len(Without(s, e)) = Len(s) - 1
           /\ \A i \in 1 .. Len(Without(s, e)) :
                Without(s, e)[i] = IF i < Place(s, e) THEN s[i] ELSE s[i + 1]
<1> DEFINE p == Place(s, e)
           w == Without(s, e)
<1>0. p \in 1 .. Len(s) /\ s[p] = e /\ Len(s) \in Nat
    BY PlaceOf
<1> HIDE DEF p
<1> DEFINE a == SubSeq(s, 1, p - 1)
           b == SubSeq(s, p + 1, Len(s))
<1>1. /\ a \in Seq(S) /\ Len(a) = p - 1
      /\ \A i \in 1 .. Len(a) : a[i] = s[i]
    BY <1>0
<1>2. /\ b \in Seq(S) /\ Len(b) = Len(s) - p
      /\ \A i \in 1 .. Len(b) : b[i] = s[p + i]
    BY <1>0
<1>3. w = a \o b
    BY DEF Without, p
<1> HIDE DEF a, b, w
<1>4. /\ w \in Seq(S) /\ Len(w) = Len(a) + Len(b)
      /\ \A i \in 1 .. Len(w) : w[i] = IF i <= Len(a) THEN a[i] ELSE b[i - Len(a)]
    <2>1. a \in Seq(S) /\ b \in Seq(S)
        BY <1>1, <1>2
    <2> QED
        BY <2>1, <1>3, ConcatProperties
<1>5. ASSUME NEW i \in 1 .. Len(w)
      PROVE  w[i] = IF i < p THEN s[i] ELSE s[i + 1]
    <2>1. CASE i < p
        BY <2>1, <1>1, <1>4, <1>0
    <2>2. CASE ~(i < p)
        <3>1. i - Len(a) \in 1 .. Len(b) /\ ~(i <= Len(a))
            BY <2>2, <1>1, <1>2, <1>4, <1>0
        <3>2. w[i] = b[i - Len(a)] /\ p + (i - Len(a)) = i + 1
            BY <3>1, <1>4, <1>1, <1>0
        <3> QED
            BY <3>1, <3>2, <1>2, <2>2
    <2> QED
        BY <2>1, <2>2
<1> QED
    BY <1>1, <1>2, <1>4, <1>5, <1>0 DEF p, w

\* Removing an entry removes that entry and keeps the others distinct.
LEMMA WithoutOne ==
    ASSUME NEW S, NEW s \in Seq(S), Distinct(s), NEW e \in Listed(s)
    PROVE  /\ Without(s, e) \in Seq(S)
           /\ Listed(Without(s, e)) = Listed(s) \ {e}
           /\ Distinct(Without(s, e))
<1> DEFINE p == Place(s, e)
           w == Without(s, e)
<1>1. p \in 1 .. Len(s) /\ s[p] = e /\ Len(s) \in Nat
    BY PlaceOf
<1> HIDE DEF p
<1>2. /\ w \in Seq(S)
      /\ Len(w) = Len(s) - 1
      /\ \A i \in 1 .. Len(w) : w[i] = IF i < p THEN s[i] ELSE s[i + 1]
    BY WithoutElements DEF p
<1> HIDE DEF w
<1>3. Distinct(w)
    BY <1>1, <1>2, SMTT(30) DEF Distinct
<1>4. ASSUME NEW i \in 1 .. Len(w)
      PROVE  w[i] \in Listed(s) \ {e}
    <2>1. CASE i < p
        BY <2>1, <1>1, <1>2 DEF Listed, Distinct
    <2>2. CASE ~(i < p)
        <3>1. i + 1 \in 1 .. Len(s) /\ i + 1 # p
            BY <2>2, <1>1, <1>2
        <3> QED
            BY <2>2, <3>1, <1>1, <1>2 DEF Listed, Distinct
    <2> QED
        BY <2>1, <2>2
<1>5. ASSUME NEW j \in 1 .. Len(s), s[j] # e
      PROVE  s[j] \in Listed(w)
    <2>1. CASE j < p
        BY <2>1, <1>1, <1>2 DEF Listed
    <2>2. CASE j > p
        <3>1. j - 1 \in 1 .. Len(w) /\ ~(j - 1 < p) /\ w[j - 1] = s[j]
            BY <2>2, <1>1, <1>2
        <3> QED
            BY <3>1 DEF Listed
    <2> QED
        BY <2>1, <2>2, <1>5, <1>1
<1>6. Listed(w) = Listed(s) \ {e}
    BY <1>4, <1>5 DEF Listed
<1> QED
    BY <1>2, <1>3, <1>6 DEF w

\* Linking a new entry at either end adds that entry and keeps the others distinct.
LEMMA AddLastOne ==
    ASSUME NEW S, NEW s \in Seq(S), NEW e \in S, Distinct(s), e \notin Listed(s)
    PROVE  /\ AddLast(s, e) \in Seq(S)
           /\ Listed(AddLast(s, e)) = Listed(s) \cup {e}
           /\ Distinct(AddLast(s, e))
<1> DEFINE a == AddLast(s, e)
<1>1. /\ a \in Seq(S) /\ Len(s) \in Nat /\ Len(a) = Len(s) + 1
      /\ \A i \in 1 .. Len(s) : a[i] = s[i]
      /\ a[Len(s) + 1] = e
    BY AppendProperties DEF AddLast
<1> HIDE DEF a
<1>2. Listed(a) = Listed(s) \cup {e}
    BY <1>1 DEF Listed
<1>3. Distinct(a)
    BY <1>1 DEF Listed, Distinct
<1> QED
    BY <1>1, <1>2, <1>3 DEF a

LEMMA AddFirstOne ==
    ASSUME NEW S, NEW s \in Seq(S), NEW e \in S, Distinct(s), e \notin Listed(s)
    PROVE  /\ AddFirst(s, e) \in Seq(S)
           /\ Listed(AddFirst(s, e)) = Listed(s) \cup {e}
           /\ Distinct(AddFirst(s, e))
<1> DEFINE a == AddFirst(s, e)
<1>1. /\ a \in Seq(S) /\ Len(s) \in Nat /\ Len(a) = Len(s) + 1
      /\ a[1] = e
      /\ \A i \in 1 .. Len(s) : a[i + 1] = s[i]
    <2>1. <<e>> \in Seq(S) /\ Len(<<e>>) = 1 /\ <<e>>[1] = e
        OBVIOUS
    <2>2. Len(s) \in Nat
        BY LenProperties
    <2> QED
        BY <2>1, <2>2, ConcatProperties DEF AddFirst
<1> HIDE DEF a
<1>2. Listed(a) = Listed(s) \cup {e}
    <2>1. \A i \in 1 .. Len(a) : a[i] \in Listed(s) \cup {e}
        <3> SUFFICES ASSUME NEW i \in 1 .. Len(a), i # 1
                     PROVE  a[i] \in Listed(s)
            BY <1>1
        <3>1. i - 1 \in 1 .. Len(s) /\ i = (i - 1) + 1
            BY <1>1
        <3> QED
            BY <3>1, <1>1 DEF Listed
    <2>2. \A x \in Listed(s) \cup {e} : \E i \in 1 .. Len(a) : a[i] = x
        BY <1>1 DEF Listed
    <2> QED
        BY <2>1, <2>2 DEF Listed
<1>3. ASSUME NEW i \in 1 .. Len(a), NEW j \in 1 .. Len(a), a[i] = a[j]
      PROVE  i = j
    <2>1. CASE i = 1 /\ j = 1
        BY <2>1
    <2>2. CASE i # 1 /\ j # 1
        <3>1. /\ i - 1 \in 1 .. Len(s) /\ j - 1 \in 1 .. Len(s)
              /\ i = (i - 1) + 1 /\ j = (j - 1) + 1
            BY <2>2, <1>1
        <3>2. s[i - 1] = a[i] /\ s[j - 1] = a[j]
            BY <3>1, <1>1
        <3>3. i - 1 = j - 1
            BY <3>1, <3>2, <1>3 DEF Distinct
        <3> QED
            BY <3>1, <3>3
    <2>3. ASSUME NEW k \in 1 .. Len(a), k # 1
          PROVE  a[k] \in Listed(s)
        <3>1. k - 1 \in 1 .. Len(s) /\ k = (k - 1) + 1
            BY <2>3, <1>1
        <3> QED
            BY <3>1, <1>1 DEF Listed
    <2> QED
        BY <2>1, <2>2, <2>3, <1>1, <1>3
<1> QED
    BY <1>1, <1>2, <1>3 DEF a, Distinct
-----------------------------------------------------------------------------
(* The order of the entries.                                               *)

\* Each entry is in one place.
LEMMA PlaceIsIndex ==
    ASSUME NEW S, NEW s \in Seq(S), Distinct(s), NEW i \in 1 .. Len(s)
    PROVE  Place(s, s[i]) = i
<1>1. s[i] \in Listed(s)
    BY DEF Listed
<1>2. Place(s, s[i]) \in 1 .. Len(s) /\ s[Place(s, s[i])] = s[i]
    BY <1>1, PlaceOf
<1> QED
    BY <1>2 DEF Distinct

\* The entry after e is one place further; the end comes after the last one.
LEMMA PlaceAfter ==
    ASSUME NEW S, NEW s \in Seq(S), Distinct(s), NEW e \in Listed(s), None \notin S
    PROVE  IF After(s, e) = None THEN Place(s, e) = Len(s)
                                 ELSE Place(s, After(s, e)) = Place(s, e) + 1
<1> DEFINE p == Place(s, e)
<1>1. p \in 1 .. Len(s) /\ Len(s) \in Nat
    BY PlaceOf
<1>2. CASE p = Len(s)
    BY <1>2 DEF After
<1>3. CASE p # Len(s)
    <2>1. p + 1 \in 1 .. Len(s)
        BY <1>1, <1>3
    <2>2. Place(s, s[p + 1]) = p + 1
        BY <2>1, PlaceIsIndex
    <2>3. After(s, e) = s[p + 1] /\ s[p + 1] \in S
        BY <1>3, <2>1, ElementOfSeq DEF After
    <2> QED
        BY <2>2, <2>3
<1> QED
    BY <1>2, <1>3

\* Removing an entry keeps the others in their order.
LEMMA WithoutKeepsOrder ==
    ASSUME NEW S, NEW s \in Seq(S), Distinct(s), NEW e \in Listed(s),
           NEW x \in Listed(Without(s, e)), NEW y \in Listed(Without(s, e)),
           Place(Without(s, e), x) < Place(Without(s, e), y)
    PROVE  Place(s, x) < Place(s, y)
<1> DEFINE w == Without(s, e)
           p == Place(s, e)
           i == Place(w, x)
           j == Place(w, y)
           was(k) == IF k < p THEN k ELSE k + 1
<1>1. /\ w \in Seq(S) /\ Len(w) = Len(s) - 1
      /\ \A k \in 1 .. Len(w) : w[k] = IF k < p THEN s[k] ELSE s[k + 1]
    BY WithoutElements
<1>2. p \in 1 .. Len(s) /\ Len(s) \in Nat
    BY PlaceOf
<1>3. i \in 1 .. Len(w) /\ w[i] = x /\ j \in 1 .. Len(w) /\ w[j] = y
    BY <1>1, PlaceOf
<1>4. i < j
    OBVIOUS
<1> HIDE DEF w, p, i, j
<1>5. \A k \in 1 .. Len(w) : was(k) \in 1 .. Len(s) /\ w[k] = s[was(k)]
    BY <1>1, <1>2
<1>6. was(i) < was(j)
    BY <1>1, <1>2, <1>3, <1>4
<1> HIDE DEF was
<1>7. Place(s, s[was(i)]) = was(i) /\ Place(s, s[was(j)]) = was(j)
    BY <1>3, <1>5, PlaceIsIndex
<1> QED
    BY <1>3, <1>5, <1>6, <1>7

\* Linking a new entry at the end leaves the others where they are.
LEMMA AddLastKeepsPlaces ==
    ASSUME NEW S, NEW s \in Seq(S), NEW e \in S, Distinct(s), e \notin Listed(s),
           NEW x \in Listed(s)
    PROVE  Place(AddLast(s, e), x) = Place(s, x)
<1> DEFINE a == AddLast(s, e)
           i == Place(s, x)
<1>1. i \in 1 .. Len(s) /\ s[i] = x /\ Len(s) \in Nat
    BY PlaceOf
<1>2. a \in Seq(S) /\ Distinct(a)
    BY AddLastOne
<1>3. Len(a) = Len(s) + 1 /\ \A k \in 1 .. Len(s) : a[k] = s[k]
    BY AppendProperties DEF AddLast
<1> HIDE DEF a, i
<1>4. i \in 1 .. Len(a) /\ a[i] = x
    BY <1>1, <1>3
<1>5. Place(a, a[i]) = i
    BY <1>2, <1>4, PlaceIsIndex
<1> QED
    BY <1>4, <1>5 DEF a, i
=============================================================================
