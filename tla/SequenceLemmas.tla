--------------------------- MODULE SequenceLemmas ---------------------------
(***************************************************************************)
(* What the operators on sequences do that the models use for Python's     *)
(* lists: append, remove, in, and the order in which two elements stand.   *)
(***************************************************************************)
EXTENDS SequencesExt, SequenceTheorems, Integers, TLAPS

\* a stands before b.
Before(s, a, b) == \E k, l \in 1 .. Len(s) : k < l /\ s[k] = a /\ s[l] = b

LEMMA RemoveAtProperties ==
    ASSUME NEW S, NEW s \in Seq(S), NEW i \in 1 .. Len(s)
    PROVE  /\ RemoveAt(s, i) \in Seq(S)
           /\ Len(RemoveAt(s, i)) = Len(s) - 1
           /\ \A j \in 1 .. Len(s) - 1 : RemoveAt(s, i)[j] = s[IF j < i THEN j ELSE j + 1]
<1> DEFINE s1 == SubSeq(s, 1, i - 1)
           s2 == SubSeq(s, i + 1, Len(s))
<1>0. Len(s) \in Nat /\ \A j \in 1 .. Len(s) : s[j] \in S
  BY ElementOfSeq, LenProperties
<1>1. /\ s1 \in Seq(S) /\ Len(s1) = i - 1
      /\ \A j \in 1 .. i - 1 : s1[j] = s[j]
  BY <1>0, SubSeqProperties
<1>2. /\ s2 \in Seq(S) /\ Len(s2) = Len(s) - i
      /\ \A j \in 1 .. Len(s) - i : s2[j] = s[j + i]
  BY <1>0, SubSeqProperties
<1> HIDE DEF s1, s2
<1>3. /\ s1 \o s2 \in Seq(S)
      /\ Len(s1 \o s2) = Len(s) - 1
      /\ \A j \in 1 .. Len(s) - 1 :
            (s1 \o s2)[j] = IF j <= i - 1 THEN s1[j] ELSE s2[j - (i - 1)]
  <2>1. s1 \o s2 \in Seq(S) /\ Len(s1 \o s2) = Len(s1) + Len(s2)
    BY <1>1, <1>2, ConcatProperties
  <2>2. \A j \in 1 .. Len(s1) + Len(s2) :
            (s1 \o s2)[j] = IF j <= Len(s1) THEN s1[j] ELSE s2[j - Len(s1)]
    BY <1>1, <1>2, ConcatProperties
  <2>3. Len(s1) = i - 1 /\ Len(s1) + Len(s2) = Len(s) - 1
    BY <1>0, <1>1, <1>2
  <2> QED BY <2>1, <2>2, <2>3
<1>4. RemoveAt(s, i) = s1 \o s2
  BY DEF RemoveAt, s1, s2
<1>5. ASSUME NEW j \in 1 .. Len(s) - 1
      PROVE  (s1 \o s2)[j] = s[IF j < i THEN j ELSE j + 1]
  BY <1>0, <1>1, <1>2, <1>3
<1> QED BY <1>3, <1>4, <1>5

\* What occurs once is what RemoveFirst takes.
LEMMA RemoveFirstProperties ==
    ASSUME NEW S, NEW s \in Seq(S), IsInjective(s), NEW e
    PROVE  /\ RemoveFirst(s, e) \in Seq(S) /\ IsInjective(RemoveFirst(s, e))
           /\ \A d : Contains(RemoveFirst(s, e), d) <=> d /= e /\ Contains(s, d)
<1>1. CASE ~ \E i \in 1 .. Len(s) : s[i] = e
  <2>1. RemoveFirst(s, e) = s
    BY <1>1 DEF RemoveFirst
  <2> QED BY <1>1, <2>1 DEF Contains
<1>2. CASE \E i \in 1 .. Len(s) : s[i] = e
  <2>1. PICK i \in 1 .. Len(s) : s[i] = e
    BY <1>2
  <2>2. {j \in 1 .. Len(s) : s[j] = e} = {i}
    BY <2>1, LenProperties DEF IsInjective
  <2>3. Min({i}) = i
    BY DEF Min
  <2>4. RemoveFirst(s, e) = RemoveAt(s, i)
    BY <1>2, <2>2, <2>3 DEF RemoveFirst, SelectInSeq
  <2> DEFINE t == RemoveAt(s, i)
  <2>5. /\ t \in Seq(S) /\ Len(t) = Len(s) - 1 /\ Len(s) \in Nat
        /\ \A j \in 1 .. Len(s) - 1 : t[j] = s[IF j < i THEN j ELSE j + 1]
    BY RemoveAtProperties, LenProperties
  <2>6. DOMAIN t = 1 .. Len(s) - 1 /\ DOMAIN s = 1 .. Len(s)
    BY <2>5, LenProperties
  <2> HIDE DEF t
  <2>7. IsInjective(t)
    <3> SUFFICES ASSUME NEW j \in 1 .. Len(s) - 1, NEW k \in 1 .. Len(s) - 1, t[j] = t[k]
                 PROVE  j = k
      BY <2>6 DEF IsInjective
    <3> DEFINE p == IF j < i THEN j ELSE j + 1
               q == IF k < i THEN k ELSE k + 1
    <3>1. p \in 1 .. Len(s) /\ q \in 1 .. Len(s) /\ (p = q => j = k)
      BY <2>5
    <3>2. t[j] = s[p] /\ t[k] = s[q]
      BY <2>5
    <3> HIDE DEF p, q
    <3>3. p = q
      BY <2>6, <3>1, <3>2 DEF IsInjective
    <3> QED BY <3>1, <3>3
  <2>8. ASSUME NEW d PROVE Contains(t, d) <=> d /= e /\ Contains(s, d)
    <3>1. ASSUME NEW j \in 1 .. Len(t), t[j] = d PROVE d /= e /\ Contains(s, d)
      <4>1. PICK k \in 1 .. Len(s) : k /= i /\ s[k] = d
        <5>1. CASE j < i
          <6>1. j \in 1 .. Len(s) /\ j /= i /\ s[j] = d
            BY <2>5, <3>1, <5>1
          <6> QED BY <6>1
        <5>2. CASE ~(j < i)
          <6>1. j + 1 \in 1 .. Len(s) /\ j + 1 /= i /\ s[j + 1] = d
            BY <2>5, <3>1, <5>2
          <6> QED BY <6>1
        <5> QED BY <5>1, <5>2
      <4> QED BY <2>1, <2>6, <4>1 DEF Contains, IsInjective
    <3>2. ASSUME d /= e, NEW j \in 1 .. Len(s), s[j] = d PROVE Contains(t, d)
      <4>1. CASE j < i
        BY <2>5, <3>2, <4>1 DEF Contains
      <4>2. CASE j > i
        <5>1. j - 1 \in 1 .. Len(t) /\ t[j - 1] = d
          BY <2>5, <3>2, <4>2
        <5> QED BY <5>1 DEF Contains
      <4> QED BY <2>1, <3>2, <4>1, <4>2
    <3> QED BY <3>1, <3>2 DEF Contains
  <2> QED BY <2>4, <2>5, <2>7, <2>8 DEF t
<1> QED BY <1>1, <1>2

LEMMA AppendContains ==
    ASSUME NEW S, NEW s \in Seq(S), NEW e \in S
    PROVE  \A d : Contains(Append(s, e), d) <=> d = e \/ Contains(s, d)
BY AppendProperties, LenProperties DEF Contains

LEMMA ToSetContains ==
    ASSUME NEW S, NEW s \in Seq(S)
    PROVE  \A e : e \in ToSet(s) <=> Contains(s, e)
BY LenProperties DEF ToSet, Contains

LEMMA AppendKeepsInjective ==
    ASSUME NEW S, NEW s \in Seq(S), IsInjective(s), NEW e \in S, ~Contains(s, e)
    PROVE  IsInjective(Append(s, e))
<1> DEFINE t == Append(s, e)
<1>1. /\ Len(s) \in Nat /\ DOMAIN t = 1 .. Len(s) + 1 /\ DOMAIN s = 1 .. Len(s)
      /\ \A i \in 1 .. Len(s) : t[i] = s[i]
      /\ t[Len(s) + 1] = e
  BY AppendProperties, LenProperties
<1>2. \A i \in 1 .. Len(s) : s[i] /= e
  BY DEF Contains
<1> HIDE DEF t
<1>3. IsInjective(t)
  BY <1>1, <1>2 DEF IsInjective
<1> QED BY <1>3 DEF t

LEMMA AppendBefore ==
    ASSUME NEW S, NEW s \in Seq(S), NEW e \in S
    PROVE  \A a, b : \/ Before(s, a, b)
                     \/ Contains(s, a) /\ b = e
                    => Before(Append(s, e), a, b)
<1>1. /\ Len(s) \in Nat /\ Len(Append(s, e)) = Len(s) + 1
      /\ \A i \in 1 .. Len(s) : Append(s, e)[i] = s[i]
      /\ Append(s, e)[Len(s) + 1] = e
  BY AppendProperties, LenProperties
<1>2. ASSUME NEW a, NEW b, Before(s, a, b) PROVE Before(Append(s, e), a, b)
  BY <1>1, <1>2 DEF Before
<1>3. ASSUME NEW a, Contains(s, a) PROVE Before(Append(s, e), a, e)
  <2>1. PICK i \in 1 .. Len(s) : s[i] = a
    BY <1>3 DEF Contains
  <2>2. i \in 1 .. Len(s) + 1 /\ Len(s) + 1 \in 1 .. Len(s) + 1 /\ i < Len(s) + 1
    BY <1>1, <2>1
  <2> QED BY <1>1, <2>1, <2>2 DEF Before
<1> QED BY <1>2, <1>3

\* Removing an element leaves the order of the others.
LEMMA RemoveFirstBefore ==
    ASSUME NEW S, NEW s \in Seq(S), IsInjective(s), NEW e
    PROVE  \A a, b : a /= e /\ b /= e /\ Before(s, a, b) => Before(RemoveFirst(s, e), a, b)
<1>0. SUFFICES ASSUME NEW a, NEW b, a /= e, b /= e, Before(s, a, b)
               PROVE  Before(RemoveFirst(s, e), a, b)
  OBVIOUS
<1>1. CASE ~ \E i \in 1 .. Len(s) : s[i] = e
  BY <1>0, <1>1 DEF RemoveFirst
<1>2. CASE \E i \in 1 .. Len(s) : s[i] = e
  <2>1. PICK i \in 1 .. Len(s) : s[i] = e
    BY <1>2
  <2>2. {j \in 1 .. Len(s) : s[j] = e} = {i}
    BY <2>1, LenProperties DEF IsInjective
  <2>3. Min({i}) = i
    BY DEF Min
  <2>4. RemoveFirst(s, e) = RemoveAt(s, i)
    BY <1>2, <2>2, <2>3 DEF RemoveFirst, SelectInSeq
  <2> DEFINE t == RemoveAt(s, i)
  <2>5. /\ Len(t) = Len(s) - 1 /\ Len(s) \in Nat
        /\ \A j \in 1 .. Len(s) - 1 : t[j] = s[IF j < i THEN j ELSE j + 1]
    BY RemoveAtProperties, LenProperties
  <2> HIDE DEF t
  <2>6. PICK k, l \in 1 .. Len(s) : k < l /\ s[k] = a /\ s[l] = b
    BY <1>0 DEF Before
  <2>7. k /= i /\ l /= i
    BY <1>0, <2>1, <2>6
  <2> DEFINE Shift(j) == IF j < i THEN j ELSE j - 1
  <2>8. /\ Shift(k) \in 1 .. Len(s) - 1 /\ Shift(l) \in 1 .. Len(s) - 1
        /\ Shift(k) < Shift(l)
    BY <2>1, <2>5, <2>6, <2>7
  <2>9. t[Shift(k)] = a /\ t[Shift(l)] = b
    <3>1. ASSUME NEW j \in 1 .. Len(s), j /= i, Shift(j) \in 1 .. Len(s) - 1
          PROVE  t[Shift(j)] = s[j]
      <4>1. j < i => Shift(j) = j
        OBVIOUS
      <4>2. j > i => Shift(j) = j - 1 /\ ~(j - 1 < i) /\ j - 1 + 1 = j
        OBVIOUS
      <4>3. t[Shift(j)] = s[IF Shift(j) < i THEN Shift(j) ELSE Shift(j) + 1]
        BY <2>5, <3>1
      <4> HIDE DEF Shift
      <4>4. CASE j < i
        BY <4>1, <4>3, <4>4
      <4>5. CASE j > i
        BY <4>2, <4>3, <4>5
      <4> QED BY <3>1, <4>4, <4>5
    <3> QED BY <2>6, <2>7, <2>8, <3>1
  <2> HIDE DEF Shift
  <2>10. Before(t, a, b)
    BY <2>5, <2>8, <2>9 DEF Before
  <2> QED BY <2>4, <2>10 DEF t
<1> QED BY <1>1, <1>2

\* What is left when the head is taken off.
LEMMA TailProperties ==
    ASSUME NEW S, NEW s \in Seq(S), s /= <<>>
    PROVE  /\ Head(s) \in S /\ Head(s) = s[1] /\ Tail(s) \in Seq(S)
           /\ Len(s) \in Nat \ {0} /\ Len(Tail(s)) = Len(s) - 1
           /\ \A i \in 1 .. Len(s) - 1 : Tail(s)[i] = s[i + 1]
BY HeadTailProperties, EmptySeq, LenProperties, ElementOfSeq
============================================================================
