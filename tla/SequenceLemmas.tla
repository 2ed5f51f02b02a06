--------------------------- MODULE SequenceLemmas ---------------------------
(***************************************************************************)
(* What the list operations of the kernel do to the elements of a list     *)
(* and to the absence of duplicates, for the proofs about the modules that *)
(* use them.  A list without duplicates is an injective sequence.          *)
(***************************************************************************)
EXTENDS Integers, Sequences, SequencesExt, SequenceTheorems,
        WellFoundedInduction, TLAPS

\* List_detach of the first item: the others stay, once each.
LEMMA TailElements ==
  ASSUME NEW S, NEW s \in Seq(S), s # <<>>
  PROVE  /\ Head(s) \in Range(s)
         /\ Range(Tail(s)) \subseteq Range(s)
         /\ Range(s) = Range(Tail(s)) \cup {Head(s)}
         /\ IsInjective(s) => /\ IsInjective(Tail(s))
                              /\ Head(s) \notin Range(Tail(s))
<1>1. /\ Len(s) \in Nat \ {0} /\ DOMAIN s = 1..Len(s)
      /\ Tail(s) \in Seq(S) /\ Len(Tail(s)) = Len(s) - 1
      /\ DOMAIN Tail(s) = 1..Len(s) - 1
      /\ \A i \in 1..Len(s) - 1 : Tail(s)[i] = s[i + 1]
      /\ Head(s) = s[1]
  BY HeadTailProperties, LenProperties, EmptySeq
<1>2. \A i \in 2..Len(s) : i - 1 \in DOMAIN Tail(s) /\ Tail(s)[i - 1] = s[i]
  BY <1>1
<1>3. \A i \in DOMAIN s : i = 1 \/ i \in 2..Len(s)
  BY <1>1
<1>4. Range(Tail(s)) \subseteq Range(s)
  BY <1>1 DEF Range
<1>5. Head(s) \in Range(s)
  BY <1>1 DEF Range
<1>6. Range(s) \subseteq Range(Tail(s)) \cup {Head(s)}
  <2> SUFFICES ASSUME NEW i \in DOMAIN s, s[i] # Head(s)
               PROVE  s[i] \in Range(Tail(s))
    BY DEF Range
  <2>1. i \in 2..Len(s)
    BY <1>1, <1>3
  <2>2. i - 1 \in DOMAIN Tail(s) /\ Tail(s)[i - 1] = s[i]
    BY <1>2, <2>1
  <2> QED
    BY <2>2 DEF Range
<1>7. IsInjective(s) => IsInjective(Tail(s)) /\ Head(s) \notin Range(Tail(s))
  BY <1>1 DEF Range, IsInjective
<1> QED
  BY <1>4, <1>5, <1>6, <1>7

\* List_insert after the last item.
LEMMA AppendElements ==
  ASSUME NEW S, NEW s \in Seq(S), NEW e \in S
  PROVE  /\ Range(Append(s, e)) = Range(s) \cup {e}
         /\ IsInjective(s) /\ e \notin Range(s) => IsInjective(Append(s, e))
<1>1. /\ Len(s) \in Nat /\ DOMAIN s = 1..Len(s)
      /\ Append(s, e) \in Seq(S)
      /\ DOMAIN Append(s, e) = 1..Len(s) + 1
      /\ \A i \in 1..Len(s) : Append(s, e)[i] = s[i]
      /\ Append(s, e)[Len(s) + 1] = e
  BY AppendProperties, LenProperties
<1>2. DOMAIN Append(s, e) = DOMAIN s \cup {Len(s) + 1}
  BY <1>1
<1>3. Range(Append(s, e)) = Range(s) \cup {e}
  BY <1>1, <1>2 DEF Range
<1>4. IsInjective(s) /\ e \notin Range(s) => IsInjective(Append(s, e))
  BY <1>1, <1>2 DEF Range, IsInjective
<1> QED
  BY <1>3, <1>4

\* Concatenation: no duplicates if there are none in either part nor across.
LEMMA ConcatElements ==
  ASSUME NEW S, NEW s \in Seq(S), NEW t \in Seq(S)
  PROVE  /\ Range(s \o t) = Range(s) \cup Range(t)
         /\ IsInjective(s) /\ IsInjective(t) /\ Range(s) \cap Range(t) = {}
              => IsInjective(s \o t)
<1>1. /\ Len(s) \in Nat /\ DOMAIN s = 1..Len(s)
      /\ Len(t) \in Nat /\ DOMAIN t = 1..Len(t)
      /\ s \o t \in Seq(S) /\ DOMAIN (s \o t) = 1..Len(s) + Len(t)
      /\ \A i \in 1..Len(s) + Len(t) :
           (s \o t)[i] = IF i <= Len(s) THEN s[i] ELSE t[i - Len(s)]
  BY ConcatProperties, LenProperties
<1>2. Range(s \o t) = Range(s) \cup Range(t)
  BY RangeConcatenation
<1>3. ASSUME IsInjective(s), IsInjective(t), Range(s) \cap Range(t) = {},
             NEW i \in 1..Len(s) + Len(t), NEW j \in 1..Len(s) + Len(t),
             (s \o t)[i] = (s \o t)[j]
      PROVE  i = j
  <2>1. \A k \in 1..Len(s) : s[k] \in Range(s)
    BY <1>1 DEF Range
  <2>2. \A k \in 1..Len(t) : t[k] \in Range(t)
    BY <1>1 DEF Range
  <2>3. \A k \in 1..Len(s) + Len(t) : k <= Len(s) => k \in 1..Len(s)
    BY <1>1
  <2>4. \A k \in 1..Len(s) + Len(t) : ~(k <= Len(s)) => k - Len(s) \in 1..Len(t)
    BY <1>1
  <2>5. CASE i <= Len(s) /\ j <= Len(s)
    BY <1>1, <1>3, <2>3, <2>5 DEF IsInjective
  <2>6. CASE ~(i <= Len(s)) /\ ~(j <= Len(s))
    BY <1>1, <1>3, <2>4, <2>6 DEF IsInjective
  <2>7. CASE i <= Len(s) /\ ~(j <= Len(s))
    BY <1>1, <1>3, <2>1, <2>2, <2>3, <2>4, <2>7
  <2>8. CASE ~(i <= Len(s)) /\ j <= Len(s)
    BY <1>1, <1>3, <2>1, <2>2, <2>3, <2>4, <2>8
  <2> QED
    BY <2>5, <2>6, <2>7, <2>8
<1> QED
  BY <1>1, <1>2, <1>3 DEF IsInjective

\* Where the elements of the two parts are.
LEMMA Joined ==
  ASSUME NEW S, NEW s \in Seq(S), NEW t \in Seq(S)
  PROVE  /\ s \o t \in Seq(S) /\ Len(s \o t) = Len(s) + Len(t)
         /\ \A k \in 1..Len(s) : (s \o t)[k] = s[k]
         /\ \A k \in 1..Len(t) : (s \o t)[Len(s) + k] = t[k]
<1>1. /\ s \o t \in Seq(S) /\ Len(s) \in Nat /\ Len(t) \in Nat
      /\ Len(s \o t) = Len(s) + Len(t)
      /\ \A i \in 1..Len(s) + Len(t) :
           (s \o t)[i] = IF i <= Len(s) THEN s[i] ELSE t[i - Len(s)]
  BY ConcatProperties, LenProperties
<1>2. \A k \in 1..Len(t) : /\ Len(s) + k \in 1..Len(s) + Len(t) /\ ~(Len(s) + k <= Len(s))
                           /\ (Len(s) + k) - Len(s) = k
  BY <1>1
<1>3. \A k \in 1..Len(s) : (s \o t)[k] = s[k]
  BY <1>1
<1>4. \A k \in 1..Len(t) : (s \o t)[Len(s) + k] = t[k]
  BY <1>1, <1>2
<1> QED
  BY <1>1, <1>3, <1>4

\* List_insert before the first item.
LEMMA ConsElements ==
  ASSUME NEW S, NEW s \in Seq(S), NEW e \in S
  PROVE  /\ <<e>> \o s \in Seq(S)
         /\ Range(<<e>> \o s) = Range(s) \cup {e}
         /\ IsInjective(s) /\ e \notin Range(s) => IsInjective(<<e>> \o s)
<1>1. <<e>> \in Seq(S) /\ IsInjective(<<e>>) /\ Range(<<e>>) = {e}
  BY DEF IsInjective, Range
<1>2. <<e>> \o s \in Seq(S)
  BY <1>1, ConcatProperties
<1>3. /\ Range(<<e>> \o s) = Range(<<e>>) \cup Range(s)
      /\ IsInjective(<<e>>) /\ IsInjective(s) /\ Range(<<e>>) \cap Range(s) = {}
           => IsInjective(<<e>> \o s)
  BY <1>1, ConcatElements
<1> QED
  BY <1>1, <1>2, <1>3

\* The items from m to n of a list.
LEMMA SubSeqElements ==
  ASSUME NEW S, NEW s \in Seq(S), NEW m \in Int, NEW n \in Int, 1 <= m, n <= Len(s)
  PROVE  /\ SubSeq(s, m, n) \in Seq(S)
         /\ Range(SubSeq(s, m, n)) = {s[i] : i \in m..n}
         /\ IsInjective(s) => IsInjective(SubSeq(s, m, n))
<1> DEFINE t == SubSeq(s, m, n)
<1>1. Len(s) \in Nat /\ DOMAIN s = 1..Len(s) /\ \A i \in 1..Len(s) : s[i] \in S
  BY LenProperties, ElementOfSeq
<1>2. /\ t \in Seq(S)
      /\ Len(t) = IF m <= n THEN n - m + 1 ELSE 0
      /\ \A i \in 1..n - m + 1 : t[i] = s[m + i - 1]
  <2>1. \A i \in m..n : s[i] \in S
    BY <1>1
  <2> QED
    BY <2>1, SubSeqProperties
<1>3. DOMAIN t = 1..n - m + 1
  BY <1>2, LenProperties
<1> HIDE DEF t
<1>4. Range(t) \subseteq {s[i] : i \in m..n}
  BY <1>1, <1>2, <1>3 DEF Range
<1>5. \A i \in m..n : i - m + 1 \in DOMAIN t /\ t[i - m + 1] = s[i]
  BY <1>1, <1>2, <1>3
<1>6. {s[i] : i \in m..n} \subseteq Range(t)
  BY <1>5 DEF Range
<1>7. ASSUME IsInjective(s), NEW i \in DOMAIN t, NEW j \in DOMAIN t, t[i] = t[j]
      PROVE  i = j
  <2>1. m + i - 1 \in 1..Len(s) /\ m + j - 1 \in 1..Len(s) /\ i \in Int /\ j \in Int
    BY <1>1, <1>3
  <2>2. s[m + i - 1] = s[m + j - 1]
    BY <1>2, <1>3, <1>7
  <2>3. m + i - 1 = m + j - 1
    BY <1>1, <1>7, <2>1, <2>2 DEF IsInjective
  <2> QED
    BY <2>1, <2>3
<1> QED
  BY <1>2, <1>4, <1>6, <1>7 DEF t, IsInjective

\* SelectInSeq takes the least index in a set of them.
LEMMA MinIsLeast ==
  ASSUME NEW I, I \subseteq Nat, I # {}
  PROVE  Min(I) \in I /\ \A j \in I : Min(I) <= j
<1> DEFINE R == OpToRel(<, Nat)
<1>1. IsWellFoundedOn(R, Nat)
  BY NatLessThanWellFounded
<1>2. PICK i \in I : \A j \in I : ~(<<j, i>> \in R)
  <2> HIDE DEF R
  <2> QED
    BY <1>1, WFMin
<1>3. \A j \in Nat : j < i => <<j, i>> \in R
  BY DEF OpToRel
<1>4. \A j \in I : ~(j < i)
  BY <1>2, <1>3
<1>5. \A j \in I : i <= j
  BY <1>4
<1> QED
  BY <1>5 DEF Min

LEMMA FirstIndex ==
  ASSUME NEW n \in Nat, NEW I, I \subseteq 1..n, NEW k, k = IF I # {} THEN Min(I) ELSE 0
  PROVE  /\ k \in 0..n
         /\ k # 0 => k \in I /\ \A j \in I : k <= j
         /\ k = 0 => I = {}
<1>1. CASE I = {}
  BY <1>1
<1>2. CASE I # {}
  <2>1. I \subseteq Nat
    OBVIOUS
  <2>2. Min(I) \in I /\ \A j \in I : Min(I) <= j
    BY <1>2, <2>1, MinIsLeast
  <2>3. k \in I /\ \A j \in I : k <= j
    BY <1>2, <2>2
  <2> QED
    BY <2>3
<1> QED
  BY <1>1, <1>2

\* List_detach of an item found in a list without duplicates.
LEMMA RemoveFirstElements ==
  ASSUME NEW S, NEW s \in Seq(S), NEW e
  PROVE  /\ RemoveFirst(s, e) \in Seq(S)
         /\ IsInjective(s) => /\ Range(RemoveFirst(s, e)) = Range(s) \ {e}
                              /\ IsInjective(RemoveFirst(s, e))
<1>1. Len(s) \in Nat /\ DOMAIN s = 1..Len(s) /\ \A i \in 1..Len(s) : s[i] \in S
  BY LenProperties, ElementOfSeq
<1>2. CASE ~\E i \in 1..Len(s) : s[i] = e
  BY <1>1, <1>2 DEF RemoveFirst, Range
<1>3. CASE \E i \in 1..Len(s) : s[i] = e
  <2> DEFINE I == {i \in 1..Len(s) : s[i] = e}
             k == Min(I)
             t == SubSeq(s, 1, k - 1)
             u == SubSeq(s, k + 1, Len(s))
  <2>1. RemoveFirst(s, e) = t \o u
    BY <1>3 DEF RemoveFirst, RemoveAt, SelectInSeq
  <2>2. k \in 1..Len(s) /\ s[k] = e
    <3>1. I \subseteq Nat /\ I # {}
      BY <1>1, <1>3
    <3>2. k \in I
      BY <3>1, MinIsLeast
    <3> QED
      BY <3>2
  <2> HIDE DEF k
  <2>3. /\ t \in Seq(S) /\ Range(t) = {s[i] : i \in 1..k - 1}
        /\ IsInjective(s) => IsInjective(t)
    BY <1>1, <2>2, SubSeqElements
  <2>4. /\ u \in Seq(S) /\ Range(u) = {s[i] : i \in k + 1..Len(s)}
        /\ IsInjective(s) => IsInjective(u)
    BY <1>1, <2>2, SubSeqElements
  <2> HIDE DEF t, u
  <2>5. t \o u \in Seq(S)
    BY <2>3, <2>4, ConcatProperties
  <2>6. /\ Range(t \o u) = Range(t) \cup Range(u)
        /\ IsInjective(t) /\ IsInjective(u) /\ Range(t) \cap Range(u) = {}
             => IsInjective(t \o u)
    BY <2>3, <2>4, ConcatElements
  <2>7. ASSUME IsInjective(s)
        PROVE  /\ Range(t) \cap Range(u) = {}
               /\ Range(t) \cup Range(u) = Range(s) \ {e}
    <3>1. \A i, j \in 1..Len(s) : s[i] = s[j] => i = j
      BY <1>1, <2>7 DEF IsInjective
    <3>2. Range(s) = {s[i] : i \in 1..Len(s)}
      BY <1>1 DEF Range
    <3>3. \A i \in 1..Len(s) : i \in 1..k - 1 \/ i = k \/ i \in k + 1..Len(s)
      BY <1>1, <2>2
    <3>4. Range(t) \cap Range(u) = {}
      BY <1>1, <2>2, <2>3, <2>4, <3>1
    <3>5. Range(t) \cup Range(u) \subseteq Range(s) \ {e}
      BY <1>1, <2>2, <2>3, <2>4, <3>1, <3>2
    <3>6. Range(s) \ {e} \subseteq Range(t) \cup Range(u)
      BY <2>2, <2>3, <2>4, <3>2, <3>3
    <3> QED
      BY <3>4, <3>5, <3>6
  <2> QED
    BY <2>1, <2>3, <2>4, <2>5, <2>6, <2>7
<1> QED
  BY <1>2, <1>3

\* List_insert at a place: t is s with e at place i.
HasInserted(t, s, i, e) ==
  /\ Len(t) = Len(s) + 1 /\ t[i] = e
  /\ \A k \in 1..Len(s) : /\ k < i => t[k] = s[k]
                          /\ k >= i => t[k + 1] = s[k]

LEMMA InsertAtElements ==
  ASSUME NEW S, NEW s \in Seq(S), NEW i \in 1..Len(s) + 1, NEW e \in S
  PROVE  InsertAt(s, i, e) \in Seq(S) /\ HasInserted(InsertAt(s, i, e), s, i, e)
<1> DEFINE t == SubSeq(s, 1, i - 1)
           u == SubSeq(s, i, Len(s))
           v == t \o <<e>>
           n == i - 1
           m == Len(s) - n
<1>1. Len(s) \in Nat /\ i \in Int /\ n \in Nat /\ m \in Nat
  BY LenProperties
<1>2. t \in Seq(S) /\ Len(t) = n /\ \A k \in 1..n : t[k] = s[k]
  BY <1>1, SubSeqProperties
<1>3. u \in Seq(S) /\ Len(u) = m /\ \A k \in 1..m : u[k] = s[i + k - 1]
  BY <1>1, SubSeqProperties
<1>4. <<e>> \in Seq(S) /\ Len(<<e>>) = 1 /\ <<e>>[1] = e
  OBVIOUS
<1> HIDE DEF t, u
<1>5. /\ v \in Seq(S) /\ Len(v) = Len(t) + 1
      /\ \A k \in 1..Len(t) + 1 : v[k] = IF k <= Len(t) THEN t[k] ELSE <<e>>[k - Len(t)]
  <2>1. t \in Seq(S) /\ <<e>> \in Seq(S) /\ Len(<<e>>) = 1
    BY <1>2, <1>4
  <2> QED
    BY <2>1, ConcatProperties
<1>6. /\ v \in Seq(S) /\ Len(v) = i
      /\ \A k \in 1..n : v[k] = s[k]
      /\ v[i] = e
  <2>1. Len(t) = n /\ n + 1 = i
    BY <1>1, <1>2
  <2>2. ASSUME NEW k \in 1..n PROVE v[k] = s[k]
    <3>1. k \in 1..n + 1 /\ k <= n
      BY <1>1
    <3>2. v[k] = t[k]
      BY <3>1, <2>1, <1>5
    <3> QED
      BY <3>2, <1>2
  <2>3. v[i] = e
    <3>1. i \in 1..Len(t) + 1 /\ ~(i <= Len(t)) /\ i - Len(t) = 1
      BY <2>1, <1>1
    <3>2. v[i] = <<e>>[i - Len(t)]
      BY <3>1, <1>5
    <3> QED
      BY <3>1, <3>2, <1>4
  <2>4. v \in Seq(S) /\ Len(v) = i
    BY <2>1, <1>5
  <2> QED
    BY <2>2, <2>3, <2>4
<1> HIDE DEF v
<1>7. /\ v \o u \in Seq(S) /\ Len(v \o u) = Len(v) + Len(u)
      /\ \A k \in 1..Len(v) + Len(u) :
            (v \o u)[k] = IF k <= Len(v) THEN v[k] ELSE u[k - Len(v)]
  <2>1. v \in Seq(S) /\ u \in Seq(S)
    BY <1>3, <1>6
  <2> QED
    BY <2>1, ConcatProperties
<1>8. (v \o u)[i] = e
  BY <1>1, <1>3, <1>6, <1>7
<1>9. ASSUME NEW k \in 1..Len(s) PROVE /\ k < i => (v \o u)[k] = s[k]
                                       /\ k >= i => (v \o u)[k + 1] = s[k]
  <2>1. CASE k < i
    <3>1. k \in 1..n /\ k \in 1..Len(v) + Len(u) /\ k <= Len(v)
      BY <1>1, <1>3, <1>6, <2>1
    <3> QED
      BY <3>1, <2>1, <1>1, <1>6, <1>7
  <2>2. CASE k >= i
    <3>1. /\ (k + 1) - i \in 1..m /\ i + ((k + 1) - i) - 1 = k
          /\ k + 1 \in 1..Len(v) + Len(u) /\ ~(k + 1 <= Len(v))
      BY <1>1, <1>3, <1>6, <2>2
    <3>2. u[(k + 1) - i] = s[k]
      BY <1>3, <3>1
    <3> QED
      BY <3>1, <3>2, <2>2, <1>1, <1>6, <1>7
  <2> QED
    BY <2>1, <2>2, <1>1
<1>10. InsertAt(s, i, e) = v \o u
  BY DEF InsertAt, t, u, v
<1>11. Len(v \o u) = Len(s) + 1
  BY <1>1, <1>3, <1>6, <1>7
<1> QED
  BY <1>7, <1>8, <1>9, <1>10, <1>11 DEF HasInserted

\* List_detach of the item at a place: t is s without place i.
HasRemoved(t, s, i) ==
  /\ Len(t) = Len(s) - 1
  /\ \A k \in 1..Len(s) - 1 : /\ k < i => t[k] = s[k]
                              /\ k >= i => t[k] = s[k + 1]

LEMMA RemoveAtElements ==
  ASSUME NEW S, NEW s \in Seq(S), NEW i \in 1..Len(s)
  PROVE  RemoveAt(s, i) \in Seq(S) /\ HasRemoved(RemoveAt(s, i), s, i)
<1> DEFINE t == SubSeq(s, 1, i - 1)
           u == SubSeq(s, i + 1, Len(s))
<1>1. Len(s) \in Nat /\ i \in Int
  BY LenProperties
<1>2. t \in Seq(S) /\ Len(t) = i - 1 /\ \A k \in 1..i - 1 : t[k] = s[k]
  BY <1>1, SubSeqProperties
<1>3. u \in Seq(S) /\ Len(u) = Len(s) - i
      /\ \A k \in 1..Len(s) - i : u[k] = s[i + k]
  BY <1>1, SubSeqProperties
<1> HIDE DEF t, u
<1> DEFINE n == i - 1
           m == Len(s) - i
<1>4. /\ t \o u \in Seq(S) /\ Len(t \o u) = n + m
      /\ \A k \in 1..n + m : (t \o u)[k] = IF k <= n THEN t[k] ELSE u[k - n]
  <2>1. /\ t \o u \in Seq(S) /\ Len(t \o u) = Len(t) + Len(u)
        /\ \A k \in 1..Len(t) + Len(u) :
              (t \o u)[k] = IF k <= Len(t) THEN t[k] ELSE u[k - Len(t)]
    <3>1. t \in Seq(S) /\ u \in Seq(S)
      BY <1>2, <1>3
    <3> QED
      BY <3>1, ConcatProperties
  <2>2. Len(t) = n /\ Len(u) = m
    BY <1>2, <1>3
  <2> QED
    BY <2>1, <2>2
<1>5. ASSUME NEW k \in 1..Len(s) - 1
      PROVE  /\ k < i => (t \o u)[k] = s[k]
             /\ k >= i => (t \o u)[k] = s[k + 1]
  <2>1. k \in 1..n + m /\ (k <= n <=> k < i)
    BY <1>1
  <2>2. CASE k < i
    BY <1>1, <1>2, <1>4, <2>1, <2>2
  <2>3. CASE k >= i
    <3>1. k - n \in 1..Len(s) - i /\ i + (k - n) = k + 1
      BY <1>1, <2>3
    <3>2. u[k - n] = s[k + 1]
      BY <1>3, <3>1
    <3> QED
      BY <1>1, <1>4, <2>1, <2>3, <3>2
  <2> QED
    BY <2>2, <2>3, <1>1
<1>6. RemoveAt(s, i) = t \o u
  BY DEF RemoveAt, t, u
<1>7. n + m = Len(s) - 1
  BY <1>1
<1> QED
  BY <1>4, <1>5, <1>6, <1>7 DEF HasRemoved

-----------------------------------------------------------------------------
(* n rows of K items, one after the other *)

\* A row ends before a later one begins.
LEMMA RowOrder ==
  ASSUME NEW K \in Nat, NEW h \in Nat, NEW i \in Nat, h < i
  PROVE  h * K \in Nat /\ i * K \in Nat /\ h * K + K <= i * K
<1>1. PICK d \in Nat : i = h + 1 + d
  <2>1. i - h - 1 \in Nat /\ i = h + 1 + (i - h - 1)
    OBVIOUS
  <2> QED
    BY <2>1
<1>2. d * K \in Nat /\ h * K \in Nat
  OBVIOUS
<1>3. i * K = h * K + K + d * K
  BY <1>1
<1> QED
  BY <1>2, <1>3

\* Every place is in a row.
LEMMA RowOf ==
  ASSUME NEW K \in Nat \ {0}, NEW n \in Nat, NEW k \in 1..n * K
  PROVE  \E i \in 1..n : \E j \in 1..K : k = (i - 1) * K + j
<1> DEFINE I == {i \in 1..n : k <= i * K}
<1>1. n \in I
  <2>1. n # 0
    <3> SUFFICES ASSUME n = 0 PROVE FALSE
      OBVIOUS
    <3> QED
      OBVIOUS
  <2> QED
    BY <2>1
<1>2. I \subseteq Nat
  OBVIOUS
<1>3. PICK i \in I : \A j \in I : i <= j
  <2> HIDE DEF I
  <2> QED
    BY <1>1, <1>2, MinIsLeast
<1>4. (i - 1) * K < k
  <2>1. CASE i = 1
    BY <2>1
  <2>2. CASE i # 1
    <3>1. i - 1 \in 1..n /\ i - 1 \notin I
      BY <1>3, <2>2
    <3> QED
      BY <3>1
  <2> QED
    BY <2>1, <2>2
<1>5. (i - 1) * K \in Nat /\ i * K = (i - 1) * K + K
  OBVIOUS
<1>6. k - (i - 1) * K \in 1..K /\ k = (i - 1) * K + (k - (i - 1) * K)
  BY <1>4, <1>5
<1> QED
  BY <1>6

\* FlattenSeq of n rows of K items.
LEMMA FlattenRows ==
  ASSUME NEW S, NEW K \in Nat \ {0}, NEW n \in Nat \ {0}, NEW rows,
         rows \in Seq(Seq(S)), Len(rows) = n, \A i \in 1..n : Len(rows[i]) = K
  PROVE  /\ FlattenSeq(rows) \in Seq(S) /\ Len(FlattenSeq(rows)) = n * K
         /\ \A i \in 1..n, j \in 1..K : FlattenSeq(rows)[(i - 1) * K + j] = rows[i][j]
<1> DEFINE Off(i) == (i - 1) * K
           Place(x, k) == \E i \in 1..n, j \in 1..K : k = Off(i) + j /\ x = rows[i][j]
           At(k) == CHOOSE x \in S : Place(x, k)
           Upto(i) == [k \in 1..Off(i + 1) |-> At(k)]
           g == [i \in 1..n |-> Upto(i)]
           E(h) == [i \in 1..n |-> IF i = 1 THEN rows[i] ELSE h[i - 1] \o rows[i]]
           f == CHOOSE h : h = E(h)
<1>1. \A i \in 1..n : rows[i] \in Seq(S) /\ \A j \in 1..K : rows[i][j] \in S
  BY ElementOfSeq, LenProperties
<1>2. /\ Off(1) = 0 /\ Off(n + 1) = n * K
      /\ \A i \in 1..n + 1 : Off(i) \in Nat
      /\ \A i \in 1..n : Off(i + 1) = Off(i) + K
  OBVIOUS
<1>3. \A i, a \in 1..n + 1 : i < a => Off(i) + K <= Off(a)
  <2> SUFFICES ASSUME NEW i \in 1..n + 1, NEW a \in 1..n + 1, i < a
               PROVE  (i - 1) * K + K <= (a - 1) * K
    OBVIOUS
  <2>1. i - 1 \in Nat /\ a - 1 \in Nat /\ i - 1 < a - 1
    OBVIOUS
  <2> QED
    BY <2>1, RowOrder
<1>4. \A k \in 1..n * K : \E i \in 1..n : \E j \in 1..K : k = Off(i) + j
  BY RowOf
<1> HIDE DEF Off
<1>5. ASSUME NEW i \in 1..n, NEW j \in 1..K, NEW a \in 1..n, NEW b \in 1..K,
             Off(i) + j = Off(a) + b
      PROVE  i = a /\ j = b
  <2>1. Off(i) \in Nat /\ Off(a) \in Nat
    BY <1>2
  <2>2. ~(i < a) /\ ~(a < i)
    BY <1>3, <1>5, <2>1
  <2> QED
    BY <1>5, <2>1, <2>2
<1>6. ASSUME NEW i \in 1..n, NEW j \in 1..K
      PROVE  At(Off(i) + j) = rows[i][j]
  <2>1. Place(rows[i][j], Off(i) + j) /\ rows[i][j] \in S
    BY <1>1
  <2>2. \A x : Place(x, Off(i) + j) => x = rows[i][j]
    BY <1>5
  <2> HIDE DEF Place
  <2> QED
    BY <2>1, <2>2
<1> HIDE DEF At
<1>7. \A k \in 1..n * K : At(k) \in S
  <2> SUFFICES ASSUME NEW k \in 1..n * K
               PROVE  At(k) \in S
    OBVIOUS
  <2>1. PICK i \in 1..n, j \in 1..K : k = Off(i) + j
    BY <1>4
  <2> QED
    BY <1>1, <1>6, <2>1
<1> HIDE DEF g
<1>8. \A i \in 1..n : g[i] \in Seq(S) /\ Len(g[i]) = Off(i + 1) /\ \A k \in 1..Off(i + 1) : g[i][k] = At(k)
  <2> SUFFICES ASSUME NEW i \in 1..n
               PROVE  g[i] \in Seq(S) /\ Len(g[i]) = Off(i + 1) /\ \A k \in 1..Off(i + 1) : g[i][k] = At(k)
    OBVIOUS
  <2>1. Off(i + 1) \in Nat /\ Off(i + 1) <= n * K
    <3>1. i + 1 \in 1..n + 1 /\ n + 1 \in 1..n + 1 /\ (i + 1 = n + 1 \/ i + 1 < n + 1)
      OBVIOUS
    <3>2. Off(i + 1) \in Nat /\ Off(n + 1) \in Nat /\ (i + 1 < n + 1 => Off(i + 1) + K <= Off(n + 1))
      BY <1>2, <1>3, <3>1
    <3> QED
      BY <1>2, <3>1, <3>2
  <2>2. g[i] = Upto(i)
    BY DEF g
  <2>3. \A k \in 1..Off(i + 1) : At(k) \in S
    BY <1>2, <1>7, <2>1
  <2> QED
    BY <2>1, <2>2, <2>3
<1>9. g = E(g)
  <2> SUFFICES ASSUME NEW i \in 1..n
               PROVE  g[i] = IF i = 1 THEN rows[i] ELSE g[i - 1] \o rows[i]
    BY DEF g
  <2>1. Off(i) \in Nat /\ Off(i + 1) = Off(i) + K /\ Off(1) = 0
    BY <1>2
  <2>2. CASE i = 1
    <3>1. Len(g[1]) = K /\ Len(rows[1]) = K
      BY <1>8, <2>1, <2>2
    <3>2. \A j \in 1..K : g[1][j] = rows[1][j]
      <4> TAKE j \in 1..K
      <4>1. At(Off(1) + j) = rows[1][j]
        BY <1>6
      <4>2. Off(1) + j = j /\ Off(1 + 1) = K
        BY <2>1, <2>2
      <4> QED
        BY <1>8, <4>1, <4>2
    <3> QED
      BY <1>1, <1>8, <2>2, <3>1, <3>2, SeqEqual
  <2>3. CASE i # 1
    <3> DEFINE s == g[i - 1]
               t == rows[i]
    <3>1. i - 1 \in 1..n /\ (i - 1) + 1 = i
      BY <2>3
    <3>2. s \in Seq(S) /\ t \in Seq(S) /\ Len(s) = Off(i) /\ Len(t) = K
      BY <1>1, <1>8, <3>1
    <3>3. \A k \in 1..Off(i) : s[k] = At(k)
      BY <1>8, <3>1
    <3>4. \A j \in 1..K : t[j] = At(Off(i) + j)
      BY <1>6
    <3> HIDE DEF s, t
    <3>5. /\ s \o t \in Seq(S) /\ Len(s \o t) = Len(s) + Len(t)
          /\ \A k \in 1..Len(s) : (s \o t)[k] = s[k]
          /\ \A k \in 1..Len(t) : (s \o t)[Len(s) + k] = t[k]
      <4>1. s \in Seq(S) /\ t \in Seq(S)
        BY <3>2
      <4> QED
        BY <4>1, Joined
    <3>6. ASSUME NEW k \in 1..Off(i + 1) PROVE (s \o t)[k] = g[i][k]
      <4>1. g[i][k] = At(k)
        BY <1>8
      <4>2. CASE k <= Off(i)
        BY <2>1, <3>2, <3>3, <3>5, <4>1, <4>2
      <4>3. CASE k > Off(i)
        <5>1. PICK j \in 1..K : k = Off(i) + j
          <6>1. k - Off(i) \in 1..K /\ k = Off(i) + (k - Off(i))
            BY <2>1, <4>3
          <6> QED
            BY <6>1
        <5>2. (s \o t)[Off(i) + j] = t[j]
          BY <3>2, <3>5
        <5> QED
          BY <3>4, <4>1, <5>1, <5>2
      <4>4. k \in Int /\ Off(i) \in Int
        BY <2>1
      <4>5. k <= Off(i) \/ k > Off(i)
        BY <4>4
      <4> QED
        BY <4>2, <4>3, <4>5
    <3>7. Len(s \o t) = Off(i + 1) /\ Len(g[i]) = Off(i + 1) /\ g[i] \in Seq(S)
      BY <1>8, <2>1, <3>2, <3>5
    <3>8. g[i] = s \o t
      BY <3>5, <3>6, <3>7, SeqEqual
    <3> QED
      BY <2>3, <3>8 DEF s, t
  <2> QED
    BY <2>2, <2>3
<1>10. f = E(f)
  BY <1>9
<1> HIDE DEF f
<1> DEFINE D == {i \in 1..n : f[i] # g[i]}
<1>11. D = {}
  <2> SUFFICES ASSUME D # {} PROVE FALSE
    OBVIOUS
  <2>1. D \subseteq Nat
    OBVIOUS
  <2> PICK i \in D : \A j \in D : i <= j
    <3> HIDE DEF D
    <3> QED
      BY <2>1, MinIsLeast
  <2>2. i # 1
    BY <1>9, <1>10
  <2>3. i - 1 \in 1..n /\ i - 1 \notin D
    BY <2>2
  <2>4. f[i] = f[i - 1] \o rows[i] /\ g[i] = g[i - 1] \o rows[i]
    BY <1>9, <1>10, <2>2
  <2> QED
    BY <2>3, <2>4
<1>12. FlattenSeq(rows) = f[n]
  BY DEF FlattenSeq, f
<1>13. FlattenSeq(rows) = g[n] /\ n \in 1..n
  BY <1>11, <1>12
<1>14. ASSUME NEW i \in 1..n, NEW j \in 1..K
       PROVE  g[n][Off(i) + j] = rows[i][j]
  <2>1. Off(i) \in Nat /\ Off(i + 1) = Off(i) + K
    BY <1>2
  <2>2. Off(i) + j \in 1..Off(i + 1)
    BY <2>1
  <2>3. i < n => Off(i + 1) + K <= Off(n + 1)
    <3>1. i < n => i + 1 \in 1..n + 1 /\ n + 1 \in 1..n + 1 /\ i + 1 < n + 1
      OBVIOUS
    <3> QED
      BY <1>3, <3>1
  <2>4. Off(n + 1) \in Nat /\ Off(i + 1) \in Nat
    BY <1>2, <2>1
  <2>5. Off(i) + j \in 1..Off(n + 1)
    <3>1. i = n \/ i < n
      OBVIOUS
    <3>2. Off(i + 1) <= Off(n + 1)
      BY <2>3, <2>4, <3>1
    <3> QED
      BY <2>2, <2>4, <3>2
  <2> QED
    BY <1>6, <1>8, <2>5
<1>15. FlattenSeq(rows) \in Seq(S) /\ Len(FlattenSeq(rows)) = n * K
  BY <1>2, <1>8, <1>13
<1> QED
  BY <1>13, <1>14, <1>15 DEF Off

=============================================================================
