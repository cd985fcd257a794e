----------------------------- MODULE ListLemmas -----------------------------
(***************************************************************************)
(* What the operations of include/list.h do to a list without repetition,  *)
(* the first entry first: list_add puts an entry in front, list_del_entry  *)
(* removes one.                                                            *)
(***************************************************************************)
EXTENDS Integers, SequencesExt, SequenceTheorems, WellFoundedInduction, TLAPS

\* The entries of a list are elements of S (the frames of free_list).
LEMMA ToSetType ==
    ASSUME NEW S, NEW s \in Seq(S)
    PROVE  /\ ToSet(s) \subseteq S
           /\ \A x : x \in ToSet(s) <=> \E i \in 1 .. Len(s) : s[i] = x
BY LenProperties DEF ToSet

\* list_add: the new entry and the old ones, still without repetition.
LEMMA AddFirst ==
    ASSUME NEW S, NEW s \in Seq(S), NEW x \in S
    PROVE  /\ <<x>> \o s \in Seq(S)
           /\ ToSet(<<x>> \o s) = ToSet(s) \cup {x}
           /\ x \notin ToSet(s) /\ IsInjective(s) => IsInjective(<<x>> \o s)
<1> DEFINE t == <<x>> \o s
<1>1. /\ t \in Seq(S)
      /\ Len(t) = Len(s) + 1
      /\ t[1] = x
      /\ \A i \in 1 .. Len(s) : t[i + 1] = s[i]
      /\ Len(s) \in Nat
  OBVIOUS
<1> HIDE DEF t
<1>2. ToSet(t) = ToSet(s) \cup {x}
  <2>1. ASSUME NEW i \in 1 .. Len(t) PROVE t[i] \in ToSet(s) \cup {x}
    <3>1. CASE i = 1
      BY <3>1, <1>1
    <3>2. CASE i # 1
      <4>1. i - 1 \in 1 .. Len(s) /\ t[i] = s[i - 1]
        BY <3>2, <1>1
      <4> QED
        BY <4>1, ToSetType
    <3> QED
      BY <3>1, <3>2
  <2>2. ASSUME NEW i \in 1 .. Len(s) PROVE s[i] \in ToSet(t)
    <3>1. i + 1 \in 1 .. Len(t) /\ t[i + 1] = s[i]
      BY <1>1
    <3> QED
      BY <3>1, <1>1, ToSetType
  <2>3. x \in ToSet(t)
    BY <1>1, ToSetType
  <2> QED
    BY <2>1, <2>2, <2>3, <1>1, ToSetType
<1>3. ASSUME x \notin ToSet(s), IsInjective(s) PROVE IsInjective(t)
  <2> SUFFICES ASSUME NEW a \in 1 .. Len(t), NEW b \in 1 .. Len(t), t[a] = t[b]
               PROVE  a = b
    BY <1>1, LenProperties DEF IsInjective
  <2>1. \A i \in 1 .. Len(t) : i # 1 => i - 1 \in 1 .. Len(s) /\ t[i] = s[i - 1]
    BY <1>1
  <2>2. \A i \in 1 .. Len(s) : s[i] # x
    BY <1>3, ToSetType
  <2>3. \A i, j \in 1 .. Len(s) : s[i] = s[j] => i = j
    BY <1>3, LenProperties DEF IsInjective
  <2> QED
    BY <2>1, <2>2, <2>3, <1>1
<1> QED
  BY <1>1, <1>2, <1>3 DEF t

\* list_del_entry of the i-th entry: that one goes, the others stay.
LEMMA RemoveEntry ==
    ASSUME NEW S, NEW s \in Seq(S), NEW i \in 1 .. Len(s), IsInjective(s)
    PROVE  /\ RemoveAt(s, i) \in Seq(S)
           /\ ToSet(RemoveAt(s, i)) = ToSet(s) \ {s[i]}
           /\ IsInjective(RemoveAt(s, i))
<1> DEFINE l == SubSeq(s, 1, i - 1)
           r == SubSeq(s, i + 1, Len(s))
           t == l \o r
<1>1. /\ l \in Seq(S) /\ Len(l) = i - 1
      /\ \A j \in 1 .. (i - 1) : l[j] = s[j]
  <2>1. \A j \in 1 .. (i - 1) : s[j] \in S
    OBVIOUS
  <2> QED
    BY <2>1, SubSeqProperties
<1>2. /\ r \in Seq(S) /\ Len(r) = Len(s) - i
      /\ \A j \in 1 .. (Len(s) - i) : r[j] = s[i + j]
  <2>1. \A j \in (i + 1) .. Len(s) : s[j] \in S
    OBVIOUS
  <2> QED
    BY <2>1, SubSeqProperties
<1> HIDE DEF l, r
<1>3. /\ t \in Seq(S)
      /\ Len(t) = Len(s) - 1
      /\ \A j \in 1 .. Len(t) : t[j] = s[IF j < i THEN j ELSE j + 1]
  <2>1. /\ t \in Seq(S)
        /\ Len(t) = Len(s) - 1
        /\ \A j \in 1 .. Len(t) : t[j] = IF j <= i - 1 THEN l[j] ELSE r[j - (i - 1)]
    <3>1. /\ t \in Seq(S)
          /\ Len(t) = Len(l) + Len(r)
          /\ \A j \in 1 .. Len(l) + Len(r) :
                t[j] = IF j <= Len(l) THEN l[j] ELSE r[j - Len(l)]
      BY <1>1, <1>2, ConcatProperties
    <3> HIDE DEF t
    <3>2. Len(t) = Len(s) - 1
      BY <3>1, <1>1, <1>2
    <3> QED
      BY <3>1, <3>2, <1>1, <1>2
  <2> HIDE DEF t
  <2>2. ASSUME NEW j \in 1 .. Len(t) PROVE t[j] = s[IF j < i THEN j ELSE j + 1]
    <3>1. CASE j < i
      BY <3>1, <2>1, <1>1
    <3>2. CASE ~ j < i
      <4>1. j - (i - 1) \in 1 .. (Len(s) - i) /\ i + (j - (i - 1)) = j + 1
        BY <3>2, <2>1
      <4>2. t[j] = r[j - (i - 1)]
        BY <3>2, <2>1
      <4> QED
        BY <4>1, <4>2, <1>2, <3>2
    <3> QED
      BY <3>1, <3>2
  <2> QED
    BY <2>1, <2>2
<1>4. \A a, b \in 1 .. Len(s) : s[a] = s[b] => a = b
  BY LenProperties DEF IsInjective
<1> HIDE DEF t
<1>5. ToSet(t) = ToSet(s) \ {s[i]}
  <2>1. ASSUME NEW j \in 1 .. Len(t) PROVE t[j] \in ToSet(s) \ {s[i]}
    <3> DEFINE k == IF j < i THEN j ELSE j + 1
    <3>1. k \in 1 .. Len(s) /\ k # i /\ t[j] = s[k]
      BY <1>3
    <3> QED
      BY <3>1, <1>4, ToSetType
  <2>2. ASSUME NEW k \in 1 .. Len(s), k # i PROVE s[k] \in ToSet(t)
    <3> DEFINE j == IF k < i THEN k ELSE k - 1
    <3>1. j \in 1 .. Len(t) /\ t[j] = s[k]
      <4>1. Len(s) \in Nat /\ Len(t) = Len(s) - 1
        BY <1>3, LenProperties
      <4>2. CASE k < i
        <5>1. j = k /\ j \in 1 .. Len(t)
          BY <4>1, <4>2
        <5> QED
          BY <5>1, <4>2, <1>3
      <4>3. CASE ~ k < i
        <5>1. j \in 1 .. Len(t) /\ ~ j < i /\ j + 1 = k
          BY <4>1, <4>3, <2>2
        <5> HIDE DEF j
        <5> QED
          BY <5>1, <1>3
      <4> QED
        BY <4>2, <4>3
    <3> QED
      BY <3>1, <1>3, ToSetType
  <2>3. \A x : x \in ToSet(t) <=> \E j \in 1 .. Len(t) : t[j] = x
    BY <1>3, ToSetType
  <2>4. \A x : x \in ToSet(s) <=> \E k \in 1 .. Len(s) : s[k] = x
    BY ToSetType
  <2>5. ToSet(t) \subseteq ToSet(s) \ {s[i]}
    BY <2>1, <2>3
  <2>6. ToSet(s) \ {s[i]} \subseteq ToSet(t)
    BY <2>2, <2>4
  <2> QED
    BY <2>5, <2>6
<1>6. IsInjective(t)
  <2> SUFFICES ASSUME NEW a \in 1 .. Len(t), NEW b \in 1 .. Len(t), t[a] = t[b]
               PROVE  a = b
    BY <1>3, LenProperties DEF IsInjective
  <2> DEFINE up(j) == IF j < i THEN j ELSE j + 1
  <2>1. /\ up(a) \in 1 .. Len(s) /\ t[a] = s[up(a)]
        /\ up(b) \in 1 .. Len(s) /\ t[b] = s[up(b)]
    BY <1>3
  <2>2. up(a) = up(b)
    BY <2>1, <1>4
  <2> QED
    BY <2>2
<1> QED
  BY <1>3, <1>5, <1>6 DEF RemoveAt, t, l, r

\* Taking the first entry, as alloc_page does with free_list[canuse_val].next.
LEMMA TakeFirst ==
    ASSUME NEW S, NEW s \in Seq(S), s # <<>>, IsInjective(s)
    PROVE  /\ Head(s) \in ToSet(s)
           /\ Tail(s) \in Seq(S)
           /\ ToSet(Tail(s)) = ToSet(s) \ {Head(s)}
           /\ IsInjective(Tail(s))
<1>1. 1 \in 1 .. Len(s) /\ Head(s) = s[1]
  OBVIOUS
<1>2. RemoveAt(s, 1) = Tail(s)
  <2>1. SubSeq(s, 1, 0) = << >>
    BY SubSeqEmpty
  <2>2. SubSeq(s, 2, Len(s)) = Tail(s)
    BY TailIsSubSeq
  <2>3. Tail(s) \in Seq(S)
    BY HeadTailProperties
  <2> QED
    BY <2>1, <2>2, <2>3, ConcatEmptySeq DEF RemoveAt
<1>3. /\ RemoveAt(s, 1) \in Seq(S)
      /\ ToSet(RemoveAt(s, 1)) = ToSet(s) \ {s[1]}
      /\ IsInjective(RemoveAt(s, 1))
  BY <1>1, RemoveEntry
<1>4. Head(s) \in ToSet(s)
  BY <1>1, ToSetType
<1> QED
  BY <1>1, <1>2, <1>3, <1>4

\* A stack without its last entry, as the calls of schedule() and irq_handler
\* on a kernel stack are popped.
LEMMA FrontProperties ==
    ASSUME NEW S, NEW s \in Seq(S), s # <<>>
    PROVE  /\ Len(s) \in Nat \ {0}
           /\ Front(s) \in Seq(S)
           /\ Len(Front(s)) = Len(s) - 1
           /\ \A i \in 1 .. (Len(s) - 1) : Front(s)[i] = s[i]
           /\ Last(s) \in S
<1>1. Len(s) \in Nat \ {0}
  OBVIOUS
<1>2. Last(s) \in S
  BY <1>1 DEF Last
<1> DEFINE n == Len(s) - 1
<1>3. 1 \in Int /\ n \in Int /\ n = Len(s) - 1 /\ \A j \in 1 .. n : s[j] \in S
  BY <1>1
<1>4. Front(s) = SubSeq(s, 1, n)
  BY DEF Front
<1> HIDE DEF n
<1>5. /\ SubSeq(s, 1, n) \in Seq(S)
      /\ Len(SubSeq(s, 1, n)) = IF 1 <= n THEN n - 1 + 1 ELSE 0
      /\ \A j \in 1 .. (n - 1 + 1) : SubSeq(s, 1, n)[j] = s[1 + j - 1]
  BY <1>3, SubSeqProperties
<1> QED
  BY <1>1, <1>2, <1>3, <1>4, <1>5

\* The search for the first entry with some property, whose positions are I, as
\* add_timer_task makes it.
LEMMA MinIsLeast ==
    ASSUME NEW I \in SUBSET Nat, I # {}
    PROVE  Min(I) \in I /\ \A y \in I : Min(I) <= y
<1> DEFINE R == OpToRel(<, Nat)
<1>1. PICK x \in I : \A y \in I : <<y, x>> \notin R
  BY NatLessThanWellFounded, WFMin
<1>2. \A y \in I : ~ y < x
  BY <1>1 DEF OpToRel
<1>3. \E z \in I : \A y \in I : z <= y
  BY <1>2
<1> QED
  BY <1>3 DEF Min

\* Entry j of list s after x was put in at position i.
EntryAfter(s, i, x, j) == IF j < i THEN s[j] ELSE IF j = i THEN x ELSE s[j - 1]

\* list_add_tail in front of the entry at position i, or at the end.
LEMMA InsertEntry ==
    ASSUME NEW S, NEW s \in Seq(S), NEW i \in 1 .. (Len(s) + 1), NEW x \in S
    PROVE  /\ InsertAt(s, i, x) \in Seq(S)
           /\ Len(InsertAt(s, i, x)) = Len(s) + 1
           /\ \A j \in 1 .. (Len(s) + 1) : InsertAt(s, i, x)[j] = EntryAfter(s, i, x, j)
<1> DEFINE n == Len(s)
           l == SubSeq(s, 1, i - 1)
           r == SubSeq(s, i, n)
           m == l \o <<x>>
           t == m \o r
<1>0. n \in Nat /\ i \in 1 .. (n + 1)
  OBVIOUS
<1>1. /\ l \in Seq(S) /\ Len(l) = i - 1
      /\ \A j \in 1 .. (i - 1) : l[j] = s[j]
  <2>1. \A j \in 1 .. (i - 1) : s[j] \in S
    OBVIOUS
  <2> QED
    BY <2>1, SubSeqProperties
<1>2. /\ r \in Seq(S) /\ Len(r) = n - i + 1
      /\ \A j \in 1 .. (n - i + 1) : r[j] = s[i + j - 1]
  <2>1. \A j \in i .. n : s[j] \in S
    OBVIOUS
  <2> HIDE DEF n
  <2> QED
    BY <1>0, <2>1, SubSeqProperties
<1> HIDE DEF l, r, n
<1>3. /\ m \in Seq(S) /\ Len(m) = i
      /\ \A j \in 1 .. i : m[j] = IF j < i THEN s[j] ELSE x
  <2>1. /\ m \in Seq(S) /\ Len(m) = Len(l) + 1
        /\ \A j \in 1 .. (Len(l) + 1) : m[j] = IF j <= Len(l) THEN l[j] ELSE x
    BY <1>1
  <2> HIDE DEF m
  <2> QED
    BY <1>0, <1>1, <2>1
<1> HIDE DEF m
<1>4. /\ t \in Seq(S) /\ Len(t) = n + 1
      /\ \A j \in 1 .. (n + 1) : t[j] = IF j <= i THEN m[j] ELSE r[j - i]
  <2>1. /\ t \in Seq(S)
        /\ Len(t) = Len(m) + Len(r)
        /\ \A j \in 1 .. Len(m) + Len(r) :
              t[j] = IF j <= Len(m) THEN m[j] ELSE r[j - Len(m)]
    BY <1>2, <1>3, ConcatProperties
  <2> HIDE DEF t
  <2> QED
    BY <1>0, <1>2, <1>3, <2>1
<1> HIDE DEF t
<1>5. ASSUME NEW j \in 1 .. (n + 1)
      PROVE  t[j] = IF j < i THEN s[j] ELSE IF j = i THEN x ELSE s[j - 1]
  <2>1. CASE j <= i
    BY <1>0, <1>3, <1>4, <2>1
  <2>2. CASE j > i
    <3>1. j - i \in 1 .. (n - i + 1) /\ i + (j - i) - 1 = j - 1
      BY <1>0, <2>2
    <3>2. r[j - i] = s[i + (j - i) - 1]
      BY <1>2, <3>1
    <3>3. t[j] = r[j - i]
      BY <1>0, <1>4, <2>2, SMTT(30)
    <3>4. t[j] = s[j - 1]
      BY <3>1, <3>2, <3>3
    <3> QED
      BY <1>0, <2>2, <3>4
  <2> QED
    BY <1>0, <2>1, <2>2
<1> QED
  BY <1>4, <1>5 DEF InsertAt, EntryAfter, t, m, l, r, n

=============================================================================
