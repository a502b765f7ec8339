-------------------------- MODULE Intervals_proofs --------------------------
(***************************************************************************)
(* Interval sets with auto-merge do what the commands mean, for any number *)
(* of keys, any inputs and any history of one context.  IntervalsInv says  *)
(* that at every command the cached elements are apart, are what the       *)
(* kernel's set will contain once the messages so far are applied, and     *)
(* cover the keys that the evaluated commands mean.  It rests on the       *)
(* precondition of list_splice_sorted(), AddsInOrder, which InputsInOrder  *)
(* establishes from the order of the commands in an input.                 *)
(*                                                                         *)
(* First, what the functions of src/mergesort.c and src/intervals.c do to  *)
(* a list of elements: which elements the result has, in which order, and  *)
(* which keys they cover, and what the messages computed from it do to the *)
(* kernel's set.  Relations between neighbours are sets of pairs, and      *)
(* Pairs() says that all elements of a list are related to those after     *)
(* them, so that a first-order prover can work with them.  Induction over  *)
(* a list is SeqInduction, on the set of the lists that have a property.   *)
(***************************************************************************)
EXTENDS Intervals, SequenceFacts, FiniteSetTheorems

\* The elements of the lists: intervals with the mark EXPR_F_KERNEL.
Elem == {e \in [l : 0..MaxKey, r : 0..MaxKey, k : BOOLEAN] : e.l <= e.r}

\* Each element of a list is related to those after it.
Pairs(R, s) == \A i, j \in DOMAIN s : i < j => <<s[i], s[j]>> \in R

-----------------------------------------------------------------------------
(* Lists and their elements. *)

\* The elements of a sequence that is one longer.
LEMMA AppendSet ==
  ASSUME NEW S, NEW s \in Seq(S), NEW x \in S
  PROVE  \A y : y \in ToSet(Append(s, x)) <=> y \in ToSet(s) \/ y = x
<1>1. /\ DOMAIN s = 1..Len(s) /\ DOMAIN Append(s, x) = 1..(Len(s) + 1) /\ Len(s) \in Nat
      /\ Append(s, x)[Len(s) + 1] = x /\ \A i \in 1..Len(s) : Append(s, x)[i] = s[i]
  OBVIOUS
<1> DEFINE t == Append(s, x)
<1> HIDE DEF t
<1>2. \A i : i \in DOMAIN t <=> i \in DOMAIN s \/ i = Len(s) + 1
  BY <1>1 DEF t
<1>3. \A y : y \in ToSet(t) <=> y \in ToSet(s) \/ y = x
  BY <1>1, <1>2 DEF ToSet, t
<1> QED BY <1>3 DEF t

\* The elements of two sequences, one after the other.
LEMMA ConcatSet ==
  ASSUME NEW S, NEW s \in Seq(S), NEW t \in Seq(S)
  PROVE  \A y : y \in ToSet(s \o t) <=> y \in ToSet(s) \/ y \in ToSet(t)
<1> DEFINE u == s \o t
<1>1. /\ DOMAIN s = 1..Len(s) /\ DOMAIN t = 1..Len(t) /\ Len(s) \in Nat /\ Len(t) \in Nat
      /\ DOMAIN u = 1..(Len(s) + Len(t))
      /\ \A i \in 1..Len(s) : u[i] = s[i]
      /\ \A i \in (Len(s) + 1)..(Len(s) + Len(t)) : u[i] = t[i - Len(s)]
  <2>1. u \in Seq(S) /\ Len(u) = Len(s) + Len(t)
    BY ConcatElements
  <2> QED BY <2>1, ConcatElements
<1> HIDE DEF u
<1>2. \A i \in DOMAIN t : i + Len(s) \in DOMAIN u /\ u[i + Len(s)] = t[i]
  BY <1>1
<1>3. \A i \in DOMAIN u : i \in DOMAIN s \/ (i - Len(s) \in DOMAIN t /\ u[i] = t[i - Len(s)])
  BY <1>1
<1>4. ASSUME NEW y \in ToSet(u) PROVE y \in ToSet(s) \/ y \in ToSet(t)
  BY <1>1, <1>3 DEF ToSet
<1>5. ASSUME NEW y \in ToSet(s) PROVE y \in ToSet(u)
  <2>1. PICK i \in 1..Len(s) : y = s[i]
    BY <1>1 DEF ToSet
  <2>2. i \in DOMAIN u /\ u[i] = y
    BY <1>1, <2>1
  <2> QED BY <2>2 DEF ToSet
<1>6. ASSUME NEW y \in ToSet(t) PROVE y \in ToSet(u)
  <2>1. PICK i \in DOMAIN t : y = t[i]
    BY DEF ToSet
  <2>2. i + Len(s) \in DOMAIN u /\ u[i + Len(s)] = y
    BY <1>2, <2>1
  <2> QED BY <2>2 DEF ToSet
<1>7. \A y : y \in ToSet(u) <=> y \in ToSet(s) \/ y \in ToSet(t)
  BY <1>4, <1>5, <1>6
<1> QED BY <1>7 DEF u

\* One element, and none.
LEMMA SmallSets ==
  /\ \A x, y : y \in ToSet(<<x>>) <=> y = x
  /\ \A y : y \notin ToSet(<<>>)
  /\ \A R, x : Pairs(R, <<x>>)
  /\ \A R : Pairs(R, <<>>)
<1>1. ASSUME NEW x PROVE DOMAIN <<x>> = 1..1 /\ <<x>>[1] = x
  OBVIOUS
<1>2. \A x, y : y \in ToSet(<<x>>) <=> y = x
  BY <1>1 DEF ToSet
<1>3. \A R, x : Pairs(R, <<x>>)
  BY <1>1 DEF Pairs
<1>4. DOMAIN <<>> = {}
  OBVIOUS
<1> QED BY <1>2, <1>3, <1>4 DEF ToSet, Pairs

\* A sequence of members of a set.
LEMMA SetOfSeq ==
  ASSUME NEW S, NEW s \in Seq(S)
  PROVE  \A y \in ToSet(s) : y \in S
BY DEF ToSet

\* Its members, by their places.
LEMMA SeqMembers ==
  ASSUME NEW S, NEW s \in Seq(S)
  PROVE  /\ DOMAIN s = 1..Len(s) /\ Len(s) \in Nat
         /\ \A i \in 1..Len(s) : s[i] \in S /\ s[i] \in ToSet(s)
         /\ \A y \in ToSet(s) : \E i \in 1..Len(s) : y = s[i]
<1>1. DOMAIN s = 1..Len(s) /\ Len(s) \in Nat /\ \A i \in 1..Len(s) : s[i] \in S
  OBVIOUS
<1> QED BY <1>1 DEF ToSet

\* Related pairs of two sequences, one after the other.
LEMMA ConcatPairs ==
  ASSUME NEW R, NEW S, NEW s \in Seq(S), NEW t \in Seq(S)
  PROVE  Pairs(R, s \o t) <=>
           /\ Pairs(R, s) /\ Pairs(R, t)
           /\ \A x \in ToSet(s), y \in ToSet(t) : <<x, y>> \in R
<1> DEFINE u == s \o t
<1>1. /\ DOMAIN s = 1..Len(s) /\ DOMAIN t = 1..Len(t) /\ Len(s) \in Nat /\ Len(t) \in Nat
      /\ DOMAIN u = 1..(Len(s) + Len(t))
      /\ \A i \in 1..Len(s) : u[i] = s[i]
      /\ \A i \in (Len(s) + 1)..(Len(s) + Len(t)) : u[i] = t[i - Len(s)]
  <2>1. u \in Seq(S) /\ Len(u) = Len(s) + Len(t)
    BY ConcatElements
  <2> QED BY <2>1, ConcatElements
<1> HIDE DEF u
<1>2. \A i \in DOMAIN t : i + Len(s) \in DOMAIN u /\ u[i + Len(s)] = t[i]
  BY <1>1
<1>3. ASSUME Pairs(R, u) PROVE Pairs(R, s)
  <2> SUFFICES ASSUME NEW i \in DOMAIN s, NEW j \in DOMAIN s, i < j PROVE <<s[i], s[j]>> \in R
    BY DEF Pairs
  <2>1. i \in DOMAIN u /\ j \in DOMAIN u /\ u[i] = s[i] /\ u[j] = s[j]
    BY <1>1
  <2> QED BY <2>1, <1>3 DEF Pairs
<1>4. ASSUME Pairs(R, u) PROVE Pairs(R, t)
  <2> SUFFICES ASSUME NEW i \in DOMAIN t, NEW j \in DOMAIN t, i < j PROVE <<t[i], t[j]>> \in R
    BY DEF Pairs
  <2>1. i + Len(s) \in DOMAIN u /\ j + Len(s) \in DOMAIN u /\ u[i + Len(s)] = t[i] /\ u[j + Len(s)] = t[j]
    BY <1>2
  <2>2. i + Len(s) < j + Len(s)
    BY <1>1
  <2> QED BY <2>1, <2>2, <1>4 DEF Pairs
<1>5. ASSUME Pairs(R, u), NEW x \in ToSet(s), NEW y \in ToSet(t) PROVE <<x, y>> \in R
  <2>1. PICK i \in DOMAIN s, j \in DOMAIN t : x = s[i] /\ y = t[j]
    BY DEF ToSet
  <2>2. i \in DOMAIN u /\ j + Len(s) \in DOMAIN u /\ u[i] = x /\ u[j + Len(s)] = y /\ i < j + Len(s)
    BY <1>1, <1>2, <2>1
  <2> QED BY <2>2, <1>5 DEF Pairs
<1>6. ASSUME Pairs(R, s), Pairs(R, t), \A x \in ToSet(s), y \in ToSet(t) : <<x, y>> \in R
      PROVE  Pairs(R, u)
  <2> SUFFICES ASSUME NEW i \in DOMAIN u, NEW j \in DOMAIN u, i < j PROVE <<u[i], u[j]>> \in R
    BY DEF Pairs
  <2>1. CASE j \in DOMAIN s
    <3>1. i \in DOMAIN s /\ u[i] = s[i] /\ u[j] = s[j]
      BY <1>1, <2>1
    <3> QED BY <3>1, <2>1, <1>6 DEF Pairs
  <2>2. CASE i \in DOMAIN s /\ j \notin DOMAIN s
    <3>1. u[i] = s[i] /\ u[j] = t[j - Len(s)] /\ j - Len(s) \in DOMAIN t
      BY <1>1, <2>2
    <3>2. u[i] \in ToSet(s) /\ u[j] \in ToSet(t)
      BY <3>1, <2>2 DEF ToSet
    <3> QED BY <3>2, <1>6
  <2>3. CASE i \notin DOMAIN s
    <3>1. /\ u[i] = t[i - Len(s)] /\ i - Len(s) \in DOMAIN t
          /\ u[j] = t[j - Len(s)] /\ j - Len(s) \in DOMAIN t /\ i - Len(s) < j - Len(s)
      BY <1>1, <2>3
    <3> QED BY <3>1, <1>6 DEF Pairs
  <2> QED BY <1>1, <2>1, <2>2, <2>3
<1> QED BY <1>3, <1>4, <1>5, <1>6 DEF u

\* And of a sequence that is one longer.
LEMMA AppendPairs ==
  ASSUME NEW R, NEW S, NEW s \in Seq(S), NEW x \in S
  PROVE  Pairs(R, Append(s, x)) <=> Pairs(R, s) /\ \A y \in ToSet(s) : <<y, x>> \in R
<1>1. <<x>> \in Seq(S) /\ Append(s, x) = s \o <<x>>
  OBVIOUS
<1>2. \A y : y \in ToSet(<<x>>) <=> y = x
  BY SmallSets
<1>3. Pairs(R, <<x>>)
  BY SmallSets
<1> DEFINE t == <<x>>
<1> HIDE DEF t
<1>4. Pairs(R, s \o t) <=> Pairs(R, s) /\ Pairs(R, t) /\ \A a \in ToSet(s), b \in ToSet(t) : <<a, b>> \in R
  BY <1>1, ConcatPairs DEF t
<1> QED BY <1>1, <1>2, <1>3, <1>4 DEF t

\* A sequence is what is before and behind some place.
LEMMA CutSeq ==
  ASSUME NEW S, NEW s \in Seq(S), NEW n \in 0..Len(s)
  PROVE  /\ SubSeq(s, 1, n) \in Seq(S) /\ SubSeq(s, n + 1, Len(s)) \in Seq(S)
         /\ Len(SubSeq(s, 1, n)) = n /\ Len(SubSeq(s, n + 1, Len(s))) = Len(s) - n
         /\ s = SubSeq(s, 1, n) \o SubSeq(s, n + 1, Len(s))
         /\ \A i \in 1..n : SubSeq(s, 1, n)[i] = s[i]
         /\ \A i \in 1..(Len(s) - n) : SubSeq(s, n + 1, Len(s))[i] = s[i + n]
<1> DEFINE a == SubSeq(s, 1, n)
           b == SubSeq(s, n + 1, Len(s))
<1>1. a \in Seq(S) /\ Len(a) = n /\ \A i \in 1..n : a[i] = s[i]
  OBVIOUS
<1>2. b \in Seq(S) /\ Len(b) = Len(s) - n /\ \A i \in 1..(Len(s) - n) : b[i] = s[i + n]
  OBVIOUS
<1> HIDE DEF a, b
<1> DEFINE c == a \o b
<1>3. /\ c \in Seq(S) /\ Len(c) = Len(a) + Len(b)
      /\ \A i \in 1..Len(a) : c[i] = a[i]
      /\ \A i \in (Len(a) + 1)..(Len(a) + Len(b)) : c[i] = b[i - Len(a)]
  <2>1. a \in Seq(S) /\ b \in Seq(S)
    BY <1>1, <1>2
  <2> QED BY <2>1, ConcatElements
<1> HIDE DEF c
<1>4. Len(c) = Len(s) /\ \A i \in 1..Len(s) : c[i] = s[i]
  <2>1. Len(s) \in Nat /\ n \in Nat /\ n <= Len(s) /\ Len(c) = Len(s)
    BY <1>1, <1>2, <1>3
  <2>2. ASSUME NEW i \in 1..n PROVE c[i] = s[i]
    BY <1>1, <1>3
  <2>3. ASSUME NEW i \in (n + 1)..Len(s) PROVE c[i] = s[i]
    <3>1. i - n \in 1..(Len(s) - n) /\ (i - n) + n = i
      BY <2>1
    <3>2. b[i - n] = s[i]
      BY <1>2, <3>1
    <3> QED BY <1>1, <1>2, <1>3, <2>1, <3>2
  <2> QED BY <2>1, <2>2, <2>3
<1>5. s = c
  BY <1>3, <1>4
<1> QED BY <1>1, <1>2, <1>5 DEF a, b, c

-----------------------------------------------------------------------------
(* Sorting. *)

SortedR == {p \in Elem \X Elem : p[1].l <= p[2].l}

Sorted(s) == Pairs(SortedR, s)

\* The members of an element are numbers.
LEMMA ElemIs ==
  ASSUME NEW e \in Elem
  PROVE  /\ e.l \in 0..MaxKey /\ e.r \in 0..MaxKey /\ e.k \in BOOLEAN /\ e.l <= e.r
         /\ e.l \in Int /\ e.r \in Int
         /\ e = [l |-> e.l, r |-> e.r, k |-> e.k]
         /\ Bare(e) \in Interval
  BY IntervalsAssumption DEF Elem, Bare, Ival, Interval

\* Two elements in order.
LEMMA SortedPair ==
  ASSUME NEW x \in Elem, NEW y \in Elem
  PROVE  <<x, y>> \in SortedR <=> x.l <= y.l
<1>1. <<x, y>> \in Elem \X Elem
  OBVIOUS
<1> QED BY <1>1 DEF SortedR

\* Of a sorted list, the elements that begin at a key or before it are the first.
LEMMA UpToFacts ==
  ASSUME NEW s \in Seq(Elem), Sorted(s), NEW v \in Int
  PROVE  /\ UpTo(s, v) \in 0..Len(s)
         /\ \A i \in 1..UpTo(s, v) : s[i].l <= v
         /\ \A i \in (UpTo(s, v) + 1)..Len(s) : s[i].l > v
<1>1. Len(s) \in Nat /\ DOMAIN s = 1..Len(s) /\ \A i \in 1..Len(s) : s[i] \in Elem /\ s[i].l \in Int
  BY ElemIs
<1>2. ASSUME NEW i \in 1..Len(s), NEW j \in 1..Len(s), i < j PROVE s[i].l <= s[j].l
  <2>1. <<s[i], s[j]>> \in SortedR
    BY <1>1, <1>2 DEF Sorted, Pairs
  <2> QED BY <1>1, <2>1, SortedPair
<1> DEFINE Cut(n, m) == n \in 0..m /\ (\A i \in 1..n : s[i].l <= v) /\ (\A i \in (n + 1)..m : s[i].l > v)
           E == {m \in Nat : m <= Len(s) => \E n \in Nat : Cut(n, m)}
<1>3. 0 \in E
  <2>1. Cut(0, 0)
    OBVIOUS
  <2> QED BY <2>1
<1>4. ASSUME NEW m \in Nat, m \in E PROVE m + 1 \in E
  <2> SUFFICES ASSUME m + 1 <= Len(s) PROVE \E n \in Nat : Cut(n, m + 1)
    OBVIOUS
  <2>1. PICK n \in Nat : Cut(n, m)
    BY <1>1, <1>4
  <2>2. CASE s[m + 1].l <= v
    <3>1. ASSUME NEW i \in 1..(m + 1) PROVE s[i].l <= v
      <4>1. CASE i = m + 1
        BY <2>2, <4>1
      <4>2. CASE i # m + 1
        <5>1. s[i].l <= s[m + 1].l
          BY <1>1, <1>2, <4>2
        <5>2. i \in 1..Len(s) /\ m + 1 \in 1..Len(s)
          BY <1>1
        <5> QED BY <1>1, <2>2, <5>1, <5>2
      <4> QED BY <4>1, <4>2
    <3>2. Cut(m + 1, m + 1)
      BY <3>1
    <3> QED BY <3>2
  <2>3. CASE ~(s[m + 1].l <= v)
    <3>1. Cut(n, m + 1)
      <4>1. m + 1 \in 1..Len(s)
        BY <1>1
      <4>2. s[m + 1].l > v
        BY <1>1, <2>3, <4>1
      <4> QED BY <2>1, <4>2
    <3> QED BY <3>1
  <2> QED BY <2>2, <2>3
<1> HIDE DEF E
<1>5. Nat \subseteq E
  BY <1>3, <1>4, SetInduction
<1>6. PICK n \in Nat : Cut(n, Len(s))
  <2>1. Len(s) \in E /\ Len(s) \in Nat
    BY <1>1, <1>5
  <2> QED BY <2>1 DEF E
<1>7. {i \in DOMAIN s : s[i].l <= v} = 1..n
  <2>1. ASSUME NEW i \in DOMAIN s, s[i].l <= v PROVE i \in 1..n
    BY <1>1, <1>6, <2>1
  <2> QED BY <1>1, <1>6, <2>1
<1>8. Cardinality(1..n) = n
  BY FS_Interval, SMT
<1> QED BY <1>6, <1>7, <1>8 DEF UpTo

\* A list with an element put behind some place.
Put(s, n, x) == SubSeq(s, 1, n) \o <<x>> \o SubSeq(s, n + 1, Len(s))

\* Its elements, and its order.
LEMMA PutFacts ==
  ASSUME NEW S, NEW R, NEW s \in Seq(S), NEW n \in 0..Len(s), NEW x \in S
  PROVE  /\ Put(s, n, x) \in Seq(S) /\ Len(Put(s, n, x)) = Len(s) + 1
         /\ \A y : y \in ToSet(Put(s, n, x)) <=> y \in ToSet(s) \/ y = x
         /\ /\ Pairs(R, s)
            /\ \A i \in 1..n : <<s[i], x>> \in R
            /\ \A i \in (n + 1)..Len(s) : <<x, s[i]>> \in R
            => Pairs(R, Put(s, n, x))
<1> DEFINE a == SubSeq(s, 1, n)
           b == SubSeq(s, n + 1, Len(s))
           c == a \o <<x>>
           t == c \o b
<1>1. /\ a \in Seq(S) /\ b \in Seq(S) /\ Len(a) = n /\ Len(b) = Len(s) - n /\ s = a \o b
      /\ \A i \in 1..n : a[i] = s[i]
      /\ \A i \in 1..(Len(s) - n) : b[i] = s[i + n]
  BY CutSeq, Zenon
<1>2. <<x>> \in Seq(S) /\ Len(<<x>>) = 1
  OBVIOUS
<1> HIDE DEF a, b
<1>3. c \in Seq(S) /\ Len(c) = n + 1 /\ c = Append(a, x)
  BY <1>1, <1>2
<1> HIDE DEF c
<1>4. t \in Seq(S) /\ Len(t) = Len(s) + 1
  BY <1>1, <1>3
<1>5. \A y : y \in ToSet(c) <=> y \in ToSet(a) \/ y = x
  BY <1>1, <1>3, AppendSet
<1>6. \A y : y \in ToSet(t) <=> y \in ToSet(c) \/ y \in ToSet(b)
  BY <1>1, <1>3, ConcatSet
<1>7. \A y : y \in ToSet(s) <=> y \in ToSet(a) \/ y \in ToSet(b)
  BY <1>1, ConcatSet
<1>8. ASSUME Pairs(R, s), \A i \in 1..n : <<s[i], x>> \in R, \A i \in (n + 1)..Len(s) : <<x, s[i]>> \in R
      PROVE  Pairs(R, t)
  <2>1. Pairs(R, a) /\ Pairs(R, b) /\ \A y \in ToSet(a), z \in ToSet(b) : <<y, z>> \in R
    BY <1>1, <1>8, ConcatPairs
  <2>2. \A y \in ToSet(a) : <<y, x>> \in R
    <3>1. DOMAIN a = 1..n
      BY <1>1
    <3> QED BY <1>1, <1>8, <3>1 DEF ToSet
  <2>3. ASSUME NEW z \in ToSet(b) PROVE <<x, z>> \in R
    <3>1. DOMAIN b = 1..(Len(s) - n)
      BY <1>1
    <3>2. PICK i \in 1..(Len(s) - n) : z = b[i]
      BY <3>1 DEF ToSet
    <3>3. z = s[i + n] /\ i + n \in (n + 1)..Len(s)
      BY <1>1, <3>2
    <3> QED BY <1>8, <3>3
  <2>4. Pairs(R, c)
    BY <1>1, <1>3, <2>1, <2>2, AppendPairs
  <2>5. \A y \in ToSet(c), z \in ToSet(b) : <<y, z>> \in R
    BY <1>5, <2>1, <2>3
  <2> QED BY <1>1, <1>3, <2>1, <2>4, <2>5, ConcatPairs
<1>9. t = Put(s, n, x)
  BY DEF t, c, a, b, Put
<1> HIDE DEF t
<1>10. \A y : y \in ToSet(t) <=> y \in ToSet(s) \/ y = x
  BY <1>5, <1>6, <1>7, Zenon
<1> QED BY <1>4, <1>8, <1>9, <1>10, Zenon

SortFold == INSTANCE FoldFacts WITH Op <- LAMBDA p, a, e : Insert(a, e)

\* list_expr_sort() is a fold.
LEMMA SortIs ==
  ASSUME NEW s
  PROVE  SortFold!Fold(0, <<>>, s) = ListExprSort(s)
BY Zenon DEF SortFold!Fold, ListExprSort, SortFold!FoldLeft, FoldLeft, SortFold!MapThenFoldSet, MapThenFoldSet,
  SortFold!Max, Max

Symmetric(R) == \A x, y : <<x, y>> \in R <=> <<y, x>> \in R

\* What it keeps: t is the sorted list of s.
IsSortOf(R, t, s) ==
  /\ t \in Seq(Elem) /\ Len(t) = Len(s) /\ Sorted(t)
  /\ \A y : y \in ToSet(t) <=> y \in ToSet(s)
  /\ Pairs(R, s) => Pairs(R, t)

\* One element more.
LEMMA InsertFacts ==
  ASSUME NEW R, Symmetric(R), NEW s \in Seq(Elem), NEW t, IsSortOf(R, t, s), NEW e \in Elem
  PROVE  IsSortOf(R, Insert(t, e), Append(s, e))
<1>1. t \in Seq(Elem) /\ Len(t) = Len(s) /\ Sorted(t) /\ e.l \in Int
  BY ElemIs DEF IsSortOf
<1> DEFINE n == UpTo(t, e.l)
           u == Put(t, n, e)
<1>2. n \in 0..Len(t) /\ (\A i \in 1..n : t[i].l <= e.l) /\ \A i \in (n + 1)..Len(t) : t[i].l > e.l
  BY <1>1, UpToFacts, Zenon
<1>3. Insert(t, e) = u
  <2>1. (n + 1) - 1 = n
    BY <1>1, <1>2
  <2> HIDE DEF n
  <2>2. InsertAt(t, n + 1, e) = SubSeq(t, 1, (n + 1) - 1) \o <<e>> \o SubSeq(t, n + 1, Len(t))
    BY DEF InsertAt
  <2> QED BY <2>1, <2>2 DEF Insert, n, Put
<1> HIDE DEF n
<1>4. /\ u \in Seq(Elem) /\ Len(u) = Len(t) + 1
      /\ \A y : y \in ToSet(u) <=> y \in ToSet(t) \/ y = e
      /\ /\ Pairs(R, t)
         /\ \A i \in 1..n : <<t[i], e>> \in R
         /\ \A i \in (n + 1)..Len(t) : <<e, t[i]>> \in R
         => Pairs(R, u)
  BY <1>1, <1>2, PutFacts, Zenon
<1>15. /\ Pairs(SortedR, t)
       /\ \A i \in 1..n : <<t[i], e>> \in SortedR
       /\ \A i \in (n + 1)..Len(t) : <<e, t[i]>> \in SortedR
       => Pairs(SortedR, u)
  BY <1>1, <1>2, PutFacts, Zenon
<1> HIDE DEF u
<1>5. \A i \in 1..Len(t) : t[i] \in Elem /\ t[i] \in ToSet(t) /\ t[i].l \in Int
  <2>1. DOMAIN t = 1..Len(t)
    BY <1>1
  <2> QED BY <1>1, <2>1, ElemIs DEF ToSet
<1>6. Sorted(u)
  <2>1. \A i \in 1..n : <<t[i], e>> \in SortedR
    BY <1>1, <1>2, <1>5, SortedPair
  <2>2. \A i \in (n + 1)..Len(t) : <<e, t[i]>> \in SortedR
    <3>1. ASSUME NEW i \in (n + 1)..Len(t) PROVE <<e, t[i]>> \in SortedR
      <4>1. i \in 1..Len(t) /\ t[i].l > e.l
        BY <1>1, <1>2
      <4>2. t[i] \in Elem /\ e.l <= t[i].l
        BY <1>1, <1>5, <4>1
      <4> QED BY <4>2, SortedPair
    <3> QED BY <3>1
  <2>3. Pairs(SortedR, t)
    BY <1>1 DEF Sorted
  <2>4. Pairs(SortedR, u)
    BY <1>15, <2>1, <2>2, <2>3, Zenon
  <2> QED BY <2>4 DEF Sorted
<1>7. \A y : y \in ToSet(Append(s, e)) <=> y \in ToSet(s) \/ y = e
  BY AppendSet
<1>8. \A y : y \in ToSet(t) <=> y \in ToSet(s)
  BY DEF IsSortOf
<1>9. ASSUME Pairs(R, Append(s, e)) PROVE Pairs(R, u)
  <2>1. Pairs(R, s) /\ \A y \in ToSet(s) : <<y, e>> \in R
    BY <1>9, AppendPairs
  <2>2. Pairs(R, t)
    BY <2>1 DEF IsSortOf
  <2>3. \A i \in 1..Len(t) : <<t[i], e>> \in R /\ <<e, t[i]>> \in R
    BY <1>5, <1>8, <2>1 DEF Symmetric
  <2>4. (\A i \in 1..n : i \in 1..Len(t)) /\ \A i \in (n + 1)..Len(t) : i \in 1..Len(t)
    BY <1>1, <1>2
  <2>5. (\A i \in 1..n : <<t[i], e>> \in R) /\ \A i \in (n + 1)..Len(t) : <<e, t[i]>> \in R
    BY <2>3, <2>4
  <2> QED BY <1>4, <2>2, <2>5, Zenon
<1>10. Len(u) = Len(Append(s, e))
  BY <1>1, <1>4
<1>11. \A y : y \in ToSet(u) <=> y \in ToSet(Append(s, e))
  BY <1>4, <1>7, <1>8, Zenon
<1>12. u \in Seq(Elem)
  BY <1>4
<1>13. IsSortOf(R, u, Append(s, e))
  BY <1>6, <1>9, <1>10, <1>11, <1>12, Zenon DEF IsSortOf
<1> QED BY <1>3, <1>13, Zenon

\* list_expr_sort() gives the same elements in order, and a symmetric relation
\* between all of them still is one.
LEMMA SortFacts ==
  ASSUME NEW R, Symmetric(R), NEW s \in Seq(Elem)
  PROVE  IsSortOf(R, ListExprSort(s), s)
<1> DEFINE f(u) == SortFold!Fold(0, <<>>, u)
           T == {u \in Seq(Elem) : IsSortOf(R, f(u), u)}
<1>1. <<>> \in T
  <2>1. f(<<>>) = <<>>
    BY SortFold!FoldEmpty
  <2>2. IsSortOf(R, <<>>, <<>>)
    <3> DEFINE e == <<>>
    <3>1. e \in Seq(Elem)
      OBVIOUS
    <3>2. Sorted(e)
      BY SmallSets, Zenon DEF Sorted
    <3> HIDE DEF e
    <3>3. IsSortOf(R, e, e)
      BY <3>1, <3>2, Zenon DEF IsSortOf
    <3> QED BY <3>3 DEF e
  <2> QED BY <2>1, <2>2
<1>2. \A u \in Seq(Elem) : \A x \in Elem : u \in T => Append(u, x) \in T
  <2> SUFFICES ASSUME NEW u \in Seq(Elem), NEW x \in Elem, u \in T PROVE Append(u, x) \in T
    OBVIOUS
  <2> DEFINE v == Append(u, x)
  <2>1. SortFold!IsAppend(v, u, x)
    BY DEF SortFold!IsAppend
  <2> HIDE DEF v
  <2>2. f(v) = Insert(f(u), x)
    BY <2>1, SortFold!FoldAppend
  <2> HIDE DEF f
  <2>3. IsSortOf(R, Insert(f(u), x), Append(u, x))
    BY InsertFacts
  <2>4. Append(u, x) \in Seq(Elem)
    OBVIOUS
  <2> QED BY <2>2, <2>3, <2>4 DEF v
<1> HIDE DEF T
<1>3. Seq(Elem) \subseteq T
  BY <1>1, <1>2, SeqInduction
<1>4. IsSortOf(R, f(s), s)
  BY <1>3 DEF T
<1> QED BY <1>4, SortIs

-----------------------------------------------------------------------------
(* Splicing. *)

\* The place of an element in the rest of the other list: behind the first n.
Place(rest, e, n) ==
  /\ n \in 0..Len(rest)
  /\ \A j \in 1..n : rest[j].l < e.l
  /\ n < Len(rest) => rest[n + 1].l >= e.l

\* There always is one.
LEMMA PlaceExists ==
  ASSUME NEW rest \in Seq(Elem), NEW e \in Elem
  PROVE  \E n \in 0..Len(rest) : Place(rest, e, n)
<1>1. Len(rest) \in Nat /\ e.l \in Int /\ \A i \in 1..Len(rest) : rest[i].l \in Int
  BY ElemIs
<1> DEFINE E == {m \in Nat : m <= Len(rest) => (\E n \in 0..Len(rest) : Place(rest, e, n))
                                                 \/ \A j \in 1..m : rest[j].l < e.l}
<1>2. 0 \in E
  OBVIOUS
<1>3. ASSUME NEW m \in Nat, m \in E PROVE m + 1 \in E
  <2> SUFFICES ASSUME m + 1 <= Len(rest), ~\E n \in 0..Len(rest) : Place(rest, e, n)
               PROVE  \A j \in 1..(m + 1) : rest[j].l < e.l
    OBVIOUS
  <2>1. \A j \in 1..m : rest[j].l < e.l
    BY <1>1, <1>3
  <2>2. m \in 0..Len(rest) /\ m < Len(rest) /\ m + 1 \in 1..Len(rest)
    BY <1>1
  <2>3. ~(rest[m + 1].l >= e.l)
    BY <2>1, <2>2 DEF Place
  <2>4. rest[m + 1].l < e.l
    BY <1>1, <2>2, <2>3
  <2>5. \A j \in 1..(m + 1) : j \in 1..m \/ j = m + 1
    OBVIOUS
  <2> QED BY <2>1, <2>4, <2>5
<1> HIDE DEF E
<1>4. Len(rest) \in E
  BY <1>1, <1>2, <1>3, SetInduction
<1>5. (\A j \in 1..Len(rest) : rest[j].l < e.l) => Place(rest, e, Len(rest))
  BY <1>1 DEF Place
<1>6. Len(rest) \in 0..Len(rest)
  BY <1>1
<1> QED BY <1>4, <1>5, <1>6 DEF E

\* One element more in the list.
LEMMA SpliceOne ==
  ASSUME NEW acc \in [out : Seq(Elem), rest : Seq(Elem)], NEW e \in Elem
  PROVE  \E n \in 0..Len(acc.rest) :
           /\ Place(acc.rest, e, n)
           /\ Splice(acc, e) = [out  |-> acc.out \o SubSeq(acc.rest, 1, n) \o <<e>>,
                                rest |-> SubSeq(acc.rest, n + 1, Len(acc.rest))]
<1> DEFINE rest == acc.rest
           P(i) == (\A j \in 1..i : rest[j].l < e.l) /\ (i < Len(rest) => rest[i + 1].l >= e.l)
           n == CHOOSE i \in 0..Len(rest) : P(i)
<1>1. \E i \in 0..Len(rest) : P(i)
  <2>1. \E i \in 0..Len(rest) : Place(rest, e, i)
    BY PlaceExists
  <2> QED BY <2>1 DEF Place
<1>2. n \in 0..Len(rest) /\ P(n)
  <2> HIDE DEF P
  <2> QED BY <1>1
<1>3. Place(rest, e, n)
  BY <1>2 DEF Place
<1>4. Splice(acc, e) = [out |-> acc.out \o SubSeq(rest, 1, n) \o <<e>>, rest |-> SubSeq(rest, n + 1, Len(rest))]
  BY DEF Splice
<1> QED BY <1>2, <1>3, <1>4, Zenon

\* Every element of one list is related to every element of the other.
Across(R, s, t) == \A x \in ToSet(s), y \in ToSet(t) : <<x, y>> \in R

\* Both lists together, while the elements of s are put between those of head.
IsSpliceOf(R, acc, s, head) ==
  /\ acc \in [out : Seq(Elem), rest : Seq(Elem)]
  /\ \A y : y \in ToSet(acc.out \o acc.rest) <=> y \in ToSet(s) \/ y \in ToSet(head)
  /\ \A x \in ToSet(acc.out) : \E y \in ToSet(s) : x.l <= y.l
  /\ Sorted(s) /\ Sorted(head) => Sorted(acc.out \o acc.rest)
  /\ Symmetric(R) /\ Pairs(R, s) /\ Pairs(R, head) /\ Across(R, s, head)
       => Pairs(R, acc.out \o acc.rest)

\* The two lists as one, with the new element in its place.
LEMMA SpliceIsPut ==
  ASSUME NEW out \in Seq(Elem), NEW rest \in Seq(Elem), NEW e \in Elem, NEW n \in 0..Len(rest)
  PROVE  /\ (out \o SubSeq(rest, 1, n) \o <<e>>) \o SubSeq(rest, n + 1, Len(rest)) = Put(out \o rest, Len(out) + n, e)
         /\ out \o SubSeq(rest, 1, n) \o <<e>> \in Seq(Elem)
         /\ SubSeq(rest, n + 1, Len(rest)) \in Seq(Elem)
         /\ \A y : y \in ToSet(out \o SubSeq(rest, 1, n) \o <<e>>) <=>
                     y \in ToSet(out) \/ y \in ToSet(SubSeq(rest, 1, n)) \/ y = e
<1> DEFINE a == SubSeq(rest, 1, n)
           b == SubSeq(rest, n + 1, Len(rest))
           w == out \o rest
           m == Len(out) + n
<1>1. /\ a \in Seq(Elem) /\ b \in Seq(Elem) /\ Len(a) = n /\ Len(b) = Len(rest) - n
      /\ \A i \in 1..n : a[i] = rest[i]
      /\ \A i \in 1..(Len(rest) - n) : b[i] = rest[i + n]
  BY CutSeq, Zenon
<1>2. /\ w \in Seq(Elem) /\ Len(w) = Len(out) + Len(rest)
      /\ \A i \in 1..Len(out) : w[i] = out[i]
      /\ \A i \in (Len(out) + 1)..(Len(out) + Len(rest)) : w[i] = rest[i - Len(out)]
  BY ConcatElements
<1>3. Len(out) \in Nat /\ Len(rest) \in Nat /\ n \in Nat /\ m \in 0..Len(w)
  BY <1>2
<1> HIDE DEF a, b, w
<1>12. /\ out \o a \in Seq(Elem) /\ Len(out \o a) = Len(out) + Len(a)
       /\ \A i \in 1..Len(out) : (out \o a)[i] = out[i]
       /\ \A i \in (Len(out) + 1)..(Len(out) + Len(a)) : (out \o a)[i] = a[i - Len(out)]
  <2>1. a \in Seq(Elem)
    BY <1>1
  <2> QED BY <2>1, ConcatElements
<1>4. out \o a \in Seq(Elem) /\ Len(out \o a) = m
  BY <1>1, <1>12
<1>5. out \o a = SubSeq(w, 1, m)
  <2> DEFINE c == SubSeq(w, 1, m)
             d == out \o a
  <2>1. c \in Seq(Elem) /\ Len(c) = m /\ \A i \in 1..m : c[i] = w[i]
    BY <1>2, <1>3
  <2>2. /\ d \in Seq(Elem) /\ Len(d) = m
        /\ \A i \in 1..Len(out) : d[i] = out[i]
        /\ \A i \in (Len(out) + 1)..(Len(out) + n) : d[i] = a[i - Len(out)]
    BY <1>1, <1>12
  <2> HIDE DEF c, d
  <2>3. ASSUME NEW i \in 1..Len(out) PROVE d[i] = c[i]
    BY <1>2, <1>3, <2>1, <2>2
  <2>4. ASSUME NEW i \in (Len(out) + 1)..(Len(out) + n) PROVE d[i] = c[i]
    <3>1. i - Len(out) \in 1..n /\ i \in (Len(out) + 1)..(Len(out) + Len(rest)) /\ i \in 1..m
      BY <1>3
    <3>2. d[i] = rest[i - Len(out)]
      BY <1>1, <2>2, <3>1
    <3>3. c[i] = rest[i - Len(out)]
      BY <1>2, <2>1, <3>1
    <3> QED BY <3>2, <3>3
  <2>5. \A i \in 1..m : d[i] = c[i]
    BY <1>3, <2>3, <2>4
  <2>6. d = c
    BY <2>1, <2>2, <2>5
  <2> QED BY <2>6 DEF c, d
<1>6. b = SubSeq(w, m + 1, Len(w))
  <2> DEFINE c == SubSeq(w, m + 1, Len(w))
  <2>1. c \in Seq(Elem) /\ Len(c) = Len(w) - m /\ \A i \in 1..(Len(w) - m) : c[i] = w[i + m]
    BY <1>2, <1>3, CutSeq
  <2> HIDE DEF c
  <2>2. Len(c) = Len(b) /\ Len(b) = Len(rest) - n
    BY <1>1, <1>2, <1>3, <2>1
  <2>3. ASSUME NEW i \in 1..(Len(rest) - n) PROVE c[i] = b[i]
    <3>1. c[i] = w[i + m]
      BY <1>1, <2>1, <2>2
    <3>2. i + m \in (Len(out) + 1)..(Len(out) + Len(rest)) /\ (i + m) - Len(out) = i + n
      BY <1>3
    <3>3. w[i + m] = rest[i + n]
      BY <1>2, <3>2
    <3> QED BY <1>1, <3>1, <3>3
  <2>4. c = b
    <3>1. b \in Seq(Elem) /\ c \in Seq(Elem) /\ Len(c) = Len(b)
      BY <1>1, <2>1, <2>2
    <3>2. \A i \in 1..Len(b) : c[i] = b[i]
      BY <2>2, <2>3
    <3> QED BY <3>1, <3>2
  <2> QED BY <2>4 DEF c
<1>7. (out \o a \o <<e>>) \o b = Put(w, m, e)
  BY <1>5, <1>6, Zenon DEF Put
<1>8. out \o a \o <<e>> \in Seq(Elem) /\ out \o a \o <<e>> = Append(out \o a, e)
  BY <1>4
<1>9. \A y : y \in ToSet(out \o a) <=> y \in ToSet(out) \/ y \in ToSet(a)
  BY <1>1, ConcatSet
<1>10. \A y : y \in ToSet(Append(out \o a, e)) <=> y \in ToSet(out \o a) \/ y = e
  <2> DEFINE d == out \o a
  <2>1. d \in Seq(Elem)
    BY <1>4
  <2> HIDE DEF d
  <2>2. \A y : y \in ToSet(Append(d, e)) <=> y \in ToSet(d) \/ y = e
    BY <2>1, AppendSet
  <2> QED BY <2>2 DEF d
<1>11. \A y : y \in ToSet(out \o a \o <<e>>) <=> y \in ToSet(out) \/ y \in ToSet(a) \/ y = e
  BY <1>8, <1>9, <1>10, Zenon
<1> QED BY <1>1, <1>7, <1>8, <1>11, Zenon DEF a, b, w

\* Splice() keeps what is said of the two lists.
LEMMA SpliceStep ==
  ASSUME NEW R, NEW s \in Seq(Elem), NEW head \in Seq(Elem), NEW acc, IsSpliceOf(R, acc, s, head),
         NEW e \in Elem
  PROVE  IsSpliceOf(R, Splice(acc, e), Append(s, e), head)
<1> DEFINE out == acc.out
           rest == acc.rest
           t == Append(s, e)
           next == Splice(acc, e)
<1>1. acc \in [out : Seq(Elem), rest : Seq(Elem)] /\ out \in Seq(Elem) /\ rest \in Seq(Elem)
  BY DEF IsSpliceOf
<1>2. PICK n \in 0..Len(rest) :
        /\ Place(rest, e, n)
        /\ next = [out |-> out \o SubSeq(rest, 1, n) \o <<e>>, rest |-> SubSeq(rest, n + 1, Len(rest))]
  BY <1>1, SpliceOne, Zenon
<1> DEFINE w == out \o rest
           m == Len(out) + n
           w2 == next.out \o next.rest
<1> HIDE DEF next
<1>3. /\ w2 = Put(w, m, e)
      /\ next.out \in Seq(Elem) /\ next.rest \in Seq(Elem)
      /\ \A y : y \in ToSet(next.out) <=> y \in ToSet(out) \/ y \in ToSet(SubSeq(rest, 1, n)) \/ y = e
  <2> DEFINE o == out \o SubSeq(rest, 1, n) \o <<e>>
             q == SubSeq(rest, n + 1, Len(rest))
  <2>1. /\ o \o q = Put(w, m, e)
        /\ o \in Seq(Elem) /\ q \in Seq(Elem)
        /\ \A y : y \in ToSet(o) <=> y \in ToSet(out) \/ y \in ToSet(SubSeq(rest, 1, n)) \/ y = e
    BY <1>1, <1>2, SpliceIsPut, Zenon
  <2> HIDE DEF o, q, w, m
  <2>2. next = [out |-> o, rest |-> q]
    BY <1>2 DEF o, q
  <2>3. next.out = o /\ next.rest = q
    BY <2>2
  <2> QED BY <2>1, <2>3, Zenon
<1>4. next \in [out : Seq(Elem), rest : Seq(Elem)]
  <2>1. next = [out |-> next.out, rest |-> next.rest]
    BY <1>2
  <2> QED BY <1>3, <2>1
<1>5. /\ w \in Seq(Elem) /\ Len(w) = Len(out) + Len(rest)
      /\ \A i \in 1..Len(out) : w[i] = out[i]
      /\ \A i \in (Len(out) + 1)..(Len(out) + Len(rest)) : w[i] = rest[i - Len(out)]
  BY <1>1, ConcatElements
<1>6. Len(out) \in Nat /\ Len(rest) \in Nat /\ n \in Nat /\ m \in 0..Len(w) /\ Len(w) \in Nat
  BY <1>1, <1>5
<1>7. \A i \in 1..Len(w) : w[i] \in Elem /\ w[i] \in ToSet(w)
  <2> HIDE DEF w
  <2>1. w \in Seq(Elem)
    BY <1>5
  <2> QED BY <2>1, SeqMembers
<1>16. m = Len(out) + n /\ Len(w) = Len(out) + Len(rest)
  BY <1>5
<1> HIDE DEF w, m
<1>8. \A y : y \in ToSet(w2) <=> y \in ToSet(w) \/ y = e
  <2> HIDE DEF w2
  <2>1. \A y : y \in ToSet(Put(w, m, e)) <=> y \in ToSet(w) \/ y = e
    BY <1>5, <1>6, PutFacts
  <2> QED BY <1>3, <2>1
<1>9. ASSUME NEW Q, Pairs(Q, w), \A i \in 1..m : <<w[i], e>> \in Q, \A i \in (m + 1)..Len(w) : <<e, w[i]>> \in Q
      PROVE  Pairs(Q, w2)
  <2> HIDE DEF w2
  <2>1. Pairs(Q, Put(w, m, e))
    BY <1>5, <1>6, <1>9, PutFacts
  <2> QED BY <1>3, <2>1
<1>10. \A y : y \in ToSet(t) <=> y \in ToSet(s) \/ y = e
  BY AppendSet
<1>11. \A y : y \in ToSet(w2) <=> y \in ToSet(t) \/ y \in ToSet(head)
  <2>1. \A y : y \in ToSet(w) <=> y \in ToSet(s) \/ y \in ToSet(head)
    BY DEF IsSpliceOf, w
  <2> QED BY <1>8, <1>10, <2>1, Zenon
<1>12. e.l \in Int /\ e.l <= e.l /\ \A i \in 1..Len(rest) : rest[i] \in Elem /\ rest[i].l \in Int
  BY <1>1, ElemIs
<1>13. \A x \in ToSet(next.out) : \E y \in ToSet(t) : x.l <= y.l
  <2> SUFFICES ASSUME NEW x \in ToSet(next.out) PROVE \E y \in ToSet(t) : x.l <= y.l
    OBVIOUS
  <2>1. CASE x \in ToSet(out)
    <3>1. \E y \in ToSet(s) : x.l <= y.l
      BY <2>1 DEF IsSpliceOf
    <3> QED BY <3>1, <1>10
  <2>2. CASE x \in ToSet(SubSeq(rest, 1, n))
    <3>1. PICK i \in 1..n : x = rest[i]
      <4> DEFINE a == SubSeq(rest, 1, n)
      <4>1. a \in Seq(Elem) /\ Len(a) = n /\ \A i \in 1..n : a[i] = rest[i]
        BY <1>1, CutSeq
      <4> HIDE DEF a
      <4>2. DOMAIN a = 1..n
        BY <4>1
      <4> QED BY <2>2, <4>1, <4>2 DEF ToSet, a
    <3>2. x.l < e.l /\ x.l \in Int
      BY <1>2, <1>6, <1>12, <3>1 DEF Place
    <3> QED BY <1>10, <1>12, <3>2
  <2>3. CASE x = e
    BY <2>3, <1>10, <1>12
  <2> QED BY <1>3, <2>1, <2>2, <2>3
<1>14. ASSUME Sorted(t), Sorted(head) PROVE Sorted(w2)
  <2>1. Sorted(s) /\ \A y \in ToSet(s) : <<y, e>> \in SortedR
    BY <1>14, AppendPairs DEF Sorted
  <2>2. Pairs(SortedR, w)
    BY <2>1, <1>14 DEF IsSpliceOf, Sorted, w
  <2>3. ASSUME NEW i \in 1..m PROVE <<w[i], e>> \in SortedR
    <3>1. CASE i \in 1..Len(out)
      <4>1. w[i] \in ToSet(out)
        <5>1. DOMAIN out = 1..Len(out)
          BY <1>1
        <5> QED BY <1>5, <3>1, <5>1 DEF ToSet
      <4>2. PICK y \in ToSet(s) : w[i].l <= y.l
        BY <4>1 DEF IsSpliceOf
      <4>3. y \in Elem /\ w[i] \in Elem
        <5>1. y \in Elem
          BY SetOfSeq
        <5>2. i \in 1..Len(w)
          BY <1>6
        <5> QED BY <1>7, <5>1, <5>2
      <4>4. y.l <= e.l
        BY <2>1, <4>3, SortedPair
      <4>5. w[i].l <= e.l
        BY <1>12, <4>2, <4>3, <4>4, ElemIs
      <4> QED BY <4>3, <4>5, SortedPair
    <3>2. CASE i \notin 1..Len(out)
      <4>1. i \in (Len(out) + 1)..(Len(out) + Len(rest)) /\ i - Len(out) \in 1..n /\ i \in 1..Len(w)
            /\ i - Len(out) \in 1..Len(rest)
        <5> HIDE DEF out, rest
        <5>1. i \in Int /\ m \in Int /\ i <= m /\ Len(out) < i
          BY <1>6, <3>2
        <5> QED BY <1>6, <1>16, <5>1
      <4>2. w[i] = rest[i - Len(out)] /\ rest[i - Len(out)].l < e.l
        BY <1>2, <1>5, <4>1 DEF Place
      <4>3. w[i].l <= e.l
        BY <1>12, <4>1, <4>2
      <4> QED BY <1>7, <4>1, <4>3, SortedPair
    <3> QED BY <3>1, <3>2
  <2>4. ASSUME NEW i \in (m + 1)..Len(w) PROVE <<e, w[i]>> \in SortedR
    <3>1. m + 1 \in (Len(out) + 1)..(Len(out) + Len(rest)) /\ (m + 1) - Len(out) = n + 1 /\ n < Len(rest)
          /\ m + 1 \in 1..Len(w) /\ i \in 1..Len(w) /\ i >= m + 1
      <4> HIDE DEF out, rest
      <4>1. i \in Int /\ m \in Int /\ m + 1 <= i /\ i <= Len(w)
        BY <1>6
      <4> QED BY <1>6, <1>16, <4>1
    <3>2. w[m + 1].l >= e.l
      BY <1>2, <1>5, <3>1 DEF Place
    <3>3. w[m + 1] \in Elem /\ w[i] \in Elem
      BY <1>7, <3>1
    <3>4. w[m + 1].l <= w[i].l
      <4>1. CASE i = m + 1
        BY <3>3, <4>1, ElemIs
      <4>2. CASE i # m + 1
        <5>1. DOMAIN w = 1..Len(w)
          BY <1>5
        <5>2. m + 1 < i
          BY <1>6, <3>1, <4>2
        <5>3. <<w[m + 1], w[i]>> \in SortedR
          BY <2>2, <3>1, <5>1, <5>2 DEF Pairs
        <5> QED BY <3>3, <5>3, SortedPair
      <4> QED BY <4>1, <4>2
    <3>5. e.l <= w[i].l
      BY <1>12, <3>2, <3>3, <3>4, ElemIs
    <3> QED BY <3>3, <3>5, SortedPair
  <2>5. Pairs(SortedR, w2)
    BY <1>9, <2>2, <2>3, <2>4, Zenon
  <2> QED BY <2>5 DEF Sorted
<1>15. ASSUME Symmetric(R), Pairs(R, t), Pairs(R, head), Across(R, t, head)
       PROVE  Pairs(R, w2)
  <2>1. Pairs(R, s) /\ \A y \in ToSet(s) : <<y, e>> \in R
    BY <1>15, AppendPairs
  <2>6. Across(R, s, head)
    BY <1>10, <1>15 DEF Across
  <2>2. Pairs(R, w)
    BY <1>15, <2>1, <2>6 DEF IsSpliceOf, w
  <2>3. \A y \in ToSet(w) : <<e, y>> \in R /\ <<y, e>> \in R
    <3>1. \A y \in ToSet(w) : y \in ToSet(s) \/ y \in ToSet(head)
      BY DEF IsSpliceOf, w
    <3>2. \A y \in ToSet(head) : <<e, y>> \in R
      BY <1>10, <1>15 DEF Across
    <3> QED BY <1>15, <2>1, <3>1, <3>2 DEF Symmetric
  <2>4. (\A i \in 1..m : i \in 1..Len(w)) /\ \A i \in (m + 1)..Len(w) : i \in 1..Len(w)
    BY <1>6
  <2>5. (\A i \in 1..m : <<w[i], e>> \in R) /\ \A i \in (m + 1)..Len(w) : <<e, w[i]>> \in R
    BY <1>7, <2>3, <2>4
  <2> QED BY <1>9, <2>2, <2>5, Zenon
<1> HIDE DEF t, out, rest
<1> QED BY <1>4, <1>11, <1>13, <1>14, <1>15, Zenon DEF IsSpliceOf, t, next

SpliceFold == INSTANCE FoldFacts WITH Op <- LAMBDA p, a, e : Splice(a, e)

Spliced(list, head) == SpliceFold!Fold(0, [out |-> <<>>, rest |-> head], list)

\* list_splice_sorted() is a fold.
LEMMA SplicedIs ==
  ASSUME NEW list, NEW head
  PROVE  ListSpliceSorted(list, head) = Spliced(list, head).out \o Spliced(list, head).rest
BY Zenon DEF SpliceFold!Fold, Spliced, ListSpliceSorted, SpliceFold!FoldLeft, FoldLeft, SpliceFold!MapThenFoldSet,
  MapThenFoldSet, SpliceFold!Max, Max

\* What is said of the two lists holds from the first element to the last.
LEMMA SplicedInv ==
  ASSUME NEW R, NEW head \in Seq(Elem)
  PROVE  \A s \in Seq(Elem) : IsSpliceOf(R, Spliced(s, head), s, head)
<1> DEFINE base == [out |-> <<>>, rest |-> head]
           T == {u \in Seq(Elem) : IsSpliceOf(R, Spliced(u, head), u, head)}
<1>1. <<>> \in T
  <2> DEFINE e == <<>>
  <2>1. Spliced(e, head) = base
    BY SpliceFold!FoldEmpty DEF Spliced
  <2>2. e \in Seq(Elem) /\ base \in [out : Seq(Elem), rest : Seq(Elem)] /\ base.out = e /\ base.rest = head
    OBVIOUS
  <2>3. e \o head = head
    OBVIOUS
  <2>4. \A y : y \notin ToSet(e)
    BY SmallSets
  <2> HIDE DEF base, e
  <2>5. base.out \o base.rest = head
    BY <2>2, <2>3, Zenon
  <2>6. \A x \in ToSet(base.out) : \E y \in ToSet(e) : x.l <= y.l
    BY <2>2, <2>4, Zenon
  <2>7. \A y : y \in ToSet(base.out \o base.rest) <=> y \in ToSet(e) \/ y \in ToSet(head)
    BY <2>4, <2>5, Zenon
  <2>8. IsSpliceOf(R, base, e, head)
    BY <2>2, <2>5, <2>6, <2>7, Zenon DEF IsSpliceOf
  <2>9. e \in T
    BY <2>1, <2>2, <2>8
  <2> QED BY <2>9 DEF e
<1>2. \A u \in Seq(Elem) : \A x \in Elem : u \in T => Append(u, x) \in T
  <2> SUFFICES ASSUME NEW u \in Seq(Elem), NEW x \in Elem, u \in T PROVE Append(u, x) \in T
    OBVIOUS
  <2> DEFINE v == Append(u, x)
  <2>1. SpliceFold!IsAppend(v, u, x) /\ v \in Seq(Elem)
    BY DEF SpliceFold!IsAppend
  <2> HIDE DEF v
  <2>2. Spliced(v, head) = Splice(Spliced(u, head), x)
    BY <2>1, SpliceFold!FoldAppend DEF Spliced
  <2>3. IsSpliceOf(R, Splice(Spliced(u, head), x), Append(u, x), head)
    BY SpliceStep
  <2> QED BY <2>1, <2>2, <2>3 DEF v
<1> HIDE DEF T
<1>3. Seq(Elem) \subseteq T
  BY <1>1, <1>2, SeqInduction
<1> QED BY <1>3 DEF T

\* list_splice_sorted() gives the elements of both lists, in order if they
\* were; a relation between all of them holds in the result.
LEMMA SplicedFacts ==
  ASSUME NEW R, NEW list \in Seq(Elem), NEW head \in Seq(Elem)
  PROVE  /\ ListSpliceSorted(list, head) \in Seq(Elem)
         /\ \A y : y \in ToSet(ListSpliceSorted(list, head)) <=> y \in ToSet(list) \/ y \in ToSet(head)
         /\ Sorted(list) /\ Sorted(head) => Sorted(ListSpliceSorted(list, head))
         /\ Symmetric(R) /\ Pairs(R, list) /\ Pairs(R, head) /\ Across(R, list, head)
              => Pairs(R, ListSpliceSorted(list, head))
<1> DEFINE acc == Spliced(list, head)
<1>1. IsSpliceOf(R, acc, list, head)
  BY SplicedInv
<1> HIDE DEF acc
<1>2. acc.out \o acc.rest \in Seq(Elem)
  <2>1. acc.out \in Seq(Elem) /\ acc.rest \in Seq(Elem)
    BY <1>1 DEF IsSpliceOf
  <2> QED BY <2>1
<1>3. ListSpliceSorted(list, head) = acc.out \o acc.rest
  BY SplicedIs DEF acc
<1> QED BY <1>1, <1>2, <1>3, Zenon DEF IsSpliceOf

-----------------------------------------------------------------------------
(* New elements join the cached ones. *)

\* The cached elements are the kernel's and those of a command are not.
AllKernel(s) == \A e \in ToSet(s) : e.k

AllNew(s) == \A e \in ToSet(s) : ~e.k

\* Two elements of the kernel are apart, with a key between them.
ApartR == {p \in Elem \X Elem : p[1].k /\ p[2].k => p[1].r + 1 < p[2].l}

\* The relation, for two elements.
LEMMA ApartPair ==
  ASSUME NEW x \in Elem, NEW y \in Elem
  PROVE  <<x, y>> \in ApartR <=> (x.k /\ y.k => x.r + 1 < y.l)
<1>1. <<x, y>> \in Elem \X Elem
  OBVIOUS
<1> QED BY <1>1 DEF ApartR

\* The same, whatever their order.
ApartEither ==
  {p \in Elem \X Elem : p[1].k /\ p[2].k => p[1].r + 1 < p[2].l \/ p[2].r + 1 < p[1].l}

\* That relation, for two elements, is symmetric.
LEMMA EitherPair ==
  ASSUME NEW x \in Elem, NEW y \in Elem
  PROVE  /\ <<x, y>> \in ApartEither <=> (x.k /\ y.k => x.r + 1 < y.l \/ y.r + 1 < x.l)
         /\ <<x, y>> \in ApartEither <=> <<y, x>> \in ApartEither
<1>1. <<x, y>> \in Elem \X Elem /\ <<y, x>> \in Elem \X Elem
  OBVIOUS
<1> QED BY <1>1 DEF ApartEither

\* The joined list has the elements of both and is in order, and the kernel's
\* elements are apart.
LEMMA JoinedFacts ==
  ASSUME NEW init \in Seq(Elem), AllNew(init),
         NEW old \in Seq(Elem), Sorted(old), Pairs(ApartR, old)
  PROVE  LET list == ListSpliceSorted(old, ListExprSort(init))
         IN /\ list \in Seq(Elem) /\ Sorted(list) /\ Pairs(ApartR, list)
            /\ \A y : y \in ToSet(list) <=> y \in ToSet(init) \/ y \in ToSet(old)
<1> DEFINE sorted == ListExprSort(init)
           list == ListSpliceSorted(old, sorted)
<1>1. IsSortOf({}, sorted, init)
  <2>1. Symmetric({})
    BY DEF Symmetric
  <2> QED BY <2>1, SortFacts
<1> HIDE DEF sorted
<1>2. sorted \in Seq(Elem) /\ Sorted(sorted) /\ \A y : y \in ToSet(sorted) <=> y \in ToSet(init)
  BY <1>1 DEF IsSortOf
<1>3. \A x \in ToSet(sorted) : x \in Elem /\ ~x.k
  BY <1>2, SetOfSeq DEF AllNew
<1>4. \A y \in ToSet(old) : y \in Elem
  BY SetOfSeq
<1>5. Symmetric(ApartEither)
  BY DEF Symmetric, ApartEither
<1>6. Across(ApartEither, old, sorted)
  BY <1>3, <1>4, EitherPair DEF Across
<1>7. Pairs(ApartEither, sorted)
  <2> SUFFICES ASSUME NEW i \in DOMAIN sorted, NEW j \in DOMAIN sorted PROVE <<sorted[i], sorted[j]>> \in ApartEither
    BY DEF Pairs
  <2>1. sorted[i] \in ToSet(sorted) /\ sorted[j] \in ToSet(sorted)
    BY <1>2, SeqMembers
  <2> QED BY <1>3, <2>1, EitherPair
<1>8. Pairs(ApartEither, old)
  BY DEF Pairs, ApartR, ApartEither
<1>9. /\ list \in Seq(Elem)
      /\ \A y : y \in ToSet(list) <=> y \in ToSet(old) \/ y \in ToSet(sorted)
      /\ Sorted(old) /\ Sorted(sorted) => Sorted(list)
      /\ Symmetric(ApartEither) /\ Pairs(ApartEither, old) /\ Pairs(ApartEither, sorted)
           /\ Across(ApartEither, old, sorted)
           => Pairs(ApartEither, list)
  BY <1>2, SplicedFacts, Zenon
<1> HIDE DEF list
<1>10. list \in Seq(Elem) /\ Sorted(list) /\ Pairs(ApartEither, list)
  BY <1>2, <1>5, <1>6, <1>7, <1>8, <1>9, Zenon
<1>11. Pairs(ApartR, list)
  <2> SUFFICES ASSUME NEW i \in DOMAIN list, NEW j \in DOMAIN list, i < j PROVE <<list[i], list[j]>> \in ApartR
    BY DEF Pairs
  <2>1. list[i] \in Elem /\ list[j] \in Elem
    BY <1>10, SeqMembers
  <2>2. <<list[i], list[j]>> \in SortedR /\ <<list[i], list[j]>> \in ApartEither
    BY <1>10 DEF Sorted, Pairs
  <2> DEFINE x == list[i]
             y == list[j]
  <2> HIDE DEF x, y
  <2>3. x \in Elem /\ y \in Elem /\ <<x, y>> \in SortedR /\ <<x, y>> \in ApartEither
    BY <2>1, <2>2 DEF x, y
  <2>4. x.l <= y.l /\ (x.k /\ y.k => x.r + 1 < y.l \/ y.r + 1 < x.l)
    BY <2>3, SortedPair, EitherPair
  <2>5. x.k /\ y.k => x.r + 1 < y.l
    BY <2>3, <2>4, ElemIs
  <2> QED BY <2>3, <2>5, ApartPair DEF x, y
<1>12. \A y : y \in ToSet(list) <=> y \in ToSet(init) \/ y \in ToSet(old)
  BY <1>2, <1>9, Zenon
<1> QED BY <1>10, <1>11, <1>12, Zenon DEF list, sorted

-----------------------------------------------------------------------------
(* Merging. *)

SepR == {p \in Elem \X Elem : p[1].r + 1 < p[2].l}

NeqR == {p \in Elem \X Elem : p[1] # p[2]}

\* Both relations, for two elements.
LEMMA SepPair ==
  ASSUME NEW x \in Elem, NEW y \in Elem
  PROVE  /\ <<x, y>> \in SepR <=> x.r + 1 < y.l
         /\ <<x, y>> \in NeqR <=> x # y
<1>1. <<x, y>> \in Elem \X Elem
  OBVIOUS
<1> QED BY <1>1 DEF SepR, NeqR

\* The keys in the elements of a list.
Covers(s, v) == \E x \in ToSet(s) : x.l <= v /\ v <= x.r

\* The state of setelem_automerge(): automerge is p.
MergeOne(p, acc, e) ==
  CASE acc.kept = <<>> -> [acc EXCEPT !.kept = <<e>>, !.lo = e.l, !.hi = e.r]
    [] acc.kept # <<>> /\ acc.lo <= e.l /\ acc.hi >= e.r -> Absorb(acc, e)
    [] /\ acc.kept # <<>> /\ ~(acc.lo <= e.l /\ acc.hi >= e.r)
       /\ e.l <= acc.hi \/ (p /\ e.l - acc.hi = 1) ->
         MergeRanges(acc, e)
    [] OTHER -> [acc EXCEPT !.kept = Append(@, e), !.lo = e.l, !.hi = e.r]

MergeFold == INSTANCE FoldFacts WITH Op <- LAMBDA p, a, e : MergeOne(p, a, e)

Merged(s) == MergeFold!Fold(TRUE, [kept |-> <<>>, lo |-> 0, hi |-> 0, purge |-> <<>>], s)

\* setelem_automerge() is a fold.
LEMMA MergedIs ==
  ASSUME NEW s, automerge = TRUE
  PROVE  SetelemAutomerge(s) = Merged(s)
<1>1. SetelemAutomerge(s) = MergeFold!Fold(automerge, [kept |-> <<>>, lo |-> 0, hi |-> 0, purge |-> <<>>], s)
  BY Zenon DEF MergeFold!Fold, MergeOne, Automerge1, SetelemAutomerge, MergeFold!FoldLeft, FoldLeft,
    MergeFold!MapThenFoldSet, MapThenFoldSet, MergeFold!Max, Max
<1> QED BY <1>1 DEF Merged

\* What setelem_automerge() has made of the elements of s.
IsMergeOf(acc, s) ==
  /\ acc \in [kept : Seq(Elem), lo : Int, hi : Int, purge : Seq(Elem)]
  /\ Pairs(SepR, acc.kept)
  /\ Pairs(NeqR, acc.purge)
  /\ acc.kept = <<>> => s = <<>>
  /\ acc.kept # <<>> =>
       /\ acc.lo = acc.kept[Len(acc.kept)].l /\ acc.hi = acc.kept[Len(acc.kept)].r
       /\ \E x \in ToSet(s) : acc.lo <= x.l
  /\ \A x \in ToSet(acc.kept) : x.k => x \in ToSet(s)
  /\ \A x \in ToSet(acc.purge) : x.k /\ x \in ToSet(s) /\ x \notin ToSet(acc.kept)
  /\ \A x \in ToSet(s) : x.k => x \in ToSet(acc.kept) \/ x \in ToSet(acc.purge)
  /\ \A v \in Int : Covers(acc.kept, v) <=> Covers(s, v)

\* An element that is put at the end of a list.
LEMMA AppendCovers ==
  ASSUME NEW s \in Seq(Elem), NEW e \in Elem
  PROVE  \A v : Covers(Append(s, e), v) <=> Covers(s, v) \/ (e.l <= v /\ v <= e.r)
<1>1. \A y : y \in ToSet(Append(s, e)) <=> y \in ToSet(s) \/ y = e
  BY AppendSet
<1> QED BY <1>1 DEF Covers

\* The next element of an ordered list with the kernel's elements apart.
Follows(s, e) == /\ \A x \in ToSet(s) : x.l <= e.l
                 /\ \A x \in ToSet(s) : x.k /\ e.k => x.r + 1 < e.l

\* The last element that was kept begins before the next element.
LEMMA LastKept ==
  ASSUME NEW acc, NEW s \in Seq(Elem), IsMergeOf(acc, s), acc.kept # <<>>, NEW e \in Elem, Follows(s, e)
  PROVE  \E f \in Seq(Elem), prev \in Elem :
           /\ acc.kept = Append(f, prev) /\ prev = acc.kept[Len(acc.kept)]
           /\ \A x \in Elem : [acc.kept EXCEPT ![Len(acc.kept)] = x] = Append(f, x)
           /\ acc.lo = prev.l /\ acc.hi = prev.r /\ prev.l <= e.l
           /\ \A y \in ToSet(f) : y \in Elem /\ y.r + 1 < prev.l
           /\ Pairs(SepR, f)
<1> DEFINE kept == acc.kept
           n == Len(kept)
<1>1. kept \in Seq(Elem) /\ kept # <<>>
  BY DEF IsMergeOf
<1> HIDE DEF kept
<1>2. n \in Nat /\ n # 0 /\ n - 1 \in Nat /\ n = (n - 1) + 1
  BY <1>1
<1> DEFINE f == SubSeq(kept, 1, n - 1)
           prev == kept[n]
<1>3. f \in Seq(Elem) /\ prev \in Elem /\ kept = Append(f, prev)
  BY <1>1, <1>2, Split
<1>4. ASSUME NEW x \in Elem PROVE [kept EXCEPT ![n] = x] = Append(f, x)
  <2>1. IsAppend([kept EXCEPT ![n] = x], f, x)
    BY <1>1, <1>2, ReplaceLast
  <2> QED BY <2>1 DEF IsAppend
<1>5. acc.lo = prev.l /\ acc.hi = prev.r /\ \E x \in ToSet(s) : acc.lo <= x.l
  BY <1>1 DEF IsMergeOf, kept
<1>6. prev.l <= e.l
  <2>1. PICK x \in ToSet(s) : prev.l <= x.l
    BY <1>5
  <2>2. x \in Elem /\ x.l <= e.l
    BY <2>1, SetOfSeq DEF Follows
  <2> QED BY <1>3, <2>1, <2>2, ElemIs
<1> HIDE DEF f, prev
<1>7. Pairs(SepR, f) /\ \A y \in ToSet(f) : <<y, prev>> \in SepR
  <2>1. Pairs(SepR, kept)
    BY DEF IsMergeOf, kept
  <2>2. Pairs(SepR, Append(f, prev))
    BY <1>3, <2>1
  <2> QED BY <1>3, <2>2, AppendPairs
<1>8. \A y \in ToSet(f) : y \in Elem /\ y.r + 1 < prev.l
  <2>1. \A y \in ToSet(f) : y \in Elem
    BY <1>3, SetOfSeq
  <2> QED BY <1>3, <1>7, <2>1, SepPair
<1>9. prev = kept[Len(kept)]
  BY DEF prev
<1> QED BY <1>3, <1>4, <1>5, <1>6, <1>7, <1>8, <1>9, Zenon DEF kept

\* A kernel element that comes next has not been seen.
LEMMA NotSeen ==
  ASSUME NEW s \in Seq(Elem), NEW e \in Elem, Follows(s, e), e.k
  PROVE  e \notin ToSet(s)
<1> SUFFICES ASSUME e \in ToSet(s) PROVE FALSE
  OBVIOUS
<1>1. e.r + 1 < e.l
  BY DEF Follows
<1> QED BY <1>1, ElemIs

\* The first element.
LEMMA MergeFirst ==
  ASSUME NEW acc, NEW s \in Seq(Elem), IsMergeOf(acc, s), acc.kept = <<>>, NEW e \in Elem
  PROVE  IsMergeOf(MergeOne(TRUE, acc, e), Append(s, e))
<1> DEFINE one == <<e>>
           new == [kept |-> one, lo |-> e.l, hi |-> e.r, purge |-> acc.purge]
           empty == <<>>
<1>1. acc \in [kept : Seq(Elem), lo : Int, hi : Int, purge : Seq(Elem)] /\ s = <<>>
  BY DEF IsMergeOf
<1>2. MergeOne(TRUE, acc, e) = new
  BY <1>1 DEF MergeOne
<1>3. one \in Seq(Elem) /\ Len(one) = 1 /\ one[1] = e /\ Append(s, e) = one
  BY <1>1
<1>4. (\A y : y \in ToSet(one) <=> y = e) /\ Pairs(SepR, one)
  BY SmallSets
<1>5. \A y : y \notin ToSet(s)
  BY <1>1, SmallSets
<1>6. e.l \in Int /\ e.r \in Int /\ e.l <= e.l
  BY ElemIs
<1> HIDE DEF one
<1>7. new \in [kept : Seq(Elem), lo : Int, hi : Int, purge : Seq(Elem)]
      /\ new.kept = one /\ new.lo = e.l /\ new.hi = e.r /\ new.purge = acc.purge
  BY <1>1, <1>3, <1>6
<1> HIDE DEF new
<1>8. one # <<>>
  BY <1>3
<1>9. \A y : y \notin ToSet(acc.purge)
  BY <1>5 DEF IsMergeOf
<1>10. Pairs(NeqR, acc.purge)
  BY DEF IsMergeOf
<1>11. new.kept[Len(new.kept)] = e
  BY <1>3, <1>7
<1>12. \E x \in ToSet(one) : e.l <= x.l
  BY <1>4, <1>6
<1>13. IsMergeOf(new, one)
  BY <1>4, <1>7, <1>8, <1>9, <1>10, <1>11, <1>12, Zenon DEF IsMergeOf
<1> QED BY <1>2, <1>3, <1>13, Zenon

\* The list of elements to purge gets one that is not in it.
LEMMA PurgeOne ==
  ASSUME NEW purge \in Seq(Elem), Pairs(NeqR, purge), NEW e \in Elem, e \notin ToSet(purge)
  PROVE  /\ Append(purge, e) \in Seq(Elem) /\ Pairs(NeqR, Append(purge, e))
         /\ \A y : y \in ToSet(Append(purge, e)) <=> y \in ToSet(purge) \/ y = e
<1>1. \A y : y \in ToSet(Append(purge, e)) <=> y \in ToSet(purge) \/ y = e
  BY AppendSet
<1>2. \A y \in ToSet(purge) : <<y, e>> \in NeqR
  BY SetOfSeq, SepPair
<1>3. Pairs(NeqR, Append(purge, e))
  BY <1>2, AppendPairs
<1> QED BY <1>1, <1>3

\* An element of the kernel that is merged away.
LEMMA AbsorbFacts ==
  ASSUME NEW acc, NEW s \in Seq(Elem), IsMergeOf(acc, s), NEW e \in Elem, Follows(s, e)
  PROVE  \E purge \in Seq(Elem) :
           /\ Absorb(acc, e) = [kept |-> acc.kept, lo |-> acc.lo, hi |-> acc.hi, purge |-> purge]
           /\ Pairs(NeqR, purge)
           /\ \A y : y \in ToSet(purge) <=> y \in ToSet(acc.purge) \/ (e.k /\ y = e)
<1>1. acc \in [kept : Seq(Elem), lo : Int, hi : Int, purge : Seq(Elem)] /\ Pairs(NeqR, acc.purge)
  BY DEF IsMergeOf
<1>2. CASE e.k
  <2>1. e \notin ToSet(acc.purge)
    BY <1>2, NotSeen DEF IsMergeOf
  <2>2. acc.purge \in Seq(Elem)
    BY <1>1
  <2> DEFINE purge == Append(acc.purge, e)
  <2>3. /\ purge \in Seq(Elem) /\ Pairs(NeqR, purge)
        /\ \A y : y \in ToSet(purge) <=> y \in ToSet(acc.purge) \/ y = e
    BY <1>1, <2>1, <2>2, PurgeOne, Zenon
  <2>4. Absorb(acc, e) = [kept |-> acc.kept, lo |-> acc.lo, hi |-> acc.hi, purge |-> purge]
    BY <1>1, <1>2 DEF Absorb
  <2> HIDE DEF purge
  <2> QED BY <1>2, <2>3, <2>4
<1>3. CASE ~e.k
  <2>1. Absorb(acc, e) = [kept |-> acc.kept, lo |-> acc.lo, hi |-> acc.hi, purge |-> acc.purge]
    BY <1>1, <1>3 DEF Absorb
  <2>2. acc.purge \in Seq(Elem)
    BY <1>1
  <2> QED BY <1>1, <1>3, <2>1, <2>2
<1> QED BY <1>2, <1>3

\* The next element lies in the last one.
LEMMA MergeContained ==
  ASSUME NEW acc, NEW s \in Seq(Elem), IsMergeOf(acc, s), acc.kept # <<>>, NEW e \in Elem, Follows(s, e),
         acc.lo <= e.l, acc.hi >= e.r
  PROVE  IsMergeOf(MergeOne(TRUE, acc, e), Append(s, e))
<1> DEFINE t == Append(s, e)
<1>1. acc \in [kept : Seq(Elem), lo : Int, hi : Int, purge : Seq(Elem)]
  BY DEF IsMergeOf
<1>2. MergeOne(TRUE, acc, e) = Absorb(acc, e)
  BY DEF MergeOne
<1>3. PICK purge \in Seq(Elem) :
           /\ Absorb(acc, e) = [kept |-> acc.kept, lo |-> acc.lo, hi |-> acc.hi, purge |-> purge]
           /\ Pairs(NeqR, purge)
           /\ \A y : y \in ToSet(purge) <=> y \in ToSet(acc.purge) \/ (e.k /\ y = e)
  BY AbsorbFacts
<1> DEFINE new == [kept |-> acc.kept, lo |-> acc.lo, hi |-> acc.hi, purge |-> purge]
<1>4. new \in [kept : Seq(Elem), lo : Int, hi : Int, purge : Seq(Elem)]
      /\ new.kept = acc.kept /\ new.lo = acc.lo /\ new.hi = acc.hi /\ new.purge = purge
  BY <1>1
<1> HIDE DEF new
<1>5. \A y : y \in ToSet(t) <=> y \in ToSet(s) \/ y = e
  BY AppendSet
<1>6. \A v : Covers(t, v) <=> Covers(s, v) \/ (e.l <= v /\ v <= e.r)
  BY AppendCovers
<1> HIDE DEF t
<1>7. \A v \in Int : e.l <= v /\ v <= e.r => Covers(acc.kept, v)
  <2>1. PICK f \in Seq(Elem), prev \in Elem :
           acc.kept = Append(f, prev) /\ acc.lo = prev.l /\ acc.hi = prev.r
    BY LastKept
  <2>2. prev \in ToSet(acc.kept)
    BY <2>1, AppendSet
  <2>3. \A v \in Int : e.l <= v /\ v <= e.r => prev.l <= v /\ v <= prev.r
    BY <2>1, ElemIs
  <2> QED BY <2>2, <2>3 DEF Covers
<1>8. \A v \in Int : Covers(acc.kept, v) <=> Covers(t, v)
  BY <1>6, <1>7 DEF IsMergeOf
<1>9. /\ Pairs(SepR, acc.kept)
      /\ acc.lo = acc.kept[Len(acc.kept)].l /\ acc.hi = acc.kept[Len(acc.kept)].r
      /\ \E x \in ToSet(s) : acc.lo <= x.l
      /\ \A x \in ToSet(acc.kept) : x.k => x \in ToSet(s)
      /\ \A x \in ToSet(acc.purge) : x.k /\ x \in ToSet(s) /\ x \notin ToSet(acc.kept)
      /\ \A x \in ToSet(s) : x.k => x \in ToSet(acc.kept) \/ x \in ToSet(acc.purge)
  BY DEF IsMergeOf
<1>10. \A x \in ToSet(purge) : x.k /\ x \in ToSet(t) /\ x \notin ToSet(acc.kept)
  <2> SUFFICES ASSUME NEW x \in ToSet(purge) PROVE x.k /\ x \in ToSet(t) /\ x \notin ToSet(acc.kept)
    OBVIOUS
  <2>1. CASE x \in ToSet(acc.purge)
    BY <2>1, <1>5, <1>9
  <2>2. CASE e.k /\ x = e
    <3>1. e \notin ToSet(s)
      BY <2>2, NotSeen
    <3> QED BY <2>2, <3>1, <1>5, <1>9
  <2> QED BY <1>3, <2>1, <2>2
<1>11. \A x \in ToSet(t) : x.k => x \in ToSet(acc.kept) \/ x \in ToSet(purge)
  BY <1>3, <1>5, <1>9
<1>12. (\A x \in ToSet(acc.kept) : x.k => x \in ToSet(t)) /\ \E x \in ToSet(t) : acc.lo <= x.l
  BY <1>5, <1>9
<1>13. IsMergeOf(new, t)
  BY <1>3, <1>4, <1>8, <1>9, <1>10, <1>11, <1>12, Zenon DEF IsMergeOf
<1> QED BY <1>2, <1>3, <1>13, Zenon DEF new, t

\* The next element begins two keys or more behind the last one.
LEMMA MergeBehind ==
  ASSUME NEW acc, NEW s \in Seq(Elem), IsMergeOf(acc, s), acc.kept # <<>>, NEW e \in Elem, Follows(s, e),
         acc.hi + 1 < e.l
  PROVE  IsMergeOf(MergeOne(TRUE, acc, e), Append(s, e))
<1> DEFINE t == Append(s, e)
           k2 == Append(acc.kept, e)
           new == [kept |-> k2, lo |-> e.l, hi |-> e.r, purge |-> acc.purge]
<1>1. acc \in [kept : Seq(Elem), lo : Int, hi : Int, purge : Seq(Elem)] /\ acc.kept \in Seq(Elem)
  BY DEF IsMergeOf
<1>2. e.l \in Int /\ e.r \in Int /\ e.l <= e.r /\ e.l <= e.l
  BY ElemIs
<1>3. PICK f \in Seq(Elem), prev \in Elem :
           /\ acc.kept = Append(f, prev)
           /\ acc.lo = prev.l /\ acc.hi = prev.r /\ prev.l <= e.l
           /\ \A y \in ToSet(f) : y \in Elem /\ y.r + 1 < prev.l
  BY LastKept, Zenon
<1>4. MergeOne(TRUE, acc, e) = new
  <2>1. acc.kept # <<>> /\ ~(acc.lo <= e.l /\ acc.hi >= e.r) /\ ~(e.l <= acc.hi \/ e.l - acc.hi = 1)
    BY <1>1, <1>2
  <2> QED BY <1>1, <2>1 DEF MergeOne
<1>5. \A y : y \in ToSet(k2) <=> y \in ToSet(acc.kept) \/ y = e
  BY <1>1, AppendSet
<1>6. k2 \in Seq(Elem) /\ k2 # <<>> /\ k2[Len(k2)] = e
  BY <1>1
<1>7. \A y \in ToSet(acc.kept) : <<y, e>> \in SepR
  <2> SUFFICES ASSUME NEW y \in ToSet(acc.kept) PROVE <<y, e>> \in SepR
    OBVIOUS
  <2>1. y \in ToSet(f) \/ y = prev
    BY <1>3, AppendSet
  <2>2. y \in Elem /\ y.r + 1 < e.l
    BY <1>2, <1>3, <2>1, ElemIs
  <2> QED BY <2>2, SepPair
<1>8. Pairs(SepR, k2)
  <2>1. Pairs(SepR, acc.kept)
    BY DEF IsMergeOf
  <2> QED BY <1>1, <1>7, <2>1, AppendPairs
<1>9. \A v : Covers(k2, v) <=> Covers(acc.kept, v) \/ (e.l <= v /\ v <= e.r)
  BY <1>1, AppendCovers
<1> HIDE DEF k2
<1>10. new \in [kept : Seq(Elem), lo : Int, hi : Int, purge : Seq(Elem)]
      /\ new.kept = k2 /\ new.lo = e.l /\ new.hi = e.r /\ new.purge = acc.purge
  BY <1>1, <1>2, <1>6
<1> HIDE DEF new
<1>11. \A y : y \in ToSet(t) <=> y \in ToSet(s) \/ y = e
  BY AppendSet
<1>12. \A v : Covers(t, v) <=> Covers(s, v) \/ (e.l <= v /\ v <= e.r)
  BY AppendCovers
<1> HIDE DEF t
<1>13. /\ Pairs(NeqR, acc.purge)
       /\ \A x \in ToSet(acc.kept) : x.k => x \in ToSet(s)
       /\ \A x \in ToSet(acc.purge) : x.k /\ x \in ToSet(s) /\ x \notin ToSet(acc.kept)
       /\ \A x \in ToSet(s) : x.k => x \in ToSet(acc.kept) \/ x \in ToSet(acc.purge)
       /\ \A v \in Int : Covers(acc.kept, v) <=> Covers(s, v)
  BY DEF IsMergeOf
<1>14. \A x \in ToSet(acc.purge) : x.k /\ x \in ToSet(t) /\ x \notin ToSet(k2)
  <2> SUFFICES ASSUME NEW x \in ToSet(acc.purge) PROVE x.k /\ x \in ToSet(t) /\ x # e
    BY <1>5, <1>13
  <2>1. x.k /\ x \in ToSet(s)
    BY <1>13
  <2>2. x = e => e \notin ToSet(s)
    BY <2>1, NotSeen
  <2> QED BY <1>11, <2>1, <2>2
<1>15. /\ \A x \in ToSet(k2) : x.k => x \in ToSet(t)
       /\ \A x \in ToSet(t) : x.k => x \in ToSet(k2) \/ x \in ToSet(acc.purge)
       /\ \A v \in Int : Covers(k2, v) <=> Covers(t, v)
       /\ \E x \in ToSet(t) : e.l <= x.l
  BY <1>2, <1>5, <1>9, <1>11, <1>12, <1>13
<1>16. IsMergeOf(new, t)
  BY <1>6, <1>8, <1>10, <1>13, <1>14, <1>15, Zenon DEF IsMergeOf
<1> QED BY <1>4, <1>16, Zenon DEF t

\* An element with another end.
LEMMA OtherEnd ==
  ASSUME NEW e \in Elem, NEW v \in 0..MaxKey
  PROVE  /\ [e EXCEPT !.l = v] = [l |-> v, r |-> e.r, k |-> e.k]
         /\ [e EXCEPT !.r = v] = [l |-> e.l, r |-> v, k |-> e.k]
<1>1. e \in [l : 0..MaxKey, r : 0..MaxKey, k : BOOLEAN]
  BY DEF Elem
<1>2. [e EXCEPT !.l = v] = [l |-> v, r |-> e.r, k |-> e.k]
  BY <1>1
<1>3. [e EXCEPT !.r = v] = [l |-> e.l, r |-> v, k |-> e.k]
  BY <1>1
<1> QED BY <1>2, <1>3

\* f is a list without its last element, which may be replaced.
Ends(kept, f) == \A x \in Elem : [kept EXCEPT ![Len(kept)] = x] = Append(f, x)

\* The last element prev is replaced by one that ends where e does.
Grows(acc, e, f, prev) ==
  \E purge \in Seq(Elem), x \in Elem :
    /\ x.l = prev.l /\ x.r = e.r /\ ~x.k
    /\ MergeRanges(acc, e) = [kept |-> Append(f, x), lo |-> acc.lo, hi |-> e.r, purge |-> purge]
    /\ Pairs(NeqR, purge)
    /\ \A y : y \in ToSet(purge) <=> y \in ToSet(acc.purge) \/ (prev.k /\ y = prev) \/ (e.k /\ y = e)

\* The last element grows: what MergeRanges() makes of the state.
LEMMA MergeRangesIs ==
  ASSUME NEW acc, NEW s \in Seq(Elem), IsMergeOf(acc, s), acc.kept # <<>>, NEW e \in Elem, Follows(s, e),
         acc.hi < e.r, e.l <= acc.hi + 1,
         NEW f \in Seq(Elem), NEW prev \in Elem,
         acc.kept = Append(f, prev), prev = acc.kept[Len(acc.kept)],
         Ends(acc.kept, f),
         acc.lo = prev.l, acc.hi = prev.r, prev.l <= e.l
  PROVE  Grows(acc, e, f, prev)
<1>1. /\ acc \in [kept : Seq(Elem), lo : Int, hi : Int, purge : Seq(Elem)] /\ Pairs(NeqR, acc.purge)
      /\ \A y \in ToSet(acc.purge) : y \notin ToSet(acc.kept)
      /\ \A y \in ToSet(acc.kept) : y.k => y \in ToSet(s)
  BY DEF IsMergeOf
<1>2. /\ e.l \in 0..MaxKey /\ e.r \in 0..MaxKey /\ e.k \in BOOLEAN /\ e = [l |-> e.l, r |-> e.r, k |-> e.k]
      /\ prev.l \in 0..MaxKey /\ prev.r \in 0..MaxKey /\ prev.k \in BOOLEAN
      /\ prev = [l |-> prev.l, r |-> prev.r, k |-> prev.k]
  BY ElemIs
<1>3. prev.l \in Int /\ prev.r \in Int /\ e.l \in Int /\ e.r \in Int /\ prev.l <= prev.r
  BY ElemIs
<1>4. prev \in ToSet(acc.kept)
  BY AppendSet
<1> DEFINE x == [l |-> prev.l, r |-> e.r, k |-> FALSE]
           m == Len(acc.kept)
<1>5. x \in Elem /\ x.l = prev.l /\ x.r = e.r /\ ~x.k
  <2>1. prev.l <= e.r
    BY <1>3
  <2> QED BY <1>2, <2>1 DEF Elem
<1>6. CASE prev.k
  <2>1. ~e.k
    <3>1. prev \in ToSet(s)
      BY <1>1, <1>4, <1>6
    <3>2. e.k => prev.r + 1 < e.l
      BY <1>6, <3>1 DEF Follows
    <3> QED BY <1>3, <3>2
  <2>2. [e EXCEPT !.l = prev.l] = x
    <3>1. e.k = FALSE
      BY <1>2, <2>1
    <3>2. [e EXCEPT !.l = prev.l] = [l |-> prev.l, r |-> e.r, k |-> e.k]
      BY <1>2, OtherEnd
    <3> QED BY <3>1, <3>2
  <2> DEFINE purge == Append(acc.purge, prev)
  <2>3. /\ purge \in Seq(Elem) /\ Pairs(NeqR, purge)
        /\ \A y : y \in ToSet(purge) <=> y \in ToSet(acc.purge) \/ y = prev
    <3>1. acc.purge \in Seq(Elem)
      BY <1>1
    <3>2. prev \notin ToSet(acc.purge)
      BY <1>1, <1>4
    <3>3. Pairs(NeqR, acc.purge)
      BY <1>1
    <3> HIDE DEF purge
    <3> QED BY <3>1, <3>2, <3>3, PurgeOne, Zenon DEF purge
  <2> HIDE DEF x, purge
  <2>4. [acc.kept EXCEPT ![m] = x] = Append(f, x)
    BY <1>5 DEF Ends
  <2>5. MergeRanges(acc, e) = [acc EXCEPT !.purge = purge, !.kept = [@ EXCEPT ![m] = x], !.hi = e.r]
    BY <1>6, <2>2 DEF MergeRanges, purge
  <2>6. MergeRanges(acc, e) = [kept |-> Append(f, x), lo |-> acc.lo, hi |-> e.r, purge |-> purge]
    <3> HIDE DEF m
    <3> DEFINE k2 == [acc.kept EXCEPT ![m] = x]
    <3>1. MergeRanges(acc, e) = [acc EXCEPT !.purge = purge, !.kept = k2, !.hi = e.r]
      BY <2>5
    <3>2. k2 = Append(f, x)
      BY <2>4
    <3> HIDE DEF k2
    <3>3. [acc EXCEPT !.purge = purge, !.kept = k2, !.hi = e.r]
            = [kept |-> k2, lo |-> acc.lo, hi |-> e.r, purge |-> purge]
      <4>1. k2 \in Seq(Elem) /\ purge \in Seq(Elem) /\ e.r \in Int
        BY <1>3, <1>5, <2>3, <3>2
      <4>2. acc \in [kept : Seq(Elem), lo : Int, hi : Int, purge : Seq(Elem)]
        BY <1>1
      <4> HIDE DEF purge
      <4> DEFINE g == [acc EXCEPT !.purge = purge, !.kept = k2, !.hi = e.r]
      <4>3. /\ g \in [kept : Seq(Elem), lo : Int, hi : Int, purge : Seq(Elem)]
            /\ g.kept = k2 /\ g.lo = acc.lo /\ g.hi = e.r /\ g.purge = purge
        BY <4>1, <4>2
      <4> HIDE DEF g
      <4>4. g = [kept |-> k2, lo |-> acc.lo, hi |-> e.r, purge |-> purge]
        BY <4>3
      <4> QED BY <4>4 DEF g
    <3> QED BY <3>1, <3>2, <3>3, Zenon
  <2>7. \A y : y \in ToSet(purge) <=> y \in ToSet(acc.purge) \/ (prev.k /\ y = prev) \/ (e.k /\ y = e)
    BY <1>6, <2>1, <2>3
  <2> QED BY <1>5, <2>3, <2>6, <2>7, Zenon DEF Grows
<1>7. CASE ~prev.k
  <2>1. PICK purge \in Seq(Elem) :
           /\ Absorb(acc, e) = [kept |-> acc.kept, lo |-> acc.lo, hi |-> acc.hi, purge |-> purge]
           /\ Pairs(NeqR, purge)
           /\ \A y : y \in ToSet(purge) <=> y \in ToSet(acc.purge) \/ (e.k /\ y = e)
    BY AbsorbFacts
  <2> DEFINE a == [kept |-> acc.kept, lo |-> acc.lo, hi |-> acc.hi, purge |-> purge]
             k2 == [acc.kept EXCEPT ![m].r = e.r]
  <2>2. MergeRanges(acc, e) = [a EXCEPT !.kept = [@ EXCEPT ![m].r = e.r], !.hi = e.r]
    BY <1>7, <2>1 DEF MergeRanges
  <2>8. k2 = Append(f, x) /\ k2 \in Seq(Elem)
    <3>1. [acc.kept[m] EXCEPT !.r = e.r] = x
      <4>1. prev.k = FALSE
        BY <1>2, <1>7
      <4>2. [prev EXCEPT !.r = e.r] = [l |-> prev.l, r |-> e.r, k |-> prev.k]
        BY <1>2, OtherEnd
      <4> QED BY <4>1, <4>2
    <3>2. k2 = [acc.kept EXCEPT ![m] = [acc.kept[m] EXCEPT !.r = e.r]]
      OBVIOUS
    <3> HIDE DEF x, k2
    <3>3. k2 = Append(f, x)
      BY <1>5, <3>1, <3>2 DEF Ends
    <3> QED BY <1>5, <3>3
  <2>3. [a EXCEPT !.kept = [@ EXCEPT ![m].r = e.r], !.hi = e.r]
          = [kept |-> k2, lo |-> acc.lo, hi |-> e.r, purge |-> purge]
    <3>1. a.kept = acc.kept /\ a.lo = acc.lo /\ a.purge = purge
      OBVIOUS
    <3>2. [a EXCEPT !.kept = [@ EXCEPT ![m].r = e.r], !.hi = e.r] = [a EXCEPT !.kept = k2, !.hi = e.r]
      BY <3>1
    <3>3. a \in [kept : Seq(Elem), lo : Int, hi : Int, purge : Seq(Elem)] /\ e.r \in Int /\ k2 \in Seq(Elem)
      BY <1>1, <1>3, <2>8
    <3> HIDE DEF a, k2
    <3>4. [a EXCEPT !.kept = k2, !.hi = e.r] = [kept |-> k2, lo |-> a.lo, hi |-> e.r, purge |-> a.purge]
      <4> DEFINE g == [a EXCEPT !.kept = k2, !.hi = e.r]
      <4>1. /\ g \in [kept : Seq(Elem), lo : Int, hi : Int, purge : Seq(Elem)]
            /\ g.kept = k2 /\ g.lo = a.lo /\ g.hi = e.r /\ g.purge = a.purge
        BY <3>3
      <4> HIDE DEF g
      <4>2. g = [kept |-> k2, lo |-> a.lo, hi |-> e.r, purge |-> a.purge]
        BY <4>1
      <4> QED BY <4>2 DEF g
    <3> QED BY <3>1, <3>2, <3>4
  <2> HIDE DEF x, k2, a
  <2>7. MergeRanges(acc, e) = [kept |-> Append(f, x), lo |-> acc.lo, hi |-> e.r, purge |-> purge]
    BY <2>2, <2>3, <2>8, Zenon
  <2>9. \A y : y \in ToSet(purge) <=> y \in ToSet(acc.purge) \/ (prev.k /\ y = prev) \/ (e.k /\ y = e)
    BY <1>7, <2>1
  <2> QED BY <1>5, <2>1, <2>7, <2>9, Zenon DEF Grows
<1> QED BY <1>6, <1>7

\* The next element overlaps the last one or touches it.
LEMMA MergeJoins ==
  ASSUME NEW acc, NEW s \in Seq(Elem), IsMergeOf(acc, s), acc.kept # <<>>, NEW e \in Elem, Follows(s, e),
         acc.hi < e.r, e.l <= acc.hi + 1
  PROVE  IsMergeOf(MergeOne(TRUE, acc, e), Append(s, e))
<1>1. PICK f \in Seq(Elem), prev \in Elem :
           /\ acc.kept = Append(f, prev) /\ prev = acc.kept[Len(acc.kept)]
           /\ \A x \in Elem : [acc.kept EXCEPT ![Len(acc.kept)] = x] = Append(f, x)
           /\ acc.lo = prev.l /\ acc.hi = prev.r /\ prev.l <= e.l
           /\ \A y \in ToSet(f) : y \in Elem /\ y.r + 1 < prev.l
           /\ Pairs(SepR, f)
  BY LastKept
<1>2. PICK purge \in Seq(Elem), x \in Elem :
           /\ x.l = prev.l /\ x.r = e.r /\ ~x.k
           /\ MergeRanges(acc, e) = [kept |-> Append(f, x), lo |-> acc.lo, hi |-> e.r, purge |-> purge]
           /\ Pairs(NeqR, purge)
           /\ \A y : y \in ToSet(purge) <=> y \in ToSet(acc.purge) \/ (prev.k /\ y = prev) \/ (e.k /\ y = e)
  <2>1. Ends(acc.kept, f)
    BY <1>1, Zenon DEF Ends
  <2>2. Grows(acc, e, f, prev)
    BY <1>1, <2>1, MergeRangesIs
  <2> QED BY <2>2 DEF Grows
<1>3. acc \in [kept : Seq(Elem), lo : Int, hi : Int, purge : Seq(Elem)]
  BY DEF IsMergeOf
<1>4. /\ prev.l \in Int /\ prev.r \in Int /\ e.l \in Int /\ e.r \in Int /\ prev.l <= prev.r /\ e.l <= e.r
      /\ x.l \in Int /\ x.r \in Int /\ x.l <= x.l
  BY ElemIs
<1>5. MergeOne(TRUE, acc, e) = MergeRanges(acc, e)
  <2>1. ~(acc.lo <= e.l /\ acc.hi >= e.r) /\ (e.l <= acc.hi \/ e.l - acc.hi = 1)
    BY <1>3, <1>4
  <2> QED BY <2>1 DEF MergeOne
<1> DEFINE k2 == Append(f, x)
           new == [kept |-> k2, lo |-> acc.lo, hi |-> e.r, purge |-> purge]
           t == Append(s, e)
<1>6. \A y : y \in ToSet(k2) <=> y \in ToSet(f) \/ y = x
  BY AppendSet
<1>7. \A y : y \in ToSet(acc.kept) <=> y \in ToSet(f) \/ y = prev
  BY <1>1, AppendSet
<1>8. k2 \in Seq(Elem) /\ k2 # <<>> /\ k2[Len(k2)] = x
  OBVIOUS
<1>9. Pairs(SepR, k2)
  <2>1. \A y \in ToSet(f) : <<y, x>> \in SepR
    BY <1>1, <1>2, SepPair
  <2> QED BY <1>1, <2>1, AppendPairs
<1>10. \A v : Covers(k2, v) <=> Covers(f, v) \/ (x.l <= v /\ v <= x.r)
  BY AppendCovers
<1>11. \A v : Covers(acc.kept, v) <=> Covers(f, v) \/ (prev.l <= v /\ v <= prev.r)
  BY <1>1, AppendCovers
<1> HIDE DEF k2
<1>12. new \in [kept : Seq(Elem), lo : Int, hi : Int, purge : Seq(Elem)]
      /\ new.kept = k2 /\ new.lo = acc.lo /\ new.hi = e.r /\ new.purge = purge
  BY <1>3, <1>4, <1>8
<1> HIDE DEF new
<1>13. \A y : y \in ToSet(t) <=> y \in ToSet(s) \/ y = e
  BY AppendSet
<1>14. \A v : Covers(t, v) <=> Covers(s, v) \/ (e.l <= v /\ v <= e.r)
  BY AppendCovers
<1> HIDE DEF t
<1>15. /\ \A y \in ToSet(acc.kept) : y.k => y \in ToSet(s)
       /\ \A y \in ToSet(acc.purge) : y.k /\ y \in ToSet(s) /\ y \notin ToSet(acc.kept)
       /\ \A y \in ToSet(s) : y.k => y \in ToSet(acc.kept) \/ y \in ToSet(acc.purge)
       /\ \A v \in Int : Covers(acc.kept, v) <=> Covers(s, v)
       /\ \E y \in ToSet(s) : acc.lo <= y.l
  BY DEF IsMergeOf
<1>16. \A v \in Int : Covers(k2, v) <=> Covers(t, v)
  <2>1. \A v \in Int : x.l <= v /\ v <= x.r <=> (prev.l <= v /\ v <= prev.r) \/ (e.l <= v /\ v <= e.r)
    BY <1>1, <1>2, <1>4
  <2> QED BY <1>10, <1>11, <1>14, <1>15, <2>1
<1>17. \A y \in ToSet(k2) : y.k => y \in ToSet(t)
  BY <1>2, <1>6, <1>7, <1>13, <1>15
<1>18. \A y \in ToSet(purge) : y.k /\ y \in ToSet(t) /\ y \notin ToSet(k2)
  <2> SUFFICES ASSUME NEW y \in ToSet(purge) PROVE y.k /\ y \in ToSet(t) /\ y \notin ToSet(k2)
    OBVIOUS
  <2>1. CASE y \in ToSet(acc.purge)
    <3>1. y.k /\ y \in ToSet(s) /\ y \notin ToSet(acc.kept)
      BY <1>15, <2>1
    <3> QED BY <1>2, <1>6, <1>7, <1>13, <3>1
  <2>2. CASE prev.k /\ y = prev
    <3>1. prev \in ToSet(s)
      BY <1>7, <1>15, <2>2
    <3>2. prev \notin ToSet(f)
      BY <1>1, <1>4
    <3> QED BY <1>2, <1>6, <1>13, <2>2, <3>1, <3>2
  <2>3. CASE e.k /\ y = e
    <3>1. e \notin ToSet(s)
      BY <2>3, NotSeen
    <3>2. e \notin ToSet(f)
      BY <1>7, <1>15, <2>3, <3>1
    <3> QED BY <1>2, <1>6, <1>13, <2>3, <3>2
  <2> QED BY <1>2, <2>1, <2>2, <2>3
<1>19. \A y \in ToSet(t) : y.k => y \in ToSet(k2) \/ y \in ToSet(purge)
  <2> SUFFICES ASSUME NEW y \in ToSet(t), y.k PROVE y \in ToSet(k2) \/ y \in ToSet(purge)
    OBVIOUS
  <2>1. CASE y = e
    BY <1>2, <2>1
  <2>2. CASE y \in ToSet(s)
    BY <1>2, <1>6, <1>7, <1>15, <2>2
  <2> QED BY <1>13, <2>1, <2>2
<1>20. \E y \in ToSet(t) : acc.lo <= y.l
  BY <1>13, <1>15
<1>21. new.lo = k2[Len(k2)].l /\ new.hi = k2[Len(k2)].r
  BY <1>1, <1>2, <1>8, <1>12
<1>22. IsMergeOf(new, t)
  BY <1>2, <1>8, <1>9, <1>12, <1>16, <1>17, <1>18, <1>19, <1>20, <1>21, Zenon DEF IsMergeOf
<1> QED BY <1>2, <1>5, <1>22, Zenon DEF new, t, k2

\* One more element.
LEMMA MergeStep ==
  ASSUME NEW acc, NEW s \in Seq(Elem), IsMergeOf(acc, s), NEW e \in Elem, Follows(s, e)
  PROVE  IsMergeOf(MergeOne(TRUE, acc, e), Append(s, e))
<1>1. acc.lo \in Int /\ acc.hi \in Int /\ e.l \in Int /\ e.r \in Int /\ e.l <= e.r
  BY ElemIs DEF IsMergeOf
<1>2. CASE acc.kept = <<>>
  BY <1>2, MergeFirst, Zenon
<1>3. CASE acc.kept # <<>> /\ acc.hi >= e.r
  <2>1. acc.lo <= e.l
    <3>1. PICK x \in ToSet(s) : acc.lo <= x.l
      BY <1>3 DEF IsMergeOf
    <3>2. x.l <= e.l /\ x.l \in Int
      BY <3>1, SetOfSeq, ElemIs DEF Follows
    <3> QED BY <1>1, <3>1, <3>2
  <2> QED BY <1>3, <2>1, MergeContained, Zenon
<1>4. CASE acc.kept # <<>> /\ acc.hi < e.r /\ e.l <= acc.hi + 1
  BY <1>4, MergeJoins, Zenon
<1>5. CASE acc.kept # <<>> /\ acc.hi < e.r /\ acc.hi + 1 < e.l
  BY <1>5, MergeBehind, Zenon
<1>6. acc.hi >= e.r \/ (acc.hi < e.r /\ e.l <= acc.hi + 1) \/ (acc.hi < e.r /\ acc.hi + 1 < e.l)
  BY <1>1
<1> QED BY <1>2, <1>3, <1>4, <1>5, <1>6, Zenon

\* setelem_automerge() of an ordered list whose kernel elements are apart: what
\* is kept is apart and covers the same keys, and the kernel's elements are kept
\* as they are or purged.
LEMMA MergedInv ==
  ASSUME NEW s \in Seq(Elem), Sorted(s), Pairs(ApartR, s)
  PROVE  IsMergeOf(Merged(s), s)
<1> DEFINE base == [kept |-> <<>>, lo |-> 0, hi |-> 0, purge |-> <<>>]
           T == {u \in Seq(Elem) : Sorted(u) /\ Pairs(ApartR, u) => IsMergeOf(Merged(u), u)}
<1>1. <<>> \in T
  <2> DEFINE e == <<>>
  <2>1. Merged(e) = base
    BY MergeFold!FoldEmpty DEF Merged
  <2>2. e \in Seq(Elem) /\ base \in [kept : Seq(Elem), lo : Int, hi : Int, purge : Seq(Elem)]
        /\ base.kept = e /\ base.purge = e
    OBVIOUS
  <2>3. \A y : y \notin ToSet(e)
    BY SmallSets
  <2>4. Pairs(SepR, e) /\ Pairs(NeqR, e)
    BY DEF Pairs
  <2> HIDE DEF base
  <2>5. e = <<>>
    OBVIOUS
  <2> HIDE DEF e
  <2>6. \A v \in Int : Covers(base.kept, v) <=> Covers(e, v)
    BY <2>2
  <2>7. IsMergeOf(base, e)
    BY <2>2, <2>3, <2>4, <2>5, <2>6, Zenon DEF IsMergeOf
  <2>8. e \in T
    BY <2>1, <2>2, <2>7
  <2> QED BY <2>5, <2>8
<1>2. \A u \in Seq(Elem) : \A x \in Elem : u \in T => Append(u, x) \in T
  <2> SUFFICES ASSUME NEW u \in Seq(Elem), NEW x \in Elem, u \in T PROVE Append(u, x) \in T
    OBVIOUS
  <2> DEFINE v == Append(u, x)
  <2>1. MergeFold!IsAppend(v, u, x) /\ v \in Seq(Elem)
    BY DEF MergeFold!IsAppend
  <2>2. ASSUME Sorted(v), Pairs(ApartR, v)
        PROVE  Sorted(u) /\ Pairs(ApartR, u) /\ Follows(u, x)
    <3>1. Pairs(SortedR, u) /\ \A y \in ToSet(u) : <<y, x>> \in SortedR
      BY <2>2, AppendPairs DEF Sorted
    <3>2. Pairs(ApartR, u) /\ \A y \in ToSet(u) : <<y, x>> \in ApartR
      BY <2>2, AppendPairs
    <3>3. \A y \in ToSet(u) : y \in Elem
      BY SetOfSeq
    <3>4. \A y \in ToSet(u) : y.l <= x.l
      BY <3>1, <3>3, SortedPair
    <3>5. \A y \in ToSet(u) : y.k /\ x.k => y.r + 1 < x.l
      BY <3>2, <3>3, ApartPair
    <3> QED BY <3>1, <3>2, <3>4, <3>5 DEF Follows, Sorted
  <2> HIDE DEF v
  <2>3. Merged(v) = MergeOne(TRUE, Merged(u), x)
    <3> DEFINE base0 == [kept |-> <<>>, lo |-> 0, hi |-> 0, purge |-> <<>>]
    <3>1. \A p, b : MergeFold!Fold(p, b, v) = MergeOne(p, MergeFold!Fold(p, b, u), x)
      BY <2>1, MergeFold!FoldAppend
    <3> HIDE DEF base0
    <3>2. MergeFold!Fold(TRUE, base0, v) = MergeOne(TRUE, MergeFold!Fold(TRUE, base0, u), x)
      BY <3>1, Zenon
    <3> QED BY <3>2 DEF Merged, base0
  <2>4. ASSUME Sorted(v), Pairs(ApartR, v) PROVE IsMergeOf(Merged(v), v)
    <3>1. IsMergeOf(Merged(u), u) /\ Follows(u, x)
      BY <2>2, <2>4
    <3>2. IsMergeOf(MergeOne(TRUE, Merged(u), x), Append(u, x))
      BY <3>1, MergeStep
    <3> QED BY <2>3, <3>2 DEF v
  <2> QED BY <2>1, <2>4 DEF v
<1> HIDE DEF T
<1>3. Seq(Elem) \subseteq T
  BY <1>1, <1>2, SeqInduction
<1> QED BY <1>3 DEF T

-----------------------------------------------------------------------------
(* The messages of a command, and the kernel. *)

NewFold == INSTANCE FoldFacts WITH Op <- LAMBDA p, a, e : IF e.k THEN a ELSE Append(a, e)

\* The elements that are sent are selected by a fold.
LEMMA NewOnesIs ==
  ASSUME NEW s
  PROVE  NewFold!Fold(0, <<>>, s) = NewOnes(s)
BY Zenon DEF NewFold!Fold, NewOnes, NewFold!FoldLeft, FoldLeft, NewFold!MapThenFoldSet, MapThenFoldSet,
  NewFold!Max, Max

\* They are the elements without the mark, in the same order.
LEMMA NewOnesFacts ==
  ASSUME NEW R
  PROVE  \A s \in Seq(Elem) :
           /\ NewOnes(s) \in Seq(Elem)
           /\ \A y : y \in ToSet(NewOnes(s)) <=> y \in ToSet(s) /\ ~y.k
           /\ Pairs(R, s) => Pairs(R, NewOnes(s))
<1> DEFINE Good(u) == /\ NewOnes(u) \in Seq(Elem)
                      /\ \A y : y \in ToSet(NewOnes(u)) <=> y \in ToSet(u) /\ ~y.k
                      /\ Pairs(R, u) => Pairs(R, NewOnes(u))
           T == {u \in Seq(Elem) : Good(u)}
<1>1. <<>> \in T
  <2> DEFINE e == <<>>
  <2>1. NewOnes(e) = e
    BY NewFold!FoldEmpty, NewOnesIs
  <2>2. e \in Seq(Elem) /\ \A y : y \notin ToSet(e)
    BY SmallSets
  <2> HIDE DEF e
  <2>3. Good(e)
    BY <2>1, <2>2
  <2>4. e \in T
    BY <2>2, <2>3
  <2> QED BY <2>4 DEF e
<1>2. \A u \in Seq(Elem) : \A x \in Elem : u \in T => Append(u, x) \in T
  <2> SUFFICES ASSUME NEW u \in Seq(Elem), NEW x \in Elem, u \in T PROVE Append(u, x) \in T
    OBVIOUS
  <2> DEFINE v == Append(u, x)
             n == NewOnes(u)
  <2>1. NewFold!IsAppend(v, u, x) /\ v \in Seq(Elem)
    BY DEF NewFold!IsAppend
  <2>2. \A y : y \in ToSet(v) <=> y \in ToSet(u) \/ y = x
    BY AppendSet
  <2>3. Pairs(R, v) <=> Pairs(R, u) /\ \A y \in ToSet(u) : <<y, x>> \in R
    BY AppendPairs
  <2> HIDE DEF v
  <2>4. NewOnes(v) = IF x.k THEN n ELSE Append(n, x)
    <3>1. NewFold!Fold(0, <<>>, v) = IF x.k THEN NewFold!Fold(0, <<>>, u)
                                     ELSE Append(NewFold!Fold(0, <<>>, u), x)
      BY <2>1, NewFold!FoldAppend
    <3> QED BY <3>1, NewOnesIs
  <2>5. Good(u)
    OBVIOUS
  <2> HIDE DEF n
  <2>6. n \in Seq(Elem) /\ (\A y : y \in ToSet(n) <=> y \in ToSet(u) /\ ~y.k) /\ (Pairs(R, u) => Pairs(R, n))
    BY <2>5 DEF n
  <2>7. CASE x.k
    <3>1. NewOnes(v) = n
      BY <2>4, <2>7
    <3>2. \A y : y \in ToSet(n) <=> y \in ToSet(v) /\ ~y.k
      BY <2>2, <2>6, <2>7
    <3>3. Good(v)
      BY <2>3, <2>6, <3>1, <3>2
    <3> QED BY <2>1, <3>3 DEF v
  <2>8. CASE ~x.k
    <3> DEFINE w == Append(n, x)
    <3>1. NewOnes(v) = w
      BY <2>4, <2>8
    <3>2. w \in Seq(Elem) /\ \A y : y \in ToSet(w) <=> y \in ToSet(n) \/ y = x
      BY <2>6, AppendSet
    <3>3. Pairs(R, w) <=> Pairs(R, n) /\ \A y \in ToSet(n) : <<y, x>> \in R
      BY <2>6, AppendPairs
    <3> HIDE DEF w
    <3>4. \A y : y \in ToSet(w) <=> y \in ToSet(v) /\ ~y.k
      BY <2>2, <2>6, <2>8, <3>2
    <3>5. Pairs(R, v) => Pairs(R, w)
      BY <2>3, <2>6, <3>3
    <3>6. Good(v)
      BY <3>1, <3>2, <3>4, <3>5
    <3> QED BY <2>1, <3>6 DEF v
  <2> QED BY <2>7, <2>8
<1> HIDE DEF T
<1>3. Seq(Elem) \subseteq T
  BY <1>1, <1>2, SeqInduction
<1> QED BY <1>3 DEF T

\* The intervals of a list of elements.
LEMMA BaresIs ==
  ASSUME NEW s \in Seq(Elem)
  PROVE  /\ \A y : y \in Bares(s) <=> \E x \in ToSet(s) : y = Bare(x)
         /\ Bares(s) \subseteq Interval
<1>1. \A y : y \in Bares(s) <=> \E i \in DOMAIN s : y = Bare(s[i])
  BY DEF Bares
<1>2. \A x : x \in ToSet(s) <=> \E i \in DOMAIN s : x = s[i]
  BY DEF ToSet
<1>3. \A x \in ToSet(s) : Bare(x) \in Interval
  BY SetOfSeq, ElemIs
<1> QED BY <1>1, <1>2, <1>3

\* Two elements with the same mark and the same ends are one.
LEMMA BareEqual ==
  ASSUME NEW x \in Elem, NEW y \in Elem, x.k = y.k, Bare(x) = Bare(y)
  PROVE  x = y
<1>1. x.l = y.l /\ x.r = y.r
  BY DEF Bare, Ival
<1> QED BY <1>1, ElemIs

\* The elements of a message.
LEMMA EachBare ==
  ASSUME NEW Q, NEW s \in Seq(Elem)
  PROVE  /\ Each(Bare, s) \in Seq(Interval)
         /\ \A y : y \in ToSet(Each(Bare, s)) <=> y \in Bares(s)
         /\ (\A i, j \in DOMAIN s : i < j => <<Bare(s[i]), Bare(s[j])>> \in Q) => Pairs(Q, Each(Bare, s))
<1> DEFINE t == Each(Bare, s)
<1>1. DOMAIN t = DOMAIN s /\ \A i \in DOMAIN s : t[i] = Bare(s[i])
  BY DEF Each
<1>2. t \in Seq(Interval)
  <2>1. \A i \in 1..Len(s) : s[i] \in Elem
    OBVIOUS
  <2>2. t = [i \in 1..Len(s) |-> t[i]] /\ \A i \in 1..Len(s) : t[i] \in Interval
    BY <2>1, ElemIs DEF Each
  <2> HIDE DEF t
  <2> QED BY <2>2, SeqBuild
<1> HIDE DEF t
<1>3. \A y : y \in ToSet(t) <=> y \in Bares(s)
  BY <1>1 DEF ToSet, Bares
<1>4. (\A i, j \in DOMAIN s : i < j => <<Bare(s[i]), Bare(s[j])>> \in Q) => Pairs(Q, t)
  BY <1>1 DEF Pairs
<1> QED BY <1>2, <1>3, <1>4 DEF t

\* The cached list after a command has the same intervals, all marked.
LEMMA EachInKernel ==
  ASSUME NEW s \in Seq(Elem)
  PROVE  /\ Each(InKernel, s) \in Seq(Elem) /\ AllKernel(Each(InKernel, s))
         /\ DOMAIN Each(InKernel, s) = DOMAIN s
         /\ \A i \in DOMAIN s : /\ Each(InKernel, s)[i].l = s[i].l
                                /\ Each(InKernel, s)[i].r = s[i].r
         /\ Bares(Each(InKernel, s)) = Bares(s)
         /\ \A v : Covers(Each(InKernel, s), v) <=> Covers(s, v)
<1> DEFINE t == Each(InKernel, s)
<1>1. \A i \in 1..Len(s) : s[i] \in Elem
  OBVIOUS
<1>2. \A x \in Elem : InKernel(x) \in Elem /\ InKernel(x).l = x.l /\ InKernel(x).r = x.r /\ InKernel(x).k
  BY ElemIs DEF InKernel, Elem
<1>3. DOMAIN s = 1..Len(s)
  OBVIOUS
<1>4. t = [i \in 1..Len(s) |-> InKernel(s[i])]
  BY <1>3 DEF Each
<1> HIDE DEF t
<1>5. \A i \in DOMAIN s : t[i] \in Elem /\ t[i].l = s[i].l /\ t[i].r = s[i].r /\ t[i].k
  BY <1>1, <1>2, <1>3, <1>4
<1>6. t \in Seq(Elem) /\ DOMAIN t = DOMAIN s
  <2>1. t = [i \in 1..Len(s) |-> t[i]] /\ \A i \in 1..Len(s) : t[i] \in Elem
    BY <1>3, <1>4, <1>5
  <2> QED BY <1>3, <2>1, SeqBuild
<1>7. AllKernel(t)
  BY <1>5, <1>6 DEF AllKernel, ToSet
<1>8. Bares(t) = Bares(s)
  <2>1. \A i \in DOMAIN s : Bare(t[i]) = Bare(s[i])
    BY <1>5 DEF Bare
  <2> QED BY <1>6, <2>1 DEF Bares
<1>9. \A v : Covers(t, v) <=> Covers(s, v)
  <2>1. \A v : Covers(t, v) <=> \E i \in DOMAIN s : t[i].l <= v /\ v <= t[i].r
    BY <1>6 DEF Covers, ToSet
  <2>2. \A v : Covers(s, v) <=> \E i \in DOMAIN s : s[i].l <= v /\ v <= s[i].r
    BY DEF Covers, ToSet
  <2> QED BY <1>5, <2>1, <2>2
<1> QED BY <1>5, <1>6, <1>7, <1>8, <1>9 DEF t

DelFold == INSTANCE FoldFacts WITH Op <- LAMBDA p, a, e : KernelDel(a, e)

AddFold == INSTANCE FoldFacts WITH Op <- LAMBDA p, a, e : KernelAdd(a, e)

MsgFold == INSTANCE FoldFacts WITH Op <- LAMBDA p, a, m : KernelMsg(a, m)

DiffR == {p \in Interval \X Interval : p[1] # p[2]}

ClearR == {p \in Interval \X Interval : ~Overlaps(p[1], p[2])}

State(ivs) == [ok |-> TRUE, elems |-> ivs]

\* The kernel's part is three folds.
LEMMA KernelIs ==
  ASSUME NEW st, NEW s
  PROVE  /\ FoldLeft(KernelDel, st, s) = DelFold!Fold(0, st, s)
         /\ FoldLeft(KernelAdd, st, s) = AddFold!Fold(0, st, s)
         /\ FoldLeft(KernelMsg, st, s) = MsgFold!Fold(0, st, s)
<1>1. FoldLeft(KernelDel, st, s) = DelFold!Fold(0, st, s)
  BY Zenon DEF DelFold!Fold, DelFold!FoldLeft, FoldLeft, DelFold!MapThenFoldSet, MapThenFoldSet, DelFold!Max, Max
<1>2. FoldLeft(KernelAdd, st, s) = AddFold!Fold(0, st, s)
  BY Zenon DEF AddFold!Fold, AddFold!FoldLeft, FoldLeft, AddFold!MapThenFoldSet, MapThenFoldSet, AddFold!Max, Max
<1>3. FoldLeft(KernelMsg, st, s) = MsgFold!Fold(0, st, s)
  BY Zenon DEF MsgFold!Fold, MsgFold!FoldLeft, FoldLeft, MsgFold!MapThenFoldSet, MapThenFoldSet, MsgFold!Max, Max
<1> QED BY <1>1, <1>2, <1>3

\* The kernel deletes different intervals that it has.
LEMMA DelFacts ==
  ASSUME NEW ivs
  PROVE  \A s \in Seq(Interval) :
           Pairs(DiffR, s) /\ (\A x \in ToSet(s) : x \in ivs)
             => DelFold!Fold(0, State(ivs), s) = State(ivs \ ToSet(s))
<1> DEFINE Fits(u) == Pairs(DiffR, u) /\ \A x \in ToSet(u) : x \in ivs
           T == {u \in Seq(Interval) : Fits(u) => DelFold!Fold(0, State(ivs), u) = State(ivs \ ToSet(u))}
<1>1. <<>> \in T
  <2> DEFINE e == <<>>
  <2>1. DelFold!Fold(0, State(ivs), e) = State(ivs)
    BY DelFold!FoldEmpty
  <2>2. e \in Seq(Interval) /\ \A y : y \notin ToSet(e)
    BY SmallSets
  <2> HIDE DEF e
  <2>3. ivs \ ToSet(e) = ivs
    BY <2>2
  <2>4. e \in T
    BY <2>1, <2>2, <2>3
  <2> QED BY <2>4 DEF e
<1>2. \A u \in Seq(Interval) : \A x \in Interval : u \in T => Append(u, x) \in T
  <2> SUFFICES ASSUME NEW u \in Seq(Interval), NEW x \in Interval, u \in T PROVE Append(u, x) \in T
    OBVIOUS
  <2> DEFINE v == Append(u, x)
  <2>1. DelFold!IsAppend(v, u, x) /\ v \in Seq(Interval)
    BY DEF DelFold!IsAppend
  <2>2. \A y : y \in ToSet(v) <=> y \in ToSet(u) \/ y = x
    BY AppendSet
  <2>3. Pairs(DiffR, v) <=> Pairs(DiffR, u) /\ \A y \in ToSet(u) : <<y, x>> \in DiffR
    BY AppendPairs
  <2> HIDE DEF v
  <2>4. DelFold!Fold(0, State(ivs), v) = KernelDel(DelFold!Fold(0, State(ivs), u), x)
    BY <2>1, DelFold!FoldAppend
  <2>5. ASSUME Fits(v) PROVE DelFold!Fold(0, State(ivs), v) = State(ivs \ ToSet(v))
    <3>1. Fits(u)
      BY <2>2, <2>3, <2>5
    <3>2. x \in ivs /\ x \notin ToSet(u)
      BY <2>2, <2>3, <2>5 DEF DiffR
    <3>3. DelFold!Fold(0, State(ivs), u) = State(ivs \ ToSet(u))
      BY <3>1
    <3>4. KernelDel(State(ivs \ ToSet(u)), x) = State((ivs \ ToSet(u)) \ {x})
      BY <3>2 DEF KernelDel, State
    <3>5. (ivs \ ToSet(u)) \ {x} = ivs \ ToSet(v)
      BY <2>2
    <3> QED BY <2>4, <3>3, <3>4, <3>5
  <2> QED BY <2>1, <2>5 DEF v
<1> HIDE DEF T
<1>3. Seq(Interval) \subseteq T
  BY <1>1, <1>2, SeqInduction
<1> QED BY <1>3 DEF T

\* It adds intervals that overlap neither each other nor what it has.
LEMMA AddFacts ==
  ASSUME NEW ivs
  PROVE  \A s \in Seq(Interval) :
           Pairs(ClearR, s) /\ (\A x \in ToSet(s), y \in ivs : ~Overlaps(y, x))
             => AddFold!Fold(0, State(ivs), s) = State(ivs \cup ToSet(s))
<1> DEFINE Fits(u) == Pairs(ClearR, u) /\ \A x \in ToSet(u), y \in ivs : ~Overlaps(y, x)
           T == {u \in Seq(Interval) : Fits(u) => AddFold!Fold(0, State(ivs), u) = State(ivs \cup ToSet(u))}
<1>1. <<>> \in T
  <2> DEFINE e == <<>>
  <2>1. AddFold!Fold(0, State(ivs), e) = State(ivs)
    BY AddFold!FoldEmpty
  <2>2. e \in Seq(Interval) /\ \A y : y \notin ToSet(e)
    BY SmallSets
  <2> HIDE DEF e
  <2>3. ivs \cup ToSet(e) = ivs
    BY <2>2
  <2>4. e \in T
    BY <2>1, <2>2, <2>3
  <2> QED BY <2>4 DEF e
<1>2. \A u \in Seq(Interval) : \A x \in Interval : u \in T => Append(u, x) \in T
  <2> SUFFICES ASSUME NEW u \in Seq(Interval), NEW x \in Interval, u \in T PROVE Append(u, x) \in T
    OBVIOUS
  <2> DEFINE v == Append(u, x)
  <2>1. AddFold!IsAppend(v, u, x) /\ v \in Seq(Interval)
    BY DEF AddFold!IsAppend
  <2>2. \A y : y \in ToSet(v) <=> y \in ToSet(u) \/ y = x
    BY AppendSet
  <2>3. Pairs(ClearR, v) <=> Pairs(ClearR, u) /\ \A y \in ToSet(u) : <<y, x>> \in ClearR
    BY AppendPairs
  <2> HIDE DEF v
  <2>4. AddFold!Fold(0, State(ivs), v) = KernelAdd(AddFold!Fold(0, State(ivs), u), x)
    BY <2>1, AddFold!FoldAppend
  <2>5. ASSUME Fits(v) PROVE AddFold!Fold(0, State(ivs), v) = State(ivs \cup ToSet(v))
    <3>1. Fits(u)
      BY <2>2, <2>3, <2>5
    <3> DEFINE w == ivs \cup ToSet(u)
    <3>2. \A y \in w : ~Overlaps(y, x)
      BY <2>2, <2>3, <2>5 DEF ClearR
    <3>3. AddFold!Fold(0, State(ivs), u) = State(w)
      BY <3>1
    <3>4. w \cup {x} = ivs \cup ToSet(v)
      BY <2>2
    <3> HIDE DEF w
    <3>5. x.l <= x.r
      BY DEF Interval
    <3>6. KernelAdd(State(w), x) = State(w \cup {x})
      <4>1. CASE x \in w
        <5>1. KernelAdd(State(w), x) = State(w) /\ w \cup {x} = w
          BY <4>1 DEF KernelAdd, State
        <5> QED BY <5>1
      <4>2. CASE x \notin w
        <5>1. State(w).elems = w /\ State(w).ok = TRUE
          BY DEF State
        <5>2. KernelAdd(State(w), x) = [ok |-> State(w).ok /\ x.l <= x.r /\ \A y \in w : ~Overlaps(y, x),
                                        elems |-> w \cup {x}]
          BY <4>2, <5>1 DEF KernelAdd
        <5>3. (State(w).ok /\ x.l <= x.r /\ \A y \in w : ~Overlaps(y, x)) = TRUE
          BY <3>2, <3>5, <5>1
        <5> QED BY <5>2, <5>3, Zenon DEF State
      <4> QED BY <4>1, <4>2
    <3> QED BY <2>4, <3>3, <3>4, <3>6, Zenon
  <2> QED BY <2>1, <2>5 DEF v
<1> HIDE DEF T
<1>3. Seq(Interval) \subseteq T
  BY <1>1, <1>2, SeqInduction
<1> QED BY <1>3 DEF T

Messages == [type : {"add", "del", "flush"}, elems : Seq(Interval)]

\* What the kernel makes of messages, from the state st.
After(st, msgs) == MsgFold!Fold(0, st, msgs)

\* One message, or none.
LEMMA AfterMessage ==
  ASSUME NEW st, NEW type \in {"add", "del"}, NEW s \in Seq(Elem)
  PROVE  /\ Message(type, s) \in Seq(Messages)
         /\ s = <<>> => After(st, Message(type, s)) = st
         /\ s # <<>> => After(st, Message(type, s)) = KernelMsg(st, [type |-> type, elems |-> Each(Bare, s)])
<1> DEFINE m == [type |-> type, elems |-> Each(Bare, s)]
<1>1. m \in Messages
  BY EachBare DEF Messages
<1> HIDE DEF m
<1>2. CASE s = <<>>
  <2>1. Message(type, s) = <<>>
    BY <1>2 DEF Message
  <2>2. After(st, <<>>) = st
    BY MsgFold!FoldEmpty DEF After
  <2>3. <<>> \in Seq(Messages)
    OBVIOUS
  <2> QED BY <1>2, <2>1, <2>2, <2>3, Zenon
<1>3. CASE s # <<>>
  <2>1. Message(type, s) = <<m>>
    BY <1>3 DEF Message, m
  <2>2. After(st, <<m>>) = KernelMsg(st, m)
    BY MsgFold!FoldOne DEF After
  <2>3. <<m>> \in Seq(Messages)
    BY <1>1
  <2> QED BY <1>3, <2>1, <2>2, <2>3, Zenon DEF m
<1> QED BY <1>2, <1>3

\* No elements, no intervals.
LEMMA BaresEmpty ==
  Bares(<<>>) = {}
BY DEF Bares

\* The elements that are merged away or split are deleted.
LEMMA AfterDelete ==
  ASSUME NEW ivs, NEW s \in Seq(Elem), AllKernel(s), Pairs(NeqR, s), Bares(s) \subseteq ivs
  PROVE  After(State(ivs), Message("del", s)) = State(ivs \ Bares(s))
<1>1. CASE s = <<>>
  <2>1. ivs \ Bares(s) = ivs
    BY <1>1, BaresEmpty
  <2> QED BY <1>1, <2>1, AfterMessage
<1>2. CASE s # <<>>
  <2> DEFINE b == Each(Bare, s)
             m == [type |-> "del", elems |-> b]
  <2>1. After(State(ivs), Message("del", s)) = KernelMsg(State(ivs), m)
    BY <1>2, AfterMessage
  <2>2. KernelMsg(State(ivs), m) = FoldLeft(KernelDel, State(ivs), b)
    <3> HIDE DEF b
    <3>1. m.type = "del" /\ m.elems = b
      OBVIOUS
    <3> QED BY <3>1, Zenon DEF KernelMsg
  <2>3. \A i, j \in DOMAIN s : i < j => <<Bare(s[i]), Bare(s[j])>> \in DiffR
    <3> SUFFICES ASSUME NEW i \in DOMAIN s, NEW j \in DOMAIN s, i < j PROVE <<Bare(s[i]), Bare(s[j])>> \in DiffR
      OBVIOUS
    <3>1. s[i] \in Elem /\ s[j] \in Elem /\ s[i].k /\ s[j].k
      BY SeqMembers DEF AllKernel
    <3>2. s[i] # s[j]
      BY <3>1, SepPair DEF Pairs
    <3>3. s[i].k = s[j].k
      BY <3>1, ElemIs
    <3>4. Bare(s[i]) # Bare(s[j])
      BY <3>1, <3>2, <3>3, BareEqual
    <3>5. Bare(s[i]) \in Interval /\ Bare(s[j]) \in Interval
      BY <3>1, ElemIs
    <3> QED BY <3>4, <3>5 DEF DiffR
  <2>4. b \in Seq(Interval) /\ (\A y : y \in ToSet(b) <=> y \in Bares(s)) /\ Pairs(DiffR, b)
    BY <2>3, EachBare
  <2> HIDE DEF b
  <2>5. \A x \in ToSet(b) : x \in ivs
    BY <2>4
  <2>6. DelFold!Fold(0, State(ivs), b) = State(ivs \ ToSet(b))
    BY <2>4, <2>5, DelFacts
  <2>7. ivs \ ToSet(b) = ivs \ Bares(s)
    BY <2>4
  <2> QED BY <2>1, <2>2, <2>6, <2>7, KernelIs
<1> QED BY <1>1, <1>2

ScatR == {p \in Elem \X Elem : p[1].r + 1 < p[2].l \/ p[2].r + 1 < p[1].l}

\* Two elements with a key between them.
LEMMA ScatPair ==
  ASSUME NEW x \in Elem, NEW y \in Elem
  PROVE  <<x, y>> \in ScatR <=> x.r + 1 < y.l \/ y.r + 1 < x.l
<1>1. <<x, y>> \in Elem \X Elem
  OBVIOUS
<1> QED BY <1>1 DEF ScatR

\* Any two elements of a scattered list have one.
LEMMA ScatMembers ==
  ASSUME NEW s \in Seq(Elem), Pairs(ScatR, s), NEW x \in ToSet(s), NEW y \in ToSet(s), x # y
  PROVE  x.r + 1 < y.l \/ y.r + 1 < x.l
<1>1. PICK i \in 1..Len(s) : x = s[i]
  BY SeqMembers
<1>2. PICK j \in 1..Len(s) : y = s[j]
  BY SeqMembers
<1>3. DOMAIN s = 1..Len(s) /\ x \in Elem /\ y \in Elem
  BY SeqMembers, SetOfSeq
<1>4. i < j \/ j < i
  BY <1>1, <1>2
<1>5. <<x, y>> \in ScatR \/ <<y, x>> \in ScatR
  BY <1>1, <1>2, <1>3, <1>4 DEF Pairs
<1> QED BY <1>3, <1>5, ScatPair

\* The new elements of a scattered list are added.
LEMMA AfterAdd ==
  ASSUME NEW s \in Seq(Elem), Pairs(ScatR, s), NEW ivs,
         \A y \in ivs : \E x \in ToSet(s) : x.k /\ y = Bare(x)
  PROVE  After(State(ivs), Message("add", NewOnes(s))) = State(ivs \cup Bares(NewOnes(s)))
<1> DEFINE n == NewOnes(s)
<1>1. n \in Seq(Elem) /\ (\A y : y \in ToSet(n) <=> y \in ToSet(s) /\ ~y.k) /\ Pairs(ScatR, n)
  BY NewOnesFacts
<1> HIDE DEF n
<1>2. CASE n = <<>>
  <2>1. ivs \cup Bares(n) = ivs
    BY <1>2, BaresEmpty
  <2> QED BY <1>1, <1>2, <2>1, AfterMessage DEF n
<1>3. CASE n # <<>>
  <2> DEFINE b == Each(Bare, n)
             m == [type |-> "add", elems |-> b]
  <2>1. After(State(ivs), Message("add", n)) = KernelMsg(State(ivs), m)
    BY <1>1, <1>3, AfterMessage
  <2>2. KernelMsg(State(ivs), m) = FoldLeft(KernelAdd, State(ivs), b)
    <3> HIDE DEF b
    <3>1. m.type = "add" /\ m.elems = b
      OBVIOUS
    <3> QED BY <3>1, Zenon DEF KernelMsg
  <2>3. ASSUME NEW x \in Elem, NEW y \in Elem, x.r + 1 < y.l \/ y.r + 1 < x.l
        PROVE  ~Overlaps(Bare(x), Bare(y)) /\ <<Bare(x), Bare(y)>> \in ClearR
    <3>1. ~Overlaps(Bare(x), Bare(y))
      <4>1. x.l \in Int /\ x.r \in Int /\ y.l \in Int /\ y.r \in Int
        BY ElemIs
      <4>2. Bare(x).l = x.l /\ Bare(x).r = x.r /\ Bare(y).l = y.l /\ Bare(y).r = y.r
        BY DEF Bare, Ival
      <4> QED BY <2>3, <4>1, <4>2 DEF Overlaps
    <3>2. Bare(x) \in Interval /\ Bare(y) \in Interval
      BY ElemIs
    <3> QED BY <3>1, <3>2 DEF ClearR
  <2>4. \A i, j \in DOMAIN n : i < j => <<Bare(n[i]), Bare(n[j])>> \in ClearR
    <3> SUFFICES ASSUME NEW i \in DOMAIN n, NEW j \in DOMAIN n, i < j PROVE <<Bare(n[i]), Bare(n[j])>> \in ClearR
      OBVIOUS
    <3>1. n[i] \in Elem /\ n[j] \in Elem
      BY <1>1, SeqMembers
    <3>2. <<n[i], n[j]>> \in ScatR
      BY <1>1 DEF Pairs
    <3> QED BY <2>3, <3>1, <3>2, ScatPair
  <2>5. b \in Seq(Interval) /\ (\A y : y \in ToSet(b) <=> y \in Bares(n)) /\ Pairs(ClearR, b)
    BY <1>1, <2>4, EachBare
  <2> HIDE DEF b
  <2>6. \A z \in ToSet(b), y \in ivs : ~Overlaps(y, z)
    <3> SUFFICES ASSUME NEW z \in ToSet(b), NEW y \in ivs PROVE ~Overlaps(y, z)
      OBVIOUS
    <3>1. PICK w \in ToSet(n) : z = Bare(w)
      BY <1>1, <2>5, BaresIs
    <3>2. PICK x \in ToSet(s) : x.k /\ y = Bare(x)
      OBVIOUS
    <3>3. w \in ToSet(s) /\ w # x /\ w \in Elem /\ x \in Elem
      BY <1>1, <3>1, <3>2, SetOfSeq
    <3>4. x.r + 1 < w.l \/ w.r + 1 < x.l
      BY <3>3, ScatMembers
    <3> QED BY <2>3, <3>1, <3>2, <3>3, <3>4
  <2>7. AddFold!Fold(0, State(ivs), b) = State(ivs \cup ToSet(b))
    BY <2>5, <2>6, AddFacts
  <2>8. ivs \cup ToSet(b) = ivs \cup Bares(n)
    BY <2>5
  <2> QED BY <2>1, <2>2, <2>7, <2>8, KernelIs DEF n
<1> QED BY <1>2, <1>3 DEF n

-----------------------------------------------------------------------------
(* What a command does to the cached list and to the kernel. *)

\* The list old has become kept: its elements that are gone are in purge.
IsEditOf(kept, purge, old) ==
  /\ kept \in Seq(Elem) /\ purge \in Seq(Elem) /\ old \in Seq(Elem)
  /\ AllKernel(old)
  /\ Pairs(ScatR, kept) /\ Pairs(NeqR, purge)
  /\ \A x \in ToSet(purge) : x \in ToSet(old) /\ x \notin ToSet(kept)
  /\ \A x \in ToSet(kept) : x.k => x \in ToSet(old)
  /\ \A x \in ToSet(old) : x \in ToSet(kept) \/ x \in ToSet(purge)

\* The two messages of such a command make the kernel's intervals those of the list.
LEMMA EditFacts ==
  ASSUME NEW kept, NEW purge, NEW old, IsEditOf(kept, purge, old)
  PROVE  /\ Message("del", purge) \o Message("add", NewOnes(kept)) \in Seq(Messages)
         /\ After(State(Bares(old)), Message("del", purge) \o Message("add", NewOnes(kept))) = State(Bares(kept))
<1> DEFINE m1 == Message("del", purge)
           new == NewOnes(kept)
           m2 == Message("add", new)
           ivs == Bares(old) \ Bares(purge)
<1>1. /\ kept \in Seq(Elem) /\ purge \in Seq(Elem) /\ old \in Seq(Elem)
      /\ Pairs(ScatR, kept) /\ Pairs(NeqR, purge)
  BY DEF IsEditOf
<1>2. /\ AllKernel(old)
      /\ \A x \in ToSet(purge) : x \in ToSet(old) /\ x \notin ToSet(kept)
      /\ \A x \in ToSet(kept) : x.k => x \in ToSet(old)
      /\ \A x \in ToSet(old) : x \in ToSet(kept) \/ x \in ToSet(purge)
  BY DEF IsEditOf
<1>3. new \in Seq(Elem) /\ \A y : y \in ToSet(new) <=> y \in ToSet(kept) /\ ~y.k
  BY <1>1, NewOnesFacts
<1> HIDE DEF new
<1>4. m1 \in Seq(Messages) /\ m2 \in Seq(Messages)
  BY <1>1, <1>3, AfterMessage
<1>5. \A y : y \in Bares(old) <=> \E x \in ToSet(old) : y = Bare(x)
  BY <1>1, BaresIs
<1>6. \A y : y \in Bares(purge) <=> \E x \in ToSet(purge) : y = Bare(x)
  BY <1>1, BaresIs
<1>7. \A y : y \in Bares(kept) <=> \E x \in ToSet(kept) : y = Bare(x)
  BY <1>1, BaresIs
<1>8. \A y : y \in Bares(new) <=> \E x \in ToSet(new) : y = Bare(x)
  BY <1>3, BaresIs
<1>9. AllKernel(purge) /\ Bares(purge) \subseteq Bares(old)
  BY <1>2, <1>5, <1>6 DEF AllKernel
<1>10. After(State(Bares(old)), m1) = State(ivs)
  BY <1>1, <1>9, AfterDelete
<1>11. ASSUME NEW y \in ivs PROVE \E x \in ToSet(kept) : x.k /\ y = Bare(x)
  <2>1. PICK x \in ToSet(old) : y = Bare(x)
    BY <1>5
  <2>2. x \notin ToSet(purge)
    BY <1>6, <2>1
  <2> QED BY <1>2, <2>1, <2>2 DEF AllKernel
<1>12. ASSUME NEW x \in ToSet(kept), x.k PROVE Bare(x) \in ivs
  <2>1. x \in ToSet(old)
    BY <1>2, <1>12
  <2>2. Bare(x) \in Bares(old)
    BY <1>5, <2>1
  <2>3. ASSUME NEW z \in ToSet(purge), Bare(x) = Bare(z) PROVE FALSE
    <3>1. z \in ToSet(old) /\ z \notin ToSet(kept)
      BY <1>2
    <3>2. z \in Elem /\ x \in Elem /\ z.k = x.k
      <4>1. z \in Elem /\ x \in Elem
        BY <1>1, <2>1, <3>1, SetOfSeq
      <4>2. z.k /\ x.k
        BY <1>2, <2>1, <3>1 DEF AllKernel
      <4> QED BY <4>1, <4>2, ElemIs
    <3>3. z = x
      BY <2>3, <3>2, BareEqual
    <3> QED BY <3>1, <3>3
  <2> QED BY <1>6, <2>2, <2>3
<1>13. ivs \cup Bares(new) = Bares(kept)
  <2>1. ASSUME NEW y \in Bares(kept) PROVE y \in ivs \cup Bares(new)
    <3>1. PICK x \in ToSet(kept) : y = Bare(x)
      BY <1>7
    <3>2. CASE x.k
      BY <1>12, <3>1, <3>2
    <3>3. CASE ~x.k
      BY <1>3, <1>8, <3>1, <3>3
    <3> QED BY <3>2, <3>3
  <2>2. ASSUME NEW y \in ivs PROVE y \in Bares(kept)
    BY <1>7, <1>11
  <2>3. ASSUME NEW y \in Bares(new) PROVE y \in Bares(kept)
    BY <1>3, <1>7, <1>8
  <2> HIDE DEF ivs
  <2> QED BY <2>1, <2>2, <2>3
<1> HIDE DEF ivs
<1>14. After(State(ivs), m2) = State(ivs \cup Bares(new))
  <2>1. \A y \in ivs : \E x \in ToSet(kept) : x.k /\ y = Bare(x)
    BY <1>11
  <2> QED BY <1>1, <2>1, AfterAdd DEF new
<1> DEFINE st == State(Bares(old))
           u == m1 \o m2
<1> HIDE DEF m1, m2, st
<1>15. After(st, u) = After(After(st, m1), m2)
  <2>1. MsgFold!IsConcat(u, m1, m2)
    BY DEF MsgFold!IsConcat
  <2> HIDE DEF u
  <2> QED BY <1>4, <2>1, MsgFold!FoldConcat DEF After
<1>16. u \in Seq(Messages)
  BY <1>4
<1>17. After(st, u) = State(Bares(kept))
  BY <1>10, <1>13, <1>14, <1>15 DEF st
<1> QED BY <1>16, <1>17 DEF u, st, m1, m2, new

\* They follow the messages of the commands before.
LEMMA EditBatch ==
  ASSUME NEW kept, NEW purge, NEW old, IsEditOf(kept, purge, old),
         NEW st, NEW msgs \in Seq(Messages), After(st, msgs) = State(Bares(old))
  PROVE  /\ msgs \o Message("del", purge) \o Message("add", NewOnes(kept)) \in Seq(Messages)
         /\ After(st, msgs \o Message("del", purge) \o Message("add", NewOnes(kept))) = State(Bares(kept))
<1> DEFINE m1 == Message("del", purge)
           m2 == Message("add", NewOnes(kept))
           m == m1 \o m2
<1>1. m \in Seq(Messages) /\ After(State(Bares(old)), m) = State(Bares(kept))
  BY EditFacts
<1>2. m1 \in Seq(Messages) /\ m2 \in Seq(Messages)
  BY AfterMessage, NewOnesFacts DEF IsEditOf
<1> HIDE DEF m1, m2
<1>3. (msgs \o m1) \o m2 = msgs \o m
  BY <1>2
<1> DEFINE u == msgs \o m
<1>4. MsgFold!IsConcat(u, msgs, m)
  BY DEF MsgFold!IsConcat
<1>5. u \in Seq(Messages)
  BY <1>1
<1> HIDE DEF u, m
<1>6. After(st, u) = After(After(st, msgs), m)
  BY <1>1, <1>4, MsgFold!FoldConcat DEF After
<1>7. After(st, u) = State(Bares(kept))
  BY <1>1, <1>6
<1> QED BY <1>3, <1>5, <1>7 DEF u, m1, m2

\* A list in order whose elements are scattered.
LEMMA ScatSorted ==
  ASSUME NEW s \in Seq(Elem), Pairs(ScatR, s), Sorted(s)
  PROVE  Pairs(ApartR, s)
<1> SUFFICES ASSUME NEW i \in DOMAIN s, NEW j \in DOMAIN s, i < j PROVE <<s[i], s[j]>> \in ApartR
  BY DEF Pairs
<1>1. s[i] \in Elem /\ s[j] \in Elem
  BY SeqMembers
<1>2. <<s[i], s[j]>> \in ScatR /\ <<s[i], s[j]>> \in SortedR
  BY DEF Pairs, Sorted
<1>3. s[i].r + 1 < s[j].l \/ s[j].r + 1 < s[i].l
  BY <1>1, <1>2, ScatPair
<1>4. s[i].l <= s[j].l
  BY <1>1, <1>2, SortedPair
<1>5. s[i].r + 1 < s[j].l
  <2>1. s[i].l \in Int /\ s[i].r \in Int /\ s[j].l \in Int /\ s[j].r \in Int /\ s[j].l <= s[j].r
    BY <1>1, ElemIs
  <2> QED BY <1>3, <1>4, <2>1
<1> QED BY <1>1, <1>5, ApartPair

\* Elements that are apart in the order of the list are scattered and in order.
LEMMA SepIs ==
  ASSUME NEW s \in Seq(Elem), Pairs(SepR, s)
  PROVE  Pairs(ScatR, s) /\ Sorted(s)
<1> SUFFICES ASSUME NEW i \in DOMAIN s, NEW j \in DOMAIN s, i < j
             PROVE  <<s[i], s[j]>> \in ScatR /\ <<s[i], s[j]>> \in SortedR
  BY DEF Pairs, Sorted
<1>1. s[i] \in Elem /\ s[j] \in Elem
  BY SeqMembers
<1>2. s[i].r + 1 < s[j].l
  BY <1>1, SepPair DEF Pairs
<1>3. s[i].l <= s[j].l
  <2>1. s[i].l \in Int /\ s[i].r \in Int /\ s[j].l \in Int /\ s[i].l <= s[i].r
    BY <1>1, ElemIs
  <2> QED BY <1>2, <2>1
<1> QED BY <1>1, <1>2, <1>3, ScatPair, SortedPair

\* Adding elements to a set: the merged list and the elements that are purged.
LEMMA AddFact ==
  ASSUME NEW init \in Seq(Elem), AllNew(init),
         NEW head \in Seq(Elem), AllKernel(head), Pairs(ScatR, head), Sorted(head),
         NEW m, m = Merged(ListSpliceSorted(head, ListExprSort(init)))
  PROVE  /\ IsEditOf(m.kept, m.purge, head) /\ Pairs(SepR, m.kept)
         /\ \A v \in Int : Covers(m.kept, v) <=> Covers(init, v) \/ Covers(head, v)
<1> DEFINE list == ListSpliceSorted(head, ListExprSort(init))
<1>1. Pairs(ApartR, head)
  BY ScatSorted
<1>2. /\ list \in Seq(Elem) /\ Sorted(list) /\ Pairs(ApartR, list)
      /\ \A y : y \in ToSet(list) <=> y \in ToSet(init) \/ y \in ToSet(head)
  BY <1>1, JoinedFacts
<1>3. m = Merged(list)
  OBVIOUS
<1> HIDE DEF list
<1>4. IsMergeOf(m, list)
  BY <1>2, <1>3, MergedInv
<1>5. /\ m.kept \in Seq(Elem) /\ m.purge \in Seq(Elem) /\ Pairs(SepR, m.kept) /\ Pairs(NeqR, m.purge)
      /\ \A x \in ToSet(m.kept) : x.k => x \in ToSet(list)
      /\ \A x \in ToSet(m.purge) : x.k /\ x \in ToSet(list) /\ x \notin ToSet(m.kept)
      /\ \A x \in ToSet(list) : x.k => x \in ToSet(m.kept) \/ x \in ToSet(m.purge)
      /\ \A v \in Int : Covers(m.kept, v) <=> Covers(list, v)
  BY <1>4 DEF IsMergeOf
<1>6. \A x \in ToSet(list) : x.k => x \in ToSet(head)
  BY <1>2 DEF AllNew
<1>7. \A x \in ToSet(head) : x.k /\ x \in ToSet(list)
  BY <1>2 DEF AllKernel
<1>8. \A x \in ToSet(m.purge) : x \in ToSet(head) /\ x \notin ToSet(m.kept)
  BY <1>5, <1>6
<1>9. \A x \in ToSet(m.kept) : x.k => x \in ToSet(head)
  BY <1>5, <1>6
<1>10. \A x \in ToSet(head) : x \in ToSet(m.kept) \/ x \in ToSet(m.purge)
  BY <1>5, <1>7
<1>11. Pairs(ScatR, m.kept)
  BY <1>5, SepIs
<1>12. IsEditOf(m.kept, m.purge, head)
  BY <1>5, <1>8, <1>9, <1>10, <1>11, Zenon DEF IsEditOf
<1>13. \A v : Covers(list, v) <=> Covers(init, v) \/ Covers(head, v)
  BY <1>2 DEF Covers
<1> QED BY <1>5, <1>12, <1>13, Zenon

-----------------------------------------------------------------------------
(* Deleting elements. *)

\* The elements to delete, merged with each other.
LEMMA ToDeleteFacts ==
  ASSUME automerge = TRUE, NEW init \in Seq(Elem), AllNew(init)
  PROVE  /\ ToDelete(init) \in Seq(Elem) /\ Pairs(SepR, ToDelete(init))
         /\ \A v \in Int : Covers(ToDelete(init), v) <=> Covers(init, v)
<1> DEFINE t == ListExprSort(init)
           m == Merged(t)
<1>1. IsSortOf({}, t, init)
  <2>1. Symmetric({})
    BY DEF Symmetric
  <2> QED BY <2>1, SortFacts
<1>2. ToDelete(init) = m.kept
  <2>1. SetelemAutomerge(t) = m
    BY MergedIs
  <2> QED BY <2>1 DEF ToDelete
<1> HIDE DEF t, m
<1>3. t \in Seq(Elem) /\ Sorted(t) /\ \A y : y \in ToSet(t) <=> y \in ToSet(init)
  BY <1>1 DEF IsSortOf
<1>4. Pairs(ApartR, t)
  <2> SUFFICES ASSUME NEW i \in DOMAIN t, NEW j \in DOMAIN t PROVE <<t[i], t[j]>> \in ApartR
    BY DEF Pairs
  <2>1. t[i] \in Elem /\ t[j] \in Elem /\ t[i] \in ToSet(t)
    BY <1>3, SeqMembers
  <2>2. ~t[i].k
    BY <1>3, <2>1 DEF AllNew
  <2> QED BY <2>1, <2>2, ApartPair
<1>5. IsMergeOf(m, t)
  BY <1>3, <1>4, MergedInv DEF m
<1>6. \A v : Covers(t, v) <=> Covers(init, v)
  BY <1>3 DEF Covers
<1> QED BY <1>2, <1>5, <1>6 DEF IsMergeOf

\* __set_delete() for one element: automerge is p.
DeleteOne(p, acc, d) ==
  LET list  == ListExprSort(acc.list)
      n     == UpTo(list, d.l)
      prev  == list[n]
      rest  == SubSeq(list, 1, n - 1) \o SubSeq(list, n + 1, Len(list))
      purge == IF prev.k THEN Append(acc.purge, prev) ELSE acc.purge
      left  == <<New(Ival(prev.l, d.l - 1))>>
      right == <<New(Ival(d.r + 1, prev.r))>>
  IN CASE ~acc.ok \/ n = 0 -> [acc EXCEPT !.ok = FALSE]
       [] acc.ok /\ n > 0 /\ Bare(prev) = Bare(d) ->
            [acc EXCEPT !.purge = purge, !.list = IF prev.k THEN rest ELSE list]
       [] acc.ok /\ n > 0 /\ p /\ prev.l = d.l /\ prev.r > d.r ->
            [acc EXCEPT !.purge = purge, !.list = right \o rest]
       [] acc.ok /\ n > 0 /\ p /\ prev.l < d.l /\ prev.r = d.r ->
            [acc EXCEPT !.purge = purge, !.list = left \o rest]
       [] acc.ok /\ n > 0 /\ p /\ prev.l < d.l /\ prev.r > d.r ->
            [acc EXCEPT !.purge = purge, !.list = left \o rest \o right]
       [] OTHER -> [acc EXCEPT !.ok = FALSE]

DeleteFold == INSTANCE FoldFacts WITH Op <- LAMBDA p, a, d : DeleteOne(p, a, d)

DeletedFrom(p, list, ds) == DeleteFold!Fold(p, [ok |-> TRUE, list |-> list, purge |-> <<>>], ds)

\* __set_delete() is a fold.
LEMMA DeletedIs ==
  ASSUME NEW init
  PROVE  Deleted(init) = DeletedFrom(automerge, existing, ToDelete(init))
BY Zenon DEF DeleteFold!Fold, DeleteOne, Delete1, Deleted, DeletedFrom, DeleteFold!FoldLeft, FoldLeft,
  DeleteFold!MapThenFoldSet, MapThenFoldSet, DeleteFold!Max, Max

\* A list without one of its elements.
Without(s, n) == SubSeq(s, 1, n - 1) \o SubSeq(s, n + 1, Len(s))

\* An element is taken out of a list.
LEMMA TakeOut ==
  ASSUME NEW R, NEW s \in Seq(Elem), NEW n \in 1..Len(s), Pairs(R, s)
  PROVE  /\ Without(s, n) \in Seq(Elem) /\ s[n] \in Elem /\ Pairs(R, Without(s, n))
         /\ \A y : y \in ToSet(s) <=> y \in ToSet(Without(s, n)) \/ y = s[n]
         /\ \A y \in ToSet(Without(s, n)) : <<y, s[n]>> \in R \/ <<s[n], y>> \in R
<1> DEFINE rest == Without(s, n)
           a == SubSeq(s, 1, n)
           f == SubSeq(s, 1, n - 1)
           b == SubSeq(s, n + 1, Len(s))
           x == s[n]
<1>1. n \in 0..Len(s) /\ n - 1 \in 0..Len(s) /\ x \in Elem
  BY SeqMembers
<1>2. a \in Seq(Elem) /\ b \in Seq(Elem) /\ Len(a) = n /\ s = a \o b /\ \A i \in 1..n : a[i] = s[i]
  BY <1>1, CutSeq
<1>3. f \in Seq(Elem) /\ Len(f) = n - 1 /\ \A i \in 1..(n - 1) : f[i] = s[i]
  BY <1>1, CutSeq
<1>4. rest = f \o b
  BY DEF Without
<1> HIDE DEF a, b, f, x, rest
<1>5. a = Append(f, x)
  <2>1. Append(f, x) \in Seq(Elem) /\ Len(Append(f, x)) = n
    BY <1>1, <1>3
  <2>2. \A i \in 1..n : Append(f, x)[i] = a[i]
    BY <1>1, <1>2, <1>3 DEF x
  <2> QED BY <1>2, <2>1, <2>2
<1>6. Pairs(R, a) /\ Pairs(R, b) /\ \A y \in ToSet(a), z \in ToSet(b) : <<y, z>> \in R
  BY <1>2, ConcatPairs
<1>7. \A y : y \in ToSet(a) <=> y \in ToSet(f) \/ y = x
  BY <1>1, <1>3, <1>5, AppendSet
<1>8. Pairs(R, f) /\ \A y \in ToSet(f) : <<y, x>> \in R
  BY <1>1, <1>3, <1>5, <1>6, AppendPairs
<1>9. Pairs(R, rest)
  <2>1. \A y \in ToSet(f), z \in ToSet(b) : <<y, z>> \in R
    BY <1>6, <1>7
  <2>2. f \in Seq(Elem) /\ b \in Seq(Elem) /\ Pairs(R, f) /\ Pairs(R, b)
    BY <1>2, <1>3, <1>6, <1>8
  <2>3. Pairs(R, f \o b)
    BY <2>1, <2>2, ConcatPairs, Zenon
  <2> QED BY <1>4, <2>3
<1>10. \A y : y \in ToSet(rest) <=> y \in ToSet(f) \/ y \in ToSet(b)
  BY <1>2, <1>3, <1>4, ConcatSet
<1>11. \A y : y \in ToSet(s) <=> y \in ToSet(a) \/ y \in ToSet(b)
  BY <1>2, ConcatSet
<1>12. rest \in Seq(Elem)
  BY <1>2, <1>3, <1>4
<1>13. \A y \in ToSet(rest) : <<y, x>> \in R \/ <<x, y>> \in R
  BY <1>6, <1>7, <1>8, <1>10
<1>14. \A y : y \in ToSet(s) <=> y \in ToSet(rest) \/ y = x
  BY <1>7, <1>10, <1>11, Zenon
<1> QED BY <1>1, <1>9, <1>12, <1>13, <1>14 DEF x, rest

\* What is left of prev when d is deleted.
IsPiece(y, prev, d) ==
  /\ ~y.k
  /\ (y.l = prev.l /\ y.r = d.l - 1) \/ (y.l = d.r + 1 /\ y.r = prev.r)

\* The list after an element d, inside of prev, was deleted.
IsCutOf(list, rest, prev, d) ==
  /\ list \in Seq(Elem) /\ Pairs(ScatR, list)
  /\ \A y \in Elem : y \in ToSet(list) <=> y \in ToSet(rest) \/ IsPiece(y, prev, d)

\* A remaining part is apart from what prev was apart from.
LEMMA PieceApart ==
  ASSUME NEW prev \in Elem, NEW d \in Elem, prev.l <= d.l, d.r <= prev.r,
         NEW x \in Elem, IsPiece(x, prev, d), NEW y \in Elem, <<y, prev>> \in ScatR \/ <<prev, y>> \in ScatR
  PROVE  <<x, y>> \in ScatR /\ <<y, x>> \in ScatR
<1>1. /\ prev.l \in Int /\ prev.r \in Int /\ d.l \in Int /\ d.r \in Int /\ d.l <= d.r
      /\ x.l \in Int /\ x.r \in Int /\ y.l \in Int /\ y.r \in Int
  BY ElemIs
<1>2. prev.r + 1 < y.l \/ y.r + 1 < prev.l
  BY ScatPair
<1>3. prev.l <= x.l /\ x.r <= prev.r
  BY <1>1 DEF IsPiece
<1>4. x.r + 1 < y.l \/ y.r + 1 < x.l
  BY <1>1, <1>2, <1>3
<1> QED BY <1>4, ScatPair

\* The state of __set_delete() after the elements u of the command.
IsDeleteOf(acc, u, old) ==
  /\ acc \in [ok : BOOLEAN, list : Seq(Elem), purge : Seq(Elem)]
  /\ acc.ok =>
       /\ IsEditOf(acc.list, acc.purge, old)
       /\ \A v \in Int : Covers(acc.list, v) <=> Covers(old, v) /\ ~Covers(u, v)
       /\ \A v \in Int : Covers(u, v) => Covers(old, v)
       /\ \A x \in ToSet(acc.list) : x.k \/ \E d \in ToSet(u) : d.r + 1 = x.l \/ x.r + 1 = d.l
  /\ ~acc.ok => \E v \in Int : Covers(u, v) /\ ~Covers(old, v)

\* One element is deleted that lies inside of one of the list.
LEMMA DeleteCut ==
  ASSUME NEW acc, NEW u \in Seq(Elem), NEW old, IsDeleteOf(acc, u, old), acc.ok, NEW d \in Elem,
         NEW prev \in ToSet(acc.list), prev.l <= d.l, d.r <= prev.r,
         NEW rest \in Seq(Elem), Pairs(ScatR, rest),
         \A y : y \in ToSet(acc.list) <=> y \in ToSet(rest) \/ y = prev,
         \A y \in ToSet(rest) : <<y, prev>> \in ScatR \/ <<prev, y>> \in ScatR,
         NEW new, IsCutOf(new, rest, prev, d),
         NEW purge, purge = IF prev.k THEN Append(acc.purge, prev) ELSE acc.purge
  PROVE  IsDeleteOf([ok |-> TRUE, list |-> new, purge |-> purge], Append(u, d), old)
<1> DEFINE t == Append(u, d)
           acc2 == [ok |-> TRUE, list |-> new, purge |-> purge]
<1>1. acc \in [ok : BOOLEAN, list : Seq(Elem), purge : Seq(Elem)]
  BY DEF IsDeleteOf
<1>2. /\ IsEditOf(acc.list, acc.purge, old)
      /\ \A v \in Int : Covers(acc.list, v) <=> Covers(old, v) /\ ~Covers(u, v)
      /\ \A v \in Int : Covers(u, v) => Covers(old, v)
      /\ \A x \in ToSet(acc.list) : x.k \/ \E z \in ToSet(u) : z.r + 1 = x.l \/ x.r + 1 = z.l
  BY DEF IsDeleteOf
<1>3. /\ old \in Seq(Elem) /\ AllKernel(old) /\ Pairs(NeqR, acc.purge)
      /\ \A x \in ToSet(acc.purge) : x \in ToSet(old) /\ x \notin ToSet(acc.list)
      /\ \A x \in ToSet(acc.list) : x.k => x \in ToSet(old)
      /\ \A x \in ToSet(old) : x \in ToSet(acc.list) \/ x \in ToSet(acc.purge)
  BY <1>2 DEF IsEditOf
<1>4. acc.list \in Seq(Elem) /\ acc.purge \in Seq(Elem) /\ prev \in Elem
  <2>1. acc.list \in Seq(Elem) /\ acc.purge \in Seq(Elem)
    BY <1>1
  <2> QED BY <2>1, SetOfSeq
<1>5. /\ new \in Seq(Elem) /\ Pairs(ScatR, new)
      /\ \A y \in Elem : y \in ToSet(new) <=> y \in ToSet(rest) \/ IsPiece(y, prev, d)
  BY DEF IsCutOf
<1>6. /\ prev.l \in Int /\ prev.r \in Int /\ d.l \in Int /\ d.r \in Int /\ d.l <= d.r
  BY <1>4, ElemIs
<1>7. prev \notin ToSet(rest)
  <2>1. <<prev, prev>> \notin ScatR
    <3>1. ~(prev.r + 1 < prev.l)
      BY <1>6
    <3> QED BY <1>4, <3>1, ScatPair
  <2> QED BY <2>1
<1>8. purge \in Seq(Elem) /\ Pairs(NeqR, purge) /\ \A y : y \in ToSet(purge) <=> y \in ToSet(acc.purge) \/ (prev.k /\ y = prev)
  <2>1. CASE prev.k
    <3>1. prev \notin ToSet(acc.purge)
      BY <1>3
    <3>2. /\ Append(acc.purge, prev) \in Seq(Elem) /\ Pairs(NeqR, Append(acc.purge, prev))
          /\ \A y : y \in ToSet(Append(acc.purge, prev)) <=> y \in ToSet(acc.purge) \/ y = prev
      <4> DEFINE q == acc.purge
      <4>1. q \in Seq(Elem) /\ Pairs(NeqR, q) /\ prev \notin ToSet(q) /\ prev \in Elem
        BY <1>3, <1>4, <3>1
      <4> HIDE DEF q
      <4>2. /\ Append(q, prev) \in Seq(Elem) /\ Pairs(NeqR, Append(q, prev))
            /\ \A y : y \in ToSet(Append(q, prev)) <=> y \in ToSet(q) \/ y = prev
        BY <4>1, PurgeOne
      <4> QED BY <4>2 DEF q
    <3>3. purge = Append(acc.purge, prev)
      BY <2>1
    <3> QED BY <2>1, <3>2, <3>3, Zenon
  <2>2. CASE ~prev.k
    <3>1. purge = acc.purge
      BY <2>2
    <3> QED BY <1>3, <1>4, <2>2, <3>1, Zenon
  <2> QED BY <2>1, <2>2
<1>9. \A y \in ToSet(new) : y \in Elem /\ (y \in ToSet(rest) \/ IsPiece(y, prev, d))
  <2>1. \A y \in ToSet(new) : y \in Elem
    BY <1>5, SetOfSeq
  <2> QED BY <1>5, <2>1
<1>10. \A y \in ToSet(rest) : y \in Elem /\ y \in ToSet(acc.list) /\ y \in ToSet(new)
  <2>1. \A y \in ToSet(rest) : y \in Elem
    BY SetOfSeq
  <2> QED BY <1>5, <2>1
<1>11. IsEditOf(new, purge, old)
  <2>1. \A x \in ToSet(purge) : x \in ToSet(old) /\ x \notin ToSet(new)
    <3> SUFFICES ASSUME NEW x \in ToSet(purge) PROVE x \in ToSet(old) /\ x \notin ToSet(new)
      OBVIOUS
    <3>1. x \in ToSet(old) /\ x \notin ToSet(rest)
      <4>1. CASE x \in ToSet(acc.purge)
        BY <1>3, <1>10, <4>1
      <4>2. CASE prev.k /\ x = prev
        BY <1>3, <1>7, <4>2
      <4> QED BY <1>8, <4>1, <4>2
    <3>2. x.k
      BY <1>3, <3>1 DEF AllKernel
    <3> QED BY <1>9, <3>1, <3>2 DEF IsPiece
  <2>2. \A x \in ToSet(new) : x.k => x \in ToSet(old)
    BY <1>3, <1>9, <1>10 DEF IsPiece
  <2>3. \A x \in ToSet(old) : x \in ToSet(new) \/ x \in ToSet(purge)
    <3> SUFFICES ASSUME NEW x \in ToSet(old) PROVE x \in ToSet(new) \/ x \in ToSet(purge)
      OBVIOUS
    <3>1. CASE x \in ToSet(acc.purge)
      BY <1>8, <3>1
    <3>2. CASE x \in ToSet(rest)
      BY <1>10, <3>2
    <3>3. CASE x = prev
      <4>1. prev.k
        BY <3>3, <1>3 DEF AllKernel
      <4> QED BY <1>8, <3>3, <4>1
    <3> QED BY <1>3, <3>1, <3>2, <3>3
  <2> QED BY <1>3, <1>5, <1>8, <2>1, <2>2, <2>3, Zenon DEF IsEditOf
<1>12. \A y : y \in ToSet(t) <=> y \in ToSet(u) \/ y = d
  BY AppendSet
<1>13. \A v : Covers(t, v) <=> Covers(u, v) \/ (d.l <= v /\ v <= d.r)
  BY AppendCovers
<1> HIDE DEF t
<1>14. \A v \in Int : Covers(acc.list, v) <=> Covers(rest, v) \/ (prev.l <= v /\ v <= prev.r)
  BY DEF Covers
<1>15. ASSUME NEW v \in Int PROVE Covers(new, v) <=> Covers(rest, v) \/ (prev.l <= v /\ v < d.l) \/ (d.r < v /\ v <= prev.r)
  <2>1. ASSUME Covers(new, v) PROVE Covers(rest, v) \/ (prev.l <= v /\ v < d.l) \/ (d.r < v /\ v <= prev.r)
    <3>1. PICK x \in ToSet(new) : x.l <= v /\ v <= x.r
      BY <2>1 DEF Covers
    <3>2. CASE x \in ToSet(rest)
      BY <3>1, <3>2 DEF Covers
    <3>3. CASE IsPiece(x, prev, d)
      BY <1>6, <3>1, <3>3 DEF IsPiece
    <3> QED BY <1>9, <3>2, <3>3
  <2>2. ASSUME Covers(rest, v) PROVE Covers(new, v)
    BY <1>10, <2>2 DEF Covers
  <2>3. ASSUME prev.l <= v, v < d.l PROVE Covers(new, v)
    <3> DEFINE x == [l |-> prev.l, r |-> d.l - 1, k |-> FALSE]
    <3>1. x \in Elem
      <4>1. prev.l \in 0..MaxKey /\ d.l \in 0..MaxKey /\ prev.l <= d.l - 1
        BY <1>4, <1>6, <2>3, ElemIs
      <4>2. d.l - 1 \in 0..MaxKey
        BY <4>1, IntervalsAssumption
      <4> QED BY <4>1, <4>2 DEF Elem
    <3>2. IsPiece(x, prev, d)
      BY DEF IsPiece
    <3>3. x.l <= v /\ v <= x.r
      BY <1>6, <2>3
    <3> HIDE DEF x
    <3> QED BY <1>5, <3>1, <3>2, <3>3 DEF Covers
  <2>4. ASSUME d.r < v, v <= prev.r PROVE Covers(new, v)
    <3> DEFINE x == [l |-> d.r + 1, r |-> prev.r, k |-> FALSE]
    <3>1. x \in Elem
      <4>1. prev.r \in 0..MaxKey /\ d.r \in 0..MaxKey /\ d.r + 1 <= prev.r
        BY <1>4, <1>6, <2>4, ElemIs
      <4>2. d.r + 1 \in 0..MaxKey
        BY <4>1, IntervalsAssumption
      <4> QED BY <4>1, <4>2 DEF Elem
    <3>2. IsPiece(x, prev, d)
      BY DEF IsPiece
    <3>3. x.l <= v /\ v <= x.r
      BY <1>6, <2>4
    <3> HIDE DEF x
    <3> QED BY <1>5, <3>1, <3>2, <3>3 DEF Covers
  <2> QED BY <2>1, <2>2, <2>3, <2>4
<1>16. ASSUME NEW v \in Int, d.l <= v, v <= d.r PROVE ~Covers(rest, v)
  <2> SUFFICES ASSUME NEW x \in ToSet(rest), x.l <= v, v <= x.r PROVE FALSE
    BY DEF Covers
  <2>1. x \in Elem /\ (x.r + 1 < prev.l \/ prev.r + 1 < x.l)
    BY <1>4, <1>10, ScatPair
  <2>2. x.l \in Int /\ x.r \in Int
    BY <2>1, ElemIs
  <2> QED BY <1>6, <1>16, <2>1, <2>2
<1>17. \A v \in Int : Covers(new, v) <=> Covers(old, v) /\ ~Covers(t, v)
  <2> SUFFICES ASSUME NEW v \in Int PROVE Covers(new, v) <=> Covers(old, v) /\ ~Covers(t, v)
    OBVIOUS
  <2>1. Covers(acc.list, v) <=> Covers(old, v) /\ ~Covers(u, v)
    BY <1>2
  <2>2. Covers(acc.list, v) <=> Covers(rest, v) \/ (prev.l <= v /\ v <= prev.r)
    BY <1>14
  <2>3. Covers(new, v) <=> Covers(rest, v) \/ (prev.l <= v /\ v < d.l) \/ (d.r < v /\ v <= prev.r)
    BY <1>15
  <2>4. d.l <= v /\ v <= d.r => ~Covers(rest, v)
    BY <1>16
  <2>5. (prev.l <= v /\ v < d.l) \/ (d.r < v /\ v <= prev.r) <=> (prev.l <= v /\ v <= prev.r) /\ ~(d.l <= v /\ v <= d.r)
    BY <1>6
  <2>6. Covers(t, v) <=> Covers(u, v) \/ (d.l <= v /\ v <= d.r)
    BY <1>13
  <2> QED BY <2>1, <2>2, <2>3, <2>4, <2>5, <2>6
<1>18. \A v \in Int : Covers(t, v) => Covers(old, v)
  <2> SUFFICES ASSUME NEW v \in Int, d.l <= v, v <= d.r PROVE Covers(old, v)
    BY <1>2, <1>13
  <2>1. prev.l <= v /\ v <= prev.r
    BY <1>6
  <2> QED BY <1>2, <1>14, <2>1
<1>19. \A x \in ToSet(new) : x.k \/ \E z \in ToSet(t) : z.r + 1 = x.l \/ x.r + 1 = z.l
  <2> SUFFICES ASSUME NEW x \in ToSet(new), ~x.k PROVE \E z \in ToSet(t) : z.r + 1 = x.l \/ x.r + 1 = z.l
    OBVIOUS
  <2>1. CASE x \in ToSet(rest)
    <3>1. PICK z \in ToSet(u) : z.r + 1 = x.l \/ x.r + 1 = z.l
      BY <1>2, <1>10, <2>1
    <3> QED BY <1>12, <3>1
  <2>2. CASE IsPiece(x, prev, d)
    <3>1. d.r + 1 = x.l \/ x.r + 1 = d.l
      <4>1. x.r = d.l - 1 \/ x.l = d.r + 1
        BY <2>2 DEF IsPiece
      <4>2. (d.l - 1) + 1 = d.l
        BY <1>6
      <4> QED BY <4>1, <4>2
    <3> QED BY <1>12, <3>1
  <2> QED BY <1>9, <2>1, <2>2
<1>20. acc2 \in [ok : BOOLEAN, list : Seq(Elem), purge : Seq(Elem)] /\ acc2.ok /\ acc2.list = new /\ acc2.purge = purge
  BY <1>5, <1>8
<1> HIDE DEF acc2
<1>21. IsDeleteOf(acc2, t, old)
  BY <1>11, <1>17, <1>18, <1>19, <1>20, Zenon DEF IsDeleteOf
<1> QED BY <1>21 DEF acc2, t

\* A new element of the list, from its ends.
LEMMA NewPiece ==
  ASSUME NEW prev \in Elem, NEW d \in Elem
  PROVE  /\ prev.l < d.l => /\ New(Ival(prev.l, d.l - 1)) \in Elem
                            /\ IsPiece(New(Ival(prev.l, d.l - 1)), prev, d)
         /\ prev.r > d.r => /\ New(Ival(d.r + 1, prev.r)) \in Elem
                            /\ IsPiece(New(Ival(d.r + 1, prev.r)), prev, d)
         /\ \A y \in Elem : IsPiece(y, prev, d) =>
              \/ prev.l < d.l /\ y = New(Ival(prev.l, d.l - 1))
              \/ prev.r > d.r /\ y = New(Ival(d.r + 1, prev.r))
<1>1. /\ prev.l \in 0..MaxKey /\ prev.r \in 0..MaxKey /\ d.l \in 0..MaxKey /\ d.r \in 0..MaxKey /\ MaxKey \in Nat
      /\ prev.l \in Int /\ prev.r \in Int /\ d.l \in Int /\ d.r \in Int
  BY IntervalsAssumption, ElemIs
<1> DEFINE left == New(Ival(prev.l, d.l - 1))
           right == New(Ival(d.r + 1, prev.r))
<1>2. left = [l |-> prev.l, r |-> d.l - 1, k |-> FALSE] /\ right = [l |-> d.r + 1, r |-> prev.r, k |-> FALSE]
  BY DEF New, Ival
<1>3. prev.l < d.l => left \in Elem /\ IsPiece(left, prev, d)
  <2> SUFFICES ASSUME prev.l < d.l PROVE left \in Elem /\ IsPiece(left, prev, d)
    OBVIOUS
  <2>1. d.l - 1 \in 0..MaxKey /\ prev.l <= d.l - 1
    BY <1>1
  <2>2. [l |-> prev.l, r |-> d.l - 1, k |-> FALSE] \in Elem
    BY <1>1, <2>1 DEF Elem
  <2> HIDE DEF left
  <2>3. IsPiece(left, prev, d)
    BY <1>2 DEF IsPiece
  <2> QED BY <1>2, <2>2, <2>3
<1>4. prev.r > d.r => right \in Elem /\ IsPiece(right, prev, d)
  <2> SUFFICES ASSUME prev.r > d.r PROVE right \in Elem /\ IsPiece(right, prev, d)
    OBVIOUS
  <2>1. d.r + 1 \in 0..MaxKey /\ d.r + 1 <= prev.r
    BY <1>1
  <2>2. [l |-> d.r + 1, r |-> prev.r, k |-> FALSE] \in Elem
    BY <1>1, <2>1 DEF Elem
  <2> HIDE DEF right
  <2>3. IsPiece(right, prev, d)
    BY <1>2 DEF IsPiece
  <2> QED BY <1>2, <2>2, <2>3
<1>5. ASSUME NEW y \in Elem, IsPiece(y, prev, d)
      PROVE  (prev.l < d.l /\ y = left) \/ (prev.r > d.r /\ y = right)
  <2>1. y = [l |-> y.l, r |-> y.r, k |-> y.k] /\ y.l <= y.r /\ y.k = FALSE
    BY <1>5, ElemIs DEF IsPiece
  <2>2. CASE y.l = prev.l /\ y.r = d.l - 1
    <3>1. prev.l < d.l
      BY <1>1, <2>1, <2>2
    <3>2. y = left
      BY <1>2, <2>1, <2>2
    <3> QED BY <3>1, <3>2
  <2>3. CASE y.l = d.r + 1 /\ y.r = prev.r
    <3>1. prev.r > d.r
      BY <1>1, <2>1, <2>3
    <3>2. y = right
      BY <1>2, <2>1, <2>3
    <3> QED BY <3>1, <3>2
  <2> QED BY <1>5, <2>2, <2>3 DEF IsPiece
<1> HIDE DEF left, right
<1>6. \A y \in Elem : IsPiece(y, prev, d) => (prev.l < d.l /\ y = left) \/ (prev.r > d.r /\ y = right)
  BY <1>5
<1> QED BY <1>3, <1>4, <1>6, Zenon DEF left, right

\* The list when what is left of prev is put before or behind the others.
LEMMA CutLists ==
  ASSUME NEW prev \in Elem, NEW d \in Elem, prev.l <= d.l, d.r <= prev.r,
         NEW rest \in Seq(Elem), Pairs(ScatR, rest),
         \A y \in ToSet(rest) : <<y, prev>> \in ScatR \/ <<prev, y>> \in ScatR
  PROVE  LET left == <<New(Ival(prev.l, d.l - 1))>>
             right == <<New(Ival(d.r + 1, prev.r))>>
         IN /\ prev.l = d.l /\ prev.r = d.r => IsCutOf(rest, rest, prev, d)
            /\ prev.l = d.l /\ prev.r > d.r => IsCutOf(right \o rest, rest, prev, d)
            /\ prev.l < d.l /\ prev.r = d.r => IsCutOf(left \o rest, rest, prev, d)
            /\ prev.l < d.l /\ prev.r > d.r => IsCutOf(left \o rest \o right, rest, prev, d)
<1> DEFINE x == New(Ival(prev.l, d.l - 1))
           z == New(Ival(d.r + 1, prev.r))
           left == <<x>>
           right == <<z>>
<1>1. /\ prev.l \in Int /\ prev.r \in Int /\ d.l \in Int /\ d.r \in Int /\ d.l <= d.r
  BY ElemIs
<1>2. /\ prev.l < d.l => x \in Elem /\ IsPiece(x, prev, d)
      /\ prev.r > d.r => z \in Elem /\ IsPiece(z, prev, d)
      /\ \A y \in Elem : IsPiece(y, prev, d) => (prev.l < d.l /\ y = x) \/ (prev.r > d.r /\ y = z)
  BY NewPiece
<1>3. x.r = d.l - 1 /\ z.l = d.r + 1
  BY DEF New, Ival
<1> HIDE DEF x, z
<1>4. ASSUME NEW w \in Elem, IsPiece(w, prev, d), NEW y \in ToSet(rest)
      PROVE  <<w, y>> \in ScatR /\ <<y, w>> \in ScatR
  <2>1. y \in Elem
    BY SetOfSeq
  <2> QED BY <1>4, <2>1, PieceApart
<1>5. \A w, y : y \in ToSet(<<w>>) <=> y = w
  BY SmallSets
<1>6. \A w : Pairs(ScatR, <<w>>)
  BY SmallSets
<1>7. ASSUME prev.l = d.l, prev.r = d.r PROVE IsCutOf(rest, rest, prev, d)
  <2>1. ~(prev.l < d.l) /\ ~(prev.r > d.r)
    BY <1>1, <1>7
  <2>2. IsCutOf(rest, rest, prev, d)
    BY <1>2, <2>1 DEF IsCutOf
  <2> QED BY <2>2
<1>8. ASSUME prev.l = d.l, prev.r > d.r PROVE IsCutOf(right \o rest, rest, prev, d)
  <2>1. ~(prev.l < d.l) /\ ~(prev.r = d.r)
    BY <1>1, <1>8
  <2>2. z \in Elem /\ IsPiece(z, prev, d) /\ right \in Seq(Elem)
    BY <1>2, <1>8
  <2> HIDE DEF right
  <2>3. \A y : y \in ToSet(right) <=> y = z
    BY <1>5 DEF right
  <2>4. Pairs(ScatR, right)
    BY <1>6 DEF right
  <2>5. \A w \in ToSet(right), y \in ToSet(rest) : <<w, y>> \in ScatR
    BY <1>4, <2>2, <2>3
  <2> DEFINE new == right \o rest
  <2>6. new \in Seq(Elem) /\ \A y : y \in ToSet(new) <=> y \in ToSet(right) \/ y \in ToSet(rest)
    BY <2>2, ConcatSet
  <2>7. Pairs(ScatR, new)
    BY <2>2, <2>4, <2>5, ConcatPairs, Zenon
  <2> HIDE DEF new
  <2>8. IsCutOf(new, rest, prev, d)
    BY <1>2, <2>1, <2>2, <2>3, <2>6, <2>7 DEF IsCutOf
  <2> QED BY <2>8 DEF new
<1>9. ASSUME prev.l < d.l, prev.r = d.r PROVE IsCutOf(left \o rest, rest, prev, d)
  <2>1. ~(prev.r > d.r) /\ ~(prev.l = d.l)
    BY <1>1, <1>9
  <2>2. x \in Elem /\ IsPiece(x, prev, d) /\ left \in Seq(Elem)
    BY <1>2, <1>9
  <2> HIDE DEF left
  <2>3. \A y : y \in ToSet(left) <=> y = x
    BY <1>5 DEF left
  <2>4. Pairs(ScatR, left)
    BY <1>6 DEF left
  <2>5. \A w \in ToSet(left), y \in ToSet(rest) : <<w, y>> \in ScatR
    BY <1>4, <2>2, <2>3
  <2> DEFINE new == left \o rest
  <2>6. new \in Seq(Elem) /\ \A y : y \in ToSet(new) <=> y \in ToSet(left) \/ y \in ToSet(rest)
    BY <2>2, ConcatSet
  <2>7. Pairs(ScatR, new)
    BY <2>2, <2>4, <2>5, ConcatPairs, Zenon
  <2> HIDE DEF new
  <2>8. IsCutOf(new, rest, prev, d)
    BY <1>2, <2>1, <2>2, <2>3, <2>6, <2>7 DEF IsCutOf
  <2> QED BY <2>8 DEF new
<1>10. ASSUME prev.l < d.l, prev.r > d.r PROVE IsCutOf(left \o rest \o right, rest, prev, d)
  <2>1. ~(prev.r = d.r) /\ ~(prev.l = d.l)
    BY <1>1, <1>10
  <2>2. x \in Elem /\ IsPiece(x, prev, d) /\ left \in Seq(Elem) /\ z \in Elem /\ IsPiece(z, prev, d) /\ right \in Seq(Elem)
    BY <1>2, <1>10
  <2>3. (\A y : y \in ToSet(left) <=> y = x) /\ (\A y : y \in ToSet(right) <=> y = z)
    BY <1>5
  <2>4. Pairs(ScatR, left) /\ Pairs(ScatR, right)
    BY <1>6
  <2> HIDE DEF left, right
  <2> DEFINE some == left \o rest
  <2>5. some \in Seq(Elem) /\ \A y : y \in ToSet(some) <=> y \in ToSet(left) \/ y \in ToSet(rest)
    BY <2>2, ConcatSet
  <2>6. Pairs(ScatR, some)
    <3>1. \A w \in ToSet(left), y \in ToSet(rest) : <<w, y>> \in ScatR
      BY <1>4, <2>2, <2>3
    <3> QED BY <2>2, <2>4, <3>1, ConcatPairs, Zenon
  <2> HIDE DEF some
  <2> DEFINE new == some \o right
  <2>7. new \in Seq(Elem) /\ \A y : y \in ToSet(new) <=> y \in ToSet(some) \/ y \in ToSet(right)
    BY <2>2, <2>5, ConcatSet
  <2>8. Pairs(ScatR, new)
    <3>1. \A w \in ToSet(some), y \in ToSet(right) : <<w, y>> \in ScatR
      <4>1. <<x, z>> \in ScatR
        <5>1. x.r + 1 < z.l
          BY <1>1, <1>3
        <5> QED BY <2>2, <5>1, ScatPair
      <4>2. \A w \in ToSet(rest) : <<w, z>> \in ScatR
        BY <1>4, <2>2
      <4> QED BY <2>3, <2>5, <4>1, <4>2
    <3> QED BY <2>2, <2>4, <2>5, <2>6, <3>1, ConcatPairs, Zenon
  <2> HIDE DEF new
  <2>9. IsCutOf(new, rest, prev, d)
    BY <1>2, <2>2, <2>3, <2>5, <2>7, <2>8 DEF IsCutOf
  <2> QED BY <2>9 DEF new, some
<1> QED BY <1>7, <1>8, <1>9, <1>10, Zenon DEF left, right, x, z

\* The last element of an ordered, scattered list that begins at d.l or before it
\* is the one that contains the first key of d, if one does.
LEMMA Located ==
  ASSUME NEW s \in Seq(Elem), Sorted(s), Pairs(ScatR, s), NEW d \in Elem,
         NEW n, n = UpTo(s, d.l)
  PROVE  /\ n \in 0..Len(s)
         /\ n = 0 => ~Covers(s, d.l)
         /\ n > 0 => /\ s[n].l <= d.l
                     /\ s[n].r < d.l => ~Covers(s, d.l)
                     /\ d.l <= s[n].r => ~Covers(s, s[n].r + 1)
<1>1. d.l \in Int
  BY ElemIs
<1>2. n \in 0..Len(s) /\ (\A i \in 1..n : s[i].l <= d.l) /\ \A i \in (n + 1)..Len(s) : s[i].l > d.l
  BY <1>1, UpToFacts
<1>3. DOMAIN s = 1..Len(s) /\ Len(s) \in Nat /\ (\A i \in 1..Len(s) : s[i] \in Elem)
      /\ \A y \in ToSet(s) : \E i \in 1..Len(s) : y = s[i]
  BY SeqMembers
<1>4. \A i \in 1..Len(s) : s[i].l \in Int /\ s[i].r \in Int /\ s[i].l <= s[i].r
  BY <1>3, ElemIs
<1>5. \A v : Covers(s, v) => \E i \in 1..Len(s) : s[i].l <= v /\ v <= s[i].r
  BY <1>3 DEF Covers
<1>6. CASE n = 0
  <2>1. \A i \in 1..Len(s) : s[i].l > d.l
    BY <1>2, <1>6
  <2>2. ~Covers(s, d.l)
    BY <1>1, <1>4, <1>5, <2>1
  <2> QED BY <1>2, <1>6, <2>2
<1>7. CASE n > 0
  <2> DEFINE prev == s[n]
  <2>1. n \in 1..Len(s) /\ prev.l <= d.l /\ prev.l \in Int /\ prev.r \in Int /\ prev.l <= prev.r
    BY <1>2, <1>3, <1>4, <1>7
  <2>2. ASSUME NEW i \in 1..Len(s), i < n PROVE s[i].r + 1 < prev.l
    <3>2. <<s[i], s[n]>> \in ScatR /\ <<s[i], s[n]>> \in SortedR
      BY <1>3, <2>1, <2>2 DEF Pairs, Sorted
    <3>3. s[i].l <= s[n].l /\ (s[i].r + 1 < s[n].l \/ s[n].r + 1 < s[i].l)
      BY <1>3, <2>1, <3>2, ScatPair, SortedPair
    <3> QED BY <1>4, <2>1, <3>3
  <2>3. ASSUME NEW i \in 1..Len(s), n < i PROVE prev.r + 1 < s[i].l
    <3>1. <<s[n], s[i]>> \in ScatR /\ <<s[n], s[i]>> \in SortedR
      BY <1>3, <2>1, <2>3 DEF Pairs, Sorted
    <3>2. s[n].l <= s[i].l /\ (s[n].r + 1 < s[i].l \/ s[i].r + 1 < s[n].l)
      BY <1>3, <2>1, <3>1, ScatPair, SortedPair
    <3> QED BY <1>4, <2>1, <3>2
  <2>4. \A i \in 1..Len(s) : n < i => s[i].l > d.l
    BY <1>2
  <2>5. ASSUME prev.r < d.l PROVE ~Covers(s, d.l)
    <3> SUFFICES ASSUME NEW i \in 1..Len(s), s[i].l <= d.l, d.l <= s[i].r PROVE FALSE
      BY <1>5
    <3>1. i < n \/ i = n \/ n < i
      BY <1>2
    <3>2. CASE i < n
      BY <1>1, <1>4, <2>1, <2>2, <3>2
    <3>3. CASE i = n
      BY <1>1, <2>1, <2>5, <3>3
    <3>4. CASE n < i
      BY <1>1, <1>4, <2>4, <3>4
    <3> QED BY <3>1, <3>2, <3>3, <3>4
  <2>6. ASSUME d.l <= prev.r PROVE ~Covers(s, prev.r + 1)
    <3> SUFFICES ASSUME NEW i \in 1..Len(s), s[i].l <= prev.r + 1, prev.r + 1 <= s[i].r PROVE FALSE
      BY <1>5
    <3>1. i < n \/ i = n \/ n < i
      BY <1>2
    <3>2. CASE i < n
      BY <1>4, <2>1, <2>2, <3>2
    <3>3. CASE i = n
      BY <2>1, <3>3
    <3>4. CASE n < i
      BY <1>4, <2>1, <2>3, <3>4
    <3> QED BY <3>1, <3>2, <3>3, <3>4
  <2> QED BY <1>2, <1>7, <2>1, <2>5, <2>6
<1> QED BY <1>2, <1>6, <1>7

\* The fields of the state of __set_delete().
LEMMA DeleteFields ==
  ASSUME NEW acc \in [ok : BOOLEAN, list : Seq(Elem), purge : Seq(Elem)]
  PROVE  /\ [acc EXCEPT !.ok = FALSE] = [ok |-> FALSE, list |-> acc.list, purge |-> acc.purge]
         /\ \A l, q \in Seq(Elem) : [acc EXCEPT !.purge = q, !.list = l] = [ok |-> acc.ok, list |-> l, purge |-> q]
<1>1. [acc EXCEPT !.ok = FALSE] = [ok |-> FALSE, list |-> acc.list, purge |-> acc.purge]
  <2> DEFINE g == [acc EXCEPT !.ok = FALSE]
  <2>1. g \in [ok : BOOLEAN, list : Seq(Elem), purge : Seq(Elem)]
        /\ g.ok = FALSE /\ g.list = acc.list /\ g.purge = acc.purge
    OBVIOUS
  <2> HIDE DEF g
  <2>2. g = [ok |-> FALSE, list |-> acc.list, purge |-> acc.purge]
    BY <2>1
  <2> QED BY <2>2 DEF g
<1>2. ASSUME NEW l \in Seq(Elem), NEW q \in Seq(Elem)
      PROVE  [acc EXCEPT !.purge = q, !.list = l] = [ok |-> acc.ok, list |-> l, purge |-> q]
  <2> DEFINE g == [acc EXCEPT !.purge = q, !.list = l]
  <2>1. g \in [ok : BOOLEAN, list : Seq(Elem), purge : Seq(Elem)]
        /\ g.ok = acc.ok /\ g.list = l /\ g.purge = q
    OBVIOUS
  <2> HIDE DEF g
  <2>2. g = [ok |-> acc.ok, list |-> l, purge |-> q]
    BY <2>1
  <2> QED BY <2>2 DEF g
<1> QED BY <1>1, <1>2

\* __set_delete() has failed.
Failed(acc) == [acc EXCEPT !.ok = FALSE]

\* An element that is not in the set is an error.
LEMMA DeleteFails ==
  ASSUME NEW acc, NEW u, NEW old, IsDeleteOf(acc, u, old), NEW t,
         NEW v \in Int, Covers(t, v), ~Covers(old, v)
  PROVE  IsDeleteOf(Failed(acc), t, old)
<1> DEFINE g == Failed(acc)
<1>1. acc \in [ok : BOOLEAN, list : Seq(Elem), purge : Seq(Elem)]
  BY DEF IsDeleteOf
<1>2. g \in [ok : BOOLEAN, list : Seq(Elem), purge : Seq(Elem)] /\ ~g.ok
  BY <1>1 DEF Failed
<1> HIDE DEF g
<1>3. IsDeleteOf(g, t, old)
  BY <1>2 DEF IsDeleteOf
<1> QED BY <1>3 DEF g

\* __set_delete() for a set that merges.
DeleteIn(acc, d) == DeleteOne(TRUE, acc, d)

\* Its local variables: the place of the element prev, the list without prev, the
\* elements to purge, and what is left of prev on both sides.
Place1(acc, d) == UpTo(ListExprSort(acc.list), d.l)

Prev(acc, d) == ListExprSort(acc.list)[Place1(acc, d)]

Rest(acc, d) == Without(ListExprSort(acc.list), Place1(acc, d))

Purged(acc, d) == IF Prev(acc, d).k THEN Append(acc.purge, Prev(acc, d)) ELSE acc.purge

LeftOf(prev, d) == <<New(Ival(prev.l, d.l - 1))>>

RightOf(prev, d) == <<New(Ival(d.r + 1, prev.r))>>

\* Its cases.
LEMMA DeleteCases ==
  ASSUME NEW acc, NEW d, acc.ok, Place1(acc, d) \in Nat,
         Prev(acc, d).l \in Int, Prev(acc, d).r \in Int, d.l \in Int, d.r \in Int
  PROVE  LET n == Place1(acc, d)
             prev == Prev(acc, d)
             rest == Rest(acc, d)
             purge == Purged(acc, d)
             left == LeftOf(prev, d)
             right == RightOf(prev, d)
         IN /\ n > 0 /\ prev.l <= d.l /\ prev.r < d.r => DeleteIn(acc, d) = Failed(acc)
            /\ n > 0 /\ prev.l = d.l /\ prev.r = d.r /\ prev.k
                 => DeleteIn(acc, d) = [acc EXCEPT !.purge = purge, !.list = rest]
            /\ n > 0 /\ prev.l = d.l /\ prev.r > d.r
                 => DeleteIn(acc, d) = [acc EXCEPT !.purge = purge, !.list = right \o rest]
            /\ n > 0 /\ prev.l < d.l /\ prev.r = d.r
                 => DeleteIn(acc, d) = [acc EXCEPT !.purge = purge, !.list = left \o rest]
            /\ n > 0 /\ prev.l < d.l /\ prev.r > d.r
                 => DeleteIn(acc, d) = [acc EXCEPT !.purge = purge, !.list = left \o rest \o right]
<1> DEFINE list == ListExprSort(acc.list)
           n == Place1(acc, d)
           prev == Prev(acc, d)
           rest == Rest(acc, d)
           purge == Purged(acc, d)
           left == LeftOf(prev, d)
           right == RightOf(prev, d)
<1>1. Bare(prev) = Bare(d) <=> prev.l = d.l /\ prev.r = d.r
  BY DEF Bare, Ival
<1> DEFINE some == [acc EXCEPT !.purge = purge, !.list = IF prev.k THEN rest ELSE list]
           e2 == [acc EXCEPT !.purge = purge, !.list = right \o rest]
           e3 == [acc EXCEPT !.purge = purge, !.list = left \o rest]
           e4 == [acc EXCEPT !.purge = purge, !.list = left \o rest \o right]
           fail == Failed(acc)
<1>4. n \in Nat /\ prev.l \in Int /\ prev.r \in Int
  OBVIOUS
<1>2. DeleteIn(acc, d) =
        CASE ~acc.ok \/ n = 0 -> fail
          [] acc.ok /\ n > 0 /\ Bare(prev) = Bare(d) -> some
          [] acc.ok /\ n > 0 /\ TRUE /\ prev.l = d.l /\ prev.r > d.r -> e2
          [] acc.ok /\ n > 0 /\ TRUE /\ prev.l < d.l /\ prev.r = d.r -> e3
          [] acc.ok /\ n > 0 /\ TRUE /\ prev.l < d.l /\ prev.r > d.r -> e4
          [] OTHER -> fail
  BY Zenon DEF DeleteIn, DeleteOne, Failed, Place1, Prev, Rest, Without, Purged, LeftOf, RightOf
<1>3. prev.k => some = [acc EXCEPT !.purge = purge, !.list = rest]
  OBVIOUS
<1> HIDE DEF some, e2, e3, e4, fail, n, prev, rest, purge, left, right
<1>5. n > 0 /\ prev.l <= d.l /\ prev.r < d.r => DeleteIn(acc, d) = fail
  BY <1>1, <1>2, <1>4
<1>6. n > 0 /\ prev.l = d.l /\ prev.r = d.r => DeleteIn(acc, d) = some
  BY <1>1, <1>2, <1>4
<1>7. n > 0 /\ prev.l = d.l /\ prev.r > d.r => DeleteIn(acc, d) = e2
  BY <1>1, <1>2, <1>4
<1>8. n > 0 /\ prev.l < d.l /\ prev.r = d.r => DeleteIn(acc, d) = e3
  BY <1>1, <1>2, <1>4
<1>9. n > 0 /\ prev.l < d.l /\ prev.r > d.r => DeleteIn(acc, d) = e4
  BY <1>1, <1>2, <1>4
<1> QED BY <1>3, <1>5, <1>6, <1>7, <1>8, <1>9, Zenon DEF e2, e3, e4, fail, n, prev, rest, purge, left, right

\* One element more.
LEMMA DeleteStep ==
  ASSUME NEW acc, NEW u \in Seq(Elem), NEW old, IsDeleteOf(acc, u, old),
         NEW d \in Elem, \A y \in ToSet(u) : y.r + 1 < d.l
  PROVE  IsDeleteOf(DeleteIn(acc, d), Append(u, d), old)
<1> DEFINE t == Append(u, d)
<1>1. \A v : Covers(t, v) <=> Covers(u, v) \/ (d.l <= v /\ v <= d.r)
  BY AppendCovers
<1>2. acc \in [ok : BOOLEAN, list : Seq(Elem), purge : Seq(Elem)]
  BY DEF IsDeleteOf
<1>3. d.l \in Int /\ d.r \in Int /\ d.l <= d.r
  BY ElemIs
<1>4. CASE ~acc.ok
  <2>1. PICK v \in Int : Covers(u, v) /\ ~Covers(old, v)
    BY <1>4 DEF IsDeleteOf
  <2>2. DeleteIn(acc, d) = Failed(acc)
    BY <1>4 DEF DeleteIn, DeleteOne, Failed
  <2>3. Covers(t, v)
    BY <1>1, <2>1
  <2> HIDE DEF t
  <2>4. IsDeleteOf(Failed(acc), t, old)
    BY <2>1, <2>3, DeleteFails
  <2> QED BY <2>2, <2>4 DEF t
<1>5. CASE acc.ok
  <2>1. /\ IsEditOf(acc.list, acc.purge, old)
        /\ \A v \in Int : Covers(acc.list, v) <=> Covers(old, v) /\ ~Covers(u, v)
        /\ \A x \in ToSet(acc.list) : x.k \/ \E z \in ToSet(u) : z.r + 1 = x.l \/ x.r + 1 = z.l
    BY <1>5 DEF IsDeleteOf
  <2>2. acc.list \in Seq(Elem) /\ acc.purge \in Seq(Elem) /\ Pairs(ScatR, acc.list)
    BY <2>1 DEF IsEditOf
  <2> DEFINE list == ListExprSort(acc.list)
             n == Place1(acc, d)
             prev == Prev(acc, d)
             rest == Rest(acc, d)
             purge == Purged(acc, d)
             left == LeftOf(prev, d)
             right == RightOf(prev, d)
  <2>12. /\ n = UpTo(list, d.l) /\ prev = list[n]
         /\ rest = Without(list, n)
         /\ purge = IF prev.k THEN Append(acc.purge, prev) ELSE acc.purge
    BY DEF Place1, Prev, Rest, Purged
  <2>13. /\ n > 0 /\ n \in Nat /\ prev.l \in Int /\ prev.r \in Int
           => /\ prev.l <= d.l /\ prev.r < d.r => DeleteIn(acc, d) = Failed(acc)
              /\ prev.l = d.l /\ prev.r = d.r /\ prev.k
                   => DeleteIn(acc, d) = [acc EXCEPT !.purge = purge, !.list = rest]
              /\ prev.l = d.l /\ prev.r > d.r
                   => DeleteIn(acc, d) = [acc EXCEPT !.purge = purge, !.list = right \o rest]
              /\ prev.l < d.l /\ prev.r = d.r
                   => DeleteIn(acc, d) = [acc EXCEPT !.purge = purge, !.list = left \o rest]
              /\ prev.l < d.l /\ prev.r > d.r
                   => DeleteIn(acc, d) = [acc EXCEPT !.purge = purge, !.list = left \o rest \o right]
    BY <1>3, <1>5, DeleteCases, Zenon
  <2>3. IsSortOf(ScatR, list, acc.list)
    <3>1. Symmetric(ScatR)
      BY DEF Symmetric, ScatR
    <3> QED BY <2>2, <3>1, SortFacts
  <2> HIDE DEF list, n, prev, rest, purge
  <2>4. /\ list \in Seq(Elem) /\ Sorted(list) /\ Pairs(ScatR, list)
        /\ \A y : y \in ToSet(list) <=> y \in ToSet(acc.list)
    BY <2>2, <2>3 DEF IsSortOf
  <2>5. \A v : Covers(list, v) <=> Covers(acc.list, v)
    BY <2>4 DEF Covers
  <2>6. /\ n \in 0..Len(list)
        /\ n = 0 => ~Covers(list, d.l)
        /\ n > 0 => /\ prev.l <= d.l
                    /\ prev.r < d.l => ~Covers(list, d.l)
                    /\ d.l <= prev.r => ~Covers(list, prev.r + 1)
    BY <2>4, <2>12, Located
  <2>7. n \in Nat
    BY <2>4, <2>6
  <2>8. \A v \in Int : d.l <= v => ~Covers(u, v)
    <3> SUFFICES ASSUME NEW v \in Int, d.l <= v, NEW y \in ToSet(u), v <= y.r PROVE FALSE
      BY DEF Covers
    <3>1. y.r \in Int /\ y.r + 1 < d.l
      BY SetOfSeq, ElemIs
    <3> QED BY <1>3, <3>1
  <2>9. ASSUME NEW v \in Int, d.l <= v, v <= d.r, ~Covers(list, v)
        PROVE  IsDeleteOf(Failed(acc), t, old)
    <3>1. Covers(t, v) /\ ~Covers(u, v)
      BY <1>1, <2>8, <2>9
    <3>2. ~Covers(old, v)
      BY <2>1, <2>5, <2>9, <3>1
    <3> HIDE DEF t
    <3> QED BY <2>9, <3>1, <3>2, DeleteFails, Zenon
  <2>10. CASE n = 0
    <3>1. ~acc.ok \/ n = 0
      BY <2>10
    <3>2. DeleteIn(acc, d) = Failed(acc)
      BY <3>1 DEF DeleteIn, DeleteOne, Failed, Place1, n
    <3>3. IsDeleteOf(Failed(acc), t, old)
      BY <1>3, <2>6, <2>9, <2>10
    <3> QED BY <3>2, <3>3
  <2>11. CASE n > 0
    <3>1. n \in 1..Len(list) /\ prev \in Elem /\ prev \in ToSet(list) /\ prev.l \in Int /\ prev.r \in Int
          /\ prev.l <= d.l
      <4>1. n \in 1..Len(list)
        BY <2>4, <2>6, <2>11
      <4>2. prev \in Elem /\ prev \in ToSet(list)
        BY <2>4, <2>12, <4>1, SeqMembers
      <4> QED BY <2>6, <2>11, <4>1, <4>2, ElemIs
    <3>2. /\ prev.l <= d.l /\ prev.r < d.r => DeleteIn(acc, d) = Failed(acc)
          /\ prev.l = d.l /\ prev.r = d.r /\ prev.k
               => DeleteIn(acc, d) = [acc EXCEPT !.purge = purge, !.list = rest]
          /\ prev.l = d.l /\ prev.r > d.r
               => DeleteIn(acc, d) = [acc EXCEPT !.purge = purge, !.list = right \o rest]
          /\ prev.l < d.l /\ prev.r = d.r
               => DeleteIn(acc, d) = [acc EXCEPT !.purge = purge, !.list = left \o rest]
          /\ prev.l < d.l /\ prev.r > d.r
               => DeleteIn(acc, d) = [acc EXCEPT !.purge = purge, !.list = left \o rest \o right]
      BY <2>7, <2>11, <2>13, <3>1, Zenon
    <3>3. /\ rest \in Seq(Elem) /\ Pairs(ScatR, rest)
          /\ \A y : y \in ToSet(list) <=> y \in ToSet(rest) \/ y = prev
          /\ \A y \in ToSet(rest) : <<y, prev>> \in ScatR \/ <<prev, y>> \in ScatR
      <4>1. n \in 1..Len(list) /\ rest = Without(list, n)
        BY <2>12, <3>1
      <4>2. /\ rest \in Seq(Elem) /\ Pairs(ScatR, rest)
            /\ \A y : y \in ToSet(list) <=> y \in ToSet(rest) \/ y = list[n]
            /\ \A y \in ToSet(rest) : <<y, list[n]>> \in ScatR \/ <<list[n], y>> \in ScatR
        BY <2>4, <4>1, TakeOut
      <4>3. prev = list[n]
        BY <2>12
      <4> QED BY <4>2, <4>3
    <3>4. purge \in Seq(Elem)
      BY <2>2, <2>12, <3>1
    <3>5. CASE prev.r < d.r
      <4>1. IsDeleteOf(Failed(acc), t, old)
        <5>1. CASE prev.r < d.l
          BY <1>3, <2>6, <2>9, <2>11, <5>1
        <5>2. CASE d.l <= prev.r
          <6>1. prev.r + 1 \in Int /\ d.l <= prev.r + 1 /\ prev.r + 1 <= d.r
            BY <1>3, <3>1, <3>5, <5>2
          <6>2. ~Covers(list, prev.r + 1)
            BY <2>6, <2>11, <5>2
          <6> QED BY <2>9, <6>1, <6>2
        <5> QED BY <1>3, <3>1, <5>1, <5>2
      <4> QED BY <3>1, <3>2, <3>5, <4>1
    <3>6. CASE d.r <= prev.r
      <4>1. ASSUME NEW new, IsCutOf(new, rest, prev, d),
                   DeleteIn(acc, d) = [acc EXCEPT !.purge = purge, !.list = new]
            PROVE  IsDeleteOf(DeleteIn(acc, d), t, old)
        <5>1. new \in Seq(Elem)
          BY <4>1 DEF IsCutOf
        <5>2. [acc EXCEPT !.purge = purge, !.list = new] = [ok |-> acc.ok, list |-> new, purge |-> purge]
          BY <1>2, <3>4, <5>1, DeleteFields
        <5>3. acc.ok = TRUE
          BY <1>2, <1>5
        <5>4. prev \in ToSet(acc.list) /\ \A y : y \in ToSet(acc.list) <=> y \in ToSet(rest) \/ y = prev
          BY <2>4, <3>1, <3>3
        <5>5. purge = IF prev.k THEN Append(acc.purge, prev) ELSE acc.purge
          BY <2>12
        <5>6. IsDeleteOf([ok |-> TRUE, list |-> new, purge |-> purge], Append(u, d), old)
          BY <1>5, <3>1, <3>3, <3>6, <4>1, <5>4, <5>5, DeleteCut
        <5> QED BY <4>1, <5>2, <5>3, <5>6, Zenon
      <4>2. /\ prev.l = d.l /\ prev.r = d.r => IsCutOf(rest, rest, prev, d)
            /\ prev.l = d.l /\ prev.r > d.r => IsCutOf(right \o rest, rest, prev, d)
            /\ prev.l < d.l /\ prev.r = d.r => IsCutOf(left \o rest, rest, prev, d)
            /\ prev.l < d.l /\ prev.r > d.r => IsCutOf(left \o rest \o right, rest, prev, d)
        BY <3>1, <3>3, <3>6, CutLists, Zenon DEF LeftOf, RightOf
      <4>3. prev.l = d.l /\ prev.r = d.r => prev.k
        <5> SUFFICES ASSUME prev.l = d.l, prev.r = d.r, ~prev.k PROVE FALSE
          OBVIOUS
        <5>1. PICK z \in ToSet(u) : z.r + 1 = prev.l \/ prev.r + 1 = z.l
          BY <2>1, <2>4, <3>1
        <5>2. z.l \in Int /\ z.r \in Int /\ z.l <= z.r /\ z.r + 1 < d.l
          BY SetOfSeq, ElemIs
        <5> QED BY <1>3, <5>1, <5>2
      <4> HIDE DEF left, right, t
      <4>4. CASE prev.l = d.l /\ prev.r = d.r
        BY <3>2, <4>1, <4>2, <4>3, <4>4, Zenon DEF t
      <4>5. CASE prev.l = d.l /\ prev.r > d.r
        BY <3>2, <4>1, <4>2, <4>5, Zenon DEF t
      <4>6. CASE prev.l < d.l /\ prev.r = d.r
        BY <3>2, <4>1, <4>2, <4>6, Zenon DEF t
      <4>7. CASE prev.l < d.l /\ prev.r > d.r
        BY <3>2, <4>1, <4>2, <4>7, Zenon DEF t
      <4>8. (prev.l < d.l \/ prev.l = d.l) /\ (prev.r > d.r \/ prev.r = d.r)
        BY <1>3, <3>1, <3>6
      <4> QED BY <4>4, <4>5, <4>6, <4>7, <4>8, Zenon DEF t
    <3> QED BY <1>3, <3>1, <3>5, <3>6
  <2> QED BY <2>7, <2>10, <2>11
<1> QED BY <1>4, <1>5

\* __set_delete() for all elements of an input in order: while it succeeds, the
\* list and the purged elements are an edit of the elements there were, and the
\* list covers their keys without the deleted ones.
LEMMA DeletedInv ==
  ASSUME NEW old \in Seq(Elem), AllKernel(old), Pairs(ScatR, old),
         NEW s \in Seq(Elem), Pairs(SepR, s)
  PROVE  IsDeleteOf(DeletedFrom(TRUE, old, s), s, old)
<1> DEFINE base == [ok |-> TRUE, list |-> old, purge |-> <<>>]
           T == {u \in Seq(Elem) : Pairs(SepR, u) => IsDeleteOf(DeletedFrom(TRUE, old, u), u, old)}
<1>1. <<>> \in T
  <2> DEFINE e == <<>>
  <2>1. DeletedFrom(TRUE, old, e) = base
    BY DeleteFold!FoldEmpty, Zenon DEF DeletedFrom
  <2>2. e \in Seq(Elem) /\ base \in [ok : BOOLEAN, list : Seq(Elem), purge : Seq(Elem)]
        /\ base.list = old /\ base.purge = e /\ base.ok = TRUE
    OBVIOUS
  <2>3. \A y : y \notin ToSet(e)
    BY SmallSets
  <2>4. Pairs(NeqR, e)
    BY DEF Pairs
  <2> HIDE DEF base
  <2>5. e = <<>>
    OBVIOUS
  <2> HIDE DEF e
  <2>6. \A v : ~Covers(e, v)
    BY <2>3 DEF Covers
  <2>7. IsEditOf(base.list, base.purge, old)
    BY <2>2, <2>3, <2>4 DEF IsEditOf
  <2>8. \A x \in ToSet(old) : x.k
    BY DEF AllKernel
  <2>9. IsDeleteOf(base, e, old)
    BY <2>2, <2>6, <2>7, <2>8, Zenon DEF IsDeleteOf
  <2>10. e \in T
    BY <2>1, <2>2, <2>9
  <2> QED BY <2>5, <2>10
<1>2. \A u \in Seq(Elem) : \A x \in Elem : u \in T => Append(u, x) \in T
  <2> SUFFICES ASSUME NEW u \in Seq(Elem), NEW x \in Elem, u \in T PROVE Append(u, x) \in T
    OBVIOUS
  <2> DEFINE v == Append(u, x)
  <2>1. DeleteFold!IsAppend(v, u, x) /\ v \in Seq(Elem)
    BY DEF DeleteFold!IsAppend
  <2>2. ASSUME Pairs(SepR, v)
        PROVE  Pairs(SepR, u) /\ \A y \in ToSet(u) : y.r + 1 < x.l
    <3>1. Pairs(SepR, u) /\ \A y \in ToSet(u) : <<y, x>> \in SepR
      BY <2>2, AppendPairs
    <3>2. \A y \in ToSet(u) : y \in Elem
      BY SetOfSeq
    <3> QED BY <3>1, <3>2, SepPair
  <2>3. \A p, b : DeleteFold!Fold(p, b, v) = DeleteOne(p, DeleteFold!Fold(p, b, u), x)
    BY <2>1, DeleteFold!FoldAppend
  <2>4. DeletedFrom(TRUE, old, v) = DeleteIn(DeletedFrom(TRUE, old, u), x)
    BY <2>3, Zenon DEF DeletedFrom, DeleteIn
  <2>5. Pairs(SepR, v) => IsDeleteOf(DeletedFrom(TRUE, old, u), u, old)
    BY <2>2, Zenon
  <2> DEFINE acc == DeletedFrom(TRUE, old, u)
  <2> HIDE DEF acc
  <2>6. ASSUME Pairs(SepR, v), IsDeleteOf(acc, u, old)
        PROVE  IsDeleteOf(DeleteIn(acc, x), Append(u, x), old)
    BY <2>2, <2>6, DeleteStep
  <2>7. Pairs(SepR, v) => IsDeleteOf(DeletedFrom(TRUE, old, v), v, old)
    BY <2>4, <2>5, <2>6, Zenon DEF acc
  <2> QED BY <2>1, <2>7
<1>3. Seq(Elem) \subseteq T
  <2> HIDE DEF T
  <2> QED BY <1>1, <1>2, SeqInduction
<1> QED BY <1>3

-----------------------------------------------------------------------------
(* The beginning of an input. *)

\* The elements of a set are listed once each.
LEMMA ListOfSet ==
  ASSUME NEW S, IsFiniteSet(S)
  PROVE  /\ SetToSeq(S) \in Seq(S)
         /\ \A y : y \in ToSet(SetToSeq(S)) <=> y \in S
         /\ \A i, j \in DOMAIN SetToSeq(S) : i # j => SetToSeq(S)[i] # SetToSeq(S)[j]
<1> DEFINE n == Cardinality(S)
           q == SetToSeq(S)
<1>1. n \in Nat /\ ExistsBijection(1..n, S)
  BY FS_CardinalityType
<1>2. \E f \in [1..n -> S] : IsInjective(f)
  BY <1>1 DEF ExistsBijection, Bijection, Injection
<1>3. q \in [1..n -> S] /\ IsInjective(q)
  BY <1>2 DEF SetToSeq
<1> HIDE DEF q
<1>4. q \in Seq(S) /\ DOMAIN q = 1..n
  BY <1>1, <1>3
<1>5. \A i, j \in DOMAIN q : i # j => q[i] # q[j]
  BY <1>3 DEF IsInjective
<1>6. q \in Surjection(1..n, S)
  <2>1. q \in Injection(1..n, S)
    BY <1>3 DEF Injection
  <2>2. Cardinality(1..n) = n
    BY <1>1, FS_Interval
  <2> QED BY <2>1, <2>2, FS_Injection
<1>7. \A y \in S : \E i \in 1..n : q[i] = y
  BY <1>6 DEF Surjection
<1>8. \A y : y \in ToSet(q) <=> y \in S
  BY <1>3, <1>4, <1>7 DEF ToSet
<1> QED BY <1>4, <1>5, <1>8 DEF q

\* There are finitely many intervals.
LEMMA IntervalsFinite ==
  ASSUME NEW ivs, ivs \subseteq Interval
  PROVE  IsFiniteSet(ivs)
<1> DEFINE D == 0..MaxKey
           P == D \X D
           R == [l : D, r : D]
           f == [p \in P |-> [l |-> p[1], r |-> p[2]]]
<1>1. IsFiniteSet(D)
  BY IntervalsAssumption, FS_Interval
<1>2. IsFiniteSet(P)
  BY <1>1, FS_Product
<1>3. f \in Surjection(P, R)
  <2>1. f \in [P -> R]
    OBVIOUS
  <2>2. ASSUME NEW y \in R PROVE \E p \in P : f[p] = y
    <3>1. <<y.l, y.r>> \in P /\ y = [l |-> y.l, r |-> y.r]
      OBVIOUS
    <3> QED BY <3>1
  <2> QED BY <2>1, <2>2 DEF Surjection
<1>4. IsFiniteSet(R)
  BY <1>2, <1>3, FS_Surjection
<1>5. Interval \subseteq R
  BY DEF Interval
<1> QED BY <1>4, <1>5, FS_Subset

\* No two intervals of a set touch.
ApartSet(ivs) == \A a, b \in ivs : a # b => a.r + 1 < b.l \/ b.r + 1 < a.l

\* The fetched elements are the kernel's, marked and in order.
LEMMA AscendingFacts ==
  ASSUME NEW ivs, ivs \subseteq Interval
  PROVE  /\ Ascending(ivs) \in Seq(Elem) /\ AllKernel(Ascending(ivs)) /\ Sorted(Ascending(ivs))
         /\ Bares(Ascending(ivs)) = ivs
         /\ ApartSet(ivs) => Pairs(ScatR, Ascending(ivs))
<1> DEFINE q == SetToSeq(ivs)
           t == Each(InKernel, q)
           a == ListExprSort(t)
<1>1. /\ q \in Seq(ivs)
      /\ \A y : y \in ToSet(q) <=> y \in ivs
      /\ \A i, j \in DOMAIN q : i # j => q[i] # q[j]
  BY IntervalsFinite, ListOfSet
<1> HIDE DEF q
<1>2. Len(q) \in Nat /\ DOMAIN q = 1..Len(q) /\ \A i \in 1..Len(q) : q[i] \in ivs /\ q[i] \in Interval
  BY <1>1
<1>3. DOMAIN t = DOMAIN q /\ \A i \in DOMAIN q : t[i] = [l |-> q[i].l, r |-> q[i].r, k |-> TRUE]
  BY Zenon DEF Each, InKernel
<1>4. t = [i \in 1..Len(q) |-> t[i]]
  BY <1>2 DEF Each
<1> HIDE DEF t
<1>5. \A i \in 1..Len(q) : t[i] \in Elem /\ t[i].l = q[i].l /\ t[i].r = q[i].r /\ t[i].k
  <2>1. \A x \in Interval : [l |-> x.l, r |-> x.r, k |-> TRUE] \in Elem
    BY DEF Interval, Elem
  <2> QED BY <1>2, <1>3, <2>1
<1>6. t \in Seq(Elem) /\ Len(t) = Len(q) /\ DOMAIN t = 1..Len(q)
  BY <1>2, <1>4, <1>5, SeqBuild
<1>7. \A y \in ToSet(t) : \E i \in 1..Len(q) : y = t[i]
  BY <1>6, SeqMembers
<1>8. \A i \in 1..Len(q) : Bare(t[i]) = q[i]
  BY <1>2, <1>5 DEF Bare, Ival, Interval
<1>9. ASSUME ApartSet(ivs) PROVE Pairs(ScatR, t)
  <2> SUFFICES ASSUME NEW i \in 1..Len(q), NEW j \in 1..Len(q), i < j PROVE <<t[i], t[j]>> \in ScatR
    BY <1>6 DEF Pairs
  <2>1. q[i] # q[j] /\ q[i] \in ivs /\ q[j] \in ivs
    BY <1>1, <1>2
  <2>2. q[i].r + 1 < q[j].l \/ q[j].r + 1 < q[i].l
    BY <1>9, <2>1 DEF ApartSet
  <2> QED BY <1>5, <2>2, ScatPair
<1>10. IsSortOf(ScatR, a, t)
  <2>1. Symmetric(ScatR)
    BY DEF Symmetric, ScatR
  <2> QED BY <1>6, <2>1, SortFacts
<1> HIDE DEF a
<1>11. /\ a \in Seq(Elem) /\ Sorted(a) /\ (\A y : y \in ToSet(a) <=> y \in ToSet(t))
       /\ (Pairs(ScatR, t) => Pairs(ScatR, a))
  BY <1>10 DEF IsSortOf
<1>12. AllKernel(a)
  BY <1>5, <1>7, <1>11 DEF AllKernel
<1>13. \A i \in 1..Len(q) : t[i] \in ToSet(a)
  BY <1>6, <1>11, SeqMembers
<1>14. \A y : y \in Bares(a) <=> \E x \in ToSet(a) : y = Bare(x)
  BY <1>11, BaresIs
<1>15. \A y : y \in Bares(a) <=> y \in ivs
  <2>1. ASSUME NEW y \in Bares(a) PROVE y \in ivs
    BY <1>2, <1>7, <1>8, <1>11, <1>14, <2>1
  <2>2. ASSUME NEW y \in ivs PROVE y \in Bares(a)
    <3>1. PICK i \in 1..Len(q) : q[i] = y
      BY <1>1, <1>2 DEF ToSet
    <3> QED BY <3>1, <1>8, <1>13, <1>14
  <2> QED BY <2>1, <2>2
<1>16. Bares(a) = ivs
  BY <1>15
<1>17. Ascending(ivs) = a
  BY Zenon DEF Ascending, a, t, q
<1> QED BY <1>9, <1>11, <1>12, <1>16, <1>17

-----------------------------------------------------------------------------
(* What the commands mean. *)

\* The elements of a command become elements of the list without the mark.
LEMMA NewElems ==
  ASSUME NEW q \in Seq(Interval)
  PROVE  /\ Each(New, q) \in Seq(Elem) /\ AllNew(Each(New, q))
         /\ Bares(Each(New, q)) = Bares(q)
<1> DEFINE t == Each(New, q)
<1>1. Len(q) \in Nat /\ DOMAIN q = 1..Len(q) /\ \A i \in 1..Len(q) : q[i] \in Interval
  OBVIOUS
<1>2. DOMAIN t = DOMAIN q /\ \A i \in DOMAIN q : t[i] = [l |-> q[i].l, r |-> q[i].r, k |-> FALSE]
  BY Zenon DEF Each, New
<1>3. t = [i \in 1..Len(q) |-> t[i]]
  BY <1>1 DEF Each
<1> HIDE DEF t
<1>4. \A i \in 1..Len(q) : t[i] \in Elem /\ t[i].l = q[i].l /\ t[i].r = q[i].r /\ ~t[i].k
  <2>1. \A x \in Interval : [l |-> x.l, r |-> x.r, k |-> FALSE] \in Elem
    BY DEF Interval, Elem
  <2> QED BY <1>1, <1>2, <2>1
<1>5. t \in Seq(Elem) /\ Len(t) = Len(q) /\ DOMAIN t = 1..Len(q)
  BY <1>1, <1>3, <1>4, SeqBuild
<1>6. AllNew(t)
  BY <1>4, <1>5, SeqMembers DEF AllNew
<1>7. \A i \in 1..Len(q) : Bare(t[i]) = Bare(q[i])
  BY <1>4 DEF Bare
<1>8. Bares(t) = Bares(q)
  BY <1>1, <1>5, <1>7 DEF Bares
<1> QED BY <1>5, <1>6, <1>8 DEF t

\* The keys of a list of elements are those it covers.
LEMMA KeysCovered ==
  ASSUME NEW s \in Seq(Elem)
  PROVE  /\ Keys(Bares(s)) = {v \in 0..MaxKey : Covers(s, v)}
         /\ \A v \in Int : Covers(s, v) => v \in 0..MaxKey
<1>1. \A y : y \in Bares(s) <=> \E x \in ToSet(s) : y = Bare(x)
  BY BaresIs
<1>2. \A x \in ToSet(s) : x.l \in 0..MaxKey /\ x.r \in 0..MaxKey /\ Bare(x).l = x.l /\ Bare(x).r = x.r
  BY SetOfSeq, ElemIs DEF Bare, Ival
<1>3. \A v : (\E y \in Bares(s) : y.l <= v /\ v <= y.r) <=> Covers(s, v)
  BY <1>1, <1>2 DEF Covers
<1>4. \A v \in Int : Covers(s, v) => v \in 0..MaxKey
  BY <1>2, IntervalsAssumption DEF Covers
<1> QED BY <1>3, <1>4 DEF Keys

MeanFold == INSTANCE FoldFacts WITH Op <- LAMBDA p, a, c : MeaningMerge(a, c)

\* The keys in the set after some commands, with auto-merge, and whether each of
\* them was valid.
Means(st, cmds) == MeanFold!Fold(0, st, cmds)

KeyState(keys) == [ok |-> TRUE, keys |-> keys]

\* What the commands of an input mean is this fold.
LEMMA WantedIs ==
  ASSUME automerge = TRUE, NEW cmds
  PROVE  Wanted(cmds) = Means(KeyState(Keys(kernel)), cmds)
BY Zenon DEF Wanted, Means, KeyState, MeanFold!Fold, MeanFold!FoldLeft, FoldLeft, MeanFold!MapThenFoldSet,
  MapThenFoldSet, MeanFold!Max, Max

KeyStates == [ok : BOOLEAN, keys : SUBSET (0..MaxKey)]

\* One command.
LEMMA MeaningIs ==
  ASSUME NEW st \in KeyStates, NEW c \in Command
  PROVE  /\ MeaningMerge(st, c) \in KeyStates
         /\ c.op = "add" =>
              MeaningMerge(st, c) = [ok |-> st.ok, keys |-> st.keys \cup Keys(Bares(c.elems))]
         /\ c.op = "delete" =>
              MeaningMerge(st, c) = [ok |-> st.ok /\ Keys(Bares(c.elems)) \subseteq st.keys,
                                     keys |-> st.keys \ Keys(Bares(c.elems))]
         /\ c.op = "flush" => MeaningMerge(st, c) = [ok |-> st.ok, keys |-> {}]
<1> DEFINE keys == Keys(Bares(c.elems))
<1>1. keys \subseteq 0..MaxKey
  BY DEF Keys
<1>2. MeaningMerge(st, c) = CASE c.op = "add"    -> [st EXCEPT !.keys = @ \cup keys]
                              [] c.op = "delete" -> [ok |-> st.ok /\ keys \subseteq st.keys,
                                                     keys |-> st.keys \ keys]
                              [] c.op = "flush"  -> [st EXCEPT !.keys = {}]
  BY DEF MeaningMerge
<1> HIDE DEF keys
<1>3. c.op \in {"add", "delete", "flush"}
  BY DEF Command
<1>4. \A z : [st EXCEPT !.keys = z] = [ok |-> st.ok, keys |-> z]
  BY DEF KeyStates
<1>5. c.op = "add" => MeaningMerge(st, c) = [ok |-> st.ok, keys |-> st.keys \cup keys]
  BY <1>2, <1>4
<1>6. c.op = "delete" => MeaningMerge(st, c) = [ok |-> st.ok /\ keys \subseteq st.keys,
                                                keys |-> st.keys \ keys]
  BY <1>2
<1>7. c.op = "flush" => MeaningMerge(st, c) = [ok |-> st.ok, keys |-> {}]
  BY <1>2, <1>4
<1>8. MeaningMerge(st, c) \in KeyStates
  <2>1. st.ok \in BOOLEAN /\ st.keys \subseteq 0..MaxKey
    BY DEF KeyStates
  <2>2. \A b \in BOOLEAN : \A z : z \subseteq 0..MaxKey => [ok |-> b, keys |-> z] \in KeyStates
    BY DEF KeyStates
  <2>3. CASE c.op = "add"
    BY <1>1, <1>5, <2>1, <2>2, <2>3
  <2>4. CASE c.op = "delete"
    <3>1. (st.ok /\ keys \subseteq st.keys) \in BOOLEAN /\ st.keys \ keys \subseteq 0..MaxKey
      BY <2>1
    <3> QED BY <1>6, <2>2, <2>4, <3>1
  <2>5. CASE c.op = "flush"
    BY <1>7, <2>1, <2>2, <2>5
  <2> QED BY <1>3, <2>3, <2>4, <2>5
<1> QED BY <1>5, <1>6, <1>7, <1>8 DEF keys

\* The meaning of commands, one at a time.
LEMMA MeansFacts ==
  ASSUME NEW st \in KeyStates
  PROVE  /\ Means(st, <<>>) = st
         /\ \A s \in Seq(Command) : Means(st, s) \in KeyStates
         /\ \A s \in Seq(Command), c \in Command : \A t : IsAppend(t, s, c) =>
              Means(st, t) = MeaningMerge(Means(st, s), c)
<1>1. Means(st, <<>>) = st
  BY MeanFold!FoldEmpty DEF Means
<1>2. \A s \in Seq(Command) : Means(st, s) \in KeyStates
  BY MeaningIs, MeanFold!FoldInvariant DEF Means
<1>3. ASSUME NEW s \in Seq(Command), NEW c \in Command, NEW t, IsAppend(t, s, c)
      PROVE  Means(st, t) = MeaningMerge(Means(st, s), c)
  <2>1. MeanFold!IsAppend(t, s, c)
    BY <1>3 DEF MeanFold!IsAppend, IsAppend
  <2> QED BY <2>1, MeanFold!FoldAppend DEF Means
<1> QED BY <1>1, <1>2, <1>3

\* Two additions mean the same as one with the elements of both.
LEMMA TwoAdditions ==
  ASSUME NEW st \in KeyStates, NEW b \in Command, NEW c \in Command, b.op = "add", c.op = "add",
         NEW d \in Command, d.op = "add", d.elems = b.elems \o c.elems
  PROVE  MeaningMerge(MeaningMerge(st, b), c) = MeaningMerge(st, d)
<1>1. b.elems \in Seq(Interval) /\ c.elems \in Seq(Interval)
  BY DEF Command
<1> DEFINE p == b.elems
           q == c.elems
<1>2. Keys(Bares(p \o q)) = Keys(Bares(p)) \cup Keys(Bares(q))
  <2>1. \A s \in Seq(Interval) : \A y : y \in Bares(s) <=> \E x \in ToSet(s) : y = Bare(x)
    BY DEF Bares, ToSet
  <2>2. p \o q \in Seq(Interval) /\ \A y : y \in ToSet(p \o q) <=> y \in ToSet(p) \/ y \in ToSet(q)
    BY <1>1, ConcatSet
  <2> DEFINE u == p \o q
  <2>4. p \in Seq(Interval) /\ q \in Seq(Interval)
    BY <1>1
  <2> HIDE DEF p, q, u
  <2>5. /\ \A y : y \in Bares(u) <=> \E x \in ToSet(u) : y = Bare(x)
        /\ \A y : y \in Bares(p) <=> \E x \in ToSet(p) : y = Bare(x)
        /\ \A y : y \in Bares(q) <=> \E x \in ToSet(q) : y = Bare(x)
    BY <2>1, <2>2, <2>4 DEF u
  <2>6. \A y : y \in ToSet(u) <=> y \in ToSet(p) \/ y \in ToSet(q)
    BY <2>2 DEF u
  <2>3. \A y : y \in Bares(p \o q) <=> y \in Bares(p) \/ y \in Bares(q)
    BY <2>5, <2>6 DEF u
  <2> QED BY <2>3 DEF Keys
<1>3. MeaningMerge(st, b) = [ok |-> st.ok, keys |-> st.keys \cup Keys(Bares(p))]
      /\ MeaningMerge(st, b) \in KeyStates
  BY MeaningIs
<1>4. MeaningMerge(MeaningMerge(st, b), c)
        = [ok |-> MeaningMerge(st, b).ok, keys |-> MeaningMerge(st, b).keys \cup Keys(Bares(q))]
  BY <1>3, MeaningIs
<1>5. MeaningMerge(st, d) = [ok |-> st.ok, keys |-> st.keys \cup Keys(Bares(p \o q))]
  BY MeaningIs
<1> HIDE DEF p, q
<1>6. MeaningMerge(st, b).ok = st.ok /\ MeaningMerge(st, b).keys = st.keys \cup Keys(Bares(p))
  BY <1>3
<1> QED BY <1>2, <1>4, <1>5, <1>6

JoinFold == INSTANCE FoldFacts WITH Op <- LAMBDA p, a, c : Join(a, c)

\* Collapse() is a fold.
LEMMA CollapseIs ==
  ASSUME NEW in
  PROVE  JoinFold!Fold(0, <<>>, in) = Collapse(in)
BY Zenon DEF JoinFold!Fold, Collapse, JoinFold!FoldLeft, FoldLeft, JoinFold!MapThenFoldSet, MapThenFoldSet,
  JoinFold!Max, Max

\* A list of commands stands for another one.
StandsFor(t, s) ==
  /\ t \in Seq(Command) /\ Len(t) <= Len(s)
  /\ \A st \in KeyStates : Means(st, t) = Means(st, s)

\* nft_cmd_collapse() takes one more command.
LEMMA JoinFacts ==
  ASSUME NEW s \in Seq(Command), NEW t, StandsFor(t, s), NEW c \in Command,
         NEW u \in Seq(Command), IsAppend(u, s, c)
  PROVE  StandsFor(Join(t, c), u)
<1>1. t \in Seq(Command) /\ Len(t) <= Len(s) /\ Len(u) = Len(s) + 1 /\ Len(s) \in Nat
  BY AppendFacts DEF StandsFor
<1>2. \A st \in KeyStates : /\ Means(st, t) = Means(st, s) /\ Means(st, t) \in KeyStates
                            /\ Means(st, u) = MeaningMerge(Means(st, s), c)
  BY <1>1, MeansFacts DEF StandsFor
<1> DEFINE n == Len(t)
           b == t[n]
<1>3. CASE ~(c.op = "add" /\ t # <<>> /\ b.op = "add")
  <2> DEFINE a == Append(t, c)
  <2>1. Join(t, c) = a
    BY <1>3 DEF Join
  <2>2. IsAppend(a, t, c)
    BY DEF IsAppend
  <2> HIDE DEF a
  <2>3. a \in Seq(Command) /\ Len(a) = n + 1
    BY <1>1, <2>2, AppendFacts
  <2>4. \A st \in KeyStates : Means(st, a) = MeaningMerge(Means(st, t), c)
    BY <1>1, <2>2, MeansFacts
  <2> QED BY <1>1, <1>2, <2>1, <2>3, <2>4 DEF StandsFor
<1>4. CASE c.op = "add" /\ t # <<>> /\ b.op = "add"
  <2> DEFINE d == [b EXCEPT !.elems = @ \o c.elems]
             j == [t EXCEPT ![n] = d]
             f == SubSeq(t, 1, n - 1)
  <2>1. Join(t, c) = j
    BY <1>4 DEF Join
  <2>2. n \in Nat /\ n # 0 /\ n - 1 \in Nat /\ n = (n - 1) + 1 /\ b \in Command
    BY <1>1, <1>4
  <2>3. d \in Command /\ d.op = "add" /\ d.elems = b.elems \o c.elems
    <3> DEFINE es == b.elems \o c.elems
    <3>1. b.op = "add" /\ b.elems \in Seq(Interval) /\ c.elems \in Seq(Interval)
      BY <1>4, <2>2 DEF Command
    <3>2. es \in Seq(Interval)
      BY <3>1
    <3>3. d = [b EXCEPT !.elems = es]
      OBVIOUS
    <3> HIDE DEF es, d, b
    <3>4. d \in Command /\ d.op = "add" /\ d.elems = es
      BY <2>2, <3>1, <3>2, <3>3 DEF Command
    <3> QED BY <3>4 DEF es
  <2> HIDE DEF d
  <2>4. f \in Seq(Command) /\ j \in Seq(Command) /\ IsAppend(t, f, b) /\ IsAppend(j, f, d)
    BY <1>1, <2>2, <2>3, ReplaceLast
  <2>5. Len(j) = n
    BY <1>1, <2>4, AppendFacts
  <2> HIDE DEF f, b, j
  <2>6. ASSUME NEW st \in KeyStates PROVE Means(st, j) = Means(st, u)
    <3>1. Means(st, f) \in KeyStates /\ Means(st, j) = MeaningMerge(Means(st, f), d)
          /\ Means(st, t) = MeaningMerge(Means(st, f), b)
      BY <2>2, <2>3, <2>4, MeansFacts
    <3>2. MeaningMerge(MeaningMerge(Means(st, f), b), c) = MeaningMerge(Means(st, f), d)
      BY <1>4, <2>2, <2>3, <3>1, TwoAdditions
    <3> QED BY <1>2, <3>1, <3>2
  <2> QED BY <1>1, <2>1, <2>4, <2>5, <2>6 DEF StandsFor
<1> QED BY <1>3, <1>4

\* The collapsed commands stand for the ones that were given.
LEMMA CollapseFacts ==
  \A in \in Seq(Command) : StandsFor(Collapse(in), in)
<1> DEFINE T == {s \in Seq(Command) : StandsFor(Collapse(s), s)}
<1>1. <<>> \in T
  <2> DEFINE e == <<>>
  <2>1. Collapse(e) = e
    BY CollapseIs, JoinFold!FoldEmpty
  <2>2. e \in Seq(Command)
    OBVIOUS
  <2> HIDE DEF e
  <2>3. StandsFor(e, e)
    BY <2>2 DEF StandsFor
  <2> QED BY <2>1, <2>2, <2>3 DEF e
<1>2. \A s \in Seq(Command) : \A x \in Command : \A t : s \in T /\ IsAppend(t, s, x) => t \in T
  <2> SUFFICES ASSUME NEW s \in Seq(Command), NEW x \in Command, NEW t, s \in T, IsAppend(t, s, x) PROVE t \in T
    OBVIOUS
  <2>1. t \in Seq(Command)
    BY AppendFacts
  <2>2. JoinFold!IsAppend(t, s, x)
    BY DEF JoinFold!IsAppend, IsAppend
  <2>3. \A b : JoinFold!Fold(0, b, t) = Join(JoinFold!Fold(0, b, s), x)
    BY <2>2, JoinFold!FoldAppend
  <2>4. Collapse(t) = Join(Collapse(s), x)
    BY <2>3, CollapseIs
  <2>5. StandsFor(Join(Collapse(s), x), t)
    BY <2>1, JoinFacts
  <2> QED BY <2>1, <2>4, <2>5
<1>3. Seq(Command) \subseteq T
  <2> HIDE DEF T
  <2> QED BY <1>1, <1>2, SeqInductionR
<1> QED BY <1>3

-----------------------------------------------------------------------------
(* Types. *)

KernelStates == [ok : BOOLEAN, elems : SUBSET Interval]

\* The kernel's set has intervals only, whatever the messages are.
LEMMA AfterTyped ==
  ASSUME NEW ivs, ivs \subseteq Interval, NEW msgs \in Seq(Messages)
  PROVE  After(State(ivs), msgs) \in KernelStates
<1>1. \A b \in BOOLEAN : \A z : z \subseteq Interval => [ok |-> b, elems |-> z] \in KernelStates
  BY DEF KernelStates
<1>2. \A s \in KernelStates : s.ok \in BOOLEAN /\ s.elems \subseteq Interval
  BY DEF KernelStates
<1>3. ASSUME NEW s \in KernelStates, NEW e \in Interval PROVE KernelAdd(s, e) \in KernelStates
  <2> DEFINE b == s.ok /\ e.l <= e.r /\ \A x \in s.elems : ~Overlaps(x, e)
             z == s.elems \cup {e}
  <2>1. b \in BOOLEAN /\ z \subseteq Interval
    BY <1>2
  <2>2. KernelAdd(s, e) = IF e \in s.elems THEN s ELSE [ok |-> b, elems |-> z]
    BY DEF KernelAdd
  <2> HIDE DEF b, z
  <2> QED BY <1>1, <2>1, <2>2
<1>4. ASSUME NEW s \in KernelStates, NEW e \in Interval PROVE KernelDel(s, e) \in KernelStates
  <2> DEFINE b == s.ok /\ e \in s.elems
             z == s.elems \ {e}
  <2>1. b \in BOOLEAN /\ z \subseteq Interval
    BY <1>2
  <2>2. KernelDel(s, e) = [ok |-> b, elems |-> z]
    BY DEF KernelDel
  <2> HIDE DEF b, z
  <2> QED BY <1>1, <2>1, <2>2
<1>5. ASSUME NEW s \in KernelStates, NEW m \in Messages PROVE KernelMsg(s, m) \in KernelStates
  <2>1. m.elems \in Seq(Interval) /\ m.type \in {"add", "del", "flush"}
    BY DEF Messages
  <2>2. FoldLeft(KernelAdd, s, m.elems) \in KernelStates
    <3>1. \A q \in Seq(Interval) : AddFold!Fold(0, s, q) \in KernelStates
      BY <1>3, AddFold!FoldInvariant
    <3>2. FoldLeft(KernelAdd, s, m.elems) = AddFold!Fold(0, s, m.elems)
      BY KernelIs
    <3> QED BY <2>1, <3>1, <3>2
  <2>3. FoldLeft(KernelDel, s, m.elems) \in KernelStates
    <3>1. \A q \in Seq(Interval) : DelFold!Fold(0, s, q) \in KernelStates
      BY <1>4, DelFold!FoldInvariant
    <3>2. FoldLeft(KernelDel, s, m.elems) = DelFold!Fold(0, s, m.elems)
      BY KernelIs
    <3> QED BY <2>1, <3>1, <3>2
  <2>4. [s EXCEPT !.elems = {}] \in KernelStates
    BY DEF KernelStates
  <2> QED BY <2>1, <2>2, <2>3, <2>4 DEF KernelMsg
<1>6. State(ivs) \in KernelStates
  BY <1>1 DEF State
<1> QED BY <1>5, <1>6, MsgFold!FoldInvariant DEF After

DeleteStates == [ok : BOOLEAN, list : Seq(Elem), purge : Seq(Elem)]

\* Without auto-merge, a deletion leaves elements.
LEMMA PlainDelete ==
  ASSUME automerge = FALSE, existing \in Seq(Elem), NEW init \in Seq(Elem)
  PROVE  Deleted(init) \in DeleteStates
<1>1. ASSUME NEW acc \in DeleteStates, NEW d \in Elem PROVE DeleteOne(automerge, acc, d) \in DeleteStates
  <2> DEFINE list  == ListExprSort(acc.list)
             n     == UpTo(list, d.l)
             prev  == list[n]
             rest  == Without(list, n)
             purge == IF prev.k THEN Append(acc.purge, prev) ELSE acc.purge
             left  == IF prev.k THEN rest ELSE list
  <2>1. acc.ok \in BOOLEAN /\ acc.list \in Seq(Elem) /\ acc.purge \in Seq(Elem)
    BY DEF DeleteStates
  <2>2. IsSortOf({}, list, acc.list)
    BY <2>1, SortFacts DEF Symmetric
  <2>3. DeleteOne(automerge, acc, d) =
          IF acc.ok /\ n # 0 /\ n > 0 /\ Bare(prev) = Bare(d) THEN [acc EXCEPT !.purge = purge, !.list = left]
          ELSE [acc EXCEPT !.ok = FALSE]
    <3>1. n \in Nat
      BY <2>2, UpToFacts, ElemIs DEF IsSortOf
    <3> HIDE DEF list, n
    <3>2. prev = list[n] /\ rest = SubSeq(list, 1, n - 1) \o SubSeq(list, n + 1, Len(list))
      BY DEF Without
    <3> QED BY <3>1 DEF DeleteOne, Without, list, n
  <2> HIDE DEF list
  <2>4. list \in Seq(Elem) /\ Sorted(list)
    BY <2>2 DEF IsSortOf
  <2>5. n \in 0..Len(list)
    BY <2>4, UpToFacts, ElemIs
  <2> HIDE DEF n
  <2>6. ASSUME n > 0 PROVE purge \in Seq(Elem) /\ left \in Seq(Elem)
    <3>1. n \in 1..Len(list)
      BY <2>5, <2>6
    <3>2. rest \in Seq(Elem) /\ prev \in Elem
      <4>1. Pairs(SortedR, list)
        BY <2>4 DEF Sorted
      <4> QED BY <2>4, <3>1, <4>1, TakeOut
    <3> HIDE DEF rest, prev
    <3> QED BY <2>1, <2>4, <3>2
  <2> HIDE DEF purge, left
  <2>7. [acc EXCEPT !.ok = FALSE] \in DeleteStates
    BY DEF DeleteStates
  <2>8. n > 0 => [acc EXCEPT !.purge = purge, !.list = left] \in DeleteStates
    BY <2>6 DEF DeleteStates
  <2> QED BY <2>3, <2>7, <2>8
<1>2. [ok |-> TRUE, list |-> existing, purge |-> <<>>] \in DeleteStates
  BY DEF DeleteStates
<1>3. ToDelete(init) = init
  BY DEF ToDelete
<1> QED BY <1>1, <1>2, <1>3, DeletedIs, DeleteFold!FoldInvariant DEF DeletedFrom

-----------------------------------------------------------------------------
(* The specification. *)

\* The commands that are evaluated.
Past == SubSeq(Commands, 1, pos - 1)

\* What the variables contain.
Typed ==
  /\ automerge \in BOOLEAN
  /\ kernel \subseteq Interval
  /\ pc \in {"idle", "eval", "send"}
  /\ script \in BOOLEAN
  /\ given \in Seq(Command)
  /\ pos \in Nat /\ 1 <= pos /\ pos <= Len(Commands) + 1
  /\ existing \in Seq(Elem) /\ AllKernel(existing)
  /\ fetched \in BOOLEAN
  /\ batch \in Seq(Messages)
  /\ outcome \in {"none", "done", "rejected", "refused"}
  /\ pc = "idle" => pos = 1 /\ batch = <<>>
  /\ pc = "send" => pos > Len(Commands)

\* With auto-merge, the cached elements are apart, and they are what the set will
\* contain after the messages and what the evaluated commands mean.
Merging ==
  automerge =>
    /\ ApartSet(kernel)
    /\ Pairs(ScatR, existing)
    /\ pc = "idle" /\ fetched => Bares(existing) = kernel
    /\ pc # "idle" => After(State(kernel), batch) = State(Bares(existing))
    /\ pc # "idle" => Means(KeyState(Keys(kernel)), Past) = KeyState(Keys(Bares(existing)))

IntervalsInv == Typed /\ Merging

\* The commands of an input are commands, no more than were given, and mean the same.
LEMMA CommandsFacts ==
  ASSUME given \in Seq(Command)
  PROVE  /\ Commands \in Seq(Command) /\ Len(Commands) \in Nat /\ Len(given) \in Nat
         /\ Len(Commands) <= Len(given)
         /\ \A i \in 1..Len(Commands) : Commands[i] \in Command
         /\ \A st \in KeyStates : Means(st, Commands) = Means(st, given)
<1>1. StandsFor(Commands, given)
  BY CollapseFacts DEF Commands
<1> HIDE DEF Commands
<1> QED BY <1>1 DEF StandsFor

\* There is no command before the first.
LEMMA PastEmpty ==
  ASSUME pos = 1, Commands \in Seq(Command)
  PROVE  Past = <<>>
<1>1. \A s \in Seq(Command) : SubSeq(s, 1, 0) = <<>>
  OBVIOUS
<1>2. pos - 1 = 0
  OBVIOUS
<1> QED BY <1>1, <1>2, Zenon DEF Past

\* The keys of a set are a valid state for the meaning of commands.
LEMMA KeyStateTyped ==
  ASSUME NEW ivs
  PROVE  KeyState(Keys(ivs)) \in KeyStates
BY DEF KeyState, Keys, KeyStates

\* The commands up to the one that is evaluated.
LEMMA PastNext ==
  ASSUME given \in Seq(Command), pos \in Nat, 1 <= pos, pos <= Len(Commands)
  PROVE  /\ Past \in Seq(Command) /\ Commands[pos] \in Command
         /\ IsAppend(SubSeq(Commands, 1, pos), Past, Commands[pos])
<1> DEFINE cmds == Commands
           p == SubSeq(cmds, 1, pos - 1)
           q == SubSeq(cmds, 1, pos)
           c == cmds[pos]
<1>1. cmds \in Seq(Command) /\ Len(cmds) \in Nat /\ pos <= Len(cmds)
  BY CommandsFacts
<1> HIDE DEF cmds
<1>2. q \in Seq(Command) /\ Len(q) = (pos - 1) + 1 /\ pos - 1 \in Nat
  BY <1>1
<1>3. SubSeq(q, 1, pos - 1) = p /\ q[(pos - 1) + 1] = c
  BY <1>1
<1>4. Past = p
  BY Zenon DEF Past, cmds
<1> HIDE DEF q, p, c
<1>5. p \in Seq(Command) /\ c \in Command /\ IsAppend(q, p, c)
  BY <1>2, <1>3, Split DEF IsAppend
<1> QED BY <1>4, <1>5, Zenon DEF q, c, cmds

\* One command is evaluated: the cached elements are kept true to the messages and
\* to the meaning of the commands.
LEMMA EvaluatedStep ==
  ASSUME IntervalsInv, NEW op, Evaluating(op), Evaluated,
         existing' \in Seq(Elem), AllKernel(existing'), batch' \in Seq(Messages),
         automerge =>
           /\ Pairs(ScatR, existing')
           /\ After(State(kernel), batch') = State(Bares(existing'))
           /\ MeaningMerge(KeyState(Keys(Bares(existing))), Commands[pos])
                = KeyState(Keys(Bares(existing')))
  PROVE  IntervalsInv'
<1>1. /\ pos' = pos + 1
      /\ UNCHANGED <<automerge, kernel, pc, script, given, fetched, outcome>>
      /\ pc = "eval" /\ pos <= Len(Commands)
  BY DEF Evaluated, Evaluating
<1>2. Commands' = Commands
  BY <1>1 DEF Commands
<1>3. /\ Commands \in Seq(Command) /\ Len(Commands) \in Nat /\ pos \in Nat /\ 1 <= pos
      /\ \A i \in 1..Len(Commands) : Commands[i] \in Command
  BY CommandsFacts DEF IntervalsInv, Typed
<1> DEFINE cmds == Commands
<1> HIDE DEF cmds
<1>4. Typed'
  BY <1>1, <1>2, <1>3 DEF IntervalsInv, Typed
<1>5. ASSUME automerge PROVE Means(KeyState(Keys(kernel)), Past') = KeyState(Keys(Bares(existing')))
  <2> DEFINE st == KeyState(Keys(kernel))
             p == Past
             q == SubSeq(cmds, 1, pos)
             c == cmds[pos]
  <2>3. p \in Seq(Command) /\ c \in Command /\ IsAppend(q, p, c)
    BY <1>1, <1>3, PastNext DEF IntervalsInv, Typed, cmds
  <2>4. Past' = q
    <3>1. pos' - 1 = pos
      BY <1>1, <1>3
    <3> QED BY <1>2, <3>1, Zenon DEF Past, cmds
  <2> HIDE DEF p, q, c
  <2>5. st \in KeyStates
    BY KeyStateTyped
  <2>6. Means(st, p) = KeyState(Keys(Bares(existing)))
    BY <1>1, <1>5 DEF IntervalsInv, Merging, p
  <2> HIDE DEF st
  <2>7. Means(st, q) = MeaningMerge(Means(st, p), c)
    BY <2>3, <2>5, MeansFacts
  <2>8. MeaningMerge(KeyState(Keys(Bares(existing))), c) = KeyState(Keys(Bares(existing')))
    BY <1>5 DEF c, cmds
  <2> QED BY <2>4, <2>6, <2>7, <2>8 DEF st
<1>6. automerge => ApartSet(kernel)
  BY DEF IntervalsInv, Merging
<1>7. Merging'
  BY <1>1, <1>5, <1>6 DEF Merging
<1> QED BY <1>4, <1>7 DEF IntervalsInv

\* The marks do not change which elements are apart.
LEMMA Published ==
  ASSUME NEW kept \in Seq(Elem), Pairs(ScatR, kept)
  PROVE  Pairs(ScatR, Each(InKernel, kept))
<1> DEFINE t == Each(InKernel, kept)
<1>1. t \in Seq(Elem) /\ DOMAIN t = DOMAIN kept
      /\ \A i \in DOMAIN kept : t[i].l = kept[i].l /\ t[i].r = kept[i].r
  BY EachInKernel
<1> HIDE DEF t
<1>2. Pairs(ScatR, t)
  <2> SUFFICES ASSUME NEW i \in DOMAIN kept, NEW j \in DOMAIN kept, i < j PROVE <<t[i], t[j]>> \in ScatR
    BY <1>1 DEF Pairs
  <2>1. <<kept[i], kept[j]>> \in ScatR
    BY DEF Pairs
  <2>2. kept[i] \in Elem /\ kept[j] \in Elem /\ t[i] \in Elem /\ t[j] \in Elem
    BY <1>1
  <2>3. kept[i].r + 1 < kept[j].l \/ kept[j].r + 1 < kept[i].l
    BY <2>1, <2>2, ScatPair
  <2> QED BY <1>1, <2>2, <2>3, ScatPair
<1> QED BY <1>2 DEF t

\* A merge or a deletion whose messages edit the cached elements.
LEMMA EditStep ==
  ASSUME automerge, IntervalsInv, pc = "eval", NEW kept, NEW purge, IsEditOf(kept, purge, existing),
         existing' = Each(InKernel, kept),
         batch' = batch \o Message("del", purge) \o Message("add", NewOnes(kept))
  PROVE  /\ existing' \in Seq(Elem) /\ AllKernel(existing') /\ batch' \in Seq(Messages)
         /\ Pairs(ScatR, existing')
         /\ After(State(kernel), batch') = State(Bares(existing'))
         /\ Bares(existing') = Bares(kept)
<1>1. kept \in Seq(Elem) /\ Pairs(ScatR, kept)
  BY DEF IsEditOf
<1>2. batch \in Seq(Messages) /\ After(State(kernel), batch) = State(Bares(existing))
  BY DEF IntervalsInv, Typed, Merging
<1>3. /\ existing' \in Seq(Elem) /\ AllKernel(existing')
      /\ Bares(existing') = Bares(kept)
  BY <1>1, EachInKernel
<1>4. Pairs(ScatR, existing')
  BY <1>1, Published
<1>5. batch' \in Seq(Messages) /\ After(State(kernel), batch') = State(Bares(kept))
  BY <1>2, EditBatch
<1> QED BY <1>3, <1>4, <1>5

\* The elements of a command.
LEMMA ElemsFacts ==
  ASSUME IntervalsInv, NEW op, Evaluating(op)
  PROVE  /\ Commands[pos] \in Command /\ Commands[pos].op = op
         /\ Elems \in Seq(Elem) /\ AllNew(Elems)
         /\ Bares(Elems) = Bares(Commands[pos].elems)
<1>1. Commands[pos] \in Command /\ Commands[pos].op = op
  BY CommandsFacts DEF IntervalsInv, Typed, Evaluating
<1>2. Commands[pos].elems \in Seq(Interval)
  BY <1>1 DEF Command
<1> QED BY <1>1, <1>2, NewElems DEF Elems

\* Elements that are in order are sorted by their left ends.
LEMMA OrderIs ==
  ASSUME NEW s \in Seq(Elem)
  PROVE  Sorted(s) <=> \A i, j \in DOMAIN s : i < j => s[i].l <= s[j].l
<1>1. \A i \in DOMAIN s : s[i] \in Elem
  OBVIOUS
<1> QED BY <1>1, SortedPair DEF Sorted, Pairs

\* An addition with auto-merge.
LEMMA AddStep ==
  ASSUME IntervalsInv, AddsInOrder, EvalAddMerge
  PROVE  IntervalsInv'
<1> DEFINE init == Elems
           m == Merged(ListSpliceSorted(existing, ListExprSort(init)))
           c == Commands[pos]
<1>1. automerge = TRUE /\ Evaluating("add") /\ Evaluated /\ SetAutomerge(init)
      /\ pc = "eval"
  BY DEF EvalAddMerge, Evaluating, IntervalsInv, Typed
<1>2. c \in Command /\ c.op = "add" /\ init \in Seq(Elem) /\ AllNew(init) /\ Bares(init) = Bares(c.elems)
  BY <1>1, ElemsFacts
<1>3. existing \in Seq(Elem) /\ AllKernel(existing) /\ Pairs(ScatR, existing)
  BY <1>1 DEF IntervalsInv, Typed, Merging
<1>4. Sorted(existing)
  BY <1>1, <1>3, OrderIs DEF AddsInOrder
<1>5. SetelemAutomerge(SetSortSplice(init)) = m
  BY <1>1, MergedIs DEF SetSortSplice
<1>6. /\ existing' = Each(InKernel, m.kept)
      /\ batch' = batch \o Message("del", m.purge) \o Message("add", NewOnes(m.kept))
  BY <1>1, <1>5 DEF SetAutomerge
<1> HIDE DEF init, c, m
<1>7. /\ IsEditOf(m.kept, m.purge, existing)
      /\ \A v \in Int : Covers(m.kept, v) <=> Covers(init, v) \/ Covers(existing, v)
  BY <1>2, <1>3, <1>4, AddFact DEF m
<1>8. /\ existing' \in Seq(Elem) /\ AllKernel(existing') /\ batch' \in Seq(Messages)
      /\ Pairs(ScatR, existing')
      /\ After(State(kernel), batch') = State(Bares(existing'))
      /\ Bares(existing') = Bares(m.kept)
  BY <1>1, <1>6, <1>7, EditStep
<1>9. MeaningMerge(KeyState(Keys(Bares(existing))), c) = KeyState(Keys(Bares(existing')))
  <2> DEFINE st == KeyState(Keys(Bares(existing)))
  <2>1. st \in KeyStates /\ st.ok = TRUE /\ st.keys = Keys(Bares(existing))
    BY KeyStateTyped DEF KeyState
  <2> HIDE DEF st
  <2>2. MeaningMerge(st, c) = [ok |-> st.ok, keys |-> st.keys \cup Keys(Bares(c.elems))]
    BY <1>2, <2>1, MeaningIs
  <2>3. m.kept \in Seq(Elem)
    BY <1>7 DEF IsEditOf
  <2>4. Keys(Bares(m.kept)) = Keys(Bares(existing)) \cup Keys(Bares(init))
    <3>1. /\ Keys(Bares(m.kept)) = {v \in 0..MaxKey : Covers(m.kept, v)}
          /\ Keys(Bares(existing)) = {v \in 0..MaxKey : Covers(existing, v)}
          /\ Keys(Bares(init)) = {v \in 0..MaxKey : Covers(init, v)}
      BY <1>2, <1>3, <2>3, KeysCovered
    <3>2. \A v \in 0..MaxKey : v \in Int
      OBVIOUS
    <3> QED BY <1>7, <3>1, <3>2
  <2> QED BY <1>2, <1>8, <2>1, <2>2, <2>4 DEF st, KeyState
<1> QED BY <1>1, <1>8, <1>9, EvaluatedStep, Zenon DEF c

\* A deletion with auto-merge leaves an edit of the cached elements, and fails only
\* when it names a key that is not in the set.
LEMMA DeletedFacts ==
  ASSUME IntervalsInv, automerge, Evaluating("delete")
  PROVE  LET d == Deleted(Elems)
             st == KeyState(Keys(Bares(existing)))
         IN /\ d.ok => /\ IsEditOf(d.list, d.purge, existing)
                       /\ MeaningMerge(st, Commands[pos]) = KeyState(Keys(Bares(d.list)))
            /\ ~d.ok => ~MeaningMerge(st, Commands[pos]).ok
<1> DEFINE init == Elems
           u == ToDelete(init)
           d == Deleted(init)
           c == Commands[pos]
           st == KeyState(Keys(Bares(existing)))
<1>1. automerge = TRUE
  BY DEF IntervalsInv, Typed
<1>2. c \in Command /\ c.op = "delete" /\ init \in Seq(Elem) /\ AllNew(init) /\ Bares(init) = Bares(c.elems)
  BY ElemsFacts
<1>3. existing \in Seq(Elem) /\ AllKernel(existing) /\ Pairs(ScatR, existing)
  BY DEF IntervalsInv, Typed, Merging
<1> HIDE DEF init, c
<1>4. u \in Seq(Elem) /\ Pairs(SepR, u) /\ \A v \in Int : Covers(u, v) <=> Covers(init, v)
  BY <1>1, <1>2, ToDeleteFacts
<1>5. d = DeletedFrom(TRUE, existing, u)
  <2>1. d = DeletedFrom(automerge, existing, u)
    BY DeletedIs
  <2> QED BY <1>1, <2>1, Zenon
<1> HIDE DEF u, d
<1>6. IsDeleteOf(DeletedFrom(TRUE, existing, u), u, existing)
  BY <1>3, <1>4, DeletedInv
<1>7. IsDeleteOf(d, u, existing)
  BY <1>5, <1>6, Zenon
<1>8. st \in KeyStates /\ st.ok = TRUE /\ st.keys = Keys(Bares(existing))
  BY KeyStateTyped DEF KeyState
<1> HIDE DEF st
<1>9. MeaningMerge(st, c) = [ok |-> st.ok /\ Keys(Bares(c.elems)) \subseteq st.keys,
                             keys |-> st.keys \ Keys(Bares(c.elems))]
  BY <1>2, <1>8, MeaningIs
<1>10. /\ Keys(Bares(existing)) = {v \in 0..MaxKey : Covers(existing, v)}
       /\ Keys(Bares(init)) = {v \in 0..MaxKey : Covers(init, v)}
       /\ \A v \in Int : Covers(init, v) => v \in 0..MaxKey
  BY <1>2, <1>3, KeysCovered
<1>11. \A v \in 0..MaxKey : v \in Int
  OBVIOUS
<1>12. ASSUME d.ok
       PROVE  /\ IsEditOf(d.list, d.purge, existing)
              /\ MeaningMerge(st, c) = KeyState(Keys(Bares(d.list)))
  <2>1. /\ IsEditOf(d.list, d.purge, existing)
        /\ \A v \in Int : Covers(d.list, v) <=> Covers(existing, v) /\ ~Covers(u, v)
        /\ \A v \in Int : Covers(u, v) => Covers(existing, v)
    BY <1>7, <1>12 DEF IsDeleteOf
  <2>2. d.list \in Seq(Elem)
    BY <2>1 DEF IsEditOf
  <2>3. Keys(Bares(d.list)) = {v \in 0..MaxKey : Covers(d.list, v)}
    BY <2>2, KeysCovered
  <2>4. Keys(Bares(d.list)) = Keys(Bares(existing)) \ Keys(Bares(init))
    BY <1>4, <1>10, <1>11, <2>1, <2>3
  <2>5. Keys(Bares(init)) \subseteq Keys(Bares(existing))
    BY <1>4, <1>10, <1>11, <2>1
  <2> QED BY <1>2, <1>8, <1>9, <2>1, <2>4, <2>5 DEF KeyState
<1>13. ASSUME ~d.ok PROVE ~MeaningMerge(st, c).ok
  <2>1. PICK v \in Int : Covers(u, v) /\ ~Covers(existing, v)
    BY <1>7, <1>13 DEF IsDeleteOf
  <2>2. v \in Keys(Bares(init)) /\ v \notin Keys(Bares(existing))
    BY <1>4, <1>10, <2>1
  <2> DEFINE b == st.ok /\ Keys(Bares(c.elems)) \subseteq st.keys
             z == st.keys \ Keys(Bares(c.elems))
  <2>3. ~b
    BY <1>2, <1>8, <2>2
  <2>4. MeaningMerge(st, c) = [ok |-> b, keys |-> z]
    BY <1>9
  <2> HIDE DEF b, z
  <2>5. MeaningMerge(st, c).ok = b
    BY <2>4
  <2> QED BY <2>3, <2>5
<1> QED BY <1>12, <1>13, Zenon DEF st, c, d, init

\* A deletion.
LEMMA DeleteStepOf ==
  ASSUME IntervalsInv, EvalDelete
  PROVE  IntervalsInv'
<1> DEFINE d == Deleted(Elems)
           c == Commands[pos]
<1>1. Evaluating("delete") /\ d.ok /\ SetDelete(Elems) /\ Evaluated /\ pc = "eval"
  BY DEF EvalDelete, Evaluating
<1>2. /\ existing' = Each(InKernel, d.list)
      /\ batch' = batch \o Message("del", d.purge) \o Message("add", NewOnes(d.list))
  BY <1>1 DEF SetDelete
<1>3. Elems \in Seq(Elem) /\ batch \in Seq(Messages) /\ existing \in Seq(Elem) /\ automerge \in BOOLEAN
  BY <1>1, ElemsFacts DEF IntervalsInv, Typed
<1>4. ASSUME automerge
      PROVE  /\ IsEditOf(d.list, d.purge, existing)
             /\ MeaningMerge(KeyState(Keys(Bares(existing))), c) = KeyState(Keys(Bares(d.list)))
  BY <1>1, <1>4, DeletedFacts
<1>5. ASSUME ~automerge PROVE d.list \in Seq(Elem) /\ d.purge \in Seq(Elem)
  <2>1. automerge = FALSE
    BY <1>3, <1>5
  <2>2. d \in DeleteStates
    BY <1>3, <2>1, PlainDelete
  <2> HIDE DEF d
  <2> QED BY <2>2 DEF DeleteStates
<1> HIDE DEF d, c
<1>6. d.list \in Seq(Elem) /\ d.purge \in Seq(Elem)
  BY <1>4, <1>5 DEF IsEditOf
<1>7. existing' \in Seq(Elem) /\ AllKernel(existing')
  BY <1>2, <1>6, EachInKernel
<1>8. batch' \in Seq(Messages)
  <2>1. NewOnes(d.list) \in Seq(Elem)
    BY <1>6, NewOnesFacts
  <2>2. Message("del", d.purge) \in Seq(Messages) /\ Message("add", NewOnes(d.list)) \in Seq(Messages)
    BY <1>6, <2>1, AfterMessage
  <2> QED BY <1>2, <1>3, <2>2
<1>9. ASSUME automerge
      PROVE  /\ Pairs(ScatR, existing')
             /\ After(State(kernel), batch') = State(Bares(existing'))
             /\ Bares(existing') = Bares(d.list)
  BY <1>1, <1>2, <1>4, <1>9, EditStep
<1>10. automerge => MeaningMerge(KeyState(Keys(Bares(existing))), c) = KeyState(Keys(Bares(existing')))
  <2>1. ASSUME automerge
        PROVE  MeaningMerge(KeyState(Keys(Bares(existing))), c) = KeyState(Keys(Bares(existing')))
    <3>1. Bares(existing') = Bares(d.list)
      BY <1>9, <2>1
    <3> QED BY <1>4, <2>1, <3>1, Zenon
  <2> QED BY <2>1
<1>11. automerge => Pairs(ScatR, existing') /\ After(State(kernel), batch') = State(Bares(existing'))
  BY <1>9
<1> QED BY <1>1, <1>7, <1>8, <1>10, <1>11, EvaluatedStep, Zenon DEF c

\* An addition without auto-merge.
LEMMA OverlapStep ==
  ASSUME IntervalsInv, EvalAddOverlap
  PROVE  IntervalsInv'
<1> DEFINE list == SetSortSplice(Elems)
<1>1. Evaluating("add") /\ ~automerge /\ SetOverlap(Elems) /\ Evaluated
  BY DEF EvalAddOverlap
<1>2. existing' = Each(InKernel, list) /\ batch' = batch \o Message("add", NewOnes(list))
  BY <1>1 DEF SetOverlap
<1>3. Elems \in Seq(Elem) /\ batch \in Seq(Messages) /\ existing \in Seq(Elem)
  BY <1>1, ElemsFacts DEF IntervalsInv, Typed
<1>4. list \in Seq(Elem)
  <2> DEFINE sorted == ListExprSort(Elems)
  <2>1. IsSortOf({}, sorted, Elems)
    BY <1>3, SortFacts DEF Symmetric
  <2> HIDE DEF sorted
  <2>2. sorted \in Seq(Elem)
    BY <2>1 DEF IsSortOf
  <2>3. ListSpliceSorted(existing, sorted) \in Seq(Elem)
    BY <1>3, <2>2, SplicedFacts
  <2> QED BY <2>3 DEF SetSortSplice, sorted
<1> HIDE DEF list
<1>5. existing' \in Seq(Elem) /\ AllKernel(existing')
  BY <1>2, <1>4, EachInKernel
<1>6. batch' \in Seq(Messages)
  <2>1. NewOnes(list) \in Seq(Elem)
    BY <1>4, NewOnesFacts
  <2>2. Message("add", NewOnes(list)) \in Seq(Messages)
    BY <2>1, AfterMessage
  <2> QED BY <1>2, <1>3, <2>2
<1> QED BY <1>1, <1>5, <1>6, EvaluatedStep, Zenon

\* A flush.
LEMMA FlushStep ==
  ASSUME IntervalsInv, EvalFlush
  PROVE  IntervalsInv'
<1> DEFINE f == [type |-> "flush", elems |-> <<>>]
           c == Commands[pos]
           st == State(kernel)
<1>1. Evaluating("flush") /\ Evaluated /\ existing' = <<>> /\ batch' = Append(batch, f) /\ pc = "eval"
  BY DEF EvalFlush, Evaluating
<1>2. f \in Messages /\ f.type = "flush"
  BY DEF Messages
<1>3. c \in Command /\ c.op = "flush" /\ batch \in Seq(Messages)
  BY <1>1, ElemsFacts DEF IntervalsInv, Typed
<1> HIDE DEF f, c
<1>4. existing' \in Seq(Elem) /\ AllKernel(existing') /\ Pairs(ScatR, existing') /\ Bares(existing') = {}
  <2>1. <<>> \in Seq(Elem) /\ AllKernel(<<>>) /\ Pairs(ScatR, <<>>)
    BY SmallSets DEF AllKernel
  <2> QED BY <1>1, <2>1, BaresEmpty
<1>5. batch' \in Seq(Messages)
  BY <1>1, <1>2, <1>3
<1>6. After(st, batch') = KernelMsg(After(st, batch), f)
  <2>1. MsgFold!IsAppend(batch', batch, f)
    BY <1>1 DEF MsgFold!IsAppend
  <2> HIDE DEF st
  <2> QED BY <1>2, <1>3, <2>1, MsgFold!FoldAppend DEF After
<1>7. automerge => After(st, batch') = State(Bares(existing'))
  <2>1. ASSUME automerge PROVE After(st, batch') = State(Bares(existing'))
    <3>1. After(st, batch) = State(Bares(existing))
      BY <1>1, <2>1 DEF IntervalsInv, Merging
    <3>2. KernelMsg(State(Bares(existing)), f) = State({})
      BY <1>2 DEF KernelMsg, State
    <3> QED BY <1>4, <1>6, <3>1, <3>2
  <2> QED BY <2>1
<1>8. MeaningMerge(KeyState(Keys(Bares(existing))), c) = KeyState(Keys(Bares(existing')))
  <2> DEFINE ks == KeyState(Keys(Bares(existing)))
  <2>1. ks \in KeyStates /\ ks.ok = TRUE
    BY KeyStateTyped DEF KeyState
  <2> HIDE DEF ks
  <2>2. MeaningMerge(ks, c) = [ok |-> TRUE, keys |-> {}]
    BY <1>3, <2>1, MeaningIs
  <2>3. Keys({}) = {}
    BY DEF Keys
  <2> QED BY <1>4, <2>2, <2>3 DEF ks, KeyState
<1> QED BY <1>1, <1>4, <1>5, <1>7, <1>8, EvaluatedStep, Zenon DEF c, st

\* Elements of a list that are apart are apart in the set.
LEMMA ScatApart ==
  ASSUME NEW s \in Seq(Elem), Pairs(ScatR, s)
  PROVE  ApartSet(Bares(s))
<1> SUFFICES ASSUME NEW a \in Bares(s), NEW b \in Bares(s), a # b
             PROVE  a.r + 1 < b.l \/ b.r + 1 < a.l
  BY DEF ApartSet
<1>1. PICK x \in ToSet(s) : a = Bare(x)
  BY BaresIs
<1>2. PICK y \in ToSet(s) : b = Bare(y)
  BY BaresIs
<1>3. x.r + 1 < y.l \/ y.r + 1 < x.l
  BY <1>1, <1>2, ScatMembers
<1> QED BY <1>1, <1>2, <1>3 DEF Bare, Ival

\* No message leaves the set as it is.
LEMMA NoMessage ==
  ASSUME NEW st
  PROVE  After(st, <<>>) = st
BY MsgFold!FoldEmpty DEF After

\* An input begins with the elements of the kernel's set.
LEMMA BeginStep ==
  ASSUME IntervalsInv, NEW in \in Input \cup Script, NEW s \in BOOLEAN, Begin(in, s)
  PROVE  IntervalsInv'
<1>1. /\ pc = "idle" /\ pc' = "eval" /\ given' = in /\ script' = s /\ outcome' = "none"
      /\ existing' = IF fetched /\ ~s THEN existing ELSE Ascending(kernel)
      /\ fetched' = TRUE
      /\ UNCHANGED <<automerge, kernel, pos, batch>>
  BY DEF Begin
<1>2. given' \in Seq(Command)
  BY <1>1, InputsAssumption
<1>3. Commands' \in Seq(Command) /\ Len(Commands') \in Nat
  <2>1. StandsFor(Collapse(in), in) /\ Commands' = Collapse(in)
    BY <1>1, <1>2, CollapseFacts DEF Commands
  <2> HIDE DEF Commands
  <2> QED BY <2>1 DEF StandsFor
<1>4. kernel \subseteq Interval /\ pos = 1 /\ batch = <<>> /\ existing \in Seq(Elem) /\ AllKernel(existing)
  BY <1>1 DEF IntervalsInv, Typed
<1>5. /\ Ascending(kernel) \in Seq(Elem) /\ AllKernel(Ascending(kernel))
      /\ Bares(Ascending(kernel)) = kernel
      /\ ApartSet(kernel) => Pairs(ScatR, Ascending(kernel))
  BY <1>4, AscendingFacts
<1>6. Typed'
  <2>1. existing' \in Seq(Elem) /\ AllKernel(existing')
    BY <1>1, <1>4, <1>5, Zenon
  <2> HIDE DEF Commands
  <2> QED BY <1>1, <1>2, <1>3, <1>4, <2>1 DEF IntervalsInv, Typed
<1>7. ASSUME automerge
      PROVE  /\ ApartSet(kernel) /\ Pairs(ScatR, existing') /\ Bares(existing') = kernel
  BY <1>1, <1>5, <1>7 DEF IntervalsInv, Merging
<1>8. After(State(kernel), batch') = State(kernel)
  BY <1>1, <1>4, NoMessage
<1>9. Means(KeyState(Keys(kernel)), Past') = KeyState(Keys(kernel))
  <2>1. Past' = <<>>
    <3>1. \A t \in Seq(Command) : SubSeq(t, 1, 0) = <<>>
      OBVIOUS
    <3>2. pos' - 1 = 0
      BY <1>1, <1>4
    <3> HIDE DEF Commands
    <3> QED BY <1>3, <3>1, <3>2, Zenon DEF Past
  <2> QED BY <2>1, KeyStateTyped, MeansFacts
<1>10. Merging'
  BY <1>1, <1>7, <1>8, <1>9 DEF Merging
<1> QED BY <1>6, <1>10 DEF IntervalsInv

\* An input ends: the cached elements stay if it was committed by a context that is
\* kept, and they are the kernel's then.
LEMMA ReturnStep ==
  ASSUME IntervalsInv, NEW how \in {"done", "rejected", "refused"}, Return(how), kernel' \subseteq Interval,
         automerge => ApartSet(kernel') /\ (how = "done" => kernel' = Bares(existing))
  PROVE  IntervalsInv'
<1>1. /\ pc' = "idle" /\ outcome' = how /\ given' = <<>> /\ pos' = 1 /\ batch' = <<>> /\ script' = FALSE
      /\ automerge' = automerge
      /\ \/ how = "done" /\ existing' = existing /\ fetched' = fetched
         \/ existing' = <<>> /\ fetched' = FALSE
  BY DEF Return
<1>2. Commands' \in Seq(Command) /\ Len(Commands') \in Nat
  <2>1. <<>> \in Seq(Command) /\ Commands' = Collapse(<<>>)
    BY <1>1 DEF Commands
  <2>2. StandsFor(Commands', <<>>)
    BY <2>1, CollapseFacts
  <2> HIDE DEF Commands
  <2> QED BY <2>2 DEF StandsFor
<1>3. <<>> \in Seq(Elem) /\ AllKernel(<<>>) /\ Pairs(ScatR, <<>>)
  BY SmallSets DEF AllKernel
<1>4. existing' \in Seq(Elem) /\ AllKernel(existing') /\ fetched' \in BOOLEAN
  BY <1>1, <1>3 DEF IntervalsInv, Typed
<1>5. Typed'
  <2> HIDE DEF Commands
  <2>1. given' \in Seq(Command) /\ batch' \in Seq(Messages)
    BY <1>1
  <2>2. automerge' \in BOOLEAN
    BY <1>1 DEF IntervalsInv, Typed
  <2>3. pos' \in Nat /\ 1 <= pos' /\ pos' <= Len(Commands') + 1
    BY <1>1, <1>2
  <2>4. pc' \in {"idle", "eval", "send"} /\ script' \in BOOLEAN
        /\ outcome' \in {"none", "done", "rejected", "refused"}
        /\ (pc' = "idle" => pos' = 1 /\ batch' = <<>>) /\ (pc' = "send" => pos' > Len(Commands'))
    BY <1>1
  <2> QED BY <1>4, <2>1, <2>2, <2>3, <2>4, Zenon DEF Typed
<1>6. ASSUME automerge
      PROVE  /\ ApartSet(kernel') /\ Pairs(ScatR, existing')
             /\ fetched' => Bares(existing') = kernel'
  <2>1. Pairs(ScatR, existing)
    BY <1>6 DEF IntervalsInv, Merging
  <2> QED BY <1>1, <1>3, <1>6, <2>1
<1>7. Merging'
  BY <1>1, <1>6 DEF Merging
<1> QED BY <1>5, <1>7 DEF IntervalsInv

\* The messages as the kernel applies them.
LEMMA AppliedIs ==
  Applied = After(State(kernel), batch)
BY KernelIs DEF Applied, After, State

\* A commit makes the kernel's set the cached elements.
LEMMA CommitStep ==
  ASSUME IntervalsInv, Commit
  PROVE  IntervalsInv' /\ (automerge => kernel' = Bares(existing))
<1>1. pc = "send" /\ kernel' = Applied.elems /\ Return("done")
  BY DEF Commit
<1>2. kernel \subseteq Interval /\ batch \in Seq(Messages) /\ existing \in Seq(Elem)
  BY DEF IntervalsInv, Typed
<1>3. kernel' \subseteq Interval
  <2>1. Applied \in KernelStates
    BY <1>2, AppliedIs, AfterTyped
  <2> QED BY <1>1, <2>1 DEF KernelStates
<1>4. ASSUME automerge PROVE kernel' = Bares(existing) /\ ApartSet(kernel')
  <2>1. Applied = State(Bares(existing)) /\ Pairs(ScatR, existing)
    BY <1>1, <1>4, AppliedIs DEF IntervalsInv, Merging
  <2>2. kernel' = Bares(existing)
    BY <1>1, <2>1 DEF State
  <2> QED BY <1>2, <2>1, <2>2, ScatApart
<1>5. automerge => ApartSet(kernel') /\ ("done" = "done" => kernel' = Bares(existing))
  BY <1>4
<1> QED BY <1>1, <1>3, <1>4, <1>5, ReturnStep

\* An input that is turned down changes nothing in the kernel.
LEMMA TurnedDown ==
  ASSUME IntervalsInv, EvalError \/ Refused
  PROVE  IntervalsInv'
<1>1. kernel' = kernel
  BY DEF EvalError, Refused
<1>2. kernel' \subseteq Interval
  BY <1>1 DEF IntervalsInv, Typed
<1>3. automerge => ApartSet(kernel')
  BY <1>1 DEF IntervalsInv, Merging
<1>4. \E how \in {"rejected", "refused"} : Return(how)
  BY DEF EvalError, Refused
<1>5. PICK how \in {"rejected", "refused"} : Return(how)
  BY <1>4
<1> QED BY <1>2, <1>3, <1>5, ReturnStep

\* The last command has been evaluated, or nothing happens.
LEMMA SameStep ==
  ASSUME IntervalsInv, EvalDone \/ UNCHANGED vars
  PROVE  IntervalsInv'
<1>1. UNCHANGED <<automerge, kernel, script, given, pos, existing, fetched, batch, outcome>>
  BY DEF EvalDone, vars
<1>2. Commands' = Commands /\ Past' = Past
  BY <1>1 DEF Commands, Past
<1>3. pc' = pc \/ (pc = "eval" /\ pc' = "send" /\ pos > Len(Commands))
  BY DEF EvalDone, vars
<1> HIDE DEF Commands, Past
<1>4. Typed'
  BY <1>1, <1>2, <1>3 DEF IntervalsInv, Typed
<1>5. Merging'
  BY <1>1, <1>2, <1>3 DEF IntervalsInv, Merging
<1> QED BY <1>4, <1>5 DEF IntervalsInv

\* The invariant at the beginning.
LEMMA InitStep ==
  ASSUME Init
  PROVE  IntervalsInv
<1>1. /\ automerge \in AutoMerge /\ kernel = {} /\ pc = "idle" /\ script = FALSE /\ given = <<>> /\ pos = 1
      /\ existing = <<>> /\ fetched = FALSE /\ batch = <<>> /\ outcome = "none"
  BY DEF Init
<1>2. Commands \in Seq(Command) /\ Len(Commands) \in Nat
  <2>1. given \in Seq(Command)
    BY <1>1
  <2> QED BY <2>1, CommandsFacts
<1>3. <<>> \in Seq(Elem) /\ AllKernel(<<>>) /\ Pairs(ScatR, <<>>)
  BY SmallSets DEF AllKernel
<1>4. Typed
  <2> HIDE DEF Commands
  <2>1. given \in Seq(Command) /\ batch \in Seq(Messages) /\ kernel \subseteq Interval
    BY <1>1
  <2>2. automerge \in BOOLEAN
    BY <1>1, IntervalsAssumption
  <2>3. pos \in Nat /\ 1 <= pos /\ pos <= Len(Commands) + 1
    BY <1>1, <1>2
  <2>4. pc \in {"idle", "eval", "send"} /\ script \in BOOLEAN /\ fetched \in BOOLEAN
        /\ outcome \in {"none", "done", "rejected", "refused"}
        /\ (pc = "idle" => pos = 1 /\ batch = <<>>) /\ (pc = "send" => pos > Len(Commands))
    BY <1>1
  <2>5. existing \in Seq(Elem) /\ AllKernel(existing)
    BY <1>1, <1>3
  <2> QED BY <2>1, <2>2, <2>3, <2>4, <2>5, Zenon DEF Typed
<1>5. ApartSet({})
  BY DEF ApartSet
<1>6. Merging
  BY <1>1, <1>3, <1>5 DEF Merging
<1> QED BY <1>4, <1>6 DEF IntervalsInv

\* Every step keeps the invariant, where additions find the cached elements in order.
LEMMA NextStep ==
  ASSUME IntervalsInv, AddsInOrder, [Next]_vars
  PROVE  IntervalsInv'
<1>1. ASSUME NEW in \in Input, Begin(in, FALSE) PROVE IntervalsInv'
  BY <1>1, BeginStep
<1>2. ASSUME NEW in \in Script, Begin(in, TRUE) PROVE IntervalsInv'
  BY <1>2, BeginStep
<1>3. ASSUME EvalAddMerge PROVE IntervalsInv'
  BY <1>3, AddStep
<1>4. ASSUME EvalAddOverlap PROVE IntervalsInv'
  BY <1>4, OverlapStep
<1>5. ASSUME EvalDelete PROVE IntervalsInv'
  BY <1>5, DeleteStepOf
<1>6. ASSUME EvalFlush PROVE IntervalsInv'
  BY <1>6, FlushStep
<1>7. ASSUME EvalError \/ Refused PROVE IntervalsInv'
  BY <1>7, TurnedDown
<1>8. ASSUME EvalDone \/ UNCHANGED vars PROVE IntervalsInv'
  BY <1>8, SameStep
<1>9. ASSUME Commit PROVE IntervalsInv'
  BY <1>9, CommitStep
<1> QED BY <1>1, <1>2, <1>3, <1>4, <1>5, <1>6, <1>7, <1>8, <1>9 DEF Next

\* The invariant holds as long as list_splice_sorted() finds the cached elements in
\* order; without auto-merge it says what the variables contain.
THEOREM Invariant == Spec /\ []AddsInOrder => []IntervalsInv
<1>1. Init => IntervalsInv
  BY InitStep
<1>2. IntervalsInv /\ AddsInOrder /\ [Next]_vars => IntervalsInv'
  BY NextStep
<1> QED BY <1>1, <1>2, PTL DEF Spec

-----------------------------------------------------------------------------
(* The properties. *)

\* The invariant has the types in it, and what the cached elements are said to be.
LEMMA Consequences ==
  ASSUME IntervalsInv
  PROVE  /\ TypeOK /\ FullyMerged
         /\ automerge = TRUE => CacheFollowsSet /\ KernelAgrees
<1>1. TypeOK
  <2>1. /\ automerge \in BOOLEAN /\ kernel \subseteq Interval /\ pc \in {"idle", "eval", "send"} /\ script \in BOOLEAN
        /\ fetched \in BOOLEAN /\ outcome \in {"none", "done", "rejected", "refused"}
    BY DEF IntervalsInv, Typed
  <2>2. pos \in 1..(Len(given) + 1)
    <3>1. Len(Commands) <= Len(given) /\ Len(Commands) \in Nat /\ Len(given) \in Nat
      BY CommandsFacts DEF IntervalsInv, Typed
    <3>2. pos \in Nat /\ 1 <= pos /\ pos <= Len(Commands) + 1
      BY DEF IntervalsInv, Typed
    <3> HIDE DEF Commands
    <3> QED BY <3>1, <3>2
  <2>3. \A i \in DOMAIN existing : Bare(existing[i]) \in Interval /\ existing[i].k
    <3>1. existing \in Seq(Elem) /\ AllKernel(existing)
      BY DEF IntervalsInv, Typed
    <3>2. \A i \in DOMAIN existing : existing[i] \in Elem /\ existing[i] \in ToSet(existing)
      BY <3>1, SeqMembers
    <3>3. \A e \in Elem : Bare(e) \in Interval
      BY ElemIs
    <3> QED BY <3>1, <3>2, <3>3 DEF AllKernel
  <2> QED BY <2>1, <2>2, <2>3, Zenon DEF TypeOK
<1>2. FullyMerged
  <2> SUFFICES ASSUME automerge, NEW a \in kernel, NEW b \in kernel PROVE a.r + 1 # b.l
    BY DEF FullyMerged
  <2>1. a \in Interval /\ b \in Interval /\ ApartSet(kernel)
    BY DEF IntervalsInv, Typed, Merging
  <2>2. /\ a.l \in Int /\ a.r \in Int /\ a.l <= a.r
        /\ b.l \in Int /\ b.r \in Int /\ b.l <= b.r
    BY <2>1, IntervalsAssumption DEF Interval
  <2>3. a # b => a.r + 1 < b.l \/ b.r + 1 < a.l
    BY <2>1 DEF ApartSet
  <2> QED BY <2>2, <2>3
<1>3. automerge = TRUE => CacheFollowsSet
  BY DEF IntervalsInv, Merging, CacheFollowsSet
<1>4. automerge = TRUE => KernelAgrees
  <2> SUFFICES ASSUME automerge = TRUE, pc = "send" PROVE Applied.ok
    BY DEF KernelAgrees
  <2>1. Applied = State(Bares(existing))
    BY AppliedIs DEF IntervalsInv, Merging
  <2> QED BY <2>1 DEF State
<1> QED BY <1>1, <1>2, <1>3, <1>4

\* Whether elements are merged does not change.
LEMMA AutomergeKept ==
  ASSUME automerge = TRUE, [Next]_vars
  PROVE  automerge' = TRUE
BY DEF Next, vars, Begin, EvalAddMerge, EvalAddOverlap, EvalDelete, EvalFlush, EvalError, EvalDone, Commit, Refused,
  Return, Evaluated

\* A committed input leaves the keys that its commands mean.
LEMMA CommitMeans ==
  ASSUME IntervalsInv, automerge = TRUE, [Next]_vars, pc = "send", outcome' = "done", ~UNCHANGED vars
  PROVE  Wanted(given).ok /\ Keys(kernel') = Wanted(given).keys
<1>1. Commit
  BY DEF Next, Begin, EvalAddMerge, EvalAddOverlap, EvalDelete, EvalFlush, EvalError, EvalDone, Refused,
    Return, Evaluating
<1>2. kernel' = Bares(existing)
  BY <1>1, CommitStep
<1> DEFINE st == KeyState(Keys(kernel))
<1>3. st \in KeyStates
  BY KeyStateTyped
<1>4. Past = Commands
  <2>1. Commands \in Seq(Command) /\ pos \in Nat /\ pos <= Len(Commands) + 1 /\ pos > Len(Commands)
        /\ Len(Commands) \in Nat
    BY CommandsFacts DEF IntervalsInv, Typed
  <2> HIDE DEF Commands
  <2>2. pos - 1 = Len(Commands)
    BY <2>1
  <2>3. SubSeq(Commands, 1, Len(Commands)) = Commands
    BY <2>1
  <2> QED BY <2>2, <2>3, Zenon DEF Past
<1>5. Means(st, Past) = KeyState(Keys(Bares(existing)))
  BY DEF IntervalsInv, Merging
<1>6. Means(st, Commands) = Means(st, given)
  BY <1>3, CommandsFacts DEF IntervalsInv, Typed
<1>7. Wanted(given) = Means(st, given)
  BY WantedIs
<1> HIDE DEF st
<1>8. Wanted(given) = KeyState(Keys(kernel'))
  BY <1>2, <1>4, <1>5, <1>6, <1>7, Zenon
<1> QED BY <1>8 DEF KeyState

\* An input is rejected when the command deletes a key that is not there.
LEMMA RejectMeans ==
  ASSUME IntervalsInv, automerge = TRUE, [Next]_vars, outcome = "none", outcome' = "rejected"
  PROVE  ~Wanted(SubSeq(Commands, 1, pos)).ok
<1>1. EvalError
  BY DEF Next, vars, Begin, EvalAddMerge, EvalAddOverlap, EvalDelete, EvalFlush, EvalDone, Refused, Commit,
    Return, Evaluated
<1>2. Evaluating("delete") /\ ~Deleted(Elems).ok /\ pc = "eval" /\ pos <= Len(Commands)
  BY <1>1 DEF EvalError, Evaluating
<1> DEFINE st == KeyState(Keys(kernel))
           now == KeyState(Keys(Bares(existing)))
           c == Commands[pos]
           q == SubSeq(Commands, 1, pos)
<1>3. ~MeaningMerge(now, c).ok
  BY <1>2, DeletedFacts
<1>4. Means(st, Past) = now
  BY <1>2 DEF IntervalsInv, Merging
<1>5. st \in KeyStates
  BY KeyStateTyped
<1>6. Past \in Seq(Command) /\ c \in Command /\ IsAppend(q, Past, c)
  BY <1>2, PastNext DEF IntervalsInv, Typed
<1>7. Wanted(q) = Means(st, q)
  BY WantedIs
<1> HIDE DEF st, now, c, q
<1>8. Means(st, q) = MeaningMerge(now, c)
  BY <1>4, <1>5, <1>6, MeansFacts
<1> QED BY <1>3, <1>7, <1>8 DEF q

\* The variables keep their types, whatever is merged, split and sent, with and
\* without auto-merge.
THEOREM TypeCorrect == Spec /\ []AddsInOrder => []TypeOK
<1>1. IntervalsInv => TypeOK
  BY Consequences
<1> QED BY <1>1, Invariant, PTL

\* With auto-merge, no two intervals of the set overlap or touch: setelem_automerge()
\* leaves none that it should have merged.
THEOREM MergeComplete == Spec /\ []AddsInOrder => []FullyMerged
<1>1. IntervalsInv => FullyMerged
  BY Consequences
<1> QED BY <1>1, Invariant, PTL

\* With auto-merge, the messages that are computed from the cached elements are ones
\* the kernel applies, whatever the keys and the commands.
THEOREM MergeAgrees == (automerge = TRUE) /\ Spec /\ []AddsInOrder => []KernelAgrees
<1>1. IntervalsInv /\ automerge = TRUE => KernelAgrees
  BY Consequences
<1>2. automerge = TRUE /\ [Next]_vars => (automerge = TRUE)'
  BY AutomergeKept
<1> QED BY <1>1, <1>2, Invariant, PTL DEF Spec

\* With auto-merge, the cached elements that the next input reuses are the kernel's.
THEOREM CacheCorrect == (automerge = TRUE) /\ Spec /\ []AddsInOrder => []CacheFollowsSet
<1>1. IntervalsInv /\ automerge = TRUE => CacheFollowsSet
  BY Consequences
<1>2. automerge = TRUE /\ [Next]_vars => (automerge = TRUE)'
  BY AutomergeKept
<1> QED BY <1>1, <1>2, Invariant, PTL DEF Spec

\* With auto-merge, a committed input leaves in the set exactly the keys that its
\* commands mean in their order, and an input is rejected only if a command deletes
\* a key that is not in the set by then.
THEOREM MergeDescribed ==
  (automerge = TRUE) /\ Spec /\ []AddsInOrder => SetAsDescribed /\ RejectsRightly
<1>1. IntervalsInv /\ automerge = TRUE /\ [Next]_vars
        => [pc = "send" /\ outcome' = "done" =>
             LET wanted == Wanted(given)
             IN /\ wanted.ok
                /\ IF automerge THEN Keys(kernel') = wanted.keys
                                ELSE kernel' = wanted.elems]_vars
  BY CommitMeans
<1>2. IntervalsInv /\ automerge = TRUE /\ [Next]_vars
        => [outcome = "none" /\ outcome' = "rejected" => ~Wanted(SubSeq(Commands, 1, pos)).ok]_vars
  BY RejectMeans
<1>3. automerge = TRUE /\ [Next]_vars => (automerge = TRUE)'
  BY AutomergeKept
<1> QED BY <1>1, <1>2, <1>3, Invariant, PTL DEF Spec, SetAsDescribed, RejectsRightly

-----------------------------------------------------------------------------
(* Inputs that never add to a list that a deletion has left out of order.  *)

\* From command p on, a flush comes before the first addition.
FlushFirst(cmds, p) ==
  \A j \in p..Len(cmds) : cmds[j].op = "add" => \E k \in p..(j - 1) : cmds[k].op = "flush"

DeletesLast(cmds) ==
  \A i \in 1..Len(cmds) : cmds[i].op = "delete" => FlushFirst(cmds, i + 1)

\* No addition follows a deletion of the same input, nor one of an earlier input of
\* a context that is kept, without a flush in between.
InputsInOrder ==
  /\ \A in \in Input \cup Script : DeletesLast(Collapse(in))
  /\ \A in \in Input : FlushFirst(Collapse(in), 1)

\* The cached elements are in order until the next flush, if an addition comes
\* before it.
OrderInv ==
  pc = "eval" => DeletesLast(Commands) /\ (Sorted(existing) \/ FlushFirst(Commands, pos))

\* The next command is behind the flush, or is not an addition.
LEMMA FlushFirstStep ==
  ASSUME Commands \in Seq(Command), pos \in Nat, 1 <= pos, pos <= Len(Commands), FlushFirst(Commands, pos)
  PROVE  /\ Commands[pos].op # "add"
         /\ Commands[pos].op # "flush" => FlushFirst(Commands, pos + 1)
<1> DEFINE cmds == Commands
<1>1. cmds \in Seq(Command) /\ Len(cmds) \in Nat /\ pos <= Len(cmds)
  OBVIOUS
<1> HIDE DEF cmds
<1>2. \A j \in pos..Len(cmds) : cmds[j].op = "add" => \E k \in pos..(j - 1) : cmds[k].op = "flush"
  BY DEF FlushFirst, cmds
<1>3. cmds[pos].op # "add"
  <2>1. pos \in pos..Len(cmds) /\ \A k : k \notin pos..(pos - 1)
    BY <1>1
  <2> QED BY <1>2, <2>1
<1>4. ASSUME cmds[pos].op # "flush" PROVE FlushFirst(cmds, pos + 1)
  <2> SUFFICES ASSUME NEW j \in (pos + 1)..Len(cmds), cmds[j].op = "add"
               PROVE  \E k \in (pos + 1)..(j - 1) : cmds[k].op = "flush"
    BY DEF FlushFirst
  <2>1. j \in pos..Len(cmds)
    BY <1>1
  <2>2. PICK k \in pos..(j - 1) : cmds[k].op = "flush"
    BY <1>2, <2>1
  <2>3. k # pos /\ k \in Int
    BY <1>4, <2>2
  <2>4. k \in (pos + 1)..(j - 1)
    BY <2>2, <2>3
  <2> QED BY <2>2, <2>4
<1> QED BY <1>3, <1>4 DEF cmds

\* An addition leaves the cached elements in order.
LEMMA AddKeepsOrder ==
  ASSUME IntervalsInv, AddsInOrder, EvalAddMerge \/ EvalAddOverlap
  PROVE  Sorted(existing')
<1> DEFINE init == Elems
           list == SetSortSplice(init)
           m == Merged(list)
<1>1. Evaluating("add")
  BY DEF EvalAddMerge, EvalAddOverlap
<1>2. init \in Seq(Elem) /\ AllNew(init) /\ existing \in Seq(Elem) /\ AllKernel(existing)
  BY <1>1, ElemsFacts DEF IntervalsInv, Typed
<1>3. Sorted(existing)
  BY <1>1, <1>2, OrderIs DEF AddsInOrder
<1> HIDE DEF init
<1>4. ASSUME NEW t \in Seq(Elem), Sorted(t) PROVE Sorted(Each(InKernel, t))
  <2> DEFINE u == Each(InKernel, t)
  <2>1. u \in Seq(Elem) /\ DOMAIN u = DOMAIN t /\ \A i \in DOMAIN t : u[i].l = t[i].l
    BY EachInKernel
  <2> HIDE DEF u
  <2>2. \A i, j \in DOMAIN t : i < j => t[i].l <= t[j].l
    BY <1>4, OrderIs
  <2>3. Sorted(u)
    BY <2>1, <2>2, OrderIs
  <2> QED BY <2>3 DEF u
<1>5. CASE EvalAddMerge
  <2>1. automerge = TRUE /\ SetAutomerge(init)
    BY <1>5 DEF EvalAddMerge, IntervalsInv, Typed, init
  <2>2. Pairs(ScatR, existing)
    BY <2>1 DEF IntervalsInv, Merging
  <2>3. m.kept \in Seq(Elem) /\ Pairs(SepR, m.kept)
    BY <1>2, <1>3, <2>2, AddFact DEF SetSortSplice, IsEditOf
  <2>4. existing' = Each(InKernel, m.kept)
    BY <2>1, MergedIs DEF SetAutomerge
  <2> HIDE DEF m
  <2> QED BY <1>4, <2>3, <2>4, SepIs
<1>6. CASE EvalAddOverlap
  <2>1. existing' = Each(InKernel, list)
    BY <1>6 DEF EvalAddOverlap, SetOverlap, init
  <2>2. list \in Seq(Elem) /\ Sorted(list)
    <3> DEFINE sorted == ListExprSort(init)
    <3>1. IsSortOf({}, sorted, init)
      BY <1>2, SortFacts DEF Symmetric
    <3> HIDE DEF sorted
    <3>2. sorted \in Seq(Elem) /\ Sorted(sorted)
      BY <3>1 DEF IsSortOf
    <3>3. ListSpliceSorted(existing, sorted) \in Seq(Elem) /\ Sorted(ListSpliceSorted(existing, sorted))
      BY <1>2, <1>3, <3>2, SplicedFacts
    <3> QED BY <3>3 DEF SetSortSplice, sorted
  <2> HIDE DEF list
  <2> QED BY <1>4, <2>1, <2>2
<1> QED BY <1>5, <1>6

\* The order is there when an addition needs it.
LEMMA OrderGives ==
  ASSUME IntervalsInv, OrderInv
  PROVE  AddsInOrder
<1> SUFFICES ASSUME Evaluating("add") PROVE \A i, j \in DOMAIN existing : i < j => existing[i].l <= existing[j].l
  BY DEF AddsInOrder
<1>1. pc = "eval" /\ pos <= Len(Commands) /\ Commands[pos].op = "add"
  BY DEF Evaluating
<1>2. Commands \in Seq(Command) /\ pos \in Nat /\ 1 <= pos
  BY CommandsFacts DEF IntervalsInv, Typed
<1>3. ~FlushFirst(Commands, pos)
  BY <1>1, <1>2, FlushFirstStep
<1>4. Sorted(existing) /\ existing \in Seq(Elem)
  BY <1>1, <1>3 DEF OrderInv, IntervalsInv, Typed
<1> QED BY <1>4, OrderIs

\* Every step keeps the cached elements in order where it matters.
LEMMA OrderStep ==
  ASSUME InputsInOrder, IntervalsInv, OrderInv, [Next]_vars
  PROVE  OrderInv'
<1>1. ASSUME NEW in \in Input \cup Script, NEW s \in BOOLEAN, Begin(in, s), s \/ in \in Input
      PROVE  OrderInv'
  <2>1. Commands' = Collapse(in) /\ pos' = 1
    BY <1>1 DEF Begin, Commands, IntervalsInv, Typed
  <2>2. DeletesLast(Commands')
    BY <2>1 DEF InputsInOrder
  <2>3. CASE in \in Input
    <3>1. FlushFirst(Commands', pos')
      BY <2>1, <2>3 DEF InputsInOrder
    <3> QED BY <2>2, <3>1 DEF OrderInv
  <2>4. CASE s
    <3>1. existing' = Ascending(kernel)
      BY <1>1, <2>4 DEF Begin
    <3>2. Sorted(existing')
      BY <3>1, AscendingFacts DEF IntervalsInv, Typed
    <3> QED BY <2>2, <3>2 DEF OrderInv
  <2> QED BY <1>1, <2>3, <2>4
<1>2. ASSUME NEW op, Evaluating(op), Evaluated,
             op = "add" => Sorted(existing'),
             op = "flush" => Sorted(existing'),
             op = "delete" \/ op = "add" \/ op = "flush"
      PROVE  OrderInv'
  <2>1. Commands' = Commands /\ pos' = pos + 1 /\ pc = "eval" /\ pos <= Len(Commands) /\ Commands[pos].op = op
    BY <1>2 DEF Evaluated, Evaluating, Commands
  <2>2. Commands \in Seq(Command) /\ pos \in Nat /\ 1 <= pos /\ pos \in 1..Len(Commands)
    <3>1. Commands \in Seq(Command) /\ pos \in Nat /\ 1 <= pos
      BY CommandsFacts DEF IntervalsInv, Typed
    <3> HIDE DEF Commands
    <3> QED BY <2>1, <3>1
  <2>3. DeletesLast(Commands)
    BY <2>1 DEF OrderInv
  <2>4. op = "delete" => FlushFirst(Commands', pos')
    BY <2>1, <2>2, <2>3, Zenon DEF DeletesLast
  <2> QED BY <1>2, <2>1, <2>3, <2>4, Zenon DEF OrderInv
<1>3. ASSUME EvalAddMerge \/ EvalAddOverlap PROVE OrderInv'
  <2>1. Evaluating("add") /\ Evaluated
    BY <1>3 DEF EvalAddMerge, EvalAddOverlap
  <2>2. Sorted(existing')
    BY <1>3, OrderGives, AddKeepsOrder
  <2> QED BY <1>2, <2>1, <2>2
<1>4. ASSUME EvalDelete PROVE OrderInv'
  BY <1>2, <1>4 DEF EvalDelete
<1>5. ASSUME EvalFlush PROVE OrderInv'
  <2>1. Evaluating("flush") /\ Evaluated /\ existing' = <<>>
    BY <1>5 DEF EvalFlush
  <2>2. Sorted(existing')
    BY <2>1, SmallSets DEF Sorted
  <2> QED BY <1>2, <2>1, <2>2
<1>6. ASSUME EvalError \/ EvalDone \/ Commit \/ Refused PROVE OrderInv'
  BY <1>6 DEF EvalError, EvalDone, Commit, Refused, Return, OrderInv
<1>7. ASSUME UNCHANGED vars PROVE OrderInv'
  BY <1>7 DEF vars, OrderInv, Commands
<1>8. ASSUME NEW in \in Input, Begin(in, FALSE) PROVE OrderInv'
  BY <1>1, <1>8
<1>9. ASSUME NEW in \in Script, Begin(in, TRUE) PROVE OrderInv'
  BY <1>1, <1>9
<1> QED BY <1>3, <1>4, <1>5, <1>6, <1>7, <1>8, <1>9 DEF Next

\* With such inputs, list_splice_sorted() always finds the cached elements in order.
THEOREM InOrder ==
  ASSUME InputsInOrder
  PROVE  Spec => []AddsInOrder
<1>1. Init => IntervalsInv /\ OrderInv
  BY InitStep DEF Init, OrderInv
<1>2. IntervalsInv /\ OrderInv => AddsInOrder
  BY OrderGives
<1>3. IntervalsInv /\ OrderInv /\ [Next]_vars => IntervalsInv' /\ OrderInv'
  BY <1>2, NextStep, OrderStep
<1> QED BY <1>1, <1>2, <1>3, PTL DEF Spec

\* So, for these inputs, everything that is said of auto-merge holds.
THEOREM IntervalsCorrect ==
  ASSUME InputsInOrder
  PROVE  /\ Spec => [](TypeOK /\ FullyMerged)
         /\ (automerge = TRUE) /\ Spec =>
              [](KernelAgrees /\ CacheFollowsSet) /\ SetAsDescribed /\ RejectsRightly
<1>1. Spec => []AddsInOrder
  BY InOrder
<1> QED BY <1>1, TypeCorrect, MergeComplete, MergeAgrees, CacheCorrect, MergeDescribed, PTL
=============================================================================
