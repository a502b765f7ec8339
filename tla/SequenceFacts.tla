--------------------------- MODULE SequenceFacts ---------------------------
(***************************************************************************)
(* Induction over numbers and sequences, and what the proofs need to know  *)
(* of sequences.  The induction principles are about sets, not predicates, *)
(* so that a first-order prover can apply them.                            *)
(***************************************************************************)
EXTENDS Naturals, Sequences, SequencesExt, WellFoundedInduction, TLAPS

\* A set with 0 and the successor of each of its numbers has all numbers: the
\* least number that is missing would have a predecessor.
THEOREM SetInduction ==
  ASSUME NEW T, 0 \in T, \A n \in Nat : n \in T => n + 1 \in T
  PROVE  Nat \subseteq T
<1> DEFINE U == Nat \ T
<1> SUFFICES ASSUME U # {} PROVE FALSE
  OBVIOUS
<1>1. PICK x \in U : \A y \in U : ~(<<y, x>> \in OpToRel(<, Nat))
  BY NatLessThanWellFounded, WFMin, U \subseteq Nat, Zenon
<1>2. x \in Nat /\ x # 0 /\ x - 1 \in Nat /\ x = (x - 1) + 1
  OBVIOUS
<1>3. x - 1 \in U
  BY <1>2
<1>4. <<x - 1, x>> \in OpToRel(<, Nat)
  BY <1>2 DEF OpToRel
<1> QED BY <1>1, <1>3, <1>4

\* A sequence that is not empty is one element appended to another sequence.
LEMMA Split ==
  ASSUME NEW S, NEW s \in Seq(S), NEW n \in Nat, Len(s) = n + 1
  PROVE  /\ SubSeq(s, 1, n) \in Seq(S) /\ Len(SubSeq(s, 1, n)) = n
         /\ s[n + 1] \in S
         /\ s = Append(SubSeq(s, 1, n), s[n + 1])
<1> DEFINE t == SubSeq(s, 1, n)
<1>1. t \in Seq(S) /\ Len(t) = n /\ s[n + 1] \in S /\ \A i \in 1..n : t[i] = s[i]
  OBVIOUS
<1>2. Append(t, s[n + 1]) \in Seq(S) /\ Len(Append(t, s[n + 1])) = n + 1
  BY <1>1
<1> HIDE DEF t
<1>3. \A i \in 1..(n + 1) : s[i] = Append(t, s[n + 1])[i]
  BY <1>1
<1>4. s = Append(t, s[n + 1])
  BY <1>2, <1>3
<1> QED BY <1>1, <1>4 DEF t

\* A set with the empty sequence and, with a sequence, each one that is an
\* element longer, has all sequences.
THEOREM SeqInduction ==
  ASSUME NEW S, NEW T, <<>> \in T,
         \A s \in Seq(S) : \A x \in S : s \in T => Append(s, x) \in T
  PROVE  Seq(S) \subseteq T
<1> DEFINE L == {n \in Nat : \A s \in Seq(S) : Len(s) = n => s \in T}
<1>1. 0 \in L
  <2> SUFFICES ASSUME NEW s \in Seq(S), Len(s) = 0 PROVE s \in T
    OBVIOUS
  <2>1. s = <<>>
    OBVIOUS
  <2> QED BY <2>1
<1>2. ASSUME NEW n \in Nat, n \in L PROVE n + 1 \in L
  <2> SUFFICES ASSUME NEW s \in Seq(S), Len(s) = n + 1 PROVE s \in T
    OBVIOUS
  <2> DEFINE t == SubSeq(s, 1, n)
  <2>1. t \in Seq(S) /\ Len(t) = n /\ s[n + 1] \in S /\ s = Append(t, s[n + 1])
    BY Split
  <2> HIDE DEF t
  <2>2. t \in T
    BY <1>2, <2>1
  <2> QED BY <2>1, <2>2
<1> HIDE DEF L
<1>3. Nat \subseteq L
  BY <1>1, <1>2, SetInduction
<1> QED BY <1>3 DEF L

-----------------------------------------------------------------------------
(***************************************************************************)
(* Append() and \\o as relations: the SMT encoding takes an equation between *)
(* sequences apart, and does not find an operator's argument in the pieces. *)
(***************************************************************************)
IsAppend(t, s, x) == t = Append(s, x)

IsConcat(u, s, t) == u = s \o t

\* What Append() gives.
LEMMA AppendFacts ==
  ASSUME NEW S, NEW s \in Seq(S), NEW x \in S
  PROVE  /\ \E t : IsAppend(t, s, x)
         /\ \A t : IsAppend(t, s, x) =>
              /\ t \in Seq(S) /\ t # <<>> /\ Len(t) = Len(s) + 1
              /\ DOMAIN s = 1..Len(s) /\ DOMAIN t = 1..(Len(s) + 1)
              /\ t[Len(s) + 1] = x
              /\ \A i \in 1..Len(s) : t[i] = s[i]
<1>1. IsAppend(Append(s, x), s, x)
  BY DEF IsAppend
<1>2. ASSUME NEW t, IsAppend(t, s, x)
      PROVE  /\ t \in Seq(S) /\ t # <<>> /\ Len(t) = Len(s) + 1
             /\ DOMAIN s = 1..Len(s) /\ DOMAIN t = 1..(Len(s) + 1)
             /\ t[Len(s) + 1] = x
             /\ \A i \in 1..Len(s) : t[i] = s[i]
  <2>1. t = Append(s, x)
    BY <1>2 DEF IsAppend
  <2>2. Len(s) \in Nat /\ DOMAIN s = 1..Len(s)
    OBVIOUS
  <2> QED BY <2>1, <2>2
<1> QED BY <1>1, <1>2, Zenon

\* What \o gives, and that it is associative with Append().
LEMMA ConcatFacts ==
  ASSUME NEW S, NEW s \in Seq(S), NEW t \in Seq(S)
  PROVE  /\ \E u : IsConcat(u, s, t)
         /\ \A u : IsConcat(u, s, t) => u \in Seq(S) /\ Len(u) = Len(s) + Len(t)
         /\ \A u : IsConcat(u, s, <<>>) => u = s
         /\ \A u : IsConcat(u, <<>>, s) => u = s
         /\ \A x \in S : \A tx, u, ux :
              IsAppend(tx, t, x) /\ IsConcat(u, s, t) /\ IsConcat(ux, s, tx) => IsAppend(ux, u, x)
<1>1. IsConcat(s \o t, s, t)
  BY DEF IsConcat
<1>2. ASSUME NEW u, IsConcat(u, s, t) PROVE u \in Seq(S) /\ Len(u) = Len(s) + Len(t)
  <2>1. u = s \o t
    BY <1>2 DEF IsConcat
  <2>2. Len(s) \in Nat /\ Len(t) \in Nat
    OBVIOUS
  <2> QED BY <2>1, <2>2
<1>3. ASSUME NEW u, IsConcat(u, s, <<>>) PROVE u = s
  BY <1>3 DEF IsConcat
<1>4. ASSUME NEW u, IsConcat(u, <<>>, s) PROVE u = s
  BY <1>4 DEF IsConcat
<1>5. ASSUME NEW x \in S, NEW tx, NEW u, NEW ux,
             IsAppend(tx, t, x), IsConcat(u, s, t), IsConcat(ux, s, tx)
      PROVE  IsAppend(ux, u, x)
  <2>1. s \o Append(t, x) = Append(s \o t, x)
    OBVIOUS
  <2>2. ux = s \o Append(t, x)
    BY <1>5, Zenon DEF IsConcat, IsAppend
  <2>3. ux = Append(s \o t, x)
    BY <2>1, <2>2, Zenon
  <2> QED BY <1>5, <2>3, Zenon DEF IsConcat, IsAppend
<1> QED BY <1>1, <1>2, <1>3, <1>4, <1>5, Zenon

\* The elements of two sequences in a row.
LEMMA ConcatElements ==
  ASSUME NEW S, NEW s \in Seq(S), NEW t \in Seq(S)
  PROVE  /\ s \o t \in Seq(S) /\ Len(s \o t) = Len(s) + Len(t)
         /\ \A i \in 1..Len(s) : (s \o t)[i] = s[i]
         /\ \A i \in (Len(s) + 1)..(Len(s) + Len(t)) : (s \o t)[i] = t[i - Len(s)]
<1>1. Len(s) \in Nat /\ Len(t) \in Nat
  OBVIOUS
<1> QED BY <1>1

\* What makes a function a sequence over a set.
LEMMA SeqBuild ==
  ASSUME NEW S, NEW n \in Nat, NEW s, s = [i \in 1..n |-> s[i]], \A i \in 1..n : s[i] \in S
  PROVE  s \in Seq(S) /\ Len(s) = n /\ DOMAIN s = 1..n
<1>1. \A t : t = [i \in 1..n |-> s[i]] => t \in Seq(S) /\ Len(t) = n /\ DOMAIN t = 1..n
  OBVIOUS
<1> QED BY <1>1, Zenon

\* A sequence all of whose elements are in Z is a sequence over Z.
LEMMA SeqSubset ==
  ASSUME NEW S, NEW Z, NEW s \in Seq(S), \A i \in DOMAIN s : s[i] \in Z
  PROVE  s \in Seq(Z)
OBVIOUS

\* SeqInduction with the relation.
LEMMA SeqInductionR ==
  ASSUME NEW S, NEW T, <<>> \in T,
         \A s \in Seq(S) : \A x \in S : \A t : s \in T /\ IsAppend(t, s, x) => t \in T
  PROVE  Seq(S) \subseteq T
<1>1. \A s \in Seq(S) : \A x \in S : s \in T => Append(s, x) \in T
  BY DEF IsAppend
<1> QED BY <1>1, SeqInduction

-----------------------------------------------------------------------------
(* The values of a function, one for each element. *)

Mapped(g, s) == [k \in DOMAIN s |-> g[s[k]]]

\* Mapping each element keeps the length, Append() and \o.
LEMMA MappedFacts ==
  ASSUME NEW S, NEW V, NEW g, \A x \in S : g[x] \in V
  PROVE  /\ Mapped(g, <<>>) = <<>>
         /\ \A s \in Seq(S) : Mapped(g, s) \in Seq(V) /\ Len(Mapped(g, s)) = Len(s)
         /\ \A s \in Seq(S) : Mapped(g, s) = <<>> => s = <<>>
         /\ \A x : Mapped(g, <<x>>) = <<g[x]>>
         /\ \A s \in Seq(S) : \A x \in S : \A t :
              IsAppend(t, s, x) => IsAppend(Mapped(g, t), Mapped(g, s), g[x])
         /\ \A s \in Seq(S) : \A t \in Seq(S) : \A u :
              IsConcat(u, s, t) => IsConcat(Mapped(g, u), Mapped(g, s), Mapped(g, t))
<1>1. Mapped(g, <<>>) = <<>> /\ \A x : Mapped(g, <<x>>) = <<g[x]>>
  BY DEF Mapped
<1>2. ASSUME NEW s \in Seq(S) PROVE Mapped(g, s) \in Seq(V) /\ Len(Mapped(g, s)) = Len(s)
  <2>1. DOMAIN s = 1..Len(s) /\ Len(s) \in Nat /\ \A k \in 1..Len(s) : s[k] \in S
    OBVIOUS
  <2> QED BY <2>1 DEF Mapped
<1>3. ASSUME NEW s \in Seq(S), NEW x \in S, NEW t, IsAppend(t, s, x)
      PROVE  IsAppend(Mapped(g, t), Mapped(g, s), g[x])
  <2>1. /\ t \in Seq(S) /\ Len(t) = Len(s) + 1 /\ t[Len(s) + 1] = x
        /\ \A i \in 1..Len(s) : t[i] = s[i]
    BY <1>3, AppendFacts
  <2>2. Len(s) \in Nat /\ DOMAIN t = 1..(Len(s) + 1) /\ DOMAIN s = 1..Len(s)
    BY <1>3, AppendFacts
  <2> DEFINE a == Append(Mapped(g, s), g[x])
  <2>3. /\ a \in Seq(V) /\ Len(a) = Len(s) + 1 /\ a[Len(s) + 1] = g[x]
        /\ \A i \in 1..Len(s) : a[i] = g[s[i]]
    <3>1. /\ Mapped(g, s) \in Seq(V) /\ Len(Mapped(g, s)) = Len(s)
          /\ \A i \in 1..Len(s) : Mapped(g, s)[i] = g[s[i]]
      BY <1>2, <2>2 DEF Mapped
    <3> HIDE DEF Mapped
    <3> QED BY <2>2, <3>1
  <2>4. /\ Mapped(g, t) \in Seq(V) /\ Len(Mapped(g, t)) = Len(s) + 1
        /\ \A i \in 1..(Len(s) + 1) : Mapped(g, t)[i] = g[t[i]]
    BY <1>2, <2>1, <2>2 DEF Mapped
  <2> HIDE DEF a
  <2>5. \A i \in 1..(Len(s) + 1) : Mapped(g, t)[i] = a[i]
    BY <2>1, <2>2, <2>3, <2>4
  <2>6. Mapped(g, t) = a
    BY <2>2, <2>3, <2>4, <2>5
  <2> QED BY <2>6, Zenon DEF IsAppend, a
<1>4. ASSUME NEW s \in Seq(S), NEW t \in Seq(S), NEW u, IsConcat(u, s, t)
      PROVE  IsConcat(Mapped(g, u), Mapped(g, s), Mapped(g, t))
  <2>1. u = s \o t /\ Len(s) \in Nat /\ Len(t) \in Nat
    BY <1>4 DEF IsConcat
  <2>2. /\ u \in Seq(S) /\ Len(u) = Len(s) + Len(t)
        /\ \A i \in 1..Len(s) : u[i] = s[i]
        /\ \A i \in (Len(s) + 1)..(Len(s) + Len(t)) : u[i] = t[i - Len(s)]
    BY <2>1
  <2>3. DOMAIN u = 1..Len(u) /\ DOMAIN s = 1..Len(s) /\ DOMAIN t = 1..Len(t)
    BY <2>2
  <2> DEFINE a == Mapped(g, s) \o Mapped(g, t)
  <2>4. /\ Mapped(g, s) \in Seq(V) /\ Len(Mapped(g, s)) = Len(s)
        /\ Mapped(g, t) \in Seq(V) /\ Len(Mapped(g, t)) = Len(t)
        /\ Mapped(g, u) \in Seq(V) /\ Len(Mapped(g, u)) = Len(s) + Len(t)
    BY <1>2, <2>2
  <2>5. /\ \A i \in 1..Len(s) : Mapped(g, s)[i] = g[s[i]]
        /\ \A i \in 1..Len(t) : Mapped(g, t)[i] = g[t[i]]
        /\ \A i \in 1..Len(u) : Mapped(g, u)[i] = g[u[i]]
    BY <2>3 DEF Mapped
  <2>6. /\ a \in Seq(V) /\ Len(a) = Len(s) + Len(t)
        /\ \A i \in 1..Len(s) : a[i] = Mapped(g, s)[i]
        /\ \A i \in (Len(s) + 1)..(Len(s) + Len(t)) : a[i] = Mapped(g, t)[i - Len(s)]
    <3> HIDE DEF Mapped
    <3>1. \A v, w \in Seq(V) : Len(v) = Len(s) /\ Len(w) = Len(t) =>
            /\ v \o w \in Seq(V) /\ Len(v \o w) = Len(s) + Len(t)
            /\ \A i \in 1..Len(s) : (v \o w)[i] = v[i]
            /\ \A i \in (Len(s) + 1)..(Len(s) + Len(t)) : (v \o w)[i] = w[i - Len(s)]
      <4> TAKE v, w \in Seq(V)
      <4> HAVE Len(v) = Len(s) /\ Len(w) = Len(t)
      <4>1. /\ v \o w \in Seq(V) /\ Len(v \o w) = Len(v) + Len(w)
            /\ \A i \in 1..Len(v) : (v \o w)[i] = v[i]
            /\ \A i \in (Len(v) + 1)..(Len(v) + Len(w)) : (v \o w)[i] = w[i - Len(v)]
        BY ConcatElements, Zenon
      <4> QED BY <4>1
    <3> QED BY <2>4, <3>1
  <2> HIDE DEF a
  <2>7. \A i \in 1..(Len(s) + Len(t)) : Mapped(g, u)[i] = a[i]
    <3> TAKE i \in 1..(Len(s) + Len(t))
    <3>0. i \in 1..Len(u)
      BY <2>2
    <3>1. CASE i <= Len(s)
      <4>1. i \in 1..Len(s)
        BY <2>1, <3>1
      <4>2. Mapped(g, u)[i] = g[u[i]] /\ u[i] = s[i]
        BY <2>2, <2>5, <3>0, <4>1
      <4>3. a[i] = Mapped(g, s)[i] /\ Mapped(g, s)[i] = g[s[i]]
        BY <2>5, <2>6, <4>1
      <4> QED BY <4>2, <4>3
    <3>2. CASE i > Len(s)
      <4>1. i \in (Len(s) + 1)..(Len(s) + Len(t)) /\ i - Len(s) \in 1..Len(t)
        BY <2>1, <3>2
      <4> QED BY <2>2, <2>5, <2>6, <3>0, <4>1
    <3> QED BY <2>1, <3>1, <3>2
  <2>8. Mapped(g, u) = a
    BY <2>1, <2>4, <2>6, <2>7
  <2> QED BY <2>8, Zenon DEF IsConcat, a
<1>5. ASSUME NEW s \in Seq(S), Mapped(g, s) = <<>> PROVE s = <<>>
  <2>1. Len(Mapped(g, s)) = Len(s)
    BY <1>2
  <2> QED BY <1>5, <2>1
<1> QED BY <1>1, <1>2, <1>3, <1>4, <1>5, Zenon

\* The last element comes first.
LEMMA ReverseFacts ==
  ASSUME NEW S, NEW s \in Seq(S)
  PROVE  /\ Reverse(<<>>) = <<>>
         /\ Reverse(s) \in Seq(S)
         /\ \A x \in S : \A t : IsAppend(t, s, x) => IsConcat(Reverse(t), <<x>>, Reverse(s))
<1>1. Reverse(<<>>) = <<>>
  BY DEF Reverse
<1>2. \A t \in Seq(S) : /\ Reverse(t) \in Seq(S) /\ Len(Reverse(t)) = Len(t)
                        /\ \A i \in 1..Len(t) : Reverse(t)[i] = t[(Len(t) - i) + 1]
  BY DEF Reverse
<1>3. ASSUME NEW x \in S, NEW t, IsAppend(t, s, x) PROVE IsConcat(Reverse(t), <<x>>, Reverse(s))
  <2> DEFINE n == Len(s)
             a == <<x>> \o Reverse(s)
  <2>1. t \in Seq(S) /\ Len(t) = n + 1 /\ t[n + 1] = x /\ \A i \in 1..n : t[i] = s[i]
    BY <1>3, AppendFacts
  <2>2. n \in Nat
    OBVIOUS
  <2>3. <<x>> \in Seq(S) /\ Len(<<x>>) = 1 /\ <<x>>[1] = x
    OBVIOUS
  <2>4. \A v, w \in Seq(S) : Len(v) = 1 /\ Len(w) = n =>
          /\ v \o w \in Seq(S) /\ Len(v \o w) = n + 1
          /\ (v \o w)[1] = v[1]
          /\ \A i \in 2..(n + 1) : (v \o w)[i] = w[i - 1]
    <3> HIDE DEF n, a
    <3> TAKE v, w \in Seq(S)
    <3> HAVE Len(v) = 1 /\ Len(w) = n
    <3>1. /\ v \o w \in Seq(S) /\ Len(v \o w) = Len(v) + Len(w)
          /\ \A i \in 1..Len(v) : (v \o w)[i] = v[i]
          /\ \A i \in (Len(v) + 1)..(Len(v) + Len(w)) : (v \o w)[i] = w[i - Len(v)]
      BY ConcatElements, Zenon
    <3> QED BY <2>2, <3>1
  <2>5. /\ a \in Seq(S) /\ Len(a) = n + 1 /\ a[1] = x
        /\ \A i \in 2..(n + 1) : a[i] = Reverse(s)[i - 1]
    BY <1>2, <2>3, <2>4
  <2>6. Reverse(t) \in Seq(S) /\ Len(Reverse(t)) = n + 1
    BY <1>2, <2>1
  <2> HIDE DEF a, n
  <2>7. \A i \in 1..(n + 1) : Reverse(t)[i] = a[i]
    <3> TAKE i \in 1..(n + 1)
    <3>1. Reverse(t)[i] = t[((n + 1) - i) + 1]
      BY <1>2, <2>1
    <3>2. CASE i = 1
      <4>1. ((n + 1) - i) + 1 = n + 1
        BY <2>2, <3>2
      <4> QED BY <2>1, <2>5, <3>1, <3>2, <4>1
    <3>3. CASE i # 1
      <4>1. i - 1 \in 1..n /\ i \in 2..(n + 1) /\ ((n + 1) - i) + 1 = (n - (i - 1)) + 1 /\ (n - (i - 1)) + 1 \in 1..n
        BY <2>2, <3>3
      <4>2. Reverse(s)[i - 1] = s[(n - (i - 1)) + 1]
        BY <1>2, <4>1 DEF n
      <4> QED BY <2>1, <2>5, <3>1, <4>1, <4>2
    <3> QED BY <3>2, <3>3
  <2>8. Reverse(t) = a
    BY <2>2, <2>5, <2>6, <2>7
  <2> QED BY <2>8, Zenon DEF IsConcat, a
<1>4. Reverse(s) \in Seq(S)
  BY <1>2
<1> QED BY <1>1, <1>3, <1>4, Zenon

-----------------------------------------------------------------------------
(* FlattenSeq() is defined by a recursive function on the indices; it      *)
(* exists, and two sequences have the same one as far as they agree.       *)

FlattenBody(ss, f, i) == IF i = 1 THEN ss[i] ELSE f[i - 1] \o ss[i]

IsFlatten(ss, n, f) == f = [i \in 1..n |-> FlattenBody(ss, f, i)]

Flattened(ss) == CHOOSE f : f = [i \in 1..Len(ss) |-> FlattenBody(ss, f, i)]

\* The recursive function of FlattenSeq() exists, by induction on its domain.
LEMMA FlattenExists ==
  ASSUME NEW ss, NEW n \in Nat
  PROVE  \E f : IsFlatten(ss, n, f)
<1> DEFINE E == {m \in Nat : \E f : IsFlatten(ss, m, f)}
<1>1. 0 \in E
  <2>1. IsFlatten(ss, 0, [i \in 1..0 |-> 0])
    BY DEF IsFlatten
  <2> QED BY <2>1
<1>2. ASSUME NEW m \in Nat, m \in E PROVE m + 1 \in E
  <2>1. PICK f : IsFlatten(ss, m, f)
    BY <1>2
  <2>2. f = [i \in 1..m |-> FlattenBody(ss, f, i)]
    BY <2>1 DEF IsFlatten
  <2> DEFINE g == [i \in 1..(m + 1) |-> IF i = m + 1 THEN FlattenBody(ss, f, m + 1) ELSE f[i]]
  <2>3. ASSUME NEW i \in 1..(m + 1) PROVE g[i] = FlattenBody(ss, g, i)
    <3>1. i # 1 => i - 1 \in 1..(m + 1) /\ i - 1 # m + 1 /\ g[i - 1] = f[i - 1]
      OBVIOUS
    <3>2. CASE i = m + 1
      BY <3>1, <3>2 DEF FlattenBody
    <3>3. CASE i # m + 1
      <4>1. i \in 1..m /\ g[i] = f[i]
        BY <3>3
      <4>2. f[i] = FlattenBody(ss, f, i)
        BY <2>2, <4>1
      <4> QED BY <3>1, <4>1, <4>2 DEF FlattenBody
    <3> QED BY <3>2, <3>3
  <2>4. g = [i \in 1..(m + 1) |-> FlattenBody(ss, g, i)]
    BY <2>3
  <2> HIDE DEF g
  <2>5. IsFlatten(ss, m + 1, g)
    BY <2>4 DEF IsFlatten
  <2> QED BY <2>5
<1> HIDE DEF E
<1>3. Nat \subseteq E
  BY <1>1, <1>2, SetInduction
<1> QED BY <1>3 DEF E

\* It satisfies its definition.
LEMMA FlattenedDef ==
  ASSUME NEW ss, Len(ss) \in Nat
  PROVE  \A i \in 1..Len(ss) : Flattened(ss)[i] = FlattenBody(ss, Flattened(ss), i)
<1>1. PICK f : IsFlatten(ss, Len(ss), f)
  BY FlattenExists
<1>2. f = [i \in 1..Len(ss) |-> FlattenBody(ss, f, i)]
  BY <1>1 DEF IsFlatten
<1>3. Flattened(ss) = [i \in 1..Len(ss) |-> FlattenBody(ss, Flattened(ss), i)]
  BY <1>2 DEF Flattened
<1> QED BY <1>3

\* FlattenSeq() is its last value.
LEMMA FlattenSeqIs ==
  ASSUME NEW ss
  PROVE  FlattenSeq(ss) = IF Len(ss) = 0 THEN ss ELSE Flattened(ss)[Len(ss)]
BY DEF FlattenSeq, Flattened, FlattenBody

\* Its first values depend on the first sequences only.
LEMMA FlattenedPrefix ==
  ASSUME NEW ss, Len(ss) \in Nat, NEW tt, Len(tt) \in Nat, Len(tt) <= Len(ss),
         \A i \in 1..Len(tt) : tt[i] = ss[i]
  PROVE  \A i \in 1..Len(tt) : Flattened(ss)[i] = Flattened(tt)[i]
<1> DEFINE E == {k \in Nat : k \in 1..Len(tt) => Flattened(ss)[k] = Flattened(tt)[k]}
<1>1. 0 \in E
  OBVIOUS
<1>2. ASSUME NEW k \in Nat, k \in E PROVE k + 1 \in E
  <2> SUFFICES ASSUME k + 1 \in 1..Len(tt) PROVE Flattened(ss)[k + 1] = Flattened(tt)[k + 1]
    OBVIOUS
  <2>1. /\ Flattened(ss)[k + 1] = FlattenBody(ss, Flattened(ss), k + 1)
        /\ Flattened(tt)[k + 1] = FlattenBody(tt, Flattened(tt), k + 1)
    BY FlattenedDef
  <2>2. k + 1 # 1 => Flattened(ss)[k] = Flattened(tt)[k] /\ (k + 1) - 1 = k
    BY <1>2
  <2>3. tt[k + 1] = ss[k + 1]
    OBVIOUS
  <2> QED BY <2>1, <2>2, <2>3 DEF FlattenBody
<1> HIDE DEF E
<1>3. Nat \subseteq E
  BY <1>1, <1>2, SetInduction
<1> QED BY <1>3 DEF E

\* What FlattenSeq() does with no sequence and with one sequence more.
LEMMA FlattenStep ==
  ASSUME NEW S, NEW ss \in Seq(Seq(S)), NEW t \in Seq(S), FlattenSeq(ss) \in Seq(S)
  PROVE  FlattenSeq(Append(ss, t)) = FlattenSeq(ss) \o t
<1> DEFINE uu == Append(ss, t)
           n == Len(ss)
<1>1. /\ n \in Nat /\ uu \in Seq(Seq(S)) /\ Len(uu) = n + 1 /\ uu[n + 1] = t
      /\ \A i \in 1..n : ss[i] = uu[i]
  OBVIOUS
<1> HIDE DEF uu, n
<1>2. FlattenSeq(uu) = FlattenBody(uu, Flattened(uu), n + 1)
  <2>1. Len(uu) \in Nat /\ Len(uu) # 0 /\ n + 1 \in 1..Len(uu)
    BY <1>1
  <2>2. FlattenSeq(uu) = Flattened(uu)[n + 1]
    BY <1>1, <2>1, FlattenSeqIs
  <2>3. Flattened(uu)[n + 1] = FlattenBody(uu, Flattened(uu), n + 1)
    BY <2>1, FlattenedDef
  <2> QED BY <2>2, <2>3
<1>3. CASE n = 0
  <2>1. ss = <<>> /\ FlattenSeq(ss) = <<>>
    BY <1>3, FlattenSeqIs DEF n
  <2>2. FlattenSeq(uu) = t
    BY <1>1, <1>2, <1>3 DEF FlattenBody
  <2> QED BY <2>1, <2>2 DEF uu
<1>4. CASE n # 0
  <2>1. Flattened(uu)[n] = Flattened(ss)[n]
    <3>1. Len(uu) \in Nat /\ Len(ss) \in Nat /\ Len(ss) <= Len(uu)
      BY <1>1 DEF n
    <3>2. \A i \in 1..Len(ss) : ss[i] = uu[i]
      BY <1>1 DEF n
    <3>3. \A i \in 1..Len(ss) : Flattened(uu)[i] = Flattened(ss)[i]
      BY <3>1, <3>2, FlattenedPrefix
    <3> QED BY <1>1, <1>4, <3>3 DEF n
  <2>2. FlattenSeq(ss) = Flattened(ss)[n]
    BY <1>1, <1>4, FlattenSeqIs DEF n
  <2>3. n + 1 # 1 /\ (n + 1) - 1 = n
    BY <1>1, <1>4
  <2>4. FlattenSeq(uu) = Flattened(uu)[n] \o uu[n + 1]
    BY <1>2, <2>3 DEF FlattenBody
  <2> QED BY <1>1, <2>1, <2>2, <2>4 DEF uu
<1> QED BY <1>3, <1>4

\* FlattenSeq() of nothing, of a sequence of sequences, and of one more.
THEOREM FlattenFacts ==
  ASSUME NEW S
  PROVE  /\ FlattenSeq(<<>>) = <<>>
         /\ \A ss \in Seq(Seq(S)) : FlattenSeq(ss) \in Seq(S)
         /\ \A ss \in Seq(Seq(S)), t \in Seq(S) : FlattenSeq(Append(ss, t)) = FlattenSeq(ss) \o t
<1>1. FlattenSeq(<<>>) = <<>>
  BY FlattenSeqIs
<1> DEFINE T == {ss \in Seq(Seq(S)) : FlattenSeq(ss) \in Seq(S)}
<1>2. <<>> \in T
  <2>1. <<>> \in Seq(S) /\ <<>> \in Seq(Seq(S))
    OBVIOUS
  <2> QED BY <1>1, <2>1
<1>3. ASSUME NEW ss \in Seq(Seq(S)), NEW t \in Seq(S), ss \in T PROVE Append(ss, t) \in T
  <2>1. FlattenSeq(ss) \in Seq(S) /\ Append(ss, t) \in Seq(Seq(S))
    BY <1>3
  <2>2. FlattenSeq(ss) \o t \in Seq(S)
    BY <2>1
  <2> QED BY <2>1, <2>2, FlattenStep
<1> HIDE DEF T
<1>4. Seq(Seq(S)) \subseteq T
  BY <1>2, <1>3, SeqInduction
<1>5. \A ss \in Seq(Seq(S)) : FlattenSeq(ss) \in Seq(S)
  BY <1>4 DEF T
<1> QED BY <1>1, <1>5, FlattenStep

\* Another last element.
LEMMA ReplaceLast ==
  ASSUME NEW S, NEW m \in Seq(S), NEW n \in Nat, Len(m) = n + 1, NEW x \in S, NEW k, k = n + 1
  PROVE  LET f == SubSeq(m, 1, n)
             l == [m EXCEPT ![k] = x]
         IN f \in Seq(S) /\ l \in Seq(S) /\ l # <<>> /\ m[k] \in S /\ IsAppend(m, f, m[k]) /\ IsAppend(l, f, x)
<1> DEFINE f == SubSeq(m, 1, n)
           l == [m EXCEPT ![k] = x]
<1>1. f \in Seq(S) /\ Len(f) = n /\ m = Append(f, m[k]) /\ m[k] \in S
  BY Split
<1>2. l \in Seq(S) /\ Len(l) = k /\ DOMAIN l = 1..k /\ \A j \in 1..k : l[j] = IF j = k THEN x ELSE m[j]
  BY <1>1
<1>3. Append(f, x) \in Seq(S) /\ Len(Append(f, x)) = k
  BY <1>1
<1>4. \A j \in 1..k : l[j] = Append(f, x)[j]
  <2>1. \A j \in 1..n : f[j] = m[j]
    OBVIOUS
  <2> QED BY <1>1, <1>2, <2>1
<1> HIDE DEF l, f
<1>5. l = Append(f, x)
  BY <1>2, <1>3, <1>4
<1>6. l # <<>>
  BY <1>2
<1> QED BY <1>1, <1>2, <1>5, <1>6 DEF IsAppend, l, f
=============================================================================
