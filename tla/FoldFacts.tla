----------------------------- MODULE FoldFacts -----------------------------
(***************************************************************************)
(* What FoldLeft() computes, for every sequence: nothing of an empty one,  *)
(* and one step more of a sequence that is an element longer.  The step    *)
(* Op(p, a, x) takes the result so far and an element; p is what else it   *)
(* depends on.  A proof takes the facts about its own step with INSTANCE.  *)
(***************************************************************************)
EXTENDS SequenceFacts

CONSTANT Op(_, _, _)

Fold(p, base, s) == FoldLeft(LAMBDA a, x : Op(p, a, x), base, s)

(***************************************************************************)
(* FoldLeft() is a recursive function on sets of indices.                  *)
(***************************************************************************)
Body(p, base, s, iter, t) ==
  IF t = {} THEN base ELSE Op(p, iter[t \ {Max(t)}], s[Max(t)])

Iter(p, base, s) ==
  CHOOSE iter : iter = [t \in SUBSET (DOMAIN s) |-> Body(p, base, s, iter, t)]

IsIter(p, base, s, n, g) == g = [t \in SUBSET (1..n) |-> Body(p, base, s, g, t)]

\* FoldLeft() is the value of its recursive function for all indices.
LEMMA FoldIter ==
  ASSUME NEW p, NEW base, NEW s
  PROVE  Fold(p, base, s) = Iter(p, base, s)[DOMAIN s]
BY Zenon DEF Fold, Iter, Body, FoldLeft, MapThenFoldSet

\* The largest index of a set that holds the largest one possible.
LEMMA MaxTop ==
  ASSUME NEW m \in Nat, NEW t \in SUBSET (1..m), m \in t
  PROVE  Max(t) = m
<1>1. m \in t /\ \A y \in t : m >= y
  OBVIOUS
<1>2. \A x \in t : (\A y \in t : x >= y) => x = m
  OBVIOUS
<1> QED BY <1>1, <1>2 DEF Max

\* The function exists, by induction on the largest index.
LEMMA IterExists ==
  ASSUME NEW p, NEW base, NEW s, NEW n \in Nat
  PROVE  \E g : IsIter(p, base, s, n, g)
<1> DEFINE E == {m \in Nat : \E g : IsIter(p, base, s, m, g)}
<1>1. 0 \in E
  <2> DEFINE g == [t \in SUBSET (1..0) |-> base]
  <2>1. g = [t \in SUBSET (1..0) |-> Body(p, base, s, g, t)]
    BY DEF Body
  <2> QED BY <2>1 DEF IsIter
<1>2. ASSUME NEW m \in Nat, m \in E PROVE m + 1 \in E
  <2>1. PICK g : g = [t \in SUBSET (1..m) |-> Body(p, base, s, g, t)]
    BY <1>2 DEF IsIter
  <2> DEFINE h == [t \in SUBSET (1..(m + 1)) |->
                    IF m + 1 \in t THEN Op(p, g[t \ {m + 1}], s[m + 1]) ELSE g[t]]
  <2>2. ASSUME NEW t \in SUBSET (1..(m + 1)) PROVE h[t] = Body(p, base, s, h, t)
    <3>1. CASE m + 1 \in t
      <4>1. Max(t) = m + 1
        BY <3>1, MaxTop
      <4>2. h[t \ {m + 1}] = g[t \ {m + 1}]
        OBVIOUS
      <4>3. h[t] = Op(p, g[t \ {m + 1}], s[m + 1])
        BY <3>1
      <4> QED BY <3>1, <4>1, <4>2, <4>3 DEF Body
    <3>2. CASE m + 1 \notin t
      <4>1. t \in SUBSET (1..m)
        BY <3>2
      <4>2. h[t] = g[t]
        BY <3>2
      <4>3. g[t] = Body(p, base, s, g, t)
        BY <2>1, <4>1
      <4>4. h[t \ {Max(t)}] = g[t \ {Max(t)}]
        BY <3>2
      <4> QED BY <4>2, <4>3, <4>4 DEF Body
    <3> QED BY <3>1, <3>2
  <2>3. h = [t \in SUBSET (1..(m + 1)) |-> Body(p, base, s, h, t)]
    BY <2>2
  <2> HIDE DEF h
  <2> QED BY <2>3 DEF IsIter
<1> QED BY <1>1, <1>2, SetInduction

\* The recursive function satisfies its definition.
LEMMA IterDef ==
  ASSUME NEW p, NEW base, NEW s, NEW n \in Nat, DOMAIN s = 1..n
  PROVE  \A t \in SUBSET (1..n) :
           Iter(p, base, s)[t] = Body(p, base, s, Iter(p, base, s), t)
<1>1. PICK g : IsIter(p, base, s, n, g)
  BY IterExists
<1>2. g = [t \in SUBSET (DOMAIN s) |-> Body(p, base, s, g, t)]
  BY <1>1 DEF IsIter
<1>3. Iter(p, base, s) = [t \in SUBSET (DOMAIN s) |-> Body(p, base, s, Iter(p, base, s), t)]
  BY <1>2 DEF Iter
<1> QED BY <1>3

\* Its values on the first indices.
LEMMA IterStep ==
  ASSUME NEW p, NEW base, NEW s, NEW n \in Nat, DOMAIN s = 1..n
  PROVE  /\ Iter(p, base, s)[1..0] = base
         /\ \A m \in 0..(n - 1) :
              Iter(p, base, s)[1..(m + 1)] = Op(p, Iter(p, base, s)[1..m], s[m + 1])
<1>1. Iter(p, base, s)[1..0] = base
  BY IterDef, 1..0 = {} DEF Body
<1>2. ASSUME NEW m \in 0..(n - 1)
      PROVE  Iter(p, base, s)[1..(m + 1)] = Op(p, Iter(p, base, s)[1..m], s[m + 1])
  <2>1. Max(1..(m + 1)) = m + 1
    BY MaxTop
  <2>2. (1..(m + 1)) \ {m + 1} = 1..m
    OBVIOUS
  <2>3. 1..(m + 1) \in SUBSET (1..n)
    <3> m \in Nat /\ m + 1 <= n
      OBVIOUS
    <3> QED OBVIOUS
  <2>4. 1 \in 1..(m + 1)
    OBVIOUS
  <2> QED BY IterDef, <2>1, <2>2, <2>3, <2>4 DEF Body
<1> QED BY <1>1, <1>2

\* They depend on these indices only.
LEMMA IterPrefix ==
  ASSUME NEW p, NEW base, NEW s, NEW n \in Nat, DOMAIN s = 1..n,
         NEW t, NEW m \in Nat, DOMAIN t = 1..m, m <= n, \A i \in 1..m : t[i] = s[i]
  PROVE  Iter(p, base, s)[1..m] = Iter(p, base, t)[1..m]
<1> DEFINE E == {k \in Nat : k <= m => Iter(p, base, s)[1..k] = Iter(p, base, t)[1..k]}
<1>1. 0 \in E
  BY IterStep
<1>2. ASSUME NEW k \in Nat, k \in E PROVE k + 1 \in E
  <2> SUFFICES ASSUME k + 1 <= m
               PROVE  Iter(p, base, s)[1..(k + 1)] = Iter(p, base, t)[1..(k + 1)]
    OBVIOUS
  <2>1. k \in 0..(n - 1) /\ k \in 0..(m - 1)
    OBVIOUS
  <2>2. Iter(p, base, s)[1..k] = Iter(p, base, t)[1..k]
    BY <1>2
  <2> QED BY <2>1, <2>2, IterStep
<1> HIDE DEF E
<1>3. Nat \subseteq E
  BY <1>1, <1>2, SetInduction
<1> QED BY <1>3 DEF E

-----------------------------------------------------------------------------
\* Nothing to fold.
THEOREM FoldEmpty ==
  ASSUME NEW p, NEW base
  PROVE  Fold(p, base, <<>>) = base
BY FoldIter, IterStep, DOMAIN <<>> = 1..0

\* One element more is one step more.
THEOREM FoldAppend ==
  ASSUME NEW p, NEW base, NEW S, NEW s \in Seq(S), NEW x \in S, NEW t, IsAppend(t, s, x)
  PROVE  Fold(p, base, t) = Op(p, Fold(p, base, s), x)
<1> DEFINE n == Len(s)
<1>1. n \in Nat /\ DOMAIN s = 1..n /\ DOMAIN t = 1..(n + 1) /\ t[n + 1] = x
  BY AppendFacts
<1>2. \A i \in 1..n : s[i] = t[i]
  BY AppendFacts
<1> HIDE DEF n
<1>3. Iter(p, base, t)[1..(n + 1)] = Op(p, Iter(p, base, t)[1..n], t[n + 1])
  BY <1>1, IterStep
<1>4. Iter(p, base, t)[1..n] = Iter(p, base, s)[1..n]
  BY <1>1, <1>2, IterPrefix
<1> QED BY <1>1, <1>3, <1>4, FoldIter

\* What every step keeps, the fold has.
THEOREM FoldInvariant ==
  ASSUME NEW p, NEW S, NEW I, NEW base \in I,
         \A a \in I : \A x \in S : Op(p, a, x) \in I
  PROVE  \A s \in Seq(S) : Fold(p, base, s) \in I
<1> DEFINE T == {s \in Seq(S) : Fold(p, base, s) \in I}
<1>1. <<>> \in T
  BY FoldEmpty
<1>2. ASSUME NEW s \in Seq(S), NEW x \in S, NEW t, s \in T, IsAppend(t, s, x) PROVE t \in T
  <2>1. t \in Seq(S)
    BY <1>2, AppendFacts
  <2>2. Fold(p, base, t) = Op(p, Fold(p, base, s), x)
    BY <1>2, FoldAppend
  <2> QED BY <1>2, <2>1, <2>2
<1> HIDE DEF T
<1>3. Seq(S) \subseteq T
  BY <1>1, <1>2, SeqInductionR
<1> QED BY <1>3 DEF T

\* Two sequences, one after the other.
THEOREM FoldConcat ==
  ASSUME NEW p, NEW base, NEW S, NEW s \in Seq(S)
  PROVE  \A t \in Seq(S) : \A u : IsConcat(u, s, t) =>
           Fold(p, base, u) = Fold(p, Fold(p, base, s), t)
<1> DEFINE f == Fold(p, base, s)
           T == {t \in Seq(S) : \A u : IsConcat(u, s, t) => Fold(p, base, u) = Fold(p, f, t)}
<1> HIDE DEF f
<1>1. <<>> \in T
  <2>1. \A u : IsConcat(u, s, <<>>) => u = s
    BY ConcatFacts
  <2> QED BY <2>1, FoldEmpty DEF f
<1>2. ASSUME NEW t \in Seq(S), NEW x \in S, NEW tx, t \in T, IsAppend(tx, t, x) PROVE tx \in T
  <2>1. tx \in Seq(S)
    BY <1>2, AppendFacts
  <2>2. ASSUME NEW ux, IsConcat(ux, s, tx) PROVE Fold(p, base, ux) = Fold(p, f, tx)
    <3>1. PICK u : IsConcat(u, s, t)
      BY ConcatFacts
    <3>2. u \in Seq(S) /\ IsAppend(ux, u, x)
      BY <1>2, <2>2, <3>1, ConcatFacts
    <3>3. Fold(p, base, ux) = Op(p, Fold(p, base, u), x)
      BY <3>2, FoldAppend
    <3>4. Fold(p, f, tx) = Op(p, Fold(p, f, t), x)
      BY <1>2, FoldAppend
    <3>5. Fold(p, base, u) = Fold(p, f, t)
      BY <1>2, <3>1
    <3> QED BY <3>3, <3>4, <3>5
  <2> QED BY <2>1, <2>2
<1> HIDE DEF T
<1>3. Seq(S) \subseteq T
  BY <1>1, <1>2, SeqInductionR
<1> QED BY <1>3 DEF T, f
\* One element only.
THEOREM FoldOne ==
  ASSUME NEW p, NEW base, NEW x
  PROVE  Fold(p, base, <<x>>) = Op(p, base, x)
<1> DEFINE nil == <<>>
           s == <<x>>
           S == {x}
<1>1. nil \in Seq(S) /\ IsAppend(s, nil, x) /\ x \in S
  BY DEF IsAppend
<1> HIDE DEF nil, s, S
<1>2. Fold(p, base, s) = Op(p, Fold(p, base, nil), x)
  BY <1>1, FoldAppend
<1>3. Fold(p, base, nil) = base
  BY FoldEmpty DEF nil
<1> QED BY <1>2, <1>3 DEF s
=============================================================================
