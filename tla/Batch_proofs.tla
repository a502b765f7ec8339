---------------------------- MODULE Batch_proofs ----------------------------
(***************************************************************************)
(* That Batch implements AtomicInput, and that what it sends and shows is  *)
(* what the input says and the kernel refuses.  First, what may be done to *)
(* a list of commands without changing what it means: taking a command     *)
(* apart, moving its elements to a command of the same kind, putting them  *)
(* back, which leaves each command once.  Then, the messages of a command  *)
(* ask for what the command means, hold its elements in order and note     *)
(* their places; the kernel on the batch agrees with Run() on the input    *)
(* and answers to its messages only.  The inductive invariant BatchInv     *)
(* keeps, from Begin to Return, that the commands and the batch mean what  *)
(* the input says and that without doubt the answers read are the refusals *)
(* of this batch; BlameInv, on top of it, keeps whose they are.            *)
(***************************************************************************)
EXTENDS Batch, SequenceFacts, FiniteSetTheorems

Element == DOMAIN Size

\* The operations that name elements.
Changes == {"add", "create", "delete", "destroy"}

\* The command with a list of elements of its own.
With(op, set, elems) == [op |-> op, set |-> set, elems |-> elems]

\* The elements a command leaves, and whether it is acceptable, element by element.
LEMMA EffectIs ==
  ASSUME NEW r, NEW op \in Changes, NEW set, NEW elems
  PROVE  /\ \A y : y \in Atomic!Effect(r, With(op, set, elems)) <=>
              \/ op \in {"add", "create"} /\ (y \in r \/ y \in Atomic!Names(With(op, set, elems)))
              \/ op \notin {"add", "create"} /\ y \in r /\ y \notin Atomic!Names(With(op, set, elems))
         /\ Atomic!Acceptable(r, With(op, set, elems)) <=>
              /\ op \in {"create", "delete"} => IsInjective(elems)
              /\ op = "create" => \A y \in Atomic!Names(With(op, set, elems)) : y \notin r
              /\ op = "delete" => \A y \in Atomic!Names(With(op, set, elems)) : y \in r
<1>1. With(op, set, elems).op = op /\ With(op, set, elems).elems = elems
  BY DEF With
<1>2. \A y : y \in Atomic!Effect(r, With(op, set, elems)) <=>
              \/ op \in {"add", "create"} /\ (y \in r \/ y \in Atomic!Names(With(op, set, elems)))
              \/ op \notin {"add", "create"} /\ y \in r /\ y \notin Atomic!Names(With(op, set, elems))
  BY <1>1 DEF Atomic!Effect, Changes
<1>3. Atomic!Acceptable(r, With(op, set, elems)) <=>
        /\ op \in {"create", "delete"} => IsInjective(elems)
        /\ op = "create" => \A y \in Atomic!Names(With(op, set, elems)) : y \notin r
        /\ op = "delete" => \A y \in Atomic!Names(With(op, set, elems)) : y \in r
  BY <1>1 DEF Atomic!Acceptable, Atomic!IsInjective, IsInjective
<1> QED BY <1>2, <1>3, Zenon

\* The indices of a sequence that is one element longer.
LEMMA AppendIndices ==
  ASSUME NEW S, NEW s \in Seq(S), NEW x \in S, NEW t, IsAppend(t, s, x)
  PROVE  \E n : /\ \A k : k \in DOMAIN t <=> k \in DOMAIN s \/ k = n
                /\ n \notin DOMAIN s /\ t[n] = x /\ \A k \in DOMAIN s : t[k] = s[k]
<1>1. /\ DOMAIN s = 1..Len(s) /\ DOMAIN t = 1..(Len(s) + 1)
      /\ t[Len(s) + 1] = x /\ \A i \in 1..Len(s) : t[i] = s[i]
  BY AppendFacts
<1>2. Len(s) \in Nat
  OBVIOUS
<1>3. /\ \A k : k \in DOMAIN t <=> k \in DOMAIN s \/ k = Len(s) + 1
      /\ Len(s) + 1 \notin DOMAIN s
  BY <1>1, <1>2
<1> QED BY <1>1, <1>3, Zenon

\* The names of its elements.
LEMMA NamesAppend ==
  ASSUME NEW op, NEW set, NEW s \in Seq(Element), NEW x \in Element, NEW t, IsAppend(t, s, x)
  PROVE  \A y : y \in Atomic!Names(With(op, set, t)) <=>
                  y \in Atomic!Names(With(op, set, s)) \/ y = <<set, x>>
<1>1. PICK n : /\ \A k : k \in DOMAIN t <=> k \in DOMAIN s \/ k = n
               /\ n \notin DOMAIN s /\ t[n] = x /\ \A k \in DOMAIN s : t[k] = s[k]
  BY AppendIndices, Zenon
<1>2. \A y : y \in {<<set, t[k]>> : k \in DOMAIN t} <=>
               y \in {<<set, s[k]>> : k \in DOMAIN s} \/ y = <<set, x>>
  BY <1>1
<1> QED BY <1>2 DEF Atomic!Names, With

\* It has no element twice if the shorter one has not, and not the new one.
LEMMA InjectiveAppend ==
  ASSUME NEW s \in Seq(Element), NEW x \in Element, NEW t, IsAppend(t, s, x)
  PROVE  IsInjective(t) <=> IsInjective(s) /\ \A k \in DOMAIN s : s[k] # x
<1>1. PICK n : /\ \A k : k \in DOMAIN t <=> k \in DOMAIN s \/ k = n
               /\ n \notin DOMAIN s /\ t[n] = x /\ \A k \in DOMAIN s : t[k] = s[k]
  BY AppendIndices, Zenon
<1> QED BY <1>1 DEF IsInjective

\* One element more: it must be liked by what the others left.
LEMMA OneMore ==
  ASSUME NEW r, NEW op \in Changes, NEW set, NEW s \in Seq(Element), NEW x \in Element,
         NEW t, IsAppend(t, s, x)
  PROVE  /\ Atomic!Effect(r, With(op, set, t)) = Applied(op, Atomic!Effect(r, With(op, set, s)), <<set, x>>)
         /\ Atomic!Acceptable(r, With(op, set, t)) <=>
              /\ Atomic!Acceptable(r, With(op, set, s))
              /\ ~Dislikes(op, Atomic!Effect(r, With(op, set, s)), <<set, x>>)
<1> DEFINE N == Atomic!Names(With(op, set, s))
           M == Atomic!Names(With(op, set, t))
           EN == Atomic!Effect(r, With(op, set, s))
           EM == Atomic!Effect(r, With(op, set, t))
<1>1. \A y : y \in M <=> y \in N \/ y = <<set, x>>
  BY NamesAppend
<1>2. <<set, x>> \in N <=> \E k \in DOMAIN s : s[k] = x
  BY DEF Atomic!Names, With
<1>3. IsInjective(t) <=> IsInjective(s) /\ <<set, x>> \notin N
  BY <1>2, InjectiveAppend
<1>4. \A y : y \in EN <=> \/ op \in {"add", "create"} /\ (y \in r \/ y \in N)
                          \/ op \notin {"add", "create"} /\ y \in r /\ y \notin N
  BY EffectIs, Zenon
<1>5. \A y : y \in EM <=> \/ op \in {"add", "create"} /\ (y \in r \/ y \in M)
                          \/ op \notin {"add", "create"} /\ y \in r /\ y \notin M
  BY EffectIs, Zenon
<1>6. /\ Atomic!Acceptable(r, With(op, set, s)) <=>
           /\ op \in {"create", "delete"} => IsInjective(s)
           /\ op = "create" => \A y \in N : y \notin r
           /\ op = "delete" => \A y \in N : y \in r
      /\ Atomic!Acceptable(r, With(op, set, t)) <=>
           /\ op \in {"create", "delete"} => IsInjective(t)
           /\ op = "create" => \A y \in M : y \notin r
           /\ op = "delete" => \A y \in M : y \in r
  BY EffectIs, Zenon
<1>7. \A y : y \in Applied(op, EN, <<set, x>>) <=>
               \/ op \in {"add", "create"} /\ (y \in EN \/ y = <<set, x>>)
               \/ op \notin {"add", "create"} /\ y \in EN /\ y # <<set, x>>
  BY DEF Applied
<1> HIDE DEF N, M, EN, EM
<1>8. EM = Applied(op, EN, <<set, x>>)
  <2>1. \A y : y \in EM <=> y \in Applied(op, EN, <<set, x>>)
    BY <1>1, <1>4, <1>5, <1>7
  <2> QED BY <2>1 DEF EM, Atomic!Effect, Applied, With, Changes
<1>9. Atomic!Acceptable(r, With(op, set, t)) <=>
          Atomic!Acceptable(r, With(op, set, s)) /\ ~Dislikes(op, EN, <<set, x>>)
  BY <1>1, <1>3, <1>4, <1>6 DEF Dislikes, Changes
<1> QED BY <1>8, <1>9 DEF EM, EN

\* No elements, no effect.
LEMMA NoElements ==
  ASSUME NEW r, NEW op \in Changes, NEW set
  PROVE  Atomic!Acceptable(r, With(op, set, <<>>)) /\ Atomic!Effect(r, With(op, set, <<>>)) = r
<1> DEFINE c == With(op, set, <<>>)
<1>1. c.op = op /\ c.elems = <<>> /\ Atomic!Names(c) = {}
  BY DEF Atomic!Names, With
<1> HIDE DEF c
<1>2. Atomic!Effect(r, c) = r
  BY <1>1 DEF Atomic!Effect, Changes
<1>3. Atomic!Acceptable(r, c)
  BY <1>1 DEF Atomic!Acceptable, Atomic!IsInjective
<1> QED BY <1>2, <1>3 DEF c

-----------------------------------------------------------------------------
(* All commands of a list, one after the other. *)

R == INSTANCE FoldFacts WITH
  Op <- LAMBDA p, a, c : [r |-> Atomic!Effect(a.r, c), ok |-> a.ok /\ Atomic!Acceptable(a.r, c)]

After(r, s) == Atomic!Run(r, s).r

Ok(r, s) == Atomic!Run(r, s).ok

\* Run() of AtomicInput is a fold.
LEMMA RunIs ==
  ASSUME NEW r, NEW s
  PROVE  R!Fold(0, [r |-> r, ok |-> TRUE], s) = Atomic!Run(r, s)
BY Zenon DEF R!Fold, Atomic!Run, R!FoldLeft, Atomic!FoldLeft, R!MapThenFoldSet, Atomic!MapThenFoldSet, R!Max, Atomic!Max

\* No commands change nothing.
LEMMA RunEmpty ==
  ASSUME NEW r
  PROVE  After(r, <<>>) = r /\ Ok(r, <<>>)
<1>1. R!Fold(0, [r |-> r, ok |-> TRUE], <<>>) = [r |-> r, ok |-> TRUE]
  BY R!FoldEmpty, Zenon
<1>2. Atomic!Run(r, <<>>) = [r |-> r, ok |-> TRUE]
  BY <1>1, RunIs, Zenon
<1> QED BY <1>2 DEF After, Ok

\* One command more.
LEMMA RunAppend ==
  ASSUME NEW S, NEW s \in Seq(S), NEW c \in S, NEW t, IsAppend(t, s, c), NEW r
  PROVE  /\ After(r, t) = Atomic!Effect(After(r, s), c)
         /\ Ok(r, t) <=> Ok(r, s) /\ Atomic!Acceptable(After(r, s), c)
<1> DEFINE base == [r |-> r, ok |-> TRUE]
<1>1. R!IsAppend(t, s, c)
  BY DEF IsAppend, R!IsAppend
<1> HIDE DEF base
<1>2. R!Fold(0, base, t) = [r |-> Atomic!Effect(R!Fold(0, base, s).r, c),
                            ok |-> R!Fold(0, base, s).ok /\ Atomic!Acceptable(R!Fold(0, base, s).r, c)]
  BY <1>1, R!FoldAppend
<1>3. R!Fold(0, base, t) = Atomic!Run(r, t) /\ R!Fold(0, base, s) = Atomic!Run(r, s)
  BY RunIs DEF base
<1>4. Atomic!Run(r, t) = [r |-> Atomic!Effect(Atomic!Run(r, s).r, c),
                          ok |-> Atomic!Run(r, s).ok /\ Atomic!Acceptable(Atomic!Run(r, s).r, c)]
  BY <1>2, <1>3, Zenon
<1>5. \A a, b : [r |-> a, ok |-> b].r = a /\ [r |-> a, ok |-> b].ok = b
  OBVIOUS
<1> QED BY <1>4, <1>5, Zenon DEF After, Ok

\* Two lists, one after the other.
LEMMA RunConcat ==
  ASSUME NEW S, NEW s \in Seq(S), NEW r
  PROVE  \A t \in Seq(S) : \A u : IsConcat(u, s, t) =>
           /\ After(r, u) = After(After(r, s), t)
           /\ Ok(r, u) <=> Ok(r, s) /\ Ok(After(r, s), t)
<1> DEFINE q == After(r, s)
           P(t, u) == /\ After(r, u) = After(q, t)
                      /\ Ok(r, u) <=> Ok(r, s) /\ Ok(q, t)
           T == {t \in Seq(S) : \A u : IsConcat(u, s, t) => P(t, u)}
<1> HIDE DEF q
<1>1. <<>> \in T
  <2>1. \A u : IsConcat(u, s, <<>>) => u = s
    BY ConcatFacts
  <2>2. P(<<>>, s)
    BY RunEmpty DEF q
  <2> QED BY <2>1, <2>2
<1>2. ASSUME NEW t \in Seq(S), NEW x \in S, NEW tx, t \in T, IsAppend(tx, t, x) PROVE tx \in T
  <2>1. tx \in Seq(S)
    BY <1>2, AppendFacts
  <2>2. ASSUME NEW ux, IsConcat(ux, s, tx) PROVE P(tx, ux)
    <3>1. PICK u : IsConcat(u, s, t)
      BY ConcatFacts
    <3>2. u \in Seq(S) /\ IsAppend(ux, u, x)
      BY <1>2, <2>2, <3>1, ConcatFacts
    <3>3. P(t, u)
      BY <1>2, <3>1
    <3>4. /\ After(r, ux) = Atomic!Effect(After(r, u), x)
          /\ Ok(r, ux) <=> Ok(r, u) /\ Atomic!Acceptable(After(r, u), x)
      BY <3>2, RunAppend
    <3>5. /\ After(q, tx) = Atomic!Effect(After(q, t), x)
          /\ Ok(q, tx) <=> Ok(q, t) /\ Atomic!Acceptable(After(q, t), x)
      BY <1>2, RunAppend
    <3> QED BY <3>3, <3>4, <3>5
  <2> QED BY <2>1, <2>2
<1> HIDE DEF T
<1>3. Seq(S) \subseteq T
  BY <1>1, <1>2, SeqInductionR
<1> QED BY <1>3 DEF T, q

-----------------------------------------------------------------------------
(***************************************************************************)
(* Two lists mean the same if both succeed or both fail on every ruleset,  *)
(* and leave the same when they succeed.                                   *)
(***************************************************************************)
Same(s, t) == \A r : (Ok(r, s) <=> Ok(r, t)) /\ (Ok(r, s) => After(r, s) = After(r, t))

\* To mean the same is an equivalence.
LEMMA SameIsEquivalence ==
  ASSUME NEW s, NEW t, NEW u
  PROVE  Same(s, s) /\ (Same(s, t) => Same(t, s)) /\ (Same(s, t) /\ Same(t, u) => Same(s, u))
BY DEF Same

\* Parts may be replaced.
LEMMA SameConcat ==
  ASSUME NEW S, NEW s \in Seq(S), NEW t \in Seq(S), NEW u, IsConcat(u, s, t),
         NEW s1 \in Seq(S), NEW t1 \in Seq(S), NEW u1, IsConcat(u1, s1, t1),
         Same(s, s1), Same(t, t1)
  PROVE  Same(u, u1)
<1> SUFFICES ASSUME NEW r PROVE (Ok(r, u) <=> Ok(r, u1)) /\ (Ok(r, u) => After(r, u) = After(r, u1))
  BY DEF Same
<1>1. After(r, u) = After(After(r, s), t) /\ (Ok(r, u) <=> Ok(r, s) /\ Ok(After(r, s), t))
  BY RunConcat
<1>2. After(r, u1) = After(After(r, s1), t1) /\ (Ok(r, u1) <=> Ok(r, s1) /\ Ok(After(r, s1), t1))
  BY RunConcat
<1> QED BY <1>1, <1>2 DEF Same

\* One command.
One(op, set, s) == <<With(op, set, s)>>

\* One command only.
LEMMA RunOne ==
  ASSUME NEW r, NEW c
  PROVE  After(r, <<c>>) = Atomic!Effect(r, c) /\ (Ok(r, <<c>>) <=> Atomic!Acceptable(r, c))
<1>1. IsAppend(<<c>>, <<>>, c) /\ <<>> \in Seq({c})
  BY DEF IsAppend
<1>2. /\ After(r, <<c>>) = Atomic!Effect(After(r, <<>>), c)
      /\ Ok(r, <<c>>) <=> Ok(r, <<>>) /\ Atomic!Acceptable(After(r, <<>>), c)
  BY <1>1, RunAppend
<1> QED BY <1>2, RunEmpty

\* A list whose last command has one element more.
LEMMA ExtendLast ==
  ASSUME NEW op \in Changes, NEW set, NEW S, NEW f \in Seq(S),
         NEW l \in Seq(Element), NEW s \in Seq(Element), NEW x \in Element,
         NEW lx, IsAppend(lx, l, x), NEW sx, IsAppend(sx, s, x),
         With(op, set, l) \in S, With(op, set, lx) \in S,
         NEW g, IsAppend(g, f, With(op, set, l)), NEW gx, IsAppend(gx, f, With(op, set, lx)),
         Same(g, One(op, set, s))
  PROVE  Same(gx, One(op, set, sx))
<1> SUFFICES ASSUME NEW r
             PROVE  /\ Ok(r, gx) <=> Ok(r, One(op, set, sx))
                    /\ Ok(r, gx) => After(r, gx) = After(r, One(op, set, sx))
  BY DEF Same
<1> DEFINE q == After(r, f)
           c == With(op, set, l)
           cx == With(op, set, lx)
           d == With(op, set, s)
           dx == With(op, set, sx)
<1>1. After(r, g) = Atomic!Effect(q, c) /\ (Ok(r, g) <=> Ok(r, f) /\ Atomic!Acceptable(q, c))
  BY RunAppend
<1>2. After(r, gx) = Atomic!Effect(q, cx) /\ (Ok(r, gx) <=> Ok(r, f) /\ Atomic!Acceptable(q, cx))
  BY RunAppend
<1>3. /\ After(r, <<d>>) = Atomic!Effect(r, d) /\ (Ok(r, <<d>>) <=> Atomic!Acceptable(r, d))
      /\ After(r, <<dx>>) = Atomic!Effect(r, dx) /\ (Ok(r, <<dx>>) <=> Atomic!Acceptable(r, dx))
  BY RunOne
<1>4. /\ Atomic!Effect(q, cx) = Applied(op, Atomic!Effect(q, c), <<set, x>>)
      /\ Atomic!Acceptable(q, cx) <=> Atomic!Acceptable(q, c) /\ ~Dislikes(op, Atomic!Effect(q, c), <<set, x>>)
  BY OneMore, Zenon
<1>5. /\ Atomic!Effect(r, dx) = Applied(op, Atomic!Effect(r, d), <<set, x>>)
      /\ Atomic!Acceptable(r, dx) <=> Atomic!Acceptable(r, d) /\ ~Dislikes(op, Atomic!Effect(r, d), <<set, x>>)
  BY OneMore, Zenon
<1>6. /\ Ok(r, g) <=> Ok(r, <<d>>)
      /\ Ok(r, g) => After(r, g) = After(r, <<d>>)
  BY Zenon DEF Same, One
<1> HIDE DEF q, c, cx, d, dx
<1>7. /\ Ok(r, gx) <=> Ok(r, <<dx>>)
      /\ Ok(r, gx) => After(r, gx) = After(r, <<dx>>)
  BY <1>1, <1>2, <1>3, <1>4, <1>5, <1>6, Zenon
<1> QED BY <1>7, Zenon DEF One, dx
\* A command without elements may be added.
LEMMA AppendNothing ==
  ASSUME NEW op \in Changes, NEW set, NEW S, NEW f \in Seq(S), With(op, set, <<>>) \in S,
         NEW g, IsAppend(g, f, With(op, set, <<>>))
  PROVE  Same(g, f)
<1> DEFINE c == With(op, set, <<>>)
<1>1. \A q : Atomic!Acceptable(q, c) /\ Atomic!Effect(q, c) = q
  BY NoElements
<1>2. \A r : After(r, g) = Atomic!Effect(After(r, f), c) /\ (Ok(r, g) <=> Ok(r, f) /\ Atomic!Acceptable(After(r, f), c))
  BY RunAppend
<1> HIDE DEF c
<1> QED BY <1>1, <1>2 DEF Same

\* A list of elements in two parts: the second is about what the first left.
LEMMA TwoParts ==
  ASSUME NEW op \in Changes, NEW set, NEW s \in Seq(Element), NEW t \in Seq(Element),
         NEW u, IsConcat(u, s, t),
         NEW g, IsAppend(g, One(op, set, s), With(op, set, t))
  PROVE  Same(g, One(op, set, u))
<1> DEFINE S == {With(op, set, e) : e \in Seq(Element)}
           f == One(op, set, s)
           P(v, w) == \A h : IsAppend(h, f, With(op, set, v)) => Same(h, One(op, set, w))
           T == {v \in Seq(Element) : \A w : IsConcat(w, s, v) => P(v, w)}
<1>1. f \in Seq(S)
  BY DEF One
<1>2. \A e \in Seq(Element) : With(op, set, e) \in S
  OBVIOUS
<1>3. <<>> \in Seq(Element)
  OBVIOUS
<1> HIDE DEF S
<1>4. <<>> \in T
  <2>1. \A w : IsConcat(w, s, <<>>) => w = s
    BY ConcatFacts
  <2>2. P(<<>>, s)
    BY <1>1, <1>2, <1>3, AppendNothing
  <2> QED BY <1>3, <2>1, <2>2
<1> HIDE DEF f
<1>5. ASSUME NEW v \in Seq(Element), NEW x \in Element, NEW vx, v \in T, IsAppend(vx, v, x) PROVE vx \in T
  <2>1. vx \in Seq(Element)
    BY <1>5, AppendFacts
  <2>2. ASSUME NEW wx, IsConcat(wx, s, vx) PROVE P(vx, wx)
    <3>1. PICK w : IsConcat(w, s, v)
      BY ConcatFacts
    <3>2. w \in Seq(Element) /\ IsAppend(wx, w, x)
      BY <1>5, <2>2, <3>1, ConcatFacts
    <3>3. P(v, w)
      BY <1>5, <3>1
    <3>4. PICK h : IsAppend(h, f, With(op, set, v))
      BY DEF IsAppend
    <3>5. Same(h, One(op, set, w))
      BY <3>3, <3>4
    <3>6. ASSUME NEW hx, IsAppend(hx, f, With(op, set, vx)) PROVE Same(hx, One(op, set, wx))
      BY <1>1, <1>2, <1>5, <2>1, <3>2, <3>4, <3>5, <3>6, ExtendLast
    <3> QED BY <3>6
  <2> QED BY <2>1, <2>2
<1> HIDE DEF T
<1>6. Seq(Element) \subseteq T
  BY <1>4, <1>5, SeqInductionR
<1> QED BY <1>6 DEF T, f

\* Two additions to one set may be swapped.
LEMMA Swap ==
  ASSUME NEW op \in {"add", "create"}, NEW set, NEW s, NEW t, NEW r
  PROVE  LET c == With(op, set, s)
             d == With(op, set, t)
         IN /\ Atomic!Effect(Atomic!Effect(r, c), d) = Atomic!Effect(Atomic!Effect(r, d), c)
            /\ Atomic!Acceptable(r, c) /\ Atomic!Acceptable(Atomic!Effect(r, c), d) <=>
               Atomic!Acceptable(r, d) /\ Atomic!Acceptable(Atomic!Effect(r, d), c)
<1> DEFINE c == With(op, set, s)
           d == With(op, set, t)
<1>0. op \in Changes
  BY DEF Changes
<1>1. \A q : Atomic!Effect(q, c) = q \cup Atomic!Names(c) /\ Atomic!Effect(q, d) = q \cup Atomic!Names(d)
  BY DEF Atomic!Effect, With
<1>2. \A q : /\ Atomic!Acceptable(q, c) <=>
                  (op = "create" => IsInjective(s) /\ \A y \in Atomic!Names(c) : y \notin q)
             /\ Atomic!Acceptable(q, d) <=>
                  (op = "create" => IsInjective(t) /\ \A y \in Atomic!Names(d) : y \notin q)
  BY <1>0, EffectIs
<1> HIDE DEF c, d
<1>3. Atomic!Effect(Atomic!Effect(r, c), d) = Atomic!Effect(Atomic!Effect(r, d), c)
  BY <1>1
<1>4. /\ \A y : y \in Atomic!Effect(r, c) <=> y \in r \/ y \in Atomic!Names(c)
      /\ \A y : y \in Atomic!Effect(r, d) <=> y \in r \/ y \in Atomic!Names(d)
  BY <1>1
<1>5. Atomic!Acceptable(r, c) /\ Atomic!Acceptable(Atomic!Effect(r, c), d) <=>
        Atomic!Acceptable(r, d) /\ Atomic!Acceptable(Atomic!Effect(r, d), c)
  <2> DEFINE ec == Atomic!Effect(r, c)
             ed == Atomic!Effect(r, d)
             N == Atomic!Names(c)
             M == Atomic!Names(d)
  <2>1. /\ Atomic!Acceptable(r, c) <=> (op = "create" => IsInjective(s) /\ \A y \in N : y \notin r)
        /\ Atomic!Acceptable(ed, c) <=> (op = "create" => IsInjective(s) /\ \A y \in N : y \notin ed)
        /\ Atomic!Acceptable(r, d) <=> (op = "create" => IsInjective(t) /\ \A y \in M : y \notin r)
        /\ Atomic!Acceptable(ec, d) <=> (op = "create" => IsInjective(t) /\ \A y \in M : y \notin ec)
    BY <1>2
  <2>2. (\A y : y \in ec <=> y \in r \/ y \in N) /\ (\A y : y \in ed <=> y \in r \/ y \in M)
    BY <1>4
  <2> HIDE DEF ec, ed, N, M
  <2>3. Atomic!Acceptable(r, c) /\ Atomic!Acceptable(ec, d) <=> Atomic!Acceptable(r, d) /\ Atomic!Acceptable(ed, c)
    BY <2>1, <2>2
  <2> QED BY <2>3 DEF ec, ed
<1> QED BY <1>3, <1>5 DEF c, d

\* An addition may be done after the other additions to the set instead of
\* before them.
LEMMA Bubble ==
  ASSUME NEW op \in {"add", "create"}, NEW set, NEW S, S = {With(op, set, e) : e \in Seq(Element)},
         NEW d \in S
  PROVE  \A t \in Seq(S) : \A u, v : IsConcat(u, <<d>>, t) /\ IsAppend(v, t, d) => Same(u, v)
<1> DEFINE one == <<d>>
           T == {t \in Seq(S) : \A u, v : IsConcat(u, one, t) /\ IsAppend(v, t, d) => Same(u, v)}
<1>1. one \in Seq(S) /\ \A v : IsAppend(v, <<>>, d) => v = one
  BY DEF IsAppend
<1> HIDE DEF one
<1>2. \A c \in S : \A q :
        /\ Atomic!Effect(Atomic!Effect(q, c), d) = Atomic!Effect(Atomic!Effect(q, d), c)
        /\ Atomic!Acceptable(q, c) /\ Atomic!Acceptable(Atomic!Effect(q, c), d) <=>
           Atomic!Acceptable(q, d) /\ Atomic!Acceptable(Atomic!Effect(q, d), c)
  <2> TAKE c \in S
  <2>1. PICK e1 : c = With(op, set, e1)
    OBVIOUS
  <2>2. PICK e2 : d = With(op, set, e2)
    OBVIOUS
  <2> QED BY <2>1, <2>2, Swap
<1>3. <<>> \in T
  <2>1. \A u : IsConcat(u, one, <<>>) => u = one
    BY <1>1, ConcatFacts
  <2>2. <<>> \in Seq(S)
    OBVIOUS
  <2> QED BY <1>1, <2>1, <2>2, SameIsEquivalence
<1>4. ASSUME NEW t \in Seq(S), NEW c \in S, NEW tx, t \in T, IsAppend(tx, t, c) PROVE tx \in T
  <2>1. tx \in Seq(S)
    BY <1>4, AppendFacts
  <2>2. ASSUME NEW ux, NEW vx, IsConcat(ux, one, tx), IsAppend(vx, tx, d) PROVE Same(ux, vx)
    <3>1. PICK u : IsConcat(u, one, t)
      BY DEF IsConcat
    <3>2. PICK v : IsAppend(v, t, d)
      BY DEF IsAppend
    <3>3. Same(u, v)
      BY <1>4, <3>1, <3>2
    <3>4. u \in Seq(S) /\ IsAppend(ux, u, c)
      BY <1>1, <1>4, <2>2, <3>1, ConcatFacts
    <3> SUFFICES ASSUME NEW r PROVE (Ok(r, ux) <=> Ok(r, vx)) /\ (Ok(r, ux) => After(r, ux) = After(r, vx))
      BY DEF Same
    <3>5. After(r, ux) = Atomic!Effect(After(r, u), c) /\ (Ok(r, ux) <=> Ok(r, u) /\ Atomic!Acceptable(After(r, u), c))
      BY <3>4, RunAppend
    <3>6. After(r, v) = Atomic!Effect(After(r, t), d) /\ (Ok(r, v) <=> Ok(r, t) /\ Atomic!Acceptable(After(r, t), d))
      BY <3>2, RunAppend
    <3>7. After(r, vx) = Atomic!Effect(After(r, tx), d) /\ (Ok(r, vx) <=> Ok(r, tx) /\ Atomic!Acceptable(After(r, tx), d))
      BY <2>1, <2>2, RunAppend
    <3>8. After(r, tx) = Atomic!Effect(After(r, t), c) /\ (Ok(r, tx) <=> Ok(r, t) /\ Atomic!Acceptable(After(r, t), c))
      BY <1>4, RunAppend
    <3>9. (Ok(r, u) <=> Ok(r, v)) /\ (Ok(r, u) => After(r, u) = After(r, v))
      BY <3>3 DEF Same
    <3> QED BY <1>2, <3>5, <3>6, <3>7, <3>8, <3>9
  <2> QED BY <2>1, <2>2
<1> HIDE DEF T
<1>5. Seq(S) \subseteq T
  BY <1>3, <1>4, SeqInductionR
<1> QED BY <1>5 DEF T, one
-----------------------------------------------------------------------------
(* The commands of the list, with their elements as parts. *)

Part == [e : Element, cmd : Nat]

Es(parts) == [i \in DOMAIN parts |-> parts[i].e]

\* The command that is meant.
Plain(c) == With(c.op, c.set, Es(c.expr))

PlainSeq(s) == [k \in DOMAIN s |-> Plain(s[k])]

\* The elements of a list of parts: nothing of nothing, one more of one more.
LEMMA EsFacts ==
  ASSUME NEW S, \A x \in S : x.e \in Element
  PROVE  /\ Es(<<>>) = <<>>
         /\ \A s \in Seq(S) : Es(s) \in Seq(Element) /\ (Es(s) = <<>> => s = <<>>)
         /\ \A s \in Seq(S) : \A x \in S : \A t : IsAppend(t, s, x) => IsAppend(Es(t), Es(s), x.e)
         /\ \A s \in Seq(S) : \A t \in Seq(S) : \A u : IsConcat(u, s, t) => IsConcat(Es(u), Es(s), Es(t))
<1> DEFINE g == [x \in S |-> x.e]
<1>1. \A x \in S : g[x] = x.e /\ g[x] \in Element
  OBVIOUS
<1> HIDE DEF g
<1>2. \A s \in Seq(S) : Es(s) = Mapped(g, s)
  BY <1>1 DEF Es, Mapped
<1>3. \A s \in Seq(S) : Mapped(g, s) \in Seq(Element)
  BY <1>1, MappedFacts, Zenon
<1>4. \A s \in Seq(S) : Mapped(g, s) = <<>> => s = <<>>
  <2> TAKE s \in Seq(S)
  <2>1. DOMAIN Mapped(g, s) = DOMAIN s /\ DOMAIN s = 1..Len(s) /\ Len(s) \in Nat
    BY DEF Mapped
  <2> QED BY <2>1
<1>5. Es(<<>>) = <<>>
  BY DEF Es
<1>6. \A s \in Seq(S) : Es(s) \in Seq(Element) /\ (Es(s) = <<>> => s = <<>>)
  BY <1>2, <1>3, <1>4, Zenon
<1>7. ASSUME NEW s \in Seq(S), NEW x \in S, NEW t, IsAppend(t, s, x) PROVE IsAppend(Es(t), Es(s), x.e)
  <2>1. t \in Seq(S)
    BY <1>7, AppendFacts, Zenon
  <2>2. IsAppend(Mapped(g, t), Mapped(g, s), g[x])
    BY <1>1, <1>7, MappedFacts, Zenon
  <2> QED BY <1>1, <1>2, <2>1, <2>2
<1>8. ASSUME NEW s \in Seq(S), NEW t \in Seq(S), NEW u, IsConcat(u, s, t) PROVE IsConcat(Es(u), Es(s), Es(t))
  <2>1. u \in Seq(S)
    BY <1>8, ConcatFacts, Zenon
  <2>2. IsConcat(Mapped(g, u), Mapped(g, s), Mapped(g, t))
    BY <1>1, <1>8, MappedFacts, Zenon
  <2> QED BY <1>2, <2>1, <2>2
<1> QED BY <1>5, <1>6, <1>7, <1>8, Zenon

\* The same for the plain commands of a list.
LEMMA PlainFacts ==
  ASSUME NEW S, \A x \in S : Plain(x) \in Command
  PROVE  /\ PlainSeq(<<>>) = <<>> /\ \A x : PlainSeq(<<x>>) = <<Plain(x)>>
         /\ \A s \in Seq(S) : PlainSeq(s) \in Seq(Command)
         /\ \A s \in Seq(S) : \A x \in S : \A t :
              IsAppend(t, s, x) => IsAppend(PlainSeq(t), PlainSeq(s), Plain(x))
         /\ \A s \in Seq(S) : \A t \in Seq(S) : \A u :
              IsConcat(u, s, t) => IsConcat(PlainSeq(u), PlainSeq(s), PlainSeq(t))
<1> DEFINE g == [x \in S |-> Plain(x)]
<1>1. \A x \in S : g[x] = Plain(x) /\ g[x] \in Command
  OBVIOUS
<1> HIDE DEF g
<1>2. \A s \in Seq(S) : PlainSeq(s) = Mapped(g, s)
  BY <1>1 DEF PlainSeq, Mapped
<1>3. /\ \A s \in Seq(S) : Mapped(g, s) \in Seq(Command)
      /\ \A s \in Seq(S) : \A x \in S : \A t : IsAppend(t, s, x) => IsAppend(Mapped(g, t), Mapped(g, s), g[x])
      /\ \A s \in Seq(S) : \A t \in Seq(S) : \A u :
           IsConcat(u, s, t) => IsConcat(Mapped(g, u), Mapped(g, s), Mapped(g, t))
  BY <1>1, MappedFacts, Zenon
<1>4. PlainSeq(<<>>) = <<>> /\ \A x : PlainSeq(<<x>>) = <<Plain(x)>>
  BY DEF PlainSeq
<1>5. /\ \A s \in Seq(S) : \A x \in S : \A t : IsAppend(t, s, x) => t \in Seq(S)
      /\ \A s \in Seq(S) : \A t \in Seq(S) : \A u : IsConcat(u, s, t) => u \in Seq(S)
  BY AppendFacts, ConcatFacts, Zenon
<1>6. \A s \in Seq(S) : PlainSeq(s) \in Seq(Command)
  BY <1>2, <1>3, Zenon
<1>7. \A s \in Seq(S) : \A x \in S : \A t : IsAppend(t, s, x) => IsAppend(PlainSeq(t), PlainSeq(s), Plain(x))
  BY <1>1, <1>2, <1>3, <1>5, Zenon
<1>8. \A s \in Seq(S) : \A t \in Seq(S) : \A u :
         IsConcat(u, s, t) => IsConcat(PlainSeq(u), PlainSeq(s), PlainSeq(t))
  BY <1>2, <1>3, <1>5, Zenon
<1> QED BY <1>4, <1>6, <1>7, <1>8, Zenon

-----------------------------------------------------------------------------
(* The elements that were moved from a command. *)

ReturnOne(id, own, x) == IF x.cmd = id THEN Append(own, [x EXCEPT !.cmd = 0]) ELSE own

E == INSTANCE FoldFacts WITH Op <- LAMBDA p, own, x : ReturnOne(p, own, x)

Own(parts, id) == Es(Returned(parts, id))

\* Returned() is a fold.
LEMMA ReturnedIs ==
  ASSUME NEW parts, NEW id
  PROVE  E!Fold(id, <<>>, parts) = Returned(parts, id)
BY Zenon DEF E!Fold, Returned, ReturnOne, E!FoldLeft, FoldLeft, E!MapThenFoldSet, MapThenFoldSet, E!Max, Max

\* What is returned to a command are parts again.
LEMMA ReturnedType ==
  ASSUME NEW parts \in Seq(Part), NEW id
  PROVE  Returned(parts, id) \in Seq(Part)
<1> DEFINE I == Seq(Part)
<1>1. <<>> \in I
  OBVIOUS
<1>2. \A a \in I : \A x \in Part : ReturnOne(id, a, x) \in I
  <2> TAKE a \in I
  <2> TAKE x \in Part
  <2>1. [x EXCEPT !.cmd = 0] \in Part
    BY DEF Part
  <2> QED BY <2>1 DEF ReturnOne
<1> HIDE DEF I
<1>3. \A s \in Seq(Part) : E!Fold(id, <<>>, s) \in I
  BY <1>1, <1>2, E!FoldInvariant
<1> QED BY <1>3, ReturnedIs DEF I

\* No part that is from the command.
LEMMA ReturnedNone ==
  ASSUME NEW id, NEW S, \A x \in S : x.cmd # id, NEW parts \in Seq(S), NEW base
  PROVE  E!Fold(id, base, parts) = base
<1> DEFINE I == {base}
<1>1. base \in I /\ \A a \in I : a = base
  OBVIOUS
<1>2. \A a \in I : \A x \in S : ReturnOne(id, a, x) \in I
  BY DEF ReturnOne
<1> HIDE DEF I
<1>3. \A s \in Seq(S) : E!Fold(id, base, s) \in I
  BY <1>1, <1>2, E!FoldInvariant
<1> QED BY <1>1, <1>3

\* Only parts that are from the command.
LEMMA ReturnedAll ==
  ASSUME NEW id
  PROVE  \A parts \in Seq({x \in Part : x.cmd = id}) : Own(parts, id) = Es(parts)
<1> DEFINE S == {x \in Part : x.cmd = id}
           T == {s \in Seq(S) : Own(s, id) = Es(s)}
<1>1. \A x \in S : x \in Part /\ x.cmd = id /\ x.e \in Element
  BY DEF Part
<1> HIDE DEF S
<1>2. <<>> \in T
  <2>1. <<>> \in Seq(S)
    OBVIOUS
  <2>2. Returned(<<>>, id) = <<>>
    BY E!FoldEmpty, ReturnedIs
  <2> QED BY <2>1, <2>2 DEF Own
<1>3. ASSUME NEW s \in Seq(S), NEW x \in S, NEW t, s \in T, IsAppend(t, s, x) PROVE t \in T
  <2>1. t \in Seq(S)
    BY <1>3, AppendFacts
  <2>2. E!IsAppend(t, s, x)
    BY <1>3 DEF IsAppend, E!IsAppend
  <2> DEFINE a == E!Fold(id, <<>>, s)
  <2>3. E!Fold(id, <<>>, t) = Append(a, [x EXCEPT !.cmd = 0])
    <3>1. E!Fold(id, <<>>, t) = ReturnOne(id, a, x)
      BY <2>2, E!FoldAppend
    <3>2. ReturnOne(id, a, x) = Append(a, [x EXCEPT !.cmd = 0])
      BY <1>1 DEF ReturnOne
    <3> QED BY <3>1, <3>2, Zenon
  <2>4. IsAppend(Returned(t, id), Returned(s, id), [x EXCEPT !.cmd = 0])
    BY <2>3, ReturnedIs, Zenon DEF IsAppend
  <2>5. s \in Seq(Part)
    BY <1>1
  <2>6. Returned(s, id) \in Seq(Part)
    BY <2>5, ReturnedType
  <2>7. [x EXCEPT !.cmd = 0] \in Part /\ [x EXCEPT !.cmd = 0].e = x.e
    BY <1>1 DEF Part
  <2>8. \A y \in Part : y.e \in Element
    BY DEF Part
  <2>9. IsAppend(Es(Returned(t, id)), Es(Returned(s, id)), x.e)
    BY <2>4, <2>6, <2>7, <2>8, EsFacts
  <2>10. IsAppend(Es(t), Es(s), x.e)
    BY <1>1, <1>3, EsFacts
  <2>11. Es(Returned(t, id)) = Es(t)
    BY <1>3, <2>9, <2>10 DEF IsAppend, Own
  <2> QED BY <2>1, <2>11 DEF Own
<1> HIDE DEF T
<1>4. Seq(S) \subseteq T
  BY <1>2, <1>3, SeqInductionR
<1> QED BY <1>4 DEF T, S

\* Of two lists, one without elements of the command.
LEMMA ReturnedConcat ==
  ASSUME NEW s \in Seq(Part), NEW t \in Seq(Part), NEW u, IsConcat(u, s, t), NEW id
  PROVE  /\ (\A i \in DOMAIN t : t[i].cmd # id) => Own(u, id) = Own(s, id)
         /\ (\A i \in DOMAIN s : s[i].cmd # id) /\ (\A i \in DOMAIN t : t[i].cmd = id) => Own(u, id) = Es(t)
<1> DEFINE S == {x \in Part : x.cmd # id}
           Z == {x \in Part : x.cmd = id}
<1>1. E!IsConcat(u, s, t)
  BY DEF IsConcat, E!IsConcat
<1>2. E!Fold(id, <<>>, u) = E!Fold(id, E!Fold(id, <<>>, s), t)
  BY <1>1, E!FoldConcat
<1>3. /\ (\A i \in DOMAIN t : t[i].cmd # id) => t \in Seq(S)
      /\ (\A i \in DOMAIN s : s[i].cmd # id) => s \in Seq(S)
      /\ (\A i \in DOMAIN t : t[i].cmd = id) => t \in Seq(Z)
  OBVIOUS
<1>4. \A x \in S : x.cmd # id
  OBVIOUS
<1>5. t \in Seq(Z) => Own(t, id) = Es(t)
  BY ReturnedAll
<1> HIDE DEF S, Z
<1>6. t \in Seq(S) => Own(u, id) = Own(s, id)
  <2>1. t \in Seq(S) => E!Fold(id, <<>>, u) = E!Fold(id, <<>>, s)
    BY <1>2, <1>4, ReturnedNone
  <2> QED BY <2>1, ReturnedIs DEF Own
<1>7. s \in Seq(S) => Own(u, id) = Own(t, id)
  <2>1. s \in Seq(S) => E!Fold(id, <<>>, s) = <<>>
    BY <1>4, ReturnedNone
  <2>2. s \in Seq(S) => E!Fold(id, <<>>, u) = E!Fold(id, <<>>, t)
    BY <1>2, <2>1
  <2> QED BY <2>2, ReturnedIs DEF Own
<1> QED BY <1>3, <1>5, <1>6, <1>7
-----------------------------------------------------------------------------
(* Commands in the list, and what becomes of one that others were moved to. *)

Ops == {"add", "create", "delete", "destroy", "flush", "list"}

Nothing == {<<>>}

Bare == [id : Nat, op : Ops, set : STRING, collapse : Nothing, attr : Nothing, expr : Nothing]

LC == {c \in [id : Nat, op : Ops, set : STRING, collapse : Seq(Bare), attr : Nothing, expr : Seq(Part)] :
         /\ Plain(c) \in Command
         /\ \A j \in DOMAIN c.collapse :
              c.op \in {"add", "create"} /\ c.collapse[j].op = c.op /\ c.collapse[j].set = c.set}

Others(c) ==
  [j \in DOMAIN c.collapse |-> [c.collapse[j] EXCEPT !.expr = Returned(c.expr, c.collapse[j].id)]]

Un(c) == <<[c EXCEPT !.expr = Returned(@, 0), !.collapse = <<>>]>> \o Reverse(Others(c))

\* What the others are.
Os(c) == [j \in DOMAIN c.collapse |-> With(c.op, c.set, Own(c.expr, c.collapse[j].id))]

\* Another list of elements in a command.
LEMMA CommandWith ==
  ASSUME NEW op, NEW set, NEW s, With(op, set, s) \in Command, NEW t \in Seq(Element)
  PROVE  With(op, set, t) \in Command
BY DEF With, Command, Element

\* The elements a command gets back are elements.
LEMMA OwnType ==
  ASSUME NEW parts \in Seq(Part), NEW id
  PROVE  Own(parts, id) \in Seq(Element)
<1>1. \A x \in Part : x.e \in Element
  BY DEF Part
<1>2. Returned(parts, id) \in Seq(Part)
  BY ReturnedType
<1> QED BY <1>1, <1>2, EsFacts DEF Own

\* The commands that were collapsed into c, with their elements back.
LEMMA OthersType ==
  ASSUME NEW c \in LC
  PROVE  /\ Others(c) \in Seq(LC) /\ Os(c) \in Seq({With(c.op, c.set, e) : e \in Seq(Element)})
         /\ Len(Others(c)) = Len(c.collapse) /\ Len(Os(c)) = Len(c.collapse)
         /\ \A j \in 1..Len(c.collapse) : Plain(Others(c)[j]) = Os(c)[j]
<1>1. /\ c.collapse \in Seq(Bare) /\ c.expr \in Seq(Part) /\ With(c.op, c.set, Es(c.expr)) \in Command
      /\ \A j \in DOMAIN c.collapse :
           c.op \in {"add", "create"} /\ c.collapse[j].op = c.op /\ c.collapse[j].set = c.set
  BY DEF LC, Plain
<1>2. DOMAIN c.collapse = 1..Len(c.collapse) /\ Len(c.collapse) \in Nat
  BY <1>1
<1>3. ASSUME NEW j \in DOMAIN c.collapse
      PROVE  LET o == [c.collapse[j] EXCEPT !.expr = Returned(c.expr, c.collapse[j].id)]
             IN o \in LC /\ Plain(o) = With(c.op, c.set, Own(c.expr, c.collapse[j].id))
  <2> DEFINE b == c.collapse[j]
             o == [b EXCEPT !.expr = Returned(c.expr, b.id)]
  <2>1. b \in Bare /\ b.op = c.op /\ b.set = c.set
    BY <1>1
  <2>2. Returned(c.expr, b.id) \in Seq(Part) /\ Own(c.expr, b.id) \in Seq(Element)
    BY <1>1, ReturnedType, OwnType
  <2>0. b.collapse \in Seq(Bare)
    <3>1. b.collapse = <<>>
      BY <2>1 DEF Bare, Nothing
    <3>2. <<>> \in Seq(Bare)
      OBVIOUS
    <3> QED BY <3>1, <3>2, Zenon
  <2> HIDE DEF b
  <2>3. o.op = c.op /\ o.set = c.set /\ o.expr = Returned(c.expr, b.id) /\ o.collapse = <<>>
    BY <2>1 DEF Bare, Nothing
  <2>4. o \in [id : Nat, op : Ops, set : STRING, collapse : Seq(Bare), attr : Nothing, expr : Seq(Part)]
    BY <2>0, <2>1, <2>2 DEF Bare
  <2> HIDE DEF o
  <2>5. Plain(o) = With(c.op, c.set, Own(c.expr, b.id))
    BY <2>3 DEF Plain, Own
  <2>6. Plain(o) \in Command
    BY <1>1, <2>2, <2>5, CommandWith
  <2>7. DOMAIN o.collapse = {}
    BY <2>3
  <2>8. o \in LC
    BY <2>4, <2>6, <2>7 DEF LC
  <2> QED BY <2>5, <2>8 DEF o, b
<1>4. \A j \in 1..Len(c.collapse) : Own(c.expr, c.collapse[j].id) \in Seq(Element)
  BY <1>1, OwnType
<1>5. Others(c) \in Seq(LC) /\ Len(Others(c)) = Len(c.collapse)
  BY <1>2, <1>3 DEF Others
<1>6. Os(c) \in Seq({With(c.op, c.set, e) : e \in Seq(Element)}) /\ Len(Os(c)) = Len(c.collapse)
  BY <1>2, <1>4 DEF Os
<1>7. \A j \in 1..Len(c.collapse) : Plain(Others(c)[j]) = Os(c)[j]
  BY <1>2, <1>3 DEF Others, Os
<1> QED BY <1>5, <1>6, <1>7

\* What a collapsed command is put apart into, as plain commands.
LEMMA PlainUn ==
  ASSUME NEW c \in LC
  PROVE  /\ Un(c) \in Seq(LC)
         /\ IsConcat(PlainSeq(Un(c)), One(c.op, c.set, Own(c.expr, 0)), Reverse(Os(c)))
<1>1. /\ c.expr \in Seq(Part) /\ With(c.op, c.set, Es(c.expr)) \in Command
      /\ c \in [id : Nat, op : Ops, set : STRING, collapse : Seq(Bare), attr : Nothing, expr : Seq(Part)]
  BY DEF LC, Plain
<1> DEFINE a == [c EXCEPT !.expr = Returned(@, 0), !.collapse = <<>>]
           rev == Reverse(Others(c))
<1>2. a.op = c.op /\ a.set = c.set /\ a.expr = Returned(c.expr, 0) /\ a.collapse = <<>>
  BY <1>1
<1>0. <<>> \in Seq(Bare)
  OBVIOUS
<1>3. a \in [id : Nat, op : Ops, set : STRING, collapse : Seq(Bare), attr : Nothing, expr : Seq(Part)]
  <2>1. Returned(c.expr, 0) \in Seq(Part)
    BY <1>1, ReturnedType
  <2> QED BY <1>0, <1>1, <2>1
<1> HIDE DEF a
<1>4. Plain(a) = With(c.op, c.set, Own(c.expr, 0)) /\ Own(c.expr, 0) \in Seq(Element)
  BY <1>1, <1>2, OwnType DEF Plain, Own
<1>5. a \in LC
  <2>1. Plain(a) \in Command
    BY <1>1, <1>4, CommandWith
  <2> QED BY <1>2, <1>3, <2>1 DEF LC
<1>6. Others(c) \in Seq(LC) /\ rev \in Seq(LC)
  BY OthersType, ReverseFacts
<1>7. IsConcat(Un(c), <<a>>, rev)
  BY Zenon DEF Un, IsConcat, a
<1>8. \A x \in LC : Plain(x) \in Command
  BY DEF LC
<1>9. PlainSeq(rev) = Reverse(Os(c))
  <2>1. /\ Others(c) \in Seq(LC) /\ Len(Others(c)) = Len(c.collapse) /\ Len(Os(c)) = Len(c.collapse)
        /\ \A j \in 1..Len(c.collapse) : Plain(Others(c)[j]) = Os(c)[j]
    BY OthersType
  <2>2. Len(Others(c)) \in Nat
    BY <2>1
  <2> QED BY <2>1, <2>2 DEF PlainSeq, Reverse
<1>10. <<a>> \in Seq(LC)
  BY <1>5
<1>11. Un(c) \in Seq(LC)
  <2> DEFINE one == <<a>>
  <2> HIDE DEF one
  <2>1. one \in Seq(LC) /\ IsConcat(Un(c), one, rev)
    BY <1>7, <1>10, Zenon DEF one
  <2> HIDE DEF rev
  <2> QED BY <1>6, <2>1, ConcatFacts
<1>12. IsConcat(PlainSeq(Un(c)), PlainSeq(<<a>>), PlainSeq(rev))
  BY <1>6, <1>7, <1>8, <1>10, PlainFacts, Zenon
<1>13. PlainSeq(<<a>>) = One(c.op, c.set, Own(c.expr, 0))
  BY <1>4, <1>8, PlainFacts, Zenon DEF One
<1> QED BY <1>9, <1>11, <1>12, <1>13, Zenon

\* One command more after lists that mean the same.
LEMMA SameAppend ==
  ASSUME NEW S, NEW s \in Seq(S), NEW s1 \in Seq(S), NEW c \in S, NEW t, IsAppend(t, s, c),
         NEW t1, IsAppend(t1, s1, c), Same(s, s1)
  PROVE  Same(t, t1)
<1>1. \A r : After(r, t) = Atomic!Effect(After(r, s), c) /\ (Ok(r, t) <=> Ok(r, s) /\ Atomic!Acceptable(After(r, s), c))
  BY RunAppend
<1>2. \A r : After(r, t1) = Atomic!Effect(After(r, s1), c) /\ (Ok(r, t1) <=> Ok(r, s1) /\ Atomic!Acceptable(After(r, s1), c))
  BY RunAppend
<1> QED BY <1>1, <1>2 DEF Same

\* A command that was just listed.
Fresh(d, k) ==
  /\ d \in LC /\ d.id = k /\ d.collapse = <<>>
  /\ \A i \in DOMAIN d.expr : d.expr[i].cmd = 0

\* A command whose elements are from the first n commands; putting it apart
\* changes nothing.
Good(c, n) ==
  /\ c \in LC
  /\ \A i \in DOMAIN c.expr : c.expr[i].cmd \in 0..n
  /\ \A j \in DOMAIN c.collapse : c.collapse[j].id \in 1..n
  /\ Same(PlainSeq(Un(c)), <<Plain(c)>>)

\* A command nothing was collapsed into can be put apart.
LEMMA FreshGood ==
  ASSUME NEW d, NEW k \in Nat, Fresh(d, k)
  PROVE  Good(d, k)
<1>1. d \in LC /\ d.collapse = <<>> /\ d.expr \in Seq(Part) /\ \A i \in DOMAIN d.expr : d.expr[i].cmd = 0
  BY DEF Fresh, LC
<1>2. Own(d.expr, 0) = Es(d.expr)
  <2>1. d.expr \in Seq({x \in Part : x.cmd = 0})
    BY <1>1
  <2> QED BY <2>1, ReturnedAll
<1>3. Os(d) = <<>> /\ Reverse(Os(d)) = <<>>
  BY <1>1 DEF Os, Reverse
<1>4. IsConcat(PlainSeq(Un(d)), <<Plain(d)>>, <<>>)
  BY <1>1, <1>2, <1>3, PlainUn, Zenon DEF One, Plain
<1>5. PlainSeq(Un(d)) = <<Plain(d)>>
  BY <1>4 DEF IsConcat
<1>6. Same(PlainSeq(Un(d)), <<Plain(d)>>)
  BY <1>5, SameIsEquivalence, Zenon
<1> QED BY <1>1, <1>6 DEF Good

\* Later commands do not matter to what was collapsed before.
LEMMA GoodMonotone ==
  ASSUME NEW c, NEW n \in Nat, Good(c, n)
  PROVE  Good(c, n + 1)
BY DEF Good

\* The elements of a command, marked with where they come from.
LEMMA MarkedIs ==
  ASSUME NEW d, NEW k \in Nat, Fresh(d, k)
  PROVE  Marked(d) \in Seq(Part) /\ (\A i \in DOMAIN Marked(d) : Marked(d)[i].cmd = k) /\ Es(Marked(d)) = Es(d.expr)
<1>1. d.expr \in Seq(Part) /\ d.id = k
  BY DEF Fresh, LC
<1>2. DOMAIN d.expr = 1..Len(d.expr) /\ Len(d.expr) \in Nat /\ \A i \in DOMAIN d.expr : d.expr[i] \in Part
  BY <1>1
<1>3. \A x \in Part : [x EXCEPT !.cmd = k] \in Part /\ [x EXCEPT !.cmd = k].cmd = k /\ [x EXCEPT !.cmd = k].e = x.e
  BY DEF Part
<1>4. DOMAIN Marked(d) = DOMAIN d.expr /\ \A i \in DOMAIN d.expr : Marked(d)[i] = [d.expr[i] EXCEPT !.cmd = k]
  BY <1>1 DEF Marked
<1>5. \A i \in DOMAIN d.expr : Marked(d)[i] \in Part /\ Marked(d)[i].cmd = k /\ Marked(d)[i].e = d.expr[i].e
  <2> TAKE i \in DOMAIN d.expr
  <2> DEFINE x == d.expr[i]
  <2>1. x \in Part /\ Marked(d)[i] = [x EXCEPT !.cmd = k]
    BY <1>2, <1>4
  <2> HIDE DEF x
  <2>2. Marked(d)[i] \in Part /\ Marked(d)[i].cmd = k /\ Marked(d)[i].e = x.e
    BY <1>3, <2>1
  <2> QED BY <2>2 DEF x
<1>6. Marked(d) \in Seq(Part)
  <2>1. Marked(d) = [i \in DOMAIN d.expr |-> Marked(d)[i]]
    BY <1>4 DEF Marked
  <2>2. Marked(d) = [i \in 1..Len(d.expr) |-> Marked(d)[i]]
    BY <1>2, <2>1, Zenon
  <2>3. \A i \in 1..Len(d.expr) : Marked(d)[i] \in Part
    BY <1>2, <1>5
  <2> QED BY <1>2, <2>2, <2>3, SeqBuild
<1>7. Es(Marked(d)) = Es(d.expr)
  BY <1>4, <1>5 DEF Es
<1> QED BY <1>4, <1>5, <1>6, <1>7

\* What nft_cmd_collapse() makes of a command and the one it takes in.
LEMMA MergeIs ==
  ASSUME NEW c, NEW d, NEW n \in Nat, Good(c, n), Fresh(d, n + 1), c.op \in {"add", "create"},
         d.op = c.op, d.set = c.set
  PROVE  LET m == Merge(c, d)
         IN /\ m \in LC /\ m.op = c.op /\ m.set = c.set
            /\ \A i \in DOMAIN m.expr : m.expr[i].cmd \in 0..(n + 1)
            /\ \A j \in DOMAIN m.collapse : m.collapse[j].id \in 1..(n + 1)
            /\ IsConcat(Es(m.expr), Es(c.expr), Es(d.expr))
            /\ Own(m.expr, 0) = Own(c.expr, 0)
            /\ IsAppend(Os(m), Os(c), Plain(d))
<1> DEFINE m == Merge(c, d)
           b == [d EXCEPT !.expr = <<>>]
           k == n + 1
<1>1. /\ c \in [id : Nat, op : Ops, set : STRING, collapse : Seq(Bare), attr : Nothing, expr : Seq(Part)]
      /\ d \in [id : Nat, op : Ops, set : STRING, collapse : Seq(Bare), attr : Nothing, expr : Seq(Part)]
      /\ With(c.op, c.set, Es(c.expr)) \in Command
      /\ \A j \in DOMAIN c.collapse : c.collapse[j].op = c.op /\ c.collapse[j].set = c.set
      /\ c \in LC /\ d \in LC /\ d.id = k /\ d.collapse = <<>>
  BY DEF Good, Fresh, LC, Plain
<1>2. Marked(d) \in Seq(Part) /\ (\A i \in DOMAIN Marked(d) : Marked(d)[i].cmd = k) /\ Es(Marked(d)) = Es(d.expr)
  BY MarkedIs
<1>3. b \in Bare /\ b.op = c.op /\ b.set = c.set /\ b.id = k
  BY <1>1 DEF Bare, Nothing
<1>4. m.expr = c.expr \o Marked(d) /\ m.collapse = Append(c.collapse, b) /\ m.op = c.op /\ m.set = c.set
  BY <1>1 DEF Merge
<1>5. IsConcat(m.expr, c.expr, Marked(d)) /\ IsAppend(m.collapse, c.collapse, b)
  BY <1>4, Zenon DEF IsConcat, IsAppend
<1>6. m \in [id : Nat, op : Ops, set : STRING, collapse : Seq(Bare), attr : Nothing, expr : Seq(Part)]
  <2>1. c.expr \o Marked(d) \in Seq(Part) /\ Append(c.collapse, b) \in Seq(Bare)
    BY <1>1, <1>2, <1>3
  <2> QED BY <1>1, <2>1 DEF Merge
<1> HIDE DEF m, b
<1>7. \A x \in Part : x.e \in Element
  BY DEF Part
<1>8. IsConcat(Es(m.expr), Es(c.expr), Es(d.expr)) /\ Es(m.expr) \in Seq(Element)
  <2>1. c.expr \in Seq(Part) /\ m.expr \in Seq(Part)
    BY <1>1, <1>6
  <2>2. IsConcat(Es(m.expr), Es(c.expr), Es(Marked(d)))
    BY <1>2, <1>5, <1>7, <2>1, EsFacts, Zenon
  <2>3. Es(m.expr) \in Seq(Element)
    BY <1>7, <2>1, EsFacts, Zenon
  <2> QED BY <1>2, <2>2, <2>3, Zenon
<1>9. PICK l : /\ \A j : j \in DOMAIN m.collapse <=> j \in DOMAIN c.collapse \/ j = l
               /\ l \notin DOMAIN c.collapse /\ m.collapse[l] = b
               /\ \A j \in DOMAIN c.collapse : m.collapse[j] = c.collapse[j]
  BY <1>1, <1>3, <1>5, AppendIndices
<1>10. m \in LC
  <2>1. Plain(m) \in Command
    BY <1>1, <1>4, <1>8, CommandWith DEF Plain
  <2>2. \A j \in DOMAIN m.collapse : m.collapse[j].op = c.op /\ m.collapse[j].set = c.set
    BY <1>1, <1>3, <1>9
  <2> QED BY <1>4, <1>6, <2>1, <2>2 DEF LC
<1>11. \A i \in DOMAIN m.expr : m.expr[i].cmd \in 0..(n + 1)
  <2>1. /\ \A i \in DOMAIN c.expr : c.expr[i].cmd \in 0..k
        /\ \A i \in DOMAIN Marked(d) : Marked(d)[i].cmd \in 0..k
    BY <1>2 DEF Good
  <2> DEFINE Z == {x \in Part : x.cmd \in 0..k}
  <2>2. (\A i \in DOMAIN c.expr : c.expr[i] \in Z) /\ (\A i \in DOMAIN Marked(d) : Marked(d)[i] \in Z)
    BY <1>1, <1>2, <2>1
  <2>3. c.expr \in Seq(Z) /\ Marked(d) \in Seq(Z)
    BY <1>1, <1>2, <2>2, SeqSubset
  <2>4. \A x \in Z : x.cmd \in 0..k
    OBVIOUS
  <2> HIDE DEF Z
  <2>5. m.expr \in Seq(Z)
    BY <1>4, <2>3
  <2> QED BY <2>4, <2>5
<1>12. \A j \in DOMAIN m.collapse : m.collapse[j].id \in 1..(n + 1)
  BY <1>3, <1>9 DEF Good
<1>13. c.expr \in Seq(Part)
  BY <1>1
<1>14. Own(m.expr, 0) = Own(c.expr, 0)
  <2>1. \A i \in DOMAIN Marked(d) : Marked(d)[i].cmd # 0
    BY <1>2
  <2> QED BY <1>2, <1>5, <1>13, <2>1, ReturnedConcat
<1>15. \A j \in DOMAIN c.collapse : Own(m.expr, c.collapse[j].id) = Own(c.expr, c.collapse[j].id)
  <2> TAKE j \in DOMAIN c.collapse
  <2>1. \A i \in DOMAIN Marked(d) : Marked(d)[i].cmd # c.collapse[j].id
    BY <1>2 DEF Good
  <2> QED BY <1>2, <1>5, <1>13, <2>1, ReturnedConcat
<1>16. Own(m.expr, k) = Es(d.expr)
  <2>1. \A i \in DOMAIN c.expr : c.expr[i].cmd # k
    BY DEF Good
  <2> HIDE DEF k
  <2>2. Own(m.expr, k) = Es(Marked(d))
    BY <1>2, <1>5, <1>13, <2>1, ReturnedConcat
  <2> QED BY <1>2, <2>2
<1>17. IsAppend(Os(m), Os(c), Plain(d))
  <2> DEFINE S == {With(c.op, c.set, e) : e \in Seq(Element)}
             N == Len(c.collapse)
             a == Append(Os(c), Plain(d))
  <2>0. N \in Nat /\ c.collapse \in Seq(Bare) /\ m.collapse \in Seq(Bare)
    BY <1>1, <1>6
  <2>1. /\ Len(m.collapse) = N + 1 /\ m.collapse[N + 1] = b
        /\ \A j \in 1..N : m.collapse[j] = c.collapse[j]
        /\ DOMAIN c.collapse = 1..N /\ DOMAIN m.collapse = 1..(N + 1)
    <3> DEFINE cc == c.collapse
               mc == m.collapse
    <3>1. cc \in Seq(Bare) /\ IsAppend(mc, cc, b) /\ N = Len(cc)
      BY <1>5, <2>0
    <3> HIDE DEF cc, mc
    <3>2. /\ Len(mc) = Len(cc) + 1 /\ mc[Len(cc) + 1] = b
          /\ \A j \in 1..Len(cc) : mc[j] = cc[j]
          /\ DOMAIN cc = 1..Len(cc) /\ DOMAIN mc = 1..(Len(cc) + 1)
      BY <1>3, <3>1, AppendFacts
    <3> QED BY <3>2 DEF cc, mc
  <2>2. Plain(d) = With(c.op, c.set, Es(d.expr)) /\ Plain(d) \in S
    <3>1. d.expr \in Seq(Part)
      BY <1>1
    <3>2. Es(d.expr) \in Seq(Element)
      BY <1>7, <3>1, EsFacts, Zenon
    <3> QED BY <3>2 DEF Plain
  <2>3. Os(c) \in Seq(S) /\ Os(m) \in Seq(S) /\ Len(Os(c)) = N /\ Len(Os(m)) = N + 1
    <3>1. Os(c) \in Seq(S) /\ Len(Os(c)) = N
      BY <1>1, OthersType, Zenon
    <3>2. Os(m) \in Seq({With(m.op, m.set, e) : e \in Seq(Element)}) /\ Len(Os(m)) = Len(m.collapse)
      BY <1>10, OthersType, Zenon
    <3>3. {With(m.op, m.set, e) : e \in Seq(Element)} = S
      BY <1>4
    <3> QED BY <2>1, <3>1, <3>2, <3>3, Zenon
  <2> HIDE DEF N, S
  <2>4. /\ a \in Seq(S) /\ Len(a) = N + 1 /\ a[N + 1] = Plain(d)
        /\ \A j \in 1..N : a[j] = Os(c)[j]
    BY <2>0, <2>2, <2>3
  <2>5. \A j \in 1..(N + 1) : Os(m)[j] = a[j]
    <3> TAKE j \in 1..(N + 1)
    <3>1. Os(m)[j] = With(c.op, c.set, Own(m.expr, m.collapse[j].id))
      BY <1>4, <2>1 DEF Os
    <3>2. CASE j = N + 1
      BY <1>3, <1>16, <2>1, <2>2, <2>4, <3>1, <3>2
    <3>3. CASE j # N + 1
      <4>1. j \in 1..N
        BY <2>0, <3>3
      <4>2. Os(c)[j] = With(c.op, c.set, Own(c.expr, c.collapse[j].id))
        BY <2>1, <4>1 DEF Os
      <4> QED BY <1>15, <2>1, <2>4, <3>1, <4>1, <4>2
    <3> QED BY <3>2, <3>3
  <2> HIDE DEF a
  <2>6. Os(m) = a
    BY <2>0, <2>3, <2>4, <2>5, SMTT(30)
  <2> QED BY <2>6, Zenon DEF IsAppend, a
<1> QED BY <1>4, <1>8, <1>10, <1>11, <1>12, <1>14, <1>17 DEF m
\* Putting the merged command apart again is doing the moved command last.
LEMMA MergeGood ==
  ASSUME NEW c, NEW d, NEW n \in Nat, Good(c, n), Fresh(d, n + 1), c.op \in {"add", "create"},
         d.op = c.op, d.set = c.set
  PROVE  /\ Good(Merge(c, d), n + 1)
         /\ \A z : IsAppend(z, <<Plain(c)>>, Plain(d)) => Same(z, <<Plain(Merge(c, d))>>)
<1> DEFINE m == Merge(c, d)
           D == Plain(d)
           S == {With(c.op, c.set, e) : e \in Seq(Element)}
           A == One(c.op, c.set, Own(c.expr, 0))
           C == <<Plain(c)>>
<1>1. /\ m \in LC /\ m.op = c.op /\ m.set = c.set
      /\ \A i \in DOMAIN m.expr : m.expr[i].cmd \in 0..(n + 1)
      /\ \A j \in DOMAIN m.collapse : m.collapse[j].id \in 1..(n + 1)
      /\ IsConcat(Es(m.expr), Es(c.expr), Es(d.expr))
      /\ Own(m.expr, 0) = Own(c.expr, 0)
      /\ IsAppend(Os(m), Os(c), D)
  BY MergeIs, Zenon
<1> HIDE DEF m
<1>2. c \in LC /\ d \in LC /\ c.expr \in Seq(Part) /\ d.expr \in Seq(Part)
  BY DEF Good, Fresh, LC
<1>3. \A x \in Part : x.e \in Element
  BY DEF Part
<1>4. Es(c.expr) \in Seq(Element) /\ Es(d.expr) \in Seq(Element) /\ Own(c.expr, 0) \in Seq(Element)
  <2>1. Es(c.expr) \in Seq(Element)
    BY <1>2, <1>3, EsFacts, Zenon
  <2>2. Es(d.expr) \in Seq(Element)
    BY <1>2, <1>3, EsFacts, Zenon
  <2> QED BY <1>2, <2>1, <2>2, OwnType
<1>5. /\ D = With(c.op, c.set, Es(d.expr)) /\ D \in S
      /\ C = One(c.op, c.set, Es(c.expr)) /\ C \in Seq(S) /\ A \in Seq(S)
  BY <1>4 DEF Plain, One
<1>6. \A op : op \in {"add", "create"} => op \in Changes
  BY DEF Changes
<1>7. ASSUME NEW z, IsAppend(z, C, D) PROVE Same(z, <<Plain(m)>>)
  <2>1. Plain(m) = With(c.op, c.set, Es(m.expr))
    BY <1>1 DEF Plain
  <2>2. IsAppend(z, One(c.op, c.set, Es(c.expr)), With(c.op, c.set, Es(d.expr)))
    BY <1>5, <1>7, Zenon
  <2>3. Same(z, One(c.op, c.set, Es(m.expr)))
    BY <1>1, <1>4, <1>6, <2>2, TwoParts
  <2> QED BY <2>1, <2>3, Zenon DEF One
<1>8. Os(c) \in Seq(S) /\ Reverse(Os(c)) \in Seq(S)
  <2>1. Os(c) \in Seq(S)
    BY <1>2, OthersType, Zenon
  <2> HIDE DEF S
  <2> QED BY <2>1, ReverseFacts
<1> DEFINE p == PlainSeq(Un(c))
           q == PlainSeq(Un(m))
           rc == Reverse(Os(c))
           rm == Reverse(Os(m))
           oc == Os(c)
           om == Os(m)
<1>9. IsConcat(p, A, rc)
  BY <1>2, PlainUn, Zenon
<1>10. IsConcat(q, A, rm)
  <2>1. IsConcat(q, One(m.op, m.set, Own(m.expr, 0)), rm)
    BY <1>1, PlainUn, Zenon
  <2>2. One(m.op, m.set, Own(m.expr, 0)) = A
    BY <1>1
  <2> QED BY <2>1, <2>2, Zenon
<1>11. IsAppend(om, oc, D) /\ oc \in Seq(S) /\ rc \in Seq(S) /\ rc = Reverse(oc) /\ rm = Reverse(om)
  BY <1>1, <1>8, Zenon
<1>12. Same(p, C)
  BY Zenon DEF Good
<1> HIDE DEF p, q, rc, rm, A, C, D, oc, om
<1>13. \A z : IsAppend(z, C, D) => Same(z, <<Plain(m)>>)
  BY <1>7
<1>14. IsConcat(rm, <<D>>, rc)
  <2> HIDE DEF S
  <2>1. IsConcat(Reverse(om), <<D>>, Reverse(oc))
    BY <1>5, <1>11, ReverseFacts, Zenon
  <2> QED BY <1>11, <2>1, Zenon
<1>15. PICK v : IsAppend(v, rc, D)
  BY DEF IsAppend
<1>16. Same(rm, v)
  BY <1>5, <1>11, <1>14, <1>15, Bubble, Zenon
<1> HIDE DEF S
<1>17. PICK w : IsConcat(w, A, v)
  BY DEF IsConcat
<1>18. v \in Seq(S)
  BY <1>5, <1>11, <1>15, AppendFacts
<1>19. p \in Seq(S) /\ IsAppend(w, p, D)
  <2>1. p \in Seq(S)
    BY <1>5, <1>9, <1>11, ConcatFacts
  <2>2. \A x \in S : \A tx, u, ux :
          IsAppend(tx, rc, x) /\ IsConcat(u, A, rc) /\ IsConcat(ux, A, tx) => IsAppend(ux, u, x)
    BY <1>5, <1>11, ConcatFacts, Zenon
  <2> QED BY <1>5, <1>9, <1>15, <1>17, <2>1, <2>2, Zenon
<1>20. rm \in Seq(S)
  <2>1. om \in Seq(S)
    BY <1>5, <1>11, AppendFacts
  <2> QED BY <1>11, <2>1, ReverseFacts
<1>21. Same(q, w)
  BY <1>5, <1>10, <1>16, <1>17, <1>18, <1>20, SameIsEquivalence, SameConcat
<1>22. PICK z : IsAppend(z, C, D)
  BY DEF IsAppend
<1>23. Same(w, z)
  BY <1>5, <1>12, <1>19, <1>22, SameAppend
<1>24. Same(z, <<Plain(m)>>)
  BY <1>13, <1>22
<1>25. Same(q, <<Plain(m)>>)
  BY <1>21, <1>23, <1>24, SameIsEquivalence, Zenon
<1>26. Good(m, n + 1)
  BY <1>1, <1>25 DEF Good, q
<1> QED BY <1>13, <1>26 DEF m, C, D

-----------------------------------------------------------------------------
(* Collapsing the list, command by command. *)

K == INSTANCE FoldFacts WITH Op <- LAMBDA p, a, c : CollapseOne(a, c)

Collapsed(s) == K!Fold(0, [list |-> <<>>, elems |-> 0], s)

\* nft_cmd_collapse() is a fold.
LEMMA CollapsedIs ==
  ASSUME NEW s
  PROVE  nft_cmd_collapse(s) = Collapsed(s).list
BY Zenon DEF K!Fold, Collapsed, nft_cmd_collapse, K!FoldLeft, FoldLeft, K!MapThenFoldSet, MapThenFoldSet, K!Max, Max

Numbered(s) == \A i \in DOMAIN s : Fresh(s[i], i)

\* Only the last command of the collapsed list takes further elements.
CollapseInv(acc, s) ==
  /\ acc \in [list : Seq(LC), elems : Nat] /\ acc.elems \in {0, Len(acc.list)}
  /\ \A k \in DOMAIN acc.list : Good(acc.list[k], Len(s))
  /\ Same(PlainSeq(acc.list), PlainSeq(s))

\* A command that is kept as it is.
LEMMA CollapseAppends ==
  ASSUME NEW acc, NEW s \in Seq(LC), NEW d, Fresh(d, Len(s) + 1), NEW t, IsAppend(t, s, d),
         CollapseInv(acc, s), NEW l, IsAppend(l, acc.list, d), NEW k \in {0, Len(acc.list) + 1}
  PROVE  CollapseInv([list |-> l, elems |-> k], t)
<1>1. /\ acc.list \in Seq(LC) /\ \A j \in DOMAIN acc.list : Good(acc.list[j], Len(s))
      /\ Same(PlainSeq(acc.list), PlainSeq(s)) /\ Len(acc.list) \in Nat /\ Len(s) \in Nat /\ d \in LC
  BY DEF CollapseInv, Fresh
<1> DEFINE al == acc.list
<1>2. al \in Seq(LC) /\ IsAppend(l, al, d)
  BY <1>1
<1> HIDE DEF al
<1>3. l \in Seq(LC) /\ Len(l) = Len(al) + 1
  BY <1>1, <1>2, AppendFacts
<1>4. Len(t) = Len(s) + 1
  BY <1>1, AppendFacts
<1>5. PICK n : /\ \A j : j \in DOMAIN l <=> j \in DOMAIN al \/ j = n
               /\ n \notin DOMAIN al /\ l[n] = d /\ \A j \in DOMAIN al : l[j] = al[j]
  BY <1>1, <1>2, AppendIndices
<1>6. \A j \in DOMAIN l : Good(l[j], Len(t))
  <2>1. Good(d, Len(t))
    BY <1>1, <1>4, FreshGood
  <2>2. \A j \in DOMAIN al : Good(al[j], Len(t))
    BY <1>1, <1>4, GoodMonotone DEF al
  <2> QED BY <1>5, <2>1, <2>2
<1>7. \A x \in LC : Plain(x) \in Command
  BY DEF LC
<1>8. IsAppend(PlainSeq(l), PlainSeq(al), Plain(d)) /\ IsAppend(PlainSeq(t), PlainSeq(s), Plain(d))
  BY <1>1, <1>2, <1>7, PlainFacts, Zenon
<1>9. PlainSeq(al) \in Seq(Command) /\ PlainSeq(s) \in Seq(Command) /\ Plain(d) \in Command
  BY <1>1, <1>2, <1>7, PlainFacts, Zenon
<1>10. Same(PlainSeq(l), PlainSeq(t))
  BY <1>1, <1>8, <1>9, SameAppend DEF al
<1> DEFINE a == [list |-> l, elems |-> k]
<1>11. a.list = l /\ a.elems = k /\ a \in [list : Seq(LC), elems : Nat]
  BY <1>1, <1>3
<1>12. a.elems \in {0, Len(a.list)}
  BY <1>3, <1>11 DEF al
<1> HIDE DEF a
<1>13. CollapseInv(a, t)
  BY <1>6, <1>10, <1>11, <1>12 DEF CollapseInv
<1> QED BY <1>13 DEF a

\* Appending is concatenating with one.
LEMMA AppendConcat ==
  ASSUME NEW S, NEW f \in Seq(S), NEW x \in S, NEW g, IsAppend(g, f, x)
  PROVE  IsConcat(g, f, <<x>>)
BY DEF IsConcat, IsAppend

\* A command whose elements are moved to the one before it.
LEMMA CollapseMerges ==
  ASSUME NEW acc, NEW s \in Seq(LC), NEW d, Fresh(d, Len(s) + 1), NEW t, IsAppend(t, s, d),
         CollapseInv(acc, s), NEW k, k = acc.elems, k # 0,
         acc.list[k].op = d.op, acc.list[k].set = d.set, d.op \in {"add", "create"}
  PROVE  CollapseInv([list |-> [acc.list EXCEPT ![k] = Merge(acc.list[k], d)], elems |-> k], t)
<1> DEFINE al == acc.list
           n == k - 1
           f == SubSeq(al, 1, n)
           c == al[k]
           m == Merge(c, d)
           l == [al EXCEPT ![k] = m]
<1>1. /\ al \in Seq(LC) /\ \A j \in DOMAIN al : Good(al[j], Len(s))
      /\ Same(PlainSeq(al), PlainSeq(s)) /\ Len(s) \in Nat /\ d \in LC
      /\ k = Len(al) /\ k \in Nat /\ k = n + 1 /\ n \in Nat /\ k \in DOMAIN al
  BY DEF CollapseInv, Fresh
<1>2. f \in Seq(LC) /\ Len(f) = n /\ c \in LC /\ al = Append(f, c)
  BY <1>1, Split
<1>3. Good(c, Len(s)) /\ c.op \in {"add", "create"} /\ d.op = c.op /\ d.set = c.set
  BY <1>1
<1>4. /\ Good(m, Len(s) + 1)
      /\ \A z : IsAppend(z, <<Plain(c)>>, Plain(d)) => Same(z, <<Plain(m)>>)
  BY <1>1, <1>3, MergeGood
<1>5. m \in LC
  BY <1>4 DEF Good
<1>6. l \in Seq(LC) /\ Len(l) = k /\ l = Append(f, m) /\ DOMAIN l = DOMAIN al /\ \A j \in DOMAIN al : l[j] = IF j = k THEN m ELSE al[j]
  <2> HIDE DEF m
  <2>1. l \in Seq(LC) /\ Len(l) = k /\ DOMAIN l = DOMAIN al /\ \A j \in DOMAIN al : l[j] = IF j = k THEN m ELSE al[j]
    BY <1>1, <1>5
  <2>2. Append(f, m) \in Seq(LC) /\ Len(Append(f, m)) = k
    BY <1>1, <1>2, <1>5
  <2>3. \A j \in 1..k : l[j] = Append(f, m)[j]
    <3>1. \A j \in 1..n : f[j] = al[j]
      BY <1>1
    <3> QED BY <1>1, <1>2, <1>5, <2>1, <3>1
  <2> HIDE DEF l, f
  <2>4. l = Append(f, m)
    BY <1>1, <2>1, <2>2, <2>3, SMTT(30)
  <2> QED BY <2>1, <2>4
<1>7. IsAppend(al, f, c) /\ IsAppend(l, f, m)
  BY <1>2, <1>6, Zenon DEF IsAppend
<1>8. Len(t) = Len(s) + 1
  BY <1>1, AppendFacts
<1>9. \A j \in DOMAIN l : Good(l[j], Len(t))
  <2> HIDE DEF m, l
  <2>1. \A j \in DOMAIN al : Good(al[j], Len(t))
    BY <1>1, <1>8, GoodMonotone
  <2> QED BY <1>4, <1>6, <1>8, <2>1
<1> HIDE DEF al, f, c, m, l
<1>10. \A x \in LC : Plain(x) \in Command
  BY DEF LC
<1> DEFINE F == PlainSeq(f)
           G == PlainSeq(al)
           H1 == PlainSeq(l)
           C == Plain(c)
           D == Plain(d)
           M == Plain(m)
           one == <<C>>
           s1 == PlainSeq(s)
           t1 == PlainSeq(t)
<1>11. /\ IsAppend(G, F, C) /\ IsAppend(H1, F, M) /\ IsAppend(t1, s1, D)
  <2>1. IsAppend(PlainSeq(al), PlainSeq(f), Plain(c))
    BY <1>2, <1>7, <1>10, PlainFacts, Zenon
  <2>2. IsAppend(PlainSeq(l), PlainSeq(f), Plain(m))
    BY <1>2, <1>5, <1>7, <1>10, PlainFacts, Zenon
  <2>3. IsAppend(PlainSeq(t), PlainSeq(s), Plain(d))
    BY <1>1, <1>10, PlainFacts, Zenon
  <2> QED BY <2>1, <2>2, <2>3
<1>12. F \in Seq(Command) /\ s1 \in Seq(Command) /\ C \in Command /\ D \in Command /\ M \in Command
  BY <1>1, <1>2, <1>5, <1>10, PlainFacts
<1>13. one \in Seq(Command) /\ <<M>> \in Seq(Command)
  BY <1>12
<1>14. Same(G, s1) /\ \A z : IsAppend(z, one, D) => Same(z, <<M>>)
  BY <1>1, <1>4 DEF al
<1> HIDE DEF F, G, H1, C, D, M, s1, t1
<1>15. IsConcat(G, F, one) /\ IsConcat(H1, F, <<M>>)
  BY <1>11, <1>12, AppendConcat, Zenon
<1> HIDE DEF one
<1>16. PICK z : IsAppend(z, one, D)
  BY DEF IsAppend
<1>17. PICK H : IsConcat(H, F, z)
  BY DEF IsConcat
<1>18. z \in Seq(Command) /\ G \in Seq(Command)
  BY <1>12, <1>13, <1>15, <1>16, AppendFacts, ConcatFacts
<1>19. IsAppend(H, G, D)
  <2>1. \A x \in Command : \A tx, u, ux :
          IsAppend(tx, one, x) /\ IsConcat(u, F, one) /\ IsConcat(ux, F, tx) => IsAppend(ux, u, x)
    BY <1>12, <1>13, ConcatFacts, Zenon
  <2> QED BY <1>12, <1>15, <1>16, <1>17, <2>1, Zenon
<1>20. Same(H, t1)
  BY <1>11, <1>12, <1>14, <1>18, <1>19, SameAppend
<1>21. Same(H, H1)
  <2>1. Same(z, <<M>>) /\ Same(F, F)
    BY <1>14, <1>16, SameIsEquivalence, Zenon
  <2> DEFINE mm == <<M>>
  <2> HIDE DEF mm
  <2>2. Same(z, mm) /\ mm \in Seq(Command) /\ IsConcat(H1, F, mm)
    BY <1>13, <1>15, <2>1, Zenon DEF mm
  <2> QED BY <1>12, <1>17, <1>18, <2>1, <2>2, SameConcat
<1>22. Same(PlainSeq(l), PlainSeq(t))
  BY <1>20, <1>21, SameIsEquivalence, Zenon DEF H1, t1
<1> DEFINE a == [list |-> l, elems |-> k]
<1>23. a.list = l /\ a.elems = k /\ a \in [list : Seq(LC), elems : Nat] /\ a.elems \in {0, Len(a.list)}
  BY <1>1, <1>6
<1> HIDE DEF a
<1>24. CollapseInv(a, t)
  BY <1>9, <1>22, <1>23 DEF CollapseInv
<1> QED BY <1>24 DEF a, l, m, c, al

\* Each command, either way.
LEMMA CollapseStep ==
  ASSUME NEW acc, NEW s \in Seq(LC), NEW d, Fresh(d, Len(s) + 1), NEW t, IsAppend(t, s, d),
         CollapseInv(acc, s)
  PROVE  CollapseInv(CollapseOne(acc, d), t)
<1> DEFINE k == acc.elems
           l == Append(acc.list, d)
<1>0. IsAppend(l, acc.list, d) /\ acc \in [list : Seq(LC), elems : Nat]
  BY DEF IsAppend, CollapseInv
<1>1. CASE d.op \notin {"add", "create"} \/ ~IsElements(d)
  <2>1. CollapseOne(acc, d) = [list |-> l, elems |-> 0]
    BY <1>1 DEF CollapseOne
  <2> HIDE DEF l
  <2>2. CollapseInv([list |-> l, elems |-> 0], t)
    BY <1>0, CollapseAppends
  <2> QED BY <2>1, <2>2, Zenon
<1>2. CASE d.op \in {"add", "create"} /\ IsElements(d) /\ k # 0 /\ acc.list[k].op = d.op /\ acc.list[k].set = d.set
  <2> DEFINE m == Merge(acc.list[k], d)
             l1 == [acc.list EXCEPT ![k] = m]
  <2>1. CollapseOne(acc, d) = [acc EXCEPT !.list[k] = m]
    BY <1>2 DEF CollapseOne
  <2>2. CollapseOne(acc, d) = [list |-> l1, elems |-> k]
    BY <1>0, <2>1
  <2>3. CollapseInv([list |-> l1, elems |-> k], t)
    BY <1>2, CollapseMerges
  <2> QED BY <2>2, <2>3, Zenon
<1>3. CASE d.op \in {"add", "create"} /\ IsElements(d) /\ ~(k # 0 /\ acc.list[k].op = d.op /\ acc.list[k].set = d.set)
  <2>1. CollapseOne(acc, d) = [list |-> l, elems |-> Len(acc.list) + 1]
    BY <1>3 DEF CollapseOne
  <2> HIDE DEF l
  <2>2. CollapseInv([list |-> l, elems |-> Len(acc.list) + 1], t)
    BY <1>0, CollapseAppends
  <2> QED BY <2>1, <2>2, Zenon
<1> QED BY <1>1, <1>2, <1>3

\* The collapsed list means what the list means.
LEMMA CollapseKeeps ==
  \A s \in Seq(LC) : Numbered(s) => CollapseInv(Collapsed(s), s)
<1> DEFINE base == [list |-> <<>>, elems |-> 0]
           T == {s \in Seq(LC) : Numbered(s) => CollapseInv(K!Fold(0, base, s), s)}
<1>1. <<>> \in T
  <2>1. base \in [list : Seq(LC), elems : Nat] /\ base.list = <<>> /\ base.elems = 0
    OBVIOUS
  <2> HIDE DEF base
  <2>2. K!Fold(0, base, <<>>) = base
    BY K!FoldEmpty
  <2>3. CollapseInv(base, <<>>)
    BY <2>1, SameIsEquivalence DEF CollapseInv
  <2>4. <<>> \in Seq(LC)
    OBVIOUS
  <2> QED BY <2>2, <2>3, <2>4
<1> HIDE DEF base
<1>2. ASSUME NEW s \in Seq(LC), NEW d \in LC, NEW t, s \in T, IsAppend(t, s, d) PROVE t \in T
  <2>1. t \in Seq(LC)
    BY <1>2, AppendFacts
  <2>2. /\ Len(s) \in Nat /\ DOMAIN s = 1..Len(s) /\ DOMAIN t = 1..(Len(s) + 1)
        /\ t[Len(s) + 1] = d /\ \A i \in 1..Len(s) : t[i] = s[i]
    BY <1>2, AppendFacts
  <2>3. Numbered(t) => Numbered(s) /\ Fresh(d, Len(s) + 1)
    BY <2>2 DEF Numbered
  <2>4. K!IsAppend(t, s, d)
    BY <1>2 DEF IsAppend, K!IsAppend
  <2>5. K!Fold(0, base, t) = CollapseOne(K!Fold(0, base, s), d)
    BY <2>4, K!FoldAppend
  <2>6. Numbered(t) => CollapseInv(K!Fold(0, base, t), t)
    BY <1>2, <2>3, <2>5, CollapseStep
  <2> QED BY <2>1, <2>6
<1> HIDE DEF T
<1>3. Seq(LC) \subseteq T
  BY <1>1, <1>2, SeqInductionR
<1> QED BY <1>3 DEF T, Collapsed, base

-----------------------------------------------------------------------------
(* Putting the commands apart again. *)

UnSeq(list) == [k \in DOMAIN list |-> Un(list[k])]

\* nft_cmd_uncollapse() flattens what it puts apart.
LEMMA UncollapseIs ==
  ASSUME NEW list
  PROVE  nft_cmd_uncollapse(list) = FlattenSeq(UnSeq(list))
BY DEF nft_cmd_uncollapse, UnSeq, Un, Others

\* Putting apart what can be put apart changes no meaning.
LEMMA UncollapseSame ==
  ASSUME NEW n
  PROVE  \A list \in Seq({c \in LC : Good(c, n)}) :
           /\ nft_cmd_uncollapse(list) \in Seq(LC)
           /\ Same(PlainSeq(nft_cmd_uncollapse(list)), PlainSeq(list))
<1> DEFINE S == {c \in LC : Good(c, n)}
           U(list) == FlattenSeq(UnSeq(list))
           T == {list \in Seq(S) : U(list) \in Seq(LC) /\ Same(PlainSeq(U(list)), PlainSeq(list))}
           g == [c \in S |-> Un(c)]
<1>1. \A c \in S : c \in LC /\ Good(c, n) /\ Plain(c) \in Command
  BY DEF LC
<1>2. \A c \in S : g[c] = Un(c) /\ g[c] \in Seq(LC)
  BY <1>1, PlainUn
<1> HIDE DEF S, g
<1>3. \A s \in Seq(S) : UnSeq(s) = Mapped(g, s)
  BY <1>2 DEF UnSeq, Mapped
<1>4. \A x \in LC : Plain(x) \in Command
  BY DEF LC
<1>5. <<>> \in T
  <2>1. UnSeq(<<>>) = <<>> /\ <<>> \in Seq(S) /\ <<>> \in Seq(LC)
    BY DEF UnSeq
  <2>2. FlattenSeq(<<>>) = <<>>
    BY FlattenFacts
  <2> QED BY <2>1, <2>2, SameIsEquivalence
<1>6. ASSUME NEW s \in Seq(S), NEW c \in S, NEW t, s \in T, IsAppend(t, s, c) PROVE t \in T
  <2>1. t \in Seq(S)
    BY <1>6, AppendFacts
  <2>2. IsAppend(UnSeq(t), UnSeq(s), Un(c)) /\ UnSeq(s) \in Seq(Seq(LC))
    <3>1. IsAppend(Mapped(g, t), Mapped(g, s), g[c])
      BY <1>2, <1>6, MappedFacts, Zenon
    <3>2. Mapped(g, s) \in Seq(Seq(LC))
      BY <1>2, <1>6, MappedFacts, Zenon
    <3> QED BY <1>2, <1>3, <1>6, <2>1, <3>1, <3>2
  <2>3. Un(c) \in Seq(LC)
    BY <1>2
  <2>4. IsConcat(U(t), U(s), Un(c))
    <3>1. FlattenSeq(Append(UnSeq(s), Un(c))) = FlattenSeq(UnSeq(s)) \o Un(c)
      BY <2>2, <2>3, FlattenFacts
    <3> QED BY <2>2, <3>1, Zenon DEF IsAppend, IsConcat
  <2> DEFINE u == U(s)
             v == U(t)
             a == Un(c)
             pa == PlainSeq(a)
             pu == PlainSeq(u)
             pv == PlainSeq(v)
             ps == PlainSeq(s)
             pt == PlainSeq(t)
             C == <<Plain(c)>>
  <2>5. u \in Seq(LC) /\ Same(pu, ps) /\ a \in Seq(LC) /\ Same(pa, C) /\ IsConcat(v, u, a)
    BY <1>1, <1>6, <2>3, <2>4 DEF Good
  <2> HIDE DEF u, v, a
  <2>6. v \in Seq(LC)
    BY <2>5, ConcatFacts
  <2>7. IsConcat(pv, pu, pa)
    BY <1>4, <2>5, PlainFacts, Zenon
  <2>8. pu \in Seq(Command) /\ pa \in Seq(Command)
    BY <1>4, <2>5, PlainFacts
  <2>9. IsAppend(pt, ps, Plain(c)) /\ ps \in Seq(Command) /\ Plain(c) \in Command
    BY <1>1, <1>6, PlainFacts, Zenon
  <2>10. IsConcat(pt, ps, C) /\ C \in Seq(Command)
    BY <2>9, AppendConcat
  <2> HIDE DEF pu, pv, pa, ps, pt, C
  <2>11. Same(pv, pt)
    BY <2>5, <2>7, <2>8, <2>9, <2>10, SameConcat
  <2> QED BY <2>1, <2>6, <2>11 DEF pv, pt, v
<1> HIDE DEF T
<1>7. Seq(S) \subseteq T
  BY <1>5, <1>6, SeqInductionR
<1>8. \A list \in Seq(S) : U(list) \in Seq(LC) /\ Same(PlainSeq(U(list)), PlainSeq(list))
  BY <1>7 DEF T
<1> QED BY <1>8, UncollapseIs, Zenon DEF S

-----------------------------------------------------------------------------
\* The list as it is written.
LEMMA ListedIs ==
  ASSUME NEW given \in Seq(Command)
  PROVE  Listed(given) \in Seq(LC) /\ Numbered(Listed(given)) /\ PlainSeq(Listed(given)) = given
<1> DEFINE n == Len(given)
<1>1. n \in Nat /\ DOMAIN given = 1..n
  OBVIOUS
<1>2. ASSUME NEW k \in 1..n
      PROVE  LET c == Listed(given)[k] IN c \in LC /\ Fresh(c, k) /\ Plain(c) = given[k]
  <2> DEFINE c == Listed(given)[k]
             q == given[k]
             x == [i \in DOMAIN q.elems |-> [e |-> q.elems[i], cmd |-> 0]]
  <2>1. q \in Command /\ q.elems \in Seq(Element) /\ q = With(q.op, q.set, q.elems) /\ q.op \in Ops /\ q.set \in STRING
    <3>1. q \in Command
      OBVIOUS
    <3> HIDE DEF q
    <3> QED BY <3>1 DEF Command, Element, With, Ops
  <2>2. c = [id |-> k, op |-> q.op, set |-> q.set, collapse |-> <<>>, attr |-> <<>>, expr |-> x]
    BY <1>1 DEF Listed
  <2> HIDE DEF q, c
  <2>3. x \in Seq(Part) /\ Es(x) = q.elems /\ \A i \in DOMAIN x : x[i].cmd = 0
    <3>1. DOMAIN q.elems = 1..Len(q.elems) /\ Len(q.elems) \in Nat /\ \A i \in DOMAIN q.elems : q.elems[i] \in Element
      BY <2>1
    <3>2. \A i \in DOMAIN q.elems : x[i] \in Part /\ x[i].cmd = 0 /\ x[i].e = q.elems[i]
      BY <3>1 DEF Part
    <3>3. x = [i \in 1..Len(q.elems) |-> x[i]]
      BY <3>1
    <3>4. DOMAIN x = DOMAIN q.elems
      OBVIOUS
    <3> HIDE DEF x
    <3>5. x \in Seq(Part)
      BY <3>1, <3>2, <3>3, SeqBuild
    <3>6. Es(x) = [i \in 1..Len(q.elems) |-> q.elems[i]]
      BY <3>1, <3>2, <3>4 DEF Es
    <3>7. q.elems = [i \in 1..Len(q.elems) |-> q.elems[i]]
      BY <2>1
    <3>8. Es(x) = q.elems
      BY <3>6, <3>7, Zenon
    <3> QED BY <3>2, <3>4, <3>5, <3>8
  <2> HIDE DEF x
  <2>4. /\ c.id = k /\ c.op = q.op /\ c.set = q.set /\ c.expr = x /\ c.collapse = <<>>
        /\ c \in [id : Nat, op : Ops, set : STRING, collapse : Seq(Bare), attr : Nothing, expr : Seq(Part)]
    <3>1. <<>> \in Seq(Bare) /\ <<>> \in Nothing /\ k \in Nat
      BY <1>1 DEF Nothing
    <3> QED BY <2>1, <2>2, <2>3, <3>1
  <2>5. Plain(c) = q
    BY <2>1, <2>3, <2>4, Zenon DEF Plain
  <2>6. DOMAIN c.collapse = {}
    BY <2>4
  <2>7. c \in LC
    BY <2>1, <2>4, <2>5, <2>6 DEF LC
  <2> QED BY <2>3, <2>4, <2>5, <2>7 DEF Fresh, c, q
<1> DEFINE l == Listed(given)
<1>3. l = [k \in 1..n |-> l[k]] /\ DOMAIN l = 1..n
  BY <1>1 DEF Listed
<1> HIDE DEF l, n
<1>4. \A k \in 1..n : l[k] \in LC /\ Fresh(l[k], k) /\ Plain(l[k]) = given[k]
  BY <1>2 DEF l
<1>5. l \in Seq(LC)
  BY <1>1, <1>3, <1>4, SeqBuild
<1>6. Numbered(l)
  BY <1>3, <1>4 DEF Numbered
<1>7. PlainSeq(l) = [k \in 1..n |-> given[k]]
  BY <1>3, <1>4 DEF PlainSeq
<1>8. given = [k \in 1..n |-> given[k]]
  BY <1>1
<1> QED BY <1>5, <1>6, <1>7, <1>8 DEF l

\* Collapsing and putting apart changes nothing of what the input means.
THEOREM CollapseSame ==
  ASSUME NEW given \in Seq(Command)
  PROVE  LET l == nft_cmd_uncollapse(nft_cmd_collapse(Listed(given)))
         IN l \in Seq(LC) /\ Same(PlainSeq(l), given)
<1> DEFINE s == Listed(given)
           acc == Collapsed(s)
           n == Len(s)
<1>1. s \in Seq(LC) /\ Numbered(s) /\ PlainSeq(s) = given
  BY ListedIs
<1> HIDE DEF s
<1>2. CollapseInv(acc, s)
  BY <1>1, CollapseKeeps
<1> HIDE DEF acc
<1>3. /\ acc.list \in Seq(LC) /\ \A k \in DOMAIN acc.list : Good(acc.list[k], n)
      /\ Same(PlainSeq(acc.list), PlainSeq(s))
  BY <1>2 DEF CollapseInv
<1> DEFINE S == {c \in LC : Good(c, n)}
<1>4. \A k \in DOMAIN acc.list : acc.list[k] \in S
  BY <1>3
<1>5. acc.list \in Seq(S)
  BY <1>3, <1>4, SeqSubset
<1>6. /\ nft_cmd_uncollapse(acc.list) \in Seq(LC)
      /\ Same(PlainSeq(nft_cmd_uncollapse(acc.list)), PlainSeq(acc.list))
  BY <1>5, UncollapseSame, Zenon
<1>7. nft_cmd_collapse(s) = acc.list
  BY CollapsedIs DEF acc
<1>8. Same(PlainSeq(nft_cmd_uncollapse(acc.list)), given)
  BY <1>1, <1>3, <1>6, SameIsEquivalence, Zenon
<1> QED BY <1>6, <1>7, <1>8 DEF s

-----------------------------------------------------------------------------
(* Every command is there again, once, with the elements that are its own. *)

\* The commands that c holds elements of, by their place in the input.
Origin(c) == {c.id} \cup {c.collapse[j].id : j \in DOMAIN c.collapse}

\* The elements c holds are those of commands of g, each command once.
Holds(c, g) ==
  /\ With(c.op, c.set, Own(c.expr, 0)) = g[c.id]
  /\ \A j \in DOMAIN c.collapse : c.collapse[j].id # c.id /\ Os(c)[j] = g[c.collapse[j].id]
  /\ \A i, j \in DOMAIN c.collapse : c.collapse[i].id = c.collapse[j].id => i = j

\* The list holds the first n commands of g, each in one command.
Held(l, n, g) ==
  /\ \A k \in DOMAIN l : Holds(l[k], g) /\ Origin(l[k]) \subseteq 1..n
  /\ \A i, j \in DOMAIN l : i # j => Origin(l[i]) \cap Origin(l[j]) = {}
  /\ \A i \in 1..n : \E k \in DOMAIN l : i \in Origin(l[k])

\* A command of its own.
LEMMA HeldAppends ==
  ASSUME NEW al \in Seq(LC), NEW n \in Nat, NEW g, Held(al, n, g), NEW d, Fresh(d, n + 1),
         Plain(d) = g[n + 1], NEW l, IsAppend(l, al, d)
  PROVE  Held(l, n + 1, g)
<1>1. d \in LC /\ d.id = n + 1 /\ d.collapse = <<>> /\ d.expr \in Seq(Part) /\ \A i \in DOMAIN d.expr : d.expr[i].cmd = 0
  BY DEF Fresh, LC
<1>2. Own(d.expr, 0) = Es(d.expr)
  <2>1. d.expr \in Seq({x \in Part : x.cmd = 0})
    BY <1>1
  <2> QED BY <2>1, ReturnedAll
<1>3. Holds(d, g)
  BY <1>1, <1>2 DEF Holds, Plain
<1>4. Origin(d) = {n + 1}
  BY <1>1 DEF Origin
<1>5. PICK p : /\ \A j : j \in DOMAIN l <=> j \in DOMAIN al \/ j = p
               /\ p \notin DOMAIN al /\ l[p] = d /\ \A j \in DOMAIN al : l[j] = al[j]
  BY <1>1, AppendIndices
<1>6. /\ \A k \in DOMAIN al : Holds(al[k], g) /\ Origin(al[k]) \subseteq 1..n
      /\ \A i, j \in DOMAIN al : i # j => Origin(al[i]) \cap Origin(al[j]) = {}
      /\ \A i \in 1..n : \E k \in DOMAIN al : i \in Origin(al[k])
  BY DEF Held
<1>7. \A k \in DOMAIN l : Holds(l[k], g) /\ Origin(l[k]) \subseteq 1..(n + 1)
  BY <1>3, <1>4, <1>5, <1>6
<1>8. \A i, j \in DOMAIN l : i # j => Origin(l[i]) \cap Origin(l[j]) = {}
  <2>1. \A k \in DOMAIN al : n + 1 \notin Origin(al[k])
    BY <1>6
  <2> QED BY <1>4, <1>5, <1>6, <2>1
<1>9. \A i \in 1..(n + 1) : \E k \in DOMAIN l : i \in Origin(l[k])
  <2> TAKE i \in 1..(n + 1)
  <2>1. CASE i = n + 1
    BY <1>4, <1>5, <2>1
  <2>2. CASE i # n + 1
    <3>1. i \in 1..n
      BY <2>2
    <3> QED BY <1>5, <1>6, <3>1
  <2> QED BY <2>1, <2>2
<1> QED BY <1>7, <1>8, <1>9 DEF Held

\* The commands that a merged command holds elements of.
LEMMA MergeHolds ==
  ASSUME NEW c, NEW d, NEW n \in Nat, Good(c, n), Fresh(d, n + 1), c.op \in {"add", "create"},
         d.op = c.op, d.set = c.set, NEW g, Plain(d) = g[n + 1], Holds(c, g), Origin(c) \subseteq 1..n
  PROVE  LET m == Merge(c, d)
         IN Holds(m, g) /\ \A i : i \in Origin(m) <=> i \in Origin(c) \/ i = n + 1
<1> DEFINE m == Merge(c, d)
           b == [d EXCEPT !.expr = <<>>]
<1>1. /\ m \in LC /\ m.op = c.op /\ m.set = c.set /\ Own(m.expr, 0) = Own(c.expr, 0)
      /\ IsAppend(Os(m), Os(c), Plain(d))
  BY MergeIs, Zenon
<1>2. c \in LC /\ d \in LC /\ d.id = n + 1
  BY DEF Good, Fresh
<1>3. m.id = c.id /\ m.collapse = Append(c.collapse, b) /\ b.id = n + 1 /\ b \in Bare /\ c.collapse \in Seq(Bare)
  BY <1>2 DEF Merge, LC, Bare, Nothing, Fresh
<1> DEFINE nc == Len(c.collapse)
           cc == c.collapse
           mc == m.collapse
<1>4. IsAppend(mc, cc, b)
  BY <1>3, Zenon DEF IsAppend
<1>5. Os(c) \in Seq({With(c.op, c.set, e) : e \in Seq(Element)}) /\ Len(Os(c)) = nc
  BY <1>2, OthersType, Zenon
<1>6. Plain(d) \in {With(c.op, c.set, e) : e \in Seq(Element)}
  <2>1. d.expr \in Seq(Part) /\ \A x \in Part : x.e \in Element
    BY <1>2 DEF LC, Part
  <2>2. Es(d.expr) \in Seq(Element)
    BY <2>1, EsFacts, Zenon
  <2> QED BY <2>2 DEF Plain
<1> HIDE DEF m, b
<1>7. /\ DOMAIN cc = 1..nc /\ DOMAIN mc = 1..(nc + 1) /\ mc[nc + 1] = b /\ \A j \in 1..nc : mc[j] = cc[j]
      /\ nc \in Nat
  <2>1. nc \in Nat
    BY <1>3
  <2> HIDE DEF mc, cc
  <2>2. cc \in Seq(Bare) /\ nc = Len(cc)
    BY <1>3 DEF cc
  <2> HIDE DEF nc
  <2> QED BY <1>3, <1>4, <2>1, <2>2, AppendFacts
<1>8. Os(m)[nc + 1] = Plain(d) /\ \A j \in 1..nc : Os(m)[j] = Os(c)[j]
  <2> DEFINE S == {With(c.op, c.set, e) : e \in Seq(Element)}
             oc == Os(c)
  <2>1. oc \in Seq(S) /\ Plain(d) \in S /\ IsAppend(Os(m), oc, Plain(d)) /\ Len(oc) = nc
    BY <1>1, <1>5, <1>6, Zenon
  <2> HIDE DEF S, oc
  <2>2. Os(m)[Len(oc) + 1] = Plain(d) /\ \A j \in 1..Len(oc) : Os(m)[j] = oc[j]
    BY <2>1, AppendFacts
  <2> QED BY <2>1, <2>2, Zenon DEF oc
<1>9. \A j \in 1..nc : cc[j].id \in 1..n
  BY <1>7 DEF Origin
<1>10. c.id \in 1..n
  BY DEF Origin
<1> HIDE DEF nc
<1>11. \A i : i \in Origin(m) <=> i \in Origin(c) \/ i = n + 1
  <2>1. \A i : i \in Origin(m) <=> i = m.id \/ \E j \in DOMAIN mc : i = mc[j].id
    BY DEF Origin
  <2>2. \A i : i \in Origin(c) <=> i = c.id \/ \E j \in DOMAIN cc : i = cc[j].id
    BY DEF Origin
  <2>3. \A j : j \in 1..(nc + 1) <=> j \in 1..nc \/ j = nc + 1
    BY <1>7
  <2> HIDE DEF mc, cc
  <2> QED BY <1>3, <1>7, <2>1, <2>2, <2>3
<1>12. Holds(m, g)
  <2>1. With(m.op, m.set, Own(m.expr, 0)) = g[m.id]
    BY <1>1, <1>3 DEF Holds
  <2>2. \A j \in DOMAIN mc : mc[j].id # m.id /\ Os(m)[j] = g[mc[j].id]
    <3> TAKE j \in DOMAIN mc
    <3>1. CASE j = nc + 1
      BY <1>3, <1>7, <1>8, <1>10, <3>1
    <3>2. CASE j # nc + 1
      <4>1. j \in 1..nc
        BY <1>7, <3>2
      <4>2. cc[j].id # c.id /\ Os(c)[j] = g[cc[j].id]
        BY <1>7, <4>1 DEF Holds
      <4> QED BY <1>3, <1>7, <1>8, <4>1, <4>2
    <3> QED BY <3>1, <3>2
  <2>3. \A i, j \in DOMAIN mc : mc[i].id = mc[j].id => i = j
    <3>1. \A i, j \in 1..nc : cc[i].id = cc[j].id => i = j
      BY <1>7 DEF Holds
    <3>2. \A j \in 1..(nc + 1) : j \in 1..nc \/ j = nc + 1
      BY <1>7
    <3>3. \A j \in 1..nc : cc[j].id # n + 1
      BY <1>9
    <3> HIDE DEF cc, mc
    <3> QED BY <1>3, <1>7, <3>1, <3>2, <3>3
  <2> QED BY <2>1, <2>2, <2>3 DEF Holds
<1> QED BY <1>11, <1>12 DEF m

\* A command whose elements are moved.
LEMMA HeldMerges ==
  ASSUME NEW al \in Seq(LC), NEW n \in Nat, NEW g, Held(al, n, g), NEW d, Fresh(d, n + 1),
         Plain(d) = g[n + 1], NEW k \in DOMAIN al, Good(al[k], n), d.op \in {"add", "create"},
         al[k].op = d.op, al[k].set = d.set
  PROVE  Held([al EXCEPT ![k] = Merge(al[k], d)], n + 1, g)
<1> DEFINE c == al[k]
           m == Merge(c, d)
           l == [al EXCEPT ![k] = m]
<1>1. /\ \A j \in DOMAIN al : Holds(al[j], g) /\ Origin(al[j]) \subseteq 1..n
      /\ \A i, j \in DOMAIN al : i # j => Origin(al[i]) \cap Origin(al[j]) = {}
      /\ \A i \in 1..n : \E j \in DOMAIN al : i \in Origin(al[j])
  BY DEF Held
<1>2. Holds(m, g) /\ \A i : i \in Origin(m) <=> i \in Origin(c) \/ i = n + 1
  <2>1. /\ Good(c, n) /\ Fresh(d, n + 1) /\ c.op \in {"add", "create"} /\ d.op = c.op /\ d.set = c.set
        /\ Plain(d) = g[n + 1] /\ Holds(c, g) /\ Origin(c) \subseteq 1..n
    BY <1>1
  <2> HIDE DEF c
  <2> QED BY <2>1, MergeHolds, Zenon
<1> HIDE DEF m
<1>3. DOMAIN l = DOMAIN al /\ l[k] = m /\ \A j \in DOMAIN al : j # k => l[j] = al[j]
  OBVIOUS
<1> HIDE DEF l
<1>4. \A j \in DOMAIN al : n + 1 \notin Origin(al[j])
  BY <1>1
<1>5. \A j \in DOMAIN l : Holds(l[j], g) /\ Origin(l[j]) \subseteq 1..(n + 1)
  BY <1>1, <1>2, <1>3
<1>6. \A i, j \in DOMAIN l : i # j => Origin(l[i]) \cap Origin(l[j]) = {}
  BY <1>1, <1>2, <1>3, <1>4
<1>7. \A i \in 1..(n + 1) : \E j \in DOMAIN l : i \in Origin(l[j])
  <2> TAKE i \in 1..(n + 1)
  <2>1. CASE i = n + 1
    BY <1>2, <1>3, <2>1
  <2>2. CASE i # n + 1
    <3>1. i \in 1..n
      BY <2>2
    <3>2. PICK j \in DOMAIN al : i \in Origin(al[j])
      BY <1>1, <3>1
    <3>3. i \in Origin(l[j])
      BY <1>2, <1>3, <3>2
    <3> QED BY <1>3, <3>3
  <2> QED BY <2>1, <2>2
<1>8. Held(l, n + 1, g)
  BY <1>5, <1>6, <1>7 DEF Held
<1> QED BY <1>8 DEF l, m

\* Each command, either way.
LEMMA HeldStep ==
  ASSUME NEW acc, NEW s \in Seq(LC), NEW d, Fresh(d, Len(s) + 1), CollapseInv(acc, s),
         NEW g, Held(acc.list, Len(s), g), Plain(d) = g[Len(s) + 1]
  PROVE  Held(CollapseOne(acc, d).list, Len(s) + 1, g)
<1> DEFINE k == acc.elems
           al == acc.list
           l == Append(al, d)
           n == Len(s)
<1>1. /\ al \in Seq(LC) /\ acc \in [list : Seq(LC), elems : Nat] /\ k \in {0, Len(al)} /\ Len(al) \in Nat
      /\ DOMAIN al = 1..Len(al) /\ \A j \in DOMAIN al : Good(al[j], n)
  BY DEF CollapseInv
<1>2. n \in Nat /\ IsAppend(l, al, d)
  BY DEF IsAppend
<1>3. Held(l, n + 1, g)
  <2> HIDE DEF l, n, al
  <2> QED BY <1>1, <1>2, HeldAppends DEF n, al
<1>4. CASE d.op \in {"add", "create"} /\ IsElements(d) /\ k # 0 /\ al[k].op = d.op /\ al[k].set = d.set
  <2> DEFINE m == Merge(al[k], d)
             l1 == [al EXCEPT ![k] = m]
  <2>1. CollapseOne(acc, d) = [acc EXCEPT !.list[k] = m]
    BY <1>4 DEF CollapseOne
  <2>2. CollapseOne(acc, d).list = l1
    BY <1>1, <2>1
  <2>3. k \in DOMAIN al
    BY <1>1, <1>4
  <2>4. Held(l1, n + 1, g)
    <3>1. Good(al[k], n) /\ Held(al, n, g) /\ Fresh(d, n + 1) /\ Plain(d) = g[n + 1]
      BY <1>1, <2>3
    <3> HIDE DEF al, n, k
    <3> QED BY <1>1, <1>2, <1>4, <2>3, <3>1, HeldMerges, Zenon
  <2> QED BY <2>2, <2>4, Zenon
<1>5. CASE ~(d.op \in {"add", "create"} /\ IsElements(d) /\ k # 0 /\ al[k].op = d.op /\ al[k].set = d.set)
  <2>1. CollapseOne(acc, d).list = l
    BY <1>5 DEF CollapseOne
  <2> QED BY <1>3, <2>1, Zenon
<1> QED BY <1>4, <1>5

\* The collapsed list holds all commands.
LEMMA CollapseHolds ==
  ASSUME NEW g
  PROVE  \A s \in Seq(LC) : Numbered(s) /\ (\A i \in DOMAIN s : Plain(s[i]) = g[i]) => Held(Collapsed(s).list, Len(s), g)
<1> DEFINE base == [list |-> <<>>, elems |-> 0]
           H(s) == Numbered(s) /\ \A i \in DOMAIN s : Plain(s[i]) = g[i]
           T == {s \in Seq(LC) : H(s) => Held(K!Fold(0, base, s).list, Len(s), g)}
<1>1. <<>> \in T
  <2>1. base.list = <<>>
    OBVIOUS
  <2> HIDE DEF base
  <2>2. K!Fold(0, base, <<>>) = base
    BY K!FoldEmpty
  <2>3. Held(<<>>, 0, g)
    BY DEF Held
  <2>4. <<>> \in Seq(LC) /\ Len(<<>>) = 0
    OBVIOUS
  <2> QED BY <2>1, <2>2, <2>3, <2>4
<1>2. ASSUME NEW s \in Seq(LC), NEW d \in LC, NEW t, s \in T, IsAppend(t, s, d) PROVE t \in T
  <2>1. t \in Seq(LC)
    BY <1>2, AppendFacts
  <2>2. /\ Len(s) \in Nat /\ DOMAIN s = 1..Len(s) /\ DOMAIN t = 1..(Len(s) + 1) /\ Len(t) = Len(s) + 1
        /\ t[Len(s) + 1] = d /\ \A i \in 1..Len(s) : t[i] = s[i]
    <3>1. IsAppend(t, s, d)
      BY <1>2
    <3> HIDE DEF T
    <3>2. Len(t) = Len(s) + 1
      BY <3>1, AppendFacts
    <3>3. DOMAIN s = 1..Len(s)
      BY <3>1, AppendFacts
    <3>4. DOMAIN t = 1..(Len(s) + 1)
      BY <3>1, AppendFacts
    <3>5. t[Len(s) + 1] = d
      BY <3>1, AppendFacts
    <3>6. \A i \in 1..Len(s) : t[i] = s[i]
      BY <3>1, AppendFacts
    <3> QED BY <3>2, <3>3, <3>4, <3>5, <3>6
  <2>3. H(t) => H(s) /\ Fresh(d, Len(s) + 1) /\ Plain(d) = g[Len(s) + 1]
    BY <2>2 DEF Numbered
  <2>4. K!IsAppend(t, s, d)
    BY <1>2 DEF IsAppend, K!IsAppend
  <2>5. K!Fold(0, base, t) = CollapseOne(K!Fold(0, base, s), d)
    BY <2>4, K!FoldAppend
  <2>6. H(s) => CollapseInv(K!Fold(0, base, s), s)
    BY CollapseKeeps DEF Collapsed
  <2>7. H(t) => Held(K!Fold(0, base, t).list, Len(t), g)
    <3>1. SUFFICES ASSUME H(t) PROVE Held(K!Fold(0, base, t).list, Len(t), g)
      OBVIOUS
    <3> DEFINE a == K!Fold(0, base, s)
    <3>2. Fresh(d, Len(s) + 1) /\ Plain(d) = g[Len(s) + 1] /\ CollapseInv(a, s) /\ Held(a.list, Len(s), g)
      BY <1>2, <2>3, <2>6, <3>1
    <3> HIDE DEF a, H
    <3>3. Held(CollapseOne(a, d).list, Len(s) + 1, g)
      BY <3>2, HeldStep
    <3> QED BY <2>2, <2>5, <3>3, Zenon DEF a
  <2> QED BY <2>1, <2>7
<1> HIDE DEF T
<1>3. Seq(LC) \subseteq T
  BY <1>1, <1>2, SeqInductionR
<1> QED BY <1>3 DEF T, Collapsed, base

\* The commands of l are those of g whose places are ids, each once.
Restored(l, g, ids) ==
  /\ \A k \in DOMAIN l : l[k].id \in ids /\ Plain(l[k]) = g[l[k].id]
  /\ \A i, j \in DOMAIN l : l[i].id = l[j].id => i = j
  /\ \A i \in ids : \E k \in DOMAIN l : l[k].id = i

\* Two lists with different commands.
LEMMA RestoredConcat ==
  ASSUME NEW g, NEW I, NEW J, I \cap J = {}, NEW s \in Seq(LC), NEW t \in Seq(LC), NEW u, IsConcat(u, s, t),
         Restored(s, g, I), Restored(t, g, J)
  PROVE  Restored(u, g, I \cup J)
<1>1. /\ u \in Seq(LC) /\ Len(u) = Len(s) + Len(t) /\ Len(s) \in Nat /\ Len(t) \in Nat
      /\ DOMAIN u = 1..(Len(s) + Len(t)) /\ DOMAIN s = 1..Len(s) /\ DOMAIN t = 1..Len(t)
  <2>1. u \in Seq(LC) /\ Len(u) = Len(s) + Len(t)
    BY ConcatFacts, Zenon
  <2> QED BY <2>1
<1>2. /\ \A i \in 1..Len(s) : u[i] = s[i]
      /\ \A i \in (Len(s) + 1)..(Len(s) + Len(t)) : u[i] = t[i - Len(s)]
  BY ConcatElements DEF IsConcat
<1> DEFINE p == Len(s)
           q == Len(t)
<1> HIDE DEF p, q
<1>3. \A i \in 1..(p + q) : \/ i \in 1..p /\ u[i] = s[i]
                            \/ i - p \in 1..q /\ u[i] = t[i - p] /\ i \notin 1..p
  BY <1>1, <1>2 DEF p, q
<1>4. /\ \A i \in 1..p : i \in 1..(p + q) /\ u[i] = s[i]
      /\ \A i \in 1..q : p + i \in 1..(p + q) /\ u[p + i] = t[i]
  <2>1. p \in Nat /\ q \in Nat
    BY <1>1 DEF p, q
  <2>2. \A i \in 1..q : p + i \in (p + 1)..(p + q) /\ (p + i) - p = i
    BY <2>1
  <2> QED BY <1>1, <1>2, <2>1, <2>2 DEF p, q
<1>5. \A i, j \in 1..(p + q) : i - p = j - p => i = j
  BY <1>1 DEF p, q
<1>6. DOMAIN u = 1..(p + q) /\ DOMAIN s = 1..p /\ DOMAIN t = 1..q
  BY <1>1 DEF p, q
<1>7. \A k \in DOMAIN u : u[k].id \in I \cup J /\ Plain(u[k]) = g[u[k].id]
  BY <1>3, <1>6 DEF Restored
<1>8. \A i, j \in DOMAIN u : u[i].id = u[j].id => i = j
  BY <1>3, <1>5, <1>6 DEF Restored
<1>9. \A i \in I \cup J : \E k \in DOMAIN u : u[k].id = i
  BY <1>4, <1>6 DEF Restored
<1> QED BY <1>7, <1>8, <1>9 DEF Restored

\* What one command is put apart into.
LEMMA UnRestored ==
  ASSUME NEW c \in LC, NEW g, Holds(c, g)
  PROVE  Restored(Un(c), g, Origin(c))
<1> DEFINE a == [c EXCEPT !.expr = Returned(@, 0), !.collapse = <<>>]
           os == Others(c)
           rev == Reverse(os)
           nc == Len(c.collapse)
           I == {c.id}
           J == {c.collapse[j].id : j \in DOMAIN c.collapse}
           one == <<a>>
<1>1. /\ c \in [id : Nat, op : Ops, set : STRING, collapse : Seq(Bare), attr : Nothing, expr : Seq(Part)]
      /\ With(c.op, c.set, Es(c.expr)) \in Command /\ c.expr \in Seq(Part)
  BY DEF LC, Plain
<1>2. a.id = c.id /\ a.op = c.op /\ a.set = c.set /\ a.expr = Returned(c.expr, 0) /\ a.collapse = <<>>
  BY <1>1
<1>3. a \in LC
  <2>0. <<>> \in Seq(Bare)
    OBVIOUS
  <2>1. Returned(c.expr, 0) \in Seq(Part)
    BY <1>1, ReturnedType
  <2>2. a \in [id : Nat, op : Ops, set : STRING, collapse : Seq(Bare), attr : Nothing, expr : Seq(Part)]
    BY <1>1, <2>0, <2>1
  <2> HIDE DEF a
  <2>3. Plain(a) = With(c.op, c.set, Own(c.expr, 0)) /\ Own(c.expr, 0) \in Seq(Element)
    BY <1>1, <1>2, OwnType DEF Plain, Own
  <2>4. Plain(a) \in Command
    BY <1>1, <2>3, CommandWith
  <2> QED BY <1>2, <2>2, <2>4 DEF LC
<1> HIDE DEF a
<1>4. Restored(one, g, I)
  <2>1. Plain(a) = g[c.id]
    BY <1>2 DEF Holds, Plain, Own
  <2>2. DOMAIN one = {1} /\ one[1] = a
    OBVIOUS
  <2> HIDE DEF one
  <2> QED BY <1>2, <2>1, <2>2 DEF Restored
<1>5. one \in Seq(LC)
  BY <1>3
<1>6. /\ os \in Seq(LC) /\ Len(os) = nc /\ nc \in Nat /\ DOMAIN c.collapse = 1..nc
      /\ \A j \in 1..nc : Plain(os[j]) = Os(c)[j] /\ os[j].id = c.collapse[j].id
  <2>1. os \in Seq(LC) /\ Len(os) = nc /\ \A j \in 1..nc : Plain(os[j]) = Os(c)[j]
    BY OthersType
  <2>2. nc \in Nat /\ DOMAIN c.collapse = 1..nc /\ \A j \in 1..nc : c.collapse[j] \in Bare
    BY <1>1
  <2>3. \A j \in 1..nc : os[j].id = c.collapse[j].id
    <3> TAKE j \in 1..nc
    <3> DEFINE b == c.collapse[j]
    <3>1. os[j] = [b EXCEPT !.expr = Returned(c.expr, b.id)]
      BY <2>2 DEF Others
    <3>2. b \in Bare
      BY <2>2
    <3> HIDE DEF b
    <3>3. [b EXCEPT !.expr = Returned(c.expr, b.id)].id = b.id
      BY <3>2 DEF Bare
    <3> QED BY <3>1, <3>3 DEF b
  <2> QED BY <2>1, <2>2, <2>3
<1> HIDE DEF os
<1>7. rev \in Seq(LC) /\ DOMAIN rev = 1..nc /\ \A j \in 1..nc : rev[j] = os[nc + 1 - j]
  <2>1. rev \in Seq(LC)
    BY <1>6, ReverseFacts
  <2> QED BY <1>6, <2>1 DEF Reverse
<1> HIDE DEF rev, nc
<1>8. \A j \in 1..nc : c.collapse[j].id # c.id /\ Os(c)[j] = g[c.collapse[j].id]
  BY <1>6 DEF Holds
<1>9. \A i, j \in 1..nc : c.collapse[i].id = c.collapse[j].id => i = j
  BY <1>6 DEF Holds
<1>10. Restored(rev, g, J)
  <2>1. \A j \in 1..nc : nc + 1 - j \in 1..nc /\ nc + 1 - (nc + 1 - j) = j
    BY <1>6
  <2>2. \A j \in 1..nc : rev[j].id = c.collapse[nc + 1 - j].id /\ Plain(rev[j]) = g[rev[j].id]
    <3> TAKE j \in 1..nc
    <3> DEFINE i == nc + 1 - j
    <3>1. i \in 1..nc /\ rev[j] = os[i]
      BY <1>7, <2>1
    <3> HIDE DEF i
    <3>2. Plain(os[i]) = Os(c)[i] /\ os[i].id = c.collapse[i].id /\ Os(c)[i] = g[c.collapse[i].id]
      BY <1>6, <1>8, <3>1
    <3> QED BY <3>1, <3>2 DEF i
  <2>3. \A k \in DOMAIN rev : rev[k].id \in J /\ Plain(rev[k]) = g[rev[k].id]
    <3>1. \A j \in 1..nc : c.collapse[j].id \in J
      BY <1>6
    <3> HIDE DEF J
    <3> QED BY <1>7, <2>1, <2>2, <3>1
  <2>4. \A i, j \in DOMAIN rev : rev[i].id = rev[j].id => i = j
    <3> TAKE i, j \in DOMAIN rev
    <3>1. HAVE rev[i].id = rev[j].id
    <3>2. i \in 1..nc /\ j \in 1..nc
      BY <1>7
    <3>3. nc + 1 - i = nc + 1 - j
      BY <1>9, <2>1, <2>2, <3>1, <3>2
    <3> QED BY <1>6, <3>2, <3>3
  <2>5. \A i \in J : \E k \in DOMAIN rev : rev[k].id = i
    <3> TAKE i \in J
    <3>1. PICK j \in 1..nc : i = c.collapse[j].id
      BY <1>6
    <3>2. nc + 1 - j \in DOMAIN rev /\ rev[nc + 1 - j].id = i
      BY <1>7, <2>1, <2>2, <3>1
    <3> QED BY <3>2
  <2> QED BY <2>3, <2>4, <2>5 DEF Restored
<1>11. I \cap J = {}
  BY <1>6, <1>8
<1>12. IsConcat(Un(c), one, rev)
  BY Zenon DEF Un, IsConcat, a, one, rev, os
<1>13. Origin(c) = I \cup J
  BY DEF Origin
<1> HIDE DEF one, I, J
<1>14. Restored(Un(c), g, I \cup J)
  BY <1>4, <1>5, <1>7, <1>10, <1>11, <1>12, RestoredConcat
<1> QED BY <1>13, <1>14

\* The places of the commands a list holds.
Origins(list) == UNION {Origin(list[k]) : k \in DOMAIN list}

\* What a collapsed list is put apart into.
LEMMA UncollapseRestored ==
  ASSUME NEW g
  PROVE  \A list \in Seq(LC) :
           /\ \A k \in DOMAIN list : Holds(list[k], g)
           /\ \A i, j \in DOMAIN list : i # j => Origin(list[i]) \cap Origin(list[j]) = {}
           => Restored(nft_cmd_uncollapse(list), g, Origins(list))
<1> DEFINE U(list) == FlattenSeq(UnSeq(list))
           H(list) == /\ \A k \in DOMAIN list : Holds(list[k], g)
                      /\ \A i, j \in DOMAIN list : i # j => Origin(list[i]) \cap Origin(list[j]) = {}
           T == {list \in Seq(LC) : U(list) \in Seq(LC) /\ (H(list) => Restored(U(list), g, Origins(list)))}
           f == [c \in LC |-> Un(c)]
<1>2. \A c \in LC : f[c] = Un(c) /\ f[c] \in Seq(LC)
  BY PlainUn
<1> HIDE DEF f
<1>3. \A s \in Seq(LC) : UnSeq(s) = Mapped(f, s)
  BY <1>2 DEF UnSeq, Mapped
<1>5. <<>> \in T
  <2>1. UnSeq(<<>>) = <<>> /\ <<>> \in Seq(LC)
    BY DEF UnSeq
  <2>2. FlattenSeq(<<>>) = <<>>
    BY FlattenFacts
  <2>3. Origins(<<>>) = {}
    BY DEF Origins
  <2>4. Restored(<<>>, g, {})
    BY DEF Restored
  <2> QED BY <2>1, <2>2, <2>3, <2>4
<1>6. ASSUME NEW s \in Seq(LC), NEW c \in LC, NEW t, s \in T, IsAppend(t, s, c) PROVE t \in T
  <2>1. t \in Seq(LC)
    BY <1>6, AppendFacts
  <2>2. IsAppend(UnSeq(t), UnSeq(s), Un(c)) /\ UnSeq(s) \in Seq(Seq(LC))
    <3>1. IsAppend(Mapped(f, t), Mapped(f, s), f[c])
      BY <1>2, <1>6, MappedFacts, Zenon
    <3>2. Mapped(f, s) \in Seq(Seq(LC))
      BY <1>2, <1>6, MappedFacts, Zenon
    <3> QED BY <1>2, <1>3, <1>6, <2>1, <3>1, <3>2
  <2>3. Un(c) \in Seq(LC)
    BY <1>2
  <2>4. IsConcat(U(t), U(s), Un(c))
    <3>1. FlattenSeq(Append(UnSeq(s), Un(c))) = FlattenSeq(UnSeq(s)) \o Un(c)
      BY <2>2, <2>3, FlattenFacts
    <3> QED BY <2>2, <3>1, Zenon DEF IsAppend, IsConcat
  <2> DEFINE u == U(s)
             v == U(t)
             a == Un(c)
  <2>5. u \in Seq(LC) /\ (H(s) => Restored(u, g, Origins(s))) /\ a \in Seq(LC) /\ IsConcat(v, u, a)
    BY <1>6, <2>3, <2>4
  <2>6. v \in Seq(LC)
    <3> HIDE DEF u, v, a
    <3> QED BY <2>5, ConcatFacts
  <2>7. PICK p : /\ \A j : j \in DOMAIN t <=> j \in DOMAIN s \/ j = p
                 /\ p \notin DOMAIN s /\ t[p] = c /\ \A j \in DOMAIN s : t[j] = s[j]
    BY <1>6, AppendIndices
  <2>8. H(t) => H(s) /\ Holds(c, g) /\ Origins(s) \cap Origin(c) = {}
    <3>1. SUFFICES ASSUME H(t) PROVE H(s) /\ Holds(c, g) /\ Origins(s) \cap Origin(c) = {}
      OBVIOUS
    <3>2. H(s) /\ Holds(c, g)
      BY <2>7, <3>1
    <3>3. \A j \in DOMAIN s : Origin(s[j]) \cap Origin(c) = {}
      <4> TAKE j \in DOMAIN s
      <4>1. j \in DOMAIN t /\ p \in DOMAIN t /\ j # p /\ t[j] = s[j] /\ t[p] = c
        BY <2>7
      <4> QED BY <3>1, <4>1
    <3>4. Origins(s) \cap Origin(c) = {}
      BY <3>3 DEF Origins
    <3> QED BY <3>2, <3>4
  <2>9. Origins(t) = Origins(s) \cup Origin(c)
    BY <2>7 DEF Origins
  <2>10. H(t) => Restored(v, g, Origins(t))
    <3> DEFINE ht == H(t)
               hs == H(s)
               I == Origins(s)
               J == Origin(c)
    <3>1. (ht => hs /\ Holds(c, g) /\ I \cap J = {}) /\ (hs => Restored(u, g, I)) /\ Origins(t) = I \cup J
      BY <2>5, <2>8, <2>9
    <3> HIDE DEF u, v, a, ht, hs, I, J
    <3>2. ht => Restored(a, g, J)
      BY <3>1, <1>6, UnRestored DEF a, J
    <3>3. ht => Restored(v, g, I \cup J)
      BY <2>5, <3>1, <3>2, RestoredConcat
    <3> QED BY <3>1, <3>3 DEF ht
  <2> QED BY <2>1, <2>6, <2>10
<1> HIDE DEF T
<1>7. Seq(LC) \subseteq T
  BY <1>5, <1>6, SeqInductionR
<1>8. \A list \in Seq(LC) : H(list) => Restored(U(list), g, Origins(list))
  BY <1>7 DEF T
<1> QED BY <1>8, UncollapseIs, Zenon

\* nft_cmd_collapse() and nft_cmd_uncollapse(): each command of the input is there
\* again, once, with its own elements, though not in the order of the input.
THEOREM CollapseRestores ==
  ASSUME NEW given \in Seq(Command)
  PROVE  Restored(nft_cmd_uncollapse(nft_cmd_collapse(Listed(given))), given, DOMAIN given)
<1> DEFINE s == Listed(given)
           acc == Collapsed(s)
           n == Len(s)
<1>1. s \in Seq(LC) /\ Numbered(s) /\ PlainSeq(s) = given
  BY ListedIs
<1> HIDE DEF s
<1>2. \A i \in DOMAIN s : Plain(s[i]) = given[i]
  BY <1>1 DEF PlainSeq
<1>3. CollapseInv(acc, s) /\ Held(acc.list, n, given)
  BY <1>1, <1>2, CollapseKeeps, CollapseHolds
<1> HIDE DEF acc
<1> DEFINE l == acc.list
<1>4. l \in Seq(LC)
  BY <1>3 DEF CollapseInv
<1>5. /\ \A k \in DOMAIN l : Holds(l[k], given) /\ Origin(l[k]) \subseteq 1..n
      /\ \A i, j \in DOMAIN l : i # j => Origin(l[i]) \cap Origin(l[j]) = {}
      /\ \A i \in 1..n : \E k \in DOMAIN l : i \in Origin(l[k])
  BY <1>3 DEF Held
<1> HIDE DEF l
<1>6. Restored(nft_cmd_uncollapse(l), given, Origins(l))
  BY <1>4, <1>5, UncollapseRestored
<1>7. Origins(l) = 1..n
  BY <1>5 DEF Origins
<1>8. DOMAIN given = 1..n
  BY <1>1 DEF PlainSeq
<1>9. nft_cmd_collapse(s) = l
  BY CollapsedIs DEF acc, l
<1> QED BY <1>6, <1>7, <1>8, <1>9 DEF s

-----------------------------------------------------------------------------
(* The kernel on one message. *)

\* An element in a message.
Entry == [e : Element, off : Nat]

\* The command a message asks for.
PlainMsg(m) == With(m.op, m.set, Es(m.elems))

L == INSTANCE FoldFacts WITH Op <- LAMBDA p, a, x : TryElem(a, p, x)

Tried(m, r) == FoldLeft(LAMBDA a, x : TryElem(a, m, x), [r |-> r, bad |-> <<>>], m.elems)

\* Trying a message is a fold over its elements.
LEMMA TriedIs ==
  ASSUME NEW m, NEW r
  PROVE  Tried(m, r) = L!Fold(m, [r |-> r, bad |-> <<>>], m.elems)
BY Zenon DEF L!Fold, Tried, L!FoldLeft, FoldLeft, L!MapThenFoldSet, MapThenFoldSet, L!Max, Max

\* Elements are tried until one is not liked.
TriedInv(t, r, op, set, s) ==
  /\ t = [r |-> t.r, bad |-> t.bad] /\ t.bad \in Seq(Entry)
  /\ t.bad = <<>> <=> Atomic!Acceptable(r, With(op, set, Es(s)))
  /\ t.bad = <<>> => t.r = Atomic!Effect(r, With(op, set, Es(s)))

\* One element more.
LEMMA TryElemStep ==
  ASSUME NEW m, m.op \in Changes, NEW r, NEW s \in Seq(Entry), NEW x \in Entry, NEW t, IsAppend(t, s, x),
         NEW a, TriedInv(a, r, m.op, m.set, s)
  PROVE  TriedInv(TryElem(a, m, x), r, m.op, m.set, t)
<1> DEFINE y == <<m.set, x.e>>
           c == With(m.op, m.set, Es(s))
           cx == With(m.op, m.set, Es(t))
<1>1. a = [r |-> a.r, bad |-> a.bad] /\ a.bad \in Seq(Entry)
  BY DEF TriedInv
<1>2. a.bad = <<>> <=> Atomic!Acceptable(r, c)
  BY DEF TriedInv
<1>3. a.bad = <<>> => a.r = Atomic!Effect(r, c)
  BY DEF TriedInv
<1>4. \A z \in Entry : z.e \in Element
  BY DEF Entry
<1>5. IsAppend(Es(t), Es(s), x.e) /\ Es(s) \in Seq(Element) /\ x.e \in Element
  BY <1>4, EsFacts
<1>6. /\ Atomic!Effect(r, cx) = Applied(m.op, Atomic!Effect(r, c), y)
      /\ Atomic!Acceptable(r, cx) <=> Atomic!Acceptable(r, c) /\ ~Dislikes(m.op, Atomic!Effect(r, c), y)
  BY <1>5, OneMore, Zenon
<1> HIDE DEF c, cx, y
<1> DEFINE b == TryElem(a, m, x)
<1>7. CASE a.bad # <<>>
  <2>1. b = a
    BY <1>7 DEF TryElem
  <2> QED BY <1>1, <1>2, <1>6, <1>7, <2>1 DEF TriedInv, cx
<1>8. CASE a.bad = <<>> /\ Dislikes(m.op, a.r, y)
  <2>1. b = [a EXCEPT !.bad = <<x>>]
    BY <1>8 DEF TryElem, y
  <2>2. b = [r |-> a.r, bad |-> <<x>>] /\ b.bad = <<x>> /\ b.r = a.r
    BY <1>1, <2>1
  <2>3. b.bad \in Seq(Entry) /\ b.bad # <<>>
    BY <2>2
  <2> HIDE DEF b
  <2>4. ~Atomic!Acceptable(r, cx)
    BY <1>3, <1>6, <1>8
  <2> QED BY <2>2, <2>3, <2>4 DEF TriedInv, cx, b
<1>9. CASE a.bad = <<>> /\ ~Dislikes(m.op, a.r, y)
  <2>1. b = [a EXCEPT !.r = Applied(m.op, @, y)]
    BY <1>9 DEF TryElem, y
  <2>2. b = [r |-> Applied(m.op, a.r, y), bad |-> a.bad] /\ b.bad = a.bad /\ b.r = Applied(m.op, a.r, y)
    BY <1>1, <2>1
  <2> HIDE DEF b
  <2>3. Atomic!Acceptable(r, cx) /\ b.r = Atomic!Effect(r, cx)
    BY <1>2, <1>3, <1>6, <1>9, <2>2
  <2> QED BY <1>1, <1>9, <2>2, <2>3 DEF TriedInv, cx, b
<1> QED BY <1>7, <1>8, <1>9

\* A message on elements is refused exactly if its command is not acceptable.
LEMMA TriedMeans ==
  ASSUME NEW m, m.op \in Changes, m.elems \in Seq(Entry), NEW r
  PROVE  TriedInv(Tried(m, r), r, m.op, m.set, m.elems)
<1> DEFINE base == [r |-> r, bad |-> <<>>]
           T == {s \in Seq(Entry) : TriedInv(L!Fold(m, base, s), r, m.op, m.set, s)}
<1>1. <<>> \in T
  <2>1. base.bad = <<>> /\ base.r = r /\ base = [r |-> base.r, bad |-> base.bad] /\ base.bad \in Seq(Entry)
    OBVIOUS
  <2> HIDE DEF base
  <2>2. L!Fold(m, base, <<>>) = base
    BY L!FoldEmpty
  <2>3. Es(<<>>) = <<>> /\ <<>> \in Seq(Entry)
    BY DEF Es
  <2>4. Atomic!Acceptable(r, With(m.op, m.set, <<>>)) /\ Atomic!Effect(r, With(m.op, m.set, <<>>)) = r
    BY NoElements
  <2>5. TriedInv(base, r, m.op, m.set, <<>>)
    BY <2>1, <2>3, <2>4 DEF TriedInv
  <2> QED BY <2>2, <2>3, <2>5
<1> HIDE DEF base
<1>2. ASSUME NEW s \in Seq(Entry), NEW x \in Entry, NEW t, s \in T, IsAppend(t, s, x) PROVE t \in T
  <2>1. t \in Seq(Entry)
    BY <1>2, AppendFacts
  <2>2. L!IsAppend(t, s, x)
    BY <1>2 DEF IsAppend, L!IsAppend
  <2>3. L!Fold(m, base, t) = TryElem(L!Fold(m, base, s), m, x)
    BY <2>2, L!FoldAppend
  <2>4. TriedInv(L!Fold(m, base, t), r, m.op, m.set, t)
    BY <1>2, <2>3, TryElemStep
  <2> QED BY <2>1, <2>4
<1> HIDE DEF T
<1>3. Seq(Entry) \subseteq T
  BY <1>1, <1>2, SeqInductionR
<1> QED BY <1>3, TriedIs DEF T, base

\* Only creating and deleting can be refused.
LEMMA TriedOther ==
  ASSUME NEW m, m.op \notin {"create", "delete"}, m.elems \in Seq(Entry), NEW r
  PROVE  Tried(m, r).bad = <<>>
<1> DEFINE base == [r |-> r, bad |-> <<>>]
           T == {s \in Seq(Entry) : LET a == L!Fold(m, base, s) IN a = [r |-> a.r, bad |-> <<>>]}
<1>1. <<>> \in T
  <2>1. base = [r |-> base.r, bad |-> <<>>] /\ <<>> \in Seq(Entry)
    OBVIOUS
  <2> HIDE DEF base
  <2>2. L!Fold(m, base, <<>>) = base
    BY L!FoldEmpty
  <2> QED BY <2>1, <2>2
<1> HIDE DEF base
<1>2. ASSUME NEW s \in Seq(Entry), NEW x \in Entry, NEW t, s \in T, IsAppend(t, s, x) PROVE t \in T
  <2>1. t \in Seq(Entry)
    BY <1>2, AppendFacts
  <2>2. L!IsAppend(t, s, x)
    BY <1>2 DEF IsAppend, L!IsAppend
  <2> DEFINE a == L!Fold(m, base, s)
             b == L!Fold(m, base, t)
  <2>3. b = TryElem(a, m, x)
    BY <2>2, L!FoldAppend
  <2>4. a = [r |-> a.r, bad |-> <<>>]
    BY <1>2
  <2> HIDE DEF a, b
  <2>5. b = [a EXCEPT !.r = Applied(m.op, @, <<m.set, x.e>>)]
    BY <2>3, <2>4 DEF TryElem, Dislikes
  <2>6. b = [r |-> b.r, bad |-> <<>>]
    BY <2>4, <2>5
  <2> QED BY <2>1, <2>6 DEF b
<1> HIDE DEF T
<1>3. Seq(Entry) \subseteq T
  BY <1>1, <1>2, SeqInductionR
<1>4. Tried(m, r) = [r |-> Tried(m, r).r, bad |-> <<>>]
  BY <1>3, TriedIs DEF T, base
<1> QED BY <1>4
\* The answer to a message that is refused.
Err == [seq : Nat, off : Nat, elem : Element, turn : {turn}]

ErrsOf(m, bad) ==
  [k \in DOMAIN bad |-> [seq |-> m.seq, off |-> bad[k].off, elem |-> bad[k].e, turn |-> turn]]

\* What the kernel makes of a message, in terms of Tried().
LEMMA TryMsgIs ==
  ASSUME NEW acc, NEW m
  PROVE  TryMsg(acc, m) =
           [r |-> IF m.op = "flush" THEN {x \in acc.r : x[1] # "tables"} ELSE Tried(m, acc.r).r,
            errs |-> acc.errs \o ErrsOf(m, Tried(m, acc.r).bad)]
BY Zenon DEF TryMsg, Tried, ErrsOf

\* There is an answer exactly if something was not liked.
LEMMA ErrsOfFacts ==
  ASSUME NEW m, m.seq \in Nat, NEW bad \in Seq(Entry)
  PROVE  /\ ErrsOf(m, bad) \in Seq(Err) /\ (ErrsOf(m, bad) = <<>> <=> bad = <<>>)
         /\ \A es \in Seq(Err) : /\ es \o ErrsOf(m, bad) \in Seq(Err)
                                 /\ es \o ErrsOf(m, bad) = <<>> <=> es = <<>> /\ bad = <<>>
<1> DEFINE n == Len(bad)
           w == ErrsOf(m, bad)
<1>1. n \in Nat /\ DOMAIN bad = 1..n /\ \A k \in 1..n : bad[k] \in Entry
  OBVIOUS
<1>2. DOMAIN w = 1..n /\ w = [k \in 1..n |-> w[k]]
  BY <1>1 DEF ErrsOf
<1>3. \A k \in 1..n : w[k] \in Err
  <2> TAKE k \in 1..n
  <2> DEFINE b == bad[k]
  <2>1. b \in Entry /\ w[k] = [seq |-> m.seq, off |-> b.off, elem |-> b.e, turn |-> turn]
    BY <1>1 DEF ErrsOf
  <2> HIDE DEF b, w
  <2> QED BY <2>1 DEF Entry, Err
<1> HIDE DEF w
<1>4. w \in Seq(Err) /\ Len(w) = n
  BY <1>1, <1>2, <1>3, SeqBuild
<1>5. w = <<>> <=> bad = <<>>
  BY <1>4
<1>6. ASSUME NEW es \in Seq(Err) PROVE es \o w \in Seq(Err) /\ (es \o w = <<>> <=> es = <<>> /\ w = <<>>)
  <2>1. es \o w \in Seq(Err) /\ Len(es \o w) = Len(es) + Len(w) /\ Len(es) \in Nat /\ Len(w) \in Nat
    BY <1>4
  <2> QED BY <1>4, <2>1
<1> QED BY <1>4, <1>5, <1>6 DEF w

-----------------------------------------------------------------------------
(* The kernel on the whole batch. *)

\* The kernel, having begun with r, agrees with what the list s means.
Meets(a, r, s) ==
  /\ a.errs \in Seq(Err)
  /\ a.errs = <<>> <=> Ok(r, s)
  /\ Ok(r, s) => a.r = After(r, s)

\* Messages for commands.
Message ==
  {m \in [seq : Nat, op : Ops \ {"list"}, set : STRING, elems : Seq(Entry), len : Nat] :
     /\ PlainMsg(m) \in Command
     /\ m.len >= HdrLen /\ (m.elems # <<>> => m.len > HdrLen)}

\* One message more is one command more.
LEMMA TryMsgMeets ==
  ASSUME NEW a, NEW r, NEW s \in Seq(Command), Meets(a, r, s), NEW m \in Message,
         NEW t, IsAppend(t, s, PlainMsg(m))
  PROVE  Meets(TryMsg(a, m), r, t)
<1> DEFINE b == TryMsg(a, m)
           q == After(r, s)
           c == PlainMsg(m)
           bad == Tried(m, a.r).bad
<1>1. m.seq \in Nat /\ m.op \in Ops \ {"list"} /\ m.elems \in Seq(Entry) /\ c \in Command
  BY DEF Message
<1>2. After(r, t) = Atomic!Effect(q, c) /\ (Ok(r, t) <=> Ok(r, s) /\ Atomic!Acceptable(q, c))
  BY <1>1, RunAppend, Zenon
<1>3. a.errs \in Seq(Err) /\ (a.errs = <<>> <=> Ok(r, s)) /\ (Ok(r, s) => a.r = q)
  BY DEF Meets
<1>4. /\ b.errs = a.errs \o ErrsOf(m, bad)
      /\ b.r = IF m.op = "flush" THEN {x \in a.r : x[1] # "tables"} ELSE Tried(m, a.r).r
  <2>1. \A u, v : [r |-> u, errs |-> v].r = u /\ [r |-> u, errs |-> v].errs = v
    OBVIOUS
  <2> QED BY <2>1, TryMsgIs, Zenon
<1>5. CASE m.op \in Changes
  <2>1. TriedInv(Tried(m, a.r), a.r, m.op, m.set, m.elems)
    BY <1>1, <1>5, TriedMeans
  <2>2. /\ bad \in Seq(Entry) /\ (bad = <<>> <=> Atomic!Acceptable(a.r, c))
        /\ (bad = <<>> => Tried(m, a.r).r = Atomic!Effect(a.r, c))
    BY <2>1 DEF TriedInv, PlainMsg
  <2>3. b.errs \in Seq(Err) /\ (b.errs = <<>> <=> a.errs = <<>> /\ bad = <<>>)
    <3> DEFINE w == ErrsOf(m, bad)
    <3>1. \A es \in Seq(Err) : es \o w \in Seq(Err) /\ (es \o w = <<>> <=> es = <<>> /\ bad = <<>>)
      BY <1>1, <2>2, ErrsOfFacts
    <3> HIDE DEF w
    <3>2. b.errs = a.errs \o w
      BY <1>4 DEF w
    <3> HIDE DEF b, bad
    <3> QED BY <1>3, <3>1, <3>2, Zenon
  <2>4. b.r = Tried(m, a.r).r
    BY <1>4, <1>5 DEF Changes
  <2> HIDE DEF b, q, c, bad
  <2>5. b.errs = <<>> <=> Ok(r, t)
    BY <1>2, <1>3, <2>2, <2>3
  <2>6. Ok(r, t) => b.r = After(r, t)
    BY <1>2, <1>3, <2>2, <2>3, <2>4
  <2> QED BY <2>3, <2>5, <2>6 DEF Meets, b
<1>6. CASE m.op = "flush"
  <2>1. bad = <<>> /\ bad \in Seq(Entry)
    <3>1. bad = <<>>
      BY <1>1, <1>6, TriedOther
    <3> HIDE DEF bad
    <3> QED BY <3>1
  <2>2. b.errs \in Seq(Err) /\ (b.errs = <<>> <=> a.errs = <<>>)
    <3> DEFINE w == ErrsOf(m, bad)
    <3>1. \A es \in Seq(Err) : es \o w \in Seq(Err) /\ (es \o w = <<>> <=> es = <<>> /\ bad = <<>>)
      BY <1>1, <2>1, ErrsOfFacts
    <3> HIDE DEF w
    <3>2. b.errs = a.errs \o w
      BY <1>4 DEF w
    <3> HIDE DEF b, bad
    <3> QED BY <1>3, <2>1, <3>1, <3>2, Zenon
  <2>3. c.op = "flush"
    BY <1>6 DEF PlainMsg, With
  <2>4. Atomic!Acceptable(q, c)
    BY <2>3 DEF Atomic!Acceptable
  <2>5. Atomic!Effect(a.r, c) = {x \in a.r : x[1] # "tables"}
    BY <2>3 DEF Atomic!Effect, Atomic!Tables
  <2>6. b.r = Atomic!Effect(a.r, c)
    BY <1>4, <1>6, <2>5
  <2> HIDE DEF b, q, c, bad
  <2>7. (b.errs = <<>> <=> Ok(r, t)) /\ (Ok(r, t) => b.r = After(r, t))
    BY <1>2, <1>3, <2>2, <2>4, <2>6
  <2> QED BY <2>2, <2>7 DEF Meets, b
<1> QED BY <1>1, <1>5, <1>6 DEF Ops, Changes

\* The header of the batch and its end change nothing.
LEMMA HeaderMeets ==
  ASSUME NEW a, NEW r, NEW s, Meets(a, r, s), NEW name \in {"begin", "end"}, NEW seq \in Nat
  PROVE  Meets(TryMsg(a, Header(name, seq)), r, s)
<1> DEFINE h == Header(name, seq)
           b == TryMsg(a, h)
<1>1. h.op = name /\ h.elems = <<>> /\ h.seq \in Nat
  BY DEF Header
<1> HIDE DEF h
<1>2. Tried(h, a.r) = [r |-> a.r, bad |-> <<>>]
  BY <1>1, TriedIs, L!FoldEmpty
<1>3. /\ b.errs = a.errs \o ErrsOf(h, Tried(h, a.r).bad)
      /\ b.r = IF h.op = "flush" THEN {x \in a.r : x[1] # "tables"} ELSE Tried(h, a.r).r
  <2>1. \A u, v : [r |-> u, errs |-> v].r = u /\ [r |-> u, errs |-> v].errs = v
    OBVIOUS
  <2> QED BY <2>1, TryMsgIs, Zenon
<1>4. b.r = a.r
  BY <1>1, <1>2, <1>3
<1>5. Tried(h, a.r).bad = <<>>
  BY <1>2
<1>6. ErrsOf(h, <<>>) = <<>> /\ a.errs \in Seq(Err)
  BY DEF ErrsOf, Meets
<1>7. a.errs \o <<>> = a.errs
  BY <1>6
<1>8. b.errs = a.errs
  BY <1>3, <1>5, <1>6, <1>7, Zenon
<1> HIDE DEF b
<1> QED BY <1>4, <1>8 DEF Meets, b, h
B == INSTANCE FoldFacts WITH Op <- LAMBDA p, a, m : TryMsg(a, m)

PlainMsgs(ms) == [k \in DOMAIN ms |-> PlainMsg(ms[k])]

\* The commands that messages ask for: one more of one more, two lists of two.
LEMMA PlainMsgsFacts ==
  /\ PlainMsgs(<<>>) = <<>>
  /\ \A s \in Seq(Message) : PlainMsgs(s) \in Seq(Command)
  /\ \A s \in Seq(Message) : \A x \in Message : \A t :
       IsAppend(t, s, x) => IsAppend(PlainMsgs(t), PlainMsgs(s), PlainMsg(x))
  /\ \A s \in Seq(Message) : \A t \in Seq(Message) : \A u :
       IsConcat(u, s, t) => IsConcat(PlainMsgs(u), PlainMsgs(s), PlainMsgs(t))
<1> DEFINE S == Message
           g == [x \in S |-> PlainMsg(x)]
<1>1. \A x \in S : g[x] = PlainMsg(x) /\ g[x] \in Command
  BY DEF Message
<1> HIDE DEF g, S
<1>2. \A s \in Seq(S) : PlainMsgs(s) = Mapped(g, s)
  BY <1>1 DEF PlainMsgs, Mapped
<1>3. /\ \A s \in Seq(S) : Mapped(g, s) \in Seq(Command)
      /\ \A s \in Seq(S) : \A x \in S : \A t : IsAppend(t, s, x) => IsAppend(Mapped(g, t), Mapped(g, s), g[x])
      /\ \A s \in Seq(S) : \A t \in Seq(S) : \A u :
           IsConcat(u, s, t) => IsConcat(Mapped(g, u), Mapped(g, s), Mapped(g, t))
  BY <1>1, MappedFacts, Zenon
<1>4. PlainMsgs(<<>>) = <<>>
  BY DEF PlainMsgs
<1>5. /\ \A s \in Seq(S) : \A x \in S : \A t : IsAppend(t, s, x) => t \in Seq(S)
      /\ \A s \in Seq(S) : \A t \in Seq(S) : \A u : IsConcat(u, s, t) => u \in Seq(S)
  BY AppendFacts, ConcatFacts, Zenon
<1>6. \A s \in Seq(S) : PlainMsgs(s) \in Seq(Command)
  BY <1>2, <1>3, Zenon
<1>7. \A s \in Seq(S) : \A x \in S : \A t : IsAppend(t, s, x) => IsAppend(PlainMsgs(t), PlainMsgs(s), PlainMsg(x))
  BY <1>1, <1>2, <1>3, <1>5, Zenon
<1>8. \A s \in Seq(S) : \A t \in Seq(S) : \A u :
         IsConcat(u, s, t) => IsConcat(PlainMsgs(u), PlainMsgs(s), PlainMsgs(t))
  BY <1>2, <1>3, <1>5, Zenon
<1> QED BY <1>4, <1>6, <1>7, <1>8, Zenon DEF S

\* All messages, one after the other.
LEMMA MessagesMeet ==
  ASSUME NEW a, NEW r, Meets(a, r, <<>>)
  PROVE  \A ms \in Seq(Message) : Meets(B!Fold(0, a, ms), r, PlainMsgs(ms))
<1> DEFINE T == {ms \in Seq(Message) : Meets(B!Fold(0, a, ms), r, PlainMsgs(ms))}
<1>1. <<>> \in T
  <2>1. B!Fold(0, a, <<>>) = a
    BY B!FoldEmpty
  <2>2. <<>> \in Seq(Message)
    OBVIOUS
  <2> QED BY <2>1, <2>2, PlainMsgsFacts
<1>2. ASSUME NEW s \in Seq(Message), NEW m \in Message, NEW t, s \in T, IsAppend(t, s, m) PROVE t \in T
  <2>1. t \in Seq(Message)
    BY <1>2, AppendFacts
  <2>2. B!IsAppend(t, s, m)
    BY <1>2 DEF IsAppend, B!IsAppend
  <2>3. B!Fold(0, a, t) = TryMsg(B!Fold(0, a, s), m)
    BY <2>2, B!FoldAppend
  <2>4. PlainMsgs(s) \in Seq(Command) /\ IsAppend(PlainMsgs(t), PlainMsgs(s), PlainMsg(m))
    BY <1>2, PlainMsgsFacts, Zenon
  <2>5. Meets(TryMsg(B!Fold(0, a, s), m), r, PlainMsgs(t))
    BY <1>2, <2>4, TryMsgMeets
  <2> QED BY <2>1, <2>3, <2>5
<1> HIDE DEF T
<1>3. Seq(Message) \subseteq T
  BY <1>1, <1>2, SeqInductionR
<1> QED BY <1>3 DEF T

\* The kernel takes a batch message by message.
LEMMA TryBatchIs ==
  ASSUME NEW b
  PROVE  TryBatch(b) = B!Fold(0, [r |-> kernel, errs |-> <<>>], b)
BY Zenon DEF B!Fold, TryBatch, B!FoldLeft, FoldLeft, B!MapThenFoldSet, MapThenFoldSet, B!Max, Max

\* The messages with a header before them, and an end unless it is only a check.
Framed(ms, check, n) ==
  <<Header("begin", BatchSeq)>> \o ms \o IF check THEN <<>> ELSE <<Header("end", n)>>

\* The batch as a whole, with its header and its end.
LEMMA FramedMeets ==
  ASSUME NEW ms \in Seq(Message), NEW check \in BOOLEAN, NEW n \in Nat
  PROVE  Meets(TryBatch(Framed(ms, check, n)), kernel, PlainMsgs(ms))
<1> DEFINE h == Header("begin", BatchSeq)
           e == Header("end", n)
           AnyCmds == Message \cup {h, e}
           base == [r |-> kernel, errs |-> <<>>]
           hs == <<h>>
           tail == IF check THEN <<>> ELSE <<e>>
           u == hs \o ms
           b == u \o tail
<1>1. BatchSeq \in Nat
  BY DEF BatchSeq
<1>2. Meets(base, kernel, <<>>)
  BY RunEmpty DEF Meets
<1>3. Meets(TryMsg(base, h), kernel, <<>>)
  BY <1>1, <1>2, HeaderMeets
<1>4. ms \in Seq(AnyCmds) /\ hs \in Seq(AnyCmds) /\ tail \in Seq(AnyCmds) /\ h \in AnyCmds /\ e \in AnyCmds /\ <<>> \in Seq(AnyCmds)
  <2>1. h \in AnyCmds /\ e \in AnyCmds /\ \A m \in Message : m \in AnyCmds
    OBVIOUS
  <2> HIDE DEF AnyCmds, h, e
  <2> QED BY <2>1
<1>5. check => tail = <<>>
  OBVIOUS
<1> HIDE DEF base, hs, AnyCmds, h, e
<1>6. B!Fold(0, base, hs) = TryMsg(base, h)
  BY B!FoldOne DEF hs
<1> HIDE DEF tail
<1>7. IsConcat(u, hs, ms) /\ IsConcat(b, u, tail)
  BY DEF IsConcat
<1> HIDE DEF u, b
<1>8. u \in Seq(AnyCmds)
  BY <1>4, <1>7, ConcatFacts
<1> DEFINE a1 == TryMsg(base, h)
           a2 == B!Fold(0, base, u)
<1>9. a2 = B!Fold(0, a1, ms)
  <2>1. B!IsConcat(u, hs, ms)
    BY <1>7 DEF IsConcat, B!IsConcat
  <2> QED BY <1>4, <1>6, <2>1, B!FoldConcat
<1>10. Meets(a2, kernel, PlainMsgs(ms))
  BY <1>3, <1>9, MessagesMeet
<1>11. B!Fold(0, base, b) = B!Fold(0, a2, tail)
  <2>1. B!IsConcat(b, u, tail)
    BY <1>7 DEF IsConcat, B!IsConcat
  <2> QED BY <1>4, <1>8, <2>1, B!FoldConcat
<1> HIDE DEF a2
<1>12. Meets(B!Fold(0, a2, tail), kernel, PlainMsgs(ms))
  <2>1. CASE check
    BY <1>5, <1>10, <2>1, B!FoldEmpty
  <2>2. CASE ~check
    <3>3. B!Fold(0, a2, tail) = TryMsg(a2, e)
      BY <2>2, B!FoldOne DEF tail
    <3>4. Meets(TryMsg(a2, e), kernel, PlainMsgs(ms))
      BY <1>10, HeaderMeets DEF e
    <3> QED BY <3>3, <3>4
  <2> QED BY <2>1, <2>2
<1>13. TryBatch(b) = B!Fold(0, base, b)
  BY TryBatchIs DEF base
<1>14. Framed(ms, check, n) = b
  BY Zenon DEF Framed, b, u, hs, tail, h, e
<1> QED BY <1>11, <1>12, <1>13, <1>14

-----------------------------------------------------------------------------
(* Elements into messages. *)

\* What the messages of one command ask for.
PM(op, set, msgs) == [k \in DOMAIN msgs |-> With(op, set, Es(msgs[k]))]

\* What the messages of one command ask for: one more of one more.
LEMMA PMFacts ==
  ASSUME NEW op, NEW set, NEW S, S = {With(op, set, q) : q \in Seq(Element)}
  PROVE  /\ PM(op, set, <<>>) = <<>>
         /\ \A z : PM(op, set, <<z>>) = <<With(op, set, Es(z))>>
         /\ \A s \in Seq(Seq(Entry)) : PM(op, set, s) \in Seq(S)
         /\ \A s \in Seq(Seq(Entry)) : \A x \in Seq(Entry) : \A t :
              IsAppend(t, s, x) => IsAppend(PM(op, set, t), PM(op, set, s), With(op, set, Es(x)))
<1> DEFINE X == Seq(Entry)
           g == [x \in X |-> With(op, set, Es(x))]
<1>1. \A x \in X : g[x] = With(op, set, Es(x)) /\ g[x] \in S
  <2> TAKE x \in X
  <2>1. \A y \in Entry : y.e \in Element
    BY DEF Entry
  <2>2. Es(x) \in Seq(Element)
    BY <2>1, EsFacts
  <2> QED BY <2>2
<1> HIDE DEF g, X
<1>2. \A s \in Seq(X) : PM(op, set, s) = Mapped(g, s)
  BY <1>1 DEF PM, Mapped
<1>3. /\ \A s \in Seq(X) : Mapped(g, s) \in Seq(S)
      /\ \A s \in Seq(X) : \A x \in X : \A t : IsAppend(t, s, x) => IsAppend(Mapped(g, t), Mapped(g, s), g[x])
  BY <1>1, MappedFacts, Zenon
<1>4. \A s \in Seq(X) : \A x \in X : \A t : IsAppend(t, s, x) => t \in Seq(X)
  BY AppendFacts, Zenon
<1>5. \A s \in Seq(X) : PM(op, set, s) \in Seq(S)
  BY <1>2, <1>3, Zenon
<1>6. \A s \in Seq(X) : \A x \in X : \A t :
         IsAppend(t, s, x) => IsAppend(PM(op, set, t), PM(op, set, s), With(op, set, Es(x)))
  BY <1>1, <1>2, <1>3, <1>4, Zenon
<1>7. PM(op, set, <<>>) = <<>> /\ \A z : PM(op, set, <<z>>) = <<With(op, set, Es(z))>>
  BY DEF PM
<1> QED BY <1>5, <1>6, <1>7, Zenon DEF X

\* The messages so far, the length of the last one, and the places noted.
IsAcc(a) == a = [msgs |-> a.msgs, len |-> a.len, attr |-> a.attr]

Changed(a, y, z) == [a EXCEPT !.msgs = y, !.len = z]

\* Messages and length are set at once.
LEMMA AccIs ==
  ASSUME NEW a, IsAcc(a), NEW y, NEW z
  PROVE  Changed(a, y, z) = [msgs |-> y, len |-> z, attr |-> a.attr]
<1>0. a = [msgs |-> a.msgs, len |-> a.len, attr |-> a.attr]
  BY DEF IsAcc
<1> DEFINE b == [a EXCEPT !.msgs = y]
<1>1. b = [msgs |-> y, len |-> a.len, attr |-> a.attr]
  BY <1>0
<1> HIDE DEF b
<1>2. [b EXCEPT !.len = z] = [msgs |-> y, len |-> z, attr |-> b.attr] /\ b.attr = a.attr
  BY <1>1
<1>3. Changed(a, y, z) = [b EXCEPT !.len = z]
  BY DEF b, Changed
<1> QED BY <1>2, <1>3

\* Into() in one piece.
LEMMA IntoIs ==
  ASSUME NEW a, IsAcc(a), NEW e
  PROVE  Into(a, e) = [msgs |-> [a.msgs EXCEPT ![Len(a.msgs)] = Append(a.msgs[Len(a.msgs)], [e |-> e, off |-> a.len])],
                       len |-> a.len + Size[e], attr |-> a.attr]
<1> DEFINE y == [a.msgs EXCEPT ![Len(a.msgs)] = Append(a.msgs[Len(a.msgs)], [e |-> e, off |-> a.len])]
           z == a.len + Size[e]
<1>1. Into(a, e) = Changed(a, y, z)
  BY DEF Into, Changed
<1> HIDE DEF y, z
<1>3. Changed(a, y, z) = [msgs |-> y, len |-> z, attr |-> a.attr]
  BY AccIs, Zenon
<1> QED BY <1>1, <1>3 DEF y, z

\* NewMsg() in one piece.
LEMMA NewMsgIs ==
  ASSUME NEW a, IsAcc(a)
  PROVE  NewMsg(a) = [msgs |-> Append(a.msgs, <<>>), len |-> NestOff + 1, attr |-> a.attr]
<1> DEFINE y == Append(a.msgs, <<>>)
           z == NestOff + 1
<1>1. NewMsg(a) = Changed(a, y, z)
  BY DEF NewMsg, Changed
<1> HIDE DEF y, z
<1>3. Changed(a, y, z) = [msgs |-> y, len |-> z, attr |-> a.attr]
  BY AccIs, Zenon
<1> QED BY <1>1, <1>3 DEF y, z
\* The messages so far ask for the elements s.
PutInv(a, op, set, s) ==
  /\ IsAcc(a)
  /\ a.msgs \in Seq(Seq(Entry)) /\ a.msgs # <<>> /\ a.len \in Nat
  /\ Same(PM(op, set, a.msgs), One(op, set, s))

\* The attribute of an element has a length.
LEMMA SizeIs == \A e \in Element : Size[e] \in Nat
BY BatchAssumption DEF Element

\* One element into the last message.
LEMMA IntoLast ==
  ASSUME NEW op \in Changes, NEW set, NEW s \in Seq(Element), NEW a, PutInv(a, op, set, s),
         NEW e \in Element, NEW sx, IsAppend(sx, s, e)
  PROVE  PutInv(Into(a, e), op, set, sx)
<1> DEFINE S == {With(op, set, q) : q \in Seq(Element)}
           m == a.msgs
           x == [e |-> e, off |-> a.len]
           k == Len(m)
           n == k - 1
           l == m[k]
           lx == Append(l, x)
           mx == [m EXCEPT ![k] = lx]
           f == SubSeq(m, 1, n)
           b == Into(a, e)
<1>1. /\ IsAcc(a) /\ m \in Seq(Seq(Entry)) /\ m # <<>> /\ a.len \in Nat
      /\ Same(PM(op, set, m), One(op, set, s))
  BY DEF PutInv
<1>2. x \in Entry
  BY <1>1 DEF Entry
<1>3. b = [msgs |-> mx, len |-> a.len + Size[e], attr |-> a.attr]
  BY <1>1, IntoIs, Zenon
<1>4. n \in Nat /\ k = n + 1 /\ Len(m) = n + 1 /\ l \in Seq(Entry)
  BY <1>1
<1> HIDE DEF m, x, n
<1>6. lx \in Seq(Entry) /\ IsAppend(lx, l, x)
  BY <1>2, <1>4 DEF IsAppend
<1> HIDE DEF lx, k
<1>5. /\ f \in Seq(Seq(Entry)) /\ mx \in Seq(Seq(Entry)) /\ mx # <<>>
      /\ IsAppend(m, f, l) /\ IsAppend(mx, f, lx)
  <2> DEFINE Z == Seq(Entry)
  <2>1. m \in Seq(Z) /\ n \in Nat /\ Len(m) = n + 1 /\ lx \in Z /\ k = n + 1
    BY <1>1, <1>4, <1>6
  <2> HIDE DEF Z
  <2>2. /\ f \in Seq(Z) /\ mx \in Seq(Z) /\ mx # <<>>
        /\ IsAppend(m, f, l) /\ IsAppend(mx, f, lx)
    BY <2>1, ReplaceLast
  <2> QED BY <2>2 DEF Z
<1> HIDE DEF mx, f, l, b
<1>10. /\ PM(op, set, f) \in Seq(S)
       /\ IsAppend(PM(op, set, m), PM(op, set, f), With(op, set, Es(l)))
       /\ IsAppend(PM(op, set, mx), PM(op, set, f), With(op, set, Es(lx)))
  BY <1>4, <1>5, <1>6, PMFacts, Zenon
<1>11. \A y \in Entry : y.e \in Element
  BY DEF Entry
<1>12. Es(l) \in Seq(Element) /\ Es(lx) \in Seq(Element) /\ IsAppend(Es(lx), Es(l), x.e)
  BY <1>2, <1>4, <1>6, <1>11, EsFacts
<1>13. x.e = e
  BY DEF x
<1>14. With(op, set, Es(l)) \in S /\ With(op, set, Es(lx)) \in S
  BY <1>12
<1>15. Same(PM(op, set, mx), One(op, set, sx))
  <2> HIDE DEF S
  <2>1. IsAppend(Es(lx), Es(l), e)
    BY <1>12, <1>13
  <2> QED BY <1>1, <1>10, <1>12, <1>14, <2>1, ExtendLast
<1>16. b.msgs = mx /\ b.len = a.len + Size[e] /\ IsAcc(b) /\ b.len \in Nat
  BY <1>1, <1>3, SizeIs DEF IsAcc
<1> QED BY <1>5, <1>15, <1>16 DEF PutInv, b

\* The place is noted: nothing of the messages changes.
LEMMA NotedKeeps ==
  ASSUME NEW op, NEW set, NEW s, NEW a, PutInv(a, op, set, s), NEW e
  PROVE  PutInv(cmd_add_loc(a, e), op, set, s)
<1> DEFINE b == cmd_add_loc(a, e)
<1>1. a = [msgs |-> a.msgs, len |-> a.len, attr |-> a.attr]
  BY DEF PutInv, IsAcc
<1>2. b = [msgs |-> a.msgs, len |-> a.len, attr |-> Append(a.attr, Loc(a.len, e))]
  BY <1>1 DEF cmd_add_loc
<1>3. b.msgs = a.msgs /\ b.len = a.len /\ IsAcc(b)
  BY <1>2 DEF IsAcc
<1> HIDE DEF b
<1> QED BY <1>3 DEF PutInv, b

\* A new message is empty at first.
LEMMA NewKeeps ==
  ASSUME NEW op \in Changes, NEW set, NEW s, NEW a, PutInv(a, op, set, s)
  PROVE  PutInv(NewMsg(a), op, set, s)
<1> DEFINE S == {With(op, set, q) : q \in Seq(Element)}
           b == NewMsg(a)
           m == a.msgs
           nil == <<>>
           mx == Append(m, nil)
<1>1. IsAcc(a) /\ m \in Seq(Seq(Entry)) /\ m # <<>>
      /\ Same(PM(op, set, m), One(op, set, s))
  BY DEF PutInv
<1>2. b = [msgs |-> mx, len |-> NestOff + 1, attr |-> a.attr]
  BY <1>1, NewMsgIs, Zenon
<1>3. b.msgs = mx /\ b.len = NestOff + 1 /\ IsAcc(b) /\ b.len \in Nat
  BY <1>2 DEF NestOff, HdrLen, IsAcc
<1>4. nil \in Seq(Entry) /\ IsAppend(mx, m, nil) /\ Es(nil) = nil /\ nil \in Seq(Element)
  BY DEF IsAppend, Es
<1> HIDE DEF mx, m, nil
<1>5. mx \in Seq(Seq(Entry)) /\ mx # <<>>
  BY <1>1, <1>4, AppendFacts
<1>6. PM(op, set, m) \in Seq(S) /\ IsAppend(PM(op, set, mx), PM(op, set, m), With(op, set, Es(nil)))
  BY <1>1, <1>4, PMFacts, Zenon
<1>7. With(op, set, nil) \in S
  BY <1>4
<1>8. Same(PM(op, set, mx), PM(op, set, m))
  <2> HIDE DEF S
  <2> QED BY <1>4, <1>6, <1>7, AppendNothing DEF nil
<1>9. Same(PM(op, set, mx), One(op, set, s))
  BY <1>1, <1>8, SameIsEquivalence
<1> HIDE DEF b
<1> QED BY <1>3, <1>5, <1>9 DEF PutInv, b

\* One element, into the last message or into a new one.
LEMMA PutStep ==
  ASSUME NEW op \in Changes, NEW set, NEW s \in Seq(Element), NEW a, PutInv(a, op, set, s),
         NEW e \in Element, NEW sx, IsAppend(sx, s, e)
  PROVE  PutInv(PutElem(a, e), op, set, sx)
<1> DEFINE noted == cmd_add_loc(a, e)
<1>1. PutInv(noted, op, set, s)
  BY NotedKeeps
<1>2. PutInv(Into(noted, e), op, set, sx)
  BY <1>1, IntoLast
<1>3. PutInv(NewMsg(noted), op, set, s)
  BY <1>1, NewKeeps
<1>4. PutInv(cmd_add_loc(NewMsg(noted), e), op, set, s)
  BY <1>3, NotedKeeps
<1>5. PutInv(Into(cmd_add_loc(NewMsg(noted), e), e), op, set, sx)
  BY <1>4, IntoLast
<1> QED BY <1>2, <1>5 DEF PutElem

P == INSTANCE FoldFacts WITH Op <- LAMBDA p, a, x : PutElem(a, x.e)

\* A command begins with an empty message.
FirstMsg == NewMsg([msgs |-> <<>>, len |-> 0, attr |-> <<>>])

\* All elements of a command.
LEMMA PutAll ==
  ASSUME NEW op \in Changes, NEW set
  PROVE  \A s \in Seq(Part) : PutInv(P!Fold(0, FirstMsg, s), op, set, Es(s))
<1> DEFINE T == {s \in Seq(Part) : PutInv(P!Fold(0, FirstMsg, s), op, set, Es(s))}
<1>1. <<>> \in T
  <2> DEFINE z == [msgs |-> <<>>, len |-> 0, attr |-> <<>>]
             nil == <<>>
             one == <<nil>>
             b == FirstMsg
  <2>1. z.msgs = nil /\ z.attr = nil /\ IsAcc(z)
    BY DEF IsAcc
  <2>2. b = [msgs |-> Append(z.msgs, <<>>), len |-> NestOff + 1, attr |-> z.attr]
    BY <2>1, NewMsgIs, Zenon DEF FirstMsg
  <2> HIDE DEF z
  <2>3. Append(z.msgs, <<>>) = one
    BY <2>1
  <2>4. b.msgs = one /\ b.len \in Nat /\ IsAcc(b)
    BY <2>2, <2>3 DEF IsAcc, NestOff, HdrLen
  <2>5. nil \in Seq(Entry) /\ Es(nil) = nil
    BY DEF Es
  <2> HIDE DEF nil
  <2>6. one \in Seq(Seq(Entry)) /\ one # <<>>
    BY <2>5
  <2>7. PM(op, set, one) = <<With(op, set, nil)>>
    BY <2>5, PMFacts
  <2>8. PM(op, set, one) = One(op, set, nil)
    BY <2>7 DEF One
  <2>9. Same(PM(op, set, one), One(op, set, nil))
    BY <2>8, SameIsEquivalence
  <2> HIDE DEF one, b
  <2>10. PutInv(b, op, set, nil)
    BY <2>4, <2>6, <2>9 DEF PutInv
  <2>11. P!Fold(0, FirstMsg, <<>>) = FirstMsg
    BY P!FoldEmpty
  <2> QED BY <2>5, <2>10, <2>11 DEF nil, b
<1>2. ASSUME NEW s \in Seq(Part), NEW x \in Part, NEW t, s \in T, IsAppend(t, s, x) PROVE t \in T
  <2>1. t \in Seq(Part)
    BY <1>2, AppendFacts
  <2>2. P!IsAppend(t, s, x)
    BY <1>2 DEF IsAppend, P!IsAppend
  <2>3. P!Fold(0, FirstMsg, t) = PutElem(P!Fold(0, FirstMsg, s), x.e)
    BY <2>2, P!FoldAppend
  <2>4. \A y \in Part : y.e \in Element
    BY DEF Part
  <2>5. Es(s) \in Seq(Element) /\ IsAppend(Es(t), Es(s), x.e) /\ x.e \in Element
    BY <1>2, <2>4, EsFacts
  <2>6. PutInv(P!Fold(0, FirstMsg, s), op, set, Es(s))
    BY <1>2
  <2>7. PutInv(P!Fold(0, FirstMsg, t), op, set, Es(t))
    BY <2>3, <2>5, <2>6, PutStep
  <2> QED BY <2>1, <2>7
<1> HIDE DEF T
<1>3. Seq(Part) \subseteq T
  BY <1>1, <1>2, SeqInductionR
<1> QED BY <1>3 DEF T

N == INSTANCE FoldFacts WITH Op <- LAMBDA p, n, x : n + Size[x.e]

\* A message with elements is longer than its header.
LEMMA MsgLenIs == \A elems \in Seq(Entry) : MsgLen(elems) \in Nat /\ MsgLen(elems) > HdrLen
<1> DEFINE I == {n \in Nat : n > HdrLen}
<1>1. NestOff + 1 \in I
  BY DEF NestOff, HdrLen
<1>2. \A n \in I : \A x \in Entry : n + Size[x.e] \in I
  <2>1. \A x \in Entry : Size[x.e] \in Nat
    BY SizeIs DEF Entry
  <2> QED BY <2>1 DEF HdrLen
<1> HIDE DEF I
<1>3. \A s \in Seq(Entry) : N!Fold(0, NestOff + 1, s) \in I
  BY <1>1, <1>2, N!FoldInvariant
<1>4. \A s : MsgLen(s) = N!Fold(0, NestOff + 1, s)
  BY Zenon DEF N!Fold, MsgLen, N!FoldLeft, FoldLeft, N!MapThenFoldSet, MapThenFoldSet, N!Max, Max
<1> QED BY <1>3, <1>4 DEF I

\* mnl_nft_setelem_batch() is a fold over the elements.
LEMMA SetelemIs ==
  ASSUME NEW c, NEW k
  PROVE  LET all == P!Fold(0, FirstMsg, c.expr)
         IN mnl_nft_setelem_batch(c, k).msgs =
              IF c.expr = <<>> THEN <<>> ELSE [j \in DOMAIN all.msgs |-> Msg(k, c, all.msgs[j], MsgLen(all.msgs[j]))]
<1> DEFINE all == P!Fold(0, FirstMsg, c.expr)
           Puts == FoldLeft(LAMBDA acc, x : PutElem(acc, x.e), FirstMsg, c.expr)
<1>1. Puts = all
  BY Zenon DEF P!Fold, P!FoldLeft, FoldLeft, P!MapThenFoldSet, MapThenFoldSet, P!Max, Max
<1> DEFINE w == [j \in DOMAIN Puts.msgs |-> Msg(k, c, Puts.msgs[j], MsgLen(Puts.msgs[j]))]
<1>2. mnl_nft_setelem_batch(c, k) =
         IF c.expr = <<>> THEN [msgs |-> <<>>, attr |-> <<>>] ELSE [msgs |-> w, attr |-> Puts.attr]
  BY Zenon DEF mnl_nft_setelem_batch, FirstMsg
<1> HIDE DEF Puts
<1>3. mnl_nft_setelem_batch(c, k).msgs = IF c.expr = <<>> THEN <<>> ELSE w
  <2> HIDE DEF w
  <2> QED BY <1>2
<1> QED BY <1>1, <1>3, Zenon

\* What do_command() makes of a command means the same.
LEMMA ElementsMessages ==
  ASSUME NEW c \in LC, IsElements(c), NEW k \in Nat
  PROVE  LET ms == mnl_nft_setelem_batch(c, k).msgs
         IN ms \in Seq(Message) /\ Same(PlainMsgs(ms), <<Plain(c)>>)
<1> DEFINE ms == mnl_nft_setelem_batch(c, k).msgs
           op == c.op
           set == c.set
           s == c.expr
           S == {With(op, set, q) : q \in Seq(Element)}
<1>1. op \in Changes /\ set \in STRING /\ s \in Seq(Part) /\ Plain(c) \in Command /\ Plain(c) = With(op, set, Es(s))
  <2>1. op \in Ops /\ set \in STRING /\ s \in Seq(Part) /\ Plain(c) \in Command /\ Plain(c) = With(op, set, Es(s))
    BY DEF LC, Plain
  <2>2. Plain(c).op = op /\ Plain(c).set = set
    BY DEF Plain, With
  <2>3. op \notin {"flush", "list"}
    BY <2>1, <2>2 DEF Command, IsElements
  <2> QED BY <2>1, <2>3 DEF Ops, Changes
<1>2. \A q \in Seq(Element) : With(op, set, q) \in Command
  BY <1>1, CommandWith
<1>3. CASE s = <<>>
  <2> DEFINE nil == <<>>
             g == <<Plain(c)>>
  <2>1. ms = <<>>
    BY <1>3, SetelemIs
  <2>2. Es(s) = nil /\ nil \in Seq(S) /\ nil \in Seq(Element)
    BY <1>3 DEF Es
  <2>3. IsAppend(g, nil, Plain(c))
    BY DEF IsAppend
  <2> HIDE DEF nil, g
  <2>4. With(op, set, nil) \in S /\ IsAppend(g, nil, With(op, set, nil))
    BY <1>1, <2>2, <2>3
  <2> HIDE DEF S
  <2>5. Same(g, nil)
    BY <1>1, <2>2, <2>4, AppendNothing DEF nil
  <2>6. Same(nil, g)
    BY <2>5, SameIsEquivalence
  <2>7. PlainMsgs(ms) = nil /\ ms \in Seq(Message)
    BY <2>1, PlainMsgsFacts DEF nil
  <2> HIDE DEF ms
  <2> QED BY <2>6, <2>7 DEF g, ms
<1>4. CASE s # <<>>
  <2> DEFINE all == P!Fold(0, FirstMsg, s)
             am == all.msgs
             X == Seq(Entry)
             g == [x \in X |-> Msg(k, c, x, MsgLen(x))]
  <2>1. PutInv(all, op, set, Es(s))
    BY <1>1, PutAll
  <2>2. am \in Seq(X) /\ Same(PM(op, set, am), One(op, set, Es(s)))
    BY <2>1 DEF PutInv
  <2>3. ms = [j \in DOMAIN am |-> Msg(k, c, am[j], MsgLen(am[j]))]
    BY <1>4, SetelemIs
  <2>4. \A x \in X : g[x] \in Message /\ PlainMsg(g[x]) = With(op, set, Es(x))
    <3> TAKE x \in X
    <3> DEFINE l == MsgLen(x)
               m == [seq |-> k, op |-> op, set |-> set, elems |-> x, len |-> l]
    <3>1. g[x] = m
      BY DEF Msg
    <3>2. l \in Nat /\ l > HdrLen
      BY MsgLenIs
    <3>3. \A y \in Entry : y.e \in Element
      BY DEF Entry
    <3>4. Es(x) \in Seq(Element)
      BY <3>3, EsFacts
    <3>5. With(op, set, Es(x)) \in Command
      BY <1>2, <3>4
    <3> HIDE DEF l
    <3>6. PlainMsg(m) = With(op, set, Es(x)) /\ m.len = l /\ m.elems = x
      BY DEF PlainMsg
    <3>7. m \in [seq : Nat, op : Ops \ {"list"}, set : STRING, elems : Seq(Entry), len : Nat]
      <4>1. op \in Ops \ {"list"}
        BY <1>1 DEF Ops, Changes
      <4> HIDE DEF op, set
      <4> QED BY <1>1, <3>2, <4>1
    <3>8. l >= HdrLen
      BY <3>2 DEF HdrLen
    <3> HIDE DEF m
    <3>9. m \in Message
      BY <3>2, <3>5, <3>6, <3>7, <3>8 DEF Message
    <3> QED BY <3>1, <3>6, <3>9
  <2>5. ms = Mapped(g, am)
    <3>1. \A j \in DOMAIN am : am[j] \in X
      BY <2>2
    <3>2. \A j \in DOMAIN am : g[am[j]] = Msg(k, c, am[j], MsgLen(am[j]))
      BY <3>1
    <3> HIDE DEF g, am, ms
    <3> QED BY <2>3, <3>2 DEF Mapped
  <2> HIDE DEF ms, g, am, X
  <2>6. ms \in Seq(Message)
    BY <2>2, <2>4, <2>5, MappedFacts
  <2>7. PlainMsgs(ms) = PM(op, set, am)
    <3>1. \A j \in DOMAIN am : am[j] \in X
      BY <2>2
    <3>2. DOMAIN ms = DOMAIN am /\ \A j \in DOMAIN am : ms[j] = g[am[j]]
      BY <2>5 DEF Mapped
    <3>3. \A j \in DOMAIN am : PlainMsg(ms[j]) = With(op, set, Es(am[j]))
      BY <2>4, <3>1, <3>2
    <3> QED BY <3>2, <3>3 DEF PlainMsgs, PM
  <2>8. One(op, set, Es(s)) = <<Plain(c)>>
    BY <1>1 DEF One
  <2> QED BY <2>2, <2>6, <2>7, <2>8 DEF ms
<1> QED BY <1>3, <1>4

\* The message on tables asks for what its command means.
LEMMA TableMessages ==
  ASSUME NEW c \in LC, c.set = "tables", NEW k \in Nat
  PROVE  LET ms == mnl_nft_table(c, k).msgs
         IN ms \in Seq(Message) /\ Same(PlainMsgs(ms), <<Plain(c)>>)
<1> DEFINE ms == mnl_nft_table(c, k).msgs
           s == c.expr
           n == Len(s)
           x == [j \in DOMAIN s |-> [e |-> s[j].e, off |-> HdrLen]]
           m == [seq |-> k, op |-> c.op, set |-> c.set, elems |-> x, len |-> HdrLen + n]
<1>1. c.op \in Ops /\ c.set \in STRING /\ s \in Seq(Part) /\ Plain(c) \in Command /\ Plain(c) = With(c.op, c.set, Es(s))
  BY DEF LC, Plain
<1>2. c.op # "list"
  <2>1. Plain(c).op = c.op /\ Plain(c).set = c.set
    BY DEF Plain, With
  <2> QED BY <1>1, <2>1 DEF Command
<1>3. ms = <<m>>
  BY DEF mnl_nft_table, Msg
<1>4. n \in Nat /\ DOMAIN s = 1..n
  BY <1>1
<1>5. \A j \in 1..n : x[j].e = s[j].e /\ x[j] \in Entry
  <2> TAKE j \in 1..n
  <2>1. x[j] = [e |-> s[j].e, off |-> HdrLen]
    BY <1>4
  <2>2. s[j] \in Part
    BY <1>1, <1>4
  <2> QED BY <2>1, <2>2 DEF Part, Entry, HdrLen
<1>6. DOMAIN x = 1..n /\ x = [j \in 1..n |-> x[j]]
  BY <1>4
<1> HIDE DEF x
<1>7. x \in Seq(Entry) /\ Len(x) = n
  BY <1>4, <1>5, <1>6, SeqBuild
<1>8. Es(x) = Es(s)
  BY <1>4, <1>5, <1>6 DEF Es
<1>9. PlainMsg(m) = Plain(c)
  BY <1>1, <1>8 DEF PlainMsg
<1>10. m \in Message
  <2>1. m \in [seq : Nat, op : Ops \ {"list"}, set : STRING, elems : Seq(Entry), len : Nat]
    BY <1>1, <1>2, <1>4, <1>7 DEF HdrLen
  <2>2. m.len = HdrLen + n /\ m.elems = x
    OBVIOUS
  <2>3. m.len >= HdrLen /\ (x # <<>> => m.len > HdrLen)
    BY <1>4, <1>7, <2>2 DEF HdrLen
  <2> HIDE DEF m
  <2> QED BY <1>1, <1>9, <2>1, <2>2, <2>3 DEF Message
<1> HIDE DEF m
<1>11. ms \in Seq(Message)
  BY <1>3, <1>10
<1>12. PlainMsgs(ms) = <<Plain(c)>>
  BY <1>3, <1>9 DEF PlainMsgs
<1> QED BY <1>11, <1>12, SameIsEquivalence

\* The messages of a command, whatever it is on, mean what it means.
LEMMA CommandMessages ==
  ASSUME NEW c \in LC, NEW k \in Nat
  PROVE  do_command(c, k).msgs \in Seq(Message) /\ Same(PlainMsgs(do_command(c, k).msgs), <<Plain(c)>>)
<1>1. CASE IsElements(c)
  <2>1. do_command(c, k) = mnl_nft_setelem_batch(c, k)
    BY <1>1 DEF do_command, IsElements
  <2> QED BY <1>1, <2>1, ElementsMessages
<1>2. CASE c.set = "tables"
  <2>1. do_command(c, k) = mnl_nft_table(c, k)
    BY <1>2 DEF do_command, IsElements
  <2> QED BY <1>2, <2>1, TableMessages
<1>3. CASE c.set = "none"
  <2>1. do_command(c, k).msgs = <<>>
    BY <1>3 DEF do_command, IsElements
  <2>2. Plain(c) \in Command /\ Plain(c).op = c.op /\ Plain(c).set = c.set
    BY DEF LC, Plain, With
  <2> DEFINE p == Plain(c)
  <2>3. p.op = "list"
    BY <1>3, <2>2 DEF Command
  <2> HIDE DEF p
  <2>4. \A r : Atomic!Effect(r, p) = r /\ Atomic!Acceptable(r, p)
    BY <2>3 DEF Atomic!Effect, Atomic!Acceptable
  <2>5. Same(<<>>, <<p>>)
    BY <2>4, RunOne, RunEmpty DEF Same
  <2> QED BY <2>1, <2>5, PlainMsgsFacts DEF p
<1> QED BY <1>1, <1>2, <1>3 DEF IsElements

\* The messages of each command, before they are one batch.
MsgsOf(list) == [k \in DOMAIN list |-> do_command(list[k], k).msgs]

AllMsgs(list) == FlattenSeq(MsgsOf(list))

\* One command more is its messages more.
LEMMA AllMsgsAppend ==
  ASSUME NEW s \in Seq(LC), MsgsOf(s) \in Seq(Seq(Message)), NEW c \in LC, NEW t, IsAppend(t, s, c)
  PROVE  /\ MsgsOf(t) \in Seq(Seq(Message)) /\ AllMsgs(s) \in Seq(Message) /\ AllMsgs(t) \in Seq(Message)
         /\ IsConcat(AllMsgs(t), AllMsgs(s), do_command(c, Len(s) + 1).msgs)
<1> DEFINE n == Len(s)
           d == do_command(c, n + 1).msgs
           ss == MsgsOf(s)
           tt == MsgsOf(t)
           u == AllMsgs(s)
           v == AllMsgs(t)
<1>1. /\ t \in Seq(LC) /\ n \in Nat /\ DOMAIN s = 1..n /\ DOMAIN t = 1..(n + 1) /\ t[n + 1] = c
      /\ \A i \in 1..n : t[i] = s[i]
  <2>1. t \in Seq(LC) /\ DOMAIN s = 1..n /\ DOMAIN t = 1..(n + 1)
    BY AppendFacts
  <2>2. t[n + 1] = c /\ \A i \in 1..n : t[i] = s[i]
    BY AppendFacts
  <2> QED BY <2>1, <2>2
<1>2. ss \in Seq(Seq(Message)) /\ u \in Seq(Message)
  BY FlattenFacts DEF AllMsgs
<1>3. d \in Seq(Message)
  <2>1. n + 1 \in Nat
    BY <1>1
  <2>2. \A k \in Nat : do_command(c, k).msgs \in Seq(Message)
    BY CommandMessages
  <2> HIDE DEF n
  <2> QED BY <2>1, <2>2
<1>4. Len(ss) = n
  BY <1>1, <1>2 DEF MsgsOf
<1>5. tt = Append(ss, d)
  <2>1. DOMAIN tt = 1..(n + 1) /\ tt = [i \in 1..(n + 1) |-> tt[i]] /\ tt[n + 1] = d
    BY <1>1 DEF MsgsOf
  <2>2. \A i \in 1..n : tt[i] = ss[i]
    BY <1>1 DEF MsgsOf
  <2> DEFINE X == Seq(Message)
  <2>3. ss \in Seq(X) /\ d \in X
    BY <1>2, <1>3
  <2> HIDE DEF X, tt, ss, d
  <2>4. PICK ap : IsAppend(ap, ss, d)
    BY <2>3, AppendFacts
  <2>5. ap \in Seq(X) /\ Len(ap) = n + 1 /\ ap[n + 1] = d /\ \A i \in 1..n : ap[i] = ss[i]
    <3>1. /\ ap \in Seq(X) /\ Len(ap) = Len(ss) + 1 /\ ap[Len(ss) + 1] = d
          /\ \A i \in 1..Len(ss) : ap[i] = ss[i]
      <4>1. ap \in Seq(X)
        BY <2>3, <2>4, AppendFacts
      <4>2. Len(ap) = Len(ss) + 1
        BY <2>3, <2>4, AppendFacts
      <4>3. ap[Len(ss) + 1] = d
        BY <2>3, <2>4, AppendFacts
      <4>4. \A i \in 1..Len(ss) : ap[i] = ss[i]
        BY <2>3, <2>4, AppendFacts
      <4> QED BY <4>1, <4>2, <4>3, <4>4
    <3> QED BY <1>4, <3>1, Zenon
  <2>6. \A i \in 1..(n + 1) : tt[i] = ap[i] /\ tt[i] \in X
    <3> TAKE i \in 1..(n + 1)
    <3>1. i = n + 1 \/ i \in 1..n
      BY <1>1
    <3>2. ap[i] \in X
      BY <1>1, <2>5
    <3> QED BY <2>1, <2>2, <2>5, <3>1, <3>2
  <2>7. tt \in Seq(X) /\ Len(tt) = n + 1
    BY <1>1, <2>1, <2>6, SeqBuild
  <2>8. ap = tt
    BY <1>1, <2>5, <2>6, <2>7
  <2> QED BY <2>4, <2>8 DEF IsAppend
<1> HIDE DEF d, ss, tt
<1>6. tt \in Seq(Seq(Message))
  BY <1>2, <1>3, <1>5
<1>7. IsConcat(v, u, d)
  BY <1>2, <1>3, <1>5, FlattenFacts, Zenon DEF AllMsgs, ss, tt, IsConcat
<1> HIDE DEF u, v
<1>8. v \in Seq(Message)
  BY <1>2, <1>3, <1>7, ConcatFacts
<1> QED BY <1>2, <1>6, <1>7, <1>8 DEF d, tt, u, v

\* The messages of all commands mean what the list of commands means.
LEMMA MessagesSame ==
  \A list \in Seq(LC) :
    MsgsOf(list) \in Seq(Seq(Message)) /\ AllMsgs(list) \in Seq(Message) /\ Same(PlainMsgs(AllMsgs(list)), PlainSeq(list))
<1> DEFINE T == {s \in Seq(LC) :
                  /\ MsgsOf(s) \in Seq(Seq(Message)) /\ AllMsgs(s) \in Seq(Message)
                  /\ Same(PlainMsgs(AllMsgs(s)), PlainSeq(s))}
<1>1. <<>> \in T
  <2>1. MsgsOf(<<>>) = <<>> /\ FlattenSeq(<<>>) = <<>>
    BY FlattenFacts DEF MsgsOf
  <2>2. AllMsgs(<<>>) = <<>>
    BY <2>1 DEF AllMsgs
  <2>3. PlainSeq(<<>>) = <<>> /\ PlainMsgs(<<>>) = <<>>
    BY DEF PlainSeq, PlainMsgs
  <2> DEFINE nil == <<>>
  <2>4. nil \in Seq(LC) /\ nil \in Seq(Seq(Message)) /\ nil \in Seq(Message)
    OBVIOUS
  <2>5. Same(nil, nil)
    BY SameIsEquivalence
  <2> HIDE DEF nil
  <2>6. MsgsOf(nil) = nil /\ AllMsgs(nil) = nil /\ PlainSeq(nil) = nil /\ PlainMsgs(nil) = nil
    BY <2>1, <2>2, <2>3 DEF nil
  <2>7. nil \in T
    BY <2>4, <2>5, <2>6
  <2> QED BY <2>7 DEF nil
<1>2. ASSUME NEW s \in Seq(LC), NEW c \in LC, NEW t, s \in T, IsAppend(t, s, c) PROVE t \in T
  <2> DEFINE n == Len(s)
             d == do_command(c, n + 1).msgs
             u == AllMsgs(s)
             v == AllMsgs(t)
             C == Plain(c)
             one == <<C>>
  <2>1. t \in Seq(LC) /\ n \in Nat
    BY <1>2, AppendFacts
  <2>2. MsgsOf(s) \in Seq(Seq(Message)) /\ u \in Seq(Message) /\ Same(PlainMsgs(u), PlainSeq(s))
    BY <1>2
  <2>3. d \in Seq(Message) /\ Same(PlainMsgs(d), one)
    BY <2>1, CommandMessages
  <2>4. MsgsOf(t) \in Seq(Seq(Message)) /\ v \in Seq(Message) /\ IsConcat(v, u, d)
    BY <1>2, <2>2, AllMsgsAppend, Zenon
  <2> HIDE DEF d, u, v
  <2>5. /\ PlainMsgs(u) \in Seq(Command) /\ PlainMsgs(d) \in Seq(Command)
        /\ IsConcat(PlainMsgs(v), PlainMsgs(u), PlainMsgs(d))
    BY <2>2, <2>3, <2>4, PlainMsgsFacts, Zenon
  <2>6. \A x \in LC : Plain(x) \in Command
    BY DEF LC
  <2>7. PlainSeq(s) \in Seq(Command) /\ IsAppend(PlainSeq(t), PlainSeq(s), C) /\ C \in Command
    BY <1>2, <2>6, PlainFacts, Zenon
  <2> HIDE DEF C
  <2>8. IsConcat(PlainSeq(t), PlainSeq(s), one) /\ one \in Seq(Command)
    BY <2>7, AppendConcat
  <2> HIDE DEF one
  <2>9. Same(PlainMsgs(v), PlainSeq(t))
    BY <2>2, <2>3, <2>5, <2>7, <2>8, SameConcat, Zenon
  <2> QED BY <2>1, <2>4, <2>9 DEF v
<1> HIDE DEF T
<1>3. Seq(LC) \subseteq T
  BY <1>1, <1>2, SeqInductionR
<1> QED BY <1>3 DEF T

\* The batch of nft_netlink() is the messages of the commands between header and end.
LEMMA BuiltIs ==
  ASSUME NEW list, NEW check
  PROVE  Built(list, check) = Framed(AllMsgs(list), check, Len(list) + 1)
BY Zenon DEF Built, Framed, AllMsgs, MsgsOf

\* What meets one list meets each list that means the same.
LEMMA MeetsSame ==
  ASSUME NEW a, NEW r, NEW s, NEW t, Meets(a, r, s), Same(s, t)
  PROVE  Meets(a, r, t)
BY DEF Meets, Same

\* What the kernel makes of the batch is what the commands mean.
LEMMA BuiltMeets ==
  ASSUME NEW list \in Seq(LC), NEW check \in BOOLEAN
  PROVE  Meets(TryBatch(Built(list, check)), kernel, PlainSeq(list))
<1>1. AllMsgs(list) \in Seq(Message) /\ Same(PlainMsgs(AllMsgs(list)), PlainSeq(list))
  BY MessagesSame
<1>2. Len(list) + 1 \in Nat
  OBVIOUS
<1>3. Meets(TryBatch(Framed(AllMsgs(list), check, Len(list) + 1)), kernel, PlainMsgs(AllMsgs(list)))
  BY <1>1, <1>2, FramedMeets
<1>4. Meets(TryBatch(Built(list, check)), kernel, PlainMsgs(AllMsgs(list)))
  BY <1>3, BuiltIs, Zenon
<1> QED BY <1>1, <1>4, MeetsSame

\* Only a batch that is not a check has an end.
LEMMA BuiltEnd ==
  ASSUME NEW list \in Seq(LC), NEW check \in BOOLEAN
  PROVE  HasEnd(Built(list, check)) <=> ~check
<1> DEFINE h == Header("begin", BatchSeq)
           n == Len(list) + 1
           e == Header("end", n)
           ms == AllMsgs(list)
           AnyCmds == Message \cup {h, e}
           hs == <<h>>
           es == <<e>>
           tail == IF check THEN <<>> ELSE es
           u == hs \o ms
           b == u \o tail
<1>1. ms \in Seq(Message)
  BY MessagesSame
<1>2. h.op = "begin" /\ e.op = "end"
  BY DEF Header
<1>3. \A m \in Message : m.op \in Ops
  BY DEF Message
<1>4. \A m \in Message : m.op # "end"
  BY <1>3 DEF Ops
<1>5. Built(list, check) = b
  BY BuiltIs, Zenon DEF Framed
<1> HIDE DEF ms, h, e
<1>6. u \in Seq(AnyCmds) /\ Len(u) >= 1 /\ \A i \in DOMAIN u : u[i].op # "end"
  <2>1. hs \in Seq(Message \cup {h}) /\ Len(hs) = 1 /\ ms \in Seq(Message \cup {h})
    BY <1>1
  <2>2. u \in Seq(Message \cup {h}) /\ Len(u) = 1 + Len(ms) /\ Len(ms) \in Nat
    BY <2>1, ConcatElements
  <2> HIDE DEF u, hs
  <2>3. \A i \in DOMAIN u : u[i] \in Message \cup {h}
    BY <2>2
  <2>4. u \in Seq(AnyCmds)
    BY <2>2, <2>3, SeqSubset
  <2> QED BY <1>2, <1>4, <2>2, <2>3, <2>4
<1> HIDE DEF u
<1>7. CASE check
  <2>1. b = u
    BY <1>6, <1>7
  <2> QED BY <1>5, <1>6, <1>7, <2>1 DEF HasEnd
<1>8. CASE ~check
  <2>1. b = u \o es
    BY <1>8
  <2>2. e \in AnyCmds
    OBVIOUS
  <2>3. es \in Seq(AnyCmds) /\ Len(es) = 1 /\ es[1] = e
    BY <2>2
  <2> HIDE DEF es, AnyCmds
  <2>4. Len(u \o es) = Len(u) + 1 /\ (u \o es)[Len(u) + 1] = e
    <3>1. Len(u) \in Nat
      BY <1>6
    <3> HIDE DEF b
    <3>2. /\ Len(u \o es) = Len(u) + Len(es)
          /\ \A i \in (Len(u) + 1)..(Len(u) + Len(es)) : (u \o es)[i] = es[i - Len(u)]
      BY <1>6, <2>3, ConcatElements, Zenon
    <3> QED BY <2>3, <3>1, <3>2
  <2>5. b[Len(b)] = e
    BY <2>1, <2>4
  <2> QED BY <1>2, <1>5, <1>8, <2>5 DEF HasEnd
<1> QED BY <1>7, <1>8

-----------------------------------------------------------------------------
(* Every element is sent once, and where its attribute is. *)

\* The length of a message with one element more.
LEMMA MsgLenAppend ==
  /\ MsgLen(<<>>) = NestOff + 1
  /\ \A l \in Seq(Entry) : \A x \in Entry : \A t : IsAppend(t, l, x) => MsgLen(t) = MsgLen(l) + Size[x.e]
<1>1. \A s : MsgLen(s) = N!Fold(0, NestOff + 1, s)
  BY Zenon DEF N!Fold, MsgLen, N!FoldLeft, FoldLeft, N!MapThenFoldSet, MapThenFoldSet, N!Max, Max
<1>2. MsgLen(<<>>) = NestOff + 1
  BY <1>1, N!FoldEmpty
<1>3. ASSUME NEW l \in Seq(Entry), NEW x \in Entry, NEW t, IsAppend(t, l, x) PROVE MsgLen(t) = MsgLen(l) + Size[x.e]
  <2>1. N!IsAppend(t, l, x)
    BY <1>3 DEF IsAppend, N!IsAppend
  <2>2. N!Fold(0, NestOff + 1, t) = N!Fold(0, NestOff + 1, l) + Size[x.e]
    BY <2>1, N!FoldAppend
  <2> QED BY <1>1, <2>2
<1> QED BY <1>2, <1>3

\* The messages so far are not too long and hold the elements s.
FillInv(a, s) ==
  /\ IsAcc(a) /\ a.msgs \in Seq(Seq(Entry)) /\ a.msgs # <<>>
  /\ a.len = MsgLen(a.msgs[Len(a.msgs)])
  /\ Es(FlattenSeq(a.msgs)) = s
  /\ \A i \in DOMAIN a.msgs : MsgLen(a.msgs[i]) - NestOff <= NestMax

\* The places noted are those of the elements of the message, and no two of
\* them are at the same offset.
PlacesOf(attr, l, len) ==
  /\ attr = [i \in DOMAIN l |-> Loc(l[i].off, l[i].e)]
  /\ \A i \in DOMAIN l : l[i].off > 0 /\ l[i].off < len
  /\ \A i, j \in DOMAIN l : l[i].off = l[j].off => i = j

NotedInv(a) == Len(a.msgs) = 1 => PlacesOf(a.attr, a.msgs[1], a.len)

\* Where the attribute of the next element is.
LEMMA PlacesAppend ==
  ASSUME NEW l \in Seq(Entry), NEW attr, NEW len \in Nat, len > 0, PlacesOf(attr, l, len),
         NEW e \in Element, NEW more \in Nat, more > len, NEW lx, IsAppend(lx, l, [e |-> e, off |-> len])
  PROVE  PlacesOf(Append(attr, Loc(len, e)), lx, more)
<1> DEFINE x == [e |-> e, off |-> len]
           n == Len(l)
           ax == Append(attr, Loc(len, e))
           Place == [off : Nat, loc : Element]
<1>1. x \in Entry /\ x.e = e /\ x.off = len
  BY DEF Entry
<1>2. n \in Nat /\ DOMAIN l = 1..n /\ \A i \in 1..n : l[i] \in Entry
  OBVIOUS
<1> HIDE DEF x
<1>3. DOMAIN lx = 1..(n + 1) /\ lx[n + 1] = x /\ \A i \in 1..n : lx[i] = l[i]
  BY <1>1, AppendFacts DEF x
<1>4. \A o \in Nat : \A y \in Element : Loc(o, y) \in Place
  BY BatchAssumption DEF Loc
<1>5. attr \in Seq(Place) /\ Len(attr) = n /\ DOMAIN attr = 1..n /\ \A i \in 1..n : attr[i] = Loc(l[i].off, l[i].e)
  <2>1. \A i \in 1..n : attr[i] = Loc(l[i].off, l[i].e)
    BY <1>2 DEF PlacesOf
  <2>2. \A i \in 1..n : l[i].off \in Nat /\ l[i].e \in Element
    BY <1>2 DEF Entry
  <2>3. \A i \in 1..n : attr[i] \in Place
    BY <1>4, <2>1, <2>2
  <2>4. attr = [i \in 1..n |-> attr[i]]
    BY <1>2 DEF PlacesOf
  <2> HIDE DEF n, Place
  <2>5. attr \in Seq(Place) /\ Len(attr) = n /\ DOMAIN attr = 1..n
    BY <1>2, <2>3, <2>4, SeqBuild
  <2> QED BY <2>1, <2>5
<1>6. ax \in Seq(Place) /\ DOMAIN ax = 1..(n + 1) /\ ax[n + 1] = Loc(len, e) /\ \A i \in 1..n : ax[i] = attr[i]
  <2>1. Loc(len, e) \in Place
    BY <1>4
  <2> HIDE DEF Place, n
  <2> DEFINE pl == Loc(len, e)
  <2> HIDE DEF pl
  <2>2. IsAppend(ax, attr, pl) /\ attr \in Seq(Place) /\ pl \in Place /\ n = Len(attr)
    BY <1>5, <2>1 DEF IsAppend, pl
  <2> HIDE DEF ax
  <2> QED BY <2>2, AppendFacts DEF pl
<1>7. \A i \in 1..(n + 1) : i \in 1..n \/ i = n + 1
  BY <1>2
<1> HIDE DEF n
<1>8. \A i \in 1..(n + 1) : ax[i] = Loc(lx[i].off, lx[i].e)
  BY <1>1, <1>3, <1>5, <1>6, <1>7
<1>9. ax = [i \in DOMAIN lx |-> Loc(lx[i].off, lx[i].e)]
  <2> HIDE DEF ax, Place
  <2>1. ax = [i \in DOMAIN ax |-> ax[i]]
    BY <1>6
  <2> QED BY <1>3, <1>6, <1>8, <2>1
<1>10. \A i \in 1..n : l[i].off > 0 /\ l[i].off < len /\ l[i].off \in Nat
  BY <1>2 DEF PlacesOf, Entry
<1>11. \A i \in DOMAIN lx : lx[i].off > 0 /\ lx[i].off < more
  BY <1>1, <1>3, <1>7, <1>10
<1>12. \A i, j \in DOMAIN lx : lx[i].off = lx[j].off => i = j
  <2>1. \A i, j \in 1..n : l[i].off = l[j].off => i = j
    BY <1>2 DEF PlacesOf
  <2>2. \A i \in 1..n : l[i].off # len
    BY <1>10
  <2> QED BY <1>1, <1>3, <1>7, <2>1, <2>2
<1> QED BY <1>9, <1>11, <1>12 DEF PlacesOf

\* One element that fits into the last message.
LEMMA FillInto ==
  ASSUME NEW s \in Seq(Element), NEW a, FillInv(a, s), NEW e \in Element,
         a.len + Size[e] - NestOff <= NestMax, NEW sx, IsAppend(sx, s, e)
  PROVE  LET b == Into(a, e)
         IN /\ FillInv(b, sx) /\ Len(b.msgs) = Len(a.msgs) /\ b.attr = a.attr /\ b.len = a.len + Size[e]
            /\ Len(a.msgs) = 1 => IsAppend(b.msgs[1], a.msgs[1], [e |-> e, off |-> a.len])
<1> DEFINE m == a.msgs
           x == [e |-> e, off |-> a.len]
           k == Len(m)
           n == k - 1
           l == m[k]
           lx == Append(l, x)
           mx == [m EXCEPT ![k] = lx]
           f == SubSeq(m, 1, n)
           b == Into(a, e)
<1>1. /\ IsAcc(a) /\ m \in Seq(Seq(Entry)) /\ m # <<>> /\ a.len = MsgLen(l) /\ Es(FlattenSeq(m)) = s
      /\ \A i \in DOMAIN m : MsgLen(m[i]) - NestOff <= NestMax
  BY DEF FillInv
<1>2. n \in Nat /\ k = n + 1 /\ Len(m) = n + 1 /\ l \in Seq(Entry) /\ DOMAIN m = 1..k
  BY <1>1
<1>3. a.len \in Nat /\ Size[e] \in Nat
  BY <1>1, <1>2, MsgLenIs, SizeIs
<1>4. x \in Entry /\ x.e = e
  BY <1>3 DEF Entry
<1>5. b = [msgs |-> mx, len |-> a.len + Size[e], attr |-> a.attr]
  BY <1>1, IntoIs, Zenon
<1> HIDE DEF m, x, n
<1>6. lx \in Seq(Entry) /\ IsAppend(lx, l, x)
  BY <1>2, <1>4 DEF IsAppend
<1> HIDE DEF lx, k
<1>7. /\ f \in Seq(Seq(Entry)) /\ mx \in Seq(Seq(Entry)) /\ mx # <<>>
      /\ IsAppend(m, f, l) /\ IsAppend(mx, f, lx)
  <2> DEFINE Z == Seq(Entry)
  <2>1. m \in Seq(Z) /\ n \in Nat /\ Len(m) = n + 1 /\ lx \in Z /\ k = n + 1
    BY <1>1, <1>2, <1>6
  <2> HIDE DEF Z
  <2>2. /\ f \in Seq(Z) /\ mx \in Seq(Z) /\ mx # <<>>
        /\ IsAppend(m, f, l) /\ IsAppend(mx, f, lx)
    BY <2>1, ReplaceLast
  <2> QED BY <2>2 DEF Z
<1>8. /\ DOMAIN mx = DOMAIN m /\ Len(mx) = Len(m) /\ mx[k] = lx /\ \A i \in DOMAIN m : i # k => mx[i] = m[i]
  BY <1>1, <1>2 DEF k
<1> HIDE DEF mx, f, l, b
<1>9. MsgLen(lx) = a.len + Size[e]
  BY <1>1, <1>2, <1>4, <1>6, MsgLenAppend
<1>10. Es(FlattenSeq(mx)) = sx
  <2> DEFINE fm == FlattenSeq(m)
             fx == FlattenSeq(mx)
             ff == FlattenSeq(f)
  <2>1. ff \in Seq(Entry) /\ fm \in Seq(Entry) /\ fx \in Seq(Entry) /\ IsConcat(fm, ff, l) /\ IsConcat(fx, ff, lx)
    <3>1. m = Append(f, l) /\ mx = Append(f, lx)
      BY <1>7 DEF IsAppend
    <3>2. ff \in Seq(Entry) /\ fm \in Seq(Entry) /\ fx \in Seq(Entry)
      BY <1>1, <1>7, FlattenFacts
    <3>3. fm = ff \o l /\ fx = ff \o lx
      <4>1. FlattenSeq(Append(f, l)) = FlattenSeq(f) \o l
        BY <1>2, <1>7, FlattenFacts
      <4>2. FlattenSeq(Append(f, lx)) = FlattenSeq(f) \o lx
        BY <1>6, <1>7, FlattenFacts
      <4> QED BY <3>1, <4>1, <4>2, Zenon
    <3> QED BY <3>2, <3>3, Zenon DEF IsConcat
  <2> HIDE DEF fm, fx, ff
  <2>2. IsAppend(fx, fm, x)
    <3>1. \A y \in Entry : \A ty, u, uy :
            IsAppend(ty, l, y) /\ IsConcat(u, ff, l) /\ IsConcat(uy, ff, ty) => IsAppend(uy, u, y)
      BY <1>2, <2>1, ConcatFacts, Zenon
    <3> QED BY <1>4, <1>6, <2>1, <3>1, Zenon
  <2>3. \A y \in Entry : y.e \in Element
    BY DEF Entry
  <2>4. IsAppend(Es(fx), Es(fm), x.e)
    BY <1>4, <2>1, <2>2, <2>3, EsFacts, Zenon
  <2> QED BY <1>1, <1>4, <2>4 DEF IsAppend, fm, fx
<1>11. b.msgs = mx /\ b.len = a.len + Size[e] /\ b.attr = a.attr /\ IsAcc(b)
  BY <1>5 DEF IsAcc
<1>12. b.len = MsgLen(mx[Len(mx)])
  BY <1>2, <1>8, <1>9, <1>11
<1>13. \A i \in DOMAIN mx : MsgLen(mx[i]) - NestOff <= NestMax
  <2> DEFINE z == a.len + Size[e]
  <2>1. z - NestOff <= NestMax
    BY <1>3, BatchAssumption DEF NestOff, HdrLen
  <2> HIDE DEF z
  <2>2. MsgLen(mx[k]) = z
    BY <1>8, <1>9, Zenon DEF z
  <2>3. \A i \in DOMAIN mx : i = k \/ MsgLen(mx[i]) - NestOff <= NestMax
    BY <1>1, <1>8, Zenon
  <2>4. MsgLen(mx[k]) - NestOff <= NestMax
    BY <2>1, <2>2, Zenon
  <2> QED BY <2>3, <2>4, Zenon
<1>14. FillInv(b, sx)
  BY <1>7, <1>10, <1>11, <1>12, <1>13 DEF FillInv
<1>15. k = 1 => IsAppend(mx[1], m[1], x)
  BY <1>6, <1>8 DEF l
<1> QED BY <1>8, <1>11, <1>14, <1>15 DEF b, m, k, x

\* Noting the place changes nothing of the messages.
LEMMA FillNoted ==
  ASSUME NEW a, NEW s, FillInv(a, s), NEW e
  PROVE  LET b == cmd_add_loc(a, e)
         IN FillInv(b, s) /\ b.msgs = a.msgs /\ b.len = a.len /\ b.attr = Append(a.attr, Loc(a.len, e))
<1> DEFINE b == cmd_add_loc(a, e)
<1>1. a = [msgs |-> a.msgs, len |-> a.len, attr |-> a.attr]
  BY DEF FillInv, IsAcc
<1>2. b = [msgs |-> a.msgs, len |-> a.len, attr |-> Append(a.attr, Loc(a.len, e))]
  BY <1>1 DEF cmd_add_loc
<1>3. b.msgs = a.msgs /\ b.len = a.len /\ b.attr = Append(a.attr, Loc(a.len, e)) /\ IsAcc(b)
  BY <1>2 DEF IsAcc
<1> HIDE DEF b
<1>4. FillInv(b, s)
  BY <1>3 DEF FillInv
<1> QED BY <1>3, <1>4 DEF b

\* A new message is empty.
LEMMA FillNew ==
  ASSUME NEW a, NEW s, FillInv(a, s), 1 <= NestMax
  PROVE  LET b == NewMsg(a)
         IN FillInv(b, s) /\ Len(b.msgs) = Len(a.msgs) + 1 /\ b.len = NestOff + 1
<1> DEFINE b == NewMsg(a)
           m == a.msgs
           nil == <<>>
           mx == Append(m, nil)
           Z == Seq(Entry)
<1>1. /\ IsAcc(a) /\ m \in Seq(Z) /\ m # <<>> /\ Es(FlattenSeq(m)) = s
      /\ \A i \in DOMAIN m : MsgLen(m[i]) - NestOff <= NestMax
  BY DEF FillInv
<1>2. b = [msgs |-> mx, len |-> NestOff + 1, attr |-> a.attr]
  BY <1>1, NewMsgIs, Zenon
<1>3. b.msgs = mx /\ b.len = NestOff + 1 /\ IsAcc(b)
  BY <1>2 DEF IsAcc
<1>4. nil \in Z /\ IsAppend(mx, m, nil)
  BY DEF IsAppend
<1>5. FlattenSeq(mx) = FlattenSeq(m)
  <2>1. FlattenSeq(mx) = FlattenSeq(m) \o nil
    BY <1>1, <1>4, FlattenFacts
  <2>2. FlattenSeq(m) \in Seq(Entry)
    BY <1>1, FlattenFacts
  <2> QED BY <2>1, <2>2
<1>6. MsgLen(nil) = NestOff + 1
  BY MsgLenAppend
<1>7. NestOff \in Nat
  BY DEF NestOff, HdrLen
<1> HIDE DEF mx, m, nil, Z, b
<1>8. /\ mx \in Seq(Z) /\ mx # <<>> /\ Len(mx) = Len(m) + 1 /\ mx[Len(m) + 1] = nil
  BY <1>1, <1>4, AppendFacts
<1>9. DOMAIN mx = 1..(Len(m) + 1) /\ DOMAIN m = 1..Len(m) /\ \A i \in 1..Len(m) : mx[i] = m[i]
  BY <1>1, <1>4, AppendFacts
<1>10. \A i \in 1..(Len(m) + 1) : i \in 1..Len(m) \/ i = Len(m) + 1
  BY <1>1
<1>11. \A i \in DOMAIN mx : MsgLen(mx[i]) - NestOff <= NestMax
  BY <1>1, <1>6, <1>7, <1>8, <1>9, <1>10
<1>12. b.len = MsgLen(mx[Len(mx)])
  BY <1>3, <1>6, <1>8
<1>13. FillInv(b, s)
  BY <1>1, <1>3, <1>5, <1>8, <1>11, <1>12 DEF FillInv, Z
<1> QED BY <1>3, <1>8, <1>13 DEF b, m

\* One element, into the last message or into a new one.
LEMMA FillStep ==
  ASSUME NEW s \in Seq(Element), NEW a, FillInv(a, s), NotedInv(a), NEW e \in Element, NEW sx, IsAppend(sx, s, e)
  PROVE  FillInv(PutElem(a, e), sx) /\ NotedInv(PutElem(a, e))
<1> DEFINE nb == cmd_add_loc(a, e)
           over == mnl_nft_attr_nest_overflow(a, e)
<1>1. Size[e] \in Nat /\ Size[e] > 0 /\ Size[e] + 1 <= NestMax /\ NestMax \in Nat
  BY BatchAssumption DEF Element
<1>2. a.msgs \in Seq(Seq(Entry)) /\ a.msgs # <<>> /\ a.len \in Nat /\ a.len > 0
  <2>1. a.msgs \in Seq(Seq(Entry)) /\ a.msgs # <<>> /\ a.len = MsgLen(a.msgs[Len(a.msgs)])
    BY DEF FillInv
  <2>2. a.msgs[Len(a.msgs)] \in Seq(Entry)
    BY <2>1
  <2> QED BY <2>1, <2>2, MsgLenIs DEF HdrLen
<1>3. FillInv(nb, s) /\ nb.msgs = a.msgs /\ nb.len = a.len /\ nb.attr = Append(a.attr, Loc(a.len, e))
  BY FillNoted, Zenon
<1>4. NestOff \in Nat
  BY DEF NestOff, HdrLen
<1> HIDE DEF nb
<1>5. CASE ~over
  <2> DEFINE b == Into(nb, e)
  <2>1. a.len + Size[e] - NestOff <= NestMax
    BY <1>1, <1>2, <1>4, <1>5 DEF mnl_nft_attr_nest_overflow
  <2>2. /\ FillInv(b, sx) /\ Len(b.msgs) = Len(a.msgs) /\ b.attr = nb.attr /\ b.len = a.len + Size[e]
        /\ Len(a.msgs) = 1 => IsAppend(b.msgs[1], a.msgs[1], [e |-> e, off |-> a.len])
    <3>1. nb.len + Size[e] - NestOff <= NestMax
      BY <1>3, <2>1
    <3>2. /\ FillInv(b, sx) /\ Len(b.msgs) = Len(nb.msgs) /\ b.attr = nb.attr /\ b.len = nb.len + Size[e]
          /\ Len(nb.msgs) = 1 => IsAppend(b.msgs[1], nb.msgs[1], [e |-> e, off |-> nb.len])
      BY <1>3, <3>1, FillInto, Zenon
    <3> QED BY <1>3, <3>2
  <2> HIDE DEF b
  <2>3. NotedInv(b)
    <3>1. SUFFICES ASSUME Len(a.msgs) = 1 PROVE PlacesOf(b.attr, b.msgs[1], b.len)
      BY <2>2 DEF NotedInv
    <3>2. a.msgs[1] \in Seq(Entry) /\ PlacesOf(a.attr, a.msgs[1], a.len)
      BY <1>2, <3>1 DEF NotedInv
    <3>3. b.len \in Nat /\ b.len > a.len
      BY <1>1, <1>2, <2>2
    <3> DEFINE l == a.msgs[1]
               lx == b.msgs[1]
    <3>4. l \in Seq(Entry) /\ PlacesOf(a.attr, l, a.len) /\ IsAppend(lx, l, [e |-> e, off |-> a.len])
      BY <2>2, <3>1, <3>2
    <3> HIDE DEF l, lx
    <3>5. PlacesOf(Append(a.attr, Loc(a.len, e)), lx, b.len)
      BY <1>2, <3>3, <3>4, PlacesAppend
    <3> QED BY <1>3, <2>2, <3>5 DEF lx
  <2>4. PutElem(a, e) = b
    BY <1>5 DEF PutElem, nb, b
  <2> QED BY <2>2, <2>3, <2>4
<1>6. CASE over
  <2> DEFINE w == NewMsg(nb)
             v == cmd_add_loc(w, e)
             b == Into(v, e)
  <2>1. FillInv(w, s) /\ Len(w.msgs) = Len(a.msgs) + 1 /\ w.len = NestOff + 1
    <3>1. 1 <= NestMax
      BY <1>1
    <3> QED BY <1>3, <3>1, FillNew
  <2> HIDE DEF w
  <2>2. FillInv(v, s) /\ v.msgs = w.msgs /\ v.len = w.len
    BY <2>1, FillNoted, Zenon
  <2> HIDE DEF v
  <2>3. v.len + Size[e] - NestOff <= NestMax
    BY <1>1, <1>4, <2>1, <2>2
  <2>4. FillInv(b, sx) /\ Len(b.msgs) = Len(v.msgs)
    BY <2>2, <2>3, FillInto, Zenon
  <2> HIDE DEF b
  <2>5. Len(b.msgs) # 1
    <3>1. Len(a.msgs) \in Nat /\ Len(a.msgs) # 0
      BY <1>2
    <3> QED BY <2>1, <2>2, <2>4, <3>1
  <2>6. PutElem(a, e) = b
    BY <1>6 DEF PutElem, nb, b, v, w
  <2> QED BY <2>4, <2>5, <2>6 DEF NotedInv
<1> QED BY <1>5, <1>6

\* All elements of a command.
LEMMA FillAll ==
  ASSUME 1 <= NestMax
  PROVE  \A s \in Seq(Part) : FillInv(P!Fold(0, FirstMsg, s), Es(s)) /\ NotedInv(P!Fold(0, FirstMsg, s))
<1> DEFINE T == {s \in Seq(Part) : FillInv(P!Fold(0, FirstMsg, s), Es(s)) /\ NotedInv(P!Fold(0, FirstMsg, s))}
<1>1. <<>> \in T
  <2> DEFINE z == [msgs |-> <<>>, len |-> 0, attr |-> <<>>]
             nil == <<>>
             one == <<nil>>
             b == FirstMsg
  <2>1. z.msgs = nil /\ z.attr = nil /\ IsAcc(z)
    BY DEF IsAcc
  <2>2. b = [msgs |-> Append(z.msgs, <<>>), len |-> NestOff + 1, attr |-> z.attr]
    BY <2>1, NewMsgIs, Zenon DEF FirstMsg
  <2> HIDE DEF z
  <2>3. Append(z.msgs, <<>>) = one
    BY <2>1
  <2>4. b.msgs = one /\ b.len = NestOff + 1 /\ b.attr = nil /\ IsAcc(b)
    BY <2>1, <2>2, <2>3 DEF IsAcc
  <2>5. nil \in Seq(Entry) /\ Es(nil) = nil /\ MsgLen(nil) = NestOff + 1
    BY MsgLenAppend DEF Es
  <2>6. FlattenSeq(one) = nil
    <3>1. nil \in Seq(Seq(Entry)) /\ nil \in Seq(Entry)
      OBVIOUS
    <3>2. Append(nil, nil) = one /\ nil \o nil = nil
      OBVIOUS
    <3>3. FlattenSeq(nil) = nil
      BY FlattenFacts
    <3> HIDE DEF nil, one
    <3>4. FlattenSeq(Append(nil, nil)) = FlattenSeq(nil) \o nil
      BY <3>1, FlattenFacts
    <3> QED BY <3>2, <3>3, <3>4
  <2>7. PlacesOf(nil, nil, NestOff + 1)
    BY DEF PlacesOf
  <2> HIDE DEF nil
  <2>8. one \in Seq(Seq(Entry)) /\ one # <<>> /\ Len(one) = 1 /\ DOMAIN one = {1} /\ one[1] = nil
    BY <2>5
  <2>9. NestOff \in Nat /\ NestMax \in Nat
    BY BatchAssumption DEF NestOff, HdrLen
  <2> HIDE DEF one, b
  <2>10. FillInv(b, nil)
    BY <2>4, <2>5, <2>6, <2>8, <2>9 DEF FillInv
  <2>11. NotedInv(b)
    BY <2>4, <2>7, <2>8 DEF NotedInv
  <2>12. P!Fold(0, FirstMsg, <<>>) = FirstMsg
    BY P!FoldEmpty
  <2> QED BY <2>5, <2>10, <2>11, <2>12 DEF nil, b
<1>2. ASSUME NEW s \in Seq(Part), NEW x \in Part, NEW t, s \in T, IsAppend(t, s, x) PROVE t \in T
  <2>1. t \in Seq(Part)
    BY <1>2, AppendFacts
  <2>2. P!IsAppend(t, s, x)
    BY <1>2 DEF IsAppend, P!IsAppend
  <2>3. P!Fold(0, FirstMsg, t) = PutElem(P!Fold(0, FirstMsg, s), x.e)
    BY <2>2, P!FoldAppend
  <2>4. \A y \in Part : y.e \in Element
    BY DEF Part
  <2>5. Es(s) \in Seq(Element) /\ IsAppend(Es(t), Es(s), x.e) /\ x.e \in Element
    BY <1>2, <2>4, EsFacts
  <2>6. FillInv(P!Fold(0, FirstMsg, s), Es(s)) /\ NotedInv(P!Fold(0, FirstMsg, s))
    BY <1>2
  <2>7. FillInv(P!Fold(0, FirstMsg, t), Es(t)) /\ NotedInv(P!Fold(0, FirstMsg, t))
    BY <2>3, <2>5, <2>6, FillStep
  <2> QED BY <2>1, <2>7
<1> HIDE DEF T
<1>3. Seq(Part) \subseteq T
  BY <1>1, <1>2, SeqInductionR
<1> QED BY <1>3 DEF T

\* The elements of each message.
ElemsOf(ms) == [m \in DOMAIN ms |-> ms[m].elems]

\* The messages d.msgs of the command c with number k are not too long and hold its
\* elements in the order of the command, and if there is only one, the places noted
\* are those of its elements.
Sends(d, c, k) ==
  /\ \A i \in DOMAIN d.msgs : d.msgs[i].seq = k /\ d.msgs[i].len - NestOff <= NestMax
  /\ Es(FlattenSeq(ElemsOf(d.msgs))) = Es(c.expr)
  /\ Len(d.msgs) = 1 => PlacesOf(d.attr, d.msgs[1].elems, d.msgs[1].len)

\* What mnl_nft_setelem_batch() returns.
LEMMA SetelemBoth ==
  ASSUME NEW c, NEW k, c.expr # <<>>
  PROVE  LET all == P!Fold(0, FirstMsg, c.expr)
         IN /\ mnl_nft_setelem_batch(c, k).msgs = [j \in DOMAIN all.msgs |-> Msg(k, c, all.msgs[j], MsgLen(all.msgs[j]))]
            /\ mnl_nft_setelem_batch(c, k).attr = all.attr
<1> DEFINE all == P!Fold(0, FirstMsg, c.expr)
           Puts == FoldLeft(LAMBDA acc, x : PutElem(acc, x.e), FirstMsg, c.expr)
<1>1. Puts = all
  BY Zenon DEF P!Fold, P!FoldLeft, FoldLeft, P!MapThenFoldSet, MapThenFoldSet, P!Max, Max
<1> DEFINE w == [j \in DOMAIN Puts.msgs |-> Msg(k, c, Puts.msgs[j], MsgLen(Puts.msgs[j]))]
<1>2. mnl_nft_setelem_batch(c, k) =
         IF c.expr = <<>> THEN [msgs |-> <<>>, attr |-> <<>>] ELSE [msgs |-> w, attr |-> Puts.attr]
  BY Zenon DEF mnl_nft_setelem_batch, FirstMsg
<1> HIDE DEF Puts
<1>3. mnl_nft_setelem_batch(c, k).msgs = w /\ mnl_nft_setelem_batch(c, k).attr = Puts.attr
  <2> HIDE DEF w
  <2> QED BY <1>2
<1> QED BY <1>1, <1>3, Zenon

\* Elements of a set.
LEMMA ElementsSend ==
  ASSUME NEW c \in LC, NEW k \in Nat
  PROVE  Sends(mnl_nft_setelem_batch(c, k), c, k)
<1> DEFINE d == mnl_nft_setelem_batch(c, k)
           s == c.expr
<1>1. s \in Seq(Part)
  BY DEF LC
<1>2. CASE s = <<>>
  <2>1. d = [msgs |-> <<>>, attr |-> <<>>]
    BY <1>2 DEF mnl_nft_setelem_batch
  <2>2. d.msgs = <<>>
    BY <2>1
  <2> HIDE DEF d
  <2>3. ElemsOf(d.msgs) = <<>>
    BY <2>2 DEF ElemsOf
  <2>4. FlattenSeq(ElemsOf(d.msgs)) = <<>>
    BY <2>3, FlattenFacts
  <2> QED BY <1>2, <2>2, <2>4 DEF Sends, d
<1>3. CASE s # <<>>
  <2> DEFINE all == P!Fold(0, FirstMsg, s)
             am == all.msgs
  <2>1. 1 <= NestMax
    <3>1. s[1] \in Part
      BY <1>1, <1>3
    <3>2. s[1].e \in DOMAIN Size
      BY <3>1 DEF Part, Element
    <3> QED BY <3>2, BatchAssumption
  <2>2. FillInv(all, Es(s)) /\ NotedInv(all)
    BY <1>1, <2>1, FillAll
  <2>3. d.msgs = [j \in DOMAIN am |-> Msg(k, c, am[j], MsgLen(am[j]))] /\ d.attr = all.attr
    BY <1>3, SetelemBoth
  <2> HIDE DEF d, all
  <2>4. /\ am \in Seq(Seq(Entry)) /\ am # <<>> /\ all.len = MsgLen(am[Len(am)]) /\ Es(FlattenSeq(am)) = Es(s)
        /\ \A i \in DOMAIN am : MsgLen(am[i]) - NestOff <= NestMax
    BY <2>2 DEF FillInv
  <2> HIDE DEF am
  <2>5. DOMAIN d.msgs = DOMAIN am /\ DOMAIN am = 1..Len(am) /\ Len(am) \in Nat
    BY <2>3, <2>4
  <2>6. Len(d.msgs) = Len(am)
    BY <2>3, <2>4, <2>5
  <2>7. \A j \in DOMAIN am : d.msgs[j].seq = k /\ d.msgs[j].elems = am[j] /\ d.msgs[j].len = MsgLen(am[j])
    <3> TAKE j \in DOMAIN am
    <3> DEFINE l == MsgLen(am[j])
               x == am[j]
    <3>1. d.msgs[j] = [seq |-> k, op |-> c.op, set |-> c.set, elems |-> x, len |-> l]
      BY <2>3 DEF Msg
    <3> HIDE DEF l, x
    <3>2. d.msgs[j].seq = k /\ d.msgs[j].elems = x /\ d.msgs[j].len = l
      BY <3>1
    <3> QED BY <3>2 DEF x, l
  <2>8. ElemsOf(d.msgs) = am
    <3>1. am = [j \in DOMAIN am |-> am[j]]
      BY <2>4
    <3>2. ElemsOf(d.msgs) = [j \in DOMAIN am |-> am[j]]
      BY <2>5, <2>7 DEF ElemsOf
    <3> QED BY <3>1, <3>2, Zenon
  <2>9. Es(FlattenSeq(ElemsOf(d.msgs))) = Es(s)
    BY <2>4, <2>8
  <2>10. \A i \in DOMAIN d.msgs : d.msgs[i].seq = k /\ d.msgs[i].len - NestOff <= NestMax
    BY <2>4, <2>5, <2>7, Zenon
  <2>11. ASSUME Len(d.msgs) = 1 PROVE PlacesOf(d.attr, d.msgs[1].elems, d.msgs[1].len)
    <3>1. Len(am) = 1 /\ 1 \in DOMAIN am
      BY <2>5, <2>6, <2>11
    <3>2. PlacesOf(all.attr, am[1], all.len)
      BY <2>2, <3>1 DEF NotedInv, am
    <3>3. all.len = MsgLen(am[1])
      BY <2>4, <3>1
    <3> QED BY <2>3, <2>7, <3>1, <3>2, <3>3, Zenon
  <2> QED BY <2>9, <2>10, <2>11, Zenon DEF Sends, d, s
<1> QED BY <1>2, <1>3

\* Tables, of which a command has one at most.
LEMMA TableSends ==
  ASSUME NEW c \in LC, Len(c.expr) <= 1, NEW k \in Nat
  PROVE  Sends(mnl_nft_table(c, k), c, k)
<1> DEFINE d == mnl_nft_table(c, k)
           s == c.expr
           n == Len(s)
           x == [j \in DOMAIN s |-> [e |-> s[j].e, off |-> HdrLen]]
           m == [seq |-> k, op |-> c.op, set |-> c.set, elems |-> x, len |-> HdrLen + n]
           at == [j \in DOMAIN s |-> Loc(HdrLen, s[j].e)]
           ms == <<m>>
           xs == <<x>>
<1>1. s \in Seq(Part) /\ n \in Nat /\ DOMAIN s = 1..n /\ n <= 1
  BY DEF LC
<1>2. d = [msgs |-> ms, attr |-> at]
  BY DEF mnl_nft_table, Msg
<1>3. m.seq = k /\ m.elems = x /\ m.len = HdrLen + n
  OBVIOUS
<1>4. \A j \in 1..n : x[j].e = s[j].e /\ x[j].off = HdrLen /\ x[j] \in Entry
  <2> TAKE j \in 1..n
  <2>1. x[j] = [e |-> s[j].e, off |-> HdrLen]
    BY <1>1
  <2>2. s[j] \in Part
    BY <1>1
  <2> QED BY <2>1, <2>2 DEF Part, Entry, HdrLen
<1>5. DOMAIN x = 1..n /\ x = [j \in 1..n |-> x[j]]
  BY <1>1
<1>6. at = [j \in DOMAIN x |-> Loc(x[j].off, x[j].e)]
  BY <1>1, <1>4, <1>5
<1> HIDE DEF x, at, n
<1>7. x \in Seq(Entry) /\ Len(x) = n
  BY <1>1, <1>4, <1>5, SeqBuild
<1>8. Es(x) = Es(s)
  BY <1>1, <1>4, <1>5 DEF Es
<1> HIDE DEF m
<1>9. Len(ms) = 1 /\ DOMAIN ms = {1} /\ ms[1] = m
  OBVIOUS
<1>10. d.msgs = ms /\ d.attr = at
  <2> HIDE DEF ms, d
  <2> QED BY <1>2
<1>11. ElemsOf(ms) = xs
  <2>1. ElemsOf(ms) = [j \in {1} |-> x]
    BY <1>3, <1>9 DEF ElemsOf
  <2> HIDE DEF ms
  <2> QED BY <2>1
<1>12. FlattenSeq(xs) = x
  <2> DEFINE nil == <<>>
  <2>1. nil \in Seq(Seq(Entry)) /\ Append(nil, x) = xs /\ nil \o x = x
    BY <1>7
  <2>2. FlattenSeq(nil) = nil
    BY FlattenFacts
  <2> HIDE DEF nil, xs
  <2>3. FlattenSeq(Append(nil, x)) = FlattenSeq(nil) \o x
    BY <1>7, <2>1, FlattenFacts
  <2> QED BY <2>1, <2>2, <2>3, Zenon
<1> HIDE DEF ms, d, xs
<1>13. Es(FlattenSeq(ElemsOf(d.msgs))) = Es(s)
  BY <1>8, <1>10, <1>11, <1>12, Zenon
<1>14. \A i \in DOMAIN d.msgs : d.msgs[i].seq = k /\ d.msgs[i].len - NestOff <= NestMax
  <2>1. (HdrLen + n) - NestOff <= NestMax
    BY <1>1, BatchAssumption DEF NestOff, HdrLen
  <2>2. \A i \in {1} : d.msgs[i].seq = k /\ d.msgs[i].len = HdrLen + n
    BY <1>3, <1>9, <1>10
  <2> DEFINE z == HdrLen + n
  <2>3. z - NestOff <= NestMax
    BY <2>1
  <2> HIDE DEF z
  <2>4. \A i \in {1} : d.msgs[i].len = z
    BY <2>2 DEF z
  <2> QED BY <1>9, <1>10, <2>2, <2>3, <2>4, Zenon
<1>15. PlacesOf(at, x, HdrLen + n)
  <2>1. \A i \in 1..n : i = 1 /\ n = 1
    BY <1>1
  <2>2. \A i \in DOMAIN x : x[i].off > 0 /\ x[i].off < HdrLen + n
    BY <1>4, <1>5, <2>1 DEF HdrLen
  <2>3. \A i, j \in DOMAIN x : x[i].off = x[j].off => i = j
    BY <1>5, <2>1
  <2> QED BY <1>6, <2>2, <2>3 DEF PlacesOf
<1>16. PlacesOf(d.attr, d.msgs[1].elems, d.msgs[1].len)
  BY <1>3, <1>9, <1>10, <1>15, Zenon
<1> QED BY <1>13, <1>14, <1>16, Zenon DEF Sends, d, s

\* What InputsAssumption says of a command in a list.
Tidy(c) ==
  /\ c.set = "tables" => Len(c.expr) <= 1
  /\ c.set = "none" => c.expr = <<>>

\* mnl_nft_setelem_batch(), mnl_nft_table(): every command sends what it has.
LEMMA CommandSends ==
  ASSUME NEW c \in LC, Tidy(c), NEW k \in Nat
  PROVE  Sends(do_command(c, k), c, k)
<1>1. CASE IsElements(c)
  <2>1. do_command(c, k) = mnl_nft_setelem_batch(c, k)
    BY <1>1 DEF do_command, IsElements
  <2> QED BY <2>1, ElementsSend
<1>2. CASE c.set = "tables"
  <2>1. do_command(c, k) = mnl_nft_table(c, k)
    BY <1>2 DEF do_command, IsElements
  <2>2. Len(c.expr) <= 1
    BY <1>2 DEF Tidy
  <2> QED BY <2>1, <2>2, TableSends
<1>3. CASE c.set = "none"
  <2> DEFINE d == do_command(c, k)
  <2>1. d = [msgs |-> <<>>, attr |-> <<>>] /\ c.expr = <<>>
    BY <1>3 DEF do_command, IsElements, Tidy
  <2>2. d.msgs = <<>>
    BY <2>1
  <2> HIDE DEF d
  <2>3. ElemsOf(d.msgs) = <<>>
    BY <2>2 DEF ElemsOf
  <2>4. FlattenSeq(ElemsOf(d.msgs)) = <<>>
    BY <2>3, FlattenFacts
  <2>5. Es(FlattenSeq(ElemsOf(d.msgs))) = Es(c.expr)
    BY <2>1, <2>4
  <2>6. DOMAIN d.msgs = {} /\ Len(d.msgs) # 1
    BY <2>2
  <2> QED BY <2>5, <2>6 DEF Sends, d
<1> QED BY <1>1, <1>2, <1>3 DEF IsElements

-----------------------------------------------------------------------------
(* The messages of one command in the batch. *)

Q == INSTANCE FoldFacts WITH Op <- LAMBDA p, own, m : IF m.seq = p THEN Append(own, m) ELSE own

Select(k, own, ms) == Q!Fold(k, own, ms)

\* MessagesOf() is a fold over the batch.
LEMMA MessagesOfIs ==
  ASSUME NEW k
  PROVE  MessagesOf(k) = Select(k, <<>>, batch)
BY Zenon DEF Select, Q!Fold, MessagesOf, Q!FoldLeft, FoldLeft, Q!MapThenFoldSet, MapThenFoldSet, Q!Max, Max

\* Messages of other commands are not selected, messages of the command are.
LEMMA SelectFacts ==
  ASSUME NEW k, NEW S
  PROVE  /\ Select(k, <<>>, <<>>) = <<>>
         /\ \A own : \A ms \in Seq({m \in S : m.seq # k}) : Select(k, own, ms) = own
         /\ \A ms \in Seq({m \in S : m.seq = k}) : Select(k, <<>>, ms) = ms
<1> DEFINE Z == {m \in S : m.seq # k}
           X == {m \in S : m.seq = k}
<1>1. Select(k, <<>>, <<>>) = <<>>
  BY Q!FoldEmpty DEF Select
<1>2. ASSUME NEW own PROVE \A ms \in Seq(Z) : Select(k, own, ms) = own
  <2> DEFINE I == {own}
  <2>1. \A a \in I : \A m \in Z : (IF m.seq = k THEN Append(a, m) ELSE a) \in I
    OBVIOUS
  <2>2. own \in I
    OBVIOUS
  <2> HIDE DEF I, Z
  <2>3. \A ms \in Seq(Z) : Q!Fold(k, own, ms) \in I
    BY <2>1, <2>2, Q!FoldInvariant
  <2> QED BY <2>3 DEF Select, I
<1>3. \A ms \in Seq(X) : Select(k, <<>>, ms) = ms
  <2> DEFINE T == {ms \in Seq(X) : Select(k, <<>>, ms) = ms}
  <2>1. <<>> \in T
    BY <1>1
  <2>2. ASSUME NEW s \in Seq(X), NEW m \in X, NEW t, s \in T, IsAppend(t, s, m) PROVE t \in T
    <3>1. Q!IsAppend(t, s, m)
      BY <2>2 DEF IsAppend, Q!IsAppend
    <3>2. m.seq = k
      OBVIOUS
    <3> HIDE DEF X
    <3>3. t \in Seq(X)
      BY <2>2, AppendFacts
    <3>4. Q!Fold(k, <<>>, t) = IF m.seq = k THEN Append(Q!Fold(k, <<>>, s), m) ELSE Q!Fold(k, <<>>, s)
      BY <3>1, Q!FoldAppend
    <3>5. Q!Fold(k, <<>>, s) = s
      BY <2>2 DEF Select
    <3>6. Q!Fold(k, <<>>, t) = t
      BY <2>2, <3>2, <3>4, <3>5, Zenon DEF IsAppend
    <3> QED BY <3>3, <3>6 DEF Select
  <2> HIDE DEF T, X
  <2>3. Seq(X) \subseteq T
    BY <2>1, <2>2, SeqInductionR
  <2> QED BY <2>3 DEF T
<1> QED BY <1>1, <1>2, <1>3, Zenon

\* Two lists of messages.
LEMMA SelectConcat ==
  ASSUME NEW k, NEW S, NEW s \in Seq(S), NEW t \in Seq(S), NEW u, IsConcat(u, s, t)
  PROVE  Select(k, <<>>, u) = Select(k, Select(k, <<>>, s), t)
<1>1. Q!IsConcat(u, s, t)
  BY DEF IsConcat, Q!IsConcat
<1> QED BY <1>1, Q!FoldConcat DEF Select

\* A message is selected by its own number.
LEMMA SelectHas ==
  ASSUME NEW S, NEW k
  PROVE  \A ms \in Seq(S) : /\ Select(k, <<>>, ms) \in Seq(S)
                            /\ \A i \in DOMAIN ms : ms[i].seq = k =>
                                 \E j \in DOMAIN Select(k, <<>>, ms) : Select(k, <<>>, ms)[j] = ms[i]
<1> DEFINE Has(ms, own) == /\ own \in Seq(S)
                           /\ \A i \in DOMAIN ms : ms[i].seq = k => \E j \in DOMAIN own : own[j] = ms[i]
           T == {ms \in Seq(S) : Has(ms, Select(k, <<>>, ms))}
<1>1. <<>> \in T
  <2>1. Select(k, <<>>, <<>>) = <<>>
    BY SelectFacts
  <2>2. Has(<<>>, <<>>)
    OBVIOUS
  <2> QED BY <2>1, <2>2
<1>2. ASSUME NEW s \in Seq(S), NEW m \in S, NEW t, s \in T, IsAppend(t, s, m) PROVE t \in T
  <2> DEFINE own == Select(k, <<>>, s)
             ownt == Select(k, <<>>, t)
             ap == Append(own, m)
  <2>1. Q!IsAppend(t, s, m)
    BY <1>2 DEF IsAppend, Q!IsAppend
  <2>2. ownt = IF m.seq = k THEN ap ELSE own
    BY <2>1, Q!FoldAppend DEF Select
  <2>3. Has(s, own)
    BY <1>2
  <2>4. t \in Seq(S)
    BY <1>2, AppendFacts
  <2>5. PICK n : /\ \A i : i \in DOMAIN t <=> i \in DOMAIN s \/ i = n
                 /\ n \notin DOMAIN s /\ t[n] = m /\ \A i \in DOMAIN s : t[i] = s[i]
    BY <1>2, AppendIndices, Zenon
  <2>6. IsAppend(ap, own, m)
    BY DEF IsAppend
  <2> HIDE DEF own, ownt, ap
  <2>7. ap \in Seq(S)
    BY <2>3, <2>6, AppendFacts
  <2>8. PICK l : /\ \A i : i \in DOMAIN ap <=> i \in DOMAIN own \/ i = l
                 /\ l \notin DOMAIN own /\ ap[l] = m /\ \A i \in DOMAIN own : ap[i] = own[i]
    BY <2>3, <2>6, AppendIndices, Zenon
  <2>9. Has(t, ownt)
    BY <2>2, <2>3, <2>5, <2>7, <2>8
  <2> QED BY <2>4, <2>9 DEF ownt
<1> HIDE DEF T
<1>3. Seq(S) \subseteq T
  BY <1>1, <1>2, SeqInductionR
<1> QED BY <1>3 DEF T

\* The messages of the command k of a list.
MsgsFor(list, k) == IF k \in DOMAIN list THEN do_command(list[k], k).msgs ELSE <<>>

\* Messages of the first n commands.
Upto(n) == {m \in Message : m.seq \in 1..n}

AllTidy(list) == \A k \in DOMAIN list : Tidy(list[k])

\* Among the messages of all commands, the number tells which are whose.
LEMMA AllMsgsSelect ==
  \A list \in Seq(LC) : AllTidy(list) =>
    /\ AllMsgs(list) \in Seq(Upto(Len(list)))
    /\ \A k : Select(k, <<>>, AllMsgs(list)) = MsgsFor(list, k)
<1> DEFINE H(s) == /\ MsgsOf(s) \in Seq(Seq(Message))
                   /\ AllMsgs(s) \in Seq(Upto(Len(s)))
                   /\ \A k : Select(k, <<>>, AllMsgs(s)) = MsgsFor(s, k)
           T == {s \in Seq(LC) : AllTidy(s) => H(s)}
<1>1. <<>> \in T
  <2> DEFINE nil == <<>>
  <2>1. MsgsOf(nil) = nil /\ FlattenSeq(nil) = nil
    BY FlattenFacts DEF MsgsOf
  <2>2. AllMsgs(nil) = nil
    BY <2>1 DEF AllMsgs
  <2>3. \A k : MsgsFor(nil, k) = nil
    BY DEF MsgsFor
  <2>4. \A k : Select(k, nil, nil) = nil
    BY SelectFacts
  <2>5. nil \in Seq(LC) /\ nil \in Seq(Seq(Message)) /\ nil \in Seq(Upto(Len(nil)))
    OBVIOUS
  <2> QED BY <2>1, <2>2, <2>3, <2>4, <2>5
<1>2. ASSUME NEW s \in Seq(LC), NEW c \in LC, NEW t, s \in T, IsAppend(t, s, c) PROVE t \in T
  <2> DEFINE n == Len(s)
             d == do_command(c, n + 1).msgs
             u == AllMsgs(s)
             v == AllMsgs(t)
             Z == Upto(n + 1)
  <2>1. t \in Seq(LC) /\ n \in Nat /\ DOMAIN s = 1..n /\ DOMAIN t = 1..(n + 1) /\ Len(t) = n + 1
    BY <1>2, AppendFacts
  <2>2. t[n + 1] = c /\ \A i \in 1..n : t[i] = s[i]
    BY <1>2, AppendFacts
  <2> SUFFICES ASSUME AllTidy(t) PROVE H(t)
    BY <2>1
  <2>3. AllTidy(s) /\ Tidy(c)
    BY <2>1, <2>2 DEF AllTidy
  <2>4. H(s)
    BY <1>2, <2>3
  <2>5. MsgsOf(t) \in Seq(Seq(Message)) /\ v \in Seq(Message) /\ IsConcat(v, u, d)
    BY <1>2, <2>4, AllMsgsAppend, Zenon
  <2>6. d \in Seq(Message)
    <3>1. n + 1 \in Nat
      BY <2>1
    <3>2. \A k \in Nat : do_command(c, k).msgs \in Seq(Message)
      BY CommandMessages
    <3> HIDE DEF n
    <3> QED BY <3>1, <3>2
  <2>7. \A i \in DOMAIN d : d[i].seq = n + 1
    <3>1. n + 1 \in Nat
      BY <2>1
    <3>2. \A k \in Nat : Sends(do_command(c, k), c, k)
      BY <2>3, CommandSends
    <3> HIDE DEF n
    <3> QED BY <3>1, <3>2 DEF Sends
  <2>8. u \in Seq(Upto(n))
    BY <2>4
  <2>9. \A k : Select(k, <<>>, u) = MsgsFor(s, k)
    BY <2>4
  <2> HIDE DEF H
  <2>10. n + 1 \in 1..(n + 1) /\ n + 1 \notin 1..n /\ \A i : i \in 1..(n + 1) <=> i \in 1..n \/ i = n + 1
    BY <2>1
  <2>11. \A k : MsgsFor(t, k) = IF k = n + 1 THEN d ELSE MsgsFor(s, k)
    <3> TAKE k
    <3>1. CASE k = n + 1
      BY <2>1, <2>2, <2>10, <3>1 DEF MsgsFor
    <3>2. CASE k # n + 1
      BY <2>1, <2>2, <2>10, <3>2 DEF MsgsFor
    <3> QED BY <3>1, <3>2
  <2> HIDE DEF d, u, v
  <2>12. u \in Seq(Z) /\ d \in Seq(Z)
    <3>1. u \in Seq(Z)
      <4>1. \A i \in DOMAIN u : u[i] \in Upto(n)
        BY <2>8
      <4>2. \A i \in DOMAIN u : u[i] \in Z
        BY <2>10, <4>1 DEF Upto
      <4> HIDE DEF Z
      <4> QED BY <2>8, <4>2, SeqSubset
    <3>2. d \in Seq(Z)
      <4>1. \A i \in DOMAIN d : d[i] \in Z
        BY <2>6, <2>7, <2>10 DEF Upto
      <4> HIDE DEF Z
      <4> QED BY <2>6, <4>1, SeqSubset
    <3> QED BY <3>1, <3>2
  <2>13. \A k : Select(k, <<>>, v) = MsgsFor(t, k)
    <3> TAKE k
    <3> DEFINE W == Select(k, <<>>, u)
    <3>1. Select(k, <<>>, v) = Select(k, W, d)
      <4> HIDE DEF Z
      <4> QED BY <2>5, <2>12, SelectConcat
    <3>2. CASE k = n + 1
      <4>1. W = <<>>
        BY <2>1, <2>9, <2>10, <3>2 DEF MsgsFor
      <4>2. d \in Seq({m \in Message : m.seq = k})
        <5> DEFINE X == {m \in Message : m.seq = k}
        <5>1. \A i \in DOMAIN d : d[i] \in X
          BY <2>6, <2>7, <3>2
        <5> HIDE DEF X
        <5>2. d \in Seq(X)
          BY <2>6, <5>1, SeqSubset
        <5> QED BY <5>2 DEF X
      <4>3. Select(k, <<>>, d) = d
        BY <4>2, SelectFacts
      <4> QED BY <2>11, <3>1, <3>2, <4>1, <4>3
    <3>3. CASE k # n + 1
      <4>1. d \in Seq({m \in Message : m.seq # k})
        <5> DEFINE X == {m \in Message : m.seq # k}
        <5>1. \A i \in DOMAIN d : d[i] \in X
          BY <2>6, <2>7, <3>3
        <5> HIDE DEF X
        <5>2. d \in Seq(X)
          BY <2>6, <5>1, SeqSubset
        <5> QED BY <5>2 DEF X
      <4>2. Select(k, W, d) = W
        <5> HIDE DEF W
        <5> QED BY <4>1, SelectFacts
      <4> QED BY <2>9, <2>11, <3>1, <3>3, <4>2
    <3> QED BY <3>2, <3>3
  <2>14. v \in Seq(Z)
    <3> HIDE DEF Z
    <3> QED BY <2>5, <2>12, ConcatFacts
  <2> QED BY <2>1, <2>5, <2>13, <2>14 DEF H, v
<1> HIDE DEF T
<1>3. Seq(LC) \subseteq T
  BY <1>1, <1>2, SeqInductionR
<1> QED BY <1>3 DEF T

\* The messages of a batch about n commands: header and end have no elements.
Posted(n) ==
  {m \in [seq : Nat, op : Ops \cup {"begin", "end"}, set : STRING \cup {"none"}, elems : Seq(Entry), len : Nat] :
     m.elems # <<>> => m.seq \in 1..n}

\* The number tells whose the messages of the batch are.
LEMMA BuiltMessages ==
  ASSUME NEW list \in Seq(LC), AllTidy(list), NEW check \in BOOLEAN
  PROVE  /\ Built(list, check) \in Seq(Posted(Len(list)))
         /\ \A k \in DOMAIN list : Select(k, <<>>, Built(list, check)) = do_command(list[k], k).msgs
<1> DEFINE n == Len(list)
           h == Header("begin", BatchSeq)
           e == Header("end", n + 1)
           S == Posted(n)
           ms == AllMsgs(list)
           hs == <<h>>
           es == <<e>>
           tail == IF check THEN <<>> ELSE es
           u == hs \o ms
           b == u \o tail
<1>1. n \in Nat /\ DOMAIN list = 1..n
  OBVIOUS
<1>2. Built(list, check) = b
  BY BuiltIs, Zenon DEF Framed
<1>3. ms \in Seq(Upto(n)) /\ \A k : Select(k, <<>>, ms) = MsgsFor(list, k)
  BY AllMsgsSelect
<1> HIDE DEF ms
<1>4. ms \in Seq(S)
  <2>1. \A m \in Upto(n) : m \in S
    <3>1. \A m \in Message : m \in [seq : Nat, op : Ops \cup {"begin", "end"}, set : STRING \cup {"none"}, elems : Seq(Entry), len : Nat]
      BY DEF Message
    <3> QED BY <3>1 DEF Upto, Posted
  <2>2. \A i \in DOMAIN ms : ms[i] \in Upto(n)
    BY <1>3
  <2>3. \A i \in DOMAIN ms : ms[i] \in S
    BY <2>1, <2>2
  <2> HIDE DEF S
  <2> QED BY <1>3, <2>3, SeqSubset
<1>5. h \in S /\ h.seq = 0 /\ e \in S /\ e.seq = n + 1
  <2>1. \A name \in {"begin", "end"} : \A k \in Nat : Header(name, k) \in S /\ Header(name, k).seq = k
    BY DEF Header, Posted, HdrLen
  <2>2. 0 \in Nat /\ n + 1 \in Nat
    BY <1>1
  <2> HIDE DEF S, n
  <2> QED BY <2>1, <2>2 DEF BatchSeq
<1> HIDE DEF h, e
<1>6. hs \in Seq(S) /\ es \in Seq(S) /\ <<>> \in Seq(S)
  <2> HIDE DEF S
  <2> QED BY <1>5
<1>7. tail \in Seq(S)
  BY <1>6
<1>8. IsConcat(u, hs, ms) /\ IsConcat(b, u, tail)
  BY DEF IsConcat
<1>9. \A k \in 1..n : hs \in Seq({m \in S : m.seq # k}) /\ tail \in Seq({m \in S : m.seq # k})
  <2> TAKE k \in 1..n
  <2> DEFINE X == {m \in S : m.seq # k}
  <2>1. h \in X /\ e \in X
    BY <1>1, <1>5
  <2> HIDE DEF X
  <2>2. hs \in Seq(X) /\ es \in Seq(X) /\ <<>> \in Seq(X)
    BY <2>1
  <2> QED BY <2>2 DEF X
<1> HIDE DEF S, hs, tail, u, b
<1>10. u \in Seq(S)
  BY <1>4, <1>6, <1>8, ConcatFacts
<1>11. b \in Seq(S)
  BY <1>7, <1>8, <1>10, ConcatFacts
<1>12. ASSUME NEW k \in 1..n PROVE Select(k, <<>>, b) = do_command(list[k], k).msgs
  <2>1. Select(k, <<>>, hs) = <<>>
    BY <1>9, SelectFacts
  <2>2. Select(k, <<>>, u) = Select(k, Select(k, <<>>, hs), ms)
    BY <1>4, <1>6, <1>8, SelectConcat
  <2>3. Select(k, <<>>, ms) = do_command(list[k], k).msgs
    BY <1>1, <1>3 DEF MsgsFor
  <2>4. Select(k, <<>>, b) = Select(k, Select(k, <<>>, u), tail)
    BY <1>7, <1>8, <1>10, SelectConcat
  <2> DEFINE w == Select(k, <<>>, u)
  <2> HIDE DEF w
  <2>5. Select(k, w, tail) = w
    BY <1>9, SelectFacts
  <2>6. w = do_command(list[k], k).msgs
    BY <2>1, <2>2, <2>3 DEF w
  <2> QED BY <2>4, <2>5, <2>6 DEF w
<1> QED BY <1>1, <1>2, <1>11, <1>12 DEF S

-----------------------------------------------------------------------------
(* Where an answer comes from. *)

\* What is not liked is an element of the message.
LEMMA TriedBad ==
  ASSUME NEW m, m.elems \in Seq(Entry), NEW r
  PROVE  Tried(m, r).bad = <<>> \/ \E j \in DOMAIN m.elems : Tried(m, r).bad = <<m.elems[j]>>
<1> DEFINE base == [r |-> r, bad |-> <<>>]
           S == {m.elems[j] : j \in DOMAIN m.elems}
           Good1(a) == a = [r |-> a.r, bad |-> a.bad] /\ (a.bad = <<>> \/ \E x \in S : a.bad = <<x>>)
           T == {s \in Seq(S) : Good1(L!Fold(m, base, s))}
<1>1. <<>> \in T
  <2>1. base = [r |-> base.r, bad |-> base.bad] /\ base.bad = <<>>
    OBVIOUS
  <2> HIDE DEF base, S
  <2>2. L!Fold(m, base, <<>>) = base
    BY L!FoldEmpty
  <2> QED BY <2>1, <2>2
<1>2. ASSUME NEW s \in Seq(S), NEW x \in S, NEW t, s \in T, IsAppend(t, s, x) PROVE t \in T
  <2> DEFINE a == L!Fold(m, base, s)
             b == L!Fold(m, base, t)
  <2> HIDE DEF S
  <2>1. t \in Seq(S)
    BY <1>2, AppendFacts
  <2>2. L!IsAppend(t, s, x)
    BY <1>2 DEF IsAppend, L!IsAppend
  <2>3. b = TryElem(a, m, x)
    BY <2>2, L!FoldAppend
  <2>4. Good1(a)
    BY <1>2
  <2> HIDE DEF a, b, base
  <2> DEFINE y == <<m.set, x.e>>
  <2>5. CASE a.bad # <<>>
    <3>1. b = a
      BY <2>3, <2>5 DEF TryElem
    <3> QED BY <2>1, <2>4, <3>1 DEF b
  <2>6. CASE a.bad = <<>> /\ Dislikes(m.op, a.r, y)
    <3>1. b = [a EXCEPT !.bad = <<x>>]
      BY <2>3, <2>6 DEF TryElem
    <3>2. b = [r |-> b.r, bad |-> b.bad] /\ b.bad = <<x>>
      BY <2>4, <3>1
    <3> QED BY <2>1, <3>2 DEF b
  <2>7. CASE a.bad = <<>> /\ ~Dislikes(m.op, a.r, y)
    <3>1. b = [a EXCEPT !.r = Applied(m.op, @, y)]
      BY <2>3, <2>7 DEF TryElem
    <3>2. b = [r |-> b.r, bad |-> b.bad] /\ b.bad = a.bad
      BY <2>4, <3>1
    <3> QED BY <2>1, <2>7, <3>2 DEF b
  <2> QED BY <2>5, <2>6, <2>7
<1>3. m.elems \in Seq(S)
  <2>1. \A j \in DOMAIN m.elems : m.elems[j] \in S
    OBVIOUS
  <2> HIDE DEF S
  <2> QED BY <2>1, SeqSubset
<1> HIDE DEF T, S
<1>4. Seq(S) \subseteq T
  BY <1>1, <1>2, SeqInductionR
<1>5. Good1(L!Fold(m, base, m.elems))
  BY <1>3, <1>4 DEF T
<1>6. Good1(Tried(m, r))
  BY <1>5, TriedIs, Zenon
<1> QED BY <1>6 DEF S

\* An answer to an element of one of the messages ms.
AnswersOne(er, ms) ==
  \E i \in DOMAIN ms : \E j \in DOMAIN ms[i].elems :
    er.seq = ms[i].seq /\ er.off = ms[i].elems[j].off /\ er.elem = ms[i].elems[j].e

\* Every answer is to an element of a message of the batch.
LEMMA TryBatchErrs ==
  ASSUME NEW n, NEW b \in Seq(Posted(n))
  PROVE  TryBatch(b).errs \in Seq({er \in Err : AnswersOne(er, b)})
<1> DEFINE S == {b[i] : i \in DOMAIN b}
           Z == {er \in Err : AnswersOne(er, b)}
           base == [r |-> kernel, errs |-> <<>>]
           T == {ms \in Seq(S) : B!Fold(0, base, ms).errs \in Seq(Z)}
<1>1. <<>> \in T
  <2>1. base.errs = <<>>
    OBVIOUS
  <2> HIDE DEF base, S, Z
  <2>2. B!Fold(0, base, <<>>) = base
    BY B!FoldEmpty
  <2>3. <<>> \in Seq(S) /\ <<>> \in Seq(Z)
    OBVIOUS
  <2>4. B!Fold(0, base, <<>>).errs \in Seq(Z)
    BY <2>1, <2>2, <2>3, Zenon
  <2> QED BY <2>3, <2>4, Zenon
<1> HIDE DEF base
<1>2. ASSUME NEW s \in Seq(S), NEW m \in S, NEW t, s \in T, IsAppend(t, s, m) PROVE t \in T
  <2> DEFINE a == B!Fold(0, base, s)
             c == B!Fold(0, base, t)
             bad == Tried(m, a.r).bad
             w == ErrsOf(m, bad)
  <2>1. PICK i \in DOMAIN b : m = b[i]
    OBVIOUS
  <2>2. m.seq \in Nat /\ m.elems \in Seq(Entry)
    BY <2>1 DEF Posted
  <2>3. \A j \in DOMAIN m.elems : \A er \in Err :
          er.seq = m.seq /\ er.off = m.elems[j].off /\ er.elem = m.elems[j].e => er \in Z
    BY <2>1 DEF AnswersOne
  <2> HIDE DEF S, Z
  <2>4. t \in Seq(S)
    BY <1>2, AppendFacts
  <2>5. B!IsAppend(t, s, m)
    BY <1>2 DEF IsAppend, B!IsAppend
  <2>6. c = TryMsg(a, m)
    BY <2>5, B!FoldAppend
  <2>7. a.errs \in Seq(Z)
    BY <1>2
  <2> HIDE DEF a, c
  <2>8. c.errs = a.errs \o w
    <3>1. \A u, v : [r |-> u, errs |-> v].errs = v
      OBVIOUS
    <3> QED BY <2>6, <3>1, TryMsgIs, Zenon
  <2>9. w \in Seq(Z)
    <3>1. CASE bad = <<>>
      BY <3>1 DEF ErrsOf
    <3>2. ASSUME NEW j \in DOMAIN m.elems, bad = <<m.elems[j]>> PROVE w \in Seq(Z)
      <4> DEFINE x == m.elems[j]
                 er == [seq |-> m.seq, off |-> x.off, elem |-> x.e, turn |-> turn]
      <4>1. x \in Entry
        BY <2>2
      <4>2. er \in Err /\ er.seq = m.seq /\ er.off = x.off /\ er.elem = x.e
        <5> HIDE DEF x
        <5> QED BY <2>2, <4>1 DEF Entry, Err
      <4>3. er \in Z
        <5> HIDE DEF er
        <5> QED BY <2>3, <4>2
      <4> HIDE DEF bad
      <4>4. bad = <<x>>
        BY <3>2
      <4> HIDE DEF x
      <4>5. w = <<er>>
        BY <4>4 DEF ErrsOf
      <4> HIDE DEF er, w
      <4> QED BY <4>3, <4>5
    <3> QED BY <2>2, <3>1, <3>2, TriedBad
  <2> HIDE DEF w
  <2>10. c.errs \in Seq(Z)
    BY <2>7, <2>8, <2>9
  <2> QED BY <2>4, <2>10 DEF c
<1>3. b \in Seq(S)
  <2>1. \A j \in DOMAIN b : b[j] \in S
    OBVIOUS
  <2> HIDE DEF S
  <2> QED BY <2>1, SeqSubset
<1> HIDE DEF T, S, Z
<1>4. Seq(S) \subseteq T
  BY <1>1, <1>2, SeqInductionR
<1>5. TryBatch(b) = B!Fold(0, base, b)
  BY TryBatchIs DEF base
<1> QED BY <1>3, <1>4, <1>5 DEF T, Z

\* An answer to a command of the list: to an element of one of its messages.
AnswersTo(er, list) == er.seq \in DOMAIN list /\ AnswersOne(er, do_command(list[er.seq], er.seq).msgs)

\* Every answer to the batch of nft_netlink() is to a command.
LEMMA BuiltErrs ==
  ASSUME NEW list \in Seq(LC), AllTidy(list), NEW check \in BOOLEAN
  PROVE  LET errs == TryBatch(Built(list, check)).errs
         IN \A i \in DOMAIN errs : errs[i] \in Err /\ AnswersTo(errs[i], list)
<1> DEFINE b == Built(list, check)
           errs == TryBatch(b).errs
           n == Len(list)
           Z == {er \in Err : AnswersOne(er, b)}
<1>1. b \in Seq(Posted(n)) /\ \A k \in DOMAIN list : Select(k, <<>>, b) = do_command(list[k], k).msgs
  BY BuiltMessages
<1> HIDE DEF b
<1>2. errs \in Seq(Z)
  BY <1>1, TryBatchErrs
<1> HIDE DEF errs
<1> SUFFICES ASSUME NEW i \in DOMAIN errs PROVE errs[i] \in Err /\ AnswersTo(errs[i], list)
  BY DEF b, errs
<1> DEFINE er == errs[i]
<1>3. er \in Z
  BY <1>2
<1> HIDE DEF er
<1>4. er \in Err
  BY <1>3
<1>5. PICK j \in DOMAIN b : \E l \in DOMAIN b[j].elems :
        er.seq = b[j].seq /\ er.off = b[j].elems[l].off /\ er.elem = b[j].elems[l].e
  BY <1>3 DEF AnswersOne
<1> DEFINE m == b[j]
           k == m.seq
           own == Select(k, <<>>, b)
<1>6. m \in Posted(n)
  BY <1>1
<1>7. k \in DOMAIN list
  <2>1. m.elems # <<>>
    BY <1>5
  <2>2. m.elems # <<>> => m.seq \in 1..n
    BY <1>6 DEF Posted
  <2> QED BY <2>1, <2>2
<1>8. PICK q \in DOMAIN own : own[q] = m
  <2> DEFINE X == Posted(n)
  <2>1. b \in Seq(X)
    BY <1>1
  <2> HIDE DEF X, k
  <2>2. \A p \in DOMAIN b : b[p].seq = k => \E q \in DOMAIN own : own[q] = b[p]
    BY <2>1, SelectHas
  <2> QED BY <2>2 DEF k
<1> HIDE DEF own, m
<1>9. AnswersOne(er, own)
  BY <1>5, <1>8 DEF AnswersOne, m
<1>10. er.seq = k
  BY <1>5 DEF m
<1> QED BY <1>1, <1>4, <1>7, <1>9, <1>10 DEF AnswersTo, own, er

-----------------------------------------------------------------------------
(* Whom to blame. *)

\* Small numbers are their own remainder.
LEMMA SmallMod ==
  ASSUME NEW m \in Nat \ {0}, NEW x \in Nat, x < m
  PROVE  x % m = x
OBVIOUS

\* As long as the offsets are small, the place of an element is found by its offset.
LEMMA LocFound ==
  ASSUME NEW c, NEW l \in Seq(Entry), NEW len \in Nat, len <= OffsetMod, PlacesOf(c.attr, l, len), NEW j \in DOMAIN l
  PROVE  LocOf(c, l[j].off) = l[j].e
<1> DEFINE at == c.attr
           n == Len(l)
           off == l[j].off
<1>1. n \in Nat /\ DOMAIN l = 1..n /\ \A i \in 1..n : l[i].off \in Nat
  <2>1. n \in Nat /\ DOMAIN l = 1..n /\ \A i \in 1..n : l[i] \in Entry
    OBVIOUS
  <2>2. \A x \in Entry : x.off \in Nat
    BY DEF Entry
  <2> QED BY <2>1, <2>2
<1>2. \A i \in 1..n : l[i].off > 0 /\ l[i].off < OffsetMod
  BY <1>1, BatchAssumption DEF PlacesOf
<1>3. at = [i \in 1..n |-> Loc(l[i].off, l[i].e)]
  BY <1>1 DEF PlacesOf
<1>4. DOMAIN at = 1..n /\ Len(at) = n
  BY <1>1, <1>3
<1>5. \A i \in 1..n : at[i].off = l[i].off /\ at[i].loc = l[i].e
  <2> TAKE i \in 1..n
  <2>1. l[i].off % OffsetMod = l[i].off
    BY <1>1, <1>2, BatchAssumption, SmallMod
  <2> DEFINE x == l[i].off
             y == l[i].e
  <2>2. at[i] = [off |-> x, loc |-> y]
    BY <1>3, <2>1 DEF Loc
  <2> HIDE DEF x, y, at
  <2>3. at[i].off = x /\ at[i].loc = y
    BY <2>2
  <2> QED BY <2>3 DEF x, y
<1> HIDE DEF at
<1>6. ~\E k \in DOMAIN at : at[k].off = 0
  BY <1>2, <1>4, <1>5
<1> DEFINE I == {i \in 1..Len(at) : at[i].off = off}
<1>7. I = {j}
  <2>1. \A i \in 1..n : l[i].off = l[j].off => i = j
    BY <1>1 DEF PlacesOf
  <2> QED BY <1>1, <1>4, <1>5, <2>1
<1>8. Max(I) = j
  <2>1. \A x \in {j} : x = j
    OBVIOUS
  <2>2. j >= j
    BY <1>1
  <2> QED BY <1>7, <2>1, <2>2 DEF Max
<1>9. SelectLastInSeq(at, LAMBDA a : a.off = off) = j
  BY <1>7, <1>8 DEF SelectLastInSeq
<1>10. j # 0
  BY <1>1
<1>11. LocOf(c, off) = at[j].loc
  <2> DEFINE known == SubSeq(c.attr, 1, SelectInSeq(c.attr, LAMBDA a : a.off = 0) - 1)
             seen == IF \E k \in DOMAIN c.attr : c.attr[k].off = 0 THEN known ELSE c.attr
             k == SelectLastInSeq(seen, LAMBDA a : a.off = off)
  <2>1. LocOf(c, off) = IF k = 0 THEN "command" ELSE seen[k].loc
    BY Zenon DEF LocOf
  <2>2. seen = at
    BY <1>6 DEF at
  <2> HIDE DEF seen
  <2>3. k = j
    BY <1>9, <2>2
  <2> HIDE DEF k
  <2> QED BY <1>10, <2>1, <2>2, <2>3
<1> QED BY <1>1, <1>5, <1>11

W == INSTANCE FoldFacts WITH Op <- LAMBDA p, a, x : Blame(a, x)

First == [from |-> 1, last |-> NoSeq, records |-> <<>>]

\* The error records of one answer each.
RecordsFor(cs, rs) == [j \in DOMAIN rs |-> nft_cmd_error(cs[rs[j].seq], rs[j])]

\* The errors are blamed one after the other.
LEMMA BlamedIs ==
  ASSUME NEW s
  PROVE  FoldLeft(Blame, First, s) = W!Fold(0, First, s)
BY Zenon DEF W!Fold, W!FoldLeft, FoldLeft, W!MapThenFoldSet, MapThenFoldSet, W!Max, Max

\* An error with the number of a command is found, wherever the last one was.
BlameOK(acc, s) ==
  /\ acc = [from |-> acc.from, last |-> acc.last, records |-> acc.records]
  /\ acc.from \in Nat /\ acc.last \in Nat /\ 1 <= acc.from /\ acc.from <= acc.last
  /\ acc.records = RecordsFor(cmds, s)

\* One error more.
LEMMA BlameStep ==
  ASSUME NEW S, \A x \in S : x.seq \in DOMAIN cmds, DOMAIN cmds = 1..Len(cmds), Len(cmds) \in Nat,
         NEW s \in Seq(S), NEW err \in S, NEW t, IsAppend(t, s, err), NEW acc, BlameOK(acc, s)
  PROVE  BlameOK(Blame(acc, err), t)
<1> DEFINE n == Len(s)
           start == IF err.seq < acc.last THEN 1 ELSE acc.from
           rec == nft_cmd_error(cmds[err.seq], err)
           b == Blame(acc, err)
           rs == RecordsFor(cmds, s)
           rt == RecordsFor(cmds, t)
<1>1. acc.from \in Nat /\ acc.last \in Nat /\ 1 <= acc.from /\ acc.from <= acc.last /\ acc.records = rs
  BY DEF BlameOK
<1>2. err.seq \in 1..Len(cmds)
  OBVIOUS
<1>3. err.seq \in start .. Len(cmds) /\ 1 <= err.seq /\ err.seq \in Nat
  BY <1>1, <1>2
<1>4. b = [from |-> err.seq, last |-> err.seq, records |-> Append(acc.records, rec)]
  BY <1>3, Zenon DEF Blame
<1>5. n \in Nat /\ DOMAIN s = 1..n /\ DOMAIN t = 1..(n + 1) /\ t[n + 1] = err /\ \A i \in 1..n : t[i] = s[i]
  <2>1. n \in Nat
    OBVIOUS
  <2>2. DOMAIN s = 1..n /\ DOMAIN t = 1..(n + 1)
    BY AppendFacts
  <2>3. t[n + 1] = err
    BY AppendFacts
  <2>4. \A i \in 1..n : t[i] = s[i]
    BY AppendFacts
  <2> QED BY <2>1, <2>2, <2>3, <2>4
<1> HIDE DEF n
<1>6. rt = Append(rs, rec)
  <2> DEFINE X == {nft_cmd_error(cmds[t[i].seq], t[i]) : i \in DOMAIN t}
  <2>1. rs = [i \in 1..n |-> rs[i]] /\ rt = [i \in 1..(n + 1) |-> rt[i]]
    BY <1>5 DEF RecordsFor
  <2>2. \A i \in 1..n : rs[i] = rt[i] /\ rs[i] \in X
    BY <1>5 DEF RecordsFor
  <2>3. rt[n + 1] = rec /\ \A i \in 1..(n + 1) : rt[i] \in X
    BY <1>5 DEF RecordsFor
  <2>4. n + 1 \in Nat /\ n + 1 \in 1..(n + 1)
    BY <1>5
  <2> HIDE DEF X, rs, rt, rec
  <2>5. rs \in Seq(X) /\ Len(rs) = n
    BY <1>5, <2>1, <2>2, SeqBuild
  <2>6. rt \in Seq(X) /\ Len(rt) = n + 1
    BY <2>1, <2>3, <2>4, SeqBuild
  <2>7. rec \in X
    BY <2>3, <2>4
  <2> QED BY <1>5, <2>2, <2>3, <2>5, <2>6, <2>7
<1> HIDE DEF rs, rec
<1>7. b.from = err.seq /\ b.last = err.seq /\ b.records = Append(rs, rec)
  BY <1>1, <1>4
<1>8. b = [from |-> b.from, last |-> b.last, records |-> b.records]
  BY <1>4
<1> HIDE DEF b
<1>9. b.records = RecordsFor(cmds, t)
  BY <1>6, <1>7
<1> QED BY <1>3, <1>7, <1>8, <1>9 DEF BlameOK, b

\* Each answer to a command becomes an error record of this command.
LEMMA BlameEach ==
  ASSUME NEW s, NEW S, s \in Seq(S), \A j \in DOMAIN s : s[j].seq \in DOMAIN cmds,
         DOMAIN cmds = 1..Len(cmds), Len(cmds) \in Nat
  PROVE  FoldLeft(Blame, First, s).records = RecordsFor(cmds, s)
<1> DEFINE X == {x \in S : x.seq \in DOMAIN cmds}
           T == {r \in Seq(X) : BlameOK(W!Fold(0, First, r), r)}
<1>1. <<>> \in T
  <2>1. BlameOK(First, <<>>)
    BY DEF First, BlameOK, RecordsFor, NoSeq
  <2>2. W!Fold(0, First, <<>>) = First
    BY W!FoldEmpty
  <2> HIDE DEF X
  <2> QED BY <2>1, <2>2
<1>2. \A x \in X : x.seq \in DOMAIN cmds
  OBVIOUS
<1>3. s \in Seq(X)
  <2>1. \A j \in DOMAIN s : s[j] \in X
    OBVIOUS
  <2> HIDE DEF X
  <2> QED BY <2>1, SeqSubset
<1> HIDE DEF X
<1>4. ASSUME NEW r \in Seq(X), NEW x \in X, NEW t, r \in T, IsAppend(t, r, x) PROVE t \in T
  <2>1. t \in Seq(X)
    BY <1>4, AppendFacts
  <2>2. W!IsAppend(t, r, x)
    BY <1>4 DEF IsAppend, W!IsAppend
  <2>3. W!Fold(0, First, t) = Blame(W!Fold(0, First, r), x)
    BY <2>2, W!FoldAppend
  <2>4. BlameOK(W!Fold(0, First, r), r)
    BY <1>4
  <2>5. BlameOK(Blame(W!Fold(0, First, r), x), t)
    BY <1>2, <1>4, <2>4, BlameStep
  <2> QED BY <2>1, <2>3, <2>5
<1> HIDE DEF T
<1>5. Seq(X) \subseteq T
  BY <1>1, <1>4, SeqInductionR
<1>6. BlameOK(W!Fold(0, First, s), s)
  BY <1>3, <1>5 DEF T
<1> QED BY <1>6, BlamedIs DEF BlameOK

\* An answer to the whole batch becomes an error record of every command.
LEMMA BlameAll ==
  ASSUME NEW err, err.seq = BatchSeq, DOMAIN cmds = 1..Len(cmds), Len(cmds) \in Nat, NEW S, cmds \in Seq(S)
  PROVE  FoldLeft(Blame, First, <<err>>).records = [k \in DOMAIN cmds |-> nft_cmd_error(cmds[k], err)]
<1> DEFINE b == Blame(First, err)
           rest == SubSeq(cmds, 1, Len(cmds))
           rs == [k \in DOMAIN rest |-> nft_cmd_error(rest[k], err)]
<1>1. First.from = 1 /\ First.last = NoSeq /\ First.records = <<>>
  BY DEF First
<1>2. err.seq < First.last /\ err.seq \notin 1..Len(cmds)
  BY <1>1 DEF BatchSeq, NoSeq
<1>3. b = [from |-> Len(cmds) + 1, last |-> NoSeq, records |-> First.records \o rs]
  BY <1>2 DEF Blame
<1>4. rest = cmds
  OBVIOUS
<1> HIDE DEF rest
<1>5. rs = [k \in DOMAIN cmds |-> nft_cmd_error(cmds[k], err)]
  BY <1>4
<1>6. <<>> \o rs = rs
  <2> DEFINE X == {nft_cmd_error(cmds[k], err) : k \in DOMAIN cmds}
  <2>1. rs = [k \in 1..Len(cmds) |-> rs[k]]
    BY <1>5
  <2>2. \A k \in 1..Len(cmds) : rs[k] \in X
    BY <1>5
  <2> HIDE DEF rs, X
  <2>3. rs \in Seq(X)
    BY <2>1, <2>2, SeqBuild
  <2> QED BY <2>3
<1> HIDE DEF rs
<1>7. b.records = rs
  BY <1>1, <1>3, <1>6
<1> HIDE DEF b
<1>8. W!Fold(0, First, <<err>>) = b
  BY W!FoldOne DEF b
<1>9. FoldLeft(Blame, First, <<err>>) = b
  BY <1>8, BlamedIs
<1> QED BY <1>5, <1>7, <1>9

-----------------------------------------------------------------------------
(* The batch that is not sent. *)

D == INSTANCE FoldFacts WITH Op <- LAMBDA p, n, m : n + m.len

\* n: the length of a header and the messages ms.
Short(n, ms) ==
  /\ n \in Nat /\ n >= HdrLen
  /\ n = HdrLen => ms = <<>>
  /\ n <= 2 * HdrLen => \A r : Ok(r, PlainMsgs(ms))

\* Only a message without elements is as short as a header.
LEMMA Lengths == \A ms \in Seq(Message) : Short(D!Fold(0, HdrLen, ms), ms)
<1> DEFINE T == {ms \in Seq(Message) : Short(D!Fold(0, HdrLen, ms), ms)}
<1>1. <<>> \in T
  <2>1. D!Fold(0, HdrLen, <<>>) = HdrLen
    BY D!FoldEmpty
  <2>2. PlainMsgs(<<>>) = <<>>
    BY PlainMsgsFacts
  <2>3. Short(HdrLen, <<>>)
    BY <2>2, RunEmpty DEF Short, HdrLen
  <2> QED BY <2>1, <2>3
<1>2. ASSUME NEW s \in Seq(Message), NEW m \in Message, NEW t, s \in T, IsAppend(t, s, m) PROVE t \in T
  <2> DEFINE n == D!Fold(0, HdrLen, s)
             c == PlainMsg(m)
  <2>1. t \in Seq(Message)
    BY <1>2, AppendFacts
  <2>2. D!IsAppend(t, s, m)
    BY <1>2 DEF IsAppend, D!IsAppend
  <2>3. D!Fold(0, HdrLen, t) = n + m.len
    BY <2>2, D!FoldAppend
  <2>4. n \in Nat /\ n >= HdrLen /\ (n = HdrLen => s = <<>>)
    BY <1>2 DEF Short
  <2>5. /\ m.len \in Nat /\ m.len >= HdrLen /\ (m.elems # <<>> => m.len > HdrLen)
        /\ m.op \in Ops \ {"list"} /\ m.elems \in Seq(Entry) /\ c \in Command
    BY DEF Message
  <2> HIDE DEF n
  <2>6. n + m.len \in Nat /\ n + m.len > HdrLen
    BY <2>4, <2>5 DEF HdrLen
  <2>7. ASSUME n + m.len <= 2 * HdrLen, NEW r PROVE Ok(r, PlainMsgs(t))
    <3>1. s = <<>> /\ m.elems = <<>>
      BY <2>4, <2>5, <2>7 DEF HdrLen
    <3>2. c = With(m.op, m.set, <<>>)
      BY <3>1 DEF PlainMsg, Es
    <3>3. PlainMsgs(s) \in Seq(Command) /\ IsAppend(PlainMsgs(t), PlainMsgs(s), c)
      BY <1>2, PlainMsgsFacts, Zenon
    <3>4. PlainMsgs(s) = <<>>
      BY <3>1, PlainMsgsFacts
    <3>5. Ok(r, PlainMsgs(t)) <=> Ok(r, PlainMsgs(s)) /\ Atomic!Acceptable(After(r, PlainMsgs(s)), c)
      BY <2>5, <3>3, RunAppend, Zenon
    <3>6. Ok(r, PlainMsgs(s)) /\ After(r, PlainMsgs(s)) = r
      BY <3>4, RunEmpty
    <3>7. Atomic!Acceptable(r, c)
      <4>1. CASE m.op \in Changes
        BY <3>2, <4>1, NoElements
      <4>2. CASE m.op = "flush"
        <5>1. c.op = "flush"
          BY <4>2 DEF PlainMsg, With
        <5> QED BY <5>1 DEF Atomic!Acceptable
      <4> QED BY <2>5, <4>1, <4>2 DEF Ops, Changes
    <3> QED BY <3>5, <3>6, <3>7
  <2>8. Short(n + m.len, t)
    BY <2>6, <2>7 DEF Short, HdrLen
  <2> QED BY <2>1, <2>3, <2>8
<1> HIDE DEF T
<1>3. Seq(Message) \subseteq T
  BY <1>1, <1>2, SeqInductionR
<1> QED BY <1>3 DEF T

\* A batch that is not sent would have been accepted, and without effect.
LEMMA NotReady ==
  ASSUME NEW list \in Seq(LC), NEW check \in BOOLEAN, ~mnl_batch_ready(Built(list, check)), NEW r
  PROVE  Ok(r, PlainSeq(list)) /\ (check \/ After(r, PlainSeq(list)) = r)
<1> DEFINE h == Header("begin", BatchSeq)
           n == Len(list) + 1
           e == Header("end", n)
           ms == AllMsgs(list)
           AnyCmds == Message \cup {h, e}
           hs == <<h>>
           es == <<e>>
           tail == IF check THEN <<>> ELSE es
           u == hs \o ms
           b == u \o tail
           l == D!Fold(0, HdrLen, ms)
<1>1. ms \in Seq(Message) /\ Same(PlainMsgs(ms), PlainSeq(list))
  BY MessagesSame
<1>2. h.len = HdrLen /\ e.len = HdrLen
  BY DEF Header
<1>3. Built(list, check) = b
  BY BuiltIs, Zenon DEF Framed
<1>4. mnl_batch_ready(b) <=> D!Fold(0, 0, b) # 2 * HdrLen
  BY Zenon DEF mnl_batch_ready, D!Fold, D!FoldLeft, FoldLeft, D!MapThenFoldSet, MapThenFoldSet, D!Max, Max
<1>5. check => tail = <<>>
  OBVIOUS
<1>6. ~check => tail = es
  OBVIOUS
<1> HIDE DEF ms, h, e
<1>7. ms \in Seq(AnyCmds) /\ hs \in Seq(AnyCmds) /\ es \in Seq(AnyCmds) /\ tail \in Seq(AnyCmds)
  <2>1. h \in AnyCmds /\ e \in AnyCmds /\ \A m \in Message : m \in AnyCmds
    OBVIOUS
  <2> HIDE DEF AnyCmds
  <2> QED BY <1>1, <2>1
<1>8. D!Fold(0, 0, hs) = 0 + h.len
  BY D!FoldOne
<1>9. D!Fold(0, l, es) = l + e.len
  BY D!FoldOne
<1>10. D!IsConcat(u, hs, ms) /\ D!IsConcat(b, u, tail) /\ IsConcat(u, hs, ms)
  BY DEF D!IsConcat, IsConcat
<1> HIDE DEF hs, es, tail, u, b, AnyCmds
<1>11. u \in Seq(AnyCmds)
  BY <1>7, <1>10, ConcatFacts
<1>12. D!Fold(0, 0, u) = D!Fold(0, D!Fold(0, 0, hs), ms)
  BY <1>7, <1>10, D!FoldConcat
<1>13. D!Fold(0, 0, u) = l
  <2>1. D!Fold(0, 0, hs) = HdrLen
    BY <1>2, <1>8 DEF HdrLen
  <2> QED BY <1>12, <2>1
<1>14. D!Fold(0, 0, b) = D!Fold(0, l, tail)
  BY <1>7, <1>10, <1>11, <1>13, D!FoldConcat
<1>15. Short(l, ms)
  BY <1>1, Lengths
<1> HIDE DEF l
<1>16. CASE check
  <2>1. D!Fold(0, 0, b) = l
    BY <1>5, <1>14, <1>16, D!FoldEmpty
  <2>2. l = 2 * HdrLen
    BY <1>3, <1>4, <2>1
  <2>3. Ok(r, PlainMsgs(ms))
    BY <1>15, <2>2 DEF Short, HdrLen
  <2> QED BY <1>1, <1>16, <2>3 DEF Same
<1>17. CASE ~check
  <2>1. D!Fold(0, 0, b) = l + HdrLen
    BY <1>2, <1>6, <1>9, <1>14, <1>17
  <2>2. l + HdrLen = 2 * HdrLen
    BY <1>3, <1>4, <2>1
  <2>3. ms = <<>>
    BY <1>15, <2>2 DEF Short, HdrLen
  <2>4. PlainMsgs(ms) = <<>>
    BY <2>3, PlainMsgsFacts
  <2>5. Ok(r, PlainMsgs(ms)) /\ After(r, PlainMsgs(ms)) = r
    BY <2>4, RunEmpty
  <2> QED BY <1>1, <2>5 DEF Same
<1> QED BY <1>16, <1>17

(***************************************************************************)
(* The inductive invariant.                                                *)
(***************************************************************************)
Before == {"cache", "evaluate", "execute", "send"}

\* An answer of the kernel.
Ack == [seq : Nat, off : Nat, elem : Element \cup {"none"}, turn : Nat]

Shape ==
  /\ pc \in Before \cup {"idle", "receive", "report"}
  /\ overrun \in BOOLEAN /\ doubt \in BOOLEAN
  /\ turn \in 0 .. MaxInputs
  /\ answer \in {"none", "ok", "failed"}
  /\ queue \in Seq(Ack) /\ errlist \in Seq(Ack) /\ refused \in Seq(Ack)

InputOK == IF pc = "idle" THEN input = NoInput ELSE input \in Inputs

\* Nothing is left of the input before.
NothingLeft ==
  /\ pc = "idle" => batch = <<>>
  /\ pc \in Before \cup {"idle"} => errlist = <<>> /\ refused = <<>>

\* The commands mean what the input says.
CmdsOK ==
  /\ pc \in {"cache", "evaluate"} => cmds = Listed(input.cmds)
  /\ pc = "execute" => cmds \in Seq(LC) /\ Same(PlainSeq(cmds), input.cmds)
  /\ pc = "send" => \E l \in Seq(LC) : Same(PlainSeq(l), input.cmds) /\ batch = Built(l, input.check)

\* Without doubt, what is read are the refusals of this batch.
AnswersOK ==
  /\ overrun => pc = "receive" /\ refused # <<>>
  /\ ~doubt /\ pc \in Before => queue = <<>>
  /\ ~doubt /\ pc \in {"receive", "report"} /\ refused = <<>> => errlist = <<>>
  /\ ~doubt /\ pc = "receive" /\ refused = <<>> => queue = <<>>
  /\ ~doubt /\ pc = "receive" /\ refused # <<>> => queue # <<>> \/ errlist # <<>>
  /\ ~doubt /\ pc = "report" /\ refused # <<>> => errlist # <<>>

\* A check that is not refused would have been accepted.
CheckedOK ==
  pc \in {"receive", "report"} /\ refused = <<>> /\ input.check => Ok(kernel, input.cmds)

BatchInv == Shape /\ InputOK /\ NothingLeft /\ CmdsOK /\ AnswersOK /\ CheckedOK

\* An input holds commands.
LEMMA InputType ==
  ASSUME input \in Inputs
  PROVE  input.cmds \in Seq(Command) /\ input.check \in BOOLEAN
BY InputsAssumption

\* What the kernel answers to the batch that is sent.
LEMMA SendMeets ==
  ASSUME BatchInv, pc = "send"
  PROVE  /\ TryBatch(batch).errs \in Seq(Ack)
         /\ TryBatch(batch).errs = <<>> <=> Ok(kernel, input.cmds)
         /\ Ok(kernel, input.cmds) => TryBatch(batch).r = After(kernel, input.cmds)
         /\ HasEnd(batch) <=> ~input.check
<1>1. PICK l \in Seq(LC) : Same(PlainSeq(l), input.cmds) /\ batch = Built(l, input.check)
  BY DEF BatchInv, CmdsOK
<1>2. input.check \in BOOLEAN
  BY InputType DEF BatchInv, InputOK
<1>3. Meets(TryBatch(batch), kernel, PlainSeq(l))
  BY <1>1, <1>2, BuiltMeets
<1>4. Meets(TryBatch(batch), kernel, input.cmds)
  BY <1>1, <1>3, MeetsSame
<1>5. HasEnd(batch) <=> ~input.check
  BY <1>1, <1>2, BuiltEnd
<1>6. TryBatch(batch).errs \in Seq(Err)
  BY <1>3 DEF Meets
<1> DEFINE es == TryBatch(batch).errs
<1>7. es \in Seq(Ack)
  <2>1. turn \in Nat
    BY BatchAssumption DEF BatchInv, Shape
  <2>2. \A x \in Err : x \in Ack
    BY <2>1 DEF Err, Ack
  <2> HIDE DEF es
  <2>3. es \in Seq(Err)
    BY <1>6 DEF es
  <2> QED BY <2>2, <2>3
<1> QED BY <1>4, <1>5, <1>7 DEF Meets

\* It holds at first.
LEMMA InitInv == Init => BatchInv
<1> SUFFICES ASSUME Init PROVE BatchInv
  OBVIOUS
<1>1. <<>> \in Seq(Ack) /\ 0 \in 0 .. MaxInputs
  BY BatchAssumption
<1>2. Shape
  BY <1>1 DEF Init, Shape
<1> QED BY <1>2 DEF Init, BatchInv, InputOK, NothingLeft, CmdsOK, AnswersOK, CheckedOK, Before

\* Giving an answer leaves nothing behind.
LEMMA FinishInv ==
  ASSUME BatchInv, NEW status \in {"ok", "failed"}, Finish(status), overrun' = FALSE, queue' \in Seq(Ack),
         UNCHANGED <<turn, doubt>>
  PROVE  BatchInv'
<1>1. <<>> \in Seq(Ack)
  OBVIOUS
<1>2. Shape'
  BY <1>1 DEF BatchInv, Shape, Finish
<1> QED BY <1>2 DEF BatchInv, Finish, InputOK, NothingLeft, CmdsOK, AnswersOK, CheckedOK, Before

\* A new input.
LEMMA BeginInv == BatchInv /\ Begin => BatchInv'
<1> SUFFICES ASSUME BatchInv, Begin PROVE BatchInv'
  OBVIOUS
<1>1. Shape'
  BY BatchAssumption DEF BatchInv, Shape, Begin, Before
<1>2. InputOK' /\ NothingLeft' /\ CmdsOK' /\ CheckedOK'
  BY DEF BatchInv, Begin, InputOK, NothingLeft, CmdsOK, CheckedOK, Before
<1>3. AnswersOK'
  BY DEF BatchInv, Begin, AnswersOK, Before
<1> QED BY <1>1, <1>2, <1>3 DEF BatchInv

\* nft_cache_update(), which may read an answer that is not its own.
LEMMA CacheInv == BatchInv /\ (UpdateCache \/ UpdateCacheFails) => BatchInv'
<1> SUFFICES ASSUME BatchInv, UpdateCache \/ UpdateCacheFails PROVE BatchInv'
  OBVIOUS
<1>1. CASE UpdateCache
  <2>1. queue' \in Seq(Ack) /\ (queue = <<>> => queue' = <<>>)
    BY <1>1 DEF BatchInv, Shape, UpdateCache
  <2>2. Shape'
    BY <1>1, <2>1 DEF BatchInv, Shape, UpdateCache, Before
  <2>3. InputOK' /\ NothingLeft' /\ CmdsOK' /\ CheckedOK'
    BY <1>1 DEF BatchInv, UpdateCache, InputOK, NothingLeft, CmdsOK, CheckedOK, Before
  <2>4. AnswersOK'
    BY <1>1, <2>1 DEF BatchInv, UpdateCache, AnswersOK, Before
  <2> QED BY <2>2, <2>3, <2>4 DEF BatchInv
<1>2. CASE UpdateCacheFails
  <2>1. queue' \in Seq(Ack)
    <3>1. queue \in Seq(Ack) /\ Len(queue) > 1 /\ queue' = Tail(Tail(queue))
      BY <1>2 DEF BatchInv, Shape, UpdateCacheFails
    <3>2. Tail(queue) \in Seq(Ack) /\ Tail(queue) # <<>>
      BY <3>1
    <3> DEFINE q == Tail(queue)
    <3> HIDE DEF q
    <3>3. Tail(q) \in Seq(Ack)
      BY <3>2 DEF q
    <3> QED BY <3>1, <3>3 DEF q
  <2>2. overrun' = FALSE
    BY <1>2 DEF BatchInv, Shape, AnswersOK, UpdateCacheFails
  <2>3. Finish("failed") /\ UNCHANGED <<turn, doubt>>
    BY <1>2 DEF UpdateCacheFails
  <2> QED BY <2>1, <2>2, <2>3, FinishInv
<1> QED BY <1>1, <1>2

\* Collapsing and putting apart: the commands still mean what the input says.
LEMMA EvaluateInv == BatchInv /\ (Evaluate \/ EvaluateFails) => BatchInv'
<1> SUFFICES ASSUME BatchInv, Evaluate \/ EvaluateFails PROVE BatchInv'
  OBVIOUS
<1>1. CASE Evaluate
  <2>1. Shape' /\ InputOK' /\ NothingLeft' /\ AnswersOK' /\ CheckedOK'
    BY <1>1 DEF BatchInv, Shape, Evaluate, Before, InputOK, NothingLeft, AnswersOK, CheckedOK
  <2>2. cmds = Listed(input.cmds) /\ input \in Inputs /\ pc' = "execute" /\ input' = input
        /\ cmds' = nft_cmd_uncollapse(nft_cmd_collapse(cmds))
    BY <1>1 DEF BatchInv, Evaluate, CmdsOK, InputOK
  <2>3. cmds' \in Seq(LC) /\ Same(PlainSeq(cmds'), input.cmds)
    BY <2>2, InputType, CollapseSame
  <2>4. CmdsOK'
    BY <2>2, <2>3 DEF CmdsOK
  <2> QED BY <2>1, <2>4 DEF BatchInv
<1>2. CASE EvaluateFails
  <2>1. queue' \in Seq(Ack) /\ overrun' = FALSE
    BY <1>2 DEF BatchInv, Shape, AnswersOK, EvaluateFails
  <2>2. Finish("failed") /\ UNCHANGED <<turn, doubt>>
    BY <1>2 DEF EvaluateFails
  <2> QED BY <2>1, <2>2, FinishInv
<1> QED BY <1>1, <1>2

\* The commands become the batch.
LEMMA ExecuteInv == BatchInv /\ (Execute \/ ExecuteFails \/ NothingToDo) => BatchInv'
<1> SUFFICES ASSUME BatchInv, Execute \/ ExecuteFails \/ NothingToDo PROVE BatchInv'
  OBVIOUS
<1>1. CASE Execute
  <2>1. Shape' /\ InputOK' /\ NothingLeft' /\ AnswersOK' /\ CheckedOK'
    BY <1>1 DEF BatchInv, Shape, Execute, Before, InputOK, NothingLeft, AnswersOK, CheckedOK
  <2>2. cmds \in Seq(LC) /\ Same(PlainSeq(cmds), input.cmds) /\ pc' = "send" /\ input' = input
        /\ batch' = Built(cmds, input.check)
    BY <1>1 DEF BatchInv, Execute, CmdsOK
  <2>3. CmdsOK'
    BY <2>2 DEF CmdsOK
  <2> QED BY <2>1, <2>3 DEF BatchInv
<1>2. CASE ExecuteFails \/ NothingToDo
  <2>1. queue' \in Seq(Ack) /\ overrun' = FALSE
    BY <1>2 DEF BatchInv, Shape, AnswersOK, ExecuteFails, NothingToDo
  <2>2. (Finish("failed") \/ Finish("ok")) /\ UNCHANGED <<turn, doubt>>
    BY <1>2 DEF ExecuteFails, NothingToDo
  <2> QED BY <2>1, <2>2, FinishInv
<1> QED BY <1>1, <1>2

\* What all the ways to send have in common.
LEMMA SendInv ==
  ASSUME BatchInv, Send, queue' \in Seq(Ack), refused' \in Seq(Ack), overrun' \in BOOLEAN,
         overrun' => refused' # <<>>,
         ~doubt /\ refused' = <<>> => queue' = <<>>,
         ~doubt /\ refused' # <<>> => queue' # <<>>,
         refused' = <<>> /\ input.check => Ok(kernel', input.cmds)
  PROVE  BatchInv'
<1>1. Shape'
  BY DEF BatchInv, Shape, Send, Before
<1>2. InputOK' /\ NothingLeft' /\ CmdsOK'
  BY DEF BatchInv, Send, InputOK, NothingLeft, CmdsOK, Before
<1>3. AnswersOK'
  BY DEF BatchInv, Send, AnswersOK, NothingLeft, Before
<1>4. CheckedOK'
  BY DEF Send, CheckedOK
<1> QED BY <1>1, <1>2, <1>3, <1>4 DEF BatchInv

\* Answers that the socket takes all, some, or none of.
LEMMA SentInv ==
  ASSUME BatchInv, Send, NEW acks \in Seq(Ack), acks # <<>>, Sent(acks)
  PROVE  BatchInv'
<1>1. refused' = acks /\ overrun = FALSE /\ queue \in Seq(Ack) /\ (~doubt => queue = <<>>)
  BY DEF BatchInv, Shape, Send, Sent, AnswersOK, Before
<1>2. \A n \in 1 .. Len(acks) - 1 : SubSeq(acks, 1, n) \in Seq(Ack) /\ SubSeq(acks, 1, n) # <<>>
  <2> TAKE n \in 1 .. Len(acks) - 1
  <2>1. n \in Nat /\ 1 <= n /\ n <= Len(acks)
    OBVIOUS
  <2>2. SubSeq(acks, 1, n) \in Seq(Ack) /\ Len(SubSeq(acks, 1, n)) = n
    BY <2>1
  <2> QED BY <2>1, <2>2
<1>3. queue' \in Seq(Ack) /\ overrun' \in BOOLEAN /\ (queue = <<>> => queue' # <<>>)
  BY <1>1, <1>2 DEF Sent, Answered
<1> QED BY <1>1, <1>3, SendInv

\* Each outcome of sending.
LEMMA SendsInv == BatchInv /\ (SendAccepted \/ SendRefused \/ SendRefusedWhole \/ SendFails) => BatchInv'
<1> SUFFICES ASSUME BatchInv, SendAccepted \/ SendRefused \/ SendRefusedWhole \/ SendFails PROVE BatchInv'
  OBVIOUS
<1>1. CASE SendAccepted
  <2>1. Send /\ pc = "send" /\ TryBatch(batch).errs = <<>> /\ UNCHANGED <<queue, overrun, refused>>
        /\ kernel' = IF HasEnd(batch) THEN TryBatch(batch).r ELSE kernel
    BY <1>1 DEF SendAccepted, Send
  <2>2. Ok(kernel, input.cmds) /\ (input.check => kernel' = kernel)
    BY <2>1, SendMeets
  <2>3. refused = <<>> /\ overrun = FALSE /\ (~doubt => queue = <<>>) /\ queue \in Seq(Ack) /\ refused \in Seq(Ack)
    BY <2>1 DEF BatchInv, Shape, NothingLeft, AnswersOK, Before
  <2>4. refused' = <<>> /\ input.check => Ok(kernel', input.cmds)
    BY <2>2
  <2> QED BY <2>1, <2>3, <2>4, SendInv
<1>2. CASE SendRefused
  <2>1. Send /\ pc = "send" /\ TryBatch(batch).errs # <<>> /\ Sent(TryBatch(batch).errs)
    BY <1>2 DEF SendRefused, Send
  <2>2. TryBatch(batch).errs \in Seq(Ack)
    BY <2>1, SendMeets
  <2> QED BY <2>1, <2>2, SentInv
<1>3. CASE SendRefusedWhole
  <2> DEFINE acks == <<BatchError>>
  <2>1. Send /\ Sent(acks)
    BY <1>3 DEF SendRefusedWhole
  <2>2. BatchError \in Ack
    BY BatchAssumption DEF BatchInv, Shape, BatchError, Ack, BatchSeq
  <2>3. acks \in Seq(Ack) /\ acks # <<>>
    BY <2>2
  <2> HIDE DEF acks
  <2> QED BY <2>1, <2>3, SentInv
<1>4. CASE SendFails
  <2>1. queue' \in Seq(Ack) /\ overrun' = FALSE
    BY <1>4 DEF BatchInv, Shape, AnswersOK, SendFails
  <2>2. Finish("failed") /\ UNCHANGED <<turn, doubt>>
    BY <1>4 DEF SendFails
  <2> QED BY <2>1, <2>2, FinishInv
<1> QED BY <1>1, <1>2, <1>3, <1>4

\* Reading the answers, and the exit status.
LEMMA ReceiveInv == BatchInv /\ (Receive \/ ReceiveFails \/ Report \/ Return) => BatchInv'
<1> SUFFICES ASSUME BatchInv, Receive \/ ReceiveFails \/ Report \/ Return PROVE BatchInv'
  OBVIOUS
<1>1. CASE Receive
  <2>1. queue' \in Seq(Ack) /\ errlist' \in Seq(Ack) /\ errlist' # <<>>
    <3>1. queue \in Seq(Ack) /\ queue # <<>> /\ errlist \in Seq(Ack) /\ queue' = Tail(queue)
          /\ errlist' = Append(errlist, Head(queue))
      BY <1>1 DEF BatchInv, Shape, Receive
    <3>2. Head(queue) \in Ack /\ Tail(queue) \in Seq(Ack)
      BY <3>1
    <3>3. Append(errlist, Head(queue)) \in Seq(Ack) /\ Append(errlist, Head(queue)) # <<>>
      BY <3>1, <3>2
    <3> QED BY <3>1, <3>2, <3>3
  <2>2. Shape'
    BY <1>1, <2>1 DEF BatchInv, Shape, Receive, Before
  <2>3. InputOK' /\ NothingLeft' /\ CmdsOK' /\ CheckedOK'
    BY <1>1 DEF BatchInv, Receive, InputOK, NothingLeft, CmdsOK, CheckedOK, Before
  <2>4. AnswersOK'
    BY <1>1, <2>1 DEF BatchInv, Receive, AnswersOK, Before
  <2> QED BY <2>2, <2>3, <2>4 DEF BatchInv
<1>2. CASE Report
  <2>1. Shape' /\ InputOK' /\ NothingLeft' /\ CmdsOK' /\ CheckedOK'
    BY <1>2 DEF BatchInv, Shape, Report, InputOK, NothingLeft, CmdsOK, CheckedOK, Before
  <2>2. AnswersOK'
    BY <1>2 DEF BatchInv, Report, AnswersOK, Before
  <2> QED BY <2>1, <2>2 DEF BatchInv
<1>3. CASE ReceiveFails \/ Return
  <2>1. queue' \in Seq(Ack) /\ overrun' = FALSE
    BY <1>3 DEF BatchInv, Shape, AnswersOK, ReceiveFails, Return
  <2>2. (Finish("failed") \/ Finish("ok")) /\ UNCHANGED <<turn, doubt>>
    BY <1>3 DEF ReceiveFails, Return
  <2> QED BY <2>1, <2>2, FinishInv
<1> QED BY <1>1, <1>2, <1>3

\* What is not part of an input.
LEMMA RestInv == BatchInv /\ (NewContext \/ Done \/ UNCHANGED vars) => BatchInv'
<1> SUFFICES ASSUME BatchInv, NewContext \/ Done \/ UNCHANGED vars PROVE BatchInv'
  OBVIOUS
<1>1. CASE NewContext
  <2>1. queue' = <<>>
    BY <1>1 DEF NewContext
  <2>2. queue' \in Seq(Ack)
    BY <2>1
  <2>3. Shape' /\ InputOK' /\ NothingLeft' /\ CmdsOK' /\ CheckedOK'
    BY <1>1, <2>2 DEF BatchInv, Shape, NewContext, InputOK, NothingLeft, CmdsOK, CheckedOK, Before
  <2>4. AnswersOK'
    BY <1>1, <2>1 DEF BatchInv, NewContext, AnswersOK, Before
  <2> QED BY <2>3, <2>4 DEF BatchInv
<1>2. CASE Done \/ UNCHANGED vars
  BY <1>2 DEF BatchInv, Shape, Done, vars, InputOK, NothingLeft, CmdsOK, CheckedOK, AnswersOK, Before
<1> QED BY <1>1, <1>2

\* Batch: in every state, the commands and the batch mean what the input says, and
\* without doubt what is read are the refusals of this batch.
THEOREM Invariant == Spec => []BatchInv
<1>1. BatchInv /\ [Next]_vars => BatchInv'
  BY BeginInv, CacheInv, EvaluateInv, ExecuteInv, SendsInv, ReceiveInv, RestInv DEF Next
<1> QED BY InitInv, <1>1, PTL DEF Spec

\* nft_run_cmd_from_buffer(): the state between its call and its return is one of
\* those of the code, and nothing of one input is left for the next one.
THEOREM TypeCorrect == Spec => []TypeOK
<1>1. BatchInv => TypeOK
  BY DEF BatchInv, Shape, NothingLeft, AnswersOK, TypeOK, Before
<1> QED BY <1>1, Invariant, PTL

-----------------------------------------------------------------------------
(* The refinement. *)

\* What Atomic takes for its phase.
Phase == IF pc = "idle" THEN "idle" ELSE IF Committed THEN "committed" ELSE "asked"

\* All that AtomicInput sees stays as it is.
Stutter == UNCHANGED <<kernel, input, Phase, doubt, answer>>

\* A failure, unless the kernel has taken the batch.
LEMMA FailStep ==
  ASSUME BatchInv, Finish("failed"), UNCHANGED <<kernel, doubt>>, pc # "idle", Committed => doubt
  PROVE  Atomic!Fail
BY DEF Finish, Atomic!Fail, Committed, NoInput, Atomic!NoInput

\* A success, if it is one.
LEMMA SucceedStep ==
  ASSUME BatchInv, Finish("ok"), UNCHANGED <<kernel, doubt>>, pc # "idle",
         \/ Committed
         \/ doubt
         \/ Ok(kernel, input.cmds) /\ (input.check \/ After(kernel, input.cmds) = kernel)
  PROVE  Atomic!Succeed
BY DEF Finish, Atomic!Succeed, Committed, NoInput, Atomic!NoInput, Ok, After

\* Begin is what AtomicInput calls asking.
LEMMA StepAsk == Begin => Atomic!Ask
BY DEF Begin, Atomic!Ask, Committed

\* Every failure but that of Return comes before the kernel has taken the batch.
LEMMA StepFail ==
  BatchInv /\ (UpdateCacheFails \/ EvaluateFails \/ ExecuteFails \/ SendFails \/ ReceiveFails) => Atomic!Fail
<1> SUFFICES ASSUME BatchInv, UpdateCacheFails \/ EvaluateFails \/ ExecuteFails \/ SendFails \/ ReceiveFails
             PROVE  Atomic!Fail
  OBVIOUS
<1>1. Finish("failed") /\ UNCHANGED <<kernel, doubt>> /\ pc # "idle"
  BY DEF UpdateCacheFails, EvaluateFails, ExecuteFails, SendFails, ReceiveFails
<1>2. ~Committed
  BY DEF UpdateCacheFails, EvaluateFails, ExecuteFails, SendFails, ReceiveFails, Committed, BatchInv, AnswersOK
<1> QED BY <1>1, <1>2, FailStep

\* An input that sends nothing has nothing to change.
LEMMA StepNothing == BatchInv /\ NothingToDo => Atomic!Succeed
<1> SUFFICES ASSUME BatchInv, NothingToDo PROVE Atomic!Succeed
  OBVIOUS
<1>1. Finish("ok") /\ UNCHANGED <<kernel, doubt>> /\ pc # "idle" /\ input.check \in BOOLEAN
  BY InputType DEF NothingToDo, BatchInv, InputOK
<1>2. Ok(kernel, input.cmds) /\ (input.check \/ After(kernel, input.cmds) = kernel)
  <2>1. CASE pc = "execute" /\ cmds = <<>>
    <3>1. Same(PlainSeq(<<>>), input.cmds) /\ PlainSeq(<<>>) = <<>>
      BY <2>1 DEF BatchInv, CmdsOK, PlainSeq
    <3>2. Ok(kernel, <<>>) /\ After(kernel, <<>>) = kernel
      BY RunEmpty
    <3> QED BY <3>1, <3>2 DEF Same
  <2>2. CASE pc = "send" /\ ~mnl_batch_ready(batch)
    <3>1. PICK l \in Seq(LC) : Same(PlainSeq(l), input.cmds) /\ batch = Built(l, input.check)
      BY <2>2 DEF BatchInv, CmdsOK
    <3>2. Ok(kernel, PlainSeq(l)) /\ (input.check \/ After(kernel, PlainSeq(l)) = kernel)
      BY <1>1, <2>2, <3>1, NotReady
    <3> QED BY <3>1, <3>2 DEF Same
  <2> QED BY <2>1, <2>2 DEF NothingToDo
<1> QED BY <1>1, <1>2, SucceedStep

\* The kernel takes the batch: its effect is that of the input as it is written.
LEMMA StepAccepted == BatchInv /\ SendAccepted => Atomic!Commit \/ Stutter
<1> SUFFICES ASSUME BatchInv, SendAccepted PROVE Atomic!Commit \/ Stutter
  OBVIOUS
<1>1. /\ pc = "send" /\ pc' = "receive" /\ TryBatch(batch).errs = <<>> /\ refused' = <<>>
      /\ kernel' = IF HasEnd(batch) THEN TryBatch(batch).r ELSE kernel
      /\ UNCHANGED <<input, doubt, answer>>
  BY DEF SendAccepted, Send, BatchInv, NothingLeft, Before
<1>2. /\ Ok(kernel, input.cmds) /\ (HasEnd(batch) <=> ~input.check)
      /\ TryBatch(batch).r = After(kernel, input.cmds)
  BY <1>1, SendMeets
<1>3. CASE input.check
  BY <1>1, <1>2, <1>3 DEF Stutter, Phase, Committed
<1>4. CASE ~input.check
  BY <1>1, <1>2, <1>4 DEF Atomic!Commit, Committed, Ok, After
<1> QED BY <1>3, <1>4

\* The kernel refuses the batch: nothing changes.
LEMMA StepRefused == BatchInv /\ (SendRefused \/ SendRefusedWhole) => Stutter
<1> SUFFICES ASSUME BatchInv, SendRefused \/ SendRefusedWhole PROVE Stutter
  OBVIOUS
<1>1. refused' # <<>> /\ pc = "send" /\ pc' = "receive" /\ UNCHANGED <<kernel, input, doubt, answer>>
  <2>1. <<BatchError>> # <<>>
    OBVIOUS
  <2> QED BY <2>1 DEF SendRefused, SendRefusedWhole, Send, Sent
<1> QED BY <1>1 DEF Stutter, Phase, Committed

\* The exit status of Return.
LEMMA StepReturn == BatchInv /\ Return => Atomic!Succeed \/ Atomic!Fail
<1> SUFFICES ASSUME BatchInv, Return PROVE Atomic!Succeed \/ Atomic!Fail
  OBVIOUS
<1>1. pc = "report" /\ UNCHANGED <<kernel, doubt>> /\ input.check \in BOOLEAN
  BY InputType DEF Return, BatchInv, InputOK
<1>2. CASE errlist = <<>>
  <2>1. Finish("ok")
    BY <1>2 DEF Return
  <2>2. doubt \/ refused = <<>>
    BY <1>1, <1>2 DEF BatchInv, AnswersOK
  <2>3. doubt \/ Committed \/ (Ok(kernel, input.cmds) /\ input.check)
    BY <1>1, <2>2 DEF Committed, BatchInv, CheckedOK
  <2> QED BY <1>1, <2>1, <2>3, SucceedStep
<1>3. CASE errlist # <<>>
  <2>1. Finish("failed")
    BY <1>3 DEF Return
  <2>2. Committed => doubt
    BY <1>1, <1>3 DEF BatchInv, AnswersOK, Committed, Shape
  <2> QED BY <1>1, <2>1, <2>2, FailStep
<1> QED BY <1>2, <1>3

\* The other steps are not seen by whoever gave the input.
LEMMA StepSilent ==
  UpdateCache \/ Evaluate \/ Execute \/ Receive \/ Report \/ NewContext \/ Done \/ UNCHANGED vars => Stutter
<1> SUFFICES ASSUME UpdateCache \/ Evaluate \/ Execute \/ Receive \/ Report \/ NewContext \/ Done \/ UNCHANGED vars
             PROVE  Stutter
  OBVIOUS
<1>1. CASE UpdateCache \/ Evaluate \/ Execute
  BY <1>1 DEF UpdateCache, Evaluate, Execute, Stutter, Phase, Committed
<1>2. CASE Receive \/ Report
  BY <1>2 DEF Receive, Report, Stutter, Phase, Committed
<1>3. CASE NewContext \/ Done \/ UNCHANGED vars
  BY <1>3 DEF NewContext, Done, vars, Stutter, Phase, Committed
<1> QED BY <1>1, <1>2, <1>3

\* An input takes effect as a whole and as it is written, or not at all, and the
\* exit status says which: for all inputs, sizes of elements and limits of the
\* attributes, nft_cmd_collapse(), nft_cmd_uncollapse(), the split of long lists of
\* elements over messages, the batch that is not sent and the errors read from the
\* socket keep what AtomicInput promises.
THEOREM Implements == Spec => ImplementsAtomic
<1>1. Init => Atomic!Init
  BY DEF Init, Atomic!Init, NoInput, Atomic!NoInput
<1>2. BatchInv /\ [Next]_vars => [Atomic!Next]_(Atomic!vars)
  <2>1. Stutter => UNCHANGED Atomic!vars
    BY DEF Stutter, Phase, Atomic!vars
  <2> QED BY <2>1, StepAsk, StepFail, StepNothing, StepAccepted, StepRefused, StepReturn, StepSilent
           DEF Next, Atomic!Next
<1> QED BY <1>1, <1>2, Invariant, PTL DEF Spec, ImplementsAtomic, Atomic!Spec
-----------------------------------------------------------------------------
(* Who is blamed, from Begin to Return. *)

\* The list l has each of the given commands once.
Listing(l, given) == l \in Seq(LC) /\ Restored(l, given, DOMAIN given)

\* The commands of l with the places that Execute notes.
Filled(cs, l) == cs = [k \in DOMAIN l |-> [l[k] EXCEPT !.attr = do_command(l[k], k).attr]]

\* The batch as a whole was refused.
Whole(rs) == rs = <<rs[1]>> /\ rs[1].seq = BatchSeq

\* What the kernel refused: the batch, or messages of commands.
Refusals(rs, l) == Whole(rs) \/ \A j \in DOMAIN rs : AnswersTo(rs[j], l)

\* The error records of what was refused.
Recorded(cs, rs) ==
  IF Whole(rs) THEN [k \in DOMAIN cs |-> nft_cmd_error(cs[k], rs[1])] ELSE RecordsFor(cs, rs)

\* The list of commands, the batch and the answers belong together.
BlameInv ==
  /\ pc = "execute" => Listing(cmds, input.cmds)
  /\ pc \in {"send", "receive", "report"} =>
       \E l \in Seq(LC) :
         /\ Listing(l, input.cmds) /\ batch = Built(l, input.check) /\ Filled(cmds, l)
         /\ pc # "send" => Refusals(refused, l)
  /\ ~doubt /\ pc = "receive" /\ ~overrun => IsConcat(refused, errlist, queue)
  /\ ~doubt /\ pc = "report" => records = Recorded(cmds, refused)

\* What InputsAssumption says of the commands holds in the list.
LEMMA ListingTidy ==
  ASSUME input \in Inputs, NEW l, Listing(l, input.cmds)
  PROVE  AllTidy(l)
<1> SUFFICES ASSUME NEW k \in DOMAIN l PROVE Tidy(l[k])
  BY DEF AllTidy
<1> DEFINE c == l[k]
           g == input.cmds[c.id]
<1>1. l \in Seq(LC) /\ c.id \in DOMAIN input.cmds /\ Plain(c) = g
  BY DEF Listing, Restored
<1>2. /\ g.set = "tables" => Len(g.elems) <= 1
      /\ g.set = "none" => g.elems = <<>>
  BY <1>1, InputsAssumption
<1>3. c \in LC
  BY <1>1
<1> HIDE DEF c, g
<1>4. g.set = c.set /\ g.elems = Es(c.expr)
  BY <1>1 DEF Plain, With
<1>5. c.expr \in Seq(Part)
  BY <1>3 DEF LC
<1>6. Len(Es(c.expr)) = Len(c.expr)
  BY <1>5 DEF Es
<1>7. Es(c.expr) = <<>> => c.expr = <<>>
  <2>1. \A x \in Part : x.e \in Element
    BY DEF Part
  <2> QED BY <1>5, <2>1, EsFacts
<1> QED BY <1>2, <1>4, <1>6, <1>7 DEF Tidy, c

\* The answers to the batch are refusals.
LEMMA RefusalsMeet ==
  ASSUME BatchInv, BlameInv, pc = "send"
  PROVE  \A l \in Seq(LC) : Listing(l, input.cmds) /\ batch = Built(l, input.check) =>
           /\ Refusals(<<>>, l) /\ Refusals(<<BatchError>>, l)
           /\ Refusals(TryBatch(batch).errs, l)
<1> SUFFICES ASSUME NEW l \in Seq(LC), Listing(l, input.cmds), batch = Built(l, input.check)
             PROVE  /\ Refusals(<<>>, l) /\ Refusals(<<BatchError>>, l)
                    /\ Refusals(TryBatch(batch).errs, l)
  OBVIOUS
<1>1. input \in Inputs /\ input.check \in BOOLEAN
  BY InputType DEF BatchInv, InputOK
<1>2. AllTidy(l)
  BY <1>1, ListingTidy
<1>3. Refusals(TryBatch(batch).errs, l)
  <2> DEFINE es == TryBatch(batch).errs
  <2>1. \A i \in DOMAIN es : AnswersTo(es[i], l)
    BY <1>1, <1>2, BuiltErrs
  <2> HIDE DEF es
  <2>2. Refusals(es, l)
    BY <2>1 DEF Refusals
  <2> QED BY <2>2 DEF es
<1>4. Refusals(<<>>, l)
  BY DEF Refusals
<1>5. Refusals(<<BatchError>>, l)
  <2> DEFINE be == BatchError
  <2>1. be.seq = BatchSeq
    BY DEF BatchError
  <2> HIDE DEF be
  <2>2. Whole(<<be>>)
    BY <2>1 DEF Whole
  <2> QED BY <2>2 DEF Refusals, be
<1> QED BY <1>3, <1>4, <1>5

\* Collapsing and putting apart give each command back.
LEMMA BlameEvaluate == BatchInv /\ Evaluate => BlameInv'
<1> SUFFICES ASSUME BatchInv, Evaluate PROVE BlameInv'
  OBVIOUS
<1>1. cmds = Listed(input.cmds) /\ input \in Inputs /\ pc' = "execute" /\ input' = input
      /\ cmds' = nft_cmd_uncollapse(nft_cmd_collapse(cmds))
  BY DEF BatchInv, Evaluate, CmdsOK, InputOK
<1>2. cmds' \in Seq(LC) /\ Restored(cmds', input.cmds, DOMAIN input.cmds)
  BY <1>1, InputType, CollapseSame, CollapseRestores
<1>3. Listing(cmds', input'.cmds)
  BY <1>1, <1>2 DEF Listing
<1> QED BY <1>1, <1>3 DEF BlameInv

\* The commands become the batch.
LEMMA BlameExecute == BatchInv /\ BlameInv /\ Execute => BlameInv'
<1> SUFFICES ASSUME BatchInv, BlameInv, Execute PROVE BlameInv'
  OBVIOUS
<1>1. Listing(cmds, input.cmds) /\ pc' = "send" /\ input' = input /\ batch' = Built(cmds, input.check)
      /\ cmds' = [k \in DOMAIN cmds |-> [cmds[k] EXCEPT !.attr = do_command(cmds[k], k).attr]]
  BY DEF Execute, BlameInv
<1>2. cmds \in Seq(LC) /\ Listing(cmds, input'.cmds) /\ batch' = Built(cmds, input'.check) /\ Filled(cmds', cmds)
  BY <1>1 DEF Listing, Filled
<1> QED BY <1>1, <1>2 DEF BlameInv

\* What all the ways to send have in common.
LEMMA BlameSend ==
  ASSUME BatchInv, BlameInv, Send,
         \A l \in Seq(LC) : Listing(l, input.cmds) /\ batch = Built(l, input.check) => Refusals(refused', l),
         ~doubt /\ ~overrun' => IsConcat(refused', errlist, queue')
  PROVE  BlameInv'
<1>1. pc = "send" /\ pc' = "receive" /\ UNCHANGED <<input, cmds, batch, errlist, doubt>>
  BY DEF Send
<1>2. PICK l \in Seq(LC) : Listing(l, input.cmds) /\ batch = Built(l, input.check) /\ Filled(cmds, l)
  BY <1>1 DEF BlameInv
<1>3. Refusals(refused', l)
  BY <1>2
<1>4. Listing(l, input'.cmds) /\ batch' = Built(l, input'.check) /\ Filled(cmds', l)
  BY <1>1, <1>2
<1> QED BY <1>1, <1>3, <1>4 DEF BlameInv

\* Answers in an empty socket are what is read, unless it loses one.
LEMMA BlameSent ==
  ASSUME BatchInv, Send, NEW acks \in Seq(Ack), Sent(acks)
  PROVE  ~doubt /\ ~overrun' => IsConcat(refused', errlist, queue')
<1> SUFFICES ASSUME ~doubt, ~overrun' PROVE IsConcat(refused', errlist, queue')
  OBVIOUS
<1>1. queue = <<>> /\ errlist = <<>> /\ refused' = acks
  BY DEF BatchInv, Send, Sent, AnswersOK, NothingLeft, Before
<1>2. queue' = acks
  BY <1>1 DEF Sent, Answered
<1>3. acks = <<>> \o acks
  OBVIOUS
<1> QED BY <1>1, <1>2, <1>3 DEF IsConcat

\* Each outcome of sending.
LEMMA BlameSends ==
  BatchInv /\ BlameInv /\ (SendAccepted \/ SendRefused \/ SendRefusedWhole) => BlameInv'
<1> SUFFICES ASSUME BatchInv, BlameInv, SendAccepted \/ SendRefused \/ SendRefusedWhole PROVE BlameInv'
  OBVIOUS
<1>1. pc = "send" /\ Send
  BY DEF SendAccepted, SendRefused, SendRefusedWhole, Send
<1>2. CASE SendAccepted
  <2>1. queue' = queue /\ refused' = refused /\ refused = <<>> /\ errlist = <<>> /\ (~doubt => queue = <<>>)
    BY <1>1, <1>2 DEF SendAccepted, BatchInv, NothingLeft, AnswersOK, Before
  <2>2. \A l \in Seq(LC) : Listing(l, input.cmds) /\ batch = Built(l, input.check) => Refusals(refused', l)
    BY <1>1, <2>1, RefusalsMeet
  <2>3. ~doubt => IsConcat(refused', errlist, queue')
    <3>1. <<>> = <<>> \o <<>>
      OBVIOUS
    <3> QED BY <2>1, <3>1 DEF IsConcat
  <2> QED BY <1>1, <2>2, <2>3, BlameSend
<1>3. CASE SendRefused
  <2>1. Sent(TryBatch(batch).errs)
    BY <1>3 DEF SendRefused
  <2>2. TryBatch(batch).errs \in Seq(Ack)
    BY <1>1, SendMeets
  <2>3. ~doubt /\ ~overrun' => IsConcat(refused', errlist, queue')
    BY <1>1, <2>1, <2>2, BlameSent
  <2>4. refused' = TryBatch(batch).errs
    BY <2>1 DEF Sent
  <2>5. \A l \in Seq(LC) : Listing(l, input.cmds) /\ batch = Built(l, input.check) => Refusals(refused', l)
    BY <1>1, <2>4, RefusalsMeet
  <2> QED BY <1>1, <2>3, <2>5, BlameSend
<1>4. CASE SendRefusedWhole
  <2> DEFINE acks == <<BatchError>>
  <2>1. Sent(acks)
    BY <1>4 DEF SendRefusedWhole
  <2>2. BatchError \in Ack
    BY BatchAssumption DEF BatchInv, Shape, BatchError, Ack, BatchSeq
  <2>3. acks \in Seq(Ack)
    BY <2>2
  <2>4. \A l \in Seq(LC) : Listing(l, input.cmds) /\ batch = Built(l, input.check) => Refusals(acks, l)
    BY <1>1, RefusalsMeet
  <2> HIDE DEF acks
  <2>5. ~doubt /\ ~overrun' => IsConcat(refused', errlist, queue')
    BY <1>1, <2>1, <2>3, BlameSent
  <2>6. refused' = acks
    BY <2>1 DEF Sent
  <2> QED BY <1>1, <2>4, <2>5, <2>6, BlameSend
<1> QED BY <1>2, <1>3, <1>4

\* What has been read and what waits are what was refused.
LEMMA BlameReceive == BatchInv /\ BlameInv /\ Receive => BlameInv'
<1> SUFFICES ASSUME BatchInv, BlameInv, Receive PROVE BlameInv'
  OBVIOUS
<1>1. /\ pc = "receive" /\ ~overrun /\ queue # <<>> /\ queue' = Tail(queue) /\ errlist' = Append(errlist, Head(queue))
      /\ UNCHANGED <<overrun, pc, input, cmds, batch, records, refused, doubt>>
  BY DEF Receive
<1>2. queue \in Seq(Ack) /\ errlist \in Seq(Ack)
  BY DEF BatchInv, Shape
<1>3. PICK l \in Seq(LC) : Listing(l, input.cmds) /\ batch = Built(l, input.check) /\ Filled(cmds, l) /\ Refusals(refused, l)
  BY <1>1 DEF BlameInv
<1>4. Listing(l, input'.cmds) /\ batch' = Built(l, input'.check) /\ Filled(cmds', l) /\ Refusals(refused', l)
  BY <1>1, <1>3
<1>5. ~doubt' => IsConcat(refused', errlist', queue')
  <2>1. errlist \o queue = Append(errlist, Head(queue)) \o Tail(queue)
    BY <1>1, <1>2
  <2> QED BY <1>1, <2>1 DEF IsConcat, BlameInv
<1> QED BY <1>1, <1>4, <1>5 DEF BlameInv

\* Every command keeps its number, its place in the list and the places noted.
LEMMA FilledIs ==
  ASSUME NEW l \in Seq(LC), NEW cs, Filled(cs, l)
  PROVE  /\ DOMAIN cs = DOMAIN l /\ DOMAIN cs = 1..Len(cs) /\ Len(cs) \in Nat /\ \E S : cs \in Seq(S)
         /\ \A k \in DOMAIN l : cs[k].id = l[k].id /\ cs[k].attr = do_command(l[k], k).attr
<1>1. Len(l) \in Nat /\ DOMAIN l = 1..Len(l) /\ cs = [k \in 1..Len(l) |-> cs[k]]
  BY DEF Filled
<1> DEFINE S == {cs[k] : k \in 1..Len(l)}
           n == Len(l)
<1>2. \A k \in 1..n : cs[k] \in S
  OBVIOUS
<1> HIDE DEF S
<1>3. cs \in Seq(S) /\ Len(cs) = n /\ DOMAIN cs = 1..n
  <2> HIDE DEF n
  <2>1. n \in Nat /\ cs = [k \in 1..n |-> cs[k]]
    BY <1>1 DEF n
  <2> QED BY <1>2, <2>1, SeqBuild
<1>4. ASSUME NEW k \in DOMAIN l PROVE cs[k].id = l[k].id /\ cs[k].attr = do_command(l[k], k).attr
  <2> DEFINE c == l[k]
             at == do_command(c, k).attr
  <2>1. cs[k] = [c EXCEPT !.attr = at]
    BY DEF Filled
  <2>2. c \in LC
    OBVIOUS
  <2> HIDE DEF c, at
  <2>3. cs[k].id = c.id /\ cs[k].attr = at
    BY <2>1, <2>2 DEF LC
  <2> QED BY <2>3 DEF c, at
<1> QED BY <1>1, <1>3, <1>4

\* When all answers are read, each is blamed on its command.
LEMMA BlameReport == BatchInv /\ BlameInv /\ Report => BlameInv'
<1> SUFFICES ASSUME BatchInv, BlameInv, Report PROVE BlameInv'
  OBVIOUS
<1>1. /\ pc = "receive" /\ ~overrun /\ queue = <<>> /\ pc' = "report"
      /\ records' = FoldLeft(Blame, First, errlist).records
      /\ UNCHANGED <<input, cmds, batch, refused, doubt>>
  BY Zenon DEF Report, First
<1>2. errlist \in Seq(Ack) /\ refused \in Seq(Ack)
  BY DEF BatchInv, Shape
<1>3. PICK l \in Seq(LC) : Listing(l, input.cmds) /\ batch = Built(l, input.check) /\ Filled(cmds, l) /\ Refusals(refused, l)
  BY <1>1 DEF BlameInv
<1>4. Listing(l, input'.cmds) /\ batch' = Built(l, input'.check) /\ Filled(cmds', l) /\ Refusals(refused', l)
  BY <1>1, <1>3
<1>5. ASSUME ~doubt PROVE records' = Recorded(cmds, refused)
  <2>1. refused = errlist
    <3>1. errlist \o <<>> = errlist
      BY <1>2
    <3> QED BY <1>1, <1>5, <3>1 DEF BlameInv, IsConcat
  <2>2. DOMAIN cmds = DOMAIN l /\ DOMAIN cmds = 1..Len(cmds) /\ Len(cmds) \in Nat
    BY <1>3, FilledIs
  <2>3. CASE Whole(refused)
    <3> DEFINE x == refused[1]
    <3>1. refused = <<x>> /\ x.seq = BatchSeq
      BY <2>3 DEF Whole
    <3>2. PICK S : cmds \in Seq(S)
      BY <1>3, FilledIs
    <3> HIDE DEF x
    <3>3. FoldLeft(Blame, First, <<x>>).records = [k \in DOMAIN cmds |-> nft_cmd_error(cmds[k], x)]
      BY <2>2, <3>1, <3>2, BlameAll
    <3>4. records' = [k \in DOMAIN cmds |-> nft_cmd_error(cmds[k], x)]
      BY <1>1, <2>1, <3>1, <3>3, Zenon
    <3> QED BY <2>3, <3>4, Zenon DEF Recorded, x
  <2>4. CASE ~Whole(refused)
    <3>1. \A j \in DOMAIN errlist : errlist[j].seq \in DOMAIN cmds
      BY <1>3, <2>1, <2>2, <2>4 DEF Refusals, AnswersTo
    <3>2. FoldLeft(Blame, First, errlist).records = RecordsFor(cmds, errlist)
      BY <1>2, <2>2, <3>1, BlameEach
    <3> QED BY <1>1, <2>1, <2>4, <3>2, Zenon DEF Recorded
  <2> QED BY <2>3, <2>4
<1>6. ~doubt' => records' = Recorded(cmds', refused')
  BY <1>1, <1>5
<1> QED BY <1>1, <1>4, <1>6 DEF BlameInv

\* In the other steps there is no batch.
LEMMA BlameRest ==
  ASSUME BlameInv,
         \/ Begin \/ UpdateCache \/ UpdateCacheFails \/ EvaluateFails \/ ExecuteFails \/ NothingToDo
         \/ SendFails \/ ReceiveFails \/ Return \/ NewContext \/ Done \/ UNCHANGED vars
  PROVE  BlameInv'
<1>1. CASE Begin \/ UpdateCache
  <2>1. pc' \in {"cache", "evaluate"}
    BY <1>1 DEF Begin, UpdateCache
  <2> QED BY <2>1 DEF BlameInv
<1>2. CASE UpdateCacheFails \/ EvaluateFails \/ ExecuteFails \/ NothingToDo \/ SendFails \/ ReceiveFails \/ Return
  <2>1. pc' = "idle"
    BY <1>2 DEF UpdateCacheFails, EvaluateFails, ExecuteFails, NothingToDo, SendFails, ReceiveFails, Return, Finish
  <2> QED BY <2>1 DEF BlameInv
<1>3. CASE NewContext
  <2>1. pc' = "idle"
    BY <1>3 DEF NewContext
  <2> QED BY <2>1 DEF BlameInv
<1>4. CASE Done \/ UNCHANGED vars
  BY <1>4 DEF Done, vars, BlameInv
<1> QED BY <1>1, <1>2, <1>3, <1>4

\* Batch: the commands listed, the messages of the batch, what the kernel refused and
\* the errors shown belong together in every state.
THEOREM Attribution == Spec => []BlameInv
<1>1. Init => BlameInv
  BY DEF Init, BlameInv
<1>2. BatchInv /\ BlameInv /\ [Next]_vars => BlameInv'
  BY BlameEvaluate, BlameExecute, BlameSends, BlameReceive, BlameReport, BlameRest DEF Next
<1> QED BY <1>1, <1>2, Invariant, PTL DEF Spec

(* What the invariants say of the elements sent and the errors shown. *)

\* The messages of a command in the batch.
LEMMA SentMessages ==
  ASSUME input \in Inputs, NEW l \in Seq(LC), Listing(l, input.cmds), batch = Built(l, input.check),
         Filled(cmds, l), NEW k \in DOMAIN cmds
  PROVE  /\ k \in DOMAIN l /\ cmds[k].id = l[k].id /\ cmds[k].attr = do_command(l[k], k).attr
         /\ MessagesOf(k) = do_command(l[k], k).msgs
         /\ do_command(l[k], k).msgs \in Seq(Message)
         /\ Sends(do_command(l[k], k), l[k], k)
<1>1. k \in DOMAIN l /\ cmds[k].id = l[k].id /\ cmds[k].attr = do_command(l[k], k).attr
  BY FilledIs
<1>2. AllTidy(l) /\ input.check \in BOOLEAN
  BY ListingTidy, InputType
<1>3. Select(k, <<>>, Built(l, input.check)) = do_command(l[k], k).msgs
  BY <1>1, <1>2, BuiltMessages
<1>4. MessagesOf(k) = do_command(l[k], k).msgs
  BY <1>3, MessagesOfIs
<1>5. k \in Nat /\ l[k] \in LC /\ Tidy(l[k])
  BY <1>1, <1>2 DEF AllTidy
<1> DEFINE c == l[k]
<1> HIDE DEF c
<1>6. Sends(do_command(c, k), c, k)
  BY <1>5, CommandSends DEF c
<1>7. do_command(c, k).msgs \in Seq(Message)
  BY <1>5, CommandMessages DEF c
<1> QED BY <1>1, <1>4, <1>6, <1>7 DEF c

\* Each command of the input is in the list in one place.
LEMMA ListedOnce ==
  ASSUME NEW l, NEW given, Listing(l, given), NEW cs, Filled(cs, l), NEW i \in DOMAIN given
  PROVE  \E k \in DOMAIN cs : {j \in DOMAIN cs : cs[j].id = i} = {k}
<1>1. l \in Seq(LC) /\ Restored(l, given, DOMAIN given)
  BY DEF Listing
<1>2. DOMAIN cs = DOMAIN l /\ \A k \in DOMAIN l : cs[k].id = l[k].id
  BY <1>1, FilledIs
<1>3. PICK k \in DOMAIN l : l[k].id = i
  BY <1>1 DEF Restored
<1>4. \A j \in DOMAIN l : l[j].id = i => j = k
  BY <1>1, <1>3 DEF Restored
<1> QED BY <1>2, <1>3, <1>4

\* mnl_nft_setelem_batch() on a command of the list: its elements, in order.
LEMMA SentOf ==
  ASSUME input \in Inputs, NEW l \in Seq(LC), Listing(l, input.cmds), batch = Built(l, input.check),
         Filled(cmds, l), NEW k \in DOMAIN cmds
  PROVE  /\ Es(FlattenSeq(ElemsOf(MessagesOf(k)))) = input.cmds[cmds[k].id].elems
         /\ \A m \in DOMAIN MessagesOf(k) : MessagesOf(k)[m].len - NestOff <= NestMax
<1>1. /\ k \in DOMAIN l /\ cmds[k].id = l[k].id
      /\ MessagesOf(k) = do_command(l[k], k).msgs
      /\ Sends(do_command(l[k], k), l[k], k)
  BY SentMessages
<1> DEFINE c == l[k]
           g == input.cmds[c.id]
<1>2. Plain(c) = g
  BY <1>1 DEF Listing, Restored
<1>3. Es(FlattenSeq(ElemsOf(MessagesOf(k)))) = Es(c.expr)
  BY <1>1 DEF Sends
<1>4. \A m \in DOMAIN MessagesOf(k) : MessagesOf(k)[m].len - NestOff <= NestMax
  BY <1>1 DEF Sends
<1> HIDE DEF c, g
<1>5. g.elems = Es(c.expr)
  BY <1>2 DEF Plain, With
<1>6. g = input.cmds[cmds[k].id]
  BY <1>1 DEF g, c
<1> QED BY <1>3, <1>4, <1>5, <1>6

\* Batch: nft_cmd_uncollapse() gives back each command once, and every element of a
\* command is in one message of the command, in the order it is written.
THEOREM SentOnce == Spec => []ElementsSentOnce
<1>1. BatchInv /\ BlameInv => ElementsSentOnce
  <2> SUFFICES ASSUME BatchInv, BlameInv, pc = "send" PROVE ElementsSentOnce
    BY DEF ElementsSentOnce
  <2>1. input \in Inputs
    BY DEF BatchInv, InputOK
  <2>2. PICK l \in Seq(LC) : Listing(l, input.cmds) /\ batch = Built(l, input.check) /\ Filled(cmds, l)
    BY DEF BlameInv
  <2>3. \A i \in DOMAIN input.cmds : \E k \in DOMAIN cmds : {j \in DOMAIN cmds : cmds[j].id = i} = {k}
    BY <2>2, ListedOnce
  <2>4. ASSUME NEW k \in DOMAIN cmds
        PROVE  LET msgs == MessagesOf(k)
                   all == FlattenSeq([m \in DOMAIN msgs |-> msgs[m].elems])
               IN /\ [i \in DOMAIN all |-> all[i].e] = input.cmds[cmds[k].id].elems
                  /\ \A m \in DOMAIN msgs : msgs[m].len - NestOff <= NestMax
    BY <2>1, <2>2, SentOf, Zenon DEF Es, ElemsOf
  <2> QED BY <2>3, <2>4, Zenon DEF ElementsSentOnce
<1> QED BY <1>1, Invariant, Attribution, PTL

\* The records and the answers, when all are read.
LEMMA Shown ==
  ASSUME BatchInv, BlameInv, pc = "report", ~doubt
  PROVE  \E l \in Seq(LC) : /\ Listing(l, input.cmds) /\ batch = Built(l, input.check) /\ Filled(cmds, l)
                            /\ Refusals(refused, l) /\ records = Recorded(cmds, refused)
BY DEF BlameInv

\* nft_netlink(): what the kernel refused of a command, and what is shown of it.
LEMMA ShownMany ==
  ASSUME NEW l \in Seq(LC), Listing(l, input.cmds), Filled(cmds, l), Refusals(refused, l),
         refused \in Seq(Ack), records = Recorded(cmds, refused), NEW k \in DOMAIN cmds
  PROVE  Cardinality({j \in DOMAIN records : records[j].cmd = cmds[k].id})
           = Cardinality({j \in DOMAIN refused : refused[j].seq \in {k, BatchSeq}})
<1>1. /\ DOMAIN cmds = DOMAIN l /\ DOMAIN cmds = 1..Len(cmds) /\ Len(cmds) \in Nat
      /\ \A j \in DOMAIN l : cmds[j].id = l[j].id
  BY FilledIs
<1>2. \A i, j \in DOMAIN cmds : cmds[i].id = cmds[j].id => i = j
  BY <1>1 DEF Listing, Restored
<1>3. \A c, er : nft_cmd_error(c, er).cmd = c.id
  BY DEF nft_cmd_error
<1> DEFINE A == {j \in DOMAIN records : records[j].cmd = cmds[k].id}
           C == {j \in DOMAIN refused : refused[j].seq \in {k, BatchSeq}}
<1>4. CASE Whole(refused)
  <2>1. refused = <<refused[1]>> /\ refused[1].seq = BatchSeq
    BY <1>4 DEF Whole
  <2> DEFINE x == refused[1]
  <2> HIDE DEF x
  <2>2. records = [j \in DOMAIN cmds |-> nft_cmd_error(cmds[j], x)]
    BY <1>4, Zenon DEF Recorded, x
  <2>3. A = {k}
    BY <1>2, <1>3, <2>2
  <2>4. DOMAIN refused = {1}
    BY <2>1
  <2>5. C = {1}
    BY <2>1, <2>4
  <2> HIDE DEF A, C
  <2>6. Cardinality(A) = 1 /\ Cardinality(C) = 1
    BY <2>3, <2>5, FS_Singleton
  <2> QED BY <2>6 DEF A, C
<1>5. CASE ~Whole(refused)
  <2>1. records = [j \in DOMAIN refused |-> nft_cmd_error(cmds[refused[j].seq], refused[j])]
    BY <1>5, Zenon DEF Recorded, RecordsFor
  <2>2. \A j \in DOMAIN refused : refused[j].seq \in DOMAIN cmds
    BY <1>1, <1>5 DEF Refusals, AnswersTo
  <2>3. BatchSeq \notin DOMAIN cmds
    BY <1>1 DEF BatchSeq
  <2>4. \A j \in DOMAIN refused : refused[j].seq \in {k, BatchSeq} <=> refused[j].seq = k
    BY <2>2, <2>3
  <2>5. \A j \in DOMAIN refused : records[j].cmd = cmds[refused[j].seq].id
    BY <1>3, <2>1
  <2>6. DOMAIN records = DOMAIN refused
    BY <2>1
  <2>7. A = C
    BY <1>2, <2>2, <2>4, <2>5, <2>6
  <2> QED BY <2>7
<1> QED BY <1>4, <1>5

\* Batch: each message refused is an error on the command it comes from, and a refusal
\* of the batch is an error on every command.
THEOREM RefusalsShown == Spec => []RefusalsReported
<1>1. BatchInv /\ BlameInv => RefusalsReported
  <2> SUFFICES ASSUME BatchInv, BlameInv, pc = "report", ~doubt PROVE RefusalsReported
    BY DEF RefusalsReported
  <2>1. refused \in Seq(Ack)
    BY DEF BatchInv, Shape
  <2>2. PICK l \in Seq(LC) : /\ Listing(l, input.cmds) /\ Filled(cmds, l)
                             /\ Refusals(refused, l) /\ records = Recorded(cmds, refused)
    BY Shown
  <2> QED BY <2>1, <2>2, ShownMany DEF RefusalsReported
<1> QED BY <1>1, Invariant, Attribution, PTL

\* A list of one.
LEMMA OnlyOne ==
  ASSUME NEW S, NEW s \in Seq(S), Len(s) = 1
  PROVE  DOMAIN s = {1} /\ s[1] \in S /\ s[1] \in ToSet(s)
<1>1. DOMAIN s = {1} /\ s[1] \in S
  OBVIOUS
<1> QED BY <1>1 DEF ToSet

\* nft_cmd_error(): the place of the element that was refused.
LEMMA PlaceShown ==
  ASSUME input \in Inputs, NEW l \in Seq(LC), Listing(l, input.cmds), batch = Built(l, input.check),
         Filled(cmds, l), NEW er, AnswersTo(er, l), OffsetsKnown(er.seq)
  PROVE  nft_cmd_error(cmds[er.seq], er) = [cmd |-> cmds[er.seq].id, loc |-> er.elem]
<1> DEFINE k == er.seq
           d == do_command(l[k], k)
           ms == d.msgs
           m == ms[1]
           c == cmds[k]
<1>1. k \in DOMAIN l /\ k \in DOMAIN cmds
  BY FilledIs DEF AnswersTo
<1>2. c.attr = d.attr /\ MessagesOf(k) = ms /\ ms \in Seq(Message) /\ Sends(d, l[k], k)
  BY <1>1, SentMessages
<1>3. Len(ms) = 1 /\ m \in ToSet(ms) /\ m \in Message
  <2>1. Len(ms) = 1
    BY <1>2 DEF OffsetsKnown
  <2> QED BY <1>2, <2>1, OnlyOne
<1>4. m.len <= OffsetMod
  BY <1>2, <1>3 DEF OffsetsKnown
<1>5. PlacesOf(c.attr, m.elems, m.len)
  BY <1>2, <1>3 DEF Sends
<1>6. PICK j \in DOMAIN m.elems : er.off = m.elems[j].off /\ er.elem = m.elems[j].e
  <2>1. AnswersOne(er, ms)
    BY DEF AnswersTo
  <2>2. DOMAIN ms = {1}
    BY <1>2, <1>3, OnlyOne
  <2> HIDE DEF ms
  <2> QED BY <2>1, <2>2 DEF AnswersOne
<1> HIDE DEF m, c, k
<1>7. m.elems \in Seq(Entry) /\ m.len \in Nat
  BY <1>3 DEF Message
<1>8. LocOf(c, m.elems[j].off) = m.elems[j].e
  BY <1>4, <1>5, <1>7, LocFound
<1>9. LocOf(c, er.off) = er.elem
  BY <1>6, <1>8
<1>10. nft_cmd_error(c, er) = [cmd |-> c.id, loc |-> er.elem]
  BY <1>9, Zenon DEF nft_cmd_error
<1> QED BY <1>10 DEF c, k

\* Batch: the place shown for a refused message is that of the element the kernel
\* did not like, if the command fits one message and the offsets fit 16 bits.
THEOREM Blamed == Spec => []ElementBlamed
<1>1. BatchInv /\ BlameInv => ElementBlamed
  <2> SUFFICES ASSUME BatchInv, BlameInv, pc = "report", ~doubt,
                      NEW j \in DOMAIN refused, refused[j].seq # BatchSeq, OffsetsKnown(refused[j].seq)
               PROVE  [cmd |-> cmds[refused[j].seq].id, loc |-> refused[j].elem] \in ToSet(records)
    BY DEF ElementBlamed
  <2>1. input \in Inputs
    BY DEF BatchInv, InputOK
  <2>2. PICK l \in Seq(LC) : /\ Listing(l, input.cmds) /\ batch = Built(l, input.check) /\ Filled(cmds, l)
                             /\ Refusals(refused, l) /\ records = Recorded(cmds, refused)
    BY Shown
  <2>3. ~Whole(refused)
    <3> SUFFICES ASSUME Whole(refused) PROVE FALSE
      OBVIOUS
    <3>1. refused = <<refused[1]>> /\ refused[1].seq = BatchSeq
      BY DEF Whole
    <3>2. j = 1
      BY <3>1
    <3> QED BY <3>1, <3>2
  <2> DEFINE er == refused[j]
             rec == nft_cmd_error(cmds[er.seq], er)
  <2>4. AnswersTo(er, l)
    BY <2>2, <2>3 DEF Refusals
  <2>5. rec = [cmd |-> cmds[er.seq].id, loc |-> er.elem]
    BY <2>1, <2>2, <2>4, PlaceShown
  <2>6. records[j] = rec /\ j \in DOMAIN records
    BY <2>2, <2>3, Zenon DEF Recorded, RecordsFor
  <2>7. records[j] \in ToSet(records)
    BY <2>6 DEF ToSet
  <2> QED BY <2>5, <2>6, <2>7
<1> QED BY <1>1, Invariant, Attribution, PTL
=============================================================================
