------------------------- MODULE RuleIndex_proofs -------------------------
(***************************************************************************)
(* An index means the rule the user counted, whatever other programs do    *)
(* and however long the chain is.  A message is evaluated while the chain  *)
(* may still change, so the invariant is about every chain that the kernel *)
(* may have by the time the batch arrives (Later): if the kernel accepts   *)
(* the messages so far on it, each has been placed by the rule it was      *)
(* meant for, and the handles in the cached chain are those of the same    *)
(* rules in the kernel's.                                                  *)
(***************************************************************************)
EXTENDS RuleIndex, SequenceFacts

-----------------------------------------------------------------------------
(* Chains. *)

Distinct(c) ==
  \A i, j \in 1..Len(c) : i # j => c[i].id # c[j].id /\ c[i].handle # c[j].handle

\* A chain of the kernel, which has assigned handles up to h.
Chained(c, h) ==
  /\ c \in Seq(Rule) /\ h \in Nat
  /\ \A i \in 1..Len(c) : 1 <= c[i].handle /\ c[i].handle <= h
  /\ Distinct(c)

\* The rules of c are those of d, and their handles are if c has them.
Mirrors(c, d) ==
  /\ Len(c) = Len(d)
  /\ \A i \in 1..Len(c) : c[i].id = d[i].id /\ (c[i].handle = 0 \/ c[i].handle = d[i].handle)

\* Where c has the handle of a rule of d, it has the rule.
Agree(c, d) ==
  \A i \in 1..Len(c), j \in 1..Len(d) :
    d[j].handle # 0 /\ d[j].handle = c[i].handle => d[j].id = c[i].id

\* p is c with a rule more, at position k.
IsPut(p, c, k, new) ==
  /\ p \in Seq(Rule) /\ Len(p) = Len(c) + 1 /\ k \in 1..Len(p)
  /\ \A i \in 1..Len(p) : p[i] = IF i < k THEN c[i] ELSE IF i = k THEN new ELSE c[i - 1]

\* p is c with another rule at position k.
IsSwap(p, c, k, new) ==
  /\ p \in Seq(Rule) /\ Len(p) = Len(c) /\ k \in 1..Len(p)
  /\ \A i \in 1..Len(p) : p[i] = IF i = k THEN new ELSE c[i]

\* p is c without the rule at position k.
IsCut(p, c, k) ==
  /\ p \in Seq(Rule) /\ Len(c) = Len(p) + 1 /\ k \in 1..Len(c)
  /\ \A i \in 1..Len(p) : p[i] = IF i < k THEN c[i] ELSE c[i + 1]

\* Where Place() puts a rule in a chain of n rules.
Where(op, n, ref) ==
  IF op = "insert" THEN (IF ref = 0 THEN 1 ELSE ref)
  ELSE IF ref = 0 THEN n + 1 ELSE ref + 1

\* A rule is placed, or takes another one's place.
LEMMA PlaceFacts ==
  ASSUME NEW c \in Seq(Rule), NEW new \in Rule, NEW ref \in 0..Len(c)
  PROVE  /\ \A op \in {"add", "insert"} : IsPut(Place(op, c, ref, new), c, Where(op, Len(c), ref), new)
         /\ ref # 0 => IsSwap(Place("replace", c, ref, new), c, ref, new)
<1> DEFINE n == Len(c)
           one == <<new>>
<1>1. n \in Nat /\ one \in Seq(Rule) /\ Len(one) = 1 /\ one[1] = new
  OBVIOUS
<1>2. ref = 0 => IsPut(one \o c, c, 1, new)
  BY <1>1 DEF IsPut
<1>3. ref = 0 => IsPut(Append(c, new), c, n + 1, new)
  BY <1>1 DEF IsPut
<1>4. ASSUME NEW k \in 1..(n + 1) PROVE IsPut(InsertAt(c, k, new), c, k, new)
  <2> DEFINE a == SubSeq(c, 1, k - 1)
             b == SubSeq(c, k, n)
             p == a \o one \o b
  <2>1. a \in Seq(Rule) /\ Len(a) = k - 1 /\ \A i \in 1..(k - 1) : a[i] = c[i]
    BY <1>1, <1>4
  <2>2. b \in Seq(Rule) /\ Len(b) = n - k + 1 /\ \A i \in 1..(n - k + 1) : b[i] = c[k - 1 + i]
    BY <1>1, <1>4
  <2> HIDE DEF a, b, one
  <2> DEFINE q == a \o one
  <2>3. q \in Seq(Rule) /\ Len(q) = k /\ (\A i \in 1..(k - 1) : q[i] = a[i]) /\ q[k] = new
    <3>1. q \in Seq(Rule) /\ Len(q) = Len(a) + Len(one)
          /\ (\A i \in 1..Len(a) : q[i] = a[i])
          /\ \A i \in (Len(a) + 1)..(Len(a) + Len(one)) : q[i] = one[i - Len(a)]
      BY <1>1, <2>1, ConcatElements
    <3> HIDE DEF q
    <3> QED BY <1>1, <1>4, <2>1, <3>1
  <2> HIDE DEF q
  <2>4. /\ p \in Seq(Rule) /\ Len(p) = n + 1
        /\ \A i \in 1..(n + 1) : p[i] = IF i < k THEN a[i] ELSE IF i = k THEN new ELSE b[i - k]
    <3> DEFINE r == q \o b
    <3>1. r \in Seq(Rule) /\ Len(r) = Len(q) + Len(b)
          /\ (\A i \in 1..Len(q) : r[i] = q[i])
          /\ \A i \in (Len(q) + 1)..(Len(q) + Len(b)) : r[i] = b[i - Len(q)]
      BY <2>2, <2>3, ConcatElements
    <3> HIDE DEF r
    <3>2. Len(r) = n + 1
      BY <1>1, <1>4, <2>2, <2>3, <3>1
    <3>3. \A i \in 1..(n + 1) : r[i] = IF i < k THEN a[i] ELSE IF i = k THEN new ELSE b[i - k]
      BY <1>1, <1>4, <2>2, <2>3, <3>1
    <3> QED BY <3>1, <3>2, <3>3 DEF r, q
  <2>5. \A i \in 1..(n + 1) : p[i] = IF i < k THEN c[i] ELSE IF i = k THEN new ELSE c[i - 1]
    <3> TAKE i \in 1..(n + 1)
    <3>1. i > k => i - k \in 1..(n - k + 1) /\ k - 1 + (i - k) = i - 1
      BY <1>1, <1>4
    <3> QED BY <1>1, <1>4, <2>1, <2>2, <2>4, <3>1
  <2> HIDE DEF p
  <2>6. IsPut(p, c, k, new)
    BY <1>1, <1>4, <2>4, <2>5 DEF IsPut
  <2> QED BY <2>6 DEF p, a, b, one, InsertAt
<1>5. ref # 0 => IsSwap([c EXCEPT ![ref] = new], c, ref, new)
  BY <1>1 DEF IsSwap
<1>6. ref # 0 => ref \in 1..(n + 1) /\ ref + 1 \in 1..(n + 1)
  BY <1>1
<1> HIDE DEF n
<1>7. /\ Place("insert", c, ref, new) = IF ref = 0 THEN one \o c ELSE InsertAt(c, ref, new)
      /\ Place("add", c, ref, new) = IF ref = 0 THEN Append(c, new) ELSE InsertAt(c, ref + 1, new)
      /\ Place("replace", c, ref, new) = ReplaceAt(c, ref, new)
  BY DEF Place
<1>8. Where("insert", n, ref) = (IF ref = 0 THEN 1 ELSE ref) /\ Where("add", n, ref) = IF ref = 0 THEN n + 1 ELSE ref + 1
  BY DEF Where
<1>9. IsPut(Place("insert", c, ref, new), c, Where("insert", n, ref), new)
  BY <1>2, <1>4, <1>6, <1>7, <1>8
<1>10. IsPut(Place("add", c, ref, new), c, Where("add", n, ref), new)
  BY <1>3, <1>4, <1>6, <1>7, <1>8
<1> QED BY <1>5, <1>7, <1>9, <1>10 DEF ReplaceAt, n

\* A rule is taken out.
LEMMA CutFacts ==
  ASSUME NEW c \in Seq(Rule), NEW k \in 1..Len(c)
  PROVE  IsCut(RemoveAt(c, k), c, k)
<1> DEFINE n == Len(c)
           a == SubSeq(c, 1, k - 1)
           b == SubSeq(c, k + 1, n)
           p == a \o b
<1>1. n \in Nat /\ k \in 1..n
  OBVIOUS
<1>2. a \in Seq(Rule) /\ Len(a) = k - 1 /\ \A i \in 1..(k - 1) : a[i] = c[i]
  BY <1>1
<1>3. b \in Seq(Rule) /\ Len(b) = n - k /\ \A i \in 1..(n - k) : b[i] = c[k + i]
  BY <1>1
<1> HIDE DEF a, b
<1>4. p \in Seq(Rule) /\ Len(p) = Len(a) + Len(b)
      /\ (\A i \in 1..Len(a) : p[i] = a[i])
      /\ \A i \in (Len(a) + 1)..(Len(a) + Len(b)) : p[i] = b[i - Len(a)]
  BY <1>2, <1>3, ConcatElements
<1> HIDE DEF p, n
<1>5. /\ p \in Seq(Rule) /\ Len(p) = n - 1
      /\ \A i \in 1..(n - 1) : p[i] = IF i < k THEN a[i] ELSE b[i - (k - 1)]
  BY <1>1, <1>2, <1>3, <1>4
<1>6. \A i \in 1..(n - 1) : p[i] = IF i < k THEN c[i] ELSE c[i + 1]
  <2> TAKE i \in 1..(n - 1)
  <2>1. ASSUME i >= k PROVE b[i - (k - 1)] = c[i + 1]
    <3>1. i - (k - 1) \in 1..(n - k) /\ k + (i - (k - 1)) = i + 1
      BY <1>1, <2>1
    <3>2. b[i - (k - 1)] = c[k + (i - (k - 1))]
      BY <1>3, <3>1, Zenon
    <3> QED BY <3>1, <3>2
  <2>2. i < k => i \in 1..(k - 1)
    BY <1>1
  <2> QED BY <1>1, <1>2, <1>5, <2>1, <2>2
<1>7. IsCut(p, c, k)
  BY <1>1, <1>5, <1>6 DEF IsCut, n
<1> QED BY <1>7 DEF p, a, b, n, RemoveAt

\* The first of some positions.
LEMMA FirstOf ==
  ASSUME NEW I, NEW n \in Nat, I \subseteq 1..n, I # {}
  PROVE  Min(I) \in I
<1> DEFINE T == {k \in Nat : \A i \in I : i > k}
<1>1. CASE \E x \in I : \A y \in I : x <= y
  BY <1>1, Zenon DEF Min
<1>2. CASE ~\E x \in I : \A y \in I : x <= y
  <2>1. 0 \in T
    OBVIOUS
  <2>2. ASSUME NEW k \in Nat, k \in T PROVE k + 1 \in T
    <3>1. k + 1 \notin I
      BY <1>2, <2>2
    <3> QED BY <2>2, <3>1
  <2>3. Nat \subseteq T
    <3> HIDE DEF T
    <3> QED BY <2>1, <2>2, SetInduction
  <2>4. PICK x \in I : TRUE
    OBVIOUS
  <2>5. x \in T
    BY <2>3, <2>4
  <2> QED BY <2>4, <2>5
<1> QED BY <1>1, <1>2

\* The position of the first rule with a handle, 0 if there is none.
HandleAt(c, h) == SelectInSeq(c, LAMBDA r : r.handle = h)

\* It is what it says.
LEMMA HandleFacts ==
  ASSUME NEW c \in Seq(Rule), NEW h
  PROVE  /\ HandleAt(c, h) \in 0..Len(c)
         /\ HandleAt(c, h) # 0 => c[HandleAt(c, h)].handle = h
         /\ (\E i \in 1..Len(c) : c[i].handle = h) => HandleAt(c, h) # 0
<1> DEFINE I == {i \in 1..Len(c) : c[i].handle = h}
<1>1. HandleAt(c, h) = IF I # {} THEN Min(I) ELSE 0
  BY Zenon DEF HandleAt, SelectInSeq
<1>2. Len(c) \in Nat /\ 0 \notin I /\ I \subseteq 1..Len(c)
  OBVIOUS
<1>3. I # {} => Min(I) \in I
  BY <1>2, FirstOf
<1> QED BY <1>1, <1>2, <1>3

-----------------------------------------------------------------------------
(* The kernel on a batch. *)

\* What is sent.
Message ==
  {m \in [op : {"add", "insert", "replace", "delete", "flush"}, id : 0..MaxRule, pos : Nat, posId : Nat,
          by : {"none", "index", "handle"}, asked : 0..MaxRule] :
     /\ m.op \in {"add", "insert", "replace"} => m.id # 0
     /\ m.op \in {"replace", "delete"} => m.pos # 0
     /\ m.op = "flush" => m.pos = 0 /\ m.posId = 0}

\* What the kernel has made of the messages so far.
KState == [ok : BOOLEAN, chain : Seq(Rule), handle : Nat, sent : Seq(Message), at : Seq(0..MaxRule)]

\* The rule a message refers to is one of the chain.
LEMMA ResolveFacts ==
  ASSUME NEW ids, NEW s \in KState, NEW m \in Message
  PROVE  LET ref == Resolve(ids, s.chain, s.sent, m)
         IN /\ ref \in 0..Len(s.chain)
            /\ m.pos # 0 => ref = HandleAt(s.chain, m.pos)
            /\ m.pos = 0 /\ m.posId # 0 /\ ref # 0 => ids[s.chain[ref].id] = m.posId
            /\ m.pos = 0 /\ m.posId = 0 => ref = 0
<1> DEFINE ref == Resolve(ids, s.chain, s.sent, m)
           c == s.chain
           I == {i \in 1..Len(c) : \E k \in DOMAIN s.sent : s.sent[k].id = c[i].id /\ ids[s.sent[k].id] = m.posId}
<1>1. c \in Seq(Rule) /\ Len(c) \in Nat
  BY DEF KState
<1>2. CASE m.pos # 0
  <2>1. ref = HandleAt(c, m.pos)
    BY <1>2 DEF Resolve, HandleAt
  <2> QED BY <1>1, <1>2, <2>1, HandleFacts
<1>3. CASE m.pos = 0 /\ m.posId # 0
  <2>1. ref = IF I # {} THEN Min(I) ELSE 0
    BY <1>3, Zenon DEF Resolve, SelectInSeq
  <2>2. I # {} => Min(I) \in I
    BY <1>1, FirstOf
  <2>3. \A i \in I : i \in 1..Len(c) /\ ids[c[i].id] = m.posId
    OBVIOUS
  <2> HIDE DEF I, ref, c
  <2>4. ref \in 0..Len(c) /\ (ref # 0 => ids[c[ref].id] = m.posId)
    BY <1>1, <2>1, <2>2, <2>3
  <2> QED BY <1>3, <2>4 DEF ref, c
<1>4. CASE m.pos = 0 /\ m.posId = 0
  <2>1. ref = 0
    BY <1>4 DEF Resolve
  <2> QED BY <1>1, <1>4, <2>1
<1> QED BY <1>2, <1>3, <1>4

\* The rule that a message makes.
NewOf(m, h) == [id |-> m.id, handle |-> IF m.op = "replace" THEN m.pos ELSE h + 1]

\* A message that the kernel accepts is applied as a whole.
LEMMA ApplyFacts ==
  ASSUME NEW ids, NEW s \in KState, NEW m \in Message
  PROVE  /\ Apply(ids, s, m) \in KState
         /\ Apply(ids, s, m).ok =>
              /\ s.ok
              /\ Resolve(ids, s.chain, s.sent, m) # 0 \/ (m.pos = 0 /\ m.posId = 0)
              /\ Apply(ids, s, m).handle = s.handle + 1
              /\ Apply(ids, s, m).at =
                   Append(s.at, IF Resolve(ids, s.chain, s.sent, m) = 0 THEN 0
                                ELSE s.chain[Resolve(ids, s.chain, s.sent, m)].id)
              /\ m.op = "delete" => Apply(ids, s, m).chain = RemoveAt(s.chain, Resolve(ids, s.chain, s.sent, m))
              /\ m.op = "flush" => Apply(ids, s, m).chain = <<>>
              /\ m.op \in {"add", "insert", "replace"} =>
                   Apply(ids, s, m).chain
                     = Place(m.op, s.chain, Resolve(ids, s.chain, s.sent, m), NewOf(m, s.handle))
<1> DEFINE u   == Apply(ids, s, m)
           ref == Resolve(ids, s.chain, s.sent, m)
           found == ref # 0 \/ (m.pos = 0 /\ m.posId = 0)
           new == NewOf(m, s.handle)
           next == CASE m.op = "delete" -> RemoveAt(s.chain, ref)
                     [] m.op = "flush"  -> <<>>
                     [] OTHER           -> Place(m.op, s.chain, ref, new)
           by == IF ref = 0 THEN 0 ELSE s.chain[ref].id
<1>1. u = IF ~s.ok \/ ~found THEN [s EXCEPT !.ok = FALSE]
          ELSE [ok |-> TRUE, chain |-> next, handle |-> s.handle + 1,
                sent |-> Append(s.sent, m), at |-> Append(s.at, by)]
  BY Zenon DEF Apply, NewOf
<1>2. /\ ref \in 0..Len(s.chain) /\ (m.pos # 0 => ref = HandleAt(s.chain, m.pos))
      /\ (m.pos = 0 /\ m.posId = 0 => ref = 0)
  BY ResolveFacts
<1>3. /\ s.ok \in BOOLEAN /\ s.chain \in Seq(Rule) /\ s.handle \in Nat /\ s.sent \in Seq(Message)
      /\ s.at \in Seq(0..MaxRule)
  BY DEF KState
<1>4. /\ m.op \in {"add", "insert", "replace", "delete", "flush"} /\ m.id \in 0..MaxRule /\ m.pos \in Nat
      /\ (m.op \in {"add", "insert", "replace"} => m.id # 0)
      /\ (m.op \in {"replace", "delete"} => m.pos # 0)
  BY DEF Message
<1>5. MaxRule \in Nat
  BY RuleIndexAssumption
<1>6. m.op \in {"add", "insert", "replace"} => new \in Rule
  BY <1>3, <1>4, <1>5 DEF NewOf, Rule
<1>7. by \in 0..MaxRule
  <2>1. CASE ref = 0
    BY <1>5, <2>1
  <2>2. CASE ref # 0
    <3>1. ref \in 1..Len(s.chain)
      BY <1>2, <1>3, <2>2
    <3>2. s.chain[ref] \in Rule
      BY <1>3, <3>1
    <3>3. s.chain[ref].id \in 1..MaxRule
      BY <3>2 DEF Rule
    <3> QED BY <1>5, <2>2, <3>3
  <2> QED BY <2>1, <2>2
<1> HIDE DEF ref, new, by
<1>8. ASSUME found PROVE next \in Seq(Rule)
  <2>1. CASE m.op = "delete"
    <3>1. ref \in 1..Len(s.chain)
      BY <1>2, <1>3, <1>4, <1>8, <2>1
    <3>2. RemoveAt(s.chain, ref) \in Seq(Rule)
      BY <1>3, <3>1, CutFacts DEF IsCut
    <3> QED BY <2>1, <3>2
  <2>2. CASE m.op = "flush"
    BY <2>2
  <2>3. CASE m.op \in {"add", "insert"}
    <3>1. Place(m.op, s.chain, ref, new) \in Seq(Rule)
      BY <1>2, <1>3, <1>6, <2>3, PlaceFacts DEF IsPut
    <3> QED BY <2>3, <3>1
  <2>4. CASE m.op = "replace"
    <3>1. ref # 0
      BY <1>4, <1>8, <2>4
    <3>2. Place(m.op, s.chain, ref, new) \in Seq(Rule)
      BY <1>2, <1>3, <1>6, <2>4, <3>1, PlaceFacts DEF IsSwap
    <3> QED BY <2>4, <3>2
  <2> QED BY <1>4, <2>1, <2>2, <2>3, <2>4
<1>9. /\ m.op = "delete" => next = RemoveAt(s.chain, ref)
      /\ m.op = "flush" => next = <<>>
      /\ m.op \in {"add", "insert", "replace"} => next = Place(m.op, s.chain, ref, new)
  OBVIOUS
<1> HIDE DEF next, u
<1>10. CASE ~s.ok \/ ~found
  <2>1. u = [s EXCEPT !.ok = FALSE]
    BY <1>1, <1>10
  <2> QED BY <2>1 DEF KState, u
<1>11. CASE s.ok /\ found
  <2>1. u = [ok |-> TRUE, chain |-> next, handle |-> s.handle + 1,
             sent |-> Append(s.sent, m), at |-> Append(s.at, by)]
    BY <1>1, <1>11
  <2>2. u \in KState
    BY <1>3, <1>7, <1>8, <1>11, <2>1 DEF KState
  <2> QED BY <1>9, <1>11, <2>1, <2>2 DEF u, ref, by, new
<1> QED BY <1>3, <1>10, <1>11

\* What it is when the kernel accepts it.
LEMMA AppliedFacts ==
  ASSUME NEW ids, NEW s \in KState, NEW m \in Message, Apply(ids, s, m).ok
  PROVE  /\ s.ok
         /\ Resolve(ids, s.chain, s.sent, m) # 0 \/ (m.pos = 0 /\ m.posId = 0)
         /\ Apply(ids, s, m).handle = s.handle + 1
         /\ Apply(ids, s, m).at =
              Append(s.at, IF Resolve(ids, s.chain, s.sent, m) = 0 THEN 0
                           ELSE s.chain[Resolve(ids, s.chain, s.sent, m)].id)
         /\ m.op = "delete" => Apply(ids, s, m).chain = RemoveAt(s.chain, Resolve(ids, s.chain, s.sent, m))
         /\ m.op = "flush" => Apply(ids, s, m).chain = <<>>
         /\ m.op \in {"add", "insert", "replace"} =>
              Apply(ids, s, m).chain
                = Place(m.op, s.chain, Resolve(ids, s.chain, s.sent, m), NewOf(m, s.handle))
  BY ApplyFacts, Zenon

RunFold == INSTANCE FoldFacts WITH Op <- LAMBDA ids, s, m : Apply(ids, s, m)

Start(c, h) == [ok |-> TRUE, chain |-> c, handle |-> h, sent |-> <<>>, at |-> <<>>]

\* What the kernel makes of a batch b on a chain c.
Run(ids, c, h, b) == RunFold!Fold(ids, Start(c, h), b)

\* Transaction is what it makes of the batch on its chain.
LEMMA TransactionIs == Transaction = Run(ruleId, kchain, khandle, batch)
BY Zenon DEF Transaction, Run, Start, RunFold!Fold, RunFold!FoldLeft, FoldLeft, RunFold!MapThenFoldSet,
  MapThenFoldSet, RunFold!Max, Max

\* Message by message.
LEMMA RunFacts ==
  ASSUME NEW ids, NEW c \in Seq(Rule), NEW h \in Nat
  PROVE  /\ Start(c, h) \in KState
         /\ Run(ids, c, h, <<>>) = Start(c, h)
         /\ \A b \in Seq(Message) :
              /\ Run(ids, c, h, b) \in KState
              /\ \A m \in Message : Run(ids, c, h, Append(b, m)) = Apply(ids, Run(ids, c, h, b), m)
<1>1. Start(c, h) \in KState
  BY DEF Start, KState
<1>2. Run(ids, c, h, <<>>) = Start(c, h)
  BY RunFold!FoldEmpty DEF Run
<1>3. \A s \in KState : \A m \in Message : Apply(ids, s, m) \in KState
  BY ApplyFacts, Zenon
<1>4. \A b \in Seq(Message) : Run(ids, c, h, b) \in KState
  BY <1>1, <1>3, RunFold!FoldInvariant DEF Run
<1>5. ASSUME NEW b \in Seq(Message), NEW m \in Message
      PROVE  Run(ids, c, h, Append(b, m)) = Apply(ids, Run(ids, c, h, b), m)
  <2> DEFINE v == Append(b, m)
  <2>1. RunFold!IsAppend(v, b, m)
    BY DEF RunFold!IsAppend
  <2> HIDE DEF v
  <2>2. RunFold!Fold(ids, Start(c, h), v) = Apply(ids, RunFold!Fold(ids, Start(c, h), b), m)
    BY <2>1, RunFold!FoldAppend
  <2> QED BY <2>2 DEF Run, v
<1> QED BY <1>1, <1>2, <1>4, <1>5

-----------------------------------------------------------------------------
(* What happens to a chain of the kernel. *)

\* The rules of a chain.
LEMMA RuleTypes ==
  ASSUME NEW c \in Seq(Rule)
  PROVE  /\ Len(c) \in Nat
         /\ \A i \in 1..Len(c) : c[i] \in Rule /\ c[i].id \in 1..MaxRule /\ c[i].handle \in Nat
<1>1. Len(c) \in Nat /\ \A i \in 1..Len(c) : c[i] \in Rule
  OBVIOUS
<1>2. \A r \in Rule : r.id \in 1..MaxRule /\ r.handle \in Nat
  BY DEF Rule
<1> QED BY <1>1, <1>2

\* A rule with an ID and a handle of its own.
LEMMA PutChained ==
  ASSUME NEW c, NEW h, Chained(c, h), NEW new \in Rule, new.handle = h + 1,
         \A i \in 1..Len(c) : c[i].id # new.id, NEW p, NEW k, IsPut(p, c, k, new)
  PROVE  Chained(p, h + 1)
<1>1. /\ c \in Seq(Rule) /\ h \in Nat /\ Len(c) \in Nat /\ p \in Seq(Rule) /\ Len(p) = Len(c) + 1 /\ k \in 1..Len(p)
      /\ \A i \in 1..Len(p) : p[i] = IF i < k THEN c[i] ELSE IF i = k THEN new ELSE c[i - 1]
      /\ \A i \in 1..Len(c) : 1 <= c[i].handle /\ c[i].handle <= h
  BY DEF Chained, IsPut
<1>2. \A i \in 1..Len(c) : c[i].handle \in Nat
  BY <1>1, RuleTypes
<1>3. \A i \in 1..Len(p) : (i < k => i \in 1..Len(c)) /\ (i > k => i - 1 \in 1..Len(c))
  BY <1>1
<1>4. \A i \in 1..Len(p) : 1 <= p[i].handle /\ p[i].handle <= h + 1
  <2> TAKE i \in 1..Len(p)
  <2>1. p[i] = new => p[i].handle = h + 1
    OBVIOUS
  <2>2. \A j \in 1..Len(c) : p[i] = c[j] => 1 <= p[i].handle /\ p[i].handle <= h + 1
    BY <1>1, <1>2
  <2> QED BY <1>1, <1>3, <2>1, <2>2
<1>5. Distinct(p)
  <2> SUFFICES ASSUME NEW i \in 1..Len(p), NEW j \in 1..Len(p), i # j
               PROVE  p[i].id # p[j].id /\ p[i].handle # p[j].handle
    BY DEF Distinct
  <2>1. \A x, y \in 1..Len(c) : x # y => c[x].id # c[y].id /\ c[x].handle # c[y].handle
    BY DEF Chained, Distinct
  <2>2. \A x \in 1..Len(c) : c[x].id # new.id /\ c[x].handle # new.handle
    BY <1>1, <1>2
  <2>0. /\ i # k => \E x \in 1..Len(c) : p[i] = c[x]
        /\ j # k => \E y \in 1..Len(c) : p[j] = c[y]
    BY <1>1, <1>3
  <2>3. CASE i = k
    BY <1>1, <2>0, <2>2, <2>3
  <2>4. CASE j = k
    BY <1>1, <2>0, <2>2, <2>4
  <2>5. CASE i # k /\ j # k
    <3> DEFINE x == IF i < k THEN i ELSE i - 1
               y == IF j < k THEN j ELSE j - 1
    <3>1. x \in 1..Len(c) /\ y \in 1..Len(c) /\ x # y /\ p[i] = c[x] /\ p[j] = c[y]
      BY <1>1, <1>3, <2>5
    <3> HIDE DEF x, y
    <3> QED BY <2>1, <3>1
  <2> QED BY <2>3, <2>4, <2>5
<1> QED BY <1>1, <1>4, <1>5 DEF Chained

\* A rule that is replaced hands its handle on.
LEMMA SwapChained ==
  ASSUME NEW c, NEW h, Chained(c, h), NEW new \in Rule, NEW k, new.handle = c[k].handle,
         \A i \in 1..Len(c) : c[i].id # new.id, NEW p, IsSwap(p, c, k, new)
  PROVE  Chained(p, h + 1)
<1>1. /\ c \in Seq(Rule) /\ h \in Nat /\ Len(c) \in Nat /\ p \in Seq(Rule) /\ Len(p) = Len(c) /\ k \in 1..Len(c)
      /\ \A i \in 1..Len(p) : p[i] = IF i = k THEN new ELSE c[i]
      /\ \A i \in 1..Len(c) : 1 <= c[i].handle /\ c[i].handle <= h
  BY DEF Chained, IsSwap
<1>2. \A i \in 1..Len(c) : c[i].handle \in Nat
  BY <1>1, RuleTypes
<1>3. \A i \in 1..Len(p) : 1 <= p[i].handle /\ p[i].handle <= h + 1
  BY <1>1, <1>2
<1>4. Distinct(p)
  BY <1>1 DEF Chained, Distinct
<1> QED BY <1>1, <1>3, <1>4 DEF Chained

\* More handles.
LEMMA ChainedUp ==
  ASSUME NEW c, NEW h, Chained(c, h), NEW n \in Nat, h <= n
  PROVE  Chained(c, n)
<1>1. c \in Seq(Rule) /\ h \in Nat /\ \A i \in 1..Len(c) : 1 <= c[i].handle /\ c[i].handle <= h
  BY DEF Chained
<1>2. \A i \in 1..Len(c) : c[i].handle <= n
  BY <1>1, RuleTypes
<1> QED BY <1>1, <1>2, Zenon DEF Chained

\* A rule less.
LEMMA CutChained ==
  ASSUME NEW c, NEW h, Chained(c, h), NEW p, NEW k, IsCut(p, c, k)
  PROVE  Chained(p, h) /\ Chained(p, h + 1)
<1>1. /\ c \in Seq(Rule) /\ h \in Nat /\ Len(c) \in Nat /\ p \in Seq(Rule) /\ Len(p) \in Nat /\ Len(c) = Len(p) + 1 /\ k \in 1..Len(c)
      /\ \A i \in 1..Len(p) : p[i] = IF i < k THEN c[i] ELSE c[i + 1]
      /\ \A i \in 1..Len(c) : 1 <= c[i].handle /\ c[i].handle <= h
  BY DEF Chained, IsCut
<1>2. \A i \in 1..Len(c) : c[i].handle \in Nat
  BY <1>1, RuleTypes
<1>3. \A i \in 1..Len(p) : i \in 1..Len(c) /\ i + 1 \in 1..Len(c)
  BY <1>1
<1>4. \A i \in 1..Len(p) : 1 <= p[i].handle /\ p[i].handle <= h
  BY <1>1, <1>2, <1>3
<1>5. Distinct(p)
  <2> SUFFICES ASSUME NEW i \in 1..Len(p), NEW j \in 1..Len(p), i # j
               PROVE  p[i].id # p[j].id /\ p[i].handle # p[j].handle
    BY DEF Distinct
  <2> DEFINE x == IF i < k THEN i ELSE i + 1
             y == IF j < k THEN j ELSE j + 1
  <2>1. x \in 1..Len(c) /\ y \in 1..Len(c) /\ x # y /\ p[i] = c[x] /\ p[j] = c[y]
    BY <1>1, <1>3
  <2> QED BY <2>1 DEF Chained, Distinct
<1>6. Chained(p, h)
  BY <1>1, <1>4, <1>5, Zenon DEF Chained
<1> QED BY <1>1, <1>6, ChainedUp

-----------------------------------------------------------------------------
(* The cached chain and the other one side by side. *)

\* Both get the rule, the cached chain without its handle.
LEMMA PutAgree ==
  ASSUME NEW c \in Seq(Rule), NEW d \in Seq(Rule), Agree(c, d),
         NEW m \in Rule, NEW new \in Rule, new.handle = 0, \A j \in 1..Len(d) : d[j].handle < m.handle,
         NEW p, NEW k, IsPut(p, c, k, m), NEW q, NEW l, IsPut(q, d, l, new)
  PROVE  Agree(p, q)
<1> SUFFICES ASSUME NEW i \in 1..Len(p), NEW j \in 1..Len(q), q[j].handle # 0, q[j].handle = p[i].handle
             PROVE  q[j].id = p[i].id
  BY DEF Agree
<1>1. /\ Len(p) = Len(c) + 1 /\ k \in 1..Len(p) /\ Len(c) \in Nat
      /\ p[i] = IF i < k THEN c[i] ELSE IF i = k THEN m ELSE c[i - 1]
      /\ Len(q) = Len(d) + 1 /\ l \in 1..Len(q) /\ Len(d) \in Nat
      /\ q[j] = IF j < l THEN d[j] ELSE IF j = l THEN new ELSE d[j - 1]
  BY DEF IsPut
<1>2. j # l
  BY <1>1
<1> DEFINE y == IF j < l THEN j ELSE j - 1
           x == IF i < k THEN i ELSE i - 1
<1>3. y \in 1..Len(d) /\ q[j] = d[y]
  BY <1>1, <1>2
<1>4. d[y].handle \in Nat /\ m.handle \in Nat
  <2>1. d[y] \in Rule /\ m \in Rule
    BY <1>3
  <2> QED BY <2>1 DEF Rule
<1>5. i # k
  BY <1>1, <1>3, <1>4
<1>6. x \in 1..Len(c) /\ p[i] = c[x]
  BY <1>1, <1>5
<1>7. c[x].handle = d[y].handle => c[x].id = d[y].id
  BY <1>3, <1>6 DEF Agree
<1> QED BY <1>3, <1>6, <1>7, SMTT(30)

\* Both replace the same rule.
LEMMA SwapAgree ==
  ASSUME NEW c \in Seq(Rule), NEW d \in Seq(Rule), Agree(c, d), Distinct(c),
         \A i, j \in 1..Len(d) : i # j /\ d[i].handle # 0 => d[i].handle # d[j].handle,
         NEW new, new.handle # 0, NEW k, c[k].handle = new.handle, NEW l, d[l].handle = new.handle,
         NEW p, IsSwap(p, c, k, new), NEW q, IsSwap(q, d, l, new)
  PROVE  Agree(p, q)
<1> SUFFICES ASSUME NEW i \in 1..Len(p), NEW j \in 1..Len(q), q[j].handle # 0, q[j].handle = p[i].handle
             PROVE  q[j].id = p[i].id
  BY DEF Agree
<1>1. /\ Len(p) = Len(c) /\ k \in 1..Len(c) /\ p[i] = IF i = k THEN new ELSE c[i]
      /\ Len(q) = Len(d) /\ l \in 1..Len(d) /\ q[j] = IF j = l THEN new ELSE d[j]
  BY DEF IsSwap
<1>2. CASE i = k /\ j # l
  BY <1>1, <1>2
<1>3. CASE i # k /\ j = l
  BY <1>1, <1>3 DEF Distinct
<1>4. CASE i # k /\ j # l
  BY <1>1, <1>4 DEF Agree
<1> QED BY <1>1, <1>2, <1>3, <1>4

\* The same rule at the same place.
LEMMA PutMirrors ==
  ASSUME NEW c \in Seq(Rule), NEW d \in Seq(Rule), Mirrors(c, d), NEW new, NEW m,
         new.id = m.id, new.handle = 0, NEW k, NEW p, IsPut(p, c, k, new), NEW q, IsPut(q, d, k, m)
  PROVE  Mirrors(p, q)
<1>1. /\ Len(p) = Len(c) + 1 /\ k \in 1..Len(p) /\ Len(c) \in Nat /\ Len(c) = Len(d) /\ Len(q) = Len(p)
      /\ \A i \in 1..Len(p) : p[i] = IF i < k THEN c[i] ELSE IF i = k THEN new ELSE c[i - 1]
      /\ \A i \in 1..Len(p) : q[i] = IF i < k THEN d[i] ELSE IF i = k THEN m ELSE d[i - 1]
      /\ \A i \in 1..Len(c) : c[i].id = d[i].id /\ (c[i].handle = 0 \/ c[i].handle = d[i].handle)
  BY DEF IsPut, Mirrors
<1>2. \A i \in 1..Len(p) : (i < k => i \in 1..Len(c)) /\ (i > k => i - 1 \in 1..Len(c))
  BY <1>1
<1>3. Len(p) = Len(q)
  BY <1>1
<1>4. ASSUME NEW i \in 1..Len(p) PROVE p[i].id = q[i].id /\ (p[i].handle = 0 \/ p[i].handle = q[i].handle)
  <2>1. CASE i < k
    BY <1>1, <1>2, <2>1
  <2>2. CASE i = k
    BY <1>1, <2>2
  <2>3. CASE i > k
    <3>1. i - 1 \in 1..Len(c) /\ p[i] = c[i - 1] /\ q[i] = d[i - 1]
      BY <1>1, <1>2, <2>3
    <3> QED BY <1>1, <3>1
  <2> QED BY <1>1, <2>1, <2>2, <2>3
<1> QED BY <1>3, <1>4, Zenon DEF Mirrors

\* The same rule replaced.
LEMMA SwapMirrors ==
  ASSUME NEW c \in Seq(Rule), NEW d \in Seq(Rule), Mirrors(c, d), NEW new, NEW k,
         NEW p, IsSwap(p, c, k, new), NEW q, IsSwap(q, d, k, new)
  PROVE  Mirrors(p, q)
<1>1. /\ Len(p) = Len(c) /\ Len(c) = Len(d) /\ Len(q) = Len(p)
      /\ \A i \in 1..Len(p) : p[i] = IF i = k THEN new ELSE c[i]
      /\ \A i \in 1..Len(p) : q[i] = IF i = k THEN new ELSE d[i]
      /\ \A i \in 1..Len(c) : c[i].id = d[i].id /\ (c[i].handle = 0 \/ c[i].handle = d[i].handle)
  BY DEF IsSwap, Mirrors
<1>2. \A i \in 1..Len(p) : p[i].id = q[i].id /\ (p[i].handle = 0 \/ p[i].handle = q[i].handle)
  BY <1>1
<1>3. Len(p) = Len(q)
  BY <1>1
<1> QED BY <1>2, <1>3, Zenon DEF Mirrors

-----------------------------------------------------------------------------
(* One message more. *)

\* The rules of c have been created up to the rule l, or are rules of K.
Known(c, K, l) == \A i \in 1..Len(c) : c[i].id <= l \/ \E j \in 1..Len(K) : K[j].id = c[i].id

\* What is made of known rules and of one created by then is known.
LEMMA KnownKept ==
  ASSUME NEW c, NEW d, NEW K, NEW l \in Nat, NEW n \in Nat, l <= n, NEW new, new.id \in Nat, new.id <= n,
         \A i \in 1..Len(c) : c[i].id \in Nat, Known(c, K, l),
         \A i \in 1..Len(d) : d[i] = new \/ \E k \in 1..Len(c) : d[i] = c[k]
  PROVE  Known(d, K, n)
<1> SUFFICES ASSUME NEW i \in 1..Len(d)
             PROVE  d[i].id <= n \/ \E j \in 1..Len(K) : K[j].id = d[i].id
  BY DEF Known
<1>1. CASE d[i] = new
  BY <1>1
<1>2. CASE d[i] # new
  <2>1. PICK k \in 1..Len(c) : d[i] = c[k]
    BY <1>2
  <2>2. c[k].id \in Nat
    OBVIOUS
  <2>3. c[k].id <= l \/ \E j \in 1..Len(K) : K[j].id = c[k].id
    BY DEF Known
  <2>4. c[k].id <= l => c[k].id <= n
    BY <2>2
  <2> QED BY <2>1, <2>3, <2>4, Zenon
<1> QED BY <1>1, <1>2

\* A message leaves the chain one that the kernel may have.
LEMMA AcceptedFacts ==
  ASSUME NEW ids, NEW s \in KState, NEW m \in Message, NEW K \in Seq(Rule), NEW l \in Nat, NEW n \in Nat, l <= n,
         Chained(s.chain, s.handle), Known(s.chain, K, l), Apply(ids, s, m).ok,
         m.op \in {"add", "insert", "replace"} =>
           m.id = l + 1 /\ n = l + 1 /\ \A j \in 1..Len(K) : K[j].id # l + 1
  PROVE  /\ Chained(Apply(ids, s, m).chain, Apply(ids, s, m).handle)
         /\ Known(Apply(ids, s, m).chain, K, n)
<1> DEFINE u   == Apply(ids, s, m)
           ref == Resolve(ids, s.chain, s.sent, m)
           c   == s.chain
           h   == s.handle
           new == NewOf(m, h)
           d   == u.chain
<1>1. /\ c \in Seq(Rule) /\ h \in Nat /\ Len(c) \in Nat
      /\ m.op \in {"add", "insert", "replace", "delete", "flush"} /\ m.pos \in Nat /\ m.id \in 0..MaxRule /\ MaxRule \in Nat
      /\ (m.op \in {"add", "insert", "replace"} => m.id # 0)
      /\ (m.op \in {"replace", "delete"} => m.pos # 0)
  BY RuleIndexAssumption DEF KState, Message
<1>2. /\ ref # 0 \/ (m.pos = 0 /\ m.posId = 0)
      /\ u.handle = h + 1
      /\ m.op = "delete" => d = RemoveAt(c, ref)
      /\ m.op = "flush" => d = <<>>
      /\ m.op \in {"add", "insert", "replace"} => d = Place(m.op, c, ref, new)
  BY AppliedFacts, Zenon
<1>3. ref \in 0..Len(c) /\ (m.pos # 0 => ref = HandleAt(c, m.pos))
  BY ResolveFacts
<1>4. /\ \A i \in 1..Len(c) : c[i].id \in Nat /\ (c[i].id <= l \/ \E j \in 1..Len(K) : K[j].id = c[i].id)
      /\ \A i \in 1..Len(c) : c[i].id <= l => c[i].id <= n
  <2>1. \A i \in 1..Len(c) : c[i].id \in Nat
    BY <1>1, RuleTypes
  <2> QED BY <2>1 DEF Known
<1>5. m.op \in {"add", "insert", "replace"} =>
        new \in Rule /\ new.id = l + 1 /\ \A i \in 1..Len(c) : c[i].id # new.id
  <2>1. m.op \in {"add", "insert", "replace"} => new \in Rule /\ new.id = l + 1
    BY <1>1 DEF NewOf, Rule
  <2> QED BY <1>4, <2>1
<1>6. Chained(c, h) /\ Known(c, K, l) /\ \A i \in 1..Len(c) : c[i].id \in Nat
  BY <1>4
<1> HIDE DEF u, ref, c, h, d
<1>7. CASE m.op \in {"add", "insert"}
  <2>1. new.handle = h + 1
    BY <1>7 DEF NewOf
  <2> HIDE DEF new
  <2>2. IsPut(d, c, Where(m.op, Len(c), ref), new)
    BY <1>1, <1>2, <1>3, <1>5, <1>7, PlaceFacts
  <2>3. Chained(d, h + 1)
    BY <1>5, <1>6, <1>7, <2>1, <2>2, PutChained
  <2>4. \A i \in 1..Len(d) : d[i] = new \/ \E k \in 1..Len(c) : d[i] = c[k]
    BY <1>1, <2>2 DEF IsPut
  <2>5. new.id \in Nat /\ new.id <= n
    BY <1>5, <1>7
  <2>6. Known(d, K, n)
    BY <1>6, <2>4, <2>5, KnownKept
  <2> QED BY <1>2, <2>3, <2>6 DEF u, d
<1>8. CASE m.op = "replace"
  <2>1. ref \in 1..Len(c) /\ new.handle = c[ref].handle
    <3>1. ref # 0 /\ ref = HandleAt(c, m.pos)
      BY <1>1, <1>2, <1>3, <1>8
    <3>2. c[ref].handle = m.pos
      BY <1>1, <3>1, HandleFacts
    <3> QED BY <1>1, <1>3, <1>8, <3>1, <3>2 DEF NewOf
  <2> HIDE DEF new
  <2>2. IsSwap(d, c, ref, new)
    BY <1>1, <1>2, <1>3, <1>5, <1>8, <2>1, PlaceFacts
  <2>3. Chained(d, h + 1)
    BY <1>5, <1>6, <1>8, <2>1, <2>2, SwapChained
  <2>4. \A i \in 1..Len(d) : d[i] = new \/ \E k \in 1..Len(c) : d[i] = c[k]
    BY <1>1, <2>2 DEF IsSwap
  <2>5. new.id \in Nat /\ new.id <= n
    BY <1>5, <1>8
  <2>6. Known(d, K, n)
    BY <1>6, <2>4, <2>5, KnownKept
  <2> QED BY <1>2, <2>3, <2>6 DEF u, d
<1>9. CASE m.op = "delete"
  <2>1. ref \in 1..Len(c)
    BY <1>1, <1>2, <1>3, <1>9
  <2>2. IsCut(d, c, ref)
    BY <1>1, <1>2, <1>9, <2>1, CutFacts
  <2>3. Chained(d, h + 1)
    BY <1>6, <2>2, CutChained
  <2>4. \A i \in 1..Len(d) : \E k \in 1..Len(c) : d[i] = c[k]
    <3> TAKE i \in 1..Len(d)
    <3>1. Len(d) \in Nat /\ Len(c) = Len(d) + 1 /\ d[i] = IF i < ref THEN c[i] ELSE c[i + 1]
      BY <1>1, <2>2 DEF IsCut
    <3>2. i \in 1..Len(c) /\ i + 1 \in 1..Len(c)
      BY <1>1, <3>1
    <3> QED BY <3>1, <3>2
  <2>5. Known(d, K, n)
    BY <1>4, <2>4 DEF Known
  <2> QED BY <1>2, <2>3, <2>5 DEF u, d
<1>10. CASE m.op = "flush"
  <2>1. d \in Seq(Rule) /\ Len(d) = 0 /\ h + 1 \in Nat
    BY <1>1, <1>2, <1>10
  <2>2. Chained(d, h + 1) /\ Known(d, K, n)
    BY <2>1 DEF Chained, Distinct, Known
  <2> QED BY <1>2, <2>2 DEF u, d
<1> QED BY <1>1, <1>7, <1>8, <1>9, <1>10

\* On the chain K with the handles up to kh, what the kernel makes of the
\* messages b when it accepts them: each of those with an index has been
\* placed by the rule it was meant for.
Sound(ids, K, kh, b, l) ==
  Run(ids, K, kh, b).ok =>
    /\ Chained(Run(ids, K, kh, b).chain, Run(ids, K, kh, b).handle)
    /\ Run(ids, K, kh, b).handle = kh + Len(b)
    /\ Len(Run(ids, K, kh, b).at) = Len(b)
    /\ Known(Run(ids, K, kh, b).chain, K, l)
    /\ \A k \in 1..Len(b) : b[k].by = "index" => Run(ids, K, kh, b).at[k] = b[k].asked

\* The message finds the rule it was meant for, if it finds one.
Names(ids, s, m) ==
  /\ m.pos # 0 \/ m.posId # 0
  /\ Resolve(ids, s.chain, s.sent, m) # 0 =>
       s.chain[Resolve(ids, s.chain, s.sent, m)].id = m.asked

\* Nothing is there before the first message.
LEMMA SoundEmpty ==
  ASSUME NEW ids, NEW K, NEW kh, Chained(K, kh), NEW l
  PROVE  Sound(ids, K, kh, <<>>, l)
<1>1. K \in Seq(Rule) /\ kh \in Nat
  BY DEF Chained
<1>2. Run(ids, K, kh, <<>>) = Start(K, kh)
  BY <1>1, RunFacts
<1>3. Known(K, K, l)
  BY DEF Known
<1> QED BY <1>1, <1>2, <1>3 DEF Sound, Start

\* A message more.
LEMMA SoundAppend ==
  ASSUME NEW ids, NEW K, NEW kh, Chained(K, kh), NEW b \in Seq(Message), NEW m \in Message,
         NEW l \in Nat, NEW n \in Nat, l <= n, Sound(ids, K, kh, b, l),
         m.op \in {"add", "insert", "replace"} =>
           m.id = l + 1 /\ n = l + 1 /\ \A j \in 1..Len(K) : K[j].id # l + 1,
         m.by = "index" /\ Run(ids, K, kh, b).ok => Names(ids, Run(ids, K, kh, b), m)
  PROVE  Sound(ids, K, kh, Append(b, m), n)
<1> DEFINE s == Run(ids, K, kh, b)
           v == Append(b, m)
           u == Run(ids, K, kh, v)
           ref == Resolve(ids, s.chain, s.sent, m)
           by == IF ref = 0 THEN 0 ELSE s.chain[ref].id
<1>1. K \in Seq(Rule) /\ kh \in Nat
  BY DEF Chained
<1>2. s \in KState /\ u = Apply(ids, s, m)
  BY <1>1, RunFacts
<1>3. /\ Len(b) \in Nat /\ v \in Seq(Message) /\ Len(v) = Len(b) + 1 /\ v[Len(b) + 1] = m
      /\ \A k \in 1..Len(b) : v[k] = b[k]
  OBVIOUS
<1> HIDE DEF s, u, v
<1> SUFFICES ASSUME u.ok
             PROVE  /\ Chained(u.chain, u.handle)
                    /\ u.handle = kh + Len(v)
                    /\ Len(u.at) = Len(v)
                    /\ Known(u.chain, K, n)
                    /\ \A k \in 1..Len(v) : v[k].by = "index" => u.at[k] = v[k].asked
  BY DEF Sound, u, v
<1>4. /\ s.ok
      /\ ref # 0 \/ (m.pos = 0 /\ m.posId = 0)
      /\ u.handle = s.handle + 1
      /\ u.at = Append(s.at, by)
  <2>1. Apply(ids, s, m).ok
    BY <1>2
  <2>2. /\ s.ok
        /\ ref # 0 \/ (m.pos = 0 /\ m.posId = 0)
        /\ Apply(ids, s, m).handle = s.handle + 1
        /\ Apply(ids, s, m).at = Append(s.at, by)
    BY <1>2, <2>1, AppliedFacts, Zenon
  <2> QED BY <1>2, <2>2
<1>5. /\ Chained(s.chain, s.handle)
      /\ s.handle = kh + Len(b)
      /\ Len(s.at) = Len(b)
      /\ Known(s.chain, K, l)
      /\ \A k \in 1..Len(b) : b[k].by = "index" => s.at[k] = b[k].asked
  BY <1>4 DEF Sound, s
<1>6. Chained(u.chain, u.handle) /\ Known(u.chain, K, n)
  BY <1>1, <1>2, <1>5, AcceptedFacts
<1>7. m.by = "index" => Names(ids, s, m)
  BY <1>4 DEF s
<1>8. m.by = "index" => by = m.asked
  BY <1>4, <1>7 DEF Names
<1>9. s.at \in Seq(0..MaxRule)
  BY <1>2 DEF KState
<1> HIDE DEF ref, by
<1>10. Len(u.at) = Len(b) + 1 /\ u.at[Len(b) + 1] = by /\ \A k \in 1..Len(b) : u.at[k] = s.at[k]
  BY <1>4, <1>5, <1>9
<1>11. ASSUME NEW k \in 1..Len(v), v[k].by = "index" PROVE u.at[k] = v[k].asked
  <2>1. CASE k \in 1..Len(b)
    BY <1>3, <1>5, <1>10, <1>11, <2>1
  <2>2. CASE k = Len(b) + 1
    BY <1>3, <1>8, <1>10, <1>11, <2>2
  <2> QED BY <1>3, <2>1, <2>2
<1>12. u.handle = kh + Len(v)
  BY <1>1, <1>3, <1>4, <1>5
<1> QED BY <1>3, <1>6, <1>10, <1>11, <1>12

\* Two tables of IDs that say the same of the IDs up to r.
SameIds(ids, jds, r) ==
  \A x \in 1..MaxRule, y \in 1..r : ids[x] = y <=> jds[x] = y

\* An ID that is given later means nothing to the messages before.
LEMMA RunSameIds ==
  ASSUME NEW ids, NEW jds, NEW r \in Nat, SameIds(ids, jds, r), NEW K \in Seq(Rule), NEW kh \in Nat
  PROVE  \A b \in Seq(Message) : (\A k \in 1..Len(b) : b[k].posId <= r) => Run(jds, K, kh, b) = Run(ids, K, kh, b)
<1> DEFINE T == {b \in Seq(Message) : (\A k \in 1..Len(b) : b[k].posId <= r) => Run(jds, K, kh, b) = Run(ids, K, kh, b)}
<1>1. <<>> \in T
  <2>1. Run(jds, K, kh, <<>>) = Run(ids, K, kh, <<>>)
    BY RunFacts
  <2> QED BY <2>1
<1>2. ASSUME NEW s \in KState, NEW m \in Message, m.posId <= r PROVE Apply(jds, s, m) = Apply(ids, s, m)
  <2>1. Resolve(jds, s.chain, s.sent, m) = Resolve(ids, s.chain, s.sent, m)
    <3>1. CASE m.pos = 0 /\ m.posId # 0
      <4> DEFINE P(js) == {i \in 1..Len(s.chain) : \E k \in DOMAIN s.sent :
                              s.sent[k].id = s.chain[i].id /\ js[s.sent[k].id] = m.posId}
      <4>1. m.posId \in 1..r
        BY <1>2, <3>1 DEF Message
      <4>2. \A i \in 1..Len(s.chain) : jds[s.chain[i].id] = m.posId <=> ids[s.chain[i].id] = m.posId
        BY <4>1, RuleTypes DEF SameIds, KState
      <4>3. P(jds) = P(ids)
        BY <4>2
      <4>4. /\ Resolve(jds, s.chain, s.sent, m) = IF P(jds) # {} THEN Min(P(jds)) ELSE 0
            /\ Resolve(ids, s.chain, s.sent, m) = IF P(ids) # {} THEN Min(P(ids)) ELSE 0
        BY <3>1, Zenon DEF Resolve, SelectInSeq
      <4> HIDE DEF P
      <4> QED BY <4>3, <4>4
    <3>2. CASE m.pos # 0
      BY <3>2, Zenon DEF Resolve
    <3>3. CASE m.pos = 0 /\ m.posId = 0
      BY <3>3, Zenon DEF Resolve
    <3> QED BY <3>1, <3>2, <3>3
  <2> QED BY <2>1, Zenon DEF Apply
<1>3. ASSUME NEW b \in Seq(Message), NEW m \in Message, b \in T PROVE Append(b, m) \in T
  <2> DEFINE v == Append(b, m)
  <2>1. v \in Seq(Message) /\ Len(v) = Len(b) + 1 /\ v[Len(b) + 1] = m /\ Len(b) \in Nat /\ \A k \in 1..Len(b) : v[k] = b[k]
    OBVIOUS
  <2>2. Run(jds, K, kh, v) = Apply(jds, Run(jds, K, kh, b), m) /\ Run(ids, K, kh, v) = Apply(ids, Run(ids, K, kh, b), m)
    BY RunFacts
  <2>3. Run(jds, K, kh, b) \in KState
    BY RunFacts
  <2> HIDE DEF v
  <2>4. ASSUME \A k \in 1..Len(v) : v[k].posId <= r PROVE Run(jds, K, kh, v) = Run(ids, K, kh, v)
    <3>1. m.posId <= r /\ \A k \in 1..Len(b) : b[k].posId <= r
      BY <2>1, <2>4
    <3>2. Run(jds, K, kh, b) = Run(ids, K, kh, b)
      BY <1>3, <3>1
    <3> QED BY <1>2, <2>2, <2>3, <3>1, <3>2
  <2>5. v \in T
    BY <2>1, <2>4
  <2> QED BY <2>5 DEF v
<1>4. Seq(Message) \subseteq T
  <2> HIDE DEF T
  <2> QED BY <1>1, <1>3, SeqInduction
<1> QED BY <1>4

-----------------------------------------------------------------------------
(* The flags of an input. *)

\* One step of Flags().
FlagStep(flags, cmd) ==
  CASE cmd.op = "replace" -> {"base", "rule"}
    [] cmd.op = "delete"  -> flags \cup {"base"}
    [] cmd.op = "flush"   -> flags
    [] OTHER              ->
         flags \cup {"base"}
           \cup (IF Located(cmd) THEN {"rule", "update"} ELSE {})

FlagFold == INSTANCE FoldFacts WITH Op <- LAMBDA p, flags, cmd : FlagStep(flags, cmd)

\* A cache that is to be updated has the rules.
LEMMA FlagsFacts ==
  ASSUME NEW in \in Seq(Command)
  PROVE  Flags(in) \subseteq {"base", "rule", "update"} /\ ("update" \in Flags(in) => "rule" \in Flags(in))
<1> DEFINE F == {f \in SUBSET {"base", "rule", "update"} : "update" \in f => "rule" \in f}
<1>1. Flags(in) = FlagFold!Fold(0, {}, in)
  BY Zenon DEF Flags, FlagStep, FlagFold!Fold, FlagFold!FoldLeft, FoldLeft, FlagFold!MapThenFoldSet, MapThenFoldSet,
    FlagFold!Max, Max
<1>2. {} \in F
  OBVIOUS
<1>3. ASSUME NEW f \in F, NEW c \in Command PROVE FlagStep(f, c) \in F
  BY DEF FlagStep
<1> HIDE DEF F
<1>4. FlagFold!Fold(0, {}, in) \in F
  BY <1>2, <1>3, FlagFold!FoldInvariant
<1> QED BY <1>1, <1>4 DEF F

-----------------------------------------------------------------------------
(* Types. *)

TypeInv ==
  /\ TypeOK
  /\ want \in Seq(Rule) /\ input \in Seq(Command) /\ batch \in Seq(Message)
  /\ khandle \in Nat /\ kgen \in Nat /\ cgen \in Nat /\ refId \in Nat
  /\ last \in 0..MaxRule

\* No two rules have the same ID.
Unshared(ids) == \A x, y \in 1..MaxRule : ids[x] # 0 /\ ids[x] = ids[y] => x = y

\* What link_rules() leaves behind.
Linked(link, dst) ==
  /\ link.pos \in Nat /\ link.posId \in Nat /\ link.refId \in Nat
  /\ refId <= link.refId /\ link.posId <= link.refId
  /\ link.ruleId \in [1..MaxRule -> 0..link.refId]
  /\ SameIds(ruleId, link.ruleId, refId)
  /\ Unshared(ruleId) => Unshared(link.ruleId)
  /\ dst.handle # 0 => link.pos = dst.handle
  /\ dst.handle = 0 => link.pos = 0 /\ link.posId # 0 /\ link.ruleId[dst.id] = link.posId

\* A reference is the handle, or an ID that no other rule has.
LEMMA LinkFacts ==
  ASSUME TypeInv, NEW dst \in Rule
  PROVE  Linked(LinkRules(dst), dst)
<1> DEFINE link == LinkRules(dst)
<1>1. /\ dst.id \in 1..MaxRule /\ dst.handle \in Nat /\ refId \in Nat
      /\ ruleId \in [1..MaxRule -> 0..refId] /\ MaxRule \in Nat
  BY RuleIndexAssumption DEF TypeInv, TypeOK, Rule
<1>2. CASE dst.handle # 0
  <2>1. link = [pos |-> dst.handle, posId |-> 0, refId |-> refId, ruleId |-> ruleId]
    BY <1>2 DEF LinkRules
  <2> HIDE DEF link
  <2> QED BY <1>1, <1>2, <2>1 DEF Linked, SameIds, link
<1>3. CASE dst.handle = 0 /\ ruleId[dst.id] # 0
  <2>1. link = [pos |-> 0, posId |-> ruleId[dst.id], refId |-> refId, ruleId |-> ruleId]
    BY <1>3 DEF LinkRules
  <2>2. ruleId[dst.id] \in 0..refId
    BY <1>1
  <2> HIDE DEF link
  <2> QED BY <1>1, <1>3, <2>1, <2>2 DEF Linked, SameIds, link
<1>4. CASE dst.handle = 0 /\ ruleId[dst.id] = 0
  <2> DEFINE ids == [ruleId EXCEPT ![dst.id] = refId + 1]
  <2>1. link = [pos |-> 0, posId |-> refId + 1, refId |-> refId + 1, ruleId |-> ids]
    BY <1>4 DEF LinkRules
  <2>2. /\ ids \in [1..MaxRule -> 0..(refId + 1)] /\ ids[dst.id] = refId + 1
        /\ \A x \in 1..MaxRule : ruleId[x] \in 0..refId /\ (x # dst.id => ids[x] = ruleId[x])
    BY <1>1
  <2> HIDE DEF ids, link
  <2>3. SameIds(ruleId, ids, refId)
    BY <1>1, <1>4, <2>2 DEF SameIds
  <2>4. Unshared(ruleId) => Unshared(ids)
    BY <1>1, <2>2 DEF Unshared
  <2> QED BY <1>1, <1>4, <2>1, <2>2, <2>3, <2>4 DEF Linked, link
<1> QED BY <1>1, <1>2, <1>3, <1>4

-----------------------------------------------------------------------------
(* What the evaluation of a command does. *)

\* The command sends m.
Sends(m) ==
  /\ pc = "eval" /\ input # <<>> /\ input' = Tail(input)
  /\ UNCHANGED <<kernel, pc, script, cflags, cgen>>
  /\ m \in Message /\ batch' = Append(batch, m)
  /\ m.op = Head(input).op /\ m.by = Head(input).by
  /\ m.op \in {"add", "insert", "replace"} => m.id = last + 1 /\ last' = last + 1 /\ last < MaxRule
  /\ m.op \in {"delete", "flush"} => last' = last
  /\ m.by = "none" => m.pos = 0 /\ m.posId = 0
  /\ m.by = "handle" => m.pos = Head(input).at

\* The IDs that rules have had keep their meaning.
Numbers(m) ==
  /\ refId' \in Nat /\ refId <= refId' /\ m.posId <= refId'
  /\ ruleId' \in [1..MaxRule -> 0..refId']
  /\ SameIds(ruleId, ruleId', refId)
  /\ Unshared(ruleId) => Unshared(ruleId')

\* An index becomes a reference to the cached rule.
Refers(m) ==
  m.by = "index" /\ "update" \in cflags =>
    /\ Head(input).at < Len(rules)
    /\ Head(input).at < Len(want) => m.asked = want[Head(input).at + 1].id
    /\ rules[Head(input).at + 1].handle # 0 => m.pos = rules[Head(input).at + 1].handle
    /\ rules[Head(input).at + 1].handle = 0 =>
         /\ m.pos = 0 /\ m.posId # 0
         /\ ruleId'[rules[Head(input).at + 1].id] = m.posId

\* The chain that the user describes.
Describes(m) ==
  LET k == Meant(Head(input), want) IN
  IF m.by # "none" /\ k = 0 THEN want' = want
  ELSE /\ m.op \in {"add", "insert"} =>
            IsPut(want', want, Where(m.op, Len(want), k),
                  [id |-> m.id, handle |-> khandle + Len(batch) + 1])
       /\ m.op = "replace" => IsSwap(want', want, k, [id |-> m.id, handle |-> m.pos])
       /\ m.op = "delete" => IsCut(want', want, k)
       /\ m.op = "flush" => want' = <<>>

\* The cached one.
Tracks(m) ==
  /\ "update" \notin cflags \/ m.op \in {"delete", "flush"} => rules' = rules
  /\ "update" \in cflags /\ m.op \in {"add", "insert"} =>
       \E ref \in 0..Len(rules) :
         /\ m.by = "none" => ref = 0
         /\ m.by # "none" => ref # 0 /\ ref = RefOf(Head(input))
         /\ IsPut(rules', rules, Where(m.op, Len(rules), ref), [id |-> m.id, handle |-> 0])
  /\ "update" \in cflags /\ m.op = "replace" =>
       \E ref \in 1..Len(rules) :
         /\ ref = RefOf(Head(input))
         /\ IsSwap(rules', rules, ref, [id |-> m.id, handle |-> m.pos])

Evaluates(m) == Sends(m) /\ Numbers(m) /\ Refers(m) /\ Describes(m) /\ Tracks(m)

\* The commands of an input.
LEMMA InputFacts ==
  ASSUME TypeInv, input # <<>>
  PROVE  /\ Head(input) \in Command /\ Tail(input) \in Seq(Command)
         /\ Len(input) \in Nat \ {0} /\ Head(input) = input[1]
         /\ Len(Tail(input)) = Len(input) - 1
         /\ \A i \in 1..Len(Tail(input)) : i + 1 \in 1..Len(input) /\ Tail(input)[i] = input[i + 1]
<1>1. input \in Seq(Command)
  BY DEF TypeInv
<1> QED BY <1>1

\* The fields of a command.
LEMMA CommandFacts ==
  ASSUME NEW cmd \in Command
  PROVE  /\ cmd.op \in {"add", "insert", "replace", "delete", "flush"}
         /\ cmd.by \in {"none", "index", "handle"} /\ cmd.at \in Nat
         /\ cmd.op \in {"replace", "delete"} => cmd.by = "handle"
         /\ cmd.op = "flush" => cmd.by = "none"
         /\ cmd.by = "handle" => cmd.at # 0
BY DEF Command

\* The rule a command means, in the described chain and in the cached one.
LEMMA MeantFacts ==
  ASSUME TypeInv, NEW cmd \in Command
  PROVE  /\ Meant(cmd, want) \in 0..Len(want)
         /\ cmd.by = "none" => Meant(cmd, want) = 0
         /\ cmd.by = "index" => Meant(cmd, want) = IF cmd.at < Len(want) THEN cmd.at + 1 ELSE 0
         /\ cmd.by = "handle" => Meant(cmd, want) = HandleAt(want, cmd.at)
         /\ cmd.by # "none" => RefOf(cmd) \in 0..Len(rules)
         /\ cmd.by = "index" => RefOf(cmd) = IF cmd.at < Len(rules) THEN cmd.at + 1 ELSE 0
         /\ cmd.by = "handle" => RefOf(cmd) = HandleAt(rules, cmd.at)
<1>1. want \in Seq(Rule) /\ rules \in Seq(Rule) /\ Len(want) \in Nat /\ Len(rules) \in Nat
  BY DEF TypeInv, TypeOK
<1>2. /\ cmd.by = "none" => Meant(cmd, want) = 0
      /\ cmd.by = "index" => Meant(cmd, want) = IF cmd.at < Len(want) THEN cmd.at + 1 ELSE 0
      /\ cmd.by = "handle" => Meant(cmd, want) = HandleAt(want, cmd.at)
  BY Zenon DEF Meant, HandleAt
<1>3. /\ cmd.by = "index" => RefOf(cmd) = IF cmd.at < Len(rules) THEN cmd.at + 1 ELSE 0
      /\ cmd.by = "handle" => RefOf(cmd) = HandleAt(rules, cmd.at)
  BY Zenon DEF RefOf, RuleLookupByIndex, RuleLookup, HandleAt
<1>4. HandleAt(want, cmd.at) \in 0..Len(want) /\ HandleAt(rules, cmd.at) \in 0..Len(rules)
  BY <1>1, HandleFacts
<1> QED BY <1>1, <1>2, <1>3, <1>4, CommandFacts

\* The message of a command that makes a rule is well formed.
LEMMA MsgFacts ==
  ASSUME TypeInv, NEW cmd \in Command, NEW id \in 0..MaxRule, NEW pos \in Nat, NEW posId \in Nat,
         cmd.op \in {"add", "insert", "replace"} => id # 0,
         cmd.op \in {"replace", "delete"} => pos # 0,
         cmd.op = "flush" => pos = 0 /\ posId = 0
  PROVE  LET m == Msg(cmd, id, pos, posId)
         IN /\ m \in Message
            /\ m.op = cmd.op /\ m.by = cmd.by /\ m.id = id /\ m.pos = pos /\ m.posId = posId
            /\ cmd.by = "index" /\ cmd.at < Len(want) => m.asked = want[cmd.at + 1].id
<1> DEFINE a == IF cmd.by = "index" /\ cmd.at < Len(want) THEN want[cmd.at + 1].id ELSE 0
           m == Msg(cmd, id, pos, posId)
<1>1. m = [op |-> cmd.op, id |-> id, pos |-> pos, posId |-> posId, by |-> cmd.by, asked |-> a]
  BY DEF Msg
<1>2. MaxRule \in Nat /\ want \in Seq(Rule) /\ Len(want) \in Nat
  BY RuleIndexAssumption DEF TypeInv
<1>3. a \in 0..MaxRule
  <2>1. CASE cmd.by = "index" /\ cmd.at < Len(want)
    <3>1. cmd.at + 1 \in 1..Len(want)
      BY <1>2, <2>1, CommandFacts
    <3>2. want[cmd.at + 1].id \in 1..MaxRule
      BY <1>2, <3>1, RuleTypes
    <3> QED BY <1>2, <2>1, <3>2
  <2>2. CASE ~(cmd.by = "index" /\ cmd.at < Len(want))
    BY <1>2, <2>2
  <2> QED BY <2>1, <2>2
<1>4. cmd.by = "index" /\ cmd.at < Len(want) => a = want[cmd.at + 1].id
  OBVIOUS
<1> HIDE DEF a, m
<1>5. m \in Message
  BY <1>1, <1>3, CommandFacts DEF Message
<1> QED BY <1>1, <1>4, <1>5 DEF m

\* The described chain follows a command that makes a rule.
LEMMA WantFacts ==
  ASSUME TypeInv, NEW cmd \in Command, cmd = Head(input), Creates(cmd), NEW m \in Message,
         m.op = cmd.op, m.by = cmd.by, m.id = last + 1, m.op = "replace" => m.pos = cmd.at
  PROVE  Describes(m)
<1> DEFINE k == Meant(cmd, want)
           h == IF cmd.op = "replace" THEN cmd.at ELSE khandle + Len(batch) + 1
           new == [id |-> last + 1, handle |-> h]
<1>1. /\ cmd.op \in {"add", "insert", "replace"} /\ last < MaxRule
      /\ want' = IF cmd.by # "none" /\ k = 0 THEN want ELSE Place(cmd.op, want, k, new)
  BY DEF Creates, Wanted
<1>2. /\ MaxRule \in Nat /\ last \in Nat /\ khandle \in Nat /\ Len(batch) \in Nat /\ want \in Seq(Rule)
      /\ cmd.at \in Nat
  BY RuleIndexAssumption, CommandFacts DEF TypeInv
<1>3. k \in 0..Len(want)
  BY MeantFacts
<1>4. new \in Rule
  BY <1>1, <1>2 DEF Rule
<1>5. cmd.op \in {"add", "insert"} => h = khandle + Len(batch) + 1
  OBVIOUS
<1>6. cmd.op = "replace" => h = m.pos
  OBVIOUS
<1> HIDE DEF h, k
<1>7. CASE cmd.by # "none" /\ k = 0
  <2>1. want' = want
    BY <1>1, <1>7
  <2> QED BY <1>7, <2>1 DEF Describes, k
<1>8. CASE ~(cmd.by # "none" /\ k = 0) /\ cmd.op \in {"add", "insert"}
  <2>1. IsPut(want', want, Where(m.op, Len(want), k), new)
    BY <1>1, <1>2, <1>3, <1>4, <1>8, PlaceFacts
  <2>2. IsPut(want', want, Where(m.op, Len(want), k), [id |-> m.id, handle |-> khandle + Len(batch) + 1])
    BY <1>5, <1>8, <2>1
  <2> QED BY <1>8, <2>2 DEF Describes, k
<1>9. CASE ~(cmd.by # "none" /\ k = 0) /\ cmd.op = "replace"
  <2>1. k # 0
    BY <1>9, CommandFacts
  <2>2. IsSwap(want', want, k, new)
    BY <1>1, <1>2, <1>3, <1>4, <1>9, <2>1, PlaceFacts
  <2>3. IsSwap(want', want, k, [id |-> m.id, handle |-> m.pos])
    BY <1>6, <1>9, <2>2
  <2> QED BY <1>9, <2>3 DEF Describes, k
<1> QED BY <1>1, <1>7, <1>8, <1>9

\* A command that leaves the IDs alone.
LEMMA NumbersSame ==
  ASSUME TypeInv, UNCHANGED <<ruleId, refId>>, NEW m, m.posId = 0
  PROVE  Numbers(m)
<1>1. refId \in Nat /\ ruleId \in [1..MaxRule -> 0..refId]
  BY DEF TypeInv, TypeOK
<1> QED BY <1>1 DEF Numbers, SameIds

\* A rule at an end of the chain.
LEMMA EvalPlainFacts ==
  ASSUME TypeInv, EvalPlain
  PROVE  \E m \in Message : Evaluates(m)
<1> DEFINE cmd == Head(input)
           m == Msg(cmd, last + 1, 0, 0)
<1>1. cmd \in Command
  BY InputFacts DEF EvalPlain, EvalCommon
<1> HIDE DEF cmd
<1>2. /\ Creates(cmd) /\ cmd.by = "none" /\ batch' = Append(batch, m)
      /\ rules' = Place(cmd.op, rules, 0, NewRule) /\ UNCHANGED <<ruleId, refId>>
      /\ EvalCommon /\ "update" \in cflags
  BY DEF EvalPlain, cmd, m
<1>3. cmd.op \in {"add", "insert"} /\ last < MaxRule /\ last' = last + 1
  BY <1>1, <1>2, CommandFacts DEF Creates
<1>4. last + 1 \in 1..MaxRule /\ MaxRule \in Nat
  BY <1>3, RuleIndexAssumption DEF TypeInv
<1>5. m \in Message /\ m.op = cmd.op /\ m.by = cmd.by /\ m.id = last + 1 /\ m.pos = 0 /\ m.posId = 0
  BY <1>1, <1>2, <1>3, <1>4, MsgFacts
<1> HIDE DEF m
<1>6. Sends(m)
  BY <1>2, <1>3, <1>5 DEF Sends, EvalCommon, cmd
<1>7. Numbers(m)
  BY <1>2, <1>5, NumbersSame
<1>8. Refers(m)
  BY <1>2, <1>5 DEF Refers
<1>9. Describes(m)
  BY <1>1, <1>2, <1>3, <1>5, WantFacts DEF cmd
<1>10. Tracks(m)
  <2>1. NewRule \in Rule /\ NewRule = [id |-> m.id, handle |-> 0]
    BY <1>4, <1>5 DEF NewRule, Rule
  <2>2. rules \in Seq(Rule) /\ 0 \in 0..Len(rules)
    BY DEF TypeInv, TypeOK
  <2>3. IsPut(rules', rules, Where(m.op, Len(rules), 0), [id |-> m.id, handle |-> 0])
    BY <1>2, <1>3, <1>5, <2>1, <2>2, PlaceFacts
  <2> QED BY <1>2, <1>3, <1>5, <2>2, <2>3 DEF Tracks
<1> QED BY <1>5, <1>6, <1>7, <1>8, <1>9, <1>10 DEF Evaluates

\* A rule that the cached chain does not get.
LEMMA EvalUntrackedFacts ==
  ASSUME TypeInv, EvalUntracked
  PROVE  \E m \in Message : Evaluates(m)
<1> DEFINE cmd == Head(input)
           pos == IF cmd.by = "handle" THEN cmd.at ELSE 0
           m == Msg(cmd, last + 1, pos, 0)
<1>1. cmd \in Command
  BY InputFacts DEF EvalUntracked, EvalCommon
<1> HIDE DEF cmd
<1>2. /\ Creates(cmd) /\ batch' = Append(batch, m)
      /\ UNCHANGED <<rules, ruleId, refId>>
      /\ EvalCommon /\ "update" \notin cflags
  BY DEF EvalUntracked, cmd, m
<1>3. cmd.op \in {"add", "insert", "replace"} /\ last < MaxRule /\ last' = last + 1
  BY <1>1, <1>2 DEF Creates
<1>4. last + 1 \in 1..MaxRule /\ MaxRule \in Nat
  BY <1>3, RuleIndexAssumption DEF TypeInv
<1>5. pos \in Nat /\ (cmd.op = "replace" => pos # 0 /\ pos = cmd.at)
      /\ (cmd.by = "handle" => pos = cmd.at) /\ (cmd.by = "none" => pos = 0)
  BY <1>1, CommandFacts
<1> HIDE DEF pos
<1>6. m \in Message /\ m.op = cmd.op /\ m.by = cmd.by /\ m.id = last + 1 /\ m.pos = pos /\ m.posId = 0
  BY <1>1, <1>3, <1>4, <1>5, MsgFacts
<1> HIDE DEF m
<1>7. Sends(m)
  BY <1>2, <1>3, <1>5, <1>6 DEF Sends, EvalCommon, cmd
<1>8. Numbers(m)
  BY <1>2, <1>6, NumbersSame
<1>9. Refers(m)
  BY <1>2 DEF Refers
<1>10. Describes(m)
  BY <1>1, <1>2, <1>5, <1>6, WantFacts DEF cmd
<1>11. Tracks(m)
  BY <1>2 DEF Tracks
<1> QED BY <1>6, <1>7, <1>8, <1>9, <1>10, <1>11 DEF Evaluates

\* A rule that names another one.
LEMMA EvalReferringFacts ==
  ASSUME TypeInv, EvalReferring
  PROVE  \E m \in Message : Evaluates(m)
<1> DEFINE cmd == Head(input)
           ref == RefOf(cmd)
           link == IF cmd.by = "index" THEN LinkRules(rules[ref])
                   ELSE [pos |-> cmd.at, posId |-> 0, refId |-> refId, ruleId |-> ruleId]
           new == IF cmd.op = "replace" THEN [NewRule EXCEPT !.handle = cmd.at] ELSE NewRule
           m == Msg(cmd, last + 1, link.pos, link.posId)
<1>1. cmd \in Command
  BY InputFacts DEF EvalReferring, EvalCommon
<1> HIDE DEF cmd
<1>2. /\ Creates(cmd) /\ cmd.by # "none" /\ ref # 0
      /\ batch' = Append(batch, m) /\ ruleId' = link.ruleId /\ refId' = link.refId
      /\ rules' = Place(cmd.op, rules, ref, new)
      /\ EvalCommon /\ "update" \in cflags
  BY DEF EvalReferring, cmd, m, link, new, ref
<1>3. /\ cmd.op \in {"add", "insert", "replace"} /\ last < MaxRule /\ last' = last + 1
      /\ cmd.by \in {"index", "handle"} /\ cmd.at \in Nat
      /\ (cmd.op = "replace" => cmd.by = "handle") /\ (cmd.by = "handle" => cmd.at # 0)
  BY <1>1, <1>2, CommandFacts DEF Creates
<1>4. last + 1 \in 1..MaxRule /\ MaxRule \in Nat /\ last \in Nat
  BY <1>3, RuleIndexAssumption DEF TypeInv
<1>5. /\ rules \in Seq(Rule) /\ ref \in 1..Len(rules) /\ rules[ref] \in Rule
      /\ rules[ref].handle \in Nat
  <2>1. rules \in Seq(Rule) /\ ref \in 1..Len(rules)
    BY <1>1, <1>2, MeantFacts DEF TypeInv, TypeOK
  <2> QED BY <2>1, RuleTypes
<1>6. Linked(link, rules[ref]) \/ cmd.by = "handle"
  BY <1>3, <1>5, LinkFacts
<1>7. cmd.by = "handle" => link = [pos |-> cmd.at, posId |-> 0, refId |-> refId, ruleId |-> ruleId]
  OBVIOUS
<1>8. cmd.by = "handle" => link.pos = cmd.at /\ link.posId = 0 /\ link.refId = refId /\ link.ruleId = ruleId
  BY <1>7
<1>9. cmd.by = "index" => Linked(link, rules[ref])
  BY <1>6
<1> HIDE DEF link
<1>10. link.pos \in Nat /\ link.posId \in Nat
  BY <1>3, <1>8, <1>9 DEF Linked
<1>11. m \in Message /\ m.op = cmd.op /\ m.by = cmd.by /\ m.id = last + 1 /\ m.pos = link.pos /\ m.posId = link.posId
       /\ (cmd.by = "index" /\ cmd.at < Len(want) => m.asked = want[cmd.at + 1].id)
  BY <1>1, <1>3, <1>4, <1>8, <1>10, MsgFacts
<1> HIDE DEF m
<1>12. Sends(m)
  BY <1>2, <1>3, <1>8, <1>11 DEF Sends, EvalCommon, cmd
<1>13. Numbers(m)
  <2>1. CASE cmd.by = "handle"
    BY <1>2, <1>8, <1>11, <2>1, NumbersSame
  <2>2. CASE cmd.by = "index"
    BY <1>2, <1>9, <1>11, <2>2 DEF Linked, Numbers
  <2> QED BY <1>3, <2>1, <2>2
<1>14. Refers(m)
  <2> SUFFICES ASSUME m.by = "index" PROVE Refers(m)
    BY DEF Refers
  <2>1. cmd.by = "index"
    BY <1>11
  <2>2. cmd.at < Len(rules) /\ ref = cmd.at + 1
    BY <1>1, <1>2, <2>1, MeantFacts
  <2> HIDE DEF ref
  <2>3. /\ rules[ref].handle # 0 => m.pos = rules[ref].handle
        /\ rules[ref].handle = 0 => m.pos = 0 /\ m.posId # 0 /\ ruleId'[rules[ref].id] = m.posId
    BY <1>2, <1>9, <1>11, <2>1 DEF Linked
  <2> QED BY <1>11, <2>1, <2>2, <2>3 DEF Refers, cmd
<1>15. Describes(m)
  BY <1>1, <1>2, <1>3, <1>8, <1>11, WantFacts DEF cmd
<1>16. Tracks(m)
  <2>1. CASE cmd.op = "replace"
    <3>1. new = [id |-> m.id, handle |-> m.pos] /\ new \in Rule
      BY <1>3, <1>4, <1>8, <1>11, <2>1 DEF NewRule, Rule
    <3> HIDE DEF new, ref
    <3>2. IsSwap(rules', rules, ref, new)
      BY <1>2, <1>5, <2>1, <3>1, PlaceFacts
    <3>3. IsSwap(rules', rules, ref, [id |-> m.id, handle |-> m.pos]) /\ m.op = "replace"
      BY <1>11, <2>1, <3>1, <3>2
    <3> QED BY <1>2, <1>5, <3>3 DEF Tracks, ref, cmd
  <2>2. CASE cmd.op \in {"add", "insert"}
    <3>1. new = [id |-> m.id, handle |-> 0] /\ new \in Rule
      BY <1>3, <1>4, <1>11, <2>2 DEF NewRule, Rule
    <3> HIDE DEF new, ref
    <3>2. IsPut(rules', rules, Where(m.op, Len(rules), ref), new)
      BY <1>2, <1>5, <1>11, <2>2, <3>1, PlaceFacts
    <3>3. /\ ref \in 0..Len(rules)
          /\ IsPut(rules', rules, Where(m.op, Len(rules), ref), [id |-> m.id, handle |-> 0])
          /\ m.by # "none" /\ m.op \in {"add", "insert"}
      BY <1>2, <1>5, <1>11, <2>2, <3>1, <3>2
    <3> QED BY <1>2, <3>3 DEF Tracks, ref, cmd
  <2> QED BY <1>3, <2>1, <2>2
<1> QED BY <1>11, <1>12, <1>13, <1>14, <1>15, <1>16 DEF Evaluates

\* "delete rule".
LEMMA EvalDeleteFacts ==
  ASSUME TypeInv, EvalDelete
  PROVE  \E m \in Message : Evaluates(m)
<1> DEFINE cmd == Head(input)
           m == Msg(cmd, 0, cmd.at, 0)
           k == Meant(cmd, want)
<1>1. cmd \in Command
  BY InputFacts DEF EvalDelete, EvalCommon
<1> HIDE DEF cmd
<1>2. /\ cmd.op = "delete" /\ batch' = Append(batch, m)
      /\ want' = IF k = 0 THEN want ELSE RemoveAt(want, k)
      /\ UNCHANGED <<last, rules, ruleId, refId>> /\ EvalCommon
  BY DEF EvalDelete, cmd, m, k
<1>3. cmd.by = "handle" /\ cmd.at \in Nat /\ cmd.at # 0 /\ 0 \in 0..MaxRule /\ MaxRule \in Nat
  BY <1>1, <1>2, CommandFacts, RuleIndexAssumption
<1>4. m \in Message /\ m.op = cmd.op /\ m.by = cmd.by /\ m.pos = cmd.at /\ m.posId = 0
  BY <1>1, <1>2, <1>3, MsgFacts
<1> HIDE DEF m
<1>5. Sends(m)
  BY <1>2, <1>3, <1>4 DEF Sends, EvalCommon, cmd
<1>6. Numbers(m)
  BY <1>2, <1>4, NumbersSame
<1>7. Refers(m)
  BY <1>3, <1>4 DEF Refers
<1>8. Describes(m)
  <2>1. want \in Seq(Rule) /\ k \in 0..Len(want)
    BY <1>1, MeantFacts DEF TypeInv
  <2> HIDE DEF k
  <2>2. CASE k = 0
    BY <1>2, <1>3, <1>4, <2>2 DEF Describes, cmd, k
  <2>3. CASE k # 0
    <3>1. IsCut(want', want, k)
      BY <1>2, <2>1, <2>3, CutFacts
    <3> QED BY <1>2, <1>4, <2>3, <3>1 DEF Describes, cmd, k
  <2> QED BY <2>2, <2>3
<1>9. Tracks(m)
  BY <1>2, <1>4 DEF Tracks
<1> QED BY <1>4, <1>5, <1>6, <1>7, <1>8, <1>9 DEF Evaluates

\* "flush chain".
LEMMA EvalFlushFacts ==
  ASSUME TypeInv, EvalFlush
  PROVE  \E m \in Message : Evaluates(m)
<1> DEFINE cmd == Head(input)
           m == Msg(cmd, 0, 0, 0)
<1>1. cmd \in Command
  BY InputFacts DEF EvalFlush, EvalCommon
<1> HIDE DEF cmd
<1>2. /\ cmd.op = "flush" /\ batch' = Append(batch, m) /\ want' = <<>>
      /\ UNCHANGED <<last, rules, ruleId, refId>> /\ EvalCommon
  BY DEF EvalFlush, cmd, m
<1>3. cmd.by = "none" /\ 0 \in 0..MaxRule /\ MaxRule \in Nat
  BY <1>1, <1>2, CommandFacts, RuleIndexAssumption
<1>4. m \in Message /\ m.op = cmd.op /\ m.by = cmd.by /\ m.pos = 0 /\ m.posId = 0
  BY <1>1, <1>2, <1>3, MsgFacts
<1> HIDE DEF m
<1>5. Sends(m)
  BY <1>2, <1>3, <1>4 DEF Sends, EvalCommon, cmd
<1>6. Numbers(m)
  BY <1>2, <1>4, NumbersSame
<1>7. Refers(m)
  BY <1>3, <1>4 DEF Refers
<1>8. Describes(m)
  BY <1>2, <1>3, <1>4 DEF Describes
<1>9. Tracks(m)
  BY <1>2, <1>4 DEF Tracks
<1> QED BY <1>4, <1>5, <1>6, <1>7, <1>8, <1>9 DEF Evaluates

Evals == EvalReferring \/ EvalPlain \/ EvalUntracked \/ EvalDelete \/ EvalFlush

\* All of them.
LEMMA EvaluateFacts ==
  ASSUME TypeInv, Evals
  PROVE  \E m \in Message : Evaluates(m)
BY EvalReferringFacts, EvalPlainFacts, EvalUntrackedFacts, EvalDeleteFacts, EvalFlushFacts DEF Evals

-----------------------------------------------------------------------------
(* Type correctness. *)

\* The state at the start.
LEMMA InitTypes == Init => TypeInv
<1> SUFFICES ASSUME Init PROVE TypeInv
  OBVIOUS
<1>1. Initial \in Nat /\ MaxRule \in Nat /\ MaxRule >= Initial /\ MaxGen \in Nat \ {0}
  BY RuleIndexAssumption
<1>2. kchain = [i \in 1..Initial |-> kchain[i]] /\ \A i \in 1..Initial : kchain[i] \in Rule
  BY <1>1 DEF Init, Rule
<1>3. kchain \in Seq(Rule)
  BY <1>1, <1>2, SeqBuild
<1> QED BY <1>1, <1>3 DEF Init, TypeInv, TypeOK

\* An evaluated command.
LEMMA EvalTypes ==
  ASSUME TypeInv, NEW m \in Message, Evaluates(m)
  PROVE  TypeInv'
<1>1. /\ kchain' = kchain /\ kgen' = kgen /\ khandle' = khandle /\ pc' = pc /\ cflags' = cflags /\ cgen' = cgen
      /\ input' = Tail(input) /\ batch' = Append(batch, m)
      /\ m.op \in {"add", "insert", "replace"} => last' = last + 1 /\ last < MaxRule
      /\ m.op \in {"delete", "flush"} => last' = last
      /\ m.op \in {"add", "insert", "replace", "delete", "flush"}
  BY DEF Evaluates, Sends, kernel, Message
<1>2. last' \in 0..MaxRule
  BY <1>1, RuleIndexAssumption DEF TypeInv
<1>3. Tail(input) \in Seq(Command)
  BY InputFacts DEF Evaluates, Sends
<1>4. batch' \in Seq(Message)
  BY <1>1 DEF TypeInv
<1>5. refId' \in Nat /\ ruleId' \in [1..MaxRule -> 0..refId']
  BY DEF Evaluates, Numbers
<1>6. want' \in Seq(Rule)
  <2>1. want \in Seq(Rule) /\ Describes(m) /\ <<>> \in Seq(Rule)
    BY DEF TypeInv, Evaluates
  <2> DEFINE k == Meant(Head(input), want)
  <2>2. CASE m.by # "none" /\ k = 0
    BY <2>1, <2>2 DEF Describes
  <2>3. CASE ~(m.by # "none" /\ k = 0)
    <3>1. /\ m.op \in {"add", "insert"} =>
               IsPut(want', want, Where(m.op, Len(want), k), [id |-> m.id, handle |-> khandle + Len(batch) + 1])
          /\ m.op = "replace" => IsSwap(want', want, k, [id |-> m.id, handle |-> m.pos])
          /\ m.op = "delete" => IsCut(want', want, k)
          /\ m.op = "flush" => want' = <<>>
      BY <2>1, <2>3 DEF Describes
    <3> QED BY <1>1, <2>1, <3>1, Zenon DEF IsPut, IsSwap, IsCut
  <2> QED BY <2>2, <2>3
<1>7. rules' \in Seq(Rule)
  <2>1. rules \in Seq(Rule)
    BY DEF TypeInv, TypeOK
  <2> QED BY <1>1, <2>1 DEF Evaluates, Tracks, IsPut, IsSwap
<1> QED BY <1>1, <1>2, <1>3, <1>4, <1>5, <1>6, <1>7 DEF TypeInv, TypeOK

\* The transaction.
LEMMA TransactionTypes ==
  ASSUME TypeInv
  PROVE  Transaction \in KState
<1>1. kchain \in Seq(Rule) /\ khandle \in Nat /\ batch \in Seq(Message)
  BY DEF TypeInv, TypeOK
<1> QED BY <1>1, RunFacts, TransactionIs

\* Any step.
LEMMA NextTypes == TypeInv /\ [Next]_vars => TypeInv'
<1> SUFFICES ASSUME TypeInv, [Next]_vars PROVE TypeInv'
  OBVIOUS
<1>1. /\ kchain \in Seq(Rule) /\ rules \in Seq(Rule) /\ pc \in {"idle", "eval", "send"}
      /\ ruleId \in [1..MaxRule -> 0..refId] /\ cflags \subseteq {"base", "rule", "update"}
      /\ cgen <= kgen /\ kgen <= MaxGen
      /\ want \in Seq(Rule) /\ input \in Seq(Command) /\ batch \in Seq(Message)
      /\ khandle \in Nat /\ kgen \in Nat /\ cgen \in Nat /\ refId \in Nat
      /\ last \in 0..MaxRule
  BY DEF TypeInv, TypeOK
<1>2. MaxRule \in Nat /\ MaxGen \in Nat /\ Input \cup Script \subseteq Seq(Command)
  BY RuleIndexAssumption, InputsAssumption
<1>3. ASSUME NEW in \in Input \cup Script, UpdateCache(in) PROVE TypeInv'
  <2>1. in \in Seq(Command) /\ Flags(in) \subseteq {"base", "rule", "update"}
    BY <1>2, FlagsFacts
  <2>2. rules' \in Seq(Rule) /\ cflags' \subseteq {"base", "rule", "update"}
    <3>1. <<>> \in Seq(Rule)
      OBVIOUS
    <3>2. CASE cgen # 0 /\ Reusable(Flags(in))
      BY <1>1, <1>3, <3>2 DEF UpdateCache
    <3>3. CASE ~(cgen # 0 /\ Reusable(Flags(in)))
      <4>1. (rules' = IF "rule" \in Flags(in) THEN kchain ELSE <<>>) /\ cflags' = Flags(in)
        BY <1>3, <3>3 DEF UpdateCache
      <4> QED BY <1>1, <2>1, <3>1, <4>1
    <3> QED BY <3>2, <3>3
  <2> QED BY <1>1, <1>3, <2>1, <2>2 DEF UpdateCache, kernel, TypeInv, TypeOK
<1>4. CASE NewContext
  BY <1>1, <1>4 DEF NewContext, Release, kernel, TypeInv, TypeOK
<1>5. CASE Evals
  BY <1>5, EvaluateFacts, EvalTypes
<1>6. CASE EvalError
  BY <1>1, <1>6 DEF EvalError, Fail, Release, EndOfInput, kernel, TypeInv, TypeOK
<1>7. CASE EvalDone
  BY <1>1, <1>7 DEF EvalDone, kernel, cache, TypeInv, TypeOK
<1>8. CASE Commit
  <2>1. Transaction.chain \in Seq(Rule) /\ Transaction.handle \in Nat
    BY TransactionTypes DEF KState
  <2>2. kchain' \in Seq(Rule) /\ khandle' \in Nat
    BY <1>8, <2>1 DEF Commit
  <2>3. kgen' \in Nat /\ kgen' <= MaxGen /\ cgen <= kgen'
    BY <1>1, <1>2, <1>8 DEF Commit, NextGen
  <2>4. rules' \in Seq(Rule) /\ cflags' \subseteq {"base", "rule", "update"} /\ cgen' \in {0, cgen}
    <3>1. CASE script
      <4>1. rules' = <<>> /\ cflags' = {} /\ cgen' = 0
        BY <1>8, <3>1 DEF Commit, Release
      <4> QED BY <4>1
    <3>2. CASE ~script
      BY <1>1, <1>8, <3>2 DEF Commit
    <3> QED BY <3>1, <3>2
  <2> QED BY <1>1, <1>8, <2>2, <2>3, <2>4 DEF Commit, EndOfInput, TypeInv, TypeOK
<1>9. CASE Refused
  BY <1>1, <1>9 DEF Refused, Fail, Release, EndOfInput, kernel, TypeInv, TypeOK
<1>10. CASE ForeignInsert
  <2> DEFINE one == <<[id |-> last + 1, handle |-> khandle + 1]>>
  <2>1. one \in Seq(Rule) /\ last' \in 0..MaxRule
    BY <1>1, <1>2, <1>10 DEF ForeignInsert, Rule
  <2>2. kchain' \in Seq(Rule)
    BY <1>1, <1>10, <2>1 DEF ForeignInsert
  <2> QED BY <1>1, <1>2, <1>10, <2>1, <2>2 DEF ForeignInsert, NextGen, cache, TypeInv, TypeOK
<1>11. CASE ForeignDelete
  <2>1. PICK i \in DOMAIN kchain : kchain' = RemoveAt(kchain, i)
    BY <1>11 DEF ForeignDelete
  <2>2. i \in 1..Len(kchain)
    BY <1>1
  <2>3. kchain' \in Seq(Rule)
    BY <1>1, <2>1, <2>2, CutFacts DEF IsCut
  <2> QED BY <1>1, <1>2, <1>11, <2>3 DEF ForeignDelete, NextGen, cache, TypeInv, TypeOK
<1>12. CASE UNCHANGED vars
  BY <1>1, <1>12 DEF vars, kernel, cache, TypeInv, TypeOK
<1> QED BY <1>3, <1>4, <1>5, <1>6, <1>7, <1>8, <1>9, <1>10, <1>11, <1>12 DEF Next, Evals

\* TypeOK: no rule is without a number, no ID is larger than the counter of
\* link_rules(), and the cache is never ahead of the kernel.
THEOREM TypeCorrect == Spec => []TypeOK
<1>1. TypeInv => TypeOK
  BY DEF TypeInv
<1> QED BY <1>1, InitTypes, NextTypes, PTL DEF Spec

-----------------------------------------------------------------------------
(***************************************************************************)
(* The invariant.                                                          *)
(***************************************************************************)

\* The chains K, with the handles up to kh, that the kernel may have when
\* the batch arrives: others take rules out and bring new ones.
Later(c, h, l, K, kh) ==
  /\ Chained(K, kh) /\ h <= kh
  /\ \A i \in 1..Len(K) :
       (\E j \in 1..Len(c) : K[i] = c[j]) \/ (K[i].handle > h /\ K[i].id > l)

\* On K, the cached chain rs has the handles of its rules.
Agreeing(ids, K, kh, b, rs) == Run(ids, K, kh, b).ok => Agree(Run(ids, K, kh, b).chain, rs)

KernelOK == Chained(kchain, khandle) /\ \A i \in 1..Len(kchain) : kchain[i].id <= last

CachedOK == "update" \in cflags => \A i \in 1..Len(rules) : rules[i].handle <= khandle

IdsOK == Unshared(ruleId) /\ \A k \in 1..Len(batch) : batch[k].posId <= refId

\* Between two inputs: the cache is behind the kernel, and only by our own
\* transaction if by one generation.
IdleOK ==
  pc = "idle" /\ cgen # 0 =>
    cgen < kgen /\ (kgen = cgen + 1 /\ "update" \in cflags => Mirrors(rules, kchain))

InputOK ==
  pc # "idle" =>
    /\ HasIndex(input) => "update" \in cflags /\ ~HasCut(batch)
    /\ \A i, j \in 1..Len(input) :
         i < j /\ input[i].op \in {"delete", "flush"} => input[j].by # "index"
    /\ ~script => ~HasCut(input) /\ ~HasCut(batch)

WantOK ==
  pc # "idle" =>
    Chained(want, khandle + Len(batch)) /\ \A i \in 1..Len(want) : want[i].id <= last

\* The cached chain is the described one.
Mirrored == pc # "idle" /\ "update" \in cflags /\ ~HasCut(batch) => Mirrors(rules, want)

\* On every later chain.
Runs ==
  pc # "idle" =>
    \A K, kh : Later(kchain, khandle, last, K, kh) =>
      /\ Sound(ruleId, K, kh, batch, last)
      /\ "update" \in cflags /\ ~HasCut(batch) => Agreeing(ruleId, K, kh, batch, rules)

\* On the chain that was there when the cache was checked.
Exact ==
  pc # "idle" /\ kgen = cgen =>
    (Run(ruleId, kchain, khandle, batch).ok => Run(ruleId, kchain, khandle, batch).chain = want)

Inv ==
  /\ TypeInv
  /\ KernelOK /\ CachedOK /\ IdsOK
  /\ IdleOK /\ InputOK
  /\ WantOK /\ Mirrored /\ Runs /\ Exact

\* The message that an index becomes finds the rule.
LEMMA NamesFacts ==
  ASSUME TypeInv, NEW m \in Message, Evaluates(m), m.by = "index", "update" \in cflags,
         Mirrors(rules, want), Unshared(ruleId'), NEW s \in KState, Agree(s.chain, rules)
  PROVE  Names(ruleId', s, m)
<1> DEFINE at == Head(input).at
           r == rules[at + 1]
           ref == Resolve(ruleId', s.chain, s.sent, m)
<1>1. at < Len(rules) /\ at \in Nat /\ Len(rules) \in Nat /\ rules \in Seq(Rule)
  BY InputFacts, CommandFacts DEF Evaluates, Refers, Sends, TypeInv, TypeOK
<1>2. at + 1 \in 1..Len(rules)
  BY <1>1
<1>3. m.asked = r.id
  BY <1>1, <1>2 DEF Evaluates, Refers, Mirrors
<1>4. r.id \in 1..MaxRule /\ r.handle \in Nat
  BY <1>1, <1>2, RuleTypes
<1>5. /\ r.handle # 0 => m.pos = r.handle
      /\ r.handle = 0 => m.pos = 0 /\ m.posId # 0 /\ ruleId'[r.id] = m.posId
  BY DEF Evaluates, Refers
<1>0. s.chain \in Seq(Rule) /\ Len(s.chain) \in Nat
  BY DEF KState
<1>6. /\ s.chain \in Seq(Rule) /\ Len(s.chain) \in Nat
      /\ ref \in 0..Len(s.chain)
      /\ m.pos # 0 => ref = HandleAt(s.chain, m.pos)
      /\ m.pos = 0 /\ m.posId # 0 /\ ref # 0 => ruleId'[s.chain[ref].id] = m.posId
  BY <1>0, ResolveFacts, Zenon
<1> HIDE DEF r, ref
<1>7. ASSUME ref # 0 PROVE s.chain[ref].id = m.asked
  <2>1. ref \in 1..Len(s.chain)
    BY <1>6, <1>7
  <2>2. CASE r.handle # 0
    <3>1. s.chain[ref].handle = r.handle
      BY <1>5, <1>6, <1>7, <2>2, HandleFacts
    <3> QED BY <1>2, <1>3, <2>1, <2>2, <3>1 DEF Agree, r
  <2>3. CASE r.handle = 0
    <3>1. ruleId'[s.chain[ref].id] = ruleId'[r.id] /\ ruleId'[r.id] # 0
      BY <1>5, <1>6, <1>7, <2>3
    <3>2. s.chain[ref].id \in 1..MaxRule
      BY <1>6, <2>1, RuleTypes
    <3> QED BY <1>3, <1>4, <3>1, <3>2 DEF Unshared
  <2> QED BY <2>2, <2>3
<1>8. m.pos # 0 \/ m.posId # 0
  BY <1>5
<1> QED BY <1>7, <1>8 DEF Names, ref

\* The cached rule and the described one have the same place.
LEMMA SamePlace ==
  ASSUME TypeInv, NEW cmd \in Command, cmd.by # "none", RefOf(cmd) # 0, Mirrors(rules, want), Distinct(want)
  PROVE  Meant(cmd, want) = RefOf(cmd)
<1>1. rules \in Seq(Rule) /\ want \in Seq(Rule) /\ Len(rules) = Len(want)
  BY DEF TypeInv, TypeOK, Mirrors
<1>2. RefOf(cmd) \in 1..Len(rules)
  BY <1>1, MeantFacts
<1>3. CASE cmd.by = "index"
  BY <1>1, <1>3, MeantFacts
<1>4. CASE cmd.by = "handle"
  <2> DEFINE ref == RefOf(cmd)
             k == Meant(cmd, want)
  <2>1. ref = HandleAt(rules, cmd.at) /\ k = HandleAt(want, cmd.at) /\ cmd.at # 0
    BY <1>4, MeantFacts, CommandFacts
  <2>2. rules[ref].handle = cmd.at
    BY <1>1, <2>1, HandleFacts
  <2> HIDE DEF ref, k
  <2>3. ref \in 1..Len(rules)
    BY <1>2 DEF ref
  <2>4. want[ref].handle = cmd.at
    BY <1>1, <2>1, <2>2, <2>3 DEF Mirrors
  <2>5. k # 0 /\ want[k].handle = cmd.at /\ k \in 0..Len(want)
    BY <1>1, <2>1, <2>3, <2>4, HandleFacts
  <2>6. k = ref
    BY <1>1, <2>3, <2>4, <2>5 DEF Distinct
  <2> QED BY <2>6 DEF k, ref
<1> QED BY <1>3, <1>4, CommandFacts

-----------------------------------------------------------------------------
(* An evaluated command keeps the invariant. *)

\* What a message more does to the batch and the input.
LEMMA BatchFacts ==
  ASSUME TypeInv, NEW m \in Message, Evaluates(m)
  PROVE  /\ Len(batch) \in Nat /\ Len(batch') = Len(batch) + 1 /\ batch'[Len(batch) + 1] = m
         /\ \A k \in 1..Len(batch) : batch'[k] = batch[k]
         /\ HasCut(batch') => HasCut(batch) \/ m.op \in {"delete", "flush"}
         /\ ~HasCut(batch') => ~HasCut(batch) /\ m.op \in {"add", "insert", "replace"}
         /\ pc = "eval" /\ pc' = pc /\ cflags' = cflags /\ kchain' = kchain /\ khandle' = khandle
         /\ kgen' = kgen /\ cgen' = cgen /\ script' = script /\ input # <<>> /\ Head(input) \in Command
         /\ m.op = Head(input).op /\ m.by = Head(input).by
         /\ last \in Nat /\ last' \in Nat /\ last <= last'
         /\ m.op \in {"add", "insert", "replace"} => last' = last + 1 /\ m.id = last + 1
         /\ m.op \in {"add", "insert", "replace", "delete", "flush"}
<1>1. batch \in Seq(Message) /\ batch' = Append(batch, m) /\ input # <<>>
  BY DEF TypeInv, Evaluates, Sends
<1>2. /\ Len(batch) \in Nat /\ Len(batch') = Len(batch) + 1 /\ batch'[Len(batch) + 1] = m
      /\ \A k \in 1..Len(batch) : batch'[k] = batch[k]
  BY <1>1
<1>3. m.op \in {"add", "insert", "replace", "delete", "flush"}
  BY DEF Message
<1>4. HasCut(batch') => HasCut(batch) \/ m.op \in {"delete", "flush"}
  BY <1>2 DEF HasCut
<1>5. ~HasCut(batch') => ~HasCut(batch) /\ m.op \in {"add", "insert", "replace"}
  BY <1>2, <1>3 DEF HasCut
<1>6. Head(input) \in Command
  BY <1>1, InputFacts
<1>7. last \in Nat /\ last' \in Nat /\ last <= last'
  BY <1>3, RuleIndexAssumption DEF TypeInv, Evaluates, Sends
<1> QED BY <1>1, <1>2, <1>3, <1>4, <1>5, <1>6, <1>7 DEF Evaluates, Sends, kernel

\* The IDs.
LEMMA EvalIds ==
  ASSUME TypeInv, NEW m \in Message, Evaluates(m), IdsOK
  PROVE  IdsOK'
<1>1. Unshared(ruleId')
  BY DEF IdsOK, Evaluates, Numbers
<1>2. ASSUME NEW k \in 1..Len(batch') PROVE batch'[k].posId <= refId'
  <2>1. /\ refId \in Nat /\ refId' \in Nat /\ refId <= refId' /\ m.posId <= refId'
        /\ batch \in Seq(Message)
    BY DEF TypeInv, Evaluates, Numbers
  <2>2. CASE k = Len(batch) + 1
    BY <2>1, <2>2, BatchFacts
  <2>3. CASE k \in 1..Len(batch)
    <3>1. batch[k] \in Message /\ batch[k].posId <= refId
      BY <2>1, <2>3 DEF IdsOK
    <3>2. batch[k].posId \in Nat
      BY <3>1 DEF Message
    <3> QED BY <2>1, <2>3, <3>1, <3>2, BatchFacts
  <2> QED BY <2>2, <2>3, BatchFacts
<1> QED BY <1>1, <1>2 DEF IdsOK

\* The commands that are left.
LEMMA EvalInput ==
  ASSUME TypeInv, NEW m \in Message, Evaluates(m), InputOK
  PROVE  InputOK'
<1> DEFINE rest == Tail(input)
<1>1. /\ input' = rest /\ pc = "eval" /\ input # <<>>
      /\ HasIndex(input) => "update" \in cflags /\ ~HasCut(batch)
      /\ \A i, j \in 1..Len(input) :
           i < j /\ input[i].op \in {"delete", "flush"} => input[j].by # "index"
      /\ ~script => ~HasCut(input) /\ ~HasCut(batch)
  BY DEF InputOK, Evaluates, Sends
<1>2. /\ Len(input) \in Nat \ {0} /\ Head(input) = input[1] /\ Len(rest) = Len(input) - 1
      /\ \A i \in 1..Len(rest) : i + 1 \in 1..Len(input) /\ rest[i] = input[i + 1]
  BY <1>1, InputFacts
<1> HIDE DEF rest
<1>3. ASSUME HasIndex(rest) PROVE "update" \in cflags /\ ~HasCut(batch')
  <2>1. PICK i \in 1..Len(rest) : rest[i].by = "index"
    BY <1>3 DEF HasIndex
  <2>2. i + 1 \in 1..Len(input) /\ input[i + 1].by = "index" /\ 1 \in 1..Len(input) /\ 1 < i + 1
    BY <1>2, <2>1
  <2>3. HasIndex(input)
    BY <2>2 DEF HasIndex
  <2>4. m.op \notin {"delete", "flush"}
    BY <1>1, <1>2, <2>2, BatchFacts
  <2> QED BY <1>1, <2>3, <2>4, BatchFacts
<1>4. ASSUME NEW i \in 1..Len(rest), NEW j \in 1..Len(rest), i < j, rest[i].op \in {"delete", "flush"}
      PROVE  rest[j].by # "index"
  <2>1. i + 1 \in 1..Len(input) /\ j + 1 \in 1..Len(input) /\ i + 1 < j + 1
    BY <1>2, <1>4
  <2>2. input[i + 1].op \in {"delete", "flush"}
    BY <1>2, <1>4
  <2>3. input[j + 1].by # "index"
    BY <1>1, <2>1, <2>2
  <2> QED BY <1>2, <2>3
<1>5. ASSUME ~script PROVE ~HasCut(rest) /\ ~HasCut(batch')
  <2>1. \A i \in 1..Len(input) : input[i].op \notin {"delete", "flush"}
    BY <1>1, <1>5 DEF HasCut
  <2>2. m.op \notin {"delete", "flush"}
    <3>1. 1 \in 1..Len(input)
      BY <1>2
    <3> QED BY <1>2, <2>1, <3>1, BatchFacts
  <2>3. ~HasCut(rest)
    BY <1>2, <2>1 DEF HasCut
  <2> QED BY <1>1, <1>5, <2>2, <2>3, BatchFacts
<1>6. cflags' = cflags /\ script' = script /\ input' = rest
  BY <1>1, BatchFacts
<1> QED BY <1>3, <1>4, <1>5, <1>6 DEF InputOK

\* The described chain.
LEMMA EvalWant ==
  ASSUME TypeInv, NEW m \in Message, Evaluates(m), WantOK
  PROVE  WantOK'
<1> DEFINE cmd == Head(input)
           k == Meant(cmd, want)
           h == khandle + Len(batch)
           new == [id |-> m.id, handle |-> khandle + Len(batch) + 1]
           swap == [id |-> m.id, handle |-> m.pos]
<1>1. Chained(want, h) /\ \A i \in 1..Len(want) : want[i].id <= last
  BY BatchFacts DEF WantOK
<1>2. /\ h \in Nat /\ khandle \in Nat /\ Len(batch) \in Nat /\ khandle' + Len(batch') = h + 1 /\ h <= h + 1 /\ h + 1 \in Nat
      /\ last \in Nat /\ last' \in Nat /\ last <= last' /\ MaxRule \in Nat
  <2>1. khandle \in Nat
    BY DEF TypeInv
  <2>2. /\ Len(batch) \in Nat /\ Len(batch') = Len(batch) + 1 /\ khandle' = khandle
        /\ last \in Nat /\ last' \in Nat /\ last <= last'
    BY BatchFacts
  <2> QED BY <2>1, <2>2, RuleIndexAssumption
<1>3. want \in Seq(Rule) /\ \A i \in 1..Len(want) : want[i].id \in Nat /\ want[i].id <= last'
  <2>1. want \in Seq(Rule)
    BY DEF TypeInv
  <2>2. \A i \in 1..Len(want) : want[i].id \in Nat
    BY <2>1, RuleTypes, <1>2
  <2> QED BY <1>1, <1>2, <2>1, <2>2
<1>4. /\ cmd \in Command /\ m.op = cmd.op /\ m.by = cmd.by /\ m.op \in {"add", "insert", "replace", "delete", "flush"}
      /\ m.op \in {"add", "insert", "replace"} => m.id = last + 1 /\ last' = last + 1
  BY BatchFacts
<1>5. m.op \in {"add", "insert", "replace"} =>
        new \in Rule /\ swap \in Rule /\ \A i \in 1..Len(want) : want[i].id # m.id
  BY <1>1, <1>2, <1>3, <1>4, SMTT(30) DEF Message, Rule
<1>6. Describes(m)
  BY DEF Evaluates
<1> SUFFICES Chained(want', h + 1) /\ \A i \in 1..Len(want') : want'[i].id <= last'
  BY <1>2 DEF WantOK
<1>7. CASE m.by # "none" /\ k = 0
  <2>1. want' = want
    BY <1>6, <1>7 DEF Describes
  <2> QED BY <1>1, <1>2, <1>3, <2>1, ChainedUp
<1>8. ASSUME ~(m.by # "none" /\ k = 0)
      PROVE  /\ m.op \in {"add", "insert"} => IsPut(want', want, Where(m.op, Len(want), k), new)
             /\ m.op = "replace" => IsSwap(want', want, k, swap)
             /\ m.op = "delete" => IsCut(want', want, k)
             /\ m.op = "flush" => want' = <<>>
  BY <1>6, <1>8 DEF Describes
<1>9. new.handle = h + 1 /\ new.id = m.id /\ swap.handle = m.pos /\ swap.id = m.id
  OBVIOUS
<1>10. cmd.by = "handle" => k = HandleAt(want, cmd.at) /\ m.pos = cmd.at
  BY <1>4, MeantFacts DEF Evaluates, Sends
<1>11. /\ \A i \in 1..Len(want') : want'[i].id = m.id \/ \E j \in 1..Len(want) : want'[i] = want[j]
       /\ m.op \in {"add", "insert", "replace"}
       => \A i \in 1..Len(want') : want'[i].id <= last'
  BY <1>2, <1>3, <1>4
<1> HIDE DEF new, swap, k, h
<1>12. CASE ~(m.by # "none" /\ k = 0) /\ m.op \in {"add", "insert"}
  <2> DEFINE w == Where(m.op, Len(want), k)
  <2>1. IsPut(want', want, w, new)
    BY <1>8, <1>12
  <2> HIDE DEF w
  <2>2. Chained(want', h + 1)
    BY <1>1, <1>5, <1>9, <1>12, <2>1, PutChained
  <2>3. \A i \in 1..Len(want') : want'[i].id = m.id \/ \E j \in 1..Len(want) : want'[i] = want[j]
    BY <1>3, <1>9, <2>1 DEF IsPut
  <2> QED BY <1>11, <1>12, <2>2, <2>3
<1>13. CASE ~(m.by # "none" /\ k = 0) /\ m.op = "replace"
  <2>1. IsSwap(want', want, k, swap)
    BY <1>8, <1>13
  <2>2. want[k].handle = swap.handle
    <3>1. cmd.by = "handle" /\ k # 0
      BY <1>4, <1>13, CommandFacts
    <3> QED BY <1>3, <1>9, <1>10, <3>1, HandleFacts
  <2>3. Chained(want', h + 1)
    BY <1>1, <1>5, <1>9, <1>13, <2>1, <2>2, SwapChained
  <2>4. \A i \in 1..Len(want') : want'[i].id = m.id \/ \E j \in 1..Len(want) : want'[i] = want[j]
    BY <1>3, <1>9, <2>1 DEF IsSwap
  <2> QED BY <1>11, <1>13, <2>3, <2>4
<1>14. CASE ~(m.by # "none" /\ k = 0) /\ m.op = "delete"
  <2>1. IsCut(want', want, k)
    BY <1>8, <1>14
  <2>2. Chained(want', h + 1)
    BY <1>1, <2>1, CutChained
  <2>3. \A i \in 1..Len(want') : \E j \in 1..Len(want) : want'[i] = want[j]
    <3> TAKE i \in 1..Len(want')
    <3>1. Len(want') \in Nat /\ Len(want) = Len(want') + 1 /\ want'[i] = IF i < k THEN want[i] ELSE want[i + 1]
      BY <2>1 DEF IsCut
    <3>2. i \in 1..Len(want) /\ i + 1 \in 1..Len(want)
      BY <3>1
    <3> QED BY <3>1, <3>2
  <2> QED BY <1>3, <2>2, <2>3
<1>15. CASE ~(m.by # "none" /\ k = 0) /\ m.op = "flush"
  <2>1. want' = <<>>
    BY <1>8, <1>15
  <2> QED BY <1>2, <2>1 DEF Chained, Distinct
<1> QED BY <1>4, <1>7, <1>12, <1>13, <1>14, <1>15

\* The handles in the cached chain are still the kernel's.
LEMMA EvalCached ==
  ASSUME TypeInv, NEW m \in Message, Evaluates(m), CachedOK
  PROVE  CachedOK'
<1> SUFFICES ASSUME "update" \in cflags PROVE \A i \in 1..Len(rules') : rules'[i].handle <= khandle
  BY BatchFacts DEF CachedOK
<1>1. /\ rules \in Seq(Rule) /\ Len(rules) \in Nat /\ khandle \in Nat
      /\ \A i \in 1..Len(rules) : rules[i].handle <= khandle
  BY DEF CachedOK, TypeInv, TypeOK
<1>2. Tracks(m)
  BY DEF Evaluates
<1>3. CASE m.op \in {"delete", "flush"}
  BY <1>1, <1>2, <1>3 DEF Tracks
<1>4. CASE m.op \in {"add", "insert"}
  <2>1. PICK ref : IsPut(rules', rules, Where(m.op, Len(rules), ref), [id |-> m.id, handle |-> 0])
    BY <1>2, <1>4 DEF Tracks
  <2>2. \A i \in 1..Len(rules') : rules'[i].handle = 0 \/ \E j \in 1..Len(rules) : rules'[i] = rules[j]
    BY <1>1, <2>1 DEF IsPut
  <2> QED BY <1>1, <2>2
<1>5. CASE m.op = "replace"
  <2>1. PICK ref \in 1..Len(rules) : ref = RefOf(Head(input)) /\ IsSwap(rules', rules, ref, [id |-> m.id, handle |-> m.pos])
    BY <1>2, <1>5 DEF Tracks
  <2>2. Head(input).by = "handle" /\ m.pos = Head(input).at
    BY <1>5, BatchFacts, CommandFacts DEF Evaluates, Sends
  <2>3. rules[ref].handle = m.pos
    BY <1>1, <2>1, <2>2, BatchFacts, MeantFacts, HandleFacts
  <2>4. \A i \in 1..Len(rules') : rules'[i].handle = m.pos \/ \E j \in 1..Len(rules) : rules'[i] = rules[j]
    BY <1>1, <2>1 DEF IsSwap
  <2> QED BY <1>1, <2>1, <2>3, <2>4
<1> QED BY <1>3, <1>4, <1>5, BatchFacts

\* The cached chain stays the described one.
LEMMA EvalMirrored ==
  ASSUME TypeInv, NEW m \in Message, Evaluates(m), WantOK, Mirrored
  PROVE  Mirrored'
<1> SUFFICES ASSUME "update" \in cflags, ~HasCut(batch') PROVE Mirrors(rules', want')
  BY BatchFacts DEF Mirrored
<1> DEFINE cmd == Head(input)
           k == Meant(cmd, want)
           old == [id |-> m.id, handle |-> 0]
           new == [id |-> m.id, handle |-> khandle + Len(batch) + 1]
           swap == [id |-> m.id, handle |-> m.pos]
<1>1. /\ m.op \in {"add", "insert", "replace"} /\ cmd \in Command /\ m.op = cmd.op /\ m.by = cmd.by
      /\ Mirrors(rules, want) /\ Distinct(want) /\ Tracks(m) /\ Describes(m)
  BY BatchFacts DEF Mirrored, WantOK, Chained, Evaluates
<1>2. rules \in Seq(Rule) /\ want \in Seq(Rule) /\ Len(rules) = Len(want)
  BY <1>1 DEF TypeInv, TypeOK, Mirrors
<1>3. old.id = new.id /\ old.handle = 0
  OBVIOUS
<1>4. cmd.by # "none" /\ RefOf(cmd) # 0 => k = RefOf(cmd)
  BY <1>1, SamePlace
<1>5. cmd.by = "none" => k = 0
  BY <1>1, MeantFacts
<1>6. CASE m.op \in {"add", "insert"}
  <2>1. PICK ref \in 0..Len(rules) :
          /\ m.by = "none" => ref = 0
          /\ m.by # "none" => ref # 0 /\ ref = RefOf(cmd)
          /\ IsPut(rules', rules, Where(m.op, Len(rules), ref), old)
    BY <1>1, <1>6 DEF Tracks
  <2>2. k = ref /\ ~(m.by # "none" /\ k = 0)
    BY <1>1, <1>4, <1>5, <2>1
  <2>3. IsPut(want', want, Where(m.op, Len(want), k), new)
    BY <1>1, <1>6, <2>2 DEF Describes
  <2> HIDE DEF old, new, k
  <2> DEFINE w == Where(m.op, Len(rules), ref)
  <2>4. IsPut(rules', rules, w, old) /\ IsPut(want', want, w, new)
    BY <1>2, <2>1, <2>2, <2>3
  <2> HIDE DEF w
  <2> QED BY <1>1, <1>2, <1>3, <2>4, PutMirrors
<1>7. CASE m.op = "replace"
  <2>1. PICK ref \in 1..Len(rules) : ref = RefOf(cmd) /\ IsSwap(rules', rules, ref, swap)
    BY <1>1, <1>7 DEF Tracks
  <2>2. cmd.by = "handle" /\ ref # 0
    BY <1>1, <1>2, <1>7, CommandFacts
  <2>3. k = ref /\ ~(m.by # "none" /\ k = 0)
    BY <1>1, <1>4, <2>1, <2>2
  <2>4. IsSwap(want', want, k, swap)
    BY <1>1, <1>7, <2>3 DEF Describes
  <2> HIDE DEF swap, k
  <2> QED BY <1>1, <1>2, <2>1, <2>3, <2>4, SwapMirrors
<1> QED BY <1>1, <1>6, <1>7

\* What the kernel has made of the messages so far does not depend on the IDs
\* that the command gives.
LEMMA RunUnchanged ==
  ASSUME TypeInv, NEW m \in Message, Evaluates(m), IdsOK, NEW K \in Seq(Rule), NEW kh \in Nat
  PROVE  /\ Run(ruleId', K, kh, batch) = Run(ruleId, K, kh, batch)
         /\ Run(ruleId, K, kh, batch) \in KState
         /\ Run(ruleId', K, kh, batch') = Apply(ruleId', Run(ruleId, K, kh, batch), m)
<1>1. batch \in Seq(Message) /\ refId \in Nat /\ SameIds(ruleId, ruleId', refId) /\ batch' = Append(batch, m)
  BY DEF TypeInv, Evaluates, Numbers, Sends
<1>2. \A k \in 1..Len(batch) : batch[k].posId <= refId
  BY DEF IdsOK
<1>3. Run(ruleId', K, kh, batch) = Run(ruleId, K, kh, batch)
  BY <1>1, <1>2, RunSameIds
<1> QED BY <1>1, <1>3, RunFacts

\* Agreement on a chain, when the kernel accepts the message.
LEMMA AgreeAppend ==
  ASSUME TypeInv, NEW m \in Message, Evaluates(m), "update" \in cflags, m.op \in {"add", "insert", "replace"},
         CachedOK, NEW ids, NEW s \in KState, Chained(s.chain, s.handle), khandle <= s.handle,
         Agree(s.chain, rules), Mirrors(rules, want), Distinct(want), Apply(ids, s, m).ok
  PROVE  Agree(Apply(ids, s, m).chain, rules')
<1> DEFINE u == Apply(ids, s, m)
           ref == Resolve(ids, s.chain, s.sent, m)
           c == s.chain
           d == u.chain
           cmd == Head(input)
           new == NewOf(m, s.handle)
           old == [id |-> m.id, handle |-> 0]
           swap == [id |-> m.id, handle |-> m.pos]
<1>1. /\ rules \in Seq(Rule) /\ Len(rules) \in Nat /\ khandle \in Nat
      /\ \A i \in 1..Len(rules) : rules[i].handle <= khandle /\ rules[i].handle \in Nat
  <2>1. rules \in Seq(Rule) /\ khandle \in Nat
    BY DEF TypeInv, TypeOK
  <2> QED BY <2>1, RuleTypes DEF CachedOK
<1>2. c \in Seq(Rule) /\ s.handle \in Nat /\ Len(c) \in Nat /\ Distinct(c)
  BY DEF KState, Chained
<1>3. ref # 0 \/ (m.pos = 0 /\ m.posId = 0)
  BY AppliedFacts, Zenon
<1>4. d = Place(m.op, c, ref, new)
  BY AppliedFacts, Zenon
<1>5. ref \in 0..Len(c) /\ (m.pos # 0 => ref = HandleAt(c, m.pos))
  BY ResolveFacts
<1>6. m.id \in 1..MaxRule /\ m.pos \in Nat /\ (m.op = "replace" => m.pos # 0)
  BY RuleIndexAssumption DEF Message
<1>7. new \in Rule /\ old \in Rule /\ old.handle = 0 /\ swap.handle = m.pos
  BY <1>2, <1>6 DEF NewOf, Rule
<1>8. Tracks(m)
  BY DEF Evaluates
<1>9. CASE m.op \in {"add", "insert"}
  <2>1. PICK r : IsPut(rules', rules, Where(m.op, Len(rules), r), old)
    BY <1>8, <1>9 DEF Tracks
  <2> DEFINE w == Where(m.op, Len(rules), r)
             x == Where(m.op, Len(c), ref)
  <2>2. new.handle = s.handle + 1
    BY <1>9 DEF NewOf
  <2> HIDE DEF u, ref, d, c, new, old
  <2>3. IsPut(d, c, x, new)
    BY <1>2, <1>4, <1>5, <1>7, <1>9, PlaceFacts
  <2>4. IsPut(rules', rules, w, old)
    BY <2>1
  <2> HIDE DEF w, x
  <2>5. \A j \in 1..Len(rules) : rules[j].handle < new.handle
    BY <1>1, <1>2, <2>2
  <2>6. Agree(c, rules)
    BY DEF c
  <2>7. Agree(d, rules')
    BY <1>1, <1>2, <1>7, <2>3, <2>4, <2>5, <2>6, PutAgree
  <2> QED BY <2>7 DEF d, u
<1>10. CASE m.op = "replace"
  <2>1. PICK r \in 1..Len(rules) : r = RefOf(cmd) /\ IsSwap(rules', rules, r, swap)
    BY <1>8, <1>10 DEF Tracks
  <2>2. new = swap
    BY <1>10 DEF NewOf
  <2>3. cmd \in Command /\ cmd.by = "handle" /\ m.pos = cmd.at
    BY <1>10, BatchFacts, CommandFacts DEF Evaluates, Sends
  <2>4. rules[r].handle = m.pos
    BY <1>1, <2>1, <2>3, MeantFacts, HandleFacts
  <2>5. ref # 0 /\ c[ref].handle = m.pos
    BY <1>2, <1>3, <1>5, <1>6, <1>10, HandleFacts
  <2> HIDE DEF u, ref, d, c, new, swap
  <2>6. IsSwap(d, c, ref, swap)
    BY <1>2, <1>4, <1>5, <1>7, <1>10, <2>2, <2>5, PlaceFacts
  <2>7. \A i, j \in 1..Len(rules) : i # j /\ rules[i].handle # 0 => rules[i].handle # rules[j].handle
    <3>1. \A i \in 1..Len(rules) : rules[i].handle = 0 \/ rules[i].handle = want[i].handle
      BY DEF Mirrors
    <3>2. \A i, j \in 1..Len(rules) : i # j => want[i].handle # want[j].handle
      BY DEF Mirrors, Distinct
    <3> QED BY <3>1, <3>2
  <2>8. Agree(c, rules)
    BY DEF c
  <2>9. swap.handle # 0 /\ c[ref].handle = swap.handle /\ rules[r].handle = swap.handle
    BY <1>6, <1>7, <1>10, <2>4, <2>5
  <2>10. IsSwap(rules', rules, r, swap)
    BY <2>1
  <2>11. Agree(d, rules')
    BY <1>1, <1>2, <2>6, <2>7, <2>8, <2>9, <2>10, SwapAgree
  <2> QED BY <2>11 DEF d, u
<1> QED BY <1>9, <1>10

\* On a later chain, an accepted message keeps what was meant.
LEMMA EvalRuns ==
  ASSUME TypeInv, NEW m \in Message, Evaluates(m), CachedOK, IdsOK, InputOK, KernelOK, WantOK, Mirrored, Runs
  PROVE  Runs'
<1> SUFFICES ASSUME NEW K, NEW kh, Later(kchain, khandle, last', K, kh)
             PROVE  /\ Sound(ruleId', K, kh, batch', last')
                    /\ "update" \in cflags /\ ~HasCut(batch') => Agreeing(ruleId', K, kh, batch', rules')
  BY BatchFacts DEF Runs
<1> DEFINE s == Run(ruleId, K, kh, batch)
<1>1. /\ Chained(K, kh) /\ khandle <= kh /\ K \in Seq(Rule) /\ kh \in Nat
      /\ last \in Nat /\ last' \in Nat /\ last <= last' /\ khandle \in Nat /\ Len(batch) \in Nat
  BY BatchFacts DEF Later, Chained, TypeInv
<1>2. \A i \in 1..Len(K) : K[i].id \in Nat /\ ((\E j \in 1..Len(kchain) : K[i] = kchain[j]) \/ (K[i].handle > khandle /\ K[i].id > last'))
  <2>1. \A i \in 1..Len(K) : K[i].id \in 1..MaxRule
    BY <1>1, RuleTypes
  <2> QED BY <2>1, RuleIndexAssumption DEF Later
<1>3. Later(kchain, khandle, last, K, kh)
  BY <1>1, <1>2 DEF Later
<1>4. /\ Sound(ruleId, K, kh, batch, last)
      /\ "update" \in cflags /\ ~HasCut(batch) => Agreeing(ruleId, K, kh, batch, rules)
  BY <1>3, BatchFacts DEF Runs
<1>5. /\ Run(ruleId', K, kh, batch) = s /\ s \in KState
      /\ Run(ruleId', K, kh, batch') = Apply(ruleId', s, m)
  BY <1>1, RunUnchanged
<1>6. Sound(ruleId', K, kh, batch, last)
  BY <1>4, <1>5, Zenon DEF Sound
<1>7. m.op \in {"add", "insert", "replace"} =>
        m.id = last + 1 /\ last' = last + 1 /\ \A j \in 1..Len(K) : K[j].id # last + 1
  <2>1. \A i \in 1..Len(kchain) : kchain[i].id <= last
    BY DEF KernelOK
  <2>2. m.op \in {"add", "insert", "replace"} => m.id = last + 1 /\ last' = last + 1
    BY BatchFacts, Zenon
  <2> QED BY <1>1, <1>2, <2>1, <2>2, SMTT(30)
<1>8. batch \in Seq(Message) /\ batch' = Append(batch, m)
  BY DEF TypeInv, Evaluates, Sends
<1>9. Unshared(ruleId')
  BY DEF IdsOK, Evaluates, Numbers
<1>10. "update" \in cflags /\ ~HasCut(batch) => Mirrors(rules, want) /\ Distinct(want)
  BY BatchFacts DEF Mirrored, WantOK, Chained
<1>11. ASSUME m.by = "index", s.ok PROVE Names(ruleId', s, m)
  <2>1. HasIndex(input)
    <3>1. 1 \in 1..Len(input) /\ input[1].by = "index"
      BY <1>11, BatchFacts, InputFacts
    <3> QED BY <3>1 DEF HasIndex
  <2>2. "update" \in cflags /\ ~HasCut(batch)
    BY <2>1, BatchFacts DEF InputOK
  <2>3. Agree(s.chain, rules)
    BY <1>4, <1>11, <2>2 DEF Agreeing
  <2> HIDE DEF s
  <2> QED BY <1>5, <1>9, <1>10, <1>11, <2>2, <2>3, NamesFacts
<1> HIDE DEF s
<1>12. m.by = "index" /\ Run(ruleId', K, kh, batch).ok => Names(ruleId', Run(ruleId', K, kh, batch), m)
  BY <1>5, <1>11
<1>13. Sound(ruleId', K, kh, Append(batch, m), last')
  BY <1>1, <1>6, <1>7, <1>8, <1>12, SoundAppend
<1>14. ASSUME "update" \in cflags, ~HasCut(batch'), Run(ruleId', K, kh, batch').ok
       PROVE  Agree(Run(ruleId', K, kh, batch').chain, rules')
  <2>1. ~HasCut(batch) /\ m.op \in {"add", "insert", "replace"}
    BY <1>14, BatchFacts
  <2>2. Apply(ruleId', s, m).ok
    BY <1>5, <1>14
  <2>3. s.ok
    BY <1>5, <2>2, AppliedFacts, Zenon
  <2>4. Agree(s.chain, rules)
    BY <1>4, <1>14, <2>1, <2>3 DEF Agreeing, s
  <2>5. Chained(s.chain, s.handle) /\ s.handle = kh + Len(batch)
    BY <1>4, <2>3 DEF Sound, s
  <2>6. khandle <= s.handle
    BY <1>1, <2>5
  <2>7. Agree(Apply(ruleId', s, m).chain, rules')
    BY <1>5, <1>10, <1>14, <2>1, <2>2, <2>4, <2>5, <2>6, AgreeAppend
  <2> QED BY <1>5, <2>7
<1> QED BY <1>8, <1>13, <1>14 DEF Agreeing

\* A chain is what its rules are.
LEMMA SameChain ==
  ASSUME NEW p \in Seq(Rule), NEW q \in Seq(Rule), Len(p) = Len(q), \A i \in 1..Len(p) : p[i] = q[i]
  PROVE  p = q
OBVIOUS

\* The kernel's chain is a later one of itself.
LEMMA LaterSame ==
  ASSUME KernelOK
  PROVE  Later(kchain, khandle, last, kchain, khandle)
<1>1. khandle \in Nat
  BY DEF KernelOK, Chained
<1> QED BY <1>1 DEF KernelOK, Later

\* On the chain that the cache was made of, the kernel does what is described.
LEMMA EvalExact ==
  ASSUME TypeInv, NEW m \in Message, Evaluates(m), IdsOK, InputOK, KernelOK, WantOK, Mirrored, Runs, Exact
  PROVE  Exact'
<1> DEFINE s == Run(ruleId, kchain, khandle, batch)
           u == Apply(ruleId', s, m)
           cmd == Head(input)
           k == Meant(cmd, want)
           ref == Resolve(ruleId', s.chain, s.sent, m)
           new == NewOf(m, s.handle)
<1>1. kchain \in Seq(Rule) /\ khandle \in Nat
  BY DEF TypeInv, TypeOK
<1>2. Run(ruleId', kchain, khandle, batch') = u /\ s \in KState
  BY <1>1, RunUnchanged
<1> SUFFICES ASSUME kgen = cgen, u.ok PROVE u.chain = want'
  BY <1>2, BatchFacts DEF Exact
<1>3. /\ s.ok
      /\ ref # 0 \/ (m.pos = 0 /\ m.posId = 0)
      /\ m.op = "delete" => u.chain = RemoveAt(s.chain, ref)
      /\ m.op = "flush" => u.chain = <<>>
      /\ m.op \in {"add", "insert", "replace"} => u.chain = Place(m.op, s.chain, ref, new)
  BY <1>2, AppliedFacts, Zenon
<1>4. s.chain = want
  BY <1>3, BatchFacts DEF Exact
<1>5. Sound(ruleId, kchain, khandle, batch, last)
      /\ ("update" \in cflags /\ ~HasCut(batch) => Agreeing(ruleId, kchain, khandle, batch, rules))
  BY LaterSame, BatchFacts DEF Runs
<1>6. s.handle = khandle + Len(batch)
  BY <1>3, <1>5 DEF Sound
<1>7. Distinct(want) /\ want \in Seq(Rule) /\ Len(want) \in Nat
  BY BatchFacts DEF WantOK, Chained
<1>8. /\ cmd \in Command /\ m.op = cmd.op /\ m.by = cmd.by /\ Describes(m) /\ Tracks(m) /\ Refers(m)
      /\ m.by = "none" => m.pos = 0 /\ m.posId = 0
      /\ m.by = "handle" => m.pos = cmd.at /\ m.pos # 0
      /\ m.op \in {"add", "insert", "replace", "delete", "flush"} /\ cmd.at \in Nat
      /\ m.by \in {"none", "index", "handle"}
      /\ m.op \in {"replace", "delete"} => m.by = "handle"
  BY BatchFacts, CommandFacts DEF Evaluates, Sends
<1>9. /\ ref \in 0..Len(want)
      /\ m.pos # 0 => ref = HandleAt(want, m.pos)
      /\ m.pos = 0 /\ m.posId = 0 => ref = 0
  BY <1>2, <1>4, ResolveFacts
<1>10. /\ m.by = "none" => k = 0
       /\ m.by = "index" => k = IF cmd.at < Len(want) THEN cmd.at + 1 ELSE 0
       /\ m.by = "handle" => k = HandleAt(want, cmd.at)
       /\ k \in 0..Len(want)
  BY <1>8, MeantFacts
<1>11. ASSUME m.by = "index" PROVE k = ref /\ ref # 0
  <2>1. HasIndex(input)
    <3>1. 1 \in 1..Len(input) /\ input[1].by = "index"
      BY <1>11, BatchFacts, InputFacts
    <3> QED BY <3>1 DEF HasIndex
  <2>2. "update" \in cflags /\ ~HasCut(batch)
    BY <2>1, BatchFacts DEF InputOK
  <2>3. Mirrors(rules, want) /\ Unshared(ruleId')
    BY <2>2, BatchFacts DEF Mirrored, IdsOK, Evaluates, Numbers
  <2>4. Agree(s.chain, rules)
    BY <1>3, <1>5, <2>2 DEF Agreeing
  <2> HIDE DEF s
  <2>5. Names(ruleId', s, m)
    BY <1>2, <1>11, <2>2, <2>3, <2>4, NamesFacts
  <2>6. cmd.at < Len(want) /\ m.asked = want[cmd.at + 1].id
    BY <1>8, <1>11, <2>2, <2>3 DEF Refers, Mirrors
  <2>7. ref # 0 /\ want[ref].id = m.asked
    BY <1>3, <1>4, <2>5 DEF Names
  <2>8. k = cmd.at + 1 /\ k \in 1..Len(want)
    BY <1>7, <1>8, <1>10, <1>11, <2>6
  <2> HIDE DEF ref, k
  <2>9. ref \in 1..Len(want)
    BY <1>7, <1>9, <2>7
  <2> QED BY <1>7, <2>6, <2>7, <2>8, <2>9 DEF Distinct
<1>12. k = ref /\ ~(m.by # "none" /\ k = 0)
  BY <1>3, <1>8, <1>9, <1>10, <1>11
<1>13. /\ m.op \in {"add", "insert"} =>
             IsPut(want', want, Where(m.op, Len(want), ref), [id |-> m.id, handle |-> khandle + Len(batch) + 1])
       /\ m.op = "replace" => IsSwap(want', want, ref, [id |-> m.id, handle |-> m.pos])
       /\ m.op = "delete" => IsCut(want', want, ref)
       /\ m.op = "flush" => want' = <<>>
  BY <1>8, <1>12 DEF Describes
<1>14. m.op \in {"add", "insert", "replace"} => new \in Rule
  BY <1>1, <1>6, BatchFacts, RuleIndexAssumption DEF Message, Rule, NewOf, KState
<1>15. /\ m.op \in {"add", "insert"} => new = [id |-> m.id, handle |-> khandle + Len(batch) + 1]
       /\ m.op = "replace" => new = [id |-> m.id, handle |-> m.pos]
  BY <1>6 DEF NewOf
<1> HIDE DEF s, u, k, ref, new
<1>16. CASE m.op \in {"add", "insert"}
  <2> DEFINE w == Where(m.op, Len(want), ref)
  <2>1. IsPut(want', want, w, new)
    BY <1>13, <1>15, <1>16
  <2>2. IsPut(u.chain, want, w, new)
    BY <1>3, <1>4, <1>7, <1>9, <1>14, <1>16, PlaceFacts
  <2> HIDE DEF w
  <2> QED BY <2>1, <2>2, SameChain DEF IsPut
<1>17. CASE m.op = "replace"
  <2>1. IsSwap(want', want, ref, new)
    BY <1>13, <1>15, <1>17
  <2>2. IsSwap(u.chain, want, ref, new)
    BY <1>3, <1>4, <1>7, <1>8, <1>9, <1>12, <1>14, <1>17, PlaceFacts
  <2> QED BY <2>1, <2>2, SameChain DEF IsSwap
<1>18. CASE m.op = "delete"
  <2>1. IsCut(want', want, ref)
    BY <1>13, <1>18
  <2>2. ref \in 1..Len(want)
    BY <1>7, <1>8, <1>9, <1>12, <1>18
  <2>3. IsCut(u.chain, want, ref)
    BY <1>3, <1>4, <1>7, <1>18, <2>2, CutFacts
  <2>4. /\ want' \in Seq(Rule) /\ u.chain \in Seq(Rule) /\ Len(want') \in Nat /\ Len(u.chain) \in Nat
        /\ Len(want) = Len(want') + 1 /\ Len(want) = Len(u.chain) + 1
    BY <2>1, <2>3 DEF IsCut
  <2>5. Len(want') = Len(u.chain)
    BY <2>4
  <2>6. \A i \in 1..Len(want') : want'[i] = u.chain[i]
    BY <2>1, <2>3, <2>5 DEF IsCut
  <2> QED BY <2>4, <2>5, <2>6, SameChain
<1>19. CASE m.op = "flush"
  BY <1>3, <1>13, <1>19
<1> QED BY <1>8, <1>16, <1>17, <1>18, <1>19

-----------------------------------------------------------------------------
(* The other steps. *)

\* A chain that is later than a later one.
LEMMA LaterInsert ==
  ASSUME NEW c \in Seq(Rule), NEW h \in Nat, NEW l \in Nat, NEW d, NEW new,
         IsPut(d, c, 1, new), new.handle = h + 1, new.id = l + 1, NEW K, NEW kh, Later(d, h + 1, l + 1, K, kh)
  PROVE  Later(c, h, l, K, kh)
<1>1. /\ Chained(K, kh) /\ h + 1 <= kh /\ kh \in Nat /\ K \in Seq(Rule)
      /\ \A i \in 1..Len(K) : (\E j \in 1..Len(d) : K[i] = d[j]) \/ (K[i].handle > h + 1 /\ K[i].id > l + 1)
  BY DEF Later, Chained
<1>2. \A j \in 1..Len(d) : d[j] = new \/ \E i \in 1..Len(c) : d[j] = c[i]
  <2> TAKE j \in 1..Len(d)
  <2>1. Len(c) \in Nat /\ Len(d) = Len(c) + 1 /\ d[j] = IF j < 1 THEN c[j] ELSE IF j = 1 THEN new ELSE c[j - 1]
    BY DEF IsPut
  <2>2. j > 1 => j - 1 \in 1..Len(c)
    BY <2>1
  <2> QED BY <2>1, <2>2
<1>3. new.handle > h /\ new.id > l
  OBVIOUS
<1>4. h <= kh
  BY <1>1
<1>5. \A i \in 1..Len(K) : (K[i].handle > h + 1 /\ K[i].id > l + 1) => K[i].handle > h /\ K[i].id > l
  <2>1. \A i \in 1..Len(K) : K[i].handle \in Nat /\ K[i].id \in 1..MaxRule
    BY <1>1, RuleTypes
  <2> QED BY <2>1, RuleIndexAssumption
<1> QED BY <1>1, <1>2, <1>3, <1>4, <1>5 DEF Later

\* The same of a rule taken out.
LEMMA LaterDelete ==
  ASSUME NEW c \in Seq(Rule), NEW h, NEW l, NEW d, NEW k, IsCut(d, c, k), NEW K, NEW kh, Later(d, h, l, K, kh)
  PROVE  Later(c, h, l, K, kh)
<1>1. \A j \in 1..Len(d) : \E i \in 1..Len(c) : d[j] = c[i]
  <2> TAKE j \in 1..Len(d)
  <2>1. Len(d) \in Nat /\ Len(c) = Len(d) + 1 /\ d[j] = IF j < k THEN c[j] ELSE c[j + 1]
    BY DEF IsCut
  <2>2. j \in 1..Len(c) /\ j + 1 \in 1..Len(c)
    BY <2>1
  <2> QED BY <2>1, <2>2
<1> QED BY <1>1 DEF Later

\* The cached chain agrees with every later chain when it is the kernel's.
LEMMA AgreeLater ==
  ASSUME NEW c, NEW h, Chained(c, h), NEW rs \in Seq(Rule), Mirrors(rs, c), NEW l, NEW K, NEW kh, Later(c, h, l, K, kh)
  PROVE  Agree(K, rs)
<1> SUFFICES ASSUME NEW i \in 1..Len(K), NEW j \in 1..Len(rs), rs[j].handle # 0, rs[j].handle = K[i].handle
             PROVE  rs[j].id = K[i].id
  BY DEF Agree
<1>1. /\ c \in Seq(Rule) /\ h \in Nat /\ Distinct(c) /\ j \in 1..Len(c) /\ rs[j].handle = c[j].handle /\ rs[j].id = c[j].id
      /\ c[j].handle <= h /\ K \in Seq(Rule)
  BY DEF Chained, Mirrors, Later
<1>2. K[i].handle \in Nat
  BY <1>1, RuleTypes
<1>3. PICK q \in 1..Len(c) : K[i] = c[q]
  <2>1. (\E q \in 1..Len(c) : K[i] = c[q]) \/ K[i].handle > h
    BY DEF Later
  <2>2. K[i].handle <= h
    BY <1>1
  <2> QED BY <1>1, <1>2, <2>1, <2>2
<1>4. q = j
  BY <1>1, <1>3 DEF Distinct
<1> QED BY <1>1, <1>3, <1>4

\* What is left of an input that has ended.
LEMMA IdleFacts ==
  ASSUME TypeInv, pc' = "idle", batch' = <<>>, UNCHANGED <<ruleId, refId>>, IdsOK
  PROVE  IdsOK' /\ InputOK' /\ WantOK' /\ Mirrored' /\ Runs' /\ Exact'
<1>1. IdsOK'
  BY DEF IdsOK
<1> QED BY <1>1 DEF InputOK, WantOK, Mirrored, Runs, Exact

\* nft_cache_update().
LEMMA UpdateStep ==
  ASSUME InputsFollowed, Inv, NEW in \in Input \cup Script, in \notin Script => in \in Input,
         UpdateCache(in), TypeInv'
  PROVE  Inv'
<1>1. /\ pc = "idle" /\ input' = in /\ script' = (in \in Script) /\ cgen' = kgen /\ want' = kchain /\ batch' = <<>>
      /\ pc' = "eval" /\ kchain' = kchain /\ kgen' = kgen /\ khandle' = khandle /\ last' = last
      /\ ruleId' = ruleId /\ refId' = refId
  BY DEF UpdateCache, kernel
<1>2. /\ TypeInv /\ KernelOK /\ CachedOK /\ IdsOK /\ IdleOK
      /\ kchain \in Seq(Rule) /\ Len(kchain) \in Nat /\ rules \in Seq(Rule) /\ khandle \in Nat /\ kgen \in Nat /\ cgen \in Nat
      /\ cgen <= kgen
      /\ Chained(kchain, khandle) /\ \A i \in 1..Len(kchain) : kchain[i].handle <= khandle /\ kchain[i].id <= last
  <2>1. /\ TypeInv /\ KernelOK /\ CachedOK /\ IdsOK /\ IdleOK
        /\ Chained(kchain, khandle) /\ \A i \in 1..Len(kchain) : kchain[i].id <= last
    BY Zenon DEF Inv, KernelOK
  <2>2. kchain \in Seq(Rule) /\ rules \in Seq(Rule) /\ khandle \in Nat /\ kgen \in Nat /\ cgen \in Nat /\ cgen <= kgen
    BY <2>1, SMTT(30) DEF TypeInv, TypeOK
  <2>3. \A i \in 1..Len(kchain) : kchain[i].handle <= khandle
    BY <2>1 DEF Chained
  <2> QED BY <2>1, <2>2, <2>3
<1>3. in \in Seq(Command)
  BY InputsAssumption
<1>4. \/ cgen # 0 /\ Reusable(Flags(in)) /\ rules' = rules /\ cflags' = cflags
      \/ rules' = (IF "rule" \in Flags(in) THEN kchain ELSE <<>>) /\ cflags' = Flags(in)
  BY DEF UpdateCache
<1>5. ASSUME "update" \in cflags' PROVE Mirrors(rules', kchain)
  <2>1. CASE cgen # 0 /\ Reusable(Flags(in)) /\ rules' = rules /\ cflags' = cflags
    <3>1. kgen = cgen + 1
      BY <1>1, <1>2, <2>1 DEF IdleOK, Reusable
    <3> QED BY <1>1, <1>2, <1>5, <2>1, <3>1 DEF IdleOK
  <2>2. CASE rules' = (IF "rule" \in Flags(in) THEN kchain ELSE <<>>) /\ cflags' = Flags(in)
    <3>1. rules' = kchain
      BY <1>3, <1>5, <2>2, FlagsFacts
    <3> QED BY <3>1 DEF Mirrors
  <2> QED BY <1>4, <2>1, <2>2
<1>6. KernelOK' /\ IdleOK'
  BY <1>1, <1>2 DEF KernelOK, IdleOK
<1>7. CachedOK'
  <2> SUFFICES ASSUME "update" \in cflags', NEW i \in 1..Len(rules') PROVE rules'[i].handle <= khandle
    BY <1>1 DEF CachedOK
  <2>1. i \in 1..Len(kchain) /\ (rules'[i].handle = 0 \/ rules'[i].handle = kchain[i].handle)
    BY <1>5 DEF Mirrors
  <2> QED BY <1>2, <2>1
<1>8. IdsOK'
  BY <1>1, <1>2 DEF IdsOK
<1>9. InputOK'
  <2>1. ~HasCut(batch')
    BY <1>1 DEF HasCut
  <2>2. HasIndex(in) => "update" \in cflags'
    BY <1>4 DEF InputsFollowed, Reusable
  <2>3. ~(in \in Script) => ~HasCut(in)
    BY DEF InputsFollowed
  <2>4. \A i, j \in 1..Len(in) : i < j /\ in[i].op \in {"delete", "flush"} => in[j].by # "index"
    BY DEF InputsFollowed
  <2> QED BY <1>1, <2>1, <2>2, <2>3, <2>4 DEF InputOK
<1>10. WantOK'
  <2>1. khandle + Len(batch') = khandle
    BY <1>1, <1>2
  <2> QED BY <1>1, <1>2, <2>1 DEF WantOK
<1>11. Mirrored'
  BY <1>1, <1>5 DEF Mirrored
<1>12. Runs'
  <2> SUFFICES ASSUME NEW K, NEW kh, Later(kchain, khandle, last, K, kh)
               PROVE  /\ Sound(ruleId, K, kh, <<>>, last)
                      /\ "update" \in cflags' => Agreeing(ruleId, K, kh, <<>>, rules')
    BY <1>1 DEF Runs
  <2>1. Chained(K, kh) /\ K \in Seq(Rule) /\ kh \in Nat
    BY DEF Later, Chained
  <2>2. Sound(ruleId, K, kh, <<>>, last)
    BY <2>1, SoundEmpty
  <2>3. Run(ruleId, K, kh, <<>>).chain = K
    <3>1. Run(ruleId, K, kh, <<>>) = Start(K, kh)
      BY <2>1, RunFacts
    <3> QED BY <3>1 DEF Start
  <2>4. rules' \in Seq(Rule)
    BY DEF TypeInv, TypeOK
  <2>5. "update" \in cflags' => Agree(K, rules')
    BY <1>2, <1>5, <2>4, AgreeLater
  <2> QED BY <2>2, <2>3, <2>5 DEF Agreeing
<1>13. Exact'
  <2>1. Run(ruleId, kchain, khandle, <<>>).chain = kchain
    <3>1. Run(ruleId, kchain, khandle, <<>>) = Start(kchain, khandle)
      BY <1>2, RunFacts
    <3> QED BY <3>1 DEF Start
  <2> QED BY <1>1, <2>1 DEF Exact
<1> QED BY <1>6, <1>7, <1>8, <1>9, <1>10, <1>11, <1>12, <1>13 DEF Inv

\* The transaction.
LEMMA CommitStep ==
  ASSUME Inv, Commit, TypeInv'
  PROVE  Inv'
<1> DEFINE t == Run(ruleId, kchain, khandle, batch)
<1>1. Transaction = t
  BY TransactionIs
<1> HIDE DEF t
<1>2. /\ pc = "send" /\ t.ok /\ kchain' = t.chain /\ khandle' = t.handle /\ kgen' = kgen + 1
      /\ pc' = "idle" /\ batch' = <<>> /\ last' = last /\ ruleId' = ruleId /\ refId' = refId
      /\ IF script THEN Release ELSE UNCHANGED <<rules, cflags, cgen>>
  BY <1>1 DEF Commit, NextGen, EndOfInput
<1>3. /\ TypeInv /\ KernelOK /\ CachedOK /\ IdsOK /\ InputOK /\ Mirrored /\ Exact /\ Runs
      /\ kchain \in Seq(Rule) /\ Len(kchain) \in Nat /\ rules \in Seq(Rule) /\ khandle \in Nat /\ kgen \in Nat /\ cgen \in Nat
      /\ cgen <= kgen /\ Len(batch) \in Nat
  <2>1. batch \in Seq(Message)
    BY DEF Inv, TypeInv
  <2>2. Len(batch) \in Nat
    BY <2>1
  <2>3. TypeInv /\ KernelOK /\ CachedOK /\ IdsOK /\ InputOK /\ Mirrored /\ Exact /\ Runs
    BY Zenon DEF Inv
  <2> QED BY <2>2, <2>3, SMTT(30) DEF TypeInv, TypeOK
<1>4. Sound(ruleId, kchain, khandle, batch, last)
  BY <1>2, <1>3, LaterSame DEF Runs
<1>5. Chained(t.chain, t.handle) /\ t.handle = khandle + Len(batch) /\ Known(t.chain, kchain, last)
  BY <1>2, <1>4 DEF Sound, t
<1>6. KernelOK'
  <2>1. \A i \in 1..Len(t.chain) : t.chain[i].id <= last
    BY <1>3, <1>5 DEF Known, KernelOK
  <2> QED BY <1>2, <1>5, <2>1 DEF KernelOK
<1>7. CachedOK' /\ IdleOK'
  <2>1. CASE script
    <3>1. rules' = <<>> /\ cflags' = {} /\ cgen' = 0
      BY <1>2, <2>1 DEF Release
    <3> QED BY <3>1 DEF CachedOK, IdleOK
  <2>2. CASE ~script
    <3>1. rules' = rules /\ cflags' = cflags /\ cgen' = cgen
      BY <1>2, <2>2
    <3>2. CachedOK'
      <4>1. khandle <= khandle' /\ khandle' \in Nat
        BY <1>2, <1>3, <1>5
      <4>2. \A i \in 1..Len(rules) : rules[i].handle \in Nat
        BY <1>3, RuleTypes
      <4> QED BY <1>3, <3>1, <4>1, <4>2 DEF CachedOK
    <3>3. cgen' < kgen'
      BY <1>2, <1>3, <3>1
    <3>4. ASSUME kgen' = cgen' + 1, "update" \in cflags' PROVE Mirrors(rules', kchain')
      <4>1. kgen = cgen
        BY <1>2, <1>3, <3>1, <3>4
      <4>2. t.chain = want
        BY <1>2, <1>3, <4>1 DEF Exact, t
      <4>3. Mirrors(rules, want)
        BY <1>2, <1>3, <2>2, <3>1, <3>4 DEF Mirrored, InputOK
      <4> QED BY <1>2, <3>1, <4>2, <4>3
    <3> QED BY <3>2, <3>3, <3>4 DEF IdleOK
  <2> QED BY <2>1, <2>2
<1>8. IdsOK' /\ InputOK' /\ WantOK' /\ Mirrored' /\ Runs' /\ Exact'
  BY <1>2, <1>3, IdleFacts
<1> QED BY <1>6, <1>7, <1>8 DEF Inv

\* More rules are known.
LEMMA SoundUp ==
  ASSUME NEW ids, NEW K, NEW kh, Chained(K, kh), NEW b \in Seq(Message), NEW l \in Nat, NEW n \in Nat, l <= n,
         Sound(ids, K, kh, b, l)
  PROVE  Sound(ids, K, kh, b, n)
<1> DEFINE t == Run(ids, K, kh, b)
<1>1. t \in KState
  BY RunFacts DEF Chained
<1>2. \A i \in 1..Len(t.chain) : t.chain[i].id \in Nat
  BY <1>1, RuleTypes, RuleIndexAssumption DEF KState
<1>3. Known(t.chain, K, l) => Known(t.chain, K, n)
  BY <1>2 DEF Known
<1> QED BY <1>3 DEF Sound

\* What another program does to the chain.
LEMMA ForeignStep ==
  ASSUME Inv, TypeInv', kgen < kgen', kgen' \in Nat,
         UNCHANGED <<pc, script, input, batch, cache, want>>,
         khandle <= khandle', last <= last', KernelOK',
         \A K, kh : Later(kchain', khandle', last', K, kh) => Later(kchain, khandle, last, K, kh)
  PROVE  Inv'
<1>1. /\ pc' = pc /\ script' = script /\ input' = input /\ batch' = batch /\ want' = want /\ rules' = rules
      /\ ruleId' = ruleId /\ refId' = refId /\ cflags' = cflags /\ cgen' = cgen
  BY DEF cache
<1>2. /\ TypeInv /\ KernelOK /\ CachedOK /\ IdsOK /\ IdleOK /\ InputOK /\ WantOK /\ Mirrored /\ Runs /\ Exact
      /\ rules \in Seq(Rule) /\ want \in Seq(Rule) /\ khandle \in Nat /\ kgen \in Nat /\ cgen \in Nat /\ cgen <= kgen
      /\ batch \in Seq(Message)
  BY DEF Inv, TypeInv, TypeOK
<1>3. Len(batch) \in Nat /\ last \in Nat /\ last' \in Nat /\ khandle' \in Nat
  BY <1>2, RuleIndexAssumption DEF TypeInv
<1>4. CachedOK'
  <2>1. \A i \in 1..Len(rules) : rules[i].handle \in Nat
    BY <1>2, RuleTypes
  <2> QED BY <1>1, <1>2, <1>3, <2>1 DEF CachedOK
<1>5. IdsOK' /\ InputOK' /\ Mirrored'
  BY <1>1, <1>2 DEF IdsOK, InputOK, Mirrored
<1>6. IdleOK'
  BY <1>1, <1>2 DEF IdleOK
<1>7. WantOK'
  <2> SUFFICES ASSUME pc # "idle" PROVE Chained(want, khandle' + Len(batch)) /\ \A i \in 1..Len(want) : want[i].id <= last'
    BY <1>1 DEF WantOK
  <2>1. Chained(want, khandle + Len(batch)) /\ \A i \in 1..Len(want) : want[i].id <= last
    BY <1>2 DEF WantOK
  <2>2. khandle + Len(batch) <= khandle' + Len(batch) /\ khandle' + Len(batch) \in Nat
    BY <1>2, <1>3
  <2>3. \A i \in 1..Len(want) : want[i].id \in 1..MaxRule
    BY <1>2, RuleTypes
  <2> QED BY <1>3, <2>1, <2>2, <2>3, ChainedUp, RuleIndexAssumption
<1>8. Runs'
  <2> SUFFICES ASSUME pc # "idle", NEW K, NEW kh, Later(kchain', khandle', last', K, kh)
               PROVE  /\ Sound(ruleId, K, kh, batch, last')
                      /\ "update" \in cflags /\ ~HasCut(batch) => Agreeing(ruleId, K, kh, batch, rules)
    BY <1>1 DEF Runs
  <2>1. Later(kchain, khandle, last, K, kh) /\ Chained(K, kh)
    BY DEF Later
  <2>2. /\ Sound(ruleId, K, kh, batch, last)
        /\ "update" \in cflags /\ ~HasCut(batch) => Agreeing(ruleId, K, kh, batch, rules)
    BY <1>2, <2>1 DEF Runs
  <2>3. Sound(ruleId, K, kh, batch, last')
    BY <1>2, <1>3, <2>1, <2>2, SoundUp
  <2> QED BY <2>2, <2>3
<1>9. Exact'
  BY <1>1, <1>2 DEF Exact
<1> QED BY <1>4, <1>5, <1>6, <1>7, <1>8, <1>9 DEF Inv

\* ForeignInsert.
LEMMA InsertStep ==
  ASSUME Inv, ForeignInsert, TypeInv'
  PROVE  Inv'
<1> DEFINE new == [id |-> last + 1, handle |-> khandle + 1]
<1>1. /\ last < MaxRule /\ last' = last + 1 /\ kchain' = <<new>> \o kchain /\ khandle' = khandle + 1 /\ kgen' = kgen + 1
      /\ UNCHANGED <<pc, script, input, batch, cache, want>>
  BY DEF ForeignInsert, NextGen
<1>2. /\ KernelOK /\ kchain \in Seq(Rule) /\ Len(kchain) \in Nat /\ khandle \in Nat /\ kgen \in Nat /\ last \in Nat /\ MaxRule \in Nat
  BY RuleIndexAssumption DEF Inv, TypeInv, TypeOK
<1>3. new \in Rule /\ new.handle = khandle + 1 /\ new.id = last + 1
  BY <1>1, <1>2 DEF Rule
<1> HIDE DEF new
<1>4. IsPut(kchain', kchain, 1, new)
  <2>1. Place("insert", kchain, 0, new) = <<new>> \o kchain /\ Where("insert", Len(kchain), 0) = 1
    BY DEF Place, Where
  <2>2. 0 \in 0..Len(kchain)
    BY <1>2
  <2>3. \A op \in {"add", "insert"} : IsPut(Place(op, kchain, 0, new), kchain, Where(op, Len(kchain), 0), new)
    BY <1>2, <1>3, <2>2, PlaceFacts, Zenon
  <2>4. IsPut(Place("insert", kchain, 0, new), kchain, Where("insert", Len(kchain), 0), new)
    BY <2>3
  <2> QED BY <1>1, <2>1, <2>4
<1>5. \A i \in 1..Len(kchain) : kchain[i].id \in Nat /\ kchain[i].id <= last /\ kchain[i].id # new.id
  <2>1. \A i \in 1..Len(kchain) : kchain[i].id \in 1..MaxRule
    BY <1>2, RuleTypes
  <2> QED BY <1>2, <1>3, <2>1 DEF KernelOK
<1>6. KernelOK'
  <2>1. Chained(kchain', khandle + 1)
    BY <1>2, <1>3, <1>4, <1>5, PutChained DEF KernelOK
  <2>2. \A i \in 1..Len(kchain') : kchain'[i] = new \/ \E j \in 1..Len(kchain) : kchain'[i] = kchain[j]
    BY <1>2, <1>4 DEF IsPut
  <2>3. \A i \in 1..Len(kchain') : kchain'[i].id <= last + 1
    BY <1>2, <1>3, <1>5, <2>2
  <2> QED BY <1>1, <2>1, <2>3 DEF KernelOK
<1>7. ASSUME NEW K, NEW kh, Later(kchain', khandle', last', K, kh) PROVE Later(kchain, khandle, last, K, kh)
  BY <1>1, <1>2, <1>3, <1>4, <1>7, LaterInsert
<1>8. kgen < kgen' /\ kgen' \in Nat /\ khandle <= khandle' /\ last <= last'
  BY <1>1, <1>2
<1> QED BY <1>1, <1>6, <1>7, <1>8, ForeignStep

\* ForeignDelete.
LEMMA DeleteStep ==
  ASSUME Inv, ForeignDelete, TypeInv'
  PROVE  Inv'
<1>1. PICK k \in DOMAIN kchain : kchain' = RemoveAt(kchain, k)
  BY DEF ForeignDelete
<1>2. /\ kgen' = kgen + 1 /\ khandle' = khandle /\ last' = last
      /\ UNCHANGED <<pc, script, input, batch, cache, want>>
  BY DEF ForeignDelete, NextGen
<1>3. /\ KernelOK /\ kchain \in Seq(Rule) /\ Len(kchain) \in Nat /\ khandle \in Nat /\ kgen \in Nat /\ last \in Nat
  BY RuleIndexAssumption DEF Inv, TypeInv, TypeOK
<1>4. IsCut(kchain', kchain, k)
  <2>1. k \in 1..Len(kchain)
    BY <1>3
  <2> QED BY <1>1, <1>3, <2>1, CutFacts
<1>5. KernelOK'
  <2>1. Chained(kchain', khandle)
    BY <1>3, <1>4, CutChained DEF KernelOK
  <2>2. \A i \in 1..Len(kchain') : \E j \in 1..Len(kchain) : kchain'[i] = kchain[j]
    <3> TAKE i \in 1..Len(kchain')
    <3>1. Len(kchain') \in Nat /\ Len(kchain) = Len(kchain') + 1 /\ kchain'[i] = IF i < k THEN kchain[i] ELSE kchain[i + 1]
      BY <1>4 DEF IsCut
    <3>2. i \in 1..Len(kchain) /\ i + 1 \in 1..Len(kchain)
      BY <3>1
    <3> QED BY <3>1, <3>2
  <2>3. \A i \in 1..Len(kchain') : kchain'[i].id <= last
    BY <1>3, <2>2 DEF KernelOK
  <2> QED BY <1>2, <2>1, <2>3 DEF KernelOK
<1>6. ASSUME NEW K, NEW kh, Later(kchain', khandle', last', K, kh) PROVE Later(kchain, khandle, last, K, kh)
  BY <1>2, <1>3, <1>4, <1>6, LaterDelete
<1>7. kgen < kgen' /\ kgen' \in Nat /\ khandle <= khandle' /\ last <= last'
  BY <1>2, <1>3
<1> QED BY <1>2, <1>5, <1>6, <1>7, ForeignStep

-----------------------------------------------------------------------------
(* The theorem. *)

\* The state at the start.
LEMMA InitInv == Init => Inv
<1> SUFFICES ASSUME Init PROVE Inv
  OBVIOUS
<1>1. TypeInv
  BY InitTypes
<1>2. Initial \in Nat
  BY RuleIndexAssumption
<1>3. kchain = [i \in 1..Initial |-> [id |-> i, handle |-> i]] /\ khandle = Initial /\ last = Initial
  BY DEF Init
<1>4. kchain \in Seq(Rule)
  BY <1>1 DEF TypeInv, TypeOK
<1>5. Len(kchain) = Initial /\ \A i \in 1..Len(kchain) : kchain[i].id = i /\ kchain[i].handle = i
  <2>1. kchain = [i \in 1..Initial |-> kchain[i]] /\ \A i \in 1..Initial : kchain[i] \in Rule
    <3>1. DOMAIN kchain = 1..Initial
      BY <1>3
    <3>2. \A i \in 1..Initial : kchain[i] \in Rule
      BY <1>2, <1>3, RuleIndexAssumption DEF Rule
    <3> QED BY <1>3, <3>1, <3>2
  <2>2. Len(kchain) = Initial
    BY <1>2, <2>1, SeqBuild
  <2> QED BY <1>3, <2>2
<1>6. KernelOK
  BY <1>2, <1>3, <1>4, <1>5 DEF KernelOK, Chained, Distinct
<1>7. CachedOK
  BY DEF Init, CachedOK
<1>8. IdsOK
  BY DEF Init, IdsOK, Unshared
<1>9. IdleOK
  BY DEF Init, IdleOK
<1>10. InputOK /\ WantOK /\ Mirrored /\ Runs /\ Exact
  BY DEF Init, InputOK, WantOK, Mirrored, Runs, Exact
<1> QED BY <1>1, <1>6, <1>7, <1>8, <1>9, <1>10 DEF Inv

\* An evaluated command.
LEMMA EvalStep ==
  ASSUME Inv, Evals, TypeInv'
  PROVE  Inv'
<1>1. /\ TypeInv /\ KernelOK /\ CachedOK /\ IdsOK /\ IdleOK /\ InputOK /\ WantOK /\ Mirrored /\ Runs /\ Exact
  BY DEF Inv
<1>2. PICK m \in Message : Evaluates(m)
  BY <1>1, EvaluateFacts
<1>3. KernelOK'
  <2>1. kchain' = kchain /\ khandle' = khandle /\ last \in Nat /\ last' \in Nat /\ last <= last'
    BY <1>1, <1>2, BatchFacts
  <2>2. \A i \in 1..Len(kchain) : kchain[i].id \in 1..MaxRule
    BY <1>1, RuleTypes DEF TypeInv, TypeOK
  <2> QED BY <1>1, <2>1, <2>2, RuleIndexAssumption DEF KernelOK
<1>4. IdleOK'
  BY <1>1, <1>2, BatchFacts DEF IdleOK
<1>5. CachedOK'
  BY <1>1, <1>2, EvalCached
<1>6. IdsOK'
  BY <1>1, <1>2, EvalIds
<1>7. InputOK'
  BY <1>1, <1>2, EvalInput
<1>8. WantOK'
  BY <1>1, <1>2, EvalWant
<1>9. Mirrored'
  BY <1>1, <1>2, EvalMirrored
<1>10. Runs'
  BY <1>1, <1>2, EvalRuns
<1>11. Exact'
  BY <1>1, <1>2, EvalExact
<1> QED BY <1>3, <1>4, <1>5, <1>6, <1>7, <1>8, <1>9, <1>10, <1>11 DEF Inv

\* The input ends in an error.
LEMMA FailStep ==
  ASSUME Inv, Fail, UNCHANGED <<kernel, last, ruleId, refId>>, TypeInv'
  PROVE  Inv'
<1>1. /\ kchain' = kchain /\ khandle' = khandle /\ last' = last /\ kgen' = kgen /\ ruleId' = ruleId /\ refId' = refId
      /\ rules' = <<>> /\ cflags' = {} /\ cgen' = 0 /\ pc' = "idle" /\ batch' = <<>>
  BY DEF Fail, Release, EndOfInput, kernel
<1>2. KernelOK' /\ CachedOK' /\ IdleOK'
  BY <1>1 DEF Inv, KernelOK, CachedOK, IdleOK
<1>3. IdsOK' /\ InputOK' /\ WantOK' /\ Mirrored' /\ Runs' /\ Exact'
  BY <1>1, IdleFacts DEF Inv
<1> QED BY <1>2, <1>3 DEF Inv

\* The invariant is inductive.
LEMMA NextInv ==
  ASSUME InputsFollowed, Inv, [Next]_vars
  PROVE  Inv'
<1>1. TypeInv'
  BY NextTypes DEF Inv
<1>2. ASSUME NEW in \in Input, UpdateCache(in) PROVE Inv'
  BY <1>1, <1>2, UpdateStep
<1>3. ASSUME NEW in \in Script, UpdateCache(in) PROVE Inv'
  BY <1>1, <1>3, UpdateStep
<1>4. CASE NewContext
  <2>1. /\ kchain' = kchain /\ khandle' = khandle /\ last' = last /\ kgen' = kgen /\ ruleId' = ruleId /\ refId' = refId
        /\ rules' = <<>> /\ cflags' = {} /\ cgen' = 0 /\ pc = "idle" /\ pc' = pc /\ batch' = batch
    BY <1>4 DEF NewContext, Release, kernel
  <2>2. KernelOK' /\ CachedOK' /\ IdleOK' /\ IdsOK'
    BY <2>1 DEF Inv, KernelOK, CachedOK, IdleOK, IdsOK
  <2>3. InputOK' /\ WantOK' /\ Mirrored' /\ Runs' /\ Exact'
    BY <2>1 DEF InputOK, WantOK, Mirrored, Runs, Exact
  <2> QED BY <1>1, <2>2, <2>3 DEF Inv
<1>5. CASE Evals
  BY <1>1, <1>5, EvalStep
<1>6. CASE EvalError
  BY <1>1, <1>6, FailStep DEF EvalError
<1>7. CASE EvalDone
  <2>1. /\ kchain' = kchain /\ khandle' = khandle /\ last' = last /\ kgen' = kgen /\ ruleId' = ruleId /\ refId' = refId
        /\ rules' = rules /\ cflags' = cflags /\ cgen' = cgen /\ pc = "eval" /\ pc' = "send" /\ batch' = batch
        /\ script' = script /\ input' = input /\ want' = want
    BY <1>7 DEF EvalDone, kernel, cache
  <2>2. KernelOK' /\ CachedOK' /\ IdleOK' /\ IdsOK'
    BY <2>1 DEF Inv, KernelOK, CachedOK, IdleOK, IdsOK
  <2>3. InputOK' /\ WantOK' /\ Mirrored' /\ Exact'
    BY <2>1 DEF Inv, InputOK, WantOK, Mirrored, Exact
  <2>4. Runs'
    BY <2>1 DEF Inv, Runs
  <2> QED BY <1>1, <2>2, <2>3, <2>4 DEF Inv
<1>8. CASE Commit
  BY <1>1, <1>8, CommitStep
<1>9. CASE Refused
  BY <1>1, <1>9, FailStep DEF Refused
<1>10. CASE ForeignInsert
  BY <1>1, <1>10, InsertStep
<1>11. CASE ForeignDelete
  BY <1>1, <1>11, DeleteStep
<1>12. CASE UNCHANGED vars
  <2>1. /\ kchain' = kchain /\ khandle' = khandle /\ last' = last /\ kgen' = kgen /\ ruleId' = ruleId /\ refId' = refId
        /\ rules' = rules /\ cflags' = cflags /\ cgen' = cgen /\ pc' = pc /\ batch' = batch
        /\ script' = script /\ input' = input /\ want' = want
    BY <1>12 DEF vars, kernel, cache
  <2>2. KernelOK' /\ CachedOK' /\ IdleOK' /\ IdsOK'
    BY <2>1 DEF Inv, KernelOK, CachedOK, IdleOK, IdsOK
  <2>3. InputOK' /\ WantOK' /\ Mirrored' /\ Exact'
    BY <2>1 DEF Inv, InputOK, WantOK, Mirrored, Exact
  <2>4. Runs'
    BY <2>1 DEF Inv, Runs
  <2> QED BY <1>1, <2>2, <2>3, <2>4 DEF Inv
<1> QED BY <1>2, <1>3, <1>4, <1>5, <1>6, <1>7, <1>8, <1>9, <1>10, <1>11, <1>12 DEF Next, Evals

\* As long as the inputs are such that the cached chain follows their
\* commands, the invariant holds.
LEMMA InvHolds ==
  ASSUME InputsFollowed
  PROVE  Spec => []Inv
<1>1. Inv /\ [Next]_vars => Inv'
  BY NextInv
<1> QED BY <1>1, InitInv, PTL DEF Spec

\* IndexMeansThatRule: however long the chain is and whatever other programs
\* do to it after the cache was checked, a transaction that the kernel accepts
\* places each rule with an index by the rule that the user counted.
THEOREM IndexCorrect ==
  ASSUME InputsFollowed
  PROVE  Spec => []IndexMeansThatRule
<1>1. Inv => IndexMeansThatRule
  <2> SUFFICES ASSUME Inv, pc = "send", Transaction.ok, NEW k \in DOMAIN batch, batch[k].by = "index"
               PROVE  Transaction.at[k] = batch[k].asked
    BY DEF IndexMeansThatRule
  <2>1. k \in 1..Len(batch)
    BY DEF Inv, TypeInv
  <2>2. Sound(ruleId, kchain, khandle, batch, last)
    BY LaterSame DEF Inv, Runs
  <2> QED BY <2>1, <2>2, TransactionIs DEF Sound
<1> QED BY <1>1, InvHolds, PTL

\* ChainAsDescribed: if nobody else has changed the chain since the cache was
\* checked, it becomes the chain that the commands describe.
THEOREM ChainCorrect ==
  ASSUME InputsFollowed
  PROVE  Spec => []ChainAsDescribed
<1>1. Inv => ChainAsDescribed
  <2> SUFFICES ASSUME Inv, pc = "send", Transaction.ok, kgen = cgen
               PROVE  Ids(Transaction.chain) = Ids(want)
    BY DEF ChainAsDescribed
  <2>1. Transaction.chain = want
    BY TransactionIs DEF Inv, Exact
  <2> QED BY <2>1
<1> QED BY <1>1, InvHolds, PTL
=============================================================================
