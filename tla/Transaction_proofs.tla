------------------------- MODULE Transaction_proofs -------------------------
(***************************************************************************)
(* Transactions, for any inputs.  The cache follows the commands while     *)
(* they are evaluated (CacheInv), the batch while they are executed        *)
(* (BatchInv), both by names; the expansion of blocks keeps the meaning of *)
(* the input (OrderInv).  What a message does to a ruleset comes first,    *)
(* then what commands and blocks mean, then each part of the invariant     *)
(* over each step.                                                         *)
(***************************************************************************)
EXTENDS Transaction, SequenceFacts

(* The ruleset and the messages. *)

Object == {e \in [obj : Kinds, table : Name, name : Name, handle : Nat] :
             /\ e.obj = "table" => e.name = e.table
             /\ e.obj # "chain" => e.handle = 0}

Message ==
  {m \in [type : {"new", "create", "delete", "destroy", "need", "flush", "rename"},
          obj : Kinds \cup {"rule", "elements", "setelems", "ruleset"},
          table : Name, name : Name, handle : Nat, new : Name] :
     /\ m.type \in {"new", "create"} => m.obj \in Kinds /\ m.name # None
     /\ m.type \in {"delete", "destroy"} => m.obj \in Kinds
     /\ m.type = "rename" => m.obj = "chain" /\ m.new # None
     /\ m.obj = "table" => m.name = m.table}

\* A ruleset: everything is in a table, chains have handles, and names and
\* handles tell objects apart.
Ruleset(objs, l) ==
  /\ objs \subseteq Object /\ l \in Nat
  /\ \A e \in objs : HasTable(objs, e.table)
  /\ \A e \in objs : e.obj = "chain" => 1 <= e.handle /\ e.handle <= l
  /\ \A e, f \in objs : e.obj = f.obj /\ e.table = f.table /\ e.name = f.name => e = f
  /\ \A e, f \in objs : e.obj = "chain" /\ f.obj = "chain" /\ e.handle = f.handle => e = f

States == {s \in [ok : BOOLEAN, objs : SUBSET Object, last : Nat] : Ruleset(s.objs, s.last)}

\* A message that is not accepted.
LEMMA RefusedFacts ==
  ASSUME NEW s \in States, NEW m \in Message
  PROVE  /\ [s EXCEPT !.ok = FALSE] \in States
         /\ [s EXCEPT !.ok = FALSE].ok = FALSE
         /\ [s EXCEPT !.ok = FALSE].objs = s.objs
         /\ [s EXCEPT !.ok = FALSE].last = s.last
BY DEF States

\* What is created.
LEMMA CreatedFacts ==
  ASSUME NEW s \in States, NEW m \in Message, m.obj \in Kinds, m.name # None,
         Target(s.objs, m) = {}, m.obj = "table" \/ HasTable(s.objs, m.table)
  PROVE  /\ Created(s, m) \in States
         /\ Created(s, m).ok = s.ok
         /\ s.last <= Created(s, m).last
         /\ \E e \in Object :
              /\ e.obj = m.obj /\ e.table = m.table /\ e.name = m.name
              /\ e.obj = "chain" => e.handle = s.last + 1
              /\ \A x : x \in Created(s, m).objs <=> x \in s.objs \/ x = e
<1> DEFINE h == IF m.obj = "chain" THEN s.last + 1 ELSE 0
           l == IF m.obj = "chain" THEN h ELSE s.last
           e == [obj |-> m.obj, table |-> m.table, name |-> m.name, handle |-> h]
           o == s.objs \cup {e}
<1>1. s.objs \subseteq Object /\ s.last \in Nat /\ s.ok \in BOOLEAN /\ Ruleset(s.objs, s.last)
  BY DEF States
<1>2. Created(s, m) = [ok |-> s.ok, objs |-> o, last |-> l]
  <2>1. s = [ok |-> s.ok, objs |-> s.objs, last |-> s.last]
    BY DEF States
  <2>2. Created(s, m) = [s EXCEPT !.last = l, !.objs = o]
    BY DEF Created
  <2> HIDE DEF l, o
  <2> QED BY <2>1, <2>2
<1>3. e \in Object /\ e.obj = m.obj /\ e.table = m.table /\ e.name = m.name /\ e.handle = h
  BY <1>1 DEF Object, Message
<1>4. h \in Nat /\ l \in Nat /\ s.last <= l /\ (m.obj = "chain" => h = s.last + 1 /\ l = s.last + 1)
  BY <1>1
<1> HIDE DEF e, h, l
<1>5. \A f \in s.objs : ~(f.obj = e.obj /\ f.table = e.table /\ f.name = e.name)
  BY <1>3 DEF Target
<1>6. Ruleset(o, l)
  <2>1. o \subseteq Object
    BY <1>1, <1>3
  <2>2. \A f \in o : HasTable(o, f.table)
    <3>1. \A t : HasTable(s.objs, t) => HasTable(o, t)
      BY DEF HasTable, Present
    <3>2. HasTable(o, e.table)
      <4>1. CASE m.obj = "table"
        BY <1>3, <4>1 DEF HasTable, Present, Object
      <4>2. CASE m.obj # "table"
        BY <1>3, <3>1, <4>2
      <4> QED BY <4>1, <4>2
    <3> QED BY <1>1, <3>1, <3>2 DEF Ruleset
  <2>3. \A f \in o : f.obj = "chain" => 1 <= f.handle /\ f.handle <= l
    <3>1. \A f \in s.objs : f.obj = "chain" => f.handle \in Nat /\ 1 <= f.handle /\ f.handle <= s.last
      BY <1>1 DEF Ruleset, Object
    <3> QED BY <1>1, <1>3, <1>4, <3>1
  <2>4. \A f, g \in o : f.obj = g.obj /\ f.table = g.table /\ f.name = g.name => f = g
    BY <1>1, <1>5 DEF Ruleset
  <2>5. \A f, g \in o : f.obj = "chain" /\ g.obj = "chain" /\ f.handle = g.handle => f = g
    <3>1. \A f \in s.objs : f.obj = "chain" => f.handle \in Nat /\ f.handle <= s.last
      BY <1>1 DEF Ruleset, Object
    <3>2. e.obj = "chain" => \A f \in s.objs : f.obj = "chain" => f.handle # e.handle
      BY <1>1, <1>3, <1>4, <3>1
    <3> QED BY <1>1, <3>2 DEF Ruleset
  <2> QED BY <1>4, <2>1, <2>2, <2>3, <2>4, <2>5 DEF Ruleset
<1>7. Created(s, m) \in States
  <2>1. o \in SUBSET Object
    BY <1>1, <1>3
  <2> HIDE DEF o
  <2> QED BY <1>1, <1>2, <1>4, <1>6, <2>1 DEF States
<1> QED BY <1>2, <1>3, <1>4, <1>7

\* What is deleted.
LEMMA RemovedFacts ==
  ASSUME NEW s \in States, NEW m \in Message
  PROVE  /\ Removed(s, m) \in States
         /\ Removed(s, m).ok = s.ok
         /\ Removed(s, m).last = s.last
         /\ \A x : x \in Removed(s, m).objs <=>
              x \in s.objs /\ IF m.obj = "table" THEN x.table # m.table ELSE x \notin Target(s.objs, m)
<1> DEFINE o == {x \in s.objs : IF m.obj = "table" THEN x.table # m.table ELSE x \notin Target(s.objs, m)}
<1>1. s.objs \subseteq Object /\ s.last \in Nat /\ s.ok \in BOOLEAN /\ Ruleset(s.objs, s.last)
  BY DEF States
<1>2. Removed(s, m) = [ok |-> s.ok, objs |-> o, last |-> s.last]
  <2>1. s = [ok |-> s.ok, objs |-> s.objs, last |-> s.last]
    BY DEF States
  <2>2. Removed(s, m) = [s EXCEPT !.objs = o]
    BY DEF Removed
  <2> HIDE DEF o
  <2> QED BY <2>1, <2>2
<1>3. \A x : x \in o <=> x \in s.objs /\ IF m.obj = "table" THEN x.table # m.table ELSE x \notin Target(s.objs, m)
  OBVIOUS
<1>4. \A x \in o : HasTable(o, x.table)
  <2> SUFFICES ASSUME NEW x \in o PROVE HasTable(o, x.table)
    OBVIOUS
  <2>1. PICK y \in s.objs : y.obj = "table" /\ y.table = x.table /\ y.name = x.table
    BY <1>1, <1>3 DEF Ruleset, HasTable, Present
  <2>2. m.obj # "table" => y \notin Target(s.objs, m)
    BY <2>1 DEF Target
  <2> HIDE DEF o
  <2>3. y \in o
    BY <1>3, <2>1, <2>2
  <2> QED BY <2>1, <2>3 DEF HasTable, Present
<1> HIDE DEF o
<1>5. o \in SUBSET Object /\ o \subseteq s.objs
  BY <1>1, <1>3
<1>6. Ruleset(o, s.last)
  BY <1>1, <1>4, <1>5 DEF Ruleset
<1>7. Removed(s, m) \in States
  BY <1>1, <1>2, <1>5, <1>6 DEF States
<1> QED BY <1>2, <1>3, <1>7

\* What gets another name.
LEMMA RenamedFacts ==
  ASSUME NEW s \in States, NEW m \in Message, m.type = "rename", Target(s.objs, m) # {},
         ~Present(s.objs, "chain", m.table, m.new)
  PROVE  /\ Renamed(s, m) \in States
         /\ Renamed(s, m).ok = s.ok
         /\ Renamed(s, m).last = s.last
         /\ \E y \in s.objs, z \in Object :
              /\ Target(s.objs, m) = {y} /\ y.obj = "chain" /\ y.table = m.table
              /\ z.obj = "chain" /\ z.table = y.table /\ z.handle = y.handle /\ z.name = m.new
              /\ \A x : x \in Renamed(s, m).objs <=> (x \in s.objs /\ x # y) \/ x = z
<1>1. /\ s.objs \subseteq Object /\ s.last \in Nat /\ s.ok \in BOOLEAN /\ Ruleset(s.objs, s.last)
      /\ m.obj = "chain" /\ m.new \in Name
  BY DEF States, Message
<1>2. PICK y : y \in Target(s.objs, m)
  OBVIOUS
<1>3. /\ y \in s.objs /\ y \in Object /\ y.obj = "chain" /\ y.table = m.table
      /\ IF m.name # None THEN y.name = m.name ELSE y.handle = m.handle
  BY <1>1, <1>2 DEF Target
<1>4. \A x : x \in Target(s.objs, m) <=> x = y
  <2>1. \A x \in Target(s.objs, m) :
          /\ x \in s.objs /\ x.obj = "chain" /\ x.table = m.table
          /\ IF m.name # None THEN x.name = m.name ELSE x.handle = m.handle
    BY <1>1 DEF Target
  <2> QED BY <1>1, <1>2, <1>3, <2>1 DEF Ruleset
<1> DEFINE z == [y EXCEPT !.name = m.new]
           o == (s.objs \ {y}) \cup {z}
<1>5. z \in Object /\ z.obj = "chain" /\ z.table = y.table /\ z.handle = y.handle /\ z.name = m.new
  BY <1>1, <1>3 DEF Object
<1>6. Renamed(s, m) = [ok |-> s.ok, objs |-> o, last |-> s.last]
  <2>1. s = [ok |-> s.ok, objs |-> s.objs, last |-> s.last]
    BY DEF States
  <2>2. {[e EXCEPT !.name = m.new] : e \in Target(s.objs, m)} = {z}
    BY <1>4
  <2>3. Target(s.objs, m) = {y}
    BY <1>4
  <2> HIDE DEF z
  <2>4. Renamed(s, m) = [s EXCEPT !.objs = o]
    BY <2>2, <2>3 DEF Renamed
  <2> HIDE DEF o
  <2> QED BY <2>1, <2>4
<1> HIDE DEF z
<1>7. \A x : x \in o <=> (x \in s.objs /\ x # y) \/ x = z
  OBVIOUS
<1> HIDE DEF o
<1>8. Ruleset(o, s.last)
  <2>1. o \subseteq Object
    BY <1>1, <1>5, <1>7
  <2>2. \A f \in o : HasTable(o, f.table)
    <3>1. \A t : HasTable(s.objs, t) => HasTable(o, t)
      BY <1>3, <1>7 DEF HasTable, Present
    <3>2. HasTable(s.objs, y.table) /\ \A f \in s.objs : HasTable(s.objs, f.table)
      BY <1>1, <1>3 DEF Ruleset
    <3> QED BY <1>5, <1>7, <3>1, <3>2
  <2>3. \A f \in o : f.obj = "chain" => 1 <= f.handle /\ f.handle <= s.last
    BY <1>1, <1>3, <1>5, <1>7 DEF Ruleset
  <2>4. \A f, g \in o : f.obj = g.obj /\ f.table = g.table /\ f.name = g.name => f = g
    <3>1. \A f \in s.objs : ~(f.obj = z.obj /\ f.table = z.table /\ f.name = z.name)
      BY <1>3, <1>5 DEF Present
    <3> QED BY <1>1, <1>7, <3>1 DEF Ruleset
  <2>5. \A f, g \in o : f.obj = "chain" /\ g.obj = "chain" /\ f.handle = g.handle => f = g
    <3>1. \A f \in s.objs : f.obj = "chain" /\ f.handle = z.handle => f = y
      BY <1>1, <1>3, <1>5 DEF Ruleset
    <3> QED BY <1>1, <1>7, <3>1 DEF Ruleset
  <2> QED BY <1>1, <2>1, <2>2, <2>3, <2>4, <2>5 DEF Ruleset
<1>9. o \in SUBSET Object
  BY <1>8 DEF Ruleset
<1>10. Renamed(s, m) \in States
  BY <1>1, <1>6, <1>8, <1>9 DEF States
<1>11. Target(s.objs, m) = {y}
  BY <1>4
<1>12. /\ Renamed(s, m).ok = s.ok /\ Renamed(s, m).last = s.last
       /\ \A x : x \in Renamed(s, m).objs <=> (x \in s.objs /\ x # y) \/ x = z
  BY <1>6, <1>7
<1> QED BY <1>3, <1>5, <1>10, <1>11, <1>12, Zenon

-----------------------------------------------------------------------------
(* What a message does. *)

\* The objects a message is about, one at most.
LEMMA TargetFacts ==
  ASSUME NEW s \in States, NEW m \in Message
  PROVE  /\ \A x : x \in Target(s.objs, m) =>
              x \in s.objs /\ x \in Object /\ x.obj = m.obj /\ x.table = m.table
         /\ m.name # None => \A x : x \in Target(s.objs, m) <=>
              x \in s.objs /\ x.obj = m.obj /\ x.table = m.table /\ x.name = m.name
         /\ m.name = None => \A x : x \in Target(s.objs, m) <=>
              x \in s.objs /\ x.obj = m.obj /\ x.table = m.table /\ m.handle # 0 /\ x.handle = m.handle
         /\ m.name # None => (Target(s.objs, m) # {} <=> Present(s.objs, m.obj, m.table, m.name))
         /\ \A x, y : x \in Target(s.objs, m) /\ y \in Target(s.objs, m) => x = y
<1>1. s.objs \subseteq Object /\ Ruleset(s.objs, s.last)
  BY DEF States
<1>2. \A x : x \in Target(s.objs, m) <=>
        /\ x \in s.objs /\ x.obj = m.obj /\ x.table = m.table
        /\ IF m.name # None THEN x.name = m.name ELSE m.handle # 0 /\ x.handle = m.handle
  BY DEF Target
<1>3. m.name # None => (Target(s.objs, m) # {} <=> Present(s.objs, m.obj, m.table, m.name))
  BY <1>2 DEF Present
<1>4. \A x, y : x \in Target(s.objs, m) /\ y \in Target(s.objs, m) => x = y
  <2>1. \A x \in Object : x.obj # "chain" => x.handle = 0
    BY DEF Object
  <2> QED BY <1>1, <1>2, <2>1 DEF Ruleset
<1> QED BY <1>1, <1>2, <1>3, <1>4

\* What is left when a message is refused.
Refusal(s) == [s EXCEPT !.ok = FALSE]

\* The cases of a message, when all went well so far.
LEMMA ApplyCases ==
  ASSUME NEW s \in States, NEW m \in Message, s.ok
  PROVE  /\ m.type = "flush" => Apply(s, m) = [s EXCEPT !.objs = {}]
         /\ m.type # "flush" /\ m.obj # "table" /\ ~HasTable(s.objs, m.table) => Apply(s, m) = Refusal(s)
         /\ m.type # "flush" /\ (m.obj = "table" \/ HasTable(s.objs, m.table)) =>
              /\ Target(s.objs, m) = {} =>
                   /\ m.type \in {"new", "create"} => Apply(s, m) = Created(s, m)
                   /\ m.type \in {"delete", "need", "rename"} => Apply(s, m) = Refusal(s)
                   /\ m.type = "destroy" => Apply(s, m) = s
              /\ Target(s.objs, m) # {} =>
                   /\ m.type \in {"new", "need"} => Apply(s, m) = s
                   /\ m.type = "create" => Apply(s, m) = Refusal(s)
                   /\ m.type \in {"delete", "destroy"} => Apply(s, m) = Removed(s, m)
                   /\ m.type = "rename" =>
                        IF Present(s.objs, "chain", m.table, m.new) THEN Apply(s, m) = Refusal(s)
                        ELSE Apply(s, m) = Renamed(s, m)
<1> DEFINE found == Target(s.objs, m) # {}
           refused == Refusal(s)
           flushed == [s EXCEPT !.objs = {}]
<1>2. Apply(s, m) =
     IF ~s.ok THEN s
     ELSE IF m.type = "flush" THEN flushed
     ELSE IF m.obj # "table" /\ ~HasTable(s.objs, m.table) THEN refused
     ELSE CASE m.type \in {"new", "create"} /\ ~found -> Created(s, m)
            [] m.type \in {"delete", "destroy"} /\ found -> Removed(s, m)
            [] /\ m.type = "rename" /\ found
               /\ ~Present(s.objs, "chain", m.table, m.new) -> Renamed(s, m)
            [] \/ m.type \in {"new", "need"} /\ found
               \/ m.type = "destroy" /\ ~found -> s
            [] OTHER -> refused
  BY DEF Apply, Refusal
<1>4. m.type \in {"new", "create", "delete", "destroy", "need", "flush", "rename"}
  BY DEF Message
<1> HIDE DEF refused, flushed, found
<1>5. m.type = "flush" => Apply(s, m) = flushed
  BY <1>2
<1>6. m.type # "flush" /\ m.obj # "table" /\ ~HasTable(s.objs, m.table) => Apply(s, m) = refused
  BY <1>2
<1>7. ASSUME m.type # "flush", m.obj = "table" \/ HasTable(s.objs, m.table), ~found
      PROVE  /\ m.type \in {"new", "create"} => Apply(s, m) = Created(s, m)
             /\ m.type \in {"delete", "need", "rename"} => Apply(s, m) = Refusal(s)
             /\ m.type = "destroy" => Apply(s, m) = s
  <2> HIDE DEF found
  <2>1. m.type = "new" => Apply(s, m) = Created(s, m)
    BY <1>2, <1>7
  <2>2. m.type = "create" => Apply(s, m) = Created(s, m)
    BY <1>2, <1>7
  <2>3. m.type \in {"delete", "need", "rename"} => Apply(s, m) = refused
    BY <1>2, <1>7
  <2>4. m.type = "destroy" => Apply(s, m) = s
    BY <1>2, <1>7
  <2> QED BY <2>1, <2>2, <2>3, <2>4 DEF refused
<1>8. ASSUME m.type # "flush", m.obj = "table" \/ HasTable(s.objs, m.table), found
      PROVE  /\ m.type \in {"new", "need"} => Apply(s, m) = s
             /\ m.type = "create" => Apply(s, m) = Refusal(s)
             /\ m.type \in {"delete", "destroy"} => Apply(s, m) = Removed(s, m)
             /\ m.type = "rename" =>
                  IF Present(s.objs, "chain", m.table, m.new) THEN Apply(s, m) = Refusal(s)
                  ELSE Apply(s, m) = Renamed(s, m)
  <2> HIDE DEF found
  <2>1. m.type \in {"new", "need"} => Apply(s, m) = s
    BY <1>2, <1>8
  <2>2. m.type = "create" => Apply(s, m) = refused
    BY <1>2, <1>8
  <2>3. m.type \in {"delete", "destroy"} => Apply(s, m) = Removed(s, m)
    BY <1>2, <1>8
  <2>4. m.type = "rename" => Apply(s, m) = IF Present(s.objs, "chain", m.table, m.new) THEN refused ELSE Renamed(s, m)
    BY <1>2, <1>8
  <2> QED BY <2>1, <2>2, <2>3, <2>4 DEF refused
<1> QED BY <1>5, <1>6, <1>7, <1>8 DEF flushed, refused, found

\* A message leads from ruleset to ruleset; after a failure nothing happens.
LEMMA ApplyFacts ==
  ASSUME NEW s \in States, NEW m \in Message
  PROVE  /\ Apply(s, m) \in States
         /\ s.last <= Apply(s, m).last
         /\ ~s.ok => Apply(s, m) = s
         /\ Apply(s, m).ok => s.ok
<1>1. s.last \in Nat /\ s.ok \in BOOLEAN
  BY DEF States
<1>2. CASE ~s.ok
  <2>1. Apply(s, m) = s
    BY <1>2 DEF Apply
  <2> QED BY <1>1, <2>1
<1>3. CASE s.ok
  <2> DEFINE flushed == [s EXCEPT !.objs = {}]
             found == Target(s.objs, m) # {}
  <2>1. flushed \in States /\ flushed.last = s.last
    BY DEF States, Ruleset
  <2>2. Refusal(s) \in States /\ Refusal(s).last = s.last
    BY RefusedFacts DEF Refusal
  <2>3. m.type \in {"new", "create"} => m.obj \in Kinds /\ m.name # None
    BY DEF Message
  <2>4. m.type \in {"new", "create"} /\ ~found /\ (m.obj = "table" \/ HasTable(s.objs, m.table)) =>
          Created(s, m) \in States /\ s.last <= Created(s, m).last
    BY <2>3, CreatedFacts
  <2>5. Removed(s, m) \in States /\ Removed(s, m).last = s.last
    BY RemovedFacts
  <2>6. m.type = "rename" /\ found /\ ~Present(s.objs, "chain", m.table, m.new) =>
          Renamed(s, m) \in States /\ Renamed(s, m).last = s.last
    BY RenamedFacts
  <2>7. m.type \in {"new", "create", "delete", "destroy", "need", "flush", "rename"}
    BY DEF Message
  <2>9. m.type = "flush" => Apply(s, m) = flushed
    BY <1>3, ApplyCases
  <2>10. m.type # "flush" /\ m.obj # "table" /\ ~HasTable(s.objs, m.table) => Apply(s, m) = Refusal(s)
    BY <1>3, ApplyCases
  <2> HIDE DEF found, flushed
  <2>11. ASSUME m.type # "flush", m.obj = "table" \/ HasTable(s.objs, m.table)
         PROVE  Apply(s, m) \in States /\ s.last <= Apply(s, m).last
    <3>1. CASE found
      BY <1>1, <1>3, <2>2, <2>5, <2>6, <2>7, <2>11, <3>1, ApplyCases DEF found
    <3>2. CASE ~found
      BY <1>1, <1>3, <2>2, <2>4, <2>7, <2>11, <3>2, ApplyCases DEF found
    <3> QED BY <3>1, <3>2
  <2>12. Apply(s, m) \in States /\ s.last <= Apply(s, m).last
    BY <1>1, <2>1, <2>2, <2>9, <2>10, <2>11
  <2> QED BY <1>3, <2>12
<1> QED BY <1>2, <1>3

-----------------------------------------------------------------------------
(* The invariants. *)

\* The variables, with what the steps need of them.
TypeInv ==
  /\ Ruleset(kernel, last) /\ last <= MaxHandle
  /\ pc \in {"idle", "expand", "eval", "execute"}
  /\ script \in BOOLEAN /\ valid \in BOOLEAN
  /\ outcome \in {"none", "done", "rejected", "refused", "crashed"}
  /\ given \in Seq(Command) /\ cmds \in Seq(Command)
  /\ pos \in 1..(Len(cmds) + 1)
  /\ nerrs \in 0..MaxErrors
  /\ batch \in Seq(Message) /\ Len(batch) <= pos - 1
  /\ cflags \subseteq CacheFlag \ {"flushed"}
  /\ cache \subseteq Object
  /\ \A e \in cache : e.handle <= last /\ HasTable(cache, e.table)
  /\ pc = "eval" => nerrs < MaxErrors \/ pos > Len(cmds)
  /\ pc # "eval" => nerrs = 0
  /\ pc # "execute" => batch = <<>>
  /\ pc = "idle" => cmds = <<>>

\* The ruleset before the input, and after each of its commands: as the batch
\* has them, and with listings too, which fail when there is nothing to list.
Start == [ok |-> TRUE, objs |-> kernel, last |-> last]

Sees(s, cmd) == Apply(s, OwnMeaning(cmd))

Does(s, cmd) == IF cmd.op \in {"list", "get"} THEN s ELSE Sees(s, cmd)

DoesAll(s, q) == FoldLeft(Does, s, q)

SeesAll(s, q) == FoldLeft(Sees, s, q)

Done(n) == DoesAll(Start, SubSeq(cmds, 1, n))

Seen(n) == SeesAll(Start, SubSeq(cmds, 1, n))

\* The commands that are still to be expanded, with their blocks.
Rest == FoldLeft(Meaning, Seen(pos - 1), SubSeq(cmds, pos, Len(cmds)))

IsFlush(cmd) == cmd.op = "flush" /\ cmd.obj = "ruleset"

NoFlush(cs) == \A i \in DOMAIN cs : ~IsFlush(cs[i])

NoRename(cs) == \A i \in DOMAIN cs : cs[i].op # "rename"

AllFollowed(cs) == \A i \in DOMAIN cs : Followed(cs[i])

IsRename(cmd, t, n) == cmd.op = "rename" /\ cmd.table = t /\ cmd.name = n

RenamesDiffer(cs) ==
  \A i, j \in DOMAIN cs :
    i < j /\ cs[i].op = "rename" /\ cs[j].op = "rename" =>
      cs[i].table # cs[j].table \/ cs[i].name # cs[j].name

\* The kinds that the evaluation of a command looks up.
Needs(cmd) ==
  IF cmd.op \in {"add", "create"} /\ cmd.obj \in Kinds
  THEN IF cmd.obj = "table" /\ cmd.block = <<>> THEN {} ELSE {"table"}
  ELSE IF cmd.obj = "elements" \/ (cmd.op = "flush" /\ cmd.obj = "set") THEN {"table", "set"}
  ELSE IF cmd.op = "list" THEN {"table", cmd.obj}
  ELSE {}

Covered(cs, flags) == \A i \in DOMAIN cs : \A k \in Needs(cs[i]) : FlagOf(k) \in flags

\* The kinds the cache follows: those that were fetched or, when the input starts
\* with "flush ruleset", all.
Tracked(k, n) ==
  IF NoFlush(cmds) THEN FlagOf(k) \in cflags
  ELSE n > 0 /\ \A i \in DOMAIN cmds : IsFlush(cmds[i]) <=> i = 1

\* What there is is cached, and what is cached is there.
Covers(n) ==
  \A e \in Done(n).objs : Tracked(e.obj, n) => Present(cache, e.obj, e.table, e.name)

Within(n) ==
  \A e \in cache : Tracked(e.obj, n) => Present(Done(n).objs, e.obj, e.table, e.name)

\* The commands, as far as they say something about the cache.
CommandsInv ==
  /\ ~script => AllFollowed(cmds)
  /\ InputsOrderly => Orderly(cmds)
  /\ OnlyChanges(given) => OnlyChanges(cmds)
  /\ outcome = "none"
  /\ \/ NoFlush(cmds) /\ Covered(cmds, cflags)
     \/ ~NoFlush(cmds) /\ cflags = {}

\* The expansion leaves the meaning of the input.
OrderInv ==
  /\ pc = "expand" => Rest = InOrder
  /\ pc \in {"eval", "execute"} => Seen(Len(cmds)) = InOrder

\* The evaluation so far: n commands, none of which failed.
FollowInv(n) ==
  Done(n).ok =>
    /\ NoRename(cmds) => Covers(n)
    /\ AllFollowed(cmds) => Within(n)
    /\ InputsOrderly => Seen(n) = Done(n)

\* The cache before, during and after the evaluation.
CacheInv ==
  /\ pc = "idle" => CacheFollowsCommit
  /\ pc # "idle" /\ script => \A e \in cache : e.handle # 0 => e \in kernel
  /\ pc = "expand" => Covers(0) /\ Within(0) /\ (~NoFlush(cmds) => cache = {})
  /\ pc = "eval" /\ pos = 1 => (~NoFlush(cmds) => cache = {})
  /\ pc = "eval" /\ nerrs = 0 => FollowInv(pos - 1)
  /\ pc = "execute" => FollowInv(Len(cmds))

\* An error is one of the input.
ErrorInv ==
  pc = "eval" /\ nerrs > 0 /\ OnlyChanges(given) => ~Seen(Len(cmds)).ok

\* Where a chain of the kernel is by now, if it is there.
Chains(objs) ==
  \A y \in objs, e \in kernel :
    y.obj = "chain" /\ e.obj = "chain" /\ y.handle = e.handle =>
      /\ y.table = e.table
      /\ y.name = e.name \/ \E i \in 1..(pos - 1) : IsRename(cmds[i], e.table, e.name)

\* The batch so far: the messages are the commands.
BatchInv ==
  pc = "execute" /\ (NoRename(cmds) \/ (script /\ RenamesDiffer(cmds))) /\ Applied(kernel, batch).ok =>
    /\ Applied(kernel, batch) = Done(pos - 1)
    /\ script => Chains(Applied(kernel, batch).objs)

TransactionInv ==
  /\ TypeInv
  /\ pc # "idle" => CommandsInv
  /\ OrderInv
  /\ CacheInv
  /\ ErrorInv
  /\ BatchInv

-----------------------------------------------------------------------------
(* The names after a message. *)

\* What a successful message does to the names of the ruleset.
LEMMA NewNames ==
  ASSUME NEW s \in States, NEW m \in Message, s.ok, Apply(s, m).ok,
         m.type \in {"new", "create"}, NEW k, NEW t, NEW n
  PROVE  Present(Apply(s, m).objs, k, t, n) <=>
           Present(s.objs, k, t, n) \/ (k = m.obj /\ t = m.table /\ n = m.name)
<1>1. m.obj \in Kinds /\ m.name # None
  BY DEF Message
<1>2. m.obj = "table" \/ HasTable(s.objs, m.table)
  BY ApplyCases, RefusedFacts DEF Refusal
<1>3. CASE Target(s.objs, m) = {}
  <2>1. Apply(s, m) = Created(s, m)
    BY <1>2, <1>3, ApplyCases
  <2>2. PICK e \in Object :
              /\ e.obj = m.obj /\ e.table = m.table /\ e.name = m.name
              /\ \A x : x \in Created(s, m).objs <=> x \in s.objs \/ x = e
    BY <1>1, <1>2, <1>3, CreatedFacts
  <2> QED BY <2>1, <2>2 DEF Present
<1>4. CASE Target(s.objs, m) # {}
  <2>1. Apply(s, m) = s
    BY <1>2, <1>4, ApplyCases, RefusedFacts DEF Refusal
  <2>2. Present(s.objs, m.obj, m.table, m.name)
    BY <1>1, <1>4, TargetFacts
  <2> QED BY <2>1, <2>2
<1> QED BY <1>3, <1>4

\* What is deleted by its handle or by its name.
LEMMA DeleteNames ==
  ASSUME NEW s \in States, NEW m \in Message, s.ok, Apply(s, m).ok,
         m.type \in {"delete", "destroy"}, NEW k, NEW t, NEW n
  PROVE  /\ Present(Apply(s, m).objs, k, t, n) => Present(s.objs, k, t, n)
         /\ m.name # None =>
              (Present(Apply(s, m).objs, k, t, n) <=>
                 /\ Present(s.objs, k, t, n)
                 /\ IF m.obj = "table" THEN t # m.table
                    ELSE ~(k = m.obj /\ t = m.table /\ n = m.name))
<1>1. m.obj = "table" => m.name = m.table
  BY DEF Message
<1>2. m.obj = "table" \/ HasTable(s.objs, m.table)
  BY ApplyCases, RefusedFacts DEF Refusal
<1>3. CASE Target(s.objs, m) = {}
  <2>1. Apply(s, m) = s
    BY <1>2, <1>3, ApplyCases, RefusedFacts DEF Refusal
  <2>2. m.name # None => ~Present(s.objs, m.obj, m.table, m.name)
    BY <1>3, TargetFacts
  <2>3. m.name # None /\ m.obj = "table" => ~HasTable(s.objs, m.table)
    BY <1>1, <2>2 DEF HasTable
  <2>4. m.name # None /\ m.obj = "table" /\ t = m.table => ~Present(s.objs, k, t, n)
    BY <2>3 DEF States, Ruleset, Present
  <2> QED BY <2>1, <2>2, <2>4
<1>4. CASE Target(s.objs, m) # {}
  <2>1. Apply(s, m) = Removed(s, m)
    BY <1>2, <1>4, ApplyCases
  <2>2. \A x : x \in Removed(s, m).objs <=>
              x \in s.objs /\ IF m.obj = "table" THEN x.table # m.table ELSE x \notin Target(s.objs, m)
    BY RemovedFacts
  <2>3. m.name # None => \A x : x \in Target(s.objs, m) <=>
              x \in s.objs /\ x.obj = m.obj /\ x.table = m.table /\ x.name = m.name
    BY TargetFacts
  <2> QED BY <2>1, <2>2, <2>3 DEF Present
<1> QED BY <1>3, <1>4

\* What a message needs and finds.
LEMMA NeedFacts ==
  ASSUME NEW s \in States, NEW m \in Message, s.ok, m.type = "need"
  PROVE  /\ Apply(s, m).ok <=> (m.obj = "table" \/ HasTable(s.objs, m.table)) /\ Target(s.objs, m) # {}
         /\ Apply(s, m).ok => Apply(s, m) = s
BY ApplyCases, RefusedFacts DEF Refusal

\* What "flush ruleset" leaves.
LEMMA FlushFacts ==
  ASSUME NEW s \in States, NEW m \in Message, s.ok, m.type = "flush"
  PROVE  Apply(s, m).ok /\ Apply(s, m).objs = {}
BY ApplyCases DEF States

-----------------------------------------------------------------------------
(* The messages of a command. *)

\* A command of the parser means a message, by name.
LEMMA MeaningFacts ==
  ASSUME NEW c \in Command
  PROVE  /\ OwnMeaning(c) \in Message
         /\ OwnMeaning(c).table = c.table /\ OwnMeaning(c).name = c.name
         /\ OwnMeaning(c).handle = c.handle /\ OwnMeaning(c).new = c.new
         /\ c.op \in {"add", "create"} =>
              /\ c.obj \in Kinds => OwnMeaning(c).type \in {"new", "create"} /\ OwnMeaning(c).obj = c.obj
              /\ c.obj \notin Kinds => OwnMeaning(c).type = "need" /\ OwnMeaning(c).obj = Holder(c.obj)
         /\ c.op \in {"delete", "destroy"} =>
              /\ c.obj \in Kinds => OwnMeaning(c).type = c.op /\ OwnMeaning(c).obj = c.obj
              /\ c.obj \notin Kinds => OwnMeaning(c).type = "need" /\ OwnMeaning(c).obj = Holder(c.obj)
         /\ c.op = "rename" => OwnMeaning(c).type = "rename" /\ OwnMeaning(c).obj = "chain"
         /\ c.op = "flush" =>
              /\ c.obj = "ruleset" => OwnMeaning(c).type = "flush"
              /\ c.obj # "ruleset" => OwnMeaning(c).type = "need" /\ OwnMeaning(c).obj = c.obj
         /\ c.op = "list" => OwnMeaning(c).type = "need" /\ OwnMeaning(c).obj = c.obj
         /\ c.op = "get" => OwnMeaning(c).type = "need" /\ OwnMeaning(c).obj = "set"
<1>1. \A type, obj : /\ Msg(type, obj, c).type = type /\ Msg(type, obj, c).obj = obj
                     /\ Msg(type, obj, c).table = c.table /\ Msg(type, obj, c).name = c.name
                     /\ Msg(type, obj, c).handle = c.handle /\ Msg(type, obj, c).new = c.new
  BY DEF Msg
<1>2. /\ c.op \in {"add", "create", "delete", "destroy", "flush", "rename", "list", "get"}
      /\ c.obj \in Kinds \cup {"rule", "elements", "setelems", "ruleset"}
      /\ c.table \in Name /\ c.name \in Name /\ c.handle \in Nat /\ c.new \in Name
      /\ c.obj = "table" => c.name = c.table
      /\ c.op \in {"add", "create"} => c.name # None /\ c.obj # "ruleset"
      /\ c.op \in {"delete", "destroy"} => c.obj \in Kinds \cup {"rule", "elements"}
      /\ c.op = "flush" => c.obj \in {"table", "chain", "set", "ruleset"}
      /\ c.op = "rename" => c.obj = "chain" /\ c.name # None /\ c.new # None
      /\ c.op = "list" => c.obj \in Kinds /\ c.name # None
      /\ c.op = "get" => c.obj = "elements" /\ c.name # None
  BY DEF Command
<1>3. \A type \in {"new", "create", "delete", "destroy", "need", "flush", "rename"} :
      \A obj \in Kinds \cup {"rule", "elements", "setelems", "ruleset"} :
        /\ type \in {"new", "create"} => obj \in Kinds /\ c.name # None
        /\ type \in {"delete", "destroy"} => obj \in Kinds
        /\ type = "rename" => obj = "chain" /\ c.new # None
        /\ obj = "table" => c.name = c.table
        => Msg(type, obj, c) \in Message
  BY <1>2 DEF Msg, Message
<1>4. Holder(c.obj) \in Kinds \cup {"ruleset"} /\ (Holder(c.obj) = "table" => c.obj = "table")
      /\ (c.obj \in Kinds \cup {"ruleset"} => Holder(c.obj) = c.obj)
  BY <1>2 DEF Holder, Kinds
<1>5. CASE c.op \in {"add", "create"}
  <2>1. OwnMeaning(c) = DoCommandAdd(c)
    BY <1>5 DEF OwnMeaning
  <2>2. CASE c.obj \in Kinds
    <3>1. OwnMeaning(c) = Msg(IF c.op = "create" THEN "create" ELSE "new", c.obj, c)
      BY <2>1, <2>2 DEF DoCommandAdd
    <3> QED BY <1>1, <1>2, <1>3, <1>5, <2>2, <3>1
  <2>3. CASE c.obj \notin Kinds
    <3>1. OwnMeaning(c) = Msg("need", Holder(c.obj), c)
      BY <2>1, <2>3 DEF DoCommandAdd
    <3> QED BY <1>1, <1>2, <1>3, <1>4, <1>5, <2>3, <3>1
  <2> QED BY <2>2, <2>3
<1>6. CASE c.op \in {"delete", "destroy"}
  <2>2. CASE c.obj \in Kinds
    <3>1. OwnMeaning(c) = Msg(c.op, c.obj, c)
      BY <1>6, <2>2 DEF OwnMeaning
    <3> QED BY <1>1, <1>2, <1>3, <1>6, <2>2, <3>1
  <2>3. CASE c.obj \notin Kinds
    <3>1. OwnMeaning(c) = Msg("need", Holder(c.obj), c)
      BY <1>6, <2>3 DEF OwnMeaning
    <3> QED BY <1>1, <1>2, <1>3, <1>4, <1>6, <2>3, <3>1
  <2> QED BY <2>2, <2>3
<1>7. CASE c.op = "rename"
  <2>1. OwnMeaning(c) = Msg("rename", "chain", c)
    BY <1>7 DEF OwnMeaning
  <2> QED BY <1>1, <1>2, <1>3, <1>7, <2>1 DEF Kinds
<1>8. CASE c.op = "flush"
  <2>1. c.obj = "ruleset" => OwnMeaning(c) = Msg("flush", "ruleset", c)
    BY <1>8 DEF OwnMeaning
  <2>2. c.obj # "ruleset" => OwnMeaning(c) = Msg("need", c.obj, c)
    BY <1>2, <1>4, <1>8 DEF OwnMeaning, Kinds
  <2> QED BY <1>1, <1>2, <1>3, <1>8, <2>1, <2>2 DEF Kinds
<1>9. CASE c.op \in {"list", "get"}
  <2>1. OwnMeaning(c) = Msg("need", Holder(c.obj), c)
    BY <1>9 DEF OwnMeaning
  <2>2. c.op = "get" => Holder(c.obj) = "set"
    BY <1>2 DEF Holder
  <2> QED BY <1>1, <1>2, <1>3, <1>4, <1>9, <2>1, <2>2
<1> QED BY <1>2, <1>5, <1>6, <1>7, <1>8, <1>9

-----------------------------------------------------------------------------
(* Commands one after the other. *)

\* A command of a block, and what it means.
LEMMA ItemFacts ==
  ASSUME NEW c \in Command, NEW i \in Item, NEW type \in {"new", "need"}
  PROVE  LET m == Msg(type, i.obj, Inner(c, i.obj, i.name, FALSE))
         IN /\ m \in Message
            /\ m = [type |-> type, obj |-> i.obj, table |-> c.table, name |-> i.name, handle |-> 0, new |-> None]
            /\ i.obj \in Kinds /\ i.obj # "table" /\ i.name # None
<1> DEFINE m == Msg(type, i.obj, Inner(c, i.obj, i.name, FALSE))
<1>1. m = [type |-> type, obj |-> i.obj, table |-> c.table, name |-> i.name, handle |-> 0, new |-> None]
  BY DEF Msg, Inner, Cmd
<1> HIDE DEF m
<1>2. c.table \in Name
  BY DEF Command
<1>3. i.obj \in Kinds /\ i.obj # "table" /\ i.name \in Name /\ i.name # None
  BY DEF Item
<1>4. None \in Name
  BY DEF Name
<1>5. m.type = type /\ m.obj = i.obj /\ m.name = i.name
  BY <1>1
<1>6. m \in [type : {"new", "create", "delete", "destroy", "need", "flush", "rename"},
           obj : Kinds \cup {"rule", "elements", "setelems", "ruleset"},
           table : Name, name : Name, handle : Nat, new : Name]
  BY <1>1, <1>2, <1>3, <1>4
<1>7. m \in Message
  BY <1>3, <1>5, <1>6 DEF Message
<1> QED BY <1>1, <1>3, <1>7 DEF m

\* An item leads from ruleset to ruleset.
LEMMA ItemStates ==
  ASSUME NEW s \in States, NEW c \in Command, NEW i \in Item
  PROVE  ItemMeaning(s, c, i) \in States
<1> DEFINE m(type) == Msg(type, i.obj, Inner(c, i.obj, i.name, FALSE))
<1>1. m("new") \in Message /\ m("need") \in Message
  BY ItemFacts
<1>2. ItemMeaning(s, c, i) = IF i.body THEN Apply(Apply(s, m("new")), m("need")) ELSE Apply(s, m("new"))
  BY DEF ItemMeaning
<1> HIDE DEF m
<1> QED BY <1>1, <1>2, ApplyFacts

SentAll(s, q) == FoldLeft(Apply, s, q)

MessagesFold == INSTANCE FoldFacts WITH Op <- LAMBDA p, s, m : Apply(s, m)

\* Messages lead from ruleset to ruleset.
LEMMA MessagesRun ==
  ASSUME NEW s \in States
  PROVE  /\ SentAll(s, <<>>) = s
         /\ \A m \in Message : Apply(s, m) \in States /\ SentAll(s, <<m>>) = Apply(s, m)
         /\ \A q \in Seq(Message) :
              /\ SentAll(s, q) \in States
              /\ \A m \in Message : \A t : IsAppend(t, q, m) => SentAll(s, t) = Apply(SentAll(s, q), m)
              /\ \A t \in Seq(Message) : \A u : IsConcat(u, q, t) => SentAll(s, u) = SentAll(SentAll(s, q), t)
<1>1. \A r, q : SentAll(r, q) = MessagesFold!Fold(0, r, q)
  BY Zenon DEF MessagesFold!Fold, MessagesFold!FoldLeft, FoldLeft, MessagesFold!MapThenFoldSet, MapThenFoldSet, MessagesFold!Max, Max, SentAll
<1>2. \A r \in States : \A m \in Message : Apply(r, m) \in States
  BY ApplyFacts
<1>3. \A q \in Seq(Message) : MessagesFold!Fold(0, s, q) \in States
  BY <1>2, MessagesFold!FoldInvariant
<1>4. \A m : MessagesFold!Fold(0, s, <<m>>) = Apply(s, m)
  BY MessagesFold!FoldOne
<1>5. MessagesFold!Fold(0, s, <<>>) = s
  BY MessagesFold!FoldEmpty
<1>6. \A q \in Seq(Message) : \A m \in Message : \A t :
        MessagesFold!IsAppend(t, q, m) => MessagesFold!Fold(0, s, t) = Apply(MessagesFold!Fold(0, s, q), m)
  <2> SUFFICES ASSUME NEW q \in Seq(Message), NEW m \in Message, NEW t, MessagesFold!IsAppend(t, q, m)
               PROVE  MessagesFold!Fold(0, s, t) = Apply(MessagesFold!Fold(0, s, q), m)
    OBVIOUS
  <2> QED BY MessagesFold!FoldAppend
<1>7. \A q \in Seq(Message) : \A t \in Seq(Message) : \A u :
        MessagesFold!IsConcat(u, q, t) => MessagesFold!Fold(0, s, u) = MessagesFold!Fold(0, MessagesFold!Fold(0, s, q), t)
  BY MessagesFold!FoldConcat
<1>8. \A t, q, m : IsAppend(t, q, m) => MessagesFold!IsAppend(t, q, m)
  BY DEF IsAppend, MessagesFold!IsAppend
<1>9. \A u, q, t : IsConcat(u, q, t) => MessagesFold!IsConcat(u, q, t)
  BY DEF IsConcat, MessagesFold!IsConcat
<1>10. \A m \in Message : SentAll(s, <<m>>) = Apply(s, m)
  BY <1>1, <1>4, Zenon
<1>11. \A q \in Seq(Message) : SentAll(s, q) \in States
  BY <1>1, <1>3, Zenon
<1>12. ASSUME NEW q \in Seq(Message)
      PROVE  \A m \in Message : \A t : IsAppend(t, q, m) => SentAll(s, t) = Apply(SentAll(s, q), m)
  BY <1>1, <1>6, <1>8, Zenon
<1>13. ASSUME NEW q \in Seq(Message)
      PROVE  \A t \in Seq(Message) : \A u : IsConcat(u, q, t) => SentAll(s, u) = SentAll(SentAll(s, q), t)
  <2> SUFFICES ASSUME NEW t \in Seq(Message), NEW u, IsConcat(u, q, t) PROVE SentAll(s, u) = SentAll(SentAll(s, q), t)
    OBVIOUS
  <2> DEFINE r == MessagesFold!Fold(0, s, q)
  <2>1. MessagesFold!Fold(0, s, u) = MessagesFold!Fold(0, r, t)
    BY <1>7, <1>9
  <2>2. SentAll(s, q) = r
    BY <1>1, Zenon
  <2> HIDE DEF r
  <2>3. SentAll(r, t) = MessagesFold!Fold(0, r, t)
    BY <1>1, Zenon
  <2>4. SentAll(s, u) = MessagesFold!Fold(0, s, u)
    BY <1>1, Zenon
  <2> QED BY <2>1, <2>2, <2>3, <2>4, Zenon
<1>14. s \in States
  OBVIOUS
<1> QED BY <1>1, <1>2, <1>5, <1>10, <1>11, <1>12, <1>13, <1>14, Zenon

\* One more of them.
LEMMA MessagesStep ==
  ASSUME NEW s \in States, NEW q \in Seq(Message), NEW x \in Message, NEW t, IsAppend(t, q, x)
  PROVE  /\ SentAll(s, q) \in States
         /\ SentAll(s, t) = Apply(SentAll(s, q), x)
<1>1. \A m \in Message : \A v : IsAppend(v, q, m) => SentAll(s, v) = Apply(SentAll(s, q), m)
  BY MessagesRun
<1>2. \A v : IsAppend(v, q, x) => SentAll(s, v) = Apply(SentAll(s, q), x)
  BY <1>1
<1>3. IsAppend(t, q, x) => SentAll(s, t) = Apply(SentAll(s, q), x)
  BY <1>2
<1>4. SentAll(s, q) \in States
  BY MessagesRun
<1> QED BY <1>3, <1>4

SeesFold == INSTANCE FoldFacts WITH Op <- LAMBDA p, s, c : Sees(s, c)

\* So do commands, by what they mean,
LEMMA SeesRun ==
  ASSUME NEW s \in States
  PROVE  /\ SeesAll(s, <<>>) = s
         /\ \A c \in Command : Sees(s, c) \in States /\ SeesAll(s, <<c>>) = Sees(s, c)
         /\ \A q \in Seq(Command) :
              /\ SeesAll(s, q) \in States
              /\ \A c \in Command : \A t : IsAppend(t, q, c) => SeesAll(s, t) = Sees(SeesAll(s, q), c)
              /\ \A t \in Seq(Command) : \A u : IsConcat(u, q, t) => SeesAll(s, u) = SeesAll(SeesAll(s, q), t)
<1>1. \A r, q : SeesAll(r, q) = SeesFold!Fold(0, r, q)
  BY Zenon DEF SeesFold!Fold, SeesFold!FoldLeft, FoldLeft, SeesFold!MapThenFoldSet, MapThenFoldSet, SeesFold!Max, Max, SeesAll
<1>2. \A r \in States : \A c \in Command : Sees(r, c) \in States
  BY ApplyFacts, MeaningFacts DEF Sees
<1>3. \A q \in Seq(Command) : SeesFold!Fold(0, s, q) \in States
  BY <1>2, SeesFold!FoldInvariant
<1>4. \A c : SeesFold!Fold(0, s, <<c>>) = Sees(s, c)
  BY SeesFold!FoldOne
<1>5. SeesFold!Fold(0, s, <<>>) = s
  BY SeesFold!FoldEmpty
<1>6. \A q \in Seq(Command) : \A c \in Command : \A t :
        SeesFold!IsAppend(t, q, c) => SeesFold!Fold(0, s, t) = Sees(SeesFold!Fold(0, s, q), c)
  <2> SUFFICES ASSUME NEW q \in Seq(Command), NEW c \in Command, NEW t, SeesFold!IsAppend(t, q, c)
               PROVE  SeesFold!Fold(0, s, t) = Sees(SeesFold!Fold(0, s, q), c)
    OBVIOUS
  <2> QED BY SeesFold!FoldAppend
<1>7. \A q \in Seq(Command) : \A t \in Seq(Command) : \A u :
        SeesFold!IsConcat(u, q, t) => SeesFold!Fold(0, s, u) = SeesFold!Fold(0, SeesFold!Fold(0, s, q), t)
  BY SeesFold!FoldConcat
<1>8. \A t, q, c : IsAppend(t, q, c) => SeesFold!IsAppend(t, q, c)
  BY DEF IsAppend, SeesFold!IsAppend
<1>9. \A u, q, t : IsConcat(u, q, t) => SeesFold!IsConcat(u, q, t)
  BY DEF IsConcat, SeesFold!IsConcat
<1>10. \A c \in Command : SeesAll(s, <<c>>) = Sees(s, c)
  BY <1>1, <1>4, Zenon
<1>11. \A q \in Seq(Command) : SeesAll(s, q) \in States
  BY <1>1, <1>3, Zenon
<1>12. ASSUME NEW q \in Seq(Command)
      PROVE  \A c \in Command : \A t : IsAppend(t, q, c) => SeesAll(s, t) = Sees(SeesAll(s, q), c)
  BY <1>1, <1>6, <1>8, Zenon
<1>13. ASSUME NEW q \in Seq(Command)
      PROVE  \A t \in Seq(Command) : \A u : IsConcat(u, q, t) => SeesAll(s, u) = SeesAll(SeesAll(s, q), t)
  <2> SUFFICES ASSUME NEW t \in Seq(Command), NEW u, IsConcat(u, q, t) PROVE SeesAll(s, u) = SeesAll(SeesAll(s, q), t)
    OBVIOUS
  <2> DEFINE r == SeesFold!Fold(0, s, q)
  <2>1. SeesFold!Fold(0, s, u) = SeesFold!Fold(0, r, t)
    BY <1>7, <1>9
  <2>2. SeesAll(s, q) = r
    BY <1>1, Zenon
  <2> HIDE DEF r
  <2>3. SeesAll(r, t) = SeesFold!Fold(0, r, t)
    BY <1>1, Zenon
  <2>4. SeesAll(s, u) = SeesFold!Fold(0, s, u)
    BY <1>1, Zenon
  <2> QED BY <2>1, <2>2, <2>3, <2>4, Zenon
<1>14. s \in States
  OBVIOUS
<1> QED BY <1>1, <1>2, <1>5, <1>10, <1>11, <1>12, <1>13, <1>14, Zenon

\* One more of them.
LEMMA SeesStep ==
  ASSUME NEW s \in States, NEW q \in Seq(Command), NEW x \in Command, NEW t, IsAppend(t, q, x)
  PROVE  /\ SeesAll(s, q) \in States
         /\ SeesAll(s, t) = Sees(SeesAll(s, q), x)
<1>1. \A c \in Command : \A v : IsAppend(v, q, c) => SeesAll(s, v) = Sees(SeesAll(s, q), c)
  BY SeesRun
<1>2. \A v : IsAppend(v, q, x) => SeesAll(s, v) = Sees(SeesAll(s, q), x)
  BY <1>1
<1>3. IsAppend(t, q, x) => SeesAll(s, t) = Sees(SeesAll(s, q), x)
  BY <1>2
<1>4. SeesAll(s, q) \in States
  BY SeesRun
<1> QED BY <1>3, <1>4

DoesFold == INSTANCE FoldFacts WITH Op <- LAMBDA p, s, c : Does(s, c)

\* by the messages they are sent as,
LEMMA DoesRun ==
  ASSUME NEW s \in States
  PROVE  /\ DoesAll(s, <<>>) = s
         /\ \A c \in Command : Does(s, c) \in States /\ DoesAll(s, <<c>>) = Does(s, c)
         /\ \A q \in Seq(Command) :
              /\ DoesAll(s, q) \in States
              /\ \A c \in Command : \A t : IsAppend(t, q, c) => DoesAll(s, t) = Does(DoesAll(s, q), c)
              /\ \A t \in Seq(Command) : \A u : IsConcat(u, q, t) => DoesAll(s, u) = DoesAll(DoesAll(s, q), t)
<1>1. \A r, q : DoesAll(r, q) = DoesFold!Fold(0, r, q)
  BY Zenon DEF DoesFold!Fold, DoesFold!FoldLeft, FoldLeft, DoesFold!MapThenFoldSet, MapThenFoldSet, DoesFold!Max, Max, DoesAll
<1>2. \A r \in States : \A c \in Command : Does(r, c) \in States
  BY ApplyFacts, MeaningFacts DEF Sees, Does
<1>3. \A q \in Seq(Command) : DoesFold!Fold(0, s, q) \in States
  BY <1>2, DoesFold!FoldInvariant
<1>4. \A c : DoesFold!Fold(0, s, <<c>>) = Does(s, c)
  BY DoesFold!FoldOne
<1>5. DoesFold!Fold(0, s, <<>>) = s
  BY DoesFold!FoldEmpty
<1>6. \A q \in Seq(Command) : \A c \in Command : \A t :
        DoesFold!IsAppend(t, q, c) => DoesFold!Fold(0, s, t) = Does(DoesFold!Fold(0, s, q), c)
  <2> SUFFICES ASSUME NEW q \in Seq(Command), NEW c \in Command, NEW t, DoesFold!IsAppend(t, q, c)
               PROVE  DoesFold!Fold(0, s, t) = Does(DoesFold!Fold(0, s, q), c)
    OBVIOUS
  <2> QED BY DoesFold!FoldAppend
<1>7. \A q \in Seq(Command) : \A t \in Seq(Command) : \A u :
        DoesFold!IsConcat(u, q, t) => DoesFold!Fold(0, s, u) = DoesFold!Fold(0, DoesFold!Fold(0, s, q), t)
  BY DoesFold!FoldConcat
<1>8. \A t, q, c : IsAppend(t, q, c) => DoesFold!IsAppend(t, q, c)
  BY DEF IsAppend, DoesFold!IsAppend
<1>9. \A u, q, t : IsConcat(u, q, t) => DoesFold!IsConcat(u, q, t)
  BY DEF IsConcat, DoesFold!IsConcat
<1>10. \A c \in Command : DoesAll(s, <<c>>) = Does(s, c)
  BY <1>1, <1>4, Zenon
<1>11. \A q \in Seq(Command) : DoesAll(s, q) \in States
  BY <1>1, <1>3, Zenon
<1>12. ASSUME NEW q \in Seq(Command)
      PROVE  \A c \in Command : \A t : IsAppend(t, q, c) => DoesAll(s, t) = Does(DoesAll(s, q), c)
  BY <1>1, <1>6, <1>8, Zenon
<1>13. ASSUME NEW q \in Seq(Command)
      PROVE  \A t \in Seq(Command) : \A u : IsConcat(u, q, t) => DoesAll(s, u) = DoesAll(DoesAll(s, q), t)
  <2> SUFFICES ASSUME NEW t \in Seq(Command), NEW u, IsConcat(u, q, t) PROVE DoesAll(s, u) = DoesAll(DoesAll(s, q), t)
    OBVIOUS
  <2> DEFINE r == DoesFold!Fold(0, s, q)
  <2>1. DoesFold!Fold(0, s, u) = DoesFold!Fold(0, r, t)
    BY <1>7, <1>9
  <2>2. DoesAll(s, q) = r
    BY <1>1, Zenon
  <2> HIDE DEF r
  <2>3. DoesAll(r, t) = DoesFold!Fold(0, r, t)
    BY <1>1, Zenon
  <2>4. DoesAll(s, u) = DoesFold!Fold(0, s, u)
    BY <1>1, Zenon
  <2> QED BY <2>1, <2>2, <2>3, <2>4, Zenon
<1>14. s \in States
  OBVIOUS
<1> QED BY <1>1, <1>2, <1>5, <1>10, <1>11, <1>12, <1>13, <1>14, Zenon

\* One more of them.
LEMMA DoesStep ==
  ASSUME NEW s \in States, NEW q \in Seq(Command), NEW x \in Command, NEW t, IsAppend(t, q, x)
  PROVE  /\ DoesAll(s, q) \in States
         /\ DoesAll(s, t) = Does(DoesAll(s, q), x)
<1>1. \A c \in Command : \A v : IsAppend(v, q, c) => DoesAll(s, v) = Does(DoesAll(s, q), c)
  BY DoesRun
<1>2. \A v : IsAppend(v, q, x) => DoesAll(s, v) = Does(DoesAll(s, q), x)
  BY <1>1
<1>3. IsAppend(t, q, x) => DoesAll(s, t) = Does(DoesAll(s, q), x)
  BY <1>2
<1>4. DoesAll(s, q) \in States
  BY DoesRun
<1> QED BY <1>3, <1>4

Items(cmd, s, q) == FoldLeft(LAMBDA r, i : ItemMeaning(r, cmd, i), s, q)

ItemsFold == INSTANCE FoldFacts WITH Op <- LAMBDA p, s, i : ItemMeaning(s, p, i)

\* the items of a block,
LEMMA ItemsRun ==
  ASSUME NEW s \in States, NEW cmd \in Command
  PROVE  /\ Items(cmd, s, <<>>) = s
         /\ \A i \in Item : ItemMeaning(s, cmd, i) \in States /\ Items(cmd, s, <<i>>) = ItemMeaning(s, cmd, i)
         /\ \A q \in Seq(Item) :
              /\ Items(cmd, s, q) \in States
              /\ \A i \in Item : \A t : IsAppend(t, q, i) => Items(cmd, s, t) = ItemMeaning(Items(cmd, s, q), cmd, i)
              /\ \A t \in Seq(Item) : \A u : IsConcat(u, q, t) => Items(cmd, s, u) = Items(cmd, Items(cmd, s, q), t)
<1>1. \A r, q : Items(cmd, r, q) = ItemsFold!Fold(cmd, r, q)
  BY Zenon DEF ItemsFold!Fold, ItemsFold!FoldLeft, FoldLeft, ItemsFold!MapThenFoldSet, MapThenFoldSet, ItemsFold!Max, Max, Items
<1>2. \A r \in States : \A i \in Item : ItemMeaning(r, cmd, i) \in States
  BY ItemStates
<1>3. \A q \in Seq(Item) : ItemsFold!Fold(cmd, s, q) \in States
  BY <1>2, ItemsFold!FoldInvariant
<1>4. \A i : ItemsFold!Fold(cmd, s, <<i>>) = ItemMeaning(s, cmd, i)
  BY ItemsFold!FoldOne
<1>5. ItemsFold!Fold(cmd, s, <<>>) = s
  BY ItemsFold!FoldEmpty
<1>6. \A q \in Seq(Item) : \A i \in Item : \A t :
        ItemsFold!IsAppend(t, q, i) => ItemsFold!Fold(cmd, s, t) = ItemMeaning(ItemsFold!Fold(cmd, s, q), cmd, i)
  <2> SUFFICES ASSUME NEW q \in Seq(Item), NEW i \in Item, NEW t, ItemsFold!IsAppend(t, q, i)
               PROVE  ItemsFold!Fold(cmd, s, t) = ItemMeaning(ItemsFold!Fold(cmd, s, q), cmd, i)
    OBVIOUS
  <2> QED BY ItemsFold!FoldAppend
<1>7. \A q \in Seq(Item) : \A t \in Seq(Item) : \A u :
        ItemsFold!IsConcat(u, q, t) => ItemsFold!Fold(cmd, s, u) = ItemsFold!Fold(cmd, ItemsFold!Fold(cmd, s, q), t)
  BY ItemsFold!FoldConcat
<1>8. \A t, q, i : IsAppend(t, q, i) => ItemsFold!IsAppend(t, q, i)
  BY DEF IsAppend, ItemsFold!IsAppend
<1>9. \A u, q, t : IsConcat(u, q, t) => ItemsFold!IsConcat(u, q, t)
  BY DEF IsConcat, ItemsFold!IsConcat
<1>10. \A i \in Item : Items(cmd, s, <<i>>) = ItemMeaning(s, cmd, i)
  BY <1>1, <1>4, Zenon
<1>11. \A q \in Seq(Item) : Items(cmd, s, q) \in States
  BY <1>1, <1>3, Zenon
<1>12. ASSUME NEW q \in Seq(Item)
      PROVE  \A i \in Item : \A t : IsAppend(t, q, i) => Items(cmd, s, t) = ItemMeaning(Items(cmd, s, q), cmd, i)
  BY <1>1, <1>6, <1>8, Zenon
<1>13. ASSUME NEW q \in Seq(Item)
      PROVE  \A t \in Seq(Item) : \A u : IsConcat(u, q, t) => Items(cmd, s, u) = Items(cmd, Items(cmd, s, q), t)
  <2> SUFFICES ASSUME NEW t \in Seq(Item), NEW u, IsConcat(u, q, t) PROVE Items(cmd, s, u) = Items(cmd, Items(cmd, s, q), t)
    OBVIOUS
  <2> DEFINE r == ItemsFold!Fold(cmd, s, q)
  <2>1. ItemsFold!Fold(cmd, s, u) = ItemsFold!Fold(cmd, r, t)
    BY <1>7, <1>9
  <2>2. Items(cmd, s, q) = r
    BY <1>1, Zenon
  <2> HIDE DEF r
  <2>3. Items(cmd, r, t) = ItemsFold!Fold(cmd, r, t)
    BY <1>1, Zenon
  <2>4. Items(cmd, s, u) = ItemsFold!Fold(cmd, s, u)
    BY <1>1, Zenon
  <2> QED BY <2>1, <2>2, <2>3, <2>4, Zenon
<1>14. s \in States
  OBVIOUS
<1> QED BY <1>1, <1>2, <1>5, <1>10, <1>11, <1>12, <1>13, <1>14, Zenon

\* One more of them.
LEMMA ItemsStep ==
  ASSUME NEW s \in States, NEW cmd \in Command, NEW q \in Seq(Item), NEW x \in Item, NEW t, IsAppend(t, q, x)
  PROVE  /\ Items(cmd, s, q) \in States
         /\ Items(cmd, s, t) = ItemMeaning(Items(cmd, s, q), cmd, x)
<1>1. \A i \in Item : \A v : IsAppend(v, q, i) => Items(cmd, s, v) = ItemMeaning(Items(cmd, s, q), cmd, i)
  BY ItemsRun
<1>2. \A v : IsAppend(v, q, x) => Items(cmd, s, v) = ItemMeaning(Items(cmd, s, q), cmd, x)
  BY <1>1
<1>3. IsAppend(t, q, x) => Items(cmd, s, t) = ItemMeaning(Items(cmd, s, q), cmd, x)
  BY <1>2
<1>4. Items(cmd, s, q) \in States
  BY ItemsRun
<1> QED BY <1>3, <1>4

MeansAll(s, q) == FoldLeft(Meaning, s, q)

MeaningsFold == INSTANCE FoldFacts WITH Op <- LAMBDA p, s, c : Meaning(s, c)

\* and commands with their blocks.
LEMMA MeaningsRun ==
  ASSUME NEW s \in States
  PROVE  /\ MeansAll(s, <<>>) = s
         /\ \A c \in Command : Meaning(s, c) \in States /\ MeansAll(s, <<c>>) = Meaning(s, c)
         /\ \A q \in Seq(Command) :
              /\ MeansAll(s, q) \in States
              /\ \A c \in Command : \A t : IsAppend(t, q, c) => MeansAll(s, t) = Meaning(MeansAll(s, q), c)
              /\ \A t \in Seq(Command) : \A u : IsConcat(u, q, t) => MeansAll(s, u) = MeansAll(MeansAll(s, q), t)
<1>1. \A r, q : MeansAll(r, q) = MeaningsFold!Fold(0, r, q)
  BY Zenon DEF MeaningsFold!Fold, MeaningsFold!FoldLeft, FoldLeft, MeaningsFold!MapThenFoldSet, MapThenFoldSet, MeaningsFold!Max, Max, MeansAll
<1>2. \A r \in States : \A c \in Command : Meaning(r, c) \in States
  <2> SUFFICES ASSUME NEW r \in States, NEW c \in Command PROVE Meaning(r, c) \in States
    OBVIOUS
  <2>1. Meaning(r, c) = Items(c, Apply(r, OwnMeaning(c)), c.block)
    BY DEF Meaning, Items
  <2>2. Apply(r, OwnMeaning(c)) \in States
    BY ApplyFacts, MeaningFacts
  <2>3. c.block \in Seq(Item)
    BY DEF Command
  <2> QED BY <2>1, <2>2, <2>3, ItemsRun
<1>3. \A q \in Seq(Command) : MeaningsFold!Fold(0, s, q) \in States
  BY <1>2, MeaningsFold!FoldInvariant
<1>4. \A c : MeaningsFold!Fold(0, s, <<c>>) = Meaning(s, c)
  BY MeaningsFold!FoldOne
<1>5. MeaningsFold!Fold(0, s, <<>>) = s
  BY MeaningsFold!FoldEmpty
<1>6. \A q \in Seq(Command) : \A c \in Command : \A t :
        MeaningsFold!IsAppend(t, q, c) => MeaningsFold!Fold(0, s, t) = Meaning(MeaningsFold!Fold(0, s, q), c)
  <2> SUFFICES ASSUME NEW q \in Seq(Command), NEW c \in Command, NEW t, MeaningsFold!IsAppend(t, q, c)
               PROVE  MeaningsFold!Fold(0, s, t) = Meaning(MeaningsFold!Fold(0, s, q), c)
    OBVIOUS
  <2> QED BY MeaningsFold!FoldAppend
<1>7. \A q \in Seq(Command) : \A t \in Seq(Command) : \A u :
        MeaningsFold!IsConcat(u, q, t) => MeaningsFold!Fold(0, s, u) = MeaningsFold!Fold(0, MeaningsFold!Fold(0, s, q), t)
  BY MeaningsFold!FoldConcat
<1>8. \A t, q, c : IsAppend(t, q, c) => MeaningsFold!IsAppend(t, q, c)
  BY DEF IsAppend, MeaningsFold!IsAppend
<1>9. \A u, q, t : IsConcat(u, q, t) => MeaningsFold!IsConcat(u, q, t)
  BY DEF IsConcat, MeaningsFold!IsConcat
<1>10. \A c \in Command : MeansAll(s, <<c>>) = Meaning(s, c)
  BY <1>1, <1>4, Zenon
<1>11. \A q \in Seq(Command) : MeansAll(s, q) \in States
  BY <1>1, <1>3, Zenon
<1>12. ASSUME NEW q \in Seq(Command)
      PROVE  \A c \in Command : \A t : IsAppend(t, q, c) => MeansAll(s, t) = Meaning(MeansAll(s, q), c)
  BY <1>1, <1>6, <1>8, Zenon
<1>13. ASSUME NEW q \in Seq(Command)
      PROVE  \A t \in Seq(Command) : \A u : IsConcat(u, q, t) => MeansAll(s, u) = MeansAll(MeansAll(s, q), t)
  <2> SUFFICES ASSUME NEW t \in Seq(Command), NEW u, IsConcat(u, q, t) PROVE MeansAll(s, u) = MeansAll(MeansAll(s, q), t)
    OBVIOUS
  <2> DEFINE r == MeaningsFold!Fold(0, s, q)
  <2>1. MeaningsFold!Fold(0, s, u) = MeaningsFold!Fold(0, r, t)
    BY <1>7, <1>9
  <2>2. MeansAll(s, q) = r
    BY <1>1, Zenon
  <2> HIDE DEF r
  <2>3. MeansAll(r, t) = MeaningsFold!Fold(0, r, t)
    BY <1>1, Zenon
  <2>4. MeansAll(s, u) = MeaningsFold!Fold(0, s, u)
    BY <1>1, Zenon
  <2> QED BY <2>1, <2>2, <2>3, <2>4, Zenon
<1>14. s \in States
  OBVIOUS
<1> QED BY <1>1, <1>2, <1>5, <1>10, <1>11, <1>12, <1>13, <1>14, Zenon

\* One more of them.
LEMMA MeaningsStep ==
  ASSUME NEW s \in States, NEW q \in Seq(Command), NEW x \in Command, NEW t, IsAppend(t, q, x)
  PROVE  /\ MeansAll(s, q) \in States
         /\ MeansAll(s, t) = Meaning(MeansAll(s, q), x)
<1>1. \A c \in Command : \A v : IsAppend(v, q, c) => MeansAll(s, v) = Meaning(MeansAll(s, q), c)
  BY MeaningsRun
<1>2. \A v : IsAppend(v, q, x) => MeansAll(s, v) = Meaning(MeansAll(s, q), x)
  BY <1>1
<1>3. IsAppend(t, q, x) => MeansAll(s, t) = Meaning(MeansAll(s, q), x)
  BY <1>2
<1>4. MeansAll(s, q) \in States
  BY MeaningsRun
<1> QED BY <1>3, <1>4

-----------------------------------------------------------------------------
(* What nft_cmd_expand() makes of a block. *)

\* The commands of a block on the objects of some kinds, and on their contents.
Inners(cmd, objs) ==
  {c \in Command : /\ c.op = "add" /\ c.obj \in objs /\ c.table = cmd.table /\ c.block = <<>>
                   /\ c.handle = 0 /\ c.new = None}

\* A command of a block.
LEMMA InnerFacts ==
  ASSUME NEW c \in Command, NEW obj \in (Kinds \ {"table"}) \cup {"rule", "setelems"},
         NEW n \in Name, n # None, NEW b \in BOOLEAN, NEW x, x = Inner(c, obj, n, b)
  PROVE  /\ x \in Inners(c, {obj}) /\ x.name = n
<1>1. c.table \in Name
  BY DEF Command
<1>2. None \in Name
  BY DEF Name
<1>3. x = [op |-> "add", obj |-> obj, table |-> c.table, name |-> n, handle |-> 0,
           new |-> None, body |-> b, block |-> <<>>]
  BY DEF Inner, Cmd
<1>4. <<>> \in Seq(Item)
  OBVIOUS
<1>5. x \in [op : {"add", "create", "delete", "destroy", "flush", "rename", "list", "get"},
          obj : Kinds \cup {"rule", "elements", "setelems", "ruleset"},
          table : Name, name : Name, handle : Nat, new : Name,
          body : BOOLEAN, block : Seq(Item)]
  BY <1>1, <1>2, <1>3, <1>4
<1>6. x.op = "add" /\ x.obj = obj /\ x.table = c.table /\ x.name = n /\ x.handle = 0 /\ x.new = None
      /\ x.block = <<>>
  BY <1>3
<1>7. obj # "table" /\ obj # "ruleset"
  BY DEF Kinds
<1>8. x \in Command
  BY <1>5, <1>6, <1>7 DEF Command
<1> QED BY <1>6, <1>8 DEF Inners

DeclareOne(own, cmd, obj, i) ==
  IF i.obj = obj THEN Append(own, Inner(cmd, obj, i.name, i.body /\ obj = "set")) ELSE own

DeclaredOf(cmd, obj, q) ==
  FoldLeft(LAMBDA own, i :
             IF i.obj = obj THEN Append(own, Inner(cmd, obj, i.name, i.body /\ obj = "set")) ELSE own,
           <<>>, q)

DeclareFold == INSTANCE FoldFacts WITH Op <- LAMBDA p, own, i : DeclareOne(own, p.cmd, p.obj, i)

\* The objects of a kind that a block declares, item by item.
LEMMA DeclaredFacts ==
  ASSUME NEW c \in Command, NEW obj \in Kinds \ {"table"}
  PROVE  /\ DeclaredOf(c, obj, <<>>) = <<>>
         /\ \A q \in Seq(Item) :
              /\ DeclaredOf(c, obj, q) \in Seq(Inners(c, {obj}))
              /\ \A i \in Item : \A t : IsAppend(t, q, i) =>
                   /\ i.obj # obj => DeclaredOf(c, obj, t) = DeclaredOf(c, obj, q)
                   /\ i.obj = obj => \E x \in Inners(c, {obj}) :
                        x.name = i.name /\ IsAppend(DeclaredOf(c, obj, t), DeclaredOf(c, obj, q), x)
<1> DEFINE p == [cmd |-> c, obj |-> obj]
<1>1. p.cmd = c /\ p.obj = obj
  OBVIOUS
<1> HIDE DEF p
<1>2. \A q : DeclaredOf(c, obj, q) = DeclareFold!Fold(p, <<>>, q)
  <2>1. \A q : DeclaredOf(p.cmd, p.obj, q) = DeclareFold!Fold(p, <<>>, q)
    BY Zenon DEF DeclaredOf, DeclareOne, DeclareFold!Fold, DeclareFold!FoldLeft, FoldLeft, DeclareFold!MapThenFoldSet,
       MapThenFoldSet, DeclareFold!Max, Max
  <2> QED BY <1>1, <2>1, Zenon
<1>3. DeclareFold!Fold(p, <<>>, <<>>) = <<>>
  BY DeclareFold!FoldEmpty
<1>4. ASSUME NEW i \in Item, i.obj = obj
      PROVE  \E x \in Inners(c, {obj}) : x.name = i.name /\
               \A own : IsAppend(DeclareOne(own, c, obj, i), own, x)
  <2> DEFINE b == i.body /\ obj = "set"
             x == Inner(c, obj, i.name, b)
  <2>1. i.name \in Name /\ i.name # None /\ b \in BOOLEAN
    BY DEF Item
  <2> HIDE DEF b
  <2>2. x \in Inners(c, {obj}) /\ x.name = i.name
    BY <2>1, InnerFacts
  <2>3. \A own : DeclareOne(own, c, obj, i) = Append(own, x)
    BY <1>4, Zenon DEF DeclareOne, b
  <2> HIDE DEF x
  <2> QED BY <2>2, <2>3 DEF IsAppend
<1>5. \A i \in Item : i.obj # obj => \A own : DeclareOne(own, c, obj, i) = own
  BY Zenon DEF DeclareOne
<1>6. \A own \in Seq(Inners(c, {obj})) : \A i \in Item : DeclareOne(own, c, obj, i) \in Seq(Inners(c, {obj}))
  <2> SUFFICES ASSUME NEW own \in Seq(Inners(c, {obj})), NEW i \in Item
               PROVE DeclareOne(own, c, obj, i) \in Seq(Inners(c, {obj}))
    OBVIOUS
  <2>1. CASE i.obj # obj
    BY <1>5, <2>1, Zenon
  <2>2. CASE i.obj = obj
    <3>1. PICK x \in Inners(c, {obj}) : IsAppend(DeclareOne(own, c, obj, i), own, x)
      BY <1>4, <2>2
    <3> QED BY <3>1, AppendFacts
  <2> QED BY <2>1, <2>2
<1>7. \A q \in Seq(Item) : DeclareFold!Fold(p, <<>>, q) \in Seq(Inners(c, {obj}))
  <2>1. <<>> \in Seq(Inners(c, {obj}))
    OBVIOUS
  <2> QED BY <1>1, <1>6, <2>1, DeclareFold!FoldInvariant
<1>8. ASSUME NEW q \in Seq(Item), NEW i \in Item, NEW t, IsAppend(t, q, i)
      PROVE  DeclareFold!Fold(p, <<>>, t) = DeclareOne(DeclareFold!Fold(p, <<>>, q), c, obj, i)
  <2>1. DeclareFold!IsAppend(t, q, i)
    BY <1>8 DEF IsAppend, DeclareFold!IsAppend
  <2> QED BY <1>1, <2>1, DeclareFold!FoldAppend
<1>9. DeclaredOf(c, obj, <<>>) = <<>>
  BY <1>2, <1>3, Zenon
<1>10. \A q \in Seq(Item) : DeclaredOf(c, obj, q) \in Seq(Inners(c, {obj}))
  BY <1>2, <1>7, Zenon
<1>11. ASSUME NEW q \in Seq(Item), NEW i \in Item, NEW t, IsAppend(t, q, i)
       PROVE  /\ i.obj # obj => DeclaredOf(c, obj, t) = DeclaredOf(c, obj, q)
              /\ i.obj = obj => \E x \in Inners(c, {obj}) :
                   x.name = i.name /\ IsAppend(DeclaredOf(c, obj, t), DeclaredOf(c, obj, q), x)
  <2>1. DeclaredOf(c, obj, t) = DeclareOne(DeclaredOf(c, obj, q), c, obj, i)
    BY <1>2, <1>8, <1>11, Zenon
  <2> QED BY <1>4, <1>5, <2>1, Zenon
<1> QED BY <1>9, <1>10, <1>11, Zenon

RuleOne(own, cmd, i) ==
  IF i.obj = "chain" /\ i.body THEN Append(own, Inner(cmd, "rule", i.name, FALSE)) ELSE own

RuleFold == INSTANCE FoldFacts WITH Op <- LAMBDA p, own, i : RuleOne(own, p, i)

\* A rule of a block.
LEMMA RuleInner ==
  ASSUME NEW c \in Command, NEW n \in Name, n # None
  PROVE  \E x \in Inners(c, {"rule"}) : x.name = n /\ x = Inner(c, "rule", n, FALSE)
<1> DEFINE b == FALSE
           o == "rule"
           x == Inner(c, o, n, b)
<1>1. b \in BOOLEAN /\ o \in (Kinds \ {"table"}) \cup {"rule", "setelems"}
  OBVIOUS
<1> HIDE DEF b, o
<1>2. x \in Inners(c, {o}) /\ x.name = n
  BY <1>1, InnerFacts
<1> HIDE DEF x
<1>3. x = Inner(c, "rule", n, FALSE)
  BY Zenon DEF x, b, o
<1>4. Inners(c, {o}) = Inners(c, {"rule"})
  BY DEF o
<1> QED BY <1>2, <1>3, <1>4, Zenon

\* The rules of a block are those of its chains, whatever is true of them.
LEMMA RulesOfFacts ==
  ASSUME NEW c \in Command, NEW I, I \subseteq Item, NEW R,
         \A i \in I : \A x \in Inners(c, {"rule"}) : i.obj = "chain" /\ x.name = i.name => x \in R,
         c.block \in Seq(I)
  PROVE  RulesOf(c) \in Seq(R)
<1>1. RulesOf(c) = RuleFold!Fold(c, <<>>, c.block)
  BY Zenon DEF RulesOf, RuleOne, RuleFold!Fold, RuleFold!FoldLeft, FoldLeft, RuleFold!MapThenFoldSet,
     MapThenFoldSet, RuleFold!Max, Max
<1>2. \A own \in Seq(R) : \A i \in I : RuleOne(own, c, i) \in Seq(R)
  <2> SUFFICES ASSUME NEW own \in Seq(R), NEW i \in I PROVE RuleOne(own, c, i) \in Seq(R)
    OBVIOUS
  <2>1. i.name \in Name /\ i.name # None
    BY DEF Item
  <2>2. PICK x \in Inners(c, {"rule"}) :
          /\ x.name = i.name
          /\ RuleOne(own, c, i) = IF i.obj = "chain" /\ i.body THEN Append(own, x) ELSE own
    <3>1. PICK x \in Inners(c, {"rule"}) : x.name = i.name /\ x = Inner(c, "rule", i.name, FALSE)
      BY <2>1, RuleInner
    <3>2. RuleOne(own, c, i) = IF i.obj = "chain" /\ i.body THEN Append(own, x) ELSE own
      BY <3>1, Zenon DEF RuleOne
    <3> QED BY <3>1, <3>2
  <2>4. i.obj = "chain" => x \in R
    BY <2>2
  <2>5. CASE i.obj = "chain" /\ i.body
    <3>1. IsAppend(RuleOne(own, c, i), own, x)
      BY <2>2, <2>5 DEF IsAppend
    <3> QED BY <2>4, <2>5, <3>1, AppendFacts
  <2>6. CASE ~(i.obj = "chain" /\ i.body)
    BY <2>2, <2>6
  <2> QED BY <2>5, <2>6
<1>3. <<>> \in Seq(R)
  OBVIOUS
<1>4. RuleFold!Fold(c, <<>>, c.block) \in Seq(R)
  BY <1>2, <1>3, RuleFold!FoldInvariant
<1> QED BY <1>1, <1>4

-----------------------------------------------------------------------------
(* Reading a block from top to bottom and kind by kind is the same. *)

\* The creation of something in a table that is there never fails.
LEMMA NewState ==
  ASSUME NEW s \in States, NEW m \in Message, s.ok, m.type = "new", m.obj # "table",
         HasTable(s.objs, m.table), NEW r, r = Apply(s, m),
         NEW e, e = [obj |-> m.obj, table |-> m.table, name |-> m.name,
                     handle |-> IF m.obj = "chain" THEN s.last + 1 ELSE 0]
  PROVE  /\ r \in States /\ r.ok /\ HasTable(r.objs, m.table)
         /\ \A k, t, n : Present(r.objs, k, t, n) <=>
              Present(s.objs, k, t, n) \/ (k = m.obj /\ t = m.table /\ n = m.name)
         /\ Present(s.objs, m.obj, m.table, m.name) => r = s
         /\ ~Present(s.objs, m.obj, m.table, m.name) =>
              /\ r.objs = s.objs \cup {e}
              /\ r.last = IF m.obj = "chain" THEN s.last + 1 ELSE s.last
<1>1. m.obj \in Kinds /\ m.name # None
  BY DEF Message
<1>2. r \in States
  BY ApplyFacts
<1>3. Target(s.objs, m) # {} <=> Present(s.objs, m.obj, m.table, m.name)
  BY <1>1, TargetFacts
<1>4. CASE Present(s.objs, m.obj, m.table, m.name)
  <2>1. r = s
    BY <1>3, <1>4, ApplyCases
  <2> QED BY <1>4, <2>1
<1>5. CASE ~Present(s.objs, m.obj, m.table, m.name)
  <2>1. r = Created(s, m)
    BY <1>3, <1>5, ApplyCases
  <2>2. r.ok
    BY <1>1, <1>3, <1>5, <2>1, CreatedFacts
  <2>3. \A k, t, n : Present(r.objs, k, t, n) <=>
              Present(s.objs, k, t, n) \/ (k = m.obj /\ t = m.table /\ n = m.name)
    BY <2>2, NewNames
  <2>4. s = [ok |-> s.ok, objs |-> s.objs, last |-> s.last]
    BY DEF States
  <2>5. r.objs = s.objs \cup {e} /\ r.last = IF m.obj = "chain" THEN s.last + 1 ELSE s.last
    <3> DEFINE h == IF m.obj = "chain" THEN s.last + 1 ELSE 0
               l == IF m.obj = "chain" THEN h ELSE s.last
               f == [obj |-> m.obj, table |-> m.table, name |-> m.name, handle |-> h]
               o == s.objs \cup {f}
    <3>1. Created(s, m) = [s EXCEPT !.last = l, !.objs = o]
      BY DEF Created
    <3>2. l = (IF m.obj = "chain" THEN s.last + 1 ELSE s.last) /\ o = s.objs \cup {e}
      OBVIOUS
    <3> HIDE DEF l, o
    <3>3. Created(s, m) = [ok |-> s.ok, objs |-> o, last |-> l]
      BY <2>4, <3>1
    <3> QED BY <2>1, <3>2, <3>3
  <2>6. HasTable(r.objs, m.table)
    BY <2>3 DEF HasTable
  <2> QED BY <1>2, <1>5, <2>2, <2>3, <2>5, <2>6
<1> QED BY <1>4, <1>5

\* The same, without what is created.
LEMMA NewDone ==
  ASSUME NEW s \in States, NEW m \in Message, s.ok, m.type = "new", m.obj # "table",
         HasTable(s.objs, m.table)
  PROVE  /\ Apply(s, m) \in States /\ Apply(s, m).ok /\ HasTable(Apply(s, m).objs, m.table)
         /\ \A k, t, n : Present(Apply(s, m).objs, k, t, n) <=>
              Present(s.objs, k, t, n) \/ (k = m.obj /\ t = m.table /\ n = m.name)
<1> DEFINE r == Apply(s, m)
           e == [obj |-> m.obj, table |-> m.table, name |-> m.name,
                 handle |-> IF m.obj = "chain" THEN s.last + 1 ELSE 0]
<1>1. r = Apply(s, m) /\ e = [obj |-> m.obj, table |-> m.table, name |-> m.name,
                 handle |-> IF m.obj = "chain" THEN s.last + 1 ELSE 0]
  OBVIOUS
<1> HIDE DEF r, e
<1>2. r \in States /\ r.ok /\ HasTable(r.objs, m.table)
  BY <1>1, NewState
<1>3. r.ok /\ m.type \in {"new", "create"}
  BY <1>2
<1> QED BY <1>2, <1>3, NewNames DEF r

\* States with the same parts are the same.
LEMMA SameState ==
  ASSUME NEW s \in States, NEW r \in States, s.ok = r.ok, s.objs = r.objs, s.last = r.last
  PROVE  s = r
<1>1. s = [ok |-> s.ok, objs |-> s.objs, last |-> s.last]
  BY DEF States
<1>2. r = [ok |-> r.ok, objs |-> r.objs, last |-> r.last]
  BY DEF States
<1> QED BY <1>1, <1>2, Zenon

\* Objects of different kinds can be created in any order.
LEMMA NewCommutes ==
  ASSUME NEW s \in States, s.ok, NEW m \in Message, NEW w \in Message,
         m.type = "new", w.type = "new", m.obj # "table", w.obj # "table", m.obj # w.obj,
         HasTable(s.objs, m.table), HasTable(s.objs, w.table)
  PROVE  Apply(Apply(s, m), w) = Apply(Apply(s, w), m)
<1> DEFINE a == Apply(s, m)
           b == Apply(s, w)
           am == [obj |-> m.obj, table |-> m.table, name |-> m.name,
                     handle |-> IF m.obj = "chain" THEN s.last + 1 ELSE 0]
           bw == [obj |-> w.obj, table |-> w.table, name |-> w.name,
                     handle |-> IF w.obj = "chain" THEN s.last + 1 ELSE 0]
           aw == [obj |-> w.obj, table |-> w.table, name |-> w.name,
                     handle |-> IF w.obj = "chain" THEN a.last + 1 ELSE 0]
           bm == [obj |-> m.obj, table |-> m.table, name |-> m.name,
                     handle |-> IF m.obj = "chain" THEN b.last + 1 ELSE 0]
           c == Apply(a, w)
           d == Apply(b, m)
           pm == Present(s.objs, m.obj, m.table, m.name)
           pw == Present(s.objs, w.obj, w.table, w.name)
<1>1. /\ a \in States /\ a.ok
      /\ \A k, t, n : Present(a.objs, k, t, n) <=>
              Present(s.objs, k, t, n) \/ (k = m.obj /\ t = m.table /\ n = m.name)
      /\ pm => a = s
      /\ ~pm => a.objs = s.objs \cup {am} /\ a.last = IF m.obj = "chain" THEN s.last + 1 ELSE s.last
  <2> HIDE DEF a, am
  <2> a = Apply(s, m) /\ am = [obj |-> m.obj, table |-> m.table, name |-> m.name,
                     handle |-> IF m.obj = "chain" THEN s.last + 1 ELSE 0]
    BY DEF a, am
  <2> QED BY NewState
<1>2. /\ b \in States /\ b.ok
      /\ \A k, t, n : Present(b.objs, k, t, n) <=>
              Present(s.objs, k, t, n) \/ (k = w.obj /\ t = w.table /\ n = w.name)
      /\ pw => b = s
      /\ ~pw => b.objs = s.objs \cup {bw} /\ b.last = IF w.obj = "chain" THEN s.last + 1 ELSE s.last
  <2> HIDE DEF b, bw
  <2> b = Apply(s, w) /\ bw = [obj |-> w.obj, table |-> w.table, name |-> w.name,
                     handle |-> IF w.obj = "chain" THEN s.last + 1 ELSE 0]
    BY DEF b, bw
  <2> QED BY NewState
<1> HIDE DEF a, b
<1>3. HasTable(a.objs, w.table) /\ HasTable(b.objs, m.table)
  BY <1>1, <1>2 DEF HasTable
<1>4. /\ c \in States /\ c.ok
      /\ pw => c = a
      /\ ~pw => c.objs = a.objs \cup {aw} /\ c.last = IF w.obj = "chain" THEN a.last + 1 ELSE a.last
  <2> HIDE DEF c, aw
  <2>1. c = Apply(a, w) /\ aw = [obj |-> w.obj, table |-> w.table, name |-> w.name,
                     handle |-> IF w.obj = "chain" THEN a.last + 1 ELSE 0]
    BY DEF c, aw
  <2>2. Present(a.objs, w.obj, w.table, w.name) <=> pw
    BY <1>1
  <2> QED BY <1>1, <1>3, <2>1, <2>2, NewState
<1>5. /\ d \in States /\ d.ok
      /\ pm => d = b
      /\ ~pm => d.objs = b.objs \cup {bm} /\ d.last = IF m.obj = "chain" THEN b.last + 1 ELSE b.last
  <2> HIDE DEF d, bm
  <2>1. d = Apply(b, m) /\ bm = [obj |-> m.obj, table |-> m.table, name |-> m.name,
                     handle |-> IF m.obj = "chain" THEN b.last + 1 ELSE 0]
    BY DEF d, bm
  <2>2. Present(b.objs, m.obj, m.table, m.name) <=> pm
    BY <1>2
  <2> QED BY <1>2, <1>3, <2>1, <2>2, NewState
<1>6. c.ok = TRUE /\ d.ok = TRUE
  BY <1>4, <1>5 DEF States
<1>7. w.obj # "chain" \/ m.obj # "chain"
  OBVIOUS
<1>8. pm => c = d
  BY <1>1, <1>4, <1>5, Zenon DEF c, b
<1>9. pw => c = d
  BY <1>2, <1>4, <1>5, Zenon DEF d, a
<1>10. ASSUME ~pm, ~pw PROVE c.objs = d.objs /\ c.last = d.last
  <2>1. w.obj = "chain" => a.last = s.last
    BY <1>1, <1>10
  <2>2. m.obj = "chain" => b.last = s.last
    BY <1>2, <1>10
  <2>3. aw = bw
    BY <2>1
  <2>4. am = bm
    BY <2>2
  <2> HIDE DEF c, d, am, aw, bm, bw, pm, pw
  <2>5. c.objs = d.objs
    BY <1>1, <1>2, <1>4, <1>5, <1>10, <2>3, <2>4
  <2>6. c.last = d.last
    BY <1>1, <1>2, <1>4, <1>5, <1>7, <1>10, <2>1, <2>2
  <2> QED BY <2>5, <2>6
<1> HIDE DEF c, d, pm, pw
<1>11. c = d
  BY <1>4, <1>5, <1>6, <1>8, <1>9, <1>10, SameState
<1> QED BY <1>11 DEF a, b, c, d

\* Sequences over a larger set.
LEMMA SeqMono ==
  ASSUME NEW S, NEW Z, S \subseteq Z
  PROVE  Seq(S) \subseteq Seq(Z)
OBVIOUS

\* What a command of a block means.
LEMMA InnerMeaning ==
  ASSUME NEW c \in Command, NEW obj \in (Kinds \ {"table"}) \cup {"rule", "setelems"},
         NEW x \in Inners(c, {obj}), NEW s \in States
  PROVE  /\ x \in Command /\ x.name # None /\ OwnMeaning(x) \in Message
         /\ Meaning(s, x) = Apply(s, OwnMeaning(x))
         /\ obj \in Kinds => OwnMeaning(x) = [type |-> "new", obj |-> obj, table |-> c.table,
                                              name |-> x.name, handle |-> 0, new |-> None]
         /\ obj = "rule" => OwnMeaning(x) = [type |-> "need", obj |-> "chain", table |-> c.table,
                                             name |-> x.name, handle |-> 0, new |-> None]
         /\ obj = "setelems" => OwnMeaning(x) = [type |-> "need", obj |-> "set", table |-> c.table,
                                                 name |-> x.name, handle |-> 0, new |-> None]
<1>1. /\ x \in Command /\ x.op = "add" /\ x.obj = obj /\ x.table = c.table /\ x.block = <<>>
      /\ x.handle = 0 /\ x.new = None
  BY DEF Inners
<1>2. x.name # None
  BY <1>1 DEF Command
<1>3. OwnMeaning(x) = DoCommandAdd(x)
  BY <1>1 DEF OwnMeaning
<1>4. obj \in Kinds => DoCommandAdd(x) = Msg("new", obj, x)
  BY <1>1 DEF DoCommandAdd
<1>5. obj = "rule" => DoCommandAdd(x) = Msg("need", "chain", x)
  BY <1>1 DEF DoCommandAdd, Holder, Kinds
<1>6. obj = "setelems" => DoCommandAdd(x) = Msg("need", "set", x)
  BY <1>1 DEF DoCommandAdd, Holder, Kinds
<1>7. \A type, o : Msg(type, o, x) = [type |-> type, obj |-> o, table |-> c.table,
                                      name |-> x.name, handle |-> 0, new |-> None]
  BY <1>1 DEF Msg
<1>8. OwnMeaning(x) \in Message
  BY <1>1, MeaningFacts
<1>9. Meaning(s, x) = Apply(s, OwnMeaning(x))
  <2>1. Meaning(s, x) = Items(x, Apply(s, OwnMeaning(x)), x.block)
    BY DEF Meaning, Items
  <2>2. Apply(s, OwnMeaning(x)) \in States
    BY <1>8, ApplyFacts
  <2>3. Items(x, Apply(s, OwnMeaning(x)), <<>>) = Apply(s, OwnMeaning(x))
    BY <1>1, <2>2, ItemsRun
  <2> QED BY <1>1, <2>1, <2>3, Zenon
<1> QED BY <1>1, <1>2, <1>3, <1>4, <1>5, <1>6, <1>7, <1>8, <1>9, Zenon

\* Objects of one kind that are added in a table, before and after one of another.
LEMMA KindStage ==
  ASSUME NEW c \in Command, NEW k \in Kinds \ {"table"},
         NEW s \in States, s.ok, HasTable(s.objs, c.table)
  PROVE  \A q \in Seq(Inners(c, {k})) :
           /\ MeansAll(s, q) \in States /\ MeansAll(s, q).ok
           /\ HasTable(MeansAll(s, q).objs, c.table)
           /\ \A m \in Message : m.type = "new" /\ m.obj \notin {"table", k} /\ m.table = c.table =>
                MeansAll(Apply(s, m), q) = Apply(MeansAll(s, q), m)
<1> DEFINE I == Inners(c, {k})
           Good(q) == /\ MeansAll(s, q) \in States /\ MeansAll(s, q).ok
                      /\ HasTable(MeansAll(s, q).objs, c.table)
                      /\ \A m \in Message : m.type = "new" /\ m.obj \notin {"table", k} /\ m.table = c.table =>
                           MeansAll(Apply(s, m), q) = Apply(MeansAll(s, q), m)
           T == {q \in Seq(I) : Good(q)}
<1>1. I \subseteq Command
  BY DEF Inners
<1> HIDE DEF I
<1>2. Seq(I) \subseteq Seq(Command)
  BY <1>1
<1>3. <<>> \in T
  <2>1. MeansAll(s, <<>>) = s
    BY MeaningsRun
  <2>2. \A m \in Message : MeansAll(Apply(s, m), <<>>) = Apply(s, m)
    BY ApplyFacts, MeaningsRun
  <2>3. <<>> \in Seq(I)
    OBVIOUS
  <2> QED BY <2>1, <2>2, <2>3, Zenon
<1>4. ASSUME NEW q \in Seq(I), NEW x \in I, NEW t, q \in T, IsAppend(t, q, x) PROVE t \in T
  <2> DEFINE r == MeansAll(s, q)
             w == OwnMeaning(x)
  <2>1. t \in Seq(I)
    BY <1>4, AppendFacts
  <2>2. Good(q)
    BY <1>4
  <2>3. q \in Seq(Command) /\ x \in Command
    BY <1>1, <1>2
  <2>4. /\ w \in Message /\ x.name # None
        /\ w = [type |-> "new", obj |-> k, table |-> c.table, name |-> x.name, handle |-> 0, new |-> None]
        /\ \A a \in States : Meaning(a, x) = Apply(a, w)
    BY InnerMeaning DEF I
  <2>5. MeansAll(s, t) = Apply(r, w)
    <3>1. IsAppend(t, q, x)
      BY <1>4
    <3>2. MeansAll(s, t) = Meaning(r, x)
      BY <2>3, <3>1, MeaningsStep
    <3> QED BY <2>2, <2>4, <3>2, Zenon
  <2>6. w.type = "new" /\ w.obj = k /\ w.table = c.table
    BY <2>4
  <2> HIDE DEF r, w
  <2>7. r \in States /\ r.ok /\ HasTable(r.objs, c.table)
    BY <2>2, Zenon DEF r
  <2>8. Apply(r, w) \in States /\ Apply(r, w).ok /\ HasTable(Apply(r, w).objs, c.table)
    <3> DEFINE a == Apply(r, w)
               e == [obj |-> w.obj, table |-> w.table, name |-> w.name,
                     handle |-> IF w.obj = "chain" THEN r.last + 1 ELSE 0]
    <3>1. a = Apply(r, w) /\ e = [obj |-> w.obj, table |-> w.table, name |-> w.name,
                     handle |-> IF w.obj = "chain" THEN r.last + 1 ELSE 0]
      OBVIOUS
    <3>2. w.obj # "table" /\ HasTable(r.objs, w.table)
      BY <2>6, <2>7
    <3> HIDE DEF a, e
    <3>3. a \in States /\ a.ok /\ HasTable(a.objs, w.table)
      BY <2>4, <2>6, <2>7, <3>1, <3>2, NewState
    <3> QED BY <2>6, <3>3 DEF a
  <2>9. ASSUME NEW m \in Message, m.type = "new", m.obj \notin {"table", k}, m.table = c.table
        PROVE  MeansAll(Apply(s, m), t) = Apply(Apply(r, w), m)
    <3>1. Apply(s, m) \in States /\ Apply(r, m) \in States
      BY <2>7, ApplyFacts
    <3>6. IsAppend(t, q, x)
      BY <1>4
    <3>2. MeansAll(Apply(s, m), t) = Meaning(MeansAll(Apply(s, m), q), x)
      BY <2>3, <3>1, <3>6, MeaningsStep
    <3>3. MeansAll(Apply(s, m), q) = Apply(r, m)
      BY <2>2, <2>9, Zenon DEF r
    <3>4. MeansAll(Apply(s, m), t) = Apply(Apply(r, m), w)
      BY <2>4, <3>1, <3>2, <3>3, Zenon
    <3>5. Apply(Apply(r, m), w) = Apply(Apply(r, w), m)
      BY <2>4, <2>6, <2>7, <2>9, NewCommutes
    <3> QED BY <3>4, <3>5
  <2> QED BY <2>1, <2>5, <2>8, <2>9
<1> HIDE DEF T
<1>5. Seq(I) \subseteq T
  BY <1>3, <1>4, SeqInductionR
<1> QED BY <1>5 DEF T, I

\* The objects of a block, kind by kind.
ByKind(c, q) ==
  DeclaredOf(c, "chain", q) \o DeclaredOf(c, "counter", q)
    \o DeclaredOf(c, "set", q) \o DeclaredOf(c, "flowtable", q)

\* They are added in four stages.
LEMMA FourStages ==
  ASSUME NEW c \in Command, NEW q \in Seq(Item), NEW s \in States
  PROVE  /\ ByKind(c, q) \in Seq(Inners(c, Kinds \ {"table"}))
         /\ MeansAll(s, ByKind(c, q)) =
              MeansAll(MeansAll(MeansAll(MeansAll(s,
                DeclaredOf(c, "chain", q)), DeclaredOf(c, "counter", q)),
                DeclaredOf(c, "set", q)), DeclaredOf(c, "flowtable", q))
<1> DEFINE I == Inners(c, Kinds \ {"table"})
           d1 == DeclaredOf(c, "chain", q)
           d2 == DeclaredOf(c, "counter", q)
           d3 == DeclaredOf(c, "set", q)
           d4 == DeclaredOf(c, "flowtable", q)
<1>1. d1 \in Seq(I) /\ d2 \in Seq(I) /\ d3 \in Seq(I) /\ d4 \in Seq(I)
  <2>1. \A k \in Kinds \ {"table"} : Seq(Inners(c, {k})) \subseteq Seq(I)
    <3>1. \A k \in Kinds \ {"table"} : Inners(c, {k}) \subseteq I
      BY DEF Inners
    <3> QED BY <3>1, SeqMono, Zenon
  <2>2. \A k \in Kinds \ {"table"} : DeclaredOf(c, k, q) \in Seq(Inners(c, {k}))
    BY DeclaredFacts
  <2>3. "chain" \in Kinds \ {"table"} /\ "counter" \in Kinds \ {"table"} /\ "set" \in Kinds \ {"table"}
        /\ "flowtable" \in Kinds \ {"table"}
    BY DEF Kinds
  <2> QED BY <2>1, <2>2, <2>3, Zenon
<1>2. Seq(I) \subseteq Seq(Command)
  <2>1. I \subseteq Command
    BY DEF Inners
  <2> QED BY <2>1, SeqMono, Zenon
<1> DEFINE u2 == d1 \o d2
           u3 == u2 \o d3
           u4 == u3 \o d4
<1>3. ByKind(c, q) = u4
  BY DEF ByKind
<1>4. IsConcat(u2, d1, d2) /\ IsConcat(u3, u2, d3) /\ IsConcat(u4, u3, d4)
  BY DEF IsConcat
<1> HIDE DEF d1, d2, d3, d4, u2, u3, u4, I
<1>5. u2 \in Seq(I) /\ u3 \in Seq(I) /\ u4 \in Seq(I)
  BY <1>1, <1>4, ConcatFacts
<1>6. \A a \in Seq(I) : \A b \in Seq(I) : \A u : IsConcat(u, a, b) =>
        MeansAll(s, u) = MeansAll(MeansAll(s, a), b)
  BY <1>2, MeaningsRun
<1>7. MeansAll(s, u4) = MeansAll(MeansAll(s, u3), d4)
  BY <1>1, <1>4, <1>5, <1>6, Zenon
<1>8. MeansAll(s, u3) = MeansAll(MeansAll(s, u2), d3)
  BY <1>1, <1>4, <1>5, <1>6, Zenon
<1>9. MeansAll(s, u2) = MeansAll(MeansAll(s, d1), d2)
  BY <1>1, <1>4, <1>5, <1>6, Zenon
<1> QED BY <1>3, <1>5, <1>7, <1>8, <1>9, Zenon DEF d1, d2, d3, d4, I

\* One declaration more, in the stage of its kind or at the end.
LEMMA KindAppend ==
  ASSUME NEW c \in Command, NEW q \in Seq(Item), NEW i \in Item, NEW t, IsAppend(t, q, i),
         NEW s \in States, s.ok, HasTable(s.objs, c.table),
         NEW m \in Message, m.type = "new", m.obj = i.obj, m.table = c.table, m.name = i.name,
         m.handle = 0, m.new = None
  PROVE  /\ MeansAll(s, ByKind(c, t)) = Apply(MeansAll(s, ByKind(c, q)), m)
         /\ MeansAll(s, ByKind(c, q)) \in States /\ MeansAll(s, ByKind(c, q)).ok
         /\ HasTable(MeansAll(s, ByKind(c, q)).objs, c.table)
<1> DEFINE D(k, v) == DeclaredOf(c, k, v)
           s1(v) == MeansAll(s, D("chain", v))
           s2(v) == MeansAll(s1(v), D("counter", v))
           s3(v) == MeansAll(s2(v), D("set", v))
           s4(v) == MeansAll(s3(v), D("flowtable", v))
           K == Kinds \ {"table"}
           Good(r) == r \in States /\ r.ok /\ HasTable(r.objs, c.table)
<1>1. t \in Seq(Item) /\ i.obj \in K
  BY AppendFacts DEF Item
<1>2. \A v \in Seq(Item) : MeansAll(s, ByKind(c, v)) = s4(v)
  BY FourStages
<1>3. "chain" \in K /\ "counter" \in K /\ "set" \in K /\ "flowtable" \in K
      /\ i.obj \in {"chain", "counter", "set", "flowtable"}
  BY <1>1 DEF Kinds
<1>4. \A k \in K : \A v \in Seq(Item) : D(k, v) \in Seq(Inners(c, {k}))
  BY DeclaredFacts
<1>5. \A k \in K : i.obj # k => D(k, t) = D(k, q)
  <2> SUFFICES ASSUME NEW k \in K, i.obj # k PROVE D(k, t) = D(k, q)
    OBVIOUS
  <2>1. \A j \in Item : \A v : IsAppend(v, q, j) =>
          /\ j.obj # k => DeclaredOf(c, k, v) = DeclaredOf(c, k, q)
          /\ j.obj = k => \E x \in Inners(c, {k}) :
               x.name = j.name /\ IsAppend(DeclaredOf(c, k, v), DeclaredOf(c, k, q), x)
    BY DeclaredFacts
  <2> QED BY <2>1
<1>6. PICK x \in Inners(c, {i.obj}) : x.name = i.name /\ IsAppend(D(i.obj, t), D(i.obj, q), x)
  BY <1>1, DeclaredFacts
<1>7. OwnMeaning(x) = m /\ x \in Command /\ \A r \in States : Meaning(r, x) = Apply(r, m)
  <2>1. m = [type |-> "new", obj |-> i.obj, table |-> c.table, name |-> x.name, handle |-> 0, new |-> None]
    BY <1>6 DEF Message
  <2>2. i.obj \in (Kinds \ {"table"}) \cup {"rule", "setelems"} /\ i.obj \in Kinds
    BY <1>1
  <2>3. \A r \in States : Meaning(r, x) = Apply(r, OwnMeaning(x))
    BY <2>2, InnerMeaning
  <2>4. s \in States
    OBVIOUS
  <2>5. x \in Command /\ OwnMeaning(x) = m
    BY <2>1, <2>2, <2>4, InnerMeaning
  <2> QED BY <2>3, <2>5
<1>8. ASSUME NEW r, Good(r) PROVE MeansAll(r, D(i.obj, t)) = Apply(MeansAll(r, D(i.obj, q)), m)
  <2>1. D(i.obj, q) \in Seq(Command)
    <3>1. Inners(c, {i.obj}) \subseteq Command
      BY DEF Inners
    <3>2. Seq(Inners(c, {i.obj})) \subseteq Seq(Command)
      BY <3>1, SeqMono, Zenon
    <3>3. D(i.obj, q) \in Seq(Inners(c, {i.obj}))
      BY <1>1, <1>4
    <3> QED BY <3>2, <3>3, Zenon
  <2>2. MeansAll(r, D(i.obj, t)) = Meaning(MeansAll(r, D(i.obj, q)), x) /\ MeansAll(r, D(i.obj, q)) \in States
    BY <1>6, <1>7, <1>8, <2>1, MeaningsStep
  <2> QED BY <1>7, <2>2
<1>9. \A r : Good(r) => \A k \in K : \A v \in Seq(Item) :
         /\ Good(MeansAll(r, D(k, v)))
         /\ k # i.obj => MeansAll(Apply(r, m), D(k, v)) = Apply(MeansAll(r, D(k, v)), m)
  <2> SUFFICES ASSUME NEW r, Good(r), NEW k \in K, NEW v \in Seq(Item)
               PROVE /\ Good(MeansAll(r, D(k, v)))
                     /\ k # i.obj => MeansAll(Apply(r, m), D(k, v)) = Apply(MeansAll(r, D(k, v)), m)
    OBVIOUS
  <2> DEFINE d == D(k, v)
  <2>1. d \in Seq(Inners(c, {k}))
    BY <1>4
  <2>2. m.obj \notin {"table", k} \/ k = i.obj
    BY <1>1
  <2> HIDE DEF d
  <2>3. r \in States /\ r.ok /\ HasTable(r.objs, c.table) /\ k \in Kinds \ {"table"}
    OBVIOUS
  <2>4. \A e \in Seq(Inners(c, {k})) :
           /\ MeansAll(r, e) \in States /\ MeansAll(r, e).ok
           /\ HasTable(MeansAll(r, e).objs, c.table)
           /\ \A w \in Message : w.type = "new" /\ w.obj \notin {"table", k} /\ w.table = c.table =>
                MeansAll(Apply(r, w), e) = Apply(MeansAll(r, e), w)
    BY <2>3, KindStage
  <2>5. Good(MeansAll(r, d)) /\ (k # i.obj => MeansAll(Apply(r, m), d) = Apply(MeansAll(r, d), m))
    BY <2>1, <2>2, <2>4
  <2> QED BY <2>5 DEF d
<1>10. Good(s)
  OBVIOUS
<1> HIDE DEF Good, D, K
<1>11. Good(s1(q)) /\ Good(s2(q)) /\ Good(s3(q)) /\ Good(s4(q))
  <2>1. Good(s1(q))
    BY <1>3, <1>9, <1>10
  <2>2. Good(s2(q))
    BY <1>3, <1>9, <2>1
  <2>3. Good(s3(q))
    BY <1>3, <1>9, <2>2
  <2> QED BY <1>3, <1>9, <2>1, <2>2, <2>3
<1>12. s4(t) = Apply(s4(q), m)
  <2>1. CASE i.obj = "chain"
    <3>1. s1(t) = Apply(s1(q), m)
      BY <1>8, <1>10, <2>1
    <3>2. s2(t) = Apply(s2(q), m)
      BY <1>3, <1>5, <1>9, <1>11, <2>1, <3>1
    <3>3. s3(t) = Apply(s3(q), m)
      BY <1>3, <1>5, <1>9, <1>11, <2>1, <3>2
    <3> QED BY <1>3, <1>5, <1>9, <1>11, <2>1, <3>3
  <2>2. CASE i.obj = "counter"
    <3>1. s1(t) = s1(q)
      BY <1>3, <1>5, <2>2
    <3>2. s2(t) = Apply(s2(q), m)
      BY <1>8, <1>11, <2>2, <3>1
    <3>3. s3(t) = Apply(s3(q), m)
      BY <1>3, <1>5, <1>9, <1>11, <2>2, <3>2
    <3> QED BY <1>3, <1>5, <1>9, <1>11, <2>2, <3>3
  <2>3. CASE i.obj = "set"
    <3>1. s2(t) = s2(q)
      BY <1>3, <1>5, <2>3
    <3>2. s3(t) = Apply(s3(q), m)
      BY <1>8, <1>11, <2>3, <3>1
    <3> QED BY <1>3, <1>5, <1>9, <1>11, <2>3, <3>2
  <2>4. CASE i.obj = "flowtable"
    <3>1. s3(t) = s3(q)
      BY <1>3, <1>5, <2>4
    <3> QED BY <1>8, <1>11, <2>4, <3>1
  <2> QED BY <1>3, <2>1, <2>2, <2>3, <2>4
<1>13. Good(s4(q))
  BY <1>11
<1> HIDE DEF s4
<1> QED BY <1>1, <1>2, <1>12, <1>13 DEF Good

\* What a block declares is there in the end, whichever way it is read.
LEMMA BlockOrder ==
  ASSUME NEW c \in Command, NEW s \in States, s.ok, HasTable(s.objs, c.table)
  PROVE  \A q \in Seq(Item) :
           /\ MeansAll(s, ByKind(c, q)) = Items(c, s, q)
           /\ Items(c, s, q) \in States /\ Items(c, s, q).ok
           /\ HasTable(Items(c, s, q).objs, c.table)
           /\ \A j \in DOMAIN q : Present(Items(c, s, q).objs, q[j].obj, c.table, q[j].name)
<1> DEFINE Good(q) ==
           /\ MeansAll(s, ByKind(c, q)) = Items(c, s, q)
           /\ Items(c, s, q) \in States /\ Items(c, s, q).ok
           /\ HasTable(Items(c, s, q).objs, c.table)
           /\ \A j \in DOMAIN q : Present(Items(c, s, q).objs, q[j].obj, c.table, q[j].name)
           T == {q \in Seq(Item) : Good(q)}
<1>1. <<>> \in T
  <2>1. ByKind(c, <<>>) = <<>>
    <3>1. \A k \in Kinds \ {"table"} : DeclaredOf(c, k, <<>>) = <<>>
      BY DeclaredFacts
    <3>2. DeclaredOf(c, "chain", <<>>) = <<>> /\ DeclaredOf(c, "counter", <<>>) = <<>>
          /\ DeclaredOf(c, "set", <<>>) = <<>> /\ DeclaredOf(c, "flowtable", <<>>) = <<>>
      BY <3>1 DEF Kinds
    <3> QED BY <3>2 DEF ByKind
  <2>2. MeansAll(s, <<>>) = s /\ Items(c, s, <<>>) = s
    BY MeaningsRun, ItemsRun
  <2>3. <<>> \in Seq(Item) /\ DOMAIN <<>> = {}
    OBVIOUS
  <2> QED BY <2>1, <2>2, <2>3, Zenon
<1>2. ASSUME NEW q \in Seq(Item), NEW i \in Item, NEW t, q \in T, IsAppend(t, q, i) PROVE t \in T
  <2> DEFINE m == Msg("new", i.obj, Inner(c, i.obj, i.name, FALSE))
             w == Msg("need", i.obj, Inner(c, i.obj, i.name, FALSE))
             r == Items(c, s, q)
             a == Apply(r, m)
  <2>1. Good(q)
    BY <1>2
  <2>2. IsAppend(t, q, i)
    BY <1>2
  <2>3. t \in Seq(Item)
    BY <2>2, AppendFacts
  <2>4. /\ m \in Message /\ w \in Message
        /\ m = [type |-> "new", obj |-> i.obj, table |-> c.table, name |-> i.name, handle |-> 0, new |-> None]
        /\ w = [type |-> "need", obj |-> i.obj, table |-> c.table, name |-> i.name, handle |-> 0, new |-> None]
        /\ i.obj # "table" /\ i.name # None
    BY ItemFacts, Zenon
  <2>5. ItemMeaning(r, c, i) = IF i.body THEN Apply(a, w) ELSE a
    BY Zenon DEF ItemMeaning
  <2>6. Items(c, s, t) = ItemMeaning(r, c, i)
    BY <2>2, ItemsStep
  <2> HIDE DEF m, w
  <2>7. m.type = "new" /\ m.obj = i.obj /\ m.table = c.table /\ m.name = i.name /\ m.handle = 0 /\ m.new = None
    BY <2>4
  <2>8. w.type = "need" /\ w.obj = i.obj /\ w.table = c.table /\ w.name = i.name
    BY <2>4
  <2>9. MeansAll(s, ByKind(c, t)) = Apply(MeansAll(s, ByKind(c, q)), m)
    BY <2>2, <2>4, <2>7, KindAppend
  <2>10. MeansAll(s, ByKind(c, t)) = a
    BY <2>1, <2>9, Zenon
  <2> HIDE DEF r
  <2>11. r \in States /\ r.ok /\ HasTable(r.objs, c.table)
         /\ \A j \in DOMAIN q : Present(r.objs, q[j].obj, c.table, q[j].name)
    BY <2>1, Zenon DEF r
  <2>13. m.obj # "table" /\ HasTable(r.objs, m.table)
    BY <2>4, <2>7, <2>11
  <2>14. /\ a \in States /\ a.ok /\ HasTable(a.objs, m.table)
         /\ \A k, v, n : Present(a.objs, k, v, n) <=>
              Present(r.objs, k, v, n) \/ (k = m.obj /\ v = m.table /\ n = m.name)
    BY <2>4, <2>7, <2>11, <2>13, NewDone
  <2> HIDE DEF a
  <2>15. Present(a.objs, i.obj, c.table, i.name) /\ HasTable(a.objs, c.table)
    BY <2>7, <2>14
  <2>16. Apply(a, w) = a
    <3>1. Target(a.objs, w) # {}
      BY <2>4, <2>8, <2>14, <2>15, TargetFacts
    <3> QED BY <2>4, <2>8, <2>14, <2>15, <3>1, ApplyCases
  <2>17. Items(c, s, t) = a
    BY <2>5, <2>6, <2>16
  <2>18. \A j \in DOMAIN t : Present(a.objs, t[j].obj, c.table, t[j].name)
    <3>1. DOMAIN t = 1..(Len(q) + 1) /\ DOMAIN q = 1..Len(q) /\ Len(q) \in Nat /\ t[Len(q) + 1] = i
          /\ \A j \in 1..Len(q) : t[j] = q[j]
      BY <2>2, AppendFacts
    <3> SUFFICES ASSUME NEW j \in DOMAIN t PROVE Present(a.objs, t[j].obj, c.table, t[j].name)
      OBVIOUS
    <3>2. CASE j = Len(q) + 1
      BY <2>15, <3>1, <3>2
    <3>3. CASE j \in 1..Len(q)
      BY <2>11, <2>14, <3>1, <3>3
    <3> QED BY <3>1, <3>2, <3>3
  <2>19. Good(t)
    BY <2>10, <2>14, <2>15, <2>17, <2>18
  <2> QED BY <2>3, <2>19
<1> HIDE DEF T
<1>3. Seq(Item) \subseteq T
  BY <1>1, <1>2, SeqInductionR
<1> QED BY <1>3 DEF T

\* What commands cannot change stays.
LEMMA Still ==
  ASSUME NEW r \in States, NEW Z, Z \subseteq Command, \A x \in Z : Meaning(r, x) = r
  PROVE  \A q \in Seq(Z) : MeansAll(r, q) = r
<1> DEFINE T == {q \in Seq(Z) : MeansAll(r, q) = r}
<1>1. <<>> \in T
  BY MeaningsRun
<1>2. ASSUME NEW q \in Seq(Z), NEW x \in Z, NEW t, q \in T, IsAppend(t, q, x) PROVE t \in T
  <2>1. Seq(Z) \subseteq Seq(Command)
    BY SeqMono, Zenon
  <2>2. q \in Seq(Command) /\ x \in Command
    BY <2>1
  <2>3. t \in Seq(Z)
    BY <1>2, AppendFacts
  <2>4. MeansAll(r, t) = Meaning(MeansAll(r, q), x)
    BY <1>2, <2>2, MeaningsStep
  <2> QED BY <1>2, <2>3, <2>4
<1> HIDE DEF T
<1>3. Seq(Z) \subseteq T
  BY <1>1, <1>2, SeqInductionR
<1> QED BY <1>3 DEF T

\* After a failure nothing is done.
LEMMA Stuck ==
  ASSUME NEW s \in States, ~s.ok
  PROVE  /\ \A c \in Command : \A q \in Seq(Item) : Items(c, s, q) = s
         /\ \A c \in Command : Sees(s, c) = s /\ Does(s, c) = s /\ Meaning(s, c) = s
         /\ \A q \in Seq(Command) : MeansAll(s, q) = s
<1>1. ASSUME NEW c \in Command PROVE \A q \in Seq(Item) : Items(c, s, q) = s
  <2> DEFINE T == {q \in Seq(Item) : Items(c, s, q) = s}
  <2>1. <<>> \in T
    BY ItemsRun
  <2>2. ASSUME NEW q \in Seq(Item), NEW i \in Item, NEW t, q \in T, IsAppend(t, q, i) PROVE t \in T
    <3>1. t \in Seq(Item)
      BY <2>2, AppendFacts
    <3>2. Items(c, s, t) = ItemMeaning(Items(c, s, q), c, i)
      BY <2>2, ItemsStep
    <3> DEFINE m == Msg("new", i.obj, Inner(c, i.obj, i.name, FALSE))
               w == Msg("need", i.obj, Inner(c, i.obj, i.name, FALSE))
    <3>3. ItemMeaning(s, c, i) = IF i.body THEN Apply(Apply(s, m), w) ELSE Apply(s, m)
      BY Zenon DEF ItemMeaning
    <3>4. m \in Message /\ w \in Message
      BY ItemFacts, Zenon
    <3> HIDE DEF m, w
    <3>5. Apply(s, m) = s /\ Apply(s, w) = s
      BY <3>4, ApplyFacts
    <3>6. ItemMeaning(s, c, i) = s
      BY <3>3, <3>5
    <3> QED BY <2>2, <3>1, <3>2, <3>6
  <2> HIDE DEF T
  <2>3. Seq(Item) \subseteq T
    BY <2>1, <2>2, SeqInductionR
  <2> QED BY <2>3 DEF T
<1>2. ASSUME NEW c \in Command PROVE Sees(s, c) = s /\ Does(s, c) = s /\ Meaning(s, c) = s
  <2>1. Apply(s, OwnMeaning(c)) = s
    BY MeaningFacts, ApplyFacts
  <2>2. Sees(s, c) = s
    BY <2>1 DEF Sees
  <2>3. Does(s, c) = s
    BY <2>2 DEF Does
  <2>4. Meaning(s, c) = Items(c, Apply(s, OwnMeaning(c)), c.block)
    BY DEF Meaning, Items
  <2>5. c.block \in Seq(Item)
    BY DEF Command
  <2>6. Meaning(s, c) = s
    BY <1>1, <2>1, <2>4, <2>5, Zenon
  <2> QED BY <2>2, <2>3, <2>6
<1>3. \A q \in Seq(Command) : MeansAll(s, q) = s
  BY <1>2, Still
<1> QED BY <1>1, <1>2, <1>3, Zenon

\* The commands of a block, with no new demands on the cache.
Extra(c) ==
  {x \in Inners(c, (Kinds \ {"table"}) \cup {"rule", "setelems"}) : Needs(x) \subseteq Needs(c)}

\* The cases of the expansion.
LEMMA ExpansionCases ==
  ASSUME NEW c \in Command
  PROVE  /\ c.op \in {"add", "create"} /\ c.obj = "table" =>
              IsConcat(Expansion(c), ByKind(c, c.block), RulesOf(c))
         /\ c.op \in {"add", "create"} /\ c.obj = "chain" /\ c.body =>
              \E x \in Inners(c, {"rule"}) : x.name = c.name /\ Expansion(c) = <<x>>
         /\ c.op \in {"add", "create"} /\ c.obj = "set" /\ c.body =>
              \E x \in Inners(c, {"setelems"}) : x.name = c.name /\ Expansion(c) = <<x>>
         /\ \/ c.op \notin {"add", "create"}
            \/ c.obj # "table" /\ ~(c.obj \in {"chain", "set"} /\ c.body)
            => Expansion(c) = <<>>
<1>1. c.op \in {"add", "create"} => c.name \in Name /\ c.name # None
  BY DEF Command
<1>2. ASSUME c.op \in {"add", "create"}, c.obj = "table"
      PROVE  IsConcat(Expansion(c), ByKind(c, c.block), RulesOf(c))
  <2>1. Expansion(c) = Declared(c, "chain") \o Declared(c, "counter")
           \o Declared(c, "set") \o Declared(c, "flowtable") \o RulesOf(c)
    BY <1>2, Zenon DEF Expansion
  <2> DEFINE d1 == Declared(c, "chain")
             d2 == Declared(c, "counter")
             d3 == Declared(c, "set")
             d4 == Declared(c, "flowtable")
  <2>2. \A k : Declared(c, k) = DeclaredOf(c, k, c.block)
    BY Zenon DEF Declared, DeclaredOf
  <2>3. /\ d1 = DeclaredOf(c, "chain", c.block)
        /\ d2 = DeclaredOf(c, "counter", c.block)
        /\ d3 = DeclaredOf(c, "set", c.block)
        /\ d4 = DeclaredOf(c, "flowtable", c.block)
    BY <2>2, Zenon
  <2>4. Expansion(c) = ((d1 \o d2 \o d3) \o d4) \o RulesOf(c)
    BY <2>1
  <2> HIDE DEF d1, d2, d3, d4
  <2>5. ByKind(c, c.block) = (d1 \o d2 \o d3) \o d4
    BY <2>3 DEF ByKind
  <2> QED BY <2>4, <2>5 DEF IsConcat
<1>3. ASSUME c.op \in {"add", "create"}, c.obj = "chain", c.body
      PROVE  \E x \in Inners(c, {"rule"}) : x.name = c.name /\ Expansion(c) = <<x>>
  <2>1. PICK x \in Inners(c, {"rule"}) : x.name = c.name /\ x = Inner(c, "rule", c.name, FALSE)
    BY <1>1, <1>3, RuleInner
  <2>2. Expansion(c) = <<Inner(c, "rule", c.name, FALSE)>>
    BY <1>3, Zenon DEF Expansion
  <2> QED BY <2>1, <2>2, Zenon
<1>4. ASSUME c.op \in {"add", "create"}, c.obj = "set", c.body
      PROVE  \E x \in Inners(c, {"setelems"}) : x.name = c.name /\ Expansion(c) = <<x>>
  <2> DEFINE b == FALSE
             o == "setelems"
             x == Inner(c, o, c.name, b)
  <2>1. Expansion(c) = <<x>>
    BY <1>4, Zenon DEF Expansion
  <2>2. b \in BOOLEAN /\ o \in (Kinds \ {"table"}) \cup {"rule", "setelems"}
    OBVIOUS
  <2> HIDE DEF b, o
  <2>3. x \in Inners(c, {o}) /\ x.name = c.name
    BY <1>1, <1>4, <2>2, InnerFacts
  <2> HIDE DEF x
  <2>4. Inners(c, {o}) = Inners(c, {"setelems"})
    BY DEF o
  <2> QED BY <2>1, <2>3, <2>4, Zenon
<1>5. ASSUME \/ c.op \notin {"add", "create"}
             \/ c.obj # "table" /\ ~(c.obj \in {"chain", "set"} /\ c.body)
      PROVE  Expansion(c) = <<>>
  <2>1. CASE c.op \notin {"add", "create"}
    BY <2>1 DEF Expansion
  <2>2. CASE c.op \in {"add", "create"}
    <3>1. c.obj # "table" /\ ~(c.obj = "chain" /\ c.body) /\ ~(c.obj = "set" /\ c.body)
      BY <1>5, <2>2
    <3> QED BY <2>2, <3>1, Zenon DEF Expansion
  <2> QED BY <2>1, <2>2
<1> QED BY <1>2, <1>3, <1>4, <1>5, Zenon

\* The expansion is made of such commands.
LEMMA ExpansionFacts ==
  ASSUME NEW c \in Command
  PROVE  Expansion(c) \in Seq(Extra(c)) /\ Extra(c) \subseteq Command
<1> DEFINE K == Kinds \ {"table"}
           X == Extra(c)
<1>1. X \subseteq Command
  BY DEF Extra, Inners
<1>2. \A x \in Inners(c, {"rule"}) : x \in X
  BY DEF Extra, Inners, Needs, Kinds
<1>3. \A x \in Inners(c, {"setelems"}) : x \in X
  BY DEF Extra, Inners, Needs, Kinds
<1>4. c.obj = "table" /\ c.op \in {"add", "create"} /\ c.block # <<>> => \A x \in Inners(c, K) : x \in X
  BY DEF Extra, Inners, Needs, Kinds
<1>5. CASE c.op \in {"add", "create"} /\ c.obj = "table"
  <2>1. IsConcat(Expansion(c), ByKind(c, c.block), RulesOf(c))
    BY <1>5, ExpansionCases
  <2>2. c.block \in Seq(Item)
    BY DEF Command
  <2>3. RulesOf(c) \in Seq(X)
    BY <1>2, <2>2, RulesOfFacts
  <2>4. ByKind(c, c.block) \in Seq(X)
    <3>1. CASE c.block = <<>>
      <4>1. \A k \in K : DeclaredOf(c, k, <<>>) = <<>>
        BY DeclaredFacts
      <4>2. DeclaredOf(c, "chain", <<>>) = <<>> /\ DeclaredOf(c, "counter", <<>>) = <<>>
            /\ DeclaredOf(c, "set", <<>>) = <<>> /\ DeclaredOf(c, "flowtable", <<>>) = <<>>
        BY <4>1 DEF Kinds
      <4>3. ByKind(c, c.block) = <<>>
        BY <3>1, <4>2 DEF ByKind
      <4> QED BY <4>3
    <3>2. CASE c.block # <<>>
      <4>1. Inners(c, K) \subseteq X
        BY <1>4, <1>5, <3>2
      <4>2. Seq(Inners(c, K)) \subseteq Seq(X)
        BY <4>1, SeqMono, Zenon
      <4>5. \E s : s \in States
        <5> DEFINE s == [ok |-> TRUE, objs |-> {}, last |-> 0]
        <5>1. s \in States
          BY DEF States, Ruleset
        <5> QED BY <5>1
      <4>6. ByKind(c, c.block) \in Seq(Inners(c, K))
        BY <2>2, <4>5, FourStages
      <4> QED BY <4>2, <4>6, Zenon
    <3> QED BY <3>1, <3>2
  <2> HIDE DEF X
  <2>5. Expansion(c) \in Seq(X)
    BY <2>1, <2>3, <2>4, ConcatFacts
  <2> QED BY <1>1, <2>5 DEF X
<1>6. CASE c.op \in {"add", "create"} /\ c.obj = "chain" /\ c.body
  <2>1. PICK x \in Inners(c, {"rule"}) : Expansion(c) = <<x>>
    BY <1>6, ExpansionCases
  <2>2. x \in X
    BY <1>2
  <2> HIDE DEF X
  <2> QED BY <1>1, <2>1, <2>2 DEF X
<1>7. CASE c.op \in {"add", "create"} /\ c.obj = "set" /\ c.body
  <2>1. PICK x \in Inners(c, {"setelems"}) : Expansion(c) = <<x>>
    BY <1>7, ExpansionCases
  <2>2. x \in X
    BY <1>3
  <2> HIDE DEF X
  <2> QED BY <1>1, <2>1, <2>2 DEF X
<1>8. CASE \/ c.op \notin {"add", "create"}
           \/ c.obj # "table" /\ ~(c.obj \in {"chain", "set"} /\ c.body)
  <2>1. Expansion(c) = <<>>
    BY <1>8, ExpansionCases
  <2> QED BY <1>1, <2>1
<1> QED BY <1>5, <1>6, <1>7, <1>8

\* What an input's command means, its expansion included.
LEMMA ExpansionMeans ==
  ASSUME NEW c \in Command, NEW s \in States
  PROVE  MeansAll(Sees(s, c), Expansion(c)) = Meaning(s, c)
<1> DEFINE r == Sees(s, c)
<1>1. r \in States
  BY MeaningFacts, ApplyFacts DEF Sees
<1>2. Meaning(s, c) = Items(c, r, c.block)
  BY DEF Meaning, Items, Sees
<1>3. Expansion(c) \in Seq(Command)
  <2>1. Seq(Extra(c)) \subseteq Seq(Command)
    BY ExpansionFacts, SeqMono, Zenon
  <2> QED BY <2>1, ExpansionFacts, Zenon
<1>4. c.block \in Seq(Item) /\ (c.block # <<>> => c.obj = "table" /\ c.op \in {"add", "create"})
  BY DEF Command
<1>5. c.block = <<>> => Meaning(s, c) = r
  BY <1>1, <1>2, ItemsRun
<1>6. CASE ~r.ok
  <2>1. MeansAll(r, Expansion(c)) = r
    BY <1>1, <1>3, <1>6, Stuck
  <2>2. Items(c, r, c.block) = r
    BY <1>1, <1>4, <1>6, Stuck
  <2> QED BY <1>2, <2>1, <2>2
<1>7. CASE r.ok /\ c.op \in {"add", "create"} /\ c.obj = "table"
  <2> DEFINE m == OwnMeaning(c)
             g == Items(c, r, c.block)
  <2>1. m \in Message /\ m.type \in {"new", "create"} /\ m.obj = "table" /\ m.table = c.table /\ m.name = c.name
    BY <1>7, MeaningFacts DEF Kinds
  <2>2. m.name = m.table
    BY <2>1 DEF Message
  <2>3. s.ok
    BY <1>7, <2>1, ApplyFacts DEF Sees
  <2>4. HasTable(r.objs, c.table)
    BY <1>7, <2>1, <2>2, <2>3, NewNames DEF HasTable, Sees
  <2> HIDE DEF m, r
  <2>5. MeansAll(r, ByKind(c, c.block)) = g /\ g \in States /\ g.ok /\ HasTable(g.objs, c.table)
        /\ \A j \in DOMAIN c.block : Present(g.objs, c.block[j].obj, c.table, c.block[j].name)
    BY <1>1, <1>4, <1>7, <2>4, BlockOrder
  <2> HIDE DEF g
  <2> DEFINE I == {i \in Item : Present(g.objs, i.obj, c.table, i.name)}
             R == {x \in Inners(c, {"rule"}) : Present(g.objs, "chain", c.table, x.name)}
  <2>6. c.block \in Seq(I)
    <3>1. \A j \in DOMAIN c.block : c.block[j] \in I
      BY <1>4, <2>5
    <3>2. I \subseteq Item
      OBVIOUS
    <3> HIDE DEF I
    <3>3. DOMAIN c.block = 1..Len(c.block) /\ Len(c.block) \in Nat
      BY <1>4
    <3> QED BY <1>4, <3>1, <3>3
  <2>7. RulesOf(c) \in Seq(R)
    <3>1. \A i \in I : \A x \in Inners(c, {"rule"}) : i.obj = "chain" /\ x.name = i.name => x \in R
      OBVIOUS
    <3>2. I \subseteq Item
      OBVIOUS
    <3> HIDE DEF I, R
    <3> QED BY <2>6, <3>1, <3>2, RulesOfFacts
  <2>8. R \subseteq Command /\ \A x \in R : Meaning(g, x) = g
    <3>1. R \subseteq Command
      BY DEF Inners
    <3> SUFFICES ASSUME NEW x \in R PROVE Meaning(g, x) = g
      BY <3>1
    <3> DEFINE w == OwnMeaning(x)
               o == "rule"
    <3>2. x \in Inners(c, {o}) /\ o \in (Kinds \ {"table"}) \cup {"rule", "setelems"} /\ o = "rule"
      OBVIOUS
    <3>3. x \in Inners(c, {"rule"}) /\ Present(g.objs, "chain", c.table, x.name)
      OBVIOUS
    <3> HIDE DEF o, R
    <3>4. /\ x.name # None /\ OwnMeaning(x) \in Message
          /\ Meaning(g, x) = Apply(g, OwnMeaning(x))
          /\ OwnMeaning(x) = [type |-> "need", obj |-> "chain", table |-> c.table,
                              name |-> x.name, handle |-> 0, new |-> None]
      BY <2>5, <3>2, InnerMeaning
    <3>5. w.type = "need" /\ w.obj = "chain" /\ w.table = c.table /\ w.name = x.name /\ w \in Message
      BY <3>4
    <3> HIDE DEF w
    <3>6. Target(g.objs, w) # {}
      BY <2>5, <3>3, <3>4, <3>5, TargetFacts
    <3>7. Apply(g, w) = g
      BY <2>5, <3>5, <3>6, NeedFacts
    <3> QED BY <3>4, <3>7 DEF w
  <2> HIDE DEF I, R
  <2>9. MeansAll(g, RulesOf(c)) = g
    BY <2>5, <2>7, <2>8, Still
  <2>10. IsConcat(Expansion(c), ByKind(c, c.block), RulesOf(c))
    BY <1>7, ExpansionCases
  <2>11. ByKind(c, c.block) \in Seq(Command) /\ RulesOf(c) \in Seq(Command)
    <3>1. Inners(c, Kinds \ {"table"}) \subseteq Command
      BY DEF Inners
    <3>2. Seq(Inners(c, Kinds \ {"table"})) \subseteq Seq(Command) /\ Seq(R) \subseteq Seq(Command)
      BY <2>8, <3>1, SeqMono, Zenon
    <3>3. ByKind(c, c.block) \in Seq(Inners(c, Kinds \ {"table"}))
      BY <1>1, <1>4, FourStages
    <3> QED BY <2>7, <3>2, <3>3, Zenon
  <2>12. \A a \in Seq(Command) : \A b \in Seq(Command) : \A u : IsConcat(u, a, b) =>
           MeansAll(r, u) = MeansAll(MeansAll(r, a), b)
    BY <1>1, MeaningsRun
  <2>13. MeansAll(r, Expansion(c)) = MeansAll(MeansAll(r, ByKind(c, c.block)), RulesOf(c))
    BY <2>10, <2>11, <2>12, Zenon
  <2>14. Meaning(s, c) = g
    BY <1>2 DEF g
  <2> QED BY <2>5, <2>9, <2>13, <2>14 DEF r
<1>8. CASE r.ok /\ c.op \in {"add", "create"} /\ c.obj \in {"chain", "set"} /\ c.body
  <2> DEFINE m == OwnMeaning(c)
             o == IF c.obj = "chain" THEN "rule" ELSE "setelems"
  <2>1. m \in Message /\ m.type \in {"new", "create"} /\ m.obj = c.obj /\ m.table = c.table /\ m.name = c.name
    BY <1>8, MeaningFacts DEF Kinds
  <2>2. m.obj # "table" /\ HasTable(r.objs, c.table) /\ Present(r.objs, c.obj, c.table, c.name)
    <3>1. s.ok
      BY <1>8, <2>1, ApplyFacts DEF Sees
    <3>2. Present(r.objs, c.obj, c.table, c.name)
      BY <1>8, <2>1, <3>1, NewNames DEF Sees
    <3>3. HasTable(r.objs, c.table)
      BY <1>1, <3>2 DEF States, Ruleset, Present
    <3> QED BY <1>8, <2>1, <3>2, <3>3
  <2>3. PICK x \in Inners(c, {o}) : x.name = c.name /\ Expansion(c) = <<x>>
    BY <1>8, ExpansionCases
  <2> HIDE DEF r, m
  <2>4. o \in (Kinds \ {"table"}) \cup {"rule", "setelems"} /\ (c.obj = "chain" => o = "rule")
        /\ (c.obj = "set" => o = "setelems")
    OBVIOUS
  <2> HIDE DEF o
  <2> DEFINE w == OwnMeaning(x)
  <2>5. /\ x \in Command /\ x.name # None /\ w \in Message
        /\ Meaning(r, x) = Apply(r, w)
        /\ o = "rule" => w = [type |-> "need", obj |-> "chain", table |-> c.table,
                              name |-> x.name, handle |-> 0, new |-> None]
        /\ o = "setelems" => w = [type |-> "need", obj |-> "set", table |-> c.table,
                                  name |-> x.name, handle |-> 0, new |-> None]
    BY <1>1, <2>4, InnerMeaning
  <2> HIDE DEF w
  <2>6. w.type = "need" /\ w.obj = c.obj /\ w.table = c.table /\ w.name = x.name
    BY <1>8, <2>4, <2>5
  <2>7. Target(r.objs, w) # {}
    BY <1>1, <2>2, <2>3, <2>5, <2>6, TargetFacts
  <2>8. Apply(r, w) = r
    BY <1>1, <1>8, <2>2, <2>5, <2>6, <2>7, NeedFacts, ApplyCases
  <2>9. MeansAll(r, <<x>>) = Meaning(r, x)
    BY <1>1, <2>5, MeaningsRun
  <2>10. c.block = <<>>
    BY <1>4, <1>8
  <2> QED BY <1>5, <2>3, <2>5, <2>8, <2>9, <2>10 DEF r
<1>9. CASE \/ c.op \notin {"add", "create"}
           \/ c.obj # "table" /\ ~(c.obj \in {"chain", "set"} /\ c.body)
  <2>1. Expansion(c) = <<>>
    BY <1>9, ExpansionCases
  <2>2. c.block = <<>>
    BY <1>4, <1>9
  <2>3. MeansAll(r, <<>>) = r
    BY <1>1, MeaningsRun
  <2> QED BY <1>5, <2>1, <2>2, <2>3
<1> QED BY <1>6, <1>7, <1>8, <1>9

-----------------------------------------------------------------------------
(* Types. *)

\* The cache flags of a command: with a kind its tables are fetched, and so is
\* what the evaluation looks up.
LEMMA FlagFacts ==
  ASSUME NEW c \in Command
  PROVE  /\ FlagsOf(ForCache(c)) \subseteq CacheFlag
         /\ \A k \in Kinds : FlagOf(k) \in FlagsOf(ForCache(c)) => "table" \in FlagsOf(ForCache(c))
         /\ "flushed" \in FlagsOf(ForCache(c)) <=> IsFlush(c)
         /\ \A k \in Needs(c) : FlagOf(k) \in FlagsOf(ForCache(c))
<1> DEFINE b == c.block # <<>>
           f == ForCache(c)
<1>1. f = [NoCmd EXCEPT !.op = c.op, !.obj = c.obj, !.table = c.table, !.block = b]
  BY DEF ForCache
<1>2. b <=> c.block # <<>>
  OBVIOUS
<1> HIDE DEF b, f
<1>3. f.op = c.op /\ f.obj = c.obj /\ f.table = c.table /\ f.block = b /\ f.automerge = FALSE /\ f.located = FALSE
  BY <1>1 DEF NoCmd
<1>4. /\ c.op \in {"add", "create", "delete", "destroy", "flush", "rename", "list", "get"}
      /\ c.obj \in Kinds \cup {"rule", "elements", "setelems", "ruleset"}
      /\ c.op \in {"add", "create"} => c.obj # "ruleset"
      /\ c.op \in {"delete", "destroy"} => c.obj \in Kinds \cup {"rule", "elements"}
      /\ c.op = "flush" => c.obj \in {"table", "chain", "set", "ruleset"}
      /\ c.op = "rename" => c.obj = "chain"
      /\ c.op = "list" => c.obj \in Kinds
      /\ c.op = "get" => c.obj = "elements"
  BY DEF Command
<1>5. FlagOf("table") = "table" /\ FlagOf("chain") = "chain" /\ FlagOf("set") = "set"
      /\ FlagOf("flowtable") = "flowtable" /\ FlagOf("counter") = "object"
  BY DEF FlagOf
<1> DEFINE g == FlagsOf(f)
<1>6. CASE c.op \in {"add", "create"}
  <2>1. g = EvaluateCacheAdd(f, {})
    BY <1>3, <1>6 DEF FlagsOf
  <2>2. CASE c.obj = "table"
    <3>1. g = IF ~b THEN {} ELSE {"table", "chain", "set", "flowtable", "object"}
      BY <1>3, <2>1, <2>2 DEF EvaluateCacheAdd, NFT_CACHE_TABLE, NFT_CACHE_CHAIN, NFT_CACHE_SET,
         NFT_CACHE_OBJECT, NFT_CACHE_FLOWTABLE, ObjectKinds
    <3>2. Needs(c) = IF c.block = <<>> THEN {} ELSE {"table"}
      BY <1>6, <2>2 DEF Needs, Kinds
    <3> QED BY <1>2, <1>5, <1>6, <3>1, <3>2 DEF CacheFlag, CacheKinds, IsFlush, f
  <2>3. CASE c.obj \in Kinds \ {"table"}
    <3>1. g = {"table"}
      BY <1>3, <2>1, <2>3 DEF EvaluateCacheAdd, NFT_CACHE_TABLE, ObjectKinds, Kinds
    <3>2. Needs(c) = {"table"}
      BY <1>6, <2>3 DEF Needs, Kinds
    <3> QED BY <1>5, <1>6, <3>1, <3>2 DEF CacheFlag, CacheKinds, IsFlush, f
  <2>4. CASE c.obj = "elements"
    <3>1. g = {"table", "chain", "set", "object", "setelem_maybe"}
      BY <1>3, <2>1, <2>4 DEF EvaluateCacheAdd, NFT_CACHE_TABLE, NFT_CACHE_CHAIN, NFT_CACHE_SET, NFT_CACHE_OBJECT, ObjectKinds
    <3>2. Needs(c) = {"table", "set"}
      BY <1>6, <2>4 DEF Needs, Kinds
    <3> QED BY <1>5, <1>6, <3>1, <3>2 DEF CacheFlag, CacheKinds, ModifierFlags, IsFlush, f
  <2>5. CASE c.obj = "rule"
    <3>1. g = {"table", "chain", "set", "object", "flowtable"}
      BY <1>3, <2>1, <2>5 DEF EvaluateCacheAdd, NFT_CACHE_TABLE, NFT_CACHE_CHAIN, NFT_CACHE_SET,
         NFT_CACHE_OBJECT, NFT_CACHE_FLOWTABLE, ObjectKinds
    <3>2. Needs(c) = {}
      BY <1>6, <2>5 DEF Needs, Kinds
    <3> QED BY <1>5, <1>6, <3>1, <3>2 DEF CacheFlag, CacheKinds, IsFlush, f
  <2>6. CASE c.obj = "setelems"
    <3>1. g = {}
      BY <1>3, <2>1, <2>6 DEF EvaluateCacheAdd, ObjectKinds
    <3>2. Needs(c) = {}
      BY <1>6, <2>6 DEF Needs, Kinds
    <3> QED BY <1>5, <1>6, <3>1, <3>2 DEF CacheFlag, CacheKinds, IsFlush, f
  <2> QED BY <1>4, <1>6, <2>2, <2>3, <2>4, <2>5, <2>6
<1>7. CASE c.op \in {"delete", "destroy"}
  <2>1. g = EvaluateCacheDel(f, NFT_CACHE_CHAIN \cup NFT_CACHE_SET
           \cup NFT_CACHE_FLOWTABLE \cup NFT_CACHE_OBJECT)
    BY <1>3, <1>7 DEF FlagsOf
  <2>2. g = {"table", "chain", "set", "flowtable", "object"} \cup (IF c.obj = "elements" THEN {"setelem_maybe"} ELSE {})
    BY <1>3, <2>1 DEF EvaluateCacheDel, NFT_CACHE_CHAIN, NFT_CACHE_SET, NFT_CACHE_OBJECT, NFT_CACHE_FLOWTABLE
  <2>3. Needs(c) \subseteq {"table", "set"}
    BY <1>7 DEF Needs
  <2> QED BY <1>5, <1>7, <2>2, <2>3 DEF CacheFlag, CacheKinds, ModifierFlags, IsFlush, f
<1>8. CASE c.op = "flush"
  <2>1. g = EvaluateCacheFlush(f, {})
    BY <1>3, <1>8 DEF FlagsOf
  <2>2. g = IF c.obj = "set" THEN {"table", "set"} ELSE IF c.obj = "ruleset" THEN {"flushed"} ELSE {}
    BY <1>3, <1>4, <1>8, <2>1 DEF EvaluateCacheFlush, NFT_CACHE_SET
  <2>3. Needs(c) = IF c.obj = "set" THEN {"table", "set"} ELSE {}
    BY <1>4, <1>8 DEF Needs
  <2> QED BY <1>5, <1>8, <2>2, <2>3 DEF CacheFlag, CacheKinds, ModifierFlags, IsFlush, f, Kinds
<1>9. CASE c.op = "rename"
  <2>1. g = {"table", "chain"}
    BY <1>3, <1>4, <1>9 DEF FlagsOf, EvaluateCacheRename, NFT_CACHE_CHAIN
  <2>2. Needs(c) = {}
    BY <1>4, <1>9 DEF Needs
  <2> QED BY <1>5, <1>9, <2>1, <2>2 DEF CacheFlag, CacheKinds, IsFlush, f
<1>10. CASE c.op = "get"
  <2>1. g = {"table", "set", "setelem"}
    BY <1>3, <1>4, <1>10 DEF FlagsOf, EvaluateCacheGet, NFT_CACHE_SETELEM
  <2>2. Needs(c) \subseteq {"table", "set"}
    BY <1>4, <1>10 DEF Needs
  <2> QED BY <1>5, <1>10, <2>1, <2>2 DEF CacheFlag, CacheKinds, IsFlush, f
<1>11. CASE c.op = "list"
  <2> DEFINE l == ListFilter(f, NoFilter)
             no == FALSE
  <2>1. g = EvaluateCacheList(f, {}, l, no)
    BY <1>3, <1>11 DEF FlagsOf
  <2> HIDE DEF l
  <2>2. Needs(c) = {"table", c.obj}
    BY <1>4, <1>11 DEF Needs, Kinds
  <2>3. c.obj = "table" => {"table"} \subseteq g /\ g \subseteq CacheKinds \cup {"refresh"}
    BY <1>3, <2>1 DEF EvaluateCacheList, NFT_CACHE_TABLE, NFT_CACHE_FULL, CacheKinds
  <2>4. c.obj = "chain" => {"table", "chain"} \subseteq g /\ g \subseteq CacheKinds \cup {"refresh", "terse"}
    BY <1>3, <2>1 DEF EvaluateCacheList, NFT_CACHE_FULL, CacheKinds
  <2>5. c.obj = "set" => {"table", "set"} \subseteq g /\ g \subseteq CacheKinds \cup {"refresh"}
    BY <1>3, <2>1 DEF EvaluateCacheList, NFT_CACHE_TABLE, NFT_CACHE_SET, NFT_CACHE_SETELEM, NFT_CACHE_FULL, CacheKinds
  <2>6. c.obj = "flowtable" => {"table", "flowtable"} \subseteq g /\ g \subseteq CacheKinds \cup {"refresh"}
    BY <1>3, <2>1 DEF EvaluateCacheList, NFT_CACHE_TABLE, NFT_CACHE_FLOWTABLE, CacheKinds
  <2>7. c.obj = "counter" => {"table", "object"} \subseteq g /\ g \subseteq CacheKinds \cup {"refresh"}
    BY <1>3, <2>1 DEF EvaluateCacheList, NFT_CACHE_FULL, CacheKinds
  <2>8. c.obj \in {"table", "chain", "set", "flowtable", "counter"}
    BY <1>4, <1>11 DEF Kinds
  <2> HIDE DEF g
  <2>9. "table" \in g /\ FlagOf(c.obj) \in g /\ g \subseteq CacheKinds \cup {"refresh", "terse"}
    BY <1>5, <2>3, <2>4, <2>5, <2>6, <2>7, <2>8
  <2> QED BY <1>5, <1>11, <2>2, <2>9 DEF CacheFlag, CacheKinds, ModifierFlags, IsFlush, f, g
<1> QED BY <1>4, <1>6, <1>7, <1>8, <1>9, <1>10, <1>11

\* The messages that do_command() builds are what the commands mean; a rename
\* has the handle of the cached chain.
LEMMA ExecMessages ==
  ASSUME NEW c \in Command
  PROVE  /\ c.op \in {"add", "create"} => DoCommandAdd(c) = OwnMeaning(c)
         /\ c.op \in {"delete", "destroy"} => DoCommandDelete(c) = OwnMeaning(c)
         /\ c.op = "flush" => DoCommandFlush(c) = OwnMeaning(c)
<1>1. c.op = "flush" => c.obj \in {"table", "chain", "set", "ruleset"}
  BY DEF Command
<1>2. c.op \in {"delete", "destroy"} => DoCommandDelete(c) = OwnMeaning(c)
  BY DEF DoCommandDelete, OwnMeaning
<1>3. c.op = "flush" => DoCommandFlush(c) = OwnMeaning(c)
  BY <1>1 DEF DoCommandFlush, OwnMeaning, Holder
<1> QED BY <1>2, <1>3 DEF OwnMeaning

\* A rename.
LEMMA RenameMessage ==
  ASSUME NEW c \in Command, c.op = "rename", cache \subseteq Object, InCache(c, "chain")
  PROVE  /\ DoCommandRename(c) \in Message
         /\ \E e \in cache :
              /\ e.obj = "chain" /\ e.table = c.table /\ e.name = c.name
              /\ DoCommandRename(c) = [type |-> "rename", obj |-> "chain", table |-> c.table,
                                       name |-> None, handle |-> e.handle, new |-> c.new]
<1> DEFINE P(e) == e.obj = "chain" /\ e.table = c.table /\ e.name = c.name
           e == CHOOSE x \in cache : P(x)
<1>1. \E x \in cache : P(x)
  BY DEF InCache, Present
<1>2. e \in cache /\ P(e)
  BY <1>1, Zenon
<1>3. DoCommandRename(c) = [Msg("rename", "chain", c) EXCEPT !.name = None, !.handle = e.handle]
  BY DEF DoCommandRename
<1> HIDE DEF e
<1>4. DoCommandRename(c) = [type |-> "rename", obj |-> "chain", table |-> c.table,
                            name |-> None, handle |-> e.handle, new |-> c.new]
  BY <1>3 DEF Msg
<1>5. c.table \in Name /\ c.new \in Name /\ c.new # None /\ None \in Name
  BY DEF Command, Name
<1>6. e.handle \in Nat
  BY <1>2 DEF Object
<1>7. DoCommandRename(c) \in Message
  BY <1>4, <1>5, <1>6 DEF Message, Kinds
<1> QED BY <1>2, <1>4, <1>7

\* Handles are not taken back.
LEMMA SentGrows ==
  ASSUME NEW s \in States
  PROVE  \A q \in Seq(Message) : s.last <= SentAll(s, q).last
<1> DEFINE T == {q \in Seq(Message) : s.last <= SentAll(s, q).last}
<1>0. s.last \in Nat
  BY DEF States
<1>1. <<>> \in T
  BY <1>0, MessagesRun
<1>2. ASSUME NEW q \in Seq(Message), NEW x \in Message, NEW t, q \in T, IsAppend(t, q, x) PROVE t \in T
  <2>1. t \in Seq(Message)
    BY <1>2, AppendFacts
  <2>2. SentAll(s, q) \in States /\ SentAll(s, t) = Apply(SentAll(s, q), x)
    BY <1>2, MessagesStep
  <2>3. SentAll(s, t) \in States /\ SentAll(s, q).last <= SentAll(s, t).last
    BY <2>2, ApplyFacts
  <2>4. SentAll(s, q).last \in Nat /\ SentAll(s, t).last \in Nat
    BY <2>2, <2>3 DEF States
  <2> QED BY <1>0, <1>2, <2>1, <2>3, <2>4
<1> HIDE DEF T
<1>3. Seq(Message) \subseteq T
  BY <1>1, <1>2, SeqInductionR
<1> QED BY <1>3 DEF T

\* The flags of an input.
LEMMA InputFlags ==
  ASSUME NEW in \in Seq(Command)
  PROVE  /\ Flags(in) \subseteq CacheFlag
         /\ \A k \in Kinds : FlagOf(k) \in Flags(in) => "table" \in Flags(in)
         /\ "flushed" \in Flags(in) <=> ~NoFlush(in)
         /\ Covered(in, Flags(in))
<1>1. \A i \in DOMAIN in : in[i] \in Command
  OBVIOUS
<1>2. \A x : x \in Flags(in) <=> \E i \in DOMAIN in : x \in FlagsOf(ForCache(in[i]))
  BY Zenon DEF Flags
<1>3. Flags(in) \subseteq CacheFlag
  BY <1>1, <1>2, FlagFacts
<1>4. \A k \in Kinds : FlagOf(k) \in Flags(in) => "table" \in Flags(in)
  BY <1>1, <1>2, FlagFacts
<1>5. "flushed" \in Flags(in) <=> ~NoFlush(in)
  BY <1>1, <1>2, FlagFacts DEF NoFlush
<1>6. Covered(in, Flags(in))
  BY <1>1, <1>2, FlagFacts DEF Covered
<1> QED BY <1>3, <1>4, <1>5, <1>6

\* The ruleset at the start of an input.
LEMMA StartFacts ==
  ASSUME TypeInv
  PROVE  /\ Start \in States /\ Start.ok /\ Start.objs = kernel /\ Start.last = last
         /\ \A e \in kernel : e \in Object /\ e.handle \in Nat /\ e.handle <= last /\ HasTable(kernel, e.table)
         /\ Applied(kernel, batch) = SentAll(Start, batch)
<1>1. Ruleset(kernel, last)
  BY DEF TypeInv
<1>2. Start \in States
  BY <1>1 DEF Start, States, Ruleset
<1>3. \A e \in kernel : e \in Object /\ e.handle \in Nat /\ e.handle <= last /\ HasTable(kernel, e.table)
  BY <1>1 DEF Ruleset, Object
<1>4. Applied(kernel, batch) = SentAll(Start, batch)
  BY Zenon DEF Applied, SentAll, Start
<1> QED BY <1>2, <1>3, <1>4 DEF Start

\* The end of an input.
LEMMA TypeReturn ==
  ASSUME TypeInv, NEW how \in {"done", "rejected", "refused"}, Return(how),
         Ruleset(kernel', last'), last' <= MaxHandle, last <= last'
  PROVE  TypeInv'
<1>1. /\ pc' = "idle" /\ outcome' = how /\ script' = FALSE /\ given' = <<>> /\ cmds' = <<>>
      /\ pos' = 1 /\ nerrs' = 0 /\ batch' = <<>>
  BY DEF Return, Cleared
<1>2. /\ cflags' \subseteq CacheFlag \ {"flushed"} /\ valid' \in BOOLEAN /\ cache' \subseteq Object
      /\ \A e \in cache' : e.handle <= last' /\ HasTable(cache', e.table)
  <2>1. CASE UNCHANGED cacheVars
    <3>1. cache' = cache /\ cflags' = cflags /\ valid' = valid
      BY <2>1 DEF cacheVars
    <3>2. \A e \in cache : e.handle \in Nat
      BY DEF TypeInv, Object
    <3>3. last \in Nat /\ last' \in Nat
      BY DEF TypeInv, Ruleset
    <3>4. \A e \in cache' : e.handle <= last'
      BY <3>1, <3>2, <3>3 DEF TypeInv
    <3>5. \A e \in cache' : HasTable(cache', e.table)
      BY <3>1 DEF TypeInv
    <3> QED BY <3>1, <3>4, <3>5 DEF TypeInv
  <2>2. CASE Release
    BY <2>2 DEF Release, NFT_CACHE_EMPTY
  <2> QED BY <2>1, <2>2 DEF Return
<1>3. given' \in Seq(Command) /\ cmds' \in Seq(Command) /\ batch' \in Seq(Message) /\ Len(cmds') = 0 /\ Len(batch') = 0
  BY <1>1
<1>4. nerrs' \in 0..MaxErrors /\ pos' \in 1..(Len(cmds') + 1)
  BY <1>1, <1>3, TransactionAssumption
<1>5. /\ outcome' \in {"none", "done", "rejected", "refused", "crashed"}
      /\ pc' \in {"idle", "expand", "eval", "execute"} /\ pc' # "eval" /\ pc' = "idle"
      /\ script' \in BOOLEAN /\ nerrs' = 0 /\ batch' = <<>> /\ cmds' = <<>>
  BY <1>1, Zenon
<1>6. Len(batch') <= pos' - 1
  BY <1>1, <1>3
<1> QED BY <1>2, <1>3, <1>4, <1>5, <1>6 DEF TypeInv

\* A command of the list.
LEMMA CurrentFacts ==
  ASSUME TypeInv, pos <= Len(cmds)
  PROVE  /\ pos \in 1..Len(cmds) /\ pos \in Nat /\ Len(cmds) \in Nat /\ pos \in DOMAIN cmds
         /\ cmds \in Seq(Command) /\ cmds[pos] \in Command
         /\ pos + 1 \in 1..(Len(cmds) + 1) /\ DOMAIN cmds = 1..Len(cmds)
BY DEF TypeInv

\* The list after an expansion.
LEMMA ExpandList ==
  ASSUME TypeInv, pos <= Len(cmds), NEW e, e = Expansion(cmds[pos]),
         NEW l, l = SubSeq(cmds, 1, pos) \o e \o SubSeq(cmds, pos + 1, Len(cmds))
  PROVE  /\ l \in Seq(Command) /\ e \in Seq(Command) /\ e \in Seq(Extra(cmds[pos]))
         /\ Len(l) = Len(cmds) + Len(e) /\ Len(e) \in Nat
         /\ \A i \in 1..pos : l[i] = cmds[i]
         /\ \A i \in (pos + 1)..(pos + Len(e)) : l[i] = e[i - pos]
         /\ \A i \in (pos + Len(e) + 1)..(Len(cmds) + Len(e)) : l[i] = cmds[i - Len(e)]
<1> DEFINE a == SubSeq(cmds, 1, pos)
           b == SubSeq(cmds, pos + 1, Len(cmds))
           ae == a \o e
<1>1. /\ pos \in 1..Len(cmds) /\ pos \in Nat /\ Len(cmds) \in Nat
      /\ cmds \in Seq(Command) /\ cmds[pos] \in Command
  BY CurrentFacts
<1>2. a \in Seq(Command) /\ Len(a) = pos /\ \A i \in 1..pos : a[i] = cmds[i]
  BY <1>1
<1>3. b \in Seq(Command) /\ Len(b) = Len(cmds) - pos /\ \A i \in 1..(Len(cmds) - pos) : b[i] = cmds[pos + i]
  BY <1>1
<1>4. e \in Seq(Extra(cmds[pos])) /\ e \in Seq(Command) /\ Len(e) \in Nat
  <2>1. e \in Seq(Extra(cmds[pos])) /\ Extra(cmds[pos]) \subseteq Command
    BY <1>1, ExpansionFacts
  <2>2. Seq(Extra(cmds[pos])) \subseteq Seq(Command)
    BY <2>1, SeqMono, Zenon
  <2> QED BY <2>1, <2>2
<1>5. l = ae \o b
  OBVIOUS
<1> HIDE DEF a, b
<1>6. /\ ae \in Seq(Command) /\ Len(ae) = pos + Len(e)
      /\ \A i \in 1..pos : ae[i] = a[i]
      /\ \A i \in (pos + 1)..(pos + Len(e)) : ae[i] = e[i - pos]
  <2>1. /\ ae \in Seq(Command) /\ Len(ae) = Len(a) + Len(e)
        /\ \A i \in 1..Len(a) : ae[i] = a[i]
        /\ \A i \in (Len(a) + 1)..(Len(a) + Len(e)) : ae[i] = e[i - Len(a)]
    <3>1. a \in Seq(Command)
      BY <1>2
    <3>2. e \in Seq(Command)
      BY <1>4
    <3> HIDE DEF ae
    <3>3. /\ a \o e \in Seq(Command) /\ Len(a \o e) = Len(a) + Len(e)
          /\ \A i \in 1..Len(a) : (a \o e)[i] = a[i]
          /\ \A i \in (Len(a) + 1)..(Len(a) + Len(e)) : (a \o e)[i] = e[i - Len(a)]
      BY <3>1, <3>2, ConcatElements, Zenon
    <3> QED BY <3>3, Zenon DEF ae
  <2> HIDE DEF ae
  <2> QED BY <1>2, <2>1
<1> HIDE DEF ae
<1>7. /\ l \in Seq(Command) /\ Len(l) = pos + Len(e) + (Len(cmds) - pos)
      /\ \A i \in 1..(pos + Len(e)) : l[i] = ae[i]
      /\ \A i \in (pos + Len(e) + 1)..(pos + Len(e) + (Len(cmds) - pos)) : l[i] = b[i - (pos + Len(e))]
  <2>1. /\ ae \o b \in Seq(Command) /\ Len(ae \o b) = Len(ae) + Len(b)
        /\ \A i \in 1..Len(ae) : (ae \o b)[i] = ae[i]
        /\ \A i \in (Len(ae) + 1)..(Len(ae) + Len(b)) : (ae \o b)[i] = b[i - Len(ae)]
    BY <1>3, <1>6, ConcatElements, Zenon
  <2>2. /\ l \in Seq(Command) /\ Len(l) = Len(ae) + Len(b)
        /\ \A i \in 1..Len(ae) : l[i] = ae[i]
        /\ \A i \in (Len(ae) + 1)..(Len(ae) + Len(b)) : l[i] = b[i - Len(ae)]
    BY <1>5, <2>1, Zenon
  <2>3. Len(ae) = pos + Len(e)
    BY <1>6
  <2>4. Len(b) = Len(cmds) - pos
    BY <1>3
  <2> QED BY <2>2, <2>3, <2>4, Zenon
<1>8. Len(l) = Len(cmds) + Len(e)
  <2>1. \A p, m, n \in Int : p + n + (m - p) = m + n
    OBVIOUS
  <2>2. pos \in Int /\ Len(cmds) \in Int /\ Len(e) \in Int
    BY <1>1, <1>4
  <2> QED BY <1>7, <2>1, <2>2, Zenon
<1>9. \A i \in 1..pos : l[i] = cmds[i]
  <2> SUFFICES ASSUME NEW i \in 1..pos PROVE l[i] = cmds[i]
    OBVIOUS
  <2>1. i \in 1..(pos + Len(e))
    BY <1>1, <1>4
  <2> QED BY <1>2, <1>6, <1>7, <2>1, Zenon
<1>10. \A i \in (pos + 1)..(pos + Len(e)) : l[i] = e[i - pos]
  <2> SUFFICES ASSUME NEW i \in (pos + 1)..(pos + Len(e)) PROVE l[i] = e[i - pos]
    OBVIOUS
  <2>1. i \in 1..(pos + Len(e))
    BY <1>1, <1>4
  <2> QED BY <1>6, <1>7, <2>1, Zenon
<1>11. \A i \in (pos + Len(e) + 1)..(Len(cmds) + Len(e)) : l[i] = cmds[i - Len(e)]
  <2> SUFFICES ASSUME NEW i \in (pos + Len(e) + 1)..(Len(cmds) + Len(e)) PROVE l[i] = cmds[i - Len(e)]
    OBVIOUS
  <2>1. i \in (pos + Len(e) + 1)..(pos + Len(e) + (Len(cmds) - pos))
        /\ i - (pos + Len(e)) \in 1..(Len(cmds) - pos)
        /\ pos + (i - (pos + Len(e))) = i - Len(e)
    BY <1>1, <1>4
  <2> QED BY <1>3, <1>7, <2>1
<1> QED BY <1>4, <1>7, <1>8, <1>9, <1>10, <1>11

\* A new input.
LEMMA TypeBegin ==
  ASSUME TypeInv, NEW in \in Input \cup Script, NEW s \in BOOLEAN, Begin(in, s)
  PROVE  TypeInv'
<1>1. in \in Seq(Command)
  BY InputsAssumption
<1>2. /\ pc' = "expand" /\ pc = "idle" /\ given' = in /\ cmds' = in /\ script' = s /\ outcome' = "none"
      /\ kernel' = kernel /\ last' = last /\ pos' = pos /\ nerrs' = nerrs /\ batch' = batch
      /\ NftCacheUpdate(in, s)
  BY DEF Begin
<1>3. cmds = <<>> /\ pos = 1 /\ nerrs = 0 /\ batch = <<>>
  <2>1. cmds = <<>> /\ nerrs = 0 /\ batch = <<>> /\ pos \in 1..(Len(cmds) + 1)
    BY <1>2 DEF TypeInv
  <2>2. Len(cmds) = 0
    BY <2>1
  <2> QED BY <2>1, <2>2
<1>4. /\ valid' = TRUE
      /\ \/ cflags' = cflags /\ cache' = cache
         \/ cflags' = {} /\ cache' = {}
         \/ /\ "flushed" \notin Flags(in)
            /\ cflags' = Flags(in)
            /\ \A e : e \in cache' <=> e \in kernel /\ FlagOf(e.obj) \in Flags(in)
  BY <1>2 DEF NftCacheUpdate, NFT_CACHE_EMPTY
<1>5. /\ cflags' \subseteq CacheFlag \ {"flushed"} /\ cache' \subseteq Object
      /\ \A e \in cache' : e.handle <= last /\ HasTable(cache', e.table)
  <2>1. CASE cflags' = cflags /\ cache' = cache
    BY <2>1 DEF TypeInv
  <2>2. CASE cflags' = {} /\ cache' = {}
    BY <2>2
  <2>3. CASE /\ "flushed" \notin Flags(in)
             /\ cflags' = Flags(in)
             /\ \A e : e \in cache' <=> e \in kernel /\ FlagOf(e.obj) \in Flags(in)
    <3>1. cflags' \subseteq CacheFlag \ {"flushed"}
      BY <1>1, <2>3, InputFlags
    <3>2. \A e \in cache' : e \in Object /\ e.handle <= last /\ HasTable(kernel, e.table)
      BY <2>3, StartFacts
    <3>3. ASSUME NEW e \in cache' PROVE HasTable(cache', e.table)
      <4>1. PICK h \in kernel : h.obj = "table" /\ h.table = e.table /\ h.name = e.table
        BY <3>2 DEF HasTable, Present
      <4>2. e.obj \in Kinds /\ FlagOf(e.obj) \in Flags(in)
        BY <2>3, <3>2 DEF Object
      <4>3. "table" \in Flags(in)
        BY <1>1, <4>2, InputFlags
      <4>4. FlagOf(h.obj) = "table"
        BY <4>1 DEF FlagOf
      <4>5. h \in cache'
        BY <2>3, <4>3, <4>4
      <4> QED BY <4>1, <4>5 DEF HasTable, Present
    <3> QED BY <3>1, <3>2, <3>3
  <2> QED BY <1>4, <2>1, <2>2, <2>3
<1>6. valid' \in BOOLEAN /\ Len(cmds') \in Nat /\ pos' \in 1..(Len(cmds') + 1) /\ Len(batch') <= pos' - 1
  BY <1>1, <1>2, <1>3, <1>4
<1>7. /\ given' \in Seq(Command) /\ cmds' \in Seq(Command) /\ batch' \in Seq(Message)
      /\ nerrs' \in 0..MaxErrors
  BY <1>1, <1>2, <1>3, TransactionAssumption
<1>8. /\ outcome' \in {"none", "done", "rejected", "refused", "crashed"}
      /\ pc' \in {"idle", "expand", "eval", "execute"} /\ pc' # "eval" /\ pc' # "idle" /\ nerrs' = 0 /\ batch' = <<>>
  BY <1>2, <1>3, Zenon
<1>9. Ruleset(kernel', last') /\ last' <= MaxHandle
  BY <1>2 DEF TypeInv
<1> QED BY <1>2, <1>5, <1>6, <1>7, <1>8, <1>9 DEF TypeInv

\* A step of the loop over blocks.
LEMMA TypeExpand ==
  ASSUME TypeInv, Expand
  PROVE  TypeInv'
<1>1. /\ pc = "expand" /\ kernel' = kernel /\ last' = last /\ script' = script /\ given' = given
      /\ nerrs' = nerrs /\ batch' = batch /\ outcome' = outcome
      /\ cache' = cache /\ cflags' = cflags /\ valid' = valid
  BY DEF Expand, cacheVars
<1>2. nerrs = 0 /\ batch = <<>>
  BY <1>1 DEF TypeInv
<1>3. CASE pos <= Len(cmds)
  <2> DEFINE e == Expansion(cmds[pos])
             l == SubSeq(cmds, 1, pos) \o e \o SubSeq(cmds, pos + 1, Len(cmds))
  <2>1. cmds' = l /\ pos' = pos + 1 /\ pc' = pc
    BY <1>3 DEF Expand
  <2>2. e = Expansion(cmds[pos]) /\ l = SubSeq(cmds, 1, pos) \o e \o SubSeq(cmds, pos + 1, Len(cmds))
    OBVIOUS
  <2> HIDE DEF e, l
  <2>3. l \in Seq(Command) /\ Len(l) = Len(cmds) + Len(e) /\ Len(e) \in Nat
    BY <1>3, <2>2, ExpandList
  <2>4. pos \in 1..Len(cmds) /\ Len(cmds) \in Nat
    BY <1>3, CurrentFacts
  <2>5. cmds' \in Seq(Command) /\ pos' \in 1..(Len(cmds') + 1)
    BY <2>1, <2>3, <2>4
  <2>6. Len(batch') <= pos' - 1
    BY <1>1, <1>2, <2>1, <2>4
  <2>7. pc' = "expand" /\ pc' # "eval" /\ pc' # "idle"
    BY <1>1, <2>1
  <2> QED BY <1>1, <1>2, <2>5, <2>6, <2>7 DEF TypeInv
<1>4. CASE ~(pos <= Len(cmds))
  <2>1. cmds' = cmds /\ pos' = 1 /\ pc' = "eval"
    BY <1>4 DEF Expand
  <2>2. pos' \in 1..(Len(cmds') + 1) /\ Len(batch') <= pos' - 1
    BY <1>1, <1>2, <2>1 DEF TypeInv
  <2>3. nerrs' < MaxErrors
    BY <1>1, <1>2, TransactionAssumption
  <2> QED BY <1>1, <1>2, <2>1, <2>2, <2>3 DEF TypeInv
<1> QED BY <1>3, <1>4

\* The cache after an evaluated command.
LEMMA EvaluateCache ==
  ASSUME cache \subseteq Object, \A e \in cache : HasTable(cache, e.table),
         NEW c \in Command, Found(c),
         CmdEvaluateAdd(c) \/ CmdEvaluateDelete(c) \/ CmdEvaluateOther(c)
  PROVE  /\ cache' \subseteq Object
         /\ \A e \in cache' : (e \in cache \/ e.handle = 0) /\ HasTable(cache', e.table)
         /\ c.op \in {"add", "create"} /\ c.obj \in Kinds =>
              \A k, t, n : Present(cache', k, t, n) <=>
                Present(cache, k, t, n) \/ (k = c.obj /\ t = c.table /\ n = c.name)
         /\ c.op \in {"delete", "destroy"} /\ c.obj \in Kinds =>
              \A k, t, n : Present(cache', k, t, n) <=>
                /\ Present(cache, k, t, n)
                /\ c.name = None \/ IF c.obj = "table" THEN t # c.table
                                    ELSE ~(k = c.obj /\ t = c.table /\ n = c.name)
         /\ c.op \notin {"add", "create", "delete", "destroy"} \/ c.obj \notin Kinds => cache' = cache
<1>1. CASE c.op \in {"add", "create"} /\ c.obj \in Kinds
  <2>1. CmdEvaluateAdd(c)
    BY <1>1 DEF CmdEvaluateDelete, CmdEvaluateOther
  <2>2. cache' = IF Present(cache, c.obj, c.table, c.name) THEN cache ELSE cache \cup {Entry(c)}
    BY <1>1, <2>1 DEF CmdEvaluateAdd, AddToCache
  <2> DEFINE e == Entry(c)
  <2>3. e \in Object /\ e.obj = c.obj /\ e.table = c.table /\ e.name = c.name /\ e.handle = 0
    BY <1>1 DEF Entry, Object, Command
  <2> HIDE DEF e
  <2>4. cache' = cache \/ \A x : x \in cache' <=> x \in cache \/ x = e
    BY <2>2 DEF e
  <2>5. \A k, t, n : Present(cache', k, t, n) <=>
                Present(cache, k, t, n) \/ (k = c.obj /\ t = c.table /\ n = c.name)
    <3>1. CASE Present(cache, c.obj, c.table, c.name)
      BY <2>2, <3>1
    <3>2. CASE ~Present(cache, c.obj, c.table, c.name)
      <4>1. \A x : x \in cache' <=> x \in cache \/ x = e
        BY <2>2, <3>2 DEF e
      <4> QED BY <2>3, <4>1 DEF Present
    <3> QED BY <3>1, <3>2
  <2>6. HasTable(cache', c.table)
    <3>1. CASE c.obj = "table"
      BY <1>1, <2>5, <3>1 DEF HasTable, Command
    <3>2. CASE c.obj # "table"
      <4>1. HasTable(cache, c.table)
        BY <1>1, <3>2 DEF Found, Kinds
      <4> QED BY <2>5, <4>1 DEF HasTable
    <3> QED BY <3>1, <3>2
  <2>7. \A t : HasTable(cache, t) => HasTable(cache', t)
    BY <2>5 DEF HasTable
  <2> QED BY <1>1, <2>3, <2>4, <2>5, <2>6, <2>7
<1>2. CASE c.op \in {"delete", "destroy"} /\ c.obj \in Kinds
  <2>1. CmdEvaluateDelete(c)
    BY <1>2 DEF CmdEvaluateAdd, CmdEvaluateOther
  <2>2. \A x : x \in cache' <=>
          /\ x \in cache
          /\ c.name = None \/ IF c.obj = "table" THEN x.table # c.table
                              ELSE ~(x.obj = c.obj /\ x.table = c.table /\ x.name = c.name)
    BY <1>2, <2>1 DEF CmdEvaluateDelete, DelFromCache
  <2>3. \A k, t, n : Present(cache', k, t, n) <=>
                /\ Present(cache, k, t, n)
                /\ c.name = None \/ IF c.obj = "table" THEN t # c.table
                                    ELSE ~(k = c.obj /\ t = c.table /\ n = c.name)
    BY <2>2 DEF Present
  <2>4. c.obj = "table" => c.name = c.table
    BY DEF Command
  <2>5. \A x \in cache' : HasTable(cache', x.table)
    BY <2>2, <2>3, <2>4 DEF HasTable
  <2> QED BY <1>2, <2>2, <2>3, <2>5
<1>3. CASE ~(c.op \in {"add", "create", "delete", "destroy"} /\ c.obj \in Kinds)
  <2>1. cache' = cache
    BY <1>3 DEF CmdEvaluateAdd, CmdEvaluateDelete, CmdEvaluateOther
  <2> QED BY <1>3, <2>1
<1> QED BY <1>1, <1>2, <1>3

\* A command is evaluated.
LEMMA TypeEvaluate ==
  ASSUME TypeInv, Evaluate
  PROVE  TypeInv'
<1>1. /\ pc = "eval" /\ pos <= Len(cmds) /\ Found(cmds[pos])
      /\ CmdEvaluateAdd(cmds[pos]) \/ CmdEvaluateDelete(cmds[pos]) \/ CmdEvaluateOther(cmds[pos])
      /\ pos' = pos + 1 /\ kernel' = kernel /\ last' = last /\ pc' = pc /\ script' = script /\ given' = given
      /\ cmds' = cmds /\ nerrs' = nerrs /\ batch' = batch /\ cflags' = cflags /\ valid' = valid
      /\ outcome' = outcome
  BY DEF Evaluate
<1>2. cmds[pos] \in Command /\ pos' \in 1..(Len(cmds) + 1) /\ pos \in Nat
  BY <1>1, CurrentFacts
<1>3. cache \subseteq Object /\ \A e \in cache : e.handle <= last /\ HasTable(cache, e.table)
  BY DEF TypeInv
<1>4. cache' \subseteq Object /\ \A e \in cache' : (e \in cache \/ e.handle = 0) /\ HasTable(cache', e.table)
  BY <1>1, <1>2, <1>3, EvaluateCache
<1>5. last \in Nat
  BY DEF TypeInv, Ruleset
<1>6. \A e \in cache' : e.handle <= last
  BY <1>3, <1>4, <1>5
<1>7. nerrs < MaxErrors /\ batch = <<>>
  BY <1>1 DEF TypeInv
<1>8. Len(batch') <= pos' - 1
  BY <1>1, <1>2, <1>7
<1> QED BY <1>1, <1>2, <1>4, <1>6, <1>7, <1>8 DEF TypeInv

\* An error.
LEMMA TypeError ==
  ASSUME TypeInv, EvaluateError
  PROVE  TypeInv'
<1>1. /\ pc = "eval" /\ pos <= Len(cmds) /\ nerrs' = nerrs + 1
      /\ pos' = IF nerrs' = MaxErrors THEN Len(cmds) + 1 ELSE pos + 1
      /\ kernel' = kernel /\ last' = last /\ pc' = pc /\ script' = script /\ given' = given
      /\ cmds' = cmds /\ batch' = batch /\ cflags' = cflags /\ valid' = valid /\ cache' = cache
      /\ outcome' = outcome
  BY DEF EvaluateError, cacheVars
<1>2. pos \in 1..Len(cmds) /\ pos + 1 \in 1..(Len(cmds) + 1) /\ Len(cmds) \in Nat
  BY <1>1, CurrentFacts
<1>3. nerrs < MaxErrors /\ batch = <<>> /\ nerrs \in Nat
  BY <1>1, <1>2 DEF TypeInv
<1>4. nerrs' \in 0..MaxErrors /\ pos' \in 1..(Len(cmds') + 1) /\ (nerrs' < MaxErrors \/ pos' > Len(cmds'))
  BY <1>1, <1>2, <1>3, TransactionAssumption
<1>5. Len(batch') <= pos' - 1
  BY <1>1, <1>3, <1>4
<1> QED BY <1>1, <1>3, <1>4, <1>5 DEF TypeInv

\* A command is executed.
LEMMA TypeExecute ==
  ASSUME TypeInv, Execute
  PROVE  TypeInv'
<1>1. /\ pc = "execute" /\ pos <= Len(cmds)
      /\ pos' = pos + 1 /\ kernel' = kernel /\ last' = last /\ pc' = pc /\ script' = script /\ given' = given
      /\ cmds' = cmds /\ nerrs' = nerrs /\ cflags' = cflags /\ valid' = valid /\ cache' = cache
      /\ outcome' = outcome
  BY DEF Execute, Executing, cacheVars
<1>2. cmds[pos] \in Command /\ pos + 1 \in 1..(Len(cmds) + 1) /\ pos \in Nat
  BY <1>1, CurrentFacts
<1>3. batch' = batch \/ \E m \in Message : batch' = Append(batch, m)
  <2> DEFINE c == cmds[pos]
  <2>1. cache \subseteq Object
    BY DEF TypeInv
  <2>2. c \in Command
    BY <1>2
  <2>3. \/ c.op \in {"add", "create"} /\ batch' = Append(batch, DoCommandAdd(c))
        \/ c.op \in {"delete", "destroy"} /\ batch' = Append(batch, DoCommandDelete(c))
        \/ c.op = "flush" /\ batch' = Append(batch, DoCommandFlush(c))
        \/ c.op = "rename" /\ InCache(c, "chain") /\ batch' = Append(batch, DoCommandRename(c))
        \/ batch' = batch
    BY DEF Execute
  <2> HIDE DEF c
  <2>4. OwnMeaning(c) \in Message
    BY <2>2, MeaningFacts
  <2>5. c.op \in {"add", "create"} => DoCommandAdd(c) \in Message
    BY <2>2, <2>4, ExecMessages
  <2>6. c.op \in {"delete", "destroy"} => DoCommandDelete(c) \in Message
    BY <2>2, <2>4, ExecMessages
  <2>7. c.op = "flush" => DoCommandFlush(c) \in Message
    BY <2>2, <2>4, ExecMessages
  <2>8. c.op = "rename" /\ InCache(c, "chain") => DoCommandRename(c) \in Message
    BY <2>1, <2>2, RenameMessage
  <2> QED BY <2>3, <2>5, <2>6, <2>7, <2>8, Zenon
<1>4. batch \in Seq(Message) /\ Len(batch) <= pos - 1 /\ Len(batch) \in Nat
  BY DEF TypeInv
<1>5. batch' \in Seq(Message) /\ Len(batch') <= pos' - 1
  <2>1. CASE batch' = batch
    BY <1>1, <1>2, <1>4, <2>1
  <2>2. CASE \E m \in Message : batch' = Append(batch, m)
    <3>1. PICK m \in Message : batch' = Append(batch, m)
      BY <2>2
    <3>2. IsAppend(batch', batch, m)
      BY <3>1 DEF IsAppend
    <3>3. batch' \in Seq(Message) /\ Len(batch') = Len(batch) + 1
      BY <1>4, <3>2, AppendFacts
    <3> QED BY <1>1, <1>2, <1>4, <3>3
  <2> QED BY <1>3, <2>1, <2>2
<1>6. nerrs' = 0 /\ pc' # "eval" /\ pc' # "idle" /\ pc' = "execute"
  BY <1>1 DEF TypeInv
<1>7. pos' \in 1..(Len(cmds') + 1)
  BY <1>1, <1>2
<1> QED BY <1>1, <1>5, <1>6, <1>7 DEF TypeInv

\* The batch is committed.
LEMMA CommitFacts ==
  ASSUME TypeInv
  PROVE  Applied(kernel, batch) \in States /\ last <= Applied(kernel, batch).last
<1>1. batch \in Seq(Message)
  BY DEF TypeInv
<1>2. Start \in States /\ Start.last = last /\ Applied(kernel, batch) = SentAll(Start, batch)
  BY StartFacts
<1>3. SentAll(Start, batch) \in States /\ Start.last <= SentAll(Start, batch).last
  BY <1>1, <1>2, MessagesRun, SentGrows
<1> QED BY <1>2, <1>3

\* The invariant holds initially and every step keeps it.
LEMMA TypeStep ==
  ASSUME TypeInv, [Next]_vars
  PROVE  TypeInv'
<1>1. Ruleset(kernel, last) /\ last <= MaxHandle /\ last \in Nat
  BY DEF TypeInv, Ruleset
<1>2. ASSUME NEW in \in Input, Begin(in, FALSE) PROVE TypeInv'
  <2> DEFINE s == FALSE
  <2>1. Begin(in, s) /\ s \in BOOLEAN
    BY <1>2
  <2> HIDE DEF s
  <2> QED BY <2>1, TypeBegin
<1>3. ASSUME NEW in \in Script, Begin(in, TRUE) PROVE TypeInv'
  <2> DEFINE s == TRUE
  <2>1. Begin(in, s) /\ s \in BOOLEAN
    BY <1>3
  <2> HIDE DEF s
  <2> QED BY <2>1, TypeBegin
<1>4. CASE Evaluated
  <2>1. /\ pc = "eval" /\ pc' = "execute" /\ pos' = 1 /\ nerrs = 0
        /\ kernel' = kernel /\ last' = last /\ script' = script /\ given' = given
        /\ cmds' = cmds /\ nerrs' = nerrs /\ batch' = batch /\ cflags' = cflags /\ valid' = valid
        /\ cache' = cache /\ outcome' = outcome
    BY <1>4 DEF Evaluated, cacheVars
  <2>2. batch = <<>> /\ Len(cmds) \in Nat
    BY <2>1 DEF TypeInv
  <2>3. pos' \in 1..(Len(cmds') + 1) /\ Len(batch') <= pos' - 1
    BY <2>1, <2>2
  <2> QED BY <2>1, <2>3 DEF TypeInv
<1>5. ASSUME kernel' = kernel, last' = last, NEW how \in {"done", "rejected", "refused"}, Return(how) PROVE TypeInv'
  <2>1. Ruleset(kernel', last') /\ last' <= MaxHandle /\ last <= last'
    BY <1>1, <1>5
  <2> QED BY <1>5, <2>1, TypeReturn
<1>6. CASE Rejected \/ ExecuteError \/ NothingToSend \/ Refused
  <2>1. kernel' = kernel /\ last' = last /\ (Return("rejected") \/ Return("done") \/ Return("refused"))
    BY <1>6 DEF Rejected, ExecuteError, NothingToSend, Refused
  <2>2. "rejected" \in {"done", "rejected", "refused"} /\ "done" \in {"done", "rejected", "refused"}
        /\ "refused" \in {"done", "rejected", "refused"}
    OBVIOUS
  <2> QED BY <1>5, <2>1, <2>2, Zenon
<1>7. CASE ExecuteNull
  <2>1. /\ pc' = "idle" /\ outcome' = "crashed" /\ script' = FALSE /\ given' = <<>> /\ cmds' = <<>>
        /\ pos' = 1 /\ nerrs' = 0 /\ batch' = <<>> /\ kernel' = kernel /\ last' = last
        /\ cache' = {} /\ cflags' = {} /\ valid' = FALSE
    BY <1>7 DEF ExecuteNull, Cleared, Release, NFT_CACHE_EMPTY
  <2>2. given' \in Seq(Command) /\ cmds' \in Seq(Command) /\ batch' \in Seq(Message)
        /\ pos' \in 1..(Len(cmds') + 1) /\ Len(batch') <= pos' - 1 /\ nerrs' \in 0..MaxErrors
    BY <2>1, TransactionAssumption
  <2>3. /\ outcome' \in {"none", "done", "rejected", "refused", "crashed"}
        /\ pc' \in {"idle", "expand", "eval", "execute"} /\ pc' # "eval" /\ pc' = "idle"
        /\ script' \in BOOLEAN /\ valid' \in BOOLEAN /\ nerrs' = 0 /\ batch' = <<>> /\ cmds' = <<>>
    BY <2>1, Zenon
  <2>4. /\ cflags' \subseteq CacheFlag \ {"flushed"} /\ cache' \subseteq Object
        /\ \A e \in cache' : e.handle <= last' /\ HasTable(cache', e.table)
    BY <2>1
  <2>5. Ruleset(kernel', last') /\ last' <= MaxHandle
    BY <1>1, <2>1
  <2> QED BY <2>2, <2>3, <2>4, <2>5 DEF TypeInv
<1>8. CASE Commit
  <2> DEFINE s == Applied(kernel, batch)
             how == "done"
  <2>1. s.last <= MaxHandle /\ kernel' = s.objs /\ last' = s.last /\ Return(how)
    BY <1>8 DEF Commit
  <2>2. s \in States /\ last <= s.last
    BY CommitFacts
  <2>3. how \in {"done", "rejected", "refused"}
    OBVIOUS
  <2> HIDE DEF s, how
  <2>4. Ruleset(kernel', last') /\ last' <= MaxHandle /\ last <= last'
    BY <2>1, <2>2 DEF States
  <2> QED BY <2>1, <2>3, <2>4, TypeReturn
<1>9. CASE UNCHANGED vars
  <2>1. /\ pc' = pc /\ kernel' = kernel /\ last' = last /\ script' = script /\ given' = given /\ pos' = pos
        /\ cmds' = cmds /\ nerrs' = nerrs /\ batch' = batch /\ cflags' = cflags /\ valid' = valid
        /\ cache' = cache /\ outcome' = outcome
    BY <1>9 DEF vars, cacheVars
  <2> QED BY <2>1 DEF TypeInv
<1> QED BY <1>2, <1>3, <1>4, <1>6, <1>7, <1>8, <1>9, TypeExpand, TypeEvaluate, TypeError, TypeExecute DEF Next

-----------------------------------------------------------------------------
(* The commands so far. *)

\* The first commands of a list.
LEMMA PrefixFacts ==
  ASSUME NEW q \in Seq(Command)
  PROVE  /\ SubSeq(q, 1, 0) = <<>> /\ SubSeq(q, 1, Len(q)) = q
         /\ \A n \in 0..Len(q) : SubSeq(q, 1, n) \in Seq(Command)
         /\ \A n \in 1..Len(q) : q[n] \in Command /\ IsAppend(SubSeq(q, 1, n), SubSeq(q, 1, n - 1), q[n])
<1>1. SubSeq(q, 1, 0) = <<>> /\ SubSeq(q, 1, Len(q)) = q /\ Len(q) \in Nat
  OBVIOUS
<1>2. ASSUME NEW n \in 0..Len(q) PROVE SubSeq(q, 1, n) \in Seq(Command)
  OBVIOUS
<1>3. ASSUME NEW n \in 1..Len(q) PROVE q[n] \in Command /\ IsAppend(SubSeq(q, 1, n), SubSeq(q, 1, n - 1), q[n])
  <2> DEFINE t == SubSeq(q, 1, n)
             u == SubSeq(q, 1, n - 1)
             x == q[n]
             v == Append(u, x)
  <2>1. x \in Command /\ n \in Nat /\ n - 1 \in Nat
    BY <1>1
  <2>2. t \in Seq(Command) /\ Len(t) = n /\ \A i \in 1..n : t[i] = q[i]
    BY <1>1
  <2>3. u \in Seq(Command) /\ Len(u) = n - 1 /\ \A i \in 1..(n - 1) : u[i] = q[i]
    BY <1>1
  <2>4. IsAppend(v, u, x)
    BY DEF IsAppend
  <2> HIDE DEF t, u, v, x
  <2>5. v \in Seq(Command) /\ Len(v) = Len(u) + 1 /\ v[Len(u) + 1] = x /\ \A i \in 1..Len(u) : v[i] = u[i]
    <3>1. x \in Command
      BY <2>1
    <3>2. u \in Seq(Command)
      BY <2>3
    <3>3. \A w : IsAppend(w, u, x) =>
              /\ w \in Seq(Command) /\ Len(w) = Len(u) + 1
              /\ w[Len(u) + 1] = x /\ \A i \in 1..Len(u) : w[i] = u[i]
      BY <3>1, <3>2, AppendFacts
    <3> QED BY <2>4, <3>3, Zenon
  <2>6. Len(v) = n /\ v[n] = x /\ \A i \in 1..(n - 1) : v[i] = u[i]
    BY <2>1, <2>3, <2>5
  <2>7. \A i \in 1..n : t[i] = v[i]
    BY <2>1, <2>2, <2>3, <2>6 DEF x
  <2>8. t = v
    BY <2>1, <2>2, <2>5, <2>6, <2>7
  <2> QED BY <2>1, <2>4, <2>8 DEF t, u, x
<1> QED BY <1>1, <1>2, <1>3, Zenon

\* What they did.
LEMMA PrefixDone ==
  ASSUME NEW s \in States, NEW q \in Seq(Command)
  PROVE  /\ DoesAll(s, SubSeq(q, 1, 0)) = s /\ SeesAll(s, SubSeq(q, 1, 0)) = s
         /\ \A n \in 0..Len(q) : DoesAll(s, SubSeq(q, 1, n)) \in States /\ SeesAll(s, SubSeq(q, 1, n)) \in States
         /\ \A n \in 1..Len(q) :
              /\ DoesAll(s, SubSeq(q, 1, n)) = Does(DoesAll(s, SubSeq(q, 1, n - 1)), q[n])
              /\ SeesAll(s, SubSeq(q, 1, n)) = Sees(SeesAll(s, SubSeq(q, 1, n - 1)), q[n])
<1>1. DoesAll(s, SubSeq(q, 1, 0)) = s /\ SeesAll(s, SubSeq(q, 1, 0)) = s
  BY PrefixFacts, SeesRun, DoesRun
<1>2. ASSUME NEW n \in 0..Len(q)
      PROVE  DoesAll(s, SubSeq(q, 1, n)) \in States /\ SeesAll(s, SubSeq(q, 1, n)) \in States
  BY PrefixFacts, SeesRun, DoesRun, Zenon
<1>3. ASSUME NEW n \in 1..Len(q)
      PROVE  /\ DoesAll(s, SubSeq(q, 1, n)) = Does(DoesAll(s, SubSeq(q, 1, n - 1)), q[n])
             /\ SeesAll(s, SubSeq(q, 1, n)) = Sees(SeesAll(s, SubSeq(q, 1, n - 1)), q[n])
  <2> DEFINE t == SubSeq(q, 1, n)
             u == SubSeq(q, 1, n - 1)
  <2>1. n - 1 \in 0..Len(q)
    OBVIOUS
  <2>2. u \in Seq(Command) /\ q[n] \in Command /\ IsAppend(t, u, q[n])
    BY <2>1, PrefixFacts, Zenon
  <2> HIDE DEF t, u
  <2>3. DoesAll(s, t) = Does(DoesAll(s, u), q[n])
    BY <2>2, DoesStep
  <2>4. SeesAll(s, t) = Sees(SeesAll(s, u), q[n])
    BY <2>2, SeesStep
  <2> QED BY <2>3, <2>4 DEF t, u
<1> QED BY <1>1, <1>2, <1>3, Zenon

\* A failure is not forgotten.
LEMMA SeenFails ==
  ASSUME NEW s \in States, NEW q \in Seq(Command), NEW n \in 0..Len(q), SeesAll(s, SubSeq(q, 1, Len(q))).ok
  PROVE  SeesAll(s, SubSeq(q, 1, n)).ok
<1> DEFINE U == {m \in Nat : m <= Len(q) => SeesAll(s, SubSeq(q, 1, Len(q) - m)).ok}
<1>0. Len(q) \in Nat
  OBVIOUS
<1>1. 0 \in U
  BY <1>0
<1>2. ASSUME NEW m \in Nat, m \in U PROVE m + 1 \in U
  <2> SUFFICES ASSUME m + 1 <= Len(q) PROVE SeesAll(s, SubSeq(q, 1, Len(q) - (m + 1))).ok
    OBVIOUS
  <2> DEFINE k == Len(q) - m
             v == SeesAll(s, SubSeq(q, 1, k - 1))
  <2>1. k \in 1..Len(q) /\ k - 1 \in 0..Len(q) /\ k - 1 = Len(q) - (m + 1) /\ m <= Len(q)
    BY <1>0
  <2>2. SeesAll(s, SubSeq(q, 1, k)).ok
    BY <1>2, <2>1
  <2> HIDE DEF k
  <2>3. SeesAll(s, SubSeq(q, 1, k)) = Sees(v, q[k]) /\ v \in States
    BY <2>1, PrefixDone, Zenon
  <2>4. q[k] \in Command
    BY <2>1
  <2> HIDE DEF v
  <2>5. OwnMeaning(q[k]) \in Message
    BY <2>4, MeaningFacts
  <2>6. Apply(v, OwnMeaning(q[k])).ok
    BY <2>2, <2>3 DEF Sees
  <2>7. v.ok
    BY <2>3, <2>5, <2>6, ApplyFacts
  <2> QED BY <2>1, <2>7 DEF v
<1>3. Nat \subseteq U
  <2> HIDE DEF U
  <2> QED BY <1>1, <1>2, SetInduction
<1>4. Len(q) - n \in Nat /\ Len(q) - n <= Len(q) /\ Len(q) - (Len(q) - n) = n
  BY <1>0
<1>5. Len(q) - n \in U
  BY <1>3, <1>4
<1> QED BY <1>4, <1>5

\* Without listings both are the same.
LEMMA SeenDone ==
  ASSUME NEW s \in States, NEW q \in Seq(Command), \A i \in DOMAIN q : q[i].op \notin {"list", "get"}
  PROVE  \A n \in 0..Len(q) : SeesAll(s, SubSeq(q, 1, n)) = DoesAll(s, SubSeq(q, 1, n))
<1> DEFINE U == {n \in Nat : n <= Len(q) => SeesAll(s, SubSeq(q, 1, n)) = DoesAll(s, SubSeq(q, 1, n))}
<1>0. Len(q) \in Nat /\ DOMAIN q = 1..Len(q)
  OBVIOUS
<1>1. 0 \in U
  <2>1. SeesAll(s, SubSeq(q, 1, 0)) = DoesAll(s, SubSeq(q, 1, 0))
    BY PrefixDone
  <2> QED BY <2>1
<1>2. ASSUME NEW n \in Nat, n \in U PROVE n + 1 \in U
  <2> SUFFICES ASSUME n + 1 <= Len(q) PROVE SeesAll(s, SubSeq(q, 1, n + 1)) = DoesAll(s, SubSeq(q, 1, n + 1))
    OBVIOUS
  <2> DEFINE k == n + 1
  <2>1. k \in 1..Len(q) /\ k - 1 = n /\ n <= Len(q)
    BY <1>0
  <2> HIDE DEF k
  <2>2. SeesAll(s, SubSeq(q, 1, k)) = Sees(SeesAll(s, SubSeq(q, 1, n)), q[k])
        /\ DoesAll(s, SubSeq(q, 1, k)) = Does(DoesAll(s, SubSeq(q, 1, n)), q[k])
    BY <2>1, PrefixDone
  <2>3. SeesAll(s, SubSeq(q, 1, n)) = DoesAll(s, SubSeq(q, 1, n))
    BY <1>2, <2>1
  <2>4. q[k].op \notin {"list", "get"}
    BY <1>0, <2>1
  <2> QED BY <2>2, <2>3, <2>4 DEF Does, k
<1>3. Nat \subseteq U
  <2> HIDE DEF U
  <2> QED BY <1>1, <1>2, SetInduction
<1> QED BY <1>0, <1>3

\* The commands of the list, one after the other.
LEMMA DoneFacts ==
  ASSUME TypeInv
  PROVE  /\ Done(0) = Start /\ Seen(0) = Start
         /\ \A n \in 0..Len(cmds) : Done(n) \in States /\ Seen(n) \in States
         /\ \A n \in 1..Len(cmds) : Done(n) = Does(Done(n - 1), cmds[n]) /\ Seen(n) = Sees(Seen(n - 1), cmds[n])
         /\ Seen(Len(cmds)).ok => \A n \in 0..Len(cmds) : Seen(n).ok
         /\ (\A i \in DOMAIN cmds : cmds[i].op \notin {"list", "get"}) => \A n \in 0..Len(cmds) : Seen(n) = Done(n)
<1>1. Start \in States
  BY StartFacts
<1>2. cmds \in Seq(Command)
  BY DEF TypeInv
<1>3. \A n : Done(n) = DoesAll(Start, SubSeq(cmds, 1, n)) /\ Seen(n) = SeesAll(Start, SubSeq(cmds, 1, n))
  BY DEF Done, Seen
<1>4. Done(0) = Start /\ Seen(0) = Start
  BY <1>1, <1>2, <1>3, PrefixDone
<1>5. \A n \in 0..Len(cmds) : Done(n) \in States /\ Seen(n) \in States
  BY <1>1, <1>2, <1>3, PrefixDone
<1>6. \A n \in 1..Len(cmds) : Done(n) = Does(Done(n - 1), cmds[n]) /\ Seen(n) = Sees(Seen(n - 1), cmds[n])
  BY <1>1, <1>2, <1>3, PrefixDone
<1>7. Seen(Len(cmds)).ok => \A n \in 0..Len(cmds) : Seen(n).ok
  BY <1>1, <1>2, <1>3, SeenFails
<1>8. (\A i \in DOMAIN cmds : cmds[i].op \notin {"list", "get"}) => \A n \in 0..Len(cmds) : Seen(n) = Done(n)
  BY <1>1, <1>2, <1>3, SeenDone
<1> QED BY <1>4, <1>5, <1>6, <1>7, <1>8

-----------------------------------------------------------------------------
(* The cache follows the commands. *)

\* What a command that succeeds does to the names.
LEMMA CommandNames ==
  ASSUME NEW s \in States, NEW c \in Command, Does(s, c).ok, c.op # "rename", ~IsFlush(c)
  PROVE  /\ s.ok
         /\ c.op \in {"add", "create"} /\ c.obj \in Kinds =>
              \A k, t, n : Present(Does(s, c).objs, k, t, n) <=>
                Present(s.objs, k, t, n) \/ (k = c.obj /\ t = c.table /\ n = c.name)
         /\ c.op \in {"delete", "destroy"} /\ c.obj \in Kinds =>
              /\ \A k, t, n : Present(Does(s, c).objs, k, t, n) => Present(s.objs, k, t, n)
              /\ c.name # None => \A k, t, n : Present(Does(s, c).objs, k, t, n) <=>
                   /\ Present(s.objs, k, t, n)
                   /\ IF c.obj = "table" THEN t # c.table ELSE ~(k = c.obj /\ t = c.table /\ n = c.name)
         /\ c.op \notin {"add", "create", "delete", "destroy"} \/ c.obj \notin Kinds => Does(s, c) = s
<1> DEFINE m == OwnMeaning(c)
<1>1. m \in Message /\ m.table = c.table /\ m.name = c.name
  BY MeaningFacts
<1>2. c.op \in {"add", "create", "delete", "destroy", "flush", "rename", "list", "get"}
  BY DEF Command
<1>3. CASE c.op \in {"list", "get"}
  BY <1>3 DEF Does
<1>4. CASE c.op \notin {"list", "get"}
  <2>1. Does(s, c) = Apply(s, m)
    BY <1>4 DEF Does, Sees
  <2>2. s.ok
    BY <1>1, <2>1, ApplyFacts
  <2>3. c.op \in {"add", "create"} /\ c.obj \in Kinds => m.type \in {"new", "create"} /\ m.obj = c.obj
    BY MeaningFacts
  <2>4. c.op \in {"delete", "destroy"} /\ c.obj \in Kinds => m.type \in {"delete", "destroy"} /\ m.obj = c.obj
    BY MeaningFacts
  <2>5. c.op \notin {"add", "create", "delete", "destroy"} \/ c.obj \notin Kinds => m.type = "need"
    BY <1>2, <1>4, MeaningFacts DEF IsFlush
  <2> HIDE DEF m
  <2>6. m.type = "need" => Apply(s, m) = s
    BY <1>1, <2>1, <2>2, NeedFacts
  <2>7. m.type \in {"new", "create"} => \A k, t, n : Present(Apply(s, m).objs, k, t, n) <=>
           Present(s.objs, k, t, n) \/ (k = m.obj /\ t = m.table /\ n = m.name)
    BY <1>1, <2>1, <2>2, NewNames
  <2>8. m.type \in {"delete", "destroy"} =>
          /\ \A k, t, n : Present(Apply(s, m).objs, k, t, n) => Present(s.objs, k, t, n)
          /\ m.name # None => \A k, t, n : Present(Apply(s, m).objs, k, t, n) <=>
               /\ Present(s.objs, k, t, n)
               /\ IF m.obj = "table" THEN t # m.table ELSE ~(k = m.obj /\ t = m.table /\ n = m.name)
    BY <1>1, <2>1, <2>2, DeleteNames
  <2>9. c.op \in {"add", "create"} /\ c.obj \in Kinds =>
              \A k, t, n : Present(Does(s, c).objs, k, t, n) <=>
                Present(s.objs, k, t, n) \/ (k = c.obj /\ t = c.table /\ n = c.name)
    BY <1>1, <2>1, <2>3, <2>7
  <2>10. c.op \in {"delete", "destroy"} /\ c.obj \in Kinds =>
              /\ \A k, t, n : Present(Does(s, c).objs, k, t, n) => Present(s.objs, k, t, n)
              /\ c.name # None => \A k, t, n : Present(Does(s, c).objs, k, t, n) <=>
                   /\ Present(s.objs, k, t, n)
                   /\ IF c.obj = "table" THEN t # c.table ELSE ~(k = c.obj /\ t = c.table /\ n = c.name)
    BY <1>1, <2>1, <2>4, <2>8
  <2>11. c.op \notin {"add", "create", "delete", "destroy"} \/ c.obj \notin Kinds => Does(s, c) = s
    BY <2>1, <2>5, <2>6
  <2> QED BY <2>2, <2>9, <2>10, <2>11, Zenon
<1> QED BY <1>3, <1>4

\* What the evaluation of a command looks up is tracked, when flushes come first.
LEMMA NeedsTracked ==
  ASSUME TypeInv, CommandsInv, NEW n \in 1..Len(cmds), NEW k \in Needs(cmds[n]),
         \A i \in DOMAIN cmds : IsFlush(cmds[i]) => i = 1
  PROVE  Tracked(k, n - 1)
<1>1. n \in DOMAIN cmds /\ n \in Nat /\ DOMAIN cmds = 1..Len(cmds) /\ Len(cmds) \in Nat
  BY DEF TypeInv
<1>2. CASE NoFlush(cmds)
  BY <1>1, <1>2 DEF CommandsInv, Covered, Tracked
<1>3. CASE ~NoFlush(cmds)
  <2>1. PICK i \in DOMAIN cmds : IsFlush(cmds[i])
    BY <1>3 DEF NoFlush
  <2>2. IsFlush(cmds[1])
    BY <2>1
  <2>3. ~IsFlush(cmds[n])
    BY DEF Needs, IsFlush
  <2>4. n # 1
    BY <2>2, <2>3
  <2>5. n - 1 > 0
    BY <1>1, <2>4
  <2>6. \A j \in DOMAIN cmds : IsFlush(cmds[j]) <=> j = 1
    BY <2>2
  <2> QED BY <1>3, <2>5, <2>6 DEF Tracked
<1> QED BY <1>2, <1>3

\* What is covered and within, by name.
LEMMA CoversNames ==
  ASSUME NEW n
  PROVE  /\ Covers(n) <=> \A k, t, m : Tracked(k, n) /\ Present(Done(n).objs, k, t, m) => Present(cache, k, t, m)
         /\ Within(n) <=> \A k, t, m : Tracked(k, n) /\ Present(cache, k, t, m) => Present(Done(n).objs, k, t, m)
<1>1. Covers(n) <=> \A k, t, m : Tracked(k, n) /\ Present(Done(n).objs, k, t, m) => Present(cache, k, t, m)
  <2>1. ASSUME Covers(n), NEW k, NEW t, NEW m, Tracked(k, n), Present(Done(n).objs, k, t, m)
        PROVE  Present(cache, k, t, m)
    <3>1. PICK e \in Done(n).objs : e.obj = k /\ e.table = t /\ e.name = m
      BY <2>1 DEF Present
    <3> QED BY <2>1, <3>1 DEF Covers
  <2>2. ASSUME \A k, t, m : Tracked(k, n) /\ Present(Done(n).objs, k, t, m) => Present(cache, k, t, m)
        PROVE  Covers(n)
    <3> SUFFICES ASSUME NEW e \in Done(n).objs, Tracked(e.obj, n) PROVE Present(cache, e.obj, e.table, e.name)
      BY DEF Covers
    <3>1. Present(Done(n).objs, e.obj, e.table, e.name)
      BY DEF Present
    <3> QED BY <2>2, <3>1
  <2> QED BY <2>1, <2>2
<1>2. Within(n) <=> \A k, t, m : Tracked(k, n) /\ Present(cache, k, t, m) => Present(Done(n).objs, k, t, m)
  <2>1. ASSUME Within(n), NEW k, NEW t, NEW m, Tracked(k, n), Present(cache, k, t, m)
        PROVE  Present(Done(n).objs, k, t, m)
    <3>1. PICK e \in cache : e.obj = k /\ e.table = t /\ e.name = m
      BY <2>1 DEF Present
    <3> QED BY <2>1, <3>1 DEF Within
  <2>2. ASSUME \A k, t, m : Tracked(k, n) /\ Present(cache, k, t, m) => Present(Done(n).objs, k, t, m)
        PROVE  Within(n)
    <3> SUFFICES ASSUME NEW e \in cache, Tracked(e.obj, n) PROVE Present(Done(n).objs, e.obj, e.table, e.name)
      BY DEF Within
    <3>1. Present(cache, e.obj, e.table, e.name)
      BY DEF Present
    <3> QED BY <2>2, <3>1
  <2> QED BY <2>1, <2>2
<1> QED BY <1>1, <1>2

\* A list or a get that is found in a cache that has nothing but what is there
\* finds it there.
LEMMA FoundThere ==
  ASSUME NEW s \in States, s.ok, NEW c \in Command, c.op \in {"list", "get"}, Found(c),
         \A k \in Needs(c) : \A t, m : Present(cache, k, t, m) => Present(s.objs, k, t, m)
  PROVE  Sees(s, c) = s
<1> DEFINE k == IF c.op = "get" THEN "set" ELSE c.obj
           w == OwnMeaning(c)
<1>1. c.op = "list" => c.obj \in Kinds /\ c.name # None
  BY DEF Command
<1>2. c.op = "get" => c.obj = "elements" /\ c.name # None
  BY DEF Command
<1>3. w \in Message /\ w.type = "need" /\ w.obj = k /\ w.table = c.table /\ w.name = c.name
  BY MeaningFacts
<1>4. k \in Needs(c) /\ "table" \in Needs(c)
  BY <1>1, <1>2 DEF Needs, Kinds
<1>5. HasTable(cache, c.table) /\ Present(cache, k, c.table, c.name)
  <2>1. InCache(c, k)
    BY <1>1, <1>2 DEF Found, Kinds
  <2> QED BY <2>1 DEF InCache
<1> HIDE DEF k, w
<1>6. HasTable(s.objs, c.table) /\ Present(s.objs, k, c.table, c.name)
  BY <1>4, <1>5 DEF HasTable
<1>7. Target(s.objs, w) # {}
  BY <1>1, <1>2, <1>3, <1>6, TargetFacts
<1>8. Apply(s, w) = s
  BY <1>3, <1>6, <1>7, NeedFacts
<1> QED BY <1>8 DEF Sees, w

\* An evaluated command.
LEMMA FollowStep ==
  ASSUME TypeInv, CommandsInv, CacheInv, Evaluate, nerrs = 0
  PROVE  Done(pos).ok =>
           /\ NoRename(cmds) => \A k, t, m : Tracked(k, pos) /\ Present(Done(pos).objs, k, t, m) => Present(cache', k, t, m)
           /\ AllFollowed(cmds) => \A k, t, m : Tracked(k, pos) /\ Present(cache', k, t, m) => Present(Done(pos).objs, k, t, m)
           /\ InputsOrderly => Seen(pos) = Done(pos)
<1> DEFINE c == cmds[pos]
           s == Done(pos - 1)
           r == Done(pos)
<1>1. /\ pc = "eval" /\ pos <= Len(cmds) /\ Found(c)
      /\ CmdEvaluateAdd(c) \/ CmdEvaluateDelete(c) \/ CmdEvaluateOther(c)
  BY DEF Evaluate
<1>2. /\ pos \in 1..Len(cmds) /\ pos \in Nat /\ Len(cmds) \in Nat /\ pos \in DOMAIN cmds
      /\ c \in Command /\ pos - 1 \in 0..Len(cmds) /\ DOMAIN cmds = 1..Len(cmds)
  BY <1>1, CurrentFacts
<1>3. s \in States /\ r \in States /\ r = Does(s, c) /\ Seen(pos) = Sees(Seen(pos - 1), c)
  BY <1>2, DoneFacts
<1>4. FollowInv(pos - 1) /\ (pos = 1 => (~NoFlush(cmds) => cache = {}))
  BY <1>1 DEF CacheInv
<1>5. cache \subseteq Object /\ \A e \in cache : HasTable(cache, e.table)
  BY DEF TypeInv
<1>6. /\ c.op \in {"add", "create"} /\ c.obj \in Kinds =>
              \A k, t, n : Present(cache', k, t, n) <=>
                Present(cache, k, t, n) \/ (k = c.obj /\ t = c.table /\ n = c.name)
      /\ c.op \in {"delete", "destroy"} /\ c.obj \in Kinds =>
              \A k, t, n : Present(cache', k, t, n) <=>
                /\ Present(cache, k, t, n)
                /\ c.name = None \/ IF c.obj = "table" THEN t # c.table
                                    ELSE ~(k = c.obj /\ t = c.table /\ n = c.name)
      /\ c.op \notin {"add", "create", "delete", "destroy"} \/ c.obj \notin Kinds => cache' = cache
  BY <1>1, <1>2, <1>5, EvaluateCache
<1>7. AllFollowed(cmds) => Followed(c)
  BY <1>2 DEF AllFollowed
<1>8. NoRename(cmds) => c.op # "rename"
  BY <1>2 DEF NoRename
<1>9. AllFollowed(cmds) => NoRename(cmds)
  BY DEF AllFollowed, NoRename, Followed
<1> SUFFICES ASSUME r.ok
             PROVE  /\ NoRename(cmds) => \A k, t, m : Tracked(k, pos) /\ Present(r.objs, k, t, m) => Present(cache', k, t, m)
                    /\ AllFollowed(cmds) => \A k, t, m : Tracked(k, pos) /\ Present(cache', k, t, m) => Present(r.objs, k, t, m)
                    /\ InputsOrderly => Seen(pos) = r
  OBVIOUS
<1>10. s.ok
  <2>1. OwnMeaning(c) \in Message
    BY <1>2, MeaningFacts
  <2> HIDE DEF c, s, r
  <2>2. c.op \notin {"list", "get"} => Apply(s, OwnMeaning(c)).ok
    BY <1>3 DEF Does, Sees
  <2>3. c.op \in {"list", "get"} => s.ok
    BY <1>3 DEF Does
  <2> QED BY <1>3, <2>1, <2>2, <2>3, ApplyFacts
<1>11. /\ NoRename(cmds) => \A k, t, m : Tracked(k, pos - 1) /\ Present(s.objs, k, t, m) => Present(cache, k, t, m)
       /\ AllFollowed(cmds) => \A k, t, m : Tracked(k, pos - 1) /\ Present(cache, k, t, m) => Present(s.objs, k, t, m)
       /\ InputsOrderly => Seen(pos - 1) = s
  <2>1. /\ NoRename(cmds) => Covers(pos - 1)
        /\ AllFollowed(cmds) => Within(pos - 1)
        /\ InputsOrderly => Seen(pos - 1) = s
    BY <1>4, <1>10 DEF FollowInv
  <2> QED BY <2>1, CoversNames
<1>12. CASE NoRename(cmds)
  <2>1. CASE IsFlush(c)
    <3>1. ~NoFlush(cmds)
      BY <1>2, <2>1 DEF NoFlush
    <3>2. \A k : Tracked(k, pos) => pos = 1
      BY <1>2, <2>1, <3>1 DEF Tracked
    <3>3. pos = 1 => cache = {}
      BY <1>4, <3>1
    <3>4. cache' = cache
      BY <1>6, <2>1 DEF IsFlush
    <3>5. r.objs = {}
      <4> DEFINE w == OwnMeaning(c)
      <4>1. w \in Message /\ w.type = "flush"
        BY <1>2, <2>1, MeaningFacts DEF IsFlush
      <4>2. r = Apply(s, w)
        BY <1>3, <2>1 DEF Does, Sees, IsFlush
      <4> HIDE DEF w, r, s
      <4> QED BY <1>3, <1>10, <4>1, <4>2, FlushFacts
    <3>6. \A k, t, m : ~Present(r.objs, k, t, m)
      BY <3>5 DEF Present
    <3>7. \A k, t, m : Tracked(k, pos) => ~Present(cache', k, t, m)
      BY <3>2, <3>3, <3>4 DEF Present
    <3>8. InputsOrderly => Seen(pos) = r
      BY <1>3, <1>11, <2>1 DEF Does, IsFlush
    <3> QED BY <3>6, <3>7, <3>8
  <2>2. CASE ~IsFlush(c)
    <3>1. \A k : Tracked(k, pos) => Tracked(k, pos - 1)
      <4> SUFFICES ASSUME NEW k, Tracked(k, pos) PROVE Tracked(k, pos - 1)
        OBVIOUS
      <4>1. CASE NoFlush(cmds)
        BY <4>1 DEF Tracked
      <4>2. CASE ~NoFlush(cmds)
        <5>1. \A i \in DOMAIN cmds : IsFlush(cmds[i]) <=> i = 1
          BY <4>2 DEF Tracked
        <5>2. pos # 1
          BY <1>2, <2>2, <5>1
        <5>3. pos - 1 > 0
          BY <1>2, <5>2
        <5> QED BY <4>2, <5>1, <5>3 DEF Tracked
      <4> QED BY <4>1, <4>2
    <3> HIDE DEF c, s, r
    <3>2. c.op # "rename"
      BY <1>8, <1>12
    <3>3. /\ c.op \in {"add", "create"} /\ c.obj \in Kinds =>
              \A k, t, n : Present(r.objs, k, t, n) <=>
                Present(s.objs, k, t, n) \/ (k = c.obj /\ t = c.table /\ n = c.name)
          /\ c.op \in {"delete", "destroy"} /\ c.obj \in Kinds =>
              /\ \A k, t, n : Present(r.objs, k, t, n) => Present(s.objs, k, t, n)
              /\ c.name # None => \A k, t, n : Present(r.objs, k, t, n) <=>
                   /\ Present(s.objs, k, t, n)
                   /\ IF c.obj = "table" THEN t # c.table ELSE ~(k = c.obj /\ t = c.table /\ n = c.name)
          /\ c.op \notin {"add", "create", "delete", "destroy"} \/ c.obj \notin Kinds => r = s
      <4> DEFINE d == Does(s, c)
      <4>1. s \in States /\ c \in Command /\ r = Does(s, c) /\ r = d /\ ~IsFlush(c) /\ Does(s, c).ok
        BY <1>2, <1>3, <2>2 DEF c, s, r
      <4>2. /\ c.op \in {"add", "create"} /\ c.obj \in Kinds =>
                \A k, t, n : Present(d.objs, k, t, n) <=>
                  Present(s.objs, k, t, n) \/ (k = c.obj /\ t = c.table /\ n = c.name)
            /\ c.op \in {"delete", "destroy"} /\ c.obj \in Kinds =>
                /\ \A k, t, n : Present(d.objs, k, t, n) => Present(s.objs, k, t, n)
                /\ c.name # None => \A k, t, n : Present(d.objs, k, t, n) <=>
                     /\ Present(s.objs, k, t, n)
                     /\ IF c.obj = "table" THEN t # c.table ELSE ~(k = c.obj /\ t = c.table /\ n = c.name)
            /\ c.op \notin {"add", "create", "delete", "destroy"} \/ c.obj \notin Kinds => d = s
        BY <3>2, <4>1, CommandNames
      <4> HIDE DEF d
      <4> QED BY <4>1, <4>2
    <3>4. AllFollowed(cmds) /\ c.op \in {"delete", "destroy"} /\ c.obj \in Kinds => c.name # None
      BY <1>7 DEF Followed
    <3>5. \A k, t, m : Tracked(k, pos) /\ Present(r.objs, k, t, m) => Present(cache', k, t, m)
      <4>1. CASE c.op \in {"add", "create"} /\ c.obj \in Kinds
        BY <1>6, <1>11, <1>12, <3>1, <3>3, <4>1
      <4>2. CASE c.op \in {"delete", "destroy"} /\ c.obj \in Kinds
        <5> SUFFICES ASSUME NEW k, NEW t, NEW m, Tracked(k, pos), Present(r.objs, k, t, m) PROVE Present(cache', k, t, m)
          OBVIOUS
        <5>1. Present(s.objs, k, t, m) /\ Present(cache, k, t, m)
          BY <1>11, <1>12, <3>1, <3>3, <4>2
        <5>2. c.name # None =>
                IF c.obj = "table" THEN t # c.table ELSE ~(k = c.obj /\ t = c.table /\ m = c.name)
          BY <3>3, <4>2
        <5> QED BY <1>6, <4>2, <5>1, <5>2
      <4>3. CASE c.op \notin {"add", "create", "delete", "destroy"} \/ c.obj \notin Kinds
        BY <1>6, <1>11, <1>12, <3>1, <3>3, <4>3
      <4> QED BY <4>1, <4>2, <4>3
    <3>6. AllFollowed(cmds) => \A k, t, m : Tracked(k, pos) /\ Present(cache', k, t, m) => Present(r.objs, k, t, m)
      <4> SUFFICES ASSUME AllFollowed(cmds), NEW k, NEW t, NEW m, Tracked(k, pos), Present(cache', k, t, m)
                   PROVE  Present(r.objs, k, t, m)
        OBVIOUS
      <4>0. Present(cache, k, t, m) => Present(s.objs, k, t, m)
        BY <1>11, <3>1
      <4>1. CASE c.op \in {"add", "create"} /\ c.obj \in Kinds
        BY <1>6, <3>3, <4>0, <4>1
      <4>2. CASE c.op \in {"delete", "destroy"} /\ c.obj \in Kinds
        <5>1. c.name # None
          BY <3>4, <4>2
        <5>2. /\ Present(cache, k, t, m)
              /\ IF c.obj = "table" THEN t # c.table ELSE ~(k = c.obj /\ t = c.table /\ m = c.name)
          BY <1>6, <4>2, <5>1
        <5> QED BY <3>3, <4>0, <4>2, <5>1, <5>2
      <4>3. CASE c.op \notin {"add", "create", "delete", "destroy"} \/ c.obj \notin Kinds
        BY <1>6, <3>3, <4>0, <4>3
      <4> QED BY <4>1, <4>2, <4>3
    <3>7. InputsOrderly => Seen(pos) = r
      <4> SUFFICES ASSUME InputsOrderly PROVE Seen(pos) = r
        OBVIOUS
      <4>1. Seen(pos) = Sees(s, c)
        BY <1>3, <1>11 DEF c
      <4>2. CASE c.op \notin {"list", "get"}
        BY <1>3, <4>1, <4>2 DEF Does
      <4>3. CASE c.op \in {"list", "get"}
        <5>1. Orderly(cmds)
          BY DEF CommandsInv
        <5>2. \A i \in DOMAIN cmds : Followed(cmds[i]) /\ (cmds[i].op = "flush" /\ cmds[i].obj = "ruleset" => i = 1)
          BY <1>2, <4>3, <5>1 DEF Orderly, c
        <5>3. AllFollowed(cmds) /\ \A i \in DOMAIN cmds : IsFlush(cmds[i]) => i = 1
          BY <5>2 DEF AllFollowed, IsFlush
        <5>4. \A k \in Needs(c) : Tracked(k, pos - 1)
          BY <1>2, <5>3, NeedsTracked DEF c
        <5>5. \A k \in Needs(c) : \A t, m : Present(cache, k, t, m) => Present(s.objs, k, t, m)
          BY <1>11, <5>3, <5>4
        <5>6. Sees(s, c) = s
          BY <1>1, <1>2, <1>3, <1>10, <4>3, <5>5, FoundThere
        <5>7. r = s
          BY <1>3, <4>3 DEF Does
        <5> QED BY <4>1, <5>6, <5>7
      <4> QED BY <4>2, <4>3
    <3> QED BY <3>5, <3>6, <3>7 DEF r
  <2> QED BY <2>1, <2>2
<1>13. CASE ~NoRename(cmds)
  <2>1. InputsOrderly => Seen(pos) = r
    <3> SUFFICES ASSUME InputsOrderly PROVE Seen(pos) = r
      OBVIOUS
    <3>1. Orderly(cmds)
      BY DEF CommandsInv
    <3>2. ~ \A i \in DOMAIN cmds : Followed(cmds[i])
      BY <1>13 DEF NoRename, Followed
    <3>3. c.op \notin {"list", "get"}
      BY <1>2, <3>1, <3>2 DEF Orderly
    <3>4. Seen(pos) = Sees(s, c)
      BY <1>3, <1>11
    <3> HIDE DEF c, s, r
    <3> QED BY <1>3, <3>3, <3>4 DEF Does, r
  <2> QED BY <1>9, <1>13, <2>1
<1> QED BY <1>12, <1>13

-----------------------------------------------------------------------------
(* The steps, and the commands and their order. *)

\* What a step can be.
Goes == Evaluate \/ EvaluateError \/ Evaluated \/ Execute \/ UNCHANGED vars

Ends == Rejected \/ ExecuteNull \/ ExecuteError \/ NothingToSend \/ Commit \/ Refused

Kept ==
  /\ kernel' = kernel /\ last' = last /\ script' = script /\ given' = given /\ cmds' = cmds
  /\ cflags' = cflags /\ valid' = valid /\ outcome' = outcome

\* The input begins, is expanded, evaluated and executed, and ends.
LEMMA StepKinds ==
  ASSUME [Next]_vars
  PROVE  \/ \E in \in Input, s \in BOOLEAN : s = FALSE /\ Begin(in, s)
         \/ \E in \in Script, s \in BOOLEAN : s = TRUE /\ Begin(in, s)
         \/ Expand
         \/ Goes /\ Kept
         \/ Ends /\ pc' = "idle"
<1>1. ASSUME NEW in \in Input, Begin(in, FALSE)
      PROVE  \E h \in Input, s \in BOOLEAN : s = FALSE /\ Begin(h, s)
  BY <1>1, Zenon
<1>2. ASSUME NEW in \in Script, Begin(in, TRUE)
      PROVE  \E h \in Script, s \in BOOLEAN : s = TRUE /\ Begin(h, s)
  BY <1>2, Zenon
<1>3. Evaluate => Kept
  BY DEF Evaluate, Kept
<1>4. EvaluateError => Kept
  BY DEF EvaluateError, Kept, cacheVars
<1>5. Evaluated => Kept
  BY DEF Evaluated, Kept, cacheVars
<1>6. Execute => Kept
  BY DEF Execute, Kept, cacheVars
<1>7. UNCHANGED vars => Kept
  BY DEF vars, Kept, cacheVars
<1>8. Ends => pc' = "idle"
  BY DEF Ends, Rejected, ExecuteNull, ExecuteError, NothingToSend, Commit, Refused, Return
<1> QED BY <1>1, <1>2, <1>3, <1>4, <1>5, <1>6, <1>7, <1>8, Zenon DEF Next, Goes, Ends

\* l is q with elements of E inserted: f says where an old element was.
Spliced(q, l, E) ==
  \E Old \in SUBSET Nat, f \in [Nat -> Int] :
     /\ \A i \in DOMAIN l : i \in Old \/ l[i] \in E
     /\ \A i \in DOMAIN l : i \in Old => f[i] \in DOMAIN q /\ l[i] = q[f[i]] /\ (f[i] = 1 <=> i = 1)
     /\ \A i, j \in DOMAIN l : i \in Old /\ j \in Old /\ i < j => f[i] < f[j]
     /\ \A k \in DOMAIN q : \E i \in DOMAIN l : i \in Old /\ f[i] = k

\* A sequence with others inserted behind one element: those that were there
\* stay in their order.
LEMMA SpliceIndex ==
  ASSUME NEW S, NEW q \in Seq(S), NEW l \in Seq(S), NEW p \in 1..Len(q), NEW n \in Nat, NEW E,
         Len(l) = Len(q) + n,
         \A i \in 1..p : l[i] = q[i],
         \A i \in (p + 1)..(p + n) : l[i] \in E,
         \A i \in (p + n + 1)..(Len(q) + n) : l[i] = q[i - n]
  PROVE  Spliced(q, l, E)
<1> DEFINE Old == {i \in Nat : i <= p \/ i > p + n}
           f == [i \in Nat |-> IF i <= p THEN i ELSE i - n]
<1>1. p \in Nat /\ Len(q) \in Nat /\ DOMAIN q = 1..Len(q) /\ DOMAIN l = 1..(Len(q) + n) /\ p >= 1 /\ p <= Len(q)
  OBVIOUS
<1>2. Old \in SUBSET Nat /\ f \in [Nat -> Int]
  BY <1>1
<1>3. \A i \in Nat : (i \in Old <=> i <= p \/ i > p + n) /\ f[i] = IF i <= p THEN i ELSE i - n
  OBVIOUS
<1> HIDE DEF Old, f
<1>4. ASSUME NEW i \in DOMAIN l PROVE i \in Old \/ l[i] \in E
  <2>1. i \in Nat /\ i <= Len(q) + n /\ i >= 1
    BY <1>1
  <2>2. i \notin Old => i \in (p + 1)..(p + n)
    BY <1>1, <1>3, <2>1
  <2> QED BY <2>2
<1>5. ASSUME NEW i \in DOMAIN l, i \in Old
      PROVE  f[i] \in DOMAIN q /\ l[i] = q[f[i]] /\ (f[i] = 1 <=> i = 1)
  <2>1. i \in Nat /\ i <= Len(q) + n /\ i >= 1
    BY <1>1
  <2>2. CASE i <= p
    <3>1. i \in 1..p /\ f[i] = i
      BY <1>1, <1>3, <2>1, <2>2
    <3> QED BY <1>1, <3>1
  <2>3. CASE ~(i <= p)
    <3>1. i > p + n /\ f[i] = i - n
      BY <1>3, <1>5, <2>1, <2>3
    <3>2. i \in (p + n + 1)..(Len(q) + n) /\ i - n \in 1..Len(q) /\ i - n # 1 /\ i # 1
      BY <1>1, <2>1, <3>1
    <3> QED BY <1>1, <3>1, <3>2
  <2> QED BY <2>2, <2>3
<1>6. ASSUME NEW i \in DOMAIN l, NEW j \in DOMAIN l, i \in Old, j \in Old, i < j PROVE f[i] < f[j]
  <2>1. i \in Nat /\ j \in Nat
    BY <1>1
  <2> QED BY <1>1, <1>3, <1>6, <2>1
<1>7. ASSUME NEW k \in DOMAIN q PROVE \E i \in DOMAIN l : i \in Old /\ f[i] = k
  <2>0. k \in Nat /\ k >= 1 /\ k <= Len(q)
    BY <1>1
  <2>1. CASE k <= p
    <3>1. k \in DOMAIN l
      BY <1>1, <2>0
    <3>2. k \in Old /\ f[k] = k
      BY <1>3, <2>0, <2>1
    <3> QED BY <3>1, <3>2
  <2>2. CASE ~(k <= p)
    <3> DEFINE i == k + n
    <3>1. i \in DOMAIN l
      BY <1>1, <2>0
    <3>2. i \in Nat /\ ~(i <= p) /\ i > p + n /\ i - n = k
      BY <1>1, <2>0, <2>2
    <3> HIDE DEF i
    <3>3. i \in Old /\ f[i] = k
      BY <1>3, <3>2
    <3> QED BY <3>1, <3>3
  <2> QED BY <2>1, <2>2
<1> QED BY <1>2, <1>4, <1>5, <1>6, <1>7, Zenon DEF Spliced

\* The commands that an expansion inserts, and the others.
LEMMA ExpandIndex ==
  ASSUME TypeInv, Expand, pos <= Len(cmds)
  PROVE  Spliced(cmds, cmds', Extra(cmds[pos]))
<1> DEFINE e == Expansion(cmds[pos])
           l == SubSeq(cmds, 1, pos) \o e \o SubSeq(cmds, pos + 1, Len(cmds))
           n == Len(e)
           E == Extra(cmds[pos])
<1>1. cmds' = l /\ e = Expansion(cmds[pos]) /\ l = SubSeq(cmds, 1, pos) \o e \o SubSeq(cmds, pos + 1, Len(cmds))
  BY DEF Expand
<1> HIDE DEF e, l
<1>2. /\ l \in Seq(Command) /\ e \in Seq(E)
      /\ Len(l) = Len(cmds) + n /\ n \in Nat
      /\ \A i \in 1..pos : l[i] = cmds[i]
      /\ \A i \in (pos + 1)..(pos + n) : l[i] = e[i - pos]
      /\ \A i \in (pos + n + 1)..(Len(cmds) + n) : l[i] = cmds[i - n]
  BY <1>1, ExpandList
<1>3. pos \in 1..Len(cmds) /\ pos \in Nat /\ cmds \in Seq(Command)
  BY CurrentFacts
<1>4. \A i \in 1..n : e[i] \in E
  BY <1>2
<1> HIDE DEF n, E
<1>5. \A i \in (pos + 1)..(pos + n) : l[i] \in E
  <2> SUFFICES ASSUME NEW i \in (pos + 1)..(pos + n) PROVE l[i] \in E
    OBVIOUS
  <2>1. i - pos \in 1..n
    BY <1>2, <1>3
  <2> QED BY <1>2, <1>4, <2>1
<1>6. Spliced(cmds, l, E)
  <2>1. l \in Seq(Command) /\ n \in Nat /\ Len(l) = Len(cmds) + n
    BY <1>2
  <2>2. /\ \A i \in 1..pos : l[i] = cmds[i]
        /\ \A i \in (pos + n + 1)..(Len(cmds) + n) : l[i] = cmds[i - n]
    BY <1>2
  <2>3. pos \in 1..Len(cmds)
    BY <1>3
  <2>4. cmds \in Seq(Command)
    BY <1>3
  <2>5. \A i \in 1..pos : l[i] = cmds[i]
    BY <2>2
  <2>6. \A i \in (pos + n + 1)..(Len(cmds) + n) : l[i] = cmds[i - n]
    BY <2>2
  <2>7. l \in Seq(Command)
    BY <2>1
  <2>8. n \in Nat
    BY <2>1
  <2>9. Len(l) = Len(cmds) + n
    BY <2>1
  <2> QED BY <1>5, <2>3, <2>4, <2>5, <2>6, <2>7, <2>8, <2>9, SpliceIndex, Zenon
<1>7. cmds' = l
  BY <1>1
<1> QED BY <1>6, <1>7, Zenon DEF E

\* What is inserted.
LEMMA ExtraFacts ==
  ASSUME NEW c \in Command, NEW x \in Extra(c)
  PROVE  x.op = "add" /\ Followed(x) /\ ~IsFlush(x) /\ \A k \in Needs(x) : k \in Needs(c)
BY DEF Extra, Inners, Followed, IsFlush

\* The commands: a step.
LEMMA CommandsStep ==
  ASSUME TypeInv, pc # "idle" => CommandsInv, InputsFollowed, [Next]_vars, pc' # "idle"
  PROVE  CommandsInv'
<1>1. ASSUME NEW in, NEW s \in BOOLEAN, in \in Input \cup Script, s = FALSE => in \in Input, Begin(in, s)
      PROVE  CommandsInv'
  <2>1. in \in Seq(Command)
    BY <1>1, InputsAssumption
  <2>2. given' = in /\ cmds' = in /\ script' = s /\ outcome' = "none" /\ NftCacheUpdate(in, s)
    BY <1>1 DEF Begin
  <2>3. ~script' => AllFollowed(cmds')
    BY <1>1, <2>2 DEF InputsFollowed, AllFollowed
  <2>4. InputsOrderly => Orderly(cmds')
    BY <1>1, <2>2 DEF InputsOrderly
  <2>5. cflags' = IF Flags(in) \subseteq cflags /\ cflags' = cflags THEN cflags
                  ELSE IF "flushed" \in Flags(in) THEN {} ELSE Flags(in)
    BY <2>2 DEF NftCacheUpdate, NFT_CACHE_EMPTY
  <2>6. "flushed" \notin cflags
    BY DEF TypeInv
  <2>7. "flushed" \in Flags(in) <=> ~NoFlush(in)
    BY <2>1, InputFlags
  <2>8. Covered(in, Flags(in))
    BY <2>1, InputFlags
  <2>9. \/ NoFlush(cmds') /\ Covered(cmds', cflags')
        \/ ~NoFlush(cmds') /\ cflags' = {}
    <3>1. CASE NoFlush(in)
      <4>1. Flags(in) \subseteq cflags'
        BY <2>5, <2>7, <3>1
      <4>2. Covered(in, cflags')
        BY <2>8, <4>1 DEF Covered
      <4>3. cmds' = in
        BY <2>2
      <4> QED BY <3>1, <4>2, <4>3, Zenon
    <3>2. CASE ~NoFlush(in)
      BY <2>2, <2>5, <2>6, <2>7, <3>2
    <3> QED BY <3>1, <3>2
  <2> QED BY <2>2, <2>3, <2>4, <2>9 DEF CommandsInv
<1>2. CASE Expand
  <2>1. pc = "expand" /\ script' = script /\ given' = given /\ outcome' = outcome /\ cflags' = cflags
    BY <1>2 DEF Expand, cacheVars
  <2>2. CommandsInv
    BY <2>1
  <2>3. CASE ~(pos <= Len(cmds))
    <3>1. cmds' = cmds
      BY <1>2, <2>3 DEF Expand
    <3> QED BY <2>1, <2>2, <3>1 DEF CommandsInv
  <2>4. CASE pos <= Len(cmds)
    <3> DEFINE l == cmds'
    <3> HIDE DEF l
    <3>2. PICK Old \in SUBSET Nat, f \in [Nat -> Int] :
           /\ \A i \in DOMAIN l : i \in Old \/ l[i] \in Extra(cmds[pos])
           /\ \A i \in DOMAIN l : i \in Old => f[i] \in DOMAIN cmds /\ l[i] = cmds[f[i]] /\ (f[i] = 1 <=> i = 1)
           /\ \A i, j \in DOMAIN l : i \in Old /\ j \in Old /\ i < j => f[i] < f[j]
           /\ \A k \in DOMAIN cmds : \E i \in DOMAIN l : i \in Old /\ f[i] = k
      BY <1>2, <2>4, ExpandIndex, Zenon DEF l, Spliced
    <3>3. cmds[pos] \in Command /\ pos \in DOMAIN cmds
      BY <2>4, CurrentFacts
    <3>4. \A i \in DOMAIN l : i \notin Old =>
            /\ l[i].op = "add" /\ Followed(l[i]) /\ ~IsFlush(l[i])
            /\ \A k \in Needs(l[i]) : k \in Needs(cmds[pos])
      BY <3>2, <3>3, ExtraFacts
    <3>5. AllFollowed(cmds) => AllFollowed(l)
      BY <3>2, <3>4 DEF AllFollowed
    <3>6. NoFlush(cmds) <=> NoFlush(l)
      BY <3>2, <3>4 DEF NoFlush
    <3>7. OnlyChanges(cmds) => OnlyChanges(l)
      BY <3>2, <3>4 DEF OnlyChanges
    <3>8. Covered(cmds, cflags) => Covered(l, cflags)
      BY <3>2, <3>3, <3>4 DEF Covered
    <3>9. Orderly(cmds) => Orderly(l)
      <4>1. ASSUME \A i \in DOMAIN cmds : cmds[i].op \notin {"list", "get"},
                   \A i, j \in DOMAIN cmds :
                      i < j /\ cmds[i].op = "rename" /\ cmds[j].op = "rename" =>
                        cmds[i].table # cmds[j].table \/ cmds[i].name # cmds[j].name
            PROVE  /\ \A i \in DOMAIN l : l[i].op \notin {"list", "get"}
                   /\ \A i, j \in DOMAIN l :
                        i < j /\ l[i].op = "rename" /\ l[j].op = "rename" =>
                          l[i].table # l[j].table \/ l[i].name # l[j].name
        <5>1. \A i \in DOMAIN l : l[i].op \notin {"list", "get"}
          BY <3>2, <3>4, <4>1
        <5>2. ASSUME NEW i \in DOMAIN l, NEW j \in DOMAIN l, i < j, l[i].op = "rename", l[j].op = "rename"
              PROVE  l[i].table # l[j].table \/ l[i].name # l[j].name
          <6>1. i \in Old /\ j \in Old
            BY <3>4, <5>2
          <6>2. f[i] \in DOMAIN cmds /\ f[j] \in DOMAIN cmds /\ f[i] < f[j] /\ l[i] = cmds[f[i]] /\ l[j] = cmds[f[j]]
            BY <3>2, <5>2, <6>1
          <6> QED BY <4>1, <5>2, <6>2
        <5> QED BY <5>1, <5>2
      <4>2. ASSUME \A i \in DOMAIN cmds :
                     Followed(cmds[i]) /\ (cmds[i].op = "flush" /\ cmds[i].obj = "ruleset" => i = 1)
            PROVE  \A i \in DOMAIN l : Followed(l[i]) /\ (l[i].op = "flush" /\ l[i].obj = "ruleset" => i = 1)
        BY <3>2, <3>4, <4>2
      <4> QED BY <4>1, <4>2 DEF Orderly
    <3> QED BY <2>1, <2>2, <3>5, <3>6, <3>7, <3>8, <3>9 DEF CommandsInv, l
  <2> QED BY <2>3, <2>4
<1>3. CASE Goes /\ Kept
  <2>1. pc # "idle"
    BY <1>3 DEF Goes, Evaluate, EvaluateError, Evaluated, Execute, Executing, vars
  <2> QED BY <1>3, <2>1 DEF Kept, CommandsInv
<1> QED BY <1>1, <1>2, <1>3, StepKinds

\* The order: a step.
LEMMA OrderStep ==
  ASSUME TypeInv, OrderInv, [Next]_vars
  PROVE  OrderInv'
<1>1. ASSUME NEW in \in Input \cup Script, NEW s \in BOOLEAN, Begin(in, s)
      PROVE  OrderInv'
  <2>1. in \in Seq(Command)
    BY InputsAssumption
  <2>2. given' = in /\ cmds' = in /\ pc' = "expand" /\ pc = "idle" /\ pos' = pos /\ kernel' = kernel /\ last' = last
    BY <1>1 DEF Begin
  <2>3. pos = 1
    <3>1. cmds = <<>> /\ pos \in 1..(Len(cmds) + 1)
      BY <2>2 DEF TypeInv
    <3> QED BY <3>1
  <2>4. Rest' = MeansAll(SeesAll(Start, SubSeq(in, 1, pos - 1)), SubSeq(in, pos, Len(in)))
    BY <2>2, Zenon DEF Rest, Seen, Start, MeansAll
  <2>5. SubSeq(in, 1, Len(in)) = in /\ SeesAll(Start, SubSeq(in, 1, 0)) = Start
    BY <2>1, PrefixFacts, PrefixDone, StartFacts
  <2>6. pos - 1 = 0
    BY <2>3
  <2>7. Rest' = MeansAll(Start, in)
    BY <2>3, <2>4, <2>5, <2>6, Zenon
  <2>8. InOrder' = MeansAll(Start, in)
    BY <2>2, Zenon DEF InOrder, Start, MeansAll
  <2> QED BY <2>2, <2>7, <2>8 DEF OrderInv
<1>2. CASE Expand
  <2>1. pc = "expand" /\ given' = given /\ kernel' = kernel /\ last' = last
    BY <1>2 DEF Expand
  <2>2. Rest = InOrder /\ InOrder' = InOrder
    BY <2>1 DEF OrderInv, InOrder
  <2>3. Start \in States /\ cmds \in Seq(Command) /\ pos \in 1..(Len(cmds) + 1) /\ Len(cmds) \in Nat
    BY StartFacts DEF TypeInv
  <2>4. Rest = MeansAll(Seen(pos - 1), SubSeq(cmds, pos, Len(cmds)))
    BY Zenon DEF Rest, MeansAll
  <2>5. CASE ~(pos <= Len(cmds))
    <3>1. cmds' = cmds /\ pc' = "eval"
      BY <1>2, <2>5 DEF Expand
    <3>2. pos - 1 = Len(cmds) /\ pos = Len(cmds) + 1
      BY <2>3, <2>5
    <3>3. SubSeq(cmds, pos, Len(cmds)) = <<>>
      BY <2>3, <3>2
    <3>4. Seen(Len(cmds)) \in States
      BY <2>3, DoneFacts
    <3>5. Rest = Seen(Len(cmds))
      BY <2>4, <3>2, <3>3, <3>4, MeaningsRun
    <3>6. Seen(Len(cmds))' = Seen(Len(cmds))
      BY <2>1, <3>1 DEF Seen, Start
    <3> QED BY <2>2, <3>1, <3>5, <3>6 DEF OrderInv
  <2>6. CASE pos <= Len(cmds)
    <3> DEFINE c == cmds[pos]
               e == Expansion(c)
               b == SubSeq(cmds, pos + 1, Len(cmds))
               l == SubSeq(cmds, 1, pos) \o e \o b
               s == Seen(pos - 1)
               eb == e \o b
               cb == SubSeq(cmds, pos, Len(cmds))
    <3>1. cmds' = l /\ pos' = pos + 1 /\ pc' = "expand"
      BY <1>2, <2>1, <2>6 DEF Expand
    <3>2. pos \in 1..Len(cmds) /\ c \in Command /\ pos - 1 \in 0..Len(cmds)
      BY <2>3, <2>6, CurrentFacts
    <3>3. s \in States
      BY <3>2, DoneFacts
    <3>4. b \in Seq(Command) /\ Len(b) = Len(cmds) - pos /\ \A i \in 1..(Len(cmds) - pos) : b[i] = cmds[pos + i]
      BY <2>3, <3>2
    <3>5. e = Expansion(cmds[pos]) /\ l = SubSeq(cmds, 1, pos) \o e \o SubSeq(cmds, pos + 1, Len(cmds))
      OBVIOUS
    <3>6. cb \in Seq(Command) /\ Len(cb) = Len(cmds) - pos + 1 /\ \A i \in 1..(Len(cmds) - pos + 1) : cb[i] = cmds[pos - 1 + i]
      BY <2>3, <3>2
    <3>7. <<c>> \in Seq(Command) /\ Len(<<c>>) = 1 /\ <<c>>[1] = c
      BY <3>2
    <3> HIDE DEF e, l, b, s, cb, c
    <3>8. /\ l \in Seq(Command) /\ e \in Seq(Command)
          /\ Len(l) = Len(cmds) + Len(e) /\ Len(e) \in Nat
          /\ \A i \in 1..pos : l[i] = cmds[i]
          /\ \A i \in (pos + 1)..(pos + Len(e)) : l[i] = e[i - pos]
          /\ \A i \in (pos + Len(e) + 1)..(Len(cmds) + Len(e)) : l[i] = cmds[i - Len(e)]
      BY <2>6, <3>5, ExpandList
    <3>9. /\ eb \in Seq(Command) /\ Len(eb) = Len(e) + Len(b)
          /\ \A i \in 1..Len(e) : eb[i] = e[i]
          /\ \A i \in (Len(e) + 1)..(Len(e) + Len(b)) : eb[i] = b[i - Len(e)]
      <4>1. e \in Seq(Command)
        BY <3>8
      <4>2. b \in Seq(Command)
        BY <3>4
      <4> HIDE DEF eb
      <4>3. /\ e \o b \in Seq(Command) /\ Len(e \o b) = Len(e) + Len(b)
            /\ \A i \in 1..Len(e) : (e \o b)[i] = e[i]
            /\ \A i \in (Len(e) + 1)..(Len(e) + Len(b)) : (e \o b)[i] = b[i - Len(e)]
        BY <4>1, <4>2, ConcatElements, Zenon
      <4> QED BY <4>3, Zenon DEF eb
    <3>10. SubSeq(l, pos + 1, Len(l)) = eb
      <4> DEFINE t == SubSeq(l, pos + 1, Len(l))
      <4> HIDE DEF eb
      <4>1. t \in Seq(Command) /\ Len(t) = Len(l) - pos /\ \A i \in 1..(Len(l) - pos) : t[i] = l[pos + i]
        BY <2>3, <3>2, <3>8
      <4> HIDE DEF t
      <4>2. Len(t) = Len(eb) /\ Len(eb) = Len(e) + (Len(cmds) - pos) /\ Len(t) \in Nat
        BY <2>3, <3>2, <3>4, <3>8, <3>9, <4>1
      <4>3. ASSUME NEW i \in 1..Len(t) PROVE t[i] = eb[i]
        <5>1. t[i] = l[pos + i] /\ i \in Nat
          BY <4>1, <4>3
        <5>2. CASE i <= Len(e)
          <6>1. i \in 1..Len(e) /\ pos + i \in (pos + 1)..(pos + Len(e)) /\ (pos + i) - pos = i
            BY <2>3, <3>2, <3>8, <4>3, <5>1, <5>2
          <6> QED BY <3>8, <3>9, <5>1, <6>1
        <5>3. CASE ~(i <= Len(e))
          <6>1. /\ pos + i \in (pos + Len(e) + 1)..(Len(cmds) + Len(e))
                /\ i \in (Len(e) + 1)..(Len(e) + Len(b)) /\ i - Len(e) \in 1..(Len(cmds) - pos)
                /\ (pos + i) - Len(e) = pos + (i - Len(e))
            BY <2>3, <3>2, <3>4, <3>8, <4>2, <4>3, <5>1, <5>3
          <6>2. l[pos + i] = cmds[(pos + i) - Len(e)]
            BY <3>8, <6>1
          <6>3. eb[i] = b[i - Len(e)]
            BY <3>9, <6>1
          <6>4. b[i - Len(e)] = cmds[pos + (i - Len(e))]
            BY <3>4, <6>1
          <6> QED BY <5>1, <6>1, <6>2, <6>3, <6>4
        <5> QED BY <5>2, <5>3
      <4>4. t = eb
        BY <3>9, <4>1, <4>2, <4>3
      <4> QED BY <4>4 DEF t
    <3>11. IsConcat(eb, e, b)
      BY DEF IsConcat
    <3>12. IsConcat(cb, <<c>>, b)
      <4> DEFINE x == <<c>>
                 u == x \o b
      <4>1. x \in Seq(Command) /\ Len(x) = 1 /\ x[1] = c
        BY <3>7
      <4> HIDE DEF x
      <4>2. /\ u \in Seq(Command) /\ Len(u) = Len(x) + Len(b)
            /\ \A i \in 1..Len(x) : u[i] = x[i]
            /\ \A i \in (Len(x) + 1)..(Len(x) + Len(b)) : u[i] = b[i - Len(x)]
        BY <3>4, <4>1, ConcatElements, Zenon
      <4> HIDE DEF u
      <4>3. Len(u) = Len(cb) /\ Len(cb) \in Nat
        BY <2>3, <3>2, <3>4, <3>6, <4>1, <4>2
      <4>4. ASSUME NEW i \in 1..Len(cb) PROVE u[i] = cb[i]
        <5>1. CASE i = 1
          <6>1. u[1] = c
            BY <4>1, <4>2
          <6>2. cb[1] = cmds[pos - 1 + 1] /\ pos - 1 + 1 = pos
            BY <2>3, <3>2, <3>6
          <6> QED BY <5>1, <6>1, <6>2 DEF c
        <5>2. CASE i # 1
          <6>1. i \in (Len(x) + 1)..(Len(x) + Len(b)) /\ i - Len(x) \in 1..(Len(cmds) - pos)
                /\ i \in 1..(Len(cmds) - pos + 1) /\ pos + (i - Len(x)) = pos - 1 + i
            BY <2>3, <3>2, <3>4, <3>6, <4>1, <4>4, <5>2
          <6>2. u[i] = b[i - Len(x)]
            BY <4>2, <6>1
          <6>3. b[i - Len(x)] = cmds[pos + (i - Len(x))]
            BY <3>4, <6>1
          <6>4. cb[i] = cmds[pos - 1 + i]
            BY <3>6, <6>1
          <6> QED BY <6>1, <6>2, <6>3, <6>4
        <5> QED BY <5>1, <5>2
      <4>5. u = cb
        BY <3>6, <4>2, <4>3, <4>4
      <4> QED BY <4>5 DEF u, x, IsConcat
    <3>13. \A r \in States : \A q \in Seq(Command) : \A v \in Seq(Command) : \A u : IsConcat(u, q, v) =>
             MeansAll(r, u) = MeansAll(MeansAll(r, q), v)
      BY MeaningsRun
    <3>14. Sees(s, c) \in States
      BY <3>2, <3>3, MeaningFacts, ApplyFacts DEF Sees
    <3>15. MeansAll(Sees(s, c), eb) = MeansAll(MeansAll(Sees(s, c), e), b)
      <4>1. e \in Seq(Command) /\ b \in Seq(Command)
        BY <3>4, <3>8
      <4> DEFINE v == Sees(s, c)
      <4>2. v \in States
        BY <3>14
      <4> HIDE DEF v, eb
      <4>3. MeansAll(v, eb) = MeansAll(MeansAll(v, e), b)
        BY <3>11, <3>13, <4>1, <4>2
      <4> QED BY <4>3 DEF v
    <3>16. MeansAll(s, cb) = MeansAll(MeansAll(s, <<c>>), b)
      <4> DEFINE v == <<c>>
      <4>1. v \in Seq(Command) /\ b \in Seq(Command) /\ IsConcat(cb, v, b)
        BY <3>4, <3>7, <3>12
      <4> HIDE DEF v
      <4>2. MeansAll(s, cb) = MeansAll(MeansAll(s, v), b)
        BY <3>3, <3>13, <4>1
      <4> QED BY <4>2 DEF v
    <3>17. MeansAll(s, <<c>>) = Meaning(s, c)
      BY <3>2, <3>3, MeaningsRun
    <3>18. MeansAll(Sees(s, c), e) = Meaning(s, c)
      BY <3>2, <3>3, ExpansionMeans DEF e
    <3>19. Rest = MeansAll(s, cb)
      BY <2>4 DEF s, cb
    <3>20. Rest' = MeansAll(SeesAll(Start, SubSeq(l, 1, pos + 1 - 1)), SubSeq(l, pos + 1, Len(l)))
      <4>1. Rest' = MeansAll(SeesAll(Start', SubSeq(cmds', 1, pos' - 1)), SubSeq(cmds', pos', Len(cmds')))
        BY Zenon DEF Rest, Seen, MeansAll
      <4>2. Start' = Start
        BY <2>1 DEF Start
      <4>3. cmds' = l /\ pos' = pos + 1
        BY <3>1
      <4>4. pos' - 1 = pos + 1 - 1
        <5>1. pos' = pos + 1
          BY <3>1
        <5>2. pos \in Int
          BY <2>3
        <5> QED BY <5>1, <5>2, SMT
      <4>5. SubSeq(cmds', 1, pos' - 1) = SubSeq(l, 1, pos + 1 - 1)
        BY <4>3, <4>4, Zenon
      <4>6. SubSeq(cmds', pos', Len(cmds')) = SubSeq(l, pos + 1, Len(l))
        BY <4>3, Zenon
      <4> QED BY <4>1, <4>2, <4>5, <4>6, Zenon
    <3>21. SeesAll(Start, SubSeq(l, 1, pos)) = Sees(s, c)
      <4>1. SubSeq(l, 1, pos) = SubSeq(cmds, 1, pos)
        <5>1. /\ SubSeq(l, 1, pos) \in Seq(Command) /\ Len(SubSeq(l, 1, pos)) = pos
              /\ \A i \in 1..pos : SubSeq(l, 1, pos)[i] = l[i]
          BY <2>3, <3>2, <3>8
        <5>2. /\ SubSeq(cmds, 1, pos) \in Seq(Command) /\ Len(SubSeq(cmds, 1, pos)) = pos
              /\ \A i \in 1..pos : SubSeq(cmds, 1, pos)[i] = cmds[i]
          BY <2>3, <3>2
        <5> DEFINE t == SubSeq(l, 1, pos)
                   u == SubSeq(cmds, 1, pos)
        <5> HIDE DEF t, u
        <5>3. t \in Seq(Command) /\ u \in Seq(Command) /\ Len(t) = pos /\ Len(u) = pos /\ \A i \in 1..pos : t[i] = u[i]
          BY <3>8, <5>1, <5>2 DEF t, u
        <5>4. t = u
          BY <5>3
        <5> QED BY <5>4 DEF t, u
      <4>2. Seen(pos) = Sees(Seen(pos - 1), cmds[pos])
        BY <3>2, DoneFacts
      <4>3. Seen(pos) = SeesAll(Start, SubSeq(cmds, 1, pos))
        BY DEF Seen
      <4> QED BY <4>1, <4>2, <4>3 DEF s, c
    <3>22. pos + 1 - 1 = pos
      BY <3>2
    <3>23. Rest' = Rest
      BY <3>10, <3>15, <3>16, <3>17, <3>18, <3>19, <3>20, <3>21, <3>22, Zenon
    <3> QED BY <2>2, <3>1, <3>23 DEF OrderInv
  <2> QED BY <2>5, <2>6
<1>3. CASE Goes /\ Kept
  <2>1. Seen(Len(cmds))' = Seen(Len(cmds)) /\ InOrder' = InOrder
    BY <1>3 DEF Kept, Seen, Start, InOrder
  <2>2. UNCHANGED vars \/ (pc \in {"eval", "execute"} /\ pc' \in {"eval", "execute"})
    BY <1>3 DEF Goes, Evaluate, EvaluateError, Evaluated, Execute, Executing
  <2>3. CASE pc \in {"eval", "execute"} /\ pc' \in {"eval", "execute"}
    BY <2>1, <2>3 DEF OrderInv
  <2>4. CASE UNCHANGED vars
    <3>1. pc' = pc /\ Rest' = Rest
      BY <2>4, Zenon DEF vars, Rest, Seen, Start
    <3> QED BY <2>1, <3>1 DEF OrderInv
  <2> QED BY <2>2, <2>3, <2>4
<1>4. CASE pc' = "idle"
  BY <1>4 DEF OrderInv
<1> QED BY <1>1, <1>2, <1>3, <1>4, StepKinds

-----------------------------------------------------------------------------
(* The cache: a step. *)

\* What FollowInv says of a cache.
FollowsBy(ca, n) ==
  Done(n).ok =>
    /\ NoRename(cmds) => \A k, t, m : Tracked(k, n) /\ Present(Done(n).objs, k, t, m) => Present(ca, k, t, m)
    /\ AllFollowed(cmds) => \A k, t, m : Tracked(k, n) /\ Present(ca, k, t, m) => Present(Done(n).objs, k, t, m)
    /\ InputsOrderly => Seen(n) = Done(n)

\* It says that of the cache there is.
LEMMA FollowNames ==
  ASSUME NEW n
  PROVE  FollowInv(n) <=> FollowsBy(cache, n)
<1>1. /\ Covers(n) <=> \A k, t, m : Tracked(k, n) /\ Present(Done(n).objs, k, t, m) => Present(cache, k, t, m)
      /\ Within(n) <=> \A k, t, m : Tracked(k, n) /\ Present(cache, k, t, m) => Present(Done(n).objs, k, t, m)
  BY CoversNames
<1> DEFINE C == \A k, t, m : Tracked(k, n) /\ Present(Done(n).objs, k, t, m) => Present(cache, k, t, m)
           W == \A k, t, m : Tracked(k, n) /\ Present(cache, k, t, m) => Present(Done(n).objs, k, t, m)
<1>2. FollowsBy(cache, n) <=>
        (Done(n).ok =>
           /\ NoRename(cmds) => C
           /\ AllFollowed(cmds) => W
           /\ InputsOrderly => Seen(n) = Done(n))
  BY DEF FollowsBy
<1>3. (Covers(n) <=> C) /\ (Within(n) <=> W)
  BY <1>1
<1> HIDE DEF C, W
<1> QED BY <1>2, <1>3, Zenon DEF FollowInv


\* When nothing but the cache changes, it is said of the new cache.
LEMMA FollowPrime ==
  ASSUME kernel' = kernel, last' = last, cmds' = cmds, cflags' = cflags, NEW n
  PROVE  FollowInv(n)' <=> FollowsBy(cache', n)
<1>1. Done(n)' = Done(n) /\ Seen(n)' = Seen(n)
  BY Zenon DEF Done, Seen, Start
<1>2. \A k : Tracked(k, n)' <=> Tracked(k, n)
  BY Zenon DEF Tracked, NoFlush
<1>3. (NoRename(cmds)' <=> NoRename(cmds)) /\ (AllFollowed(cmds)' <=> AllFollowed(cmds))
  BY Zenon DEF NoRename, AllFollowed
<1>4. Covers(n)' <=> \A e \in Done(n).objs : Tracked(e.obj, n) => Present(cache', e.obj, e.table, e.name)
  <2>1. Covers(n)' <=> \A e \in Done(n)'.objs : Tracked(e.obj, n)' => Present(cache', e.obj, e.table, e.name)
    BY Zenon DEF Covers, Present
  <2> QED BY <1>1, <1>2, <2>1, Zenon
<1>5. Within(n)' <=> \A e \in cache' : Tracked(e.obj, n) => Present(Done(n).objs, e.obj, e.table, e.name)
  <2>1. Within(n)' <=> \A e \in cache' : Tracked(e.obj, n)' => Present(Done(n)'.objs, e.obj, e.table, e.name)
    BY Zenon DEF Within, Present
  <2> QED BY <1>1, <1>2, <2>1, Zenon
<1> DEFINE C == \A k, t, m : Tracked(k, n) /\ Present(Done(n).objs, k, t, m) => Present(cache', k, t, m)
           W == \A k, t, m : Tracked(k, n) /\ Present(cache', k, t, m) => Present(Done(n).objs, k, t, m)
<1>6. (\A e \in Done(n).objs : Tracked(e.obj, n) => Present(cache', e.obj, e.table, e.name)) <=> C
  <2>1. ASSUME \A e \in Done(n).objs : Tracked(e.obj, n) => Present(cache', e.obj, e.table, e.name),
               NEW k, NEW t, NEW m, Tracked(k, n), Present(Done(n).objs, k, t, m)
        PROVE  Present(cache', k, t, m)
    <3>1. PICK e \in Done(n).objs : e.obj = k /\ e.table = t /\ e.name = m
      BY <2>1 DEF Present
    <3> QED BY <2>1, <3>1
  <2>2. ASSUME C, NEW e \in Done(n).objs, Tracked(e.obj, n) PROVE Present(cache', e.obj, e.table, e.name)
    <3>1. Present(Done(n).objs, e.obj, e.table, e.name)
      BY DEF Present
    <3> QED BY <2>2, <3>1
  <2> QED BY <2>1, <2>2
<1>7. (\A e \in cache' : Tracked(e.obj, n) => Present(Done(n).objs, e.obj, e.table, e.name)) <=> W
  <2>1. ASSUME \A e \in cache' : Tracked(e.obj, n) => Present(Done(n).objs, e.obj, e.table, e.name),
               NEW k, NEW t, NEW m, Tracked(k, n), Present(cache', k, t, m)
        PROVE  Present(Done(n).objs, k, t, m)
    <3>1. PICK e \in cache' : e.obj = k /\ e.table = t /\ e.name = m
      BY <2>1 DEF Present
    <3> QED BY <2>1, <3>1
  <2>2. ASSUME W, NEW e \in cache', Tracked(e.obj, n) PROVE Present(Done(n).objs, e.obj, e.table, e.name)
    <3>1. Present(cache', e.obj, e.table, e.name)
      BY DEF Present
    <3> QED BY <2>2, <3>1
  <2> QED BY <2>1, <2>2
<1>8. (Covers(n)' <=> C) /\ (Within(n)' <=> W)
  BY <1>4, <1>5, <1>6, <1>7, Zenon
<1>9. FollowsBy(cache', n) <=>
        (Done(n).ok =>
           /\ NoRename(cmds) => C
           /\ AllFollowed(cmds) => W
           /\ InputsOrderly => Seen(n) = Done(n))
  BY DEF FollowsBy
<1> HIDE DEF C, W
<1>10. FollowInv(n)' <=>
        (Done(n)'.ok =>
           /\ NoRename(cmds)' => Covers(n)'
           /\ AllFollowed(cmds)' => Within(n)'
           /\ InputsOrderly => Seen(n)' = Done(n)')
  BY Zenon DEF FollowInv
<1> QED BY <1>1, <1>3, <1>8, <1>9, <1>10, Zenon

\* Before the first command.
AtStart(cs, ca, fl) ==
  /\ \A e \in kernel : NoFlush(cs) /\ FlagOf(e.obj) \in fl => Present(ca, e.obj, e.table, e.name)
  /\ \A e \in ca : NoFlush(cs) /\ FlagOf(e.obj) \in fl => Present(kernel, e.obj, e.table, e.name)
  /\ ~NoFlush(cs) => ca = {}

\* The cache before the first command.
LEMMA StartCovers ==
  ASSUME TypeInv
  PROVE  Covers(0) /\ Within(0) /\ (~NoFlush(cmds) => cache = {}) <=> AtStart(cmds, cache, cflags)
<1>1. Done(0) = Start /\ Start.objs = kernel
  BY DoneFacts, StartFacts
<1>2. \A k : Tracked(k, 0) <=> NoFlush(cmds) /\ FlagOf(k) \in cflags
  BY DEF Tracked
<1>3. Covers(0) <=> \A e \in kernel : NoFlush(cmds) /\ FlagOf(e.obj) \in cflags => Present(cache, e.obj, e.table, e.name)
  BY <1>1, <1>2, Zenon DEF Covers
<1>4. Within(0) <=> \A e \in cache : NoFlush(cmds) /\ FlagOf(e.obj) \in cflags => Present(kernel, e.obj, e.table, e.name)
  BY <1>1, <1>2, Zenon DEF Within
<1> QED BY <1>3, <1>4, Zenon DEF AtStart

\* The cache before the first command, after a step.
LEMMA StartPrime ==
  ASSUME TypeInv, kernel' = kernel, last' = last, cmds' \in Seq(Command), AtStart(cmds', cache', cflags')
  PROVE  Covers(0)' /\ Within(0)' /\ (Done(0)' = Seen(0)')
<1>1. Start \in States /\ Start.objs = kernel /\ Start' = Start
  BY StartFacts DEF Start
<1>2. DoesAll(Start, SubSeq(cmds', 1, 0)) = Start /\ SeesAll(Start, SubSeq(cmds', 1, 0)) = Start
  BY <1>1, PrefixDone, Zenon
<1>3. Done(0)' = Start /\ Seen(0)' = Start
  <2>1. Done(0)' = DoesAll(Start', SubSeq(cmds', 1, 0)) /\ Seen(0)' = SeesAll(Start', SubSeq(cmds', 1, 0))
    BY Zenon DEF Done, Seen, DoesAll, SeesAll
  <2> QED BY <1>1, <1>2, <2>1, Zenon
<1>4. \A k : Tracked(k, 0)' => NoFlush(cmds') /\ FlagOf(k) \in cflags'
  BY DEF Tracked
<1>5. Covers(0)' <=> \A e \in Done(0)'.objs : Tracked(e.obj, 0)' => Present(cache', e.obj, e.table, e.name)
  BY Zenon DEF Covers, Present
<1>6. Within(0)' <=> \A e \in cache' : Tracked(e.obj, 0)' => Present(Done(0)'.objs, e.obj, e.table, e.name)
  BY Zenon DEF Within, Present
<1>7. Covers(0)'
  BY <1>1, <1>3, <1>4, <1>5, Zenon DEF AtStart
<1>8. Within(0)'
  BY <1>1, <1>3, <1>4, <1>6, Zenon DEF AtStart
<1> QED BY <1>3, <1>7, <1>8

\* The names of a kind.
LEMMA NamesPresent ==
  ASSUME NEW a, NEW b, NEW k
  PROVE  {n \in Names(a) : n.obj = k} = {n \in Names(b) : n.obj = k}
           <=> \A t, m : Present(a, k, t, m) <=> Present(b, k, t, m)
<1>1. \A s, t, m : [obj |-> k, table |-> t, name |-> m] \in Names(s) <=> Present(s, k, t, m)
  <2> SUFFICES ASSUME NEW s, NEW t, NEW m
               PROVE  [obj |-> k, table |-> t, name |-> m] \in Names(s) <=> Present(s, k, t, m)
    OBVIOUS
  <2> QED BY DEF Names, Present
<1>2. \A s, n : n \in Names(s) => n = [obj |-> n.obj, table |-> n.table, name |-> n.name]
  BY DEF Names
<1>3. ASSUME {n \in Names(a) : n.obj = k} = {n \in Names(b) : n.obj = k}, NEW t, NEW m
      PROVE  Present(a, k, t, m) <=> Present(b, k, t, m)
  <2> DEFINE r == [obj |-> k, table |-> t, name |-> m]
  <2>1. r.obj = k
    OBVIOUS
  <2>2. r \in Names(a) <=> r \in Names(b)
    BY <1>3, <2>1
  <2> QED BY <1>1, <2>2
<1>4. ASSUME \A t, m : Present(a, k, t, m) <=> Present(b, k, t, m), NEW n, n.obj = k
      PROVE  n \in Names(a) <=> n \in Names(b)
  <2>1. [obj |-> k, table |-> n.table, name |-> n.name] \in Names(a)
          <=> [obj |-> k, table |-> n.table, name |-> n.name] \in Names(b)
    BY <1>1, <1>4
  <2> QED BY <1>2, <1>4, <2>1
<1> QED BY <1>3, <1>4

\* A new input finds its cache.
LEMMA BeginCache ==
  ASSUME TypeInv, CacheInv, NEW in \in Seq(Command), NEW s \in BOOLEAN, Begin(in, s)
  PROVE  /\ AtStart(in, cache', cflags')
         /\ s = TRUE => cache' \subseteq kernel
<1> DEFINE flags == Flags(in)
           reuse == valid /\ ~s /\ "refresh" \notin cflags \cup flags /\ flags \subseteq cflags
<1>1. pc = "idle" /\ NftCacheUpdate(in, s)
  BY DEF Begin
<1>2. /\ cflags' = IF reuse THEN cflags ELSE IF "flushed" \in flags THEN {} ELSE flags
      /\ cache' = IF reuse THEN cache ELSE IF "flushed" \in flags THEN {}
                  ELSE {e \in kernel : FlagOf(e.obj) \in flags}
  BY <1>1, Zenon DEF NftCacheUpdate, NFT_CACHE_EMPTY
<1>3. "flushed" \in flags <=> ~NoFlush(in)
  BY InputFlags
<1>4. "flushed" \notin cflags
  BY DEF TypeInv
<1>5. reuse => valid /\ flags \subseteq cflags /\ s # TRUE
  OBVIOUS
<1>6. CacheFollowsCommit
  BY <1>1 DEF CacheInv
<1>7. \A e \in kernel : e.obj \in Kinds
  BY StartFacts DEF Object
<1>8. \A e \in cache : e.obj \in Kinds
  BY DEF TypeInv, Object
<1> HIDE DEF reuse, flags
<1>9. CASE reuse
  <2>1. \A k \in Kinds : FlagOf(k) \in cflags => {n \in Names(cache) : n.obj = k} = {n \in Names(kernel) : n.obj = k}
    BY <1>1, <1>5, <1>6, <1>9 DEF CacheFollowsCommit
  <2>2. \A k \in Kinds : FlagOf(k) \in cflags => \A t, m : Present(cache, k, t, m) <=> Present(kernel, k, t, m)
    BY <2>1, NamesPresent
  <2>3. cache' = cache /\ cflags' = cflags
    BY <1>2, <1>9
  <2>4. NoFlush(in)
    BY <1>3, <1>4, <1>5, <1>9
  <2>5. \A e \in kernel : FlagOf(e.obj) \in cflags => Present(cache, e.obj, e.table, e.name)
    <3> SUFFICES ASSUME NEW e \in kernel, FlagOf(e.obj) \in cflags PROVE Present(cache, e.obj, e.table, e.name)
      OBVIOUS
    <3>1. Present(kernel, e.obj, e.table, e.name)
      BY DEF Present
    <3> QED BY <1>7, <2>2, <3>1
  <2>6. \A e \in cache : FlagOf(e.obj) \in cflags => Present(kernel, e.obj, e.table, e.name)
    <3> SUFFICES ASSUME NEW e \in cache, FlagOf(e.obj) \in cflags PROVE Present(kernel, e.obj, e.table, e.name)
      OBVIOUS
    <3>1. Present(cache, e.obj, e.table, e.name)
      BY DEF Present
    <3> QED BY <1>8, <2>2, <3>1
  <2>7. AtStart(in, cache', cflags')
    BY <2>3, <2>4, <2>5, <2>6 DEF AtStart
  <2> QED BY <1>5, <1>9, <2>7
<1>10. CASE ~reuse
  <2>1. CASE "flushed" \in flags
    BY <1>2, <1>3, <1>10, <2>1 DEF AtStart
  <2>2. CASE "flushed" \notin flags
    <3>1. NoFlush(in) /\ cflags' = flags /\ \A e : e \in cache' <=> e \in kernel /\ FlagOf(e.obj) \in flags
      BY <1>2, <1>3, <1>10, <2>2
    <3> QED BY <3>1 DEF AtStart, Present
  <2> QED BY <2>1, <2>2
<1> QED BY <1>9, <1>10

\* The expansion inserts no "flush ruleset".
LEMMA ExpandFlush ==
  ASSUME TypeInv, Expand
  PROVE  NoFlush(cmds') <=> NoFlush(cmds)
<1>1. CASE ~(pos <= Len(cmds))
  <2>1. cmds' = cmds
    BY <1>1 DEF Expand
  <2> QED BY <2>1, Zenon
<1>2. CASE pos <= Len(cmds)
  <2> DEFINE l == cmds'
  <2> HIDE DEF l
  <2>1. PICK Old \in SUBSET Nat, f \in [Nat -> Int] :
         /\ \A i \in DOMAIN l : i \in Old \/ l[i] \in Extra(cmds[pos])
         /\ \A i \in DOMAIN l : i \in Old => f[i] \in DOMAIN cmds /\ l[i] = cmds[f[i]] /\ (f[i] = 1 <=> i = 1)
         /\ \A i, j \in DOMAIN l : i \in Old /\ j \in Old /\ i < j => f[i] < f[j]
         /\ \A k \in DOMAIN cmds : \E i \in DOMAIN l : i \in Old /\ f[i] = k
    BY <1>2, ExpandIndex, Zenon DEF l, Spliced
  <2>2. cmds[pos] \in Command
    BY <1>2, CurrentFacts
  <2>3. \A i \in DOMAIN l : i \notin Old => ~IsFlush(l[i])
    BY <2>1, <2>2, ExtraFacts
  <2>4. NoFlush(cmds) <=> NoFlush(l)
    BY <2>1, <2>3 DEF NoFlush
  <2> QED BY <2>4 DEF l
<1> QED BY <1>1, <1>2

\* The number of commands after the step.
LEMMA FollowAt ==
  ASSUME kernel' = kernel, last' = last, cmds' = cmds, cflags' = cflags, NEW n
  PROVE  /\ Len(cmds') = n => (FollowInv(Len(cmds))' <=> FollowsBy(cache', n))
         /\ pos' - 1 = n => (FollowInv(pos - 1)' <=> FollowsBy(cache', n))
<1>1. Len(cmds') = n => (FollowInv(Len(cmds))' <=> FollowInv(n)')
  BY Zenon DEF FollowInv, Covers, Within, Done, Seen, Start, Tracked
<1>2. pos' - 1 = n => (FollowInv(pos - 1)' <=> FollowInv(n)')
  BY Zenon DEF FollowInv, Covers, Within, Done, Seen, Start, Tracked
<1>3. FollowInv(n)' <=> FollowsBy(cache', n)
  BY FollowPrime, Zenon
<1> QED BY <1>1, <1>2, <1>3, Zenon

\* The end of an input that is carried out: what the kernel has now is cached.
LEMMA DoneCache ==
  ASSUME TypeInv, CommandsInv, CacheInv, BatchInv, Executed, ~script,
         Applied(kernel, batch).ok, NEW objs, objs = Applied(kernel, batch).objs, NEW k, FlagOf(k) \in cflags
  PROVE  \A t, m : Present(cache, k, t, m) <=> Present(objs, k, t, m)
<1>1. pc = "execute" /\ pos > Len(cmds) /\ pos \in 1..(Len(cmds) + 1) /\ Len(cmds) \in Nat
  BY DEF Executed, TypeInv
<1>2. pos - 1 = Len(cmds)
  BY <1>1
<1>3. AllFollowed(cmds) /\ NoRename(cmds)
  BY DEF CommandsInv, AllFollowed, NoRename, Followed
<1>4. Applied(kernel, batch) = Done(Len(cmds))
  <2>1. Applied(kernel, batch) = Done(pos - 1)
    BY <1>1, <1>3 DEF BatchInv
  <2> QED BY <1>2, <2>1
<1>5. FollowsBy(cache, Len(cmds))
  <2>1. FollowInv(Len(cmds))
    BY <1>1 DEF CacheInv
  <2> QED BY <2>1, FollowNames, Zenon
<1>6. NoFlush(cmds)
  BY DEF CommandsInv
<1>7. Tracked(k, Len(cmds))
  BY <1>6 DEF Tracked
<1> QED BY <1>3, <1>4, <1>5, <1>7, Zenon DEF FollowsBy

\* The cache that stays behind.
LEMMA EndCache ==
  ASSUME TypeInv, pc # "idle" => CommandsInv, CacheInv, BatchInv, Ends
  PROVE  CacheFollowsCommit'
<1>1. CASE Release
  BY <1>1 DEF Release, CacheFollowsCommit
<1>2. ASSUME UNCHANGED cacheVars, Executed, ~script, Applied(kernel, batch).ok,
             kernel' = Applied(kernel, batch).objs
      PROVE  CacheFollowsCommit'
  <2>1. CommandsInv
    BY <1>2 DEF Executed
  <2>2. cache' = cache /\ cflags' = cflags
    BY <1>2 DEF cacheVars
  <2>3. \A k \in Kinds : FlagOf(k) \in cflags => \A t, m : Present(cache, k, t, m) <=> Present(kernel', k, t, m)
    BY <1>2, <2>1, DoneCache
  <2>4. \A k \in Kinds : FlagOf(k) \in cflags =>
          {n \in Names(cache) : n.obj = k} = {n \in Names(kernel') : n.obj = k}
    BY <2>3, NamesPresent
  <2>5. \A k \in Kinds : FlagOf(k) \in cflags' =>
          {n \in Names(cache') : n.obj = k} = {n \in Names(kernel') : n.obj = k}
    BY <2>2, <2>4, Zenon
  <2> QED BY <2>5, Zenon DEF CacheFollowsCommit, Names
<1>3. Rejected => Release
  BY DEF Rejected, Return
<1>4. ExecuteNull => Release
  BY DEF ExecuteNull
<1>5. ExecuteError => Release
  BY DEF ExecuteError, Return
<1>6. Refused => Release
  BY DEF Refused, Return
<1>7. NothingToSend => Release \/ (UNCHANGED cacheVars /\ Executed /\ ~script /\ Applied(kernel, batch).ok
                                    /\ kernel' = Applied(kernel, batch).objs)
  <2> SUFFICES ASSUME NothingToSend, ~Release
               PROVE  UNCHANGED cacheVars /\ Executed /\ ~script /\ Applied(kernel, batch).ok
                       /\ kernel' = Applied(kernel, batch).objs
    OBVIOUS
  <2>1. UNCHANGED cacheVars /\ Executed /\ ~script /\ batch = <<>> /\ kernel' = kernel
    BY DEF NothingToSend, Return
  <2>2. Applied(kernel, batch) = Start /\ Start.ok /\ Start.objs = kernel
    <3>1. Start \in States /\ Start.ok /\ Start.objs = kernel /\ Applied(kernel, batch) = SentAll(Start, batch)
      BY StartFacts
    <3>2. SentAll(Start, <<>>) = Start
      BY <3>1, MessagesRun
    <3> QED BY <2>1, <3>1, <3>2
  <2> QED BY <2>1, <2>2
<1>8. Commit => Release \/ (UNCHANGED cacheVars /\ Executed /\ ~script /\ Applied(kernel, batch).ok
                             /\ kernel' = Applied(kernel, batch).objs)
  BY DEF Commit, Return
<1> QED BY <1>1, <1>2, <1>3, <1>4, <1>5, <1>6, <1>7, <1>8 DEF Ends

\* What the entries of a script's cache are.
LEMMA CacheHandles ==
  ASSUME TypeInv, CacheInv, Goes, Kept, pc' # "idle", script
  PROVE  \A e \in cache' : e.handle # 0 => e \in kernel
<1>1. pc # "idle"
  BY DEF Goes, Evaluate, EvaluateError, Evaluated, Execute, Executing, vars
<1>2. \A e \in cache : e.handle # 0 => e \in kernel
  BY <1>1 DEF CacheInv
<1>3. CASE Evaluate
  <2>1. /\ pos <= Len(cmds) /\ Found(cmds[pos])
        /\ CmdEvaluateAdd(cmds[pos]) \/ CmdEvaluateDelete(cmds[pos]) \/ CmdEvaluateOther(cmds[pos])
    BY <1>3 DEF Evaluate
  <2>2. cmds[pos] \in Command
    BY <2>1, CurrentFacts
  <2>3. cache \subseteq Object /\ \A e \in cache : HasTable(cache, e.table)
    BY DEF TypeInv
  <2>4. \A e \in cache' : e \in cache \/ e.handle = 0
    BY <2>1, <2>2, <2>3, EvaluateCache
  <2> QED BY <1>2, <2>4
<1>4. CASE ~Evaluate
  <2>1. cache' = cache
    BY <1>4 DEF Goes, EvaluateError, Evaluated, Execute, vars, cacheVars
  <2> QED BY <1>2, <2>1
<1> QED BY <1>3, <1>4

\* The cache: a step.
LEMMA CacheStep ==
  ASSUME TypeInv, TypeInv', pc # "idle" => CommandsInv, CacheInv, BatchInv, [Next]_vars
  PROVE  CacheInv'
<1>1. ASSUME NEW in, NEW s \in BOOLEAN, in \in Input \cup Script, Begin(in, s)
      PROVE  CacheInv'
  <2>1. in \in Seq(Command)
    BY <1>1, InputsAssumption
  <2>2. pc' = "expand" /\ cmds' = in /\ script' = s /\ kernel' = kernel /\ last' = last
    BY <1>1 DEF Begin
  <2>3. AtStart(in, cache', cflags') /\ (s = TRUE => cache' \subseteq kernel)
    BY <1>1, <2>1, BeginCache
  <2>4. AtStart(cmds', cache', cflags')
    BY <2>2, <2>3, Zenon
  <2>5. Covers(0)' /\ Within(0)'
    BY <2>1, <2>2, <2>4, StartPrime
  <2>6. ~NoFlush(cmds)' => cache' = {}
    BY <2>4 DEF AtStart
  <2>7. script' => \A e \in cache' : e.handle # 0 => e \in kernel'
    BY <2>2, <2>3
  <2> QED BY <2>2, <2>5, <2>6, <2>7 DEF CacheInv
<1>2. CASE Expand
  <2>1. /\ pc = "expand" /\ kernel' = kernel /\ last' = last /\ script' = script /\ nerrs' = nerrs
        /\ cache' = cache /\ cflags' = cflags
    BY <1>2 DEF Expand, cacheVars
  <2>2. AtStart(cmds, cache, cflags)
    BY <2>1, StartCovers DEF CacheInv
  <2>3. NoFlush(cmds') <=> NoFlush(cmds)
    BY <1>2, ExpandFlush
  <2>4. AtStart(cmds', cache', cflags')
    BY <2>1, <2>2, <2>3, Zenon DEF AtStart
  <2>5. cmds' \in Seq(Command)
    BY DEF TypeInv
  <2>6. Covers(0)' /\ Within(0)' /\ Done(0)' = Seen(0)'
    BY <2>1, <2>4, <2>5, StartPrime
  <2>7. ~NoFlush(cmds)' => cache' = {}
    BY <2>4 DEF AtStart
  <2>8. script' => \A e \in cache' : e.handle # 0 => e \in kernel'
    BY <2>1 DEF CacheInv
  <2>9. CASE pc' = "expand"
    BY <2>6, <2>7, <2>8, <2>9 DEF CacheInv
  <2>10. CASE pc' # "expand"
    <3>1. pc' = "eval" /\ pos' = 1
      BY <1>2, <2>1, <2>10 DEF Expand
    <3>2. FollowInv(0)'
      BY <2>6 DEF FollowInv
    <3>3. pos' - 1 = 0
      BY <3>1
    <3>4. FollowInv(pos - 1)'
      BY <3>2, <3>3, Zenon DEF FollowInv, Covers, Within, Done, Seen, Tracked
    <3> QED BY <2>7, <2>8, <3>1, <3>4 DEF CacheInv
  <2> QED BY <2>9, <2>10
<1>3. CASE Goes /\ Kept
  <2>0. kernel' = kernel /\ last' = last /\ script' = script /\ cmds' = cmds /\ cflags' = cflags /\ valid' = valid
    BY <1>3 DEF Kept
  <2>1. pc' # "idle" /\ script' => \A e \in cache' : e.handle # 0 => e \in kernel'
    BY <1>3, <2>0, CacheHandles
  <2>2. CASE Evaluate
    <3>1. pc = "eval" /\ pc' = "eval" /\ pos <= Len(cmds) /\ pos' = pos + 1 /\ nerrs' = nerrs
      BY <2>2 DEF Evaluate
    <3>2. pos \in Nat /\ pos # 0
      BY <3>1, CurrentFacts
    <3>3. pos' - 1 = pos /\ pos' # 1
      BY <3>1, <3>2
    <3>4. nerrs = 0 => FollowInv(pos - 1)'
      <4> SUFFICES ASSUME nerrs = 0 PROVE FollowInv(pos - 1)'
        OBVIOUS
      <4>1. FollowsBy(cache', pos)
        BY <2>2, <3>1, FollowStep DEF FollowsBy
      <4> QED BY <2>0, <3>3, <4>1, FollowAt, Zenon
    <3> QED BY <2>1, <3>1, <3>3, <3>4 DEF CacheInv
  <2>3. CASE EvaluateError
    <3>1. pc = "eval" /\ pc' = "eval" /\ pos <= Len(cmds) /\ nerrs' = nerrs + 1
          /\ pos' = IF nerrs' = MaxErrors THEN Len(cmds) + 1 ELSE pos + 1
      BY <2>3 DEF EvaluateError
    <3>2. pos \in Nat /\ pos # 0 /\ Len(cmds) \in Nat
      BY <3>1, CurrentFacts
    <3>3. pos' # 1
      BY <3>1, <3>2
    <3>4. nerrs' # 0
      BY <3>1 DEF TypeInv
    <3> QED BY <2>1, <3>1, <3>3, <3>4 DEF CacheInv
  <2>4. CASE Evaluated
    <3>1. pc = "eval" /\ pc' = "execute" /\ pos > Len(cmds) /\ nerrs = 0 /\ cache' = cache
      BY <2>4 DEF Evaluated, cacheVars
    <3>2. pos - 1 = Len(cmds)
      BY <3>1 DEF TypeInv
    <3>3. FollowInv(Len(cmds))
      BY <3>1, <3>2 DEF CacheInv
    <3>4. FollowsBy(cache', Len(cmds))
      BY <3>1, <3>3, FollowNames, Zenon
    <3>5. Len(cmds') = Len(cmds)
      BY <2>0
    <3>6. FollowInv(Len(cmds))'
      BY <2>0, <3>4, <3>5, FollowAt, Zenon
    <3> QED BY <2>1, <3>1, <3>6 DEF CacheInv
  <2>5. CASE Execute
    <3>1. pc = "execute" /\ pc' = "execute" /\ cache' = cache
      BY <2>5 DEF Execute, Executing, cacheVars
    <3>3. FollowInv(Len(cmds))
      BY <3>1 DEF CacheInv
    <3>4. FollowsBy(cache', Len(cmds))
      BY <3>1, <3>3, FollowNames, Zenon
    <3>5. Len(cmds') = Len(cmds)
      BY <2>0
    <3>6. FollowInv(Len(cmds))'
      BY <2>0, <3>4, <3>5, FollowAt, Zenon
    <3> QED BY <2>1, <3>1, <3>6 DEF CacheInv
  <2>6. CASE UNCHANGED vars
    <3>1. pc' = pc /\ pos' = pos /\ nerrs' = nerrs /\ cache' = cache
      BY <2>6 DEF vars, cacheVars
    <3>2. CacheFollowsCommit' <=> CacheFollowsCommit
      BY <2>0, <3>1, Zenon DEF CacheFollowsCommit, Names
    <3>3. (Covers(0)' <=> Covers(0)) /\ (Within(0)' <=> Within(0))
      BY <2>0, <3>1, Zenon DEF Covers, Within, Done, Start, Tracked, NoFlush, Present
    <3>4. NoFlush(cmds)' <=> NoFlush(cmds)
      BY <2>0, Zenon DEF NoFlush
    <3>5. FollowInv(pos - 1)' <=> FollowInv(pos - 1)
      <4>1. pos' - 1 = pos - 1
        BY <3>1
      <4>2. FollowInv(pos - 1)' <=> FollowsBy(cache', pos - 1)
        BY <2>0, <4>1, FollowAt, Zenon
      <4> QED BY <3>1, <4>2, FollowNames, Zenon
    <3>6. FollowInv(Len(cmds))' <=> FollowInv(Len(cmds))
      <4>1. Len(cmds') = Len(cmds)
        BY <2>0
      <4>2. FollowInv(Len(cmds))' <=> FollowsBy(cache', Len(cmds))
        BY <2>0, <4>1, FollowAt, Zenon
      <4> QED BY <3>1, <4>2, FollowNames, Zenon
    <3> QED BY <2>1, <3>1, <3>2, <3>3, <3>4, <3>5, <3>6 DEF CacheInv
  <2> QED BY <1>3, <2>2, <2>3, <2>4, <2>5, <2>6 DEF Goes
<1>4. CASE Ends /\ pc' = "idle"
  BY <1>4, EndCache DEF CacheInv
<1> QED BY <1>1, <1>2, <1>3, <1>4, StepKinds

-----------------------------------------------------------------------------
(* The errors of the evaluation. *)

\* What a command that is not found means fails.
LEMMA NotFound ==
  ASSUME NEW s \in States, s.ok, NEW c \in Command, ~Found(c),
         c.op \in {"add", "create", "delete", "destroy", "flush"},
         \A k \in Needs(c) : \A t, m : Present(s.objs, k, t, m) => Present(cache, k, t, m)
  PROVE  ~Sees(s, c).ok
<1> DEFINE w == OwnMeaning(c)
<1>1. w \in Message /\ w.table = c.table /\ w.name = c.name
  BY MeaningFacts
<1>2. Sees(s, c) = Apply(s, w)
  BY DEF Sees
<1>3. CASE c.op \in {"add", "create"} /\ c.obj \in Kinds
  <2>1. c.obj # "table" /\ ~HasTable(cache, c.table) /\ c.obj # "elements"
    BY <1>3 DEF Found, Kinds
  <2>2. w.type \in {"new", "create"} /\ w.obj = c.obj
    BY <1>3, MeaningFacts
  <2>3. "table" \in Needs(c)
    BY <1>3, <2>1 DEF Needs
  <2>4. ~HasTable(s.objs, c.table)
    BY <2>1, <2>3 DEF HasTable
  <2> HIDE DEF w
  <2>5. Apply(s, w) = Refusal(s)
    BY <1>1, <2>1, <2>2, <2>4, ApplyCases
  <2> QED BY <1>2, <2>5, <1>1, RefusedFacts DEF Refusal
<1>4. CASE c.obj = "elements" \/ (c.op = "flush" /\ c.obj = "set")
  <2>1. ~InCache(c, "set")
    BY <1>4 DEF Found, Kinds
  <2>2. w.type = "need" /\ w.obj = "set"
    <3>1. c.op = "flush" => c.obj \in {"table", "chain", "set", "ruleset"}
      BY DEF Command
    <3> QED BY <1>4, <3>1, MeaningFacts DEF Kinds, Holder
  <2>3. "table" \in Needs(c) /\ "set" \in Needs(c)
    BY <1>4 DEF Needs, Kinds
  <2> HIDE DEF w
  <2>4. ASSUME Apply(s, w).ok PROVE FALSE
    <3>1. HasTable(s.objs, c.table) /\ Target(s.objs, w) # {}
      BY <1>1, <2>2, <2>4, NeedFacts
    <3>2. HasTable(cache, c.table)
      BY <2>3, <3>1 DEF HasTable
    <3>3. CASE c.name # None
      <4>1. Present(s.objs, "set", c.table, c.name)
        BY <1>1, <2>2, <3>1, <3>3, TargetFacts
      <4> QED BY <2>1, <2>3, <3>2, <4>1 DEF InCache
    <3>4. CASE c.name = None
      <4>1. PICK x \in Target(s.objs, w) : TRUE
        BY <3>1
      <4>2. x \in Object /\ x.obj = "set" /\ w.handle # 0 /\ x.handle = w.handle
        BY <1>1, <2>2, <3>4, <4>1, TargetFacts
      <4> QED BY <4>2 DEF Object
    <3> QED BY <3>3, <3>4
  <2> QED BY <1>2, <2>4
<1>5. (c.op \in {"add", "create"} /\ c.obj \in Kinds) \/ c.obj = "elements" \/ (c.op = "flush" /\ c.obj = "set")
  BY DEF Found
<1> QED BY <1>3, <1>4, <1>5

\* The first error.
LEMMA FirstError ==
  ASSUME TypeInv, CommandsInv, CacheInv, pc = "eval", nerrs = 0, pos <= Len(cmds), ~Found(cmds[pos]),
         OnlyChanges(given)
  PROVE  ~Seen(Len(cmds)).ok
<1> DEFINE c == cmds[pos]
<1>1. /\ pos \in 1..Len(cmds) /\ pos \in DOMAIN cmds /\ c \in Command /\ pos - 1 \in 0..Len(cmds)
      /\ cmds \in Seq(Command) /\ pos \in 0..Len(cmds) /\ DOMAIN cmds = 1..Len(cmds)
  BY CurrentFacts
<1>2. OnlyChanges(cmds)
  BY DEF CommandsInv
<1>3. \A i \in DOMAIN cmds : cmds[i] \in Command
  BY <1>1
<1>4. \A i \in DOMAIN cmds : cmds[i].op \in {"add", "create", "delete", "destroy", "flush"}
  BY <1>2 DEF OnlyChanges
<1>5. \A i \in DOMAIN cmds : IsFlush(cmds[i]) => i = 1
  BY <1>2 DEF OnlyChanges, IsFlush
<1>6. NoRename(cmds)
  BY <1>4 DEF NoRename
<1>7. \A i \in DOMAIN cmds : cmds[i].op \notin {"list", "get"}
  BY <1>4
<1>8. Seen(pos - 1) = Done(pos - 1) /\ Seen(pos - 1) \in States /\ Seen(pos) = Sees(Seen(pos - 1), c)
  BY <1>1, <1>7, DoneFacts
<1>9. Seen(Len(cmds)).ok => Seen(pos).ok /\ Seen(pos - 1).ok
  BY <1>1, DoneFacts
<1>10. ASSUME Seen(pos - 1).ok PROVE ~Seen(pos).ok
  <2> DEFINE s == Seen(pos - 1)
  <2>1. FollowInv(pos - 1)
    BY DEF CacheInv
  <2>2. Covers(pos - 1)
    BY <1>6, <1>8, <1>10, <2>1 DEF FollowInv
  <2>3. \A k, t, m : Tracked(k, pos - 1) /\ Present(s.objs, k, t, m) => Present(cache, k, t, m)
    BY <1>8, <2>2, CoversNames
  <2>4. \A k \in Needs(c) : Tracked(k, pos - 1)
    BY <1>1, <1>5, NeedsTracked
  <2>5. c.op \in {"add", "create", "delete", "destroy", "flush"}
    BY <1>1, <1>4
  <2>6. s \in States /\ s.ok /\ ~Found(c) /\ c \in Command /\ Seen(pos) = Sees(s, c)
    BY <1>1, <1>8, <1>10
  <2> HIDE DEF s, c
  <2>7. \A k \in Needs(c) : \A t, m : Present(s.objs, k, t, m) => Present(cache, k, t, m)
    BY <2>3, <2>4
  <2> QED BY <2>5, <2>6, <2>7, NotFound
<1> QED BY <1>9, <1>10

\* The errors: a step.
LEMMA ErrorStep ==
  ASSUME TypeInv, TypeInv', pc # "idle" => CommandsInv, CacheInv, ErrorInv, [Next]_vars
  PROVE  ErrorInv'
<1>1. ASSUME NEW in, NEW s \in BOOLEAN, Begin(in, s) PROVE ErrorInv'
  BY <1>1 DEF Begin, ErrorInv
<1>2. CASE Expand
  <2>1. nerrs' = nerrs /\ nerrs = 0
    BY <1>2 DEF Expand, TypeInv
  <2> QED BY <2>1 DEF ErrorInv
<1>3. CASE Goes /\ Kept
  <2>1. Seen(Len(cmds))' = Seen(Len(cmds)) /\ given' = given
    BY <1>3 DEF Kept, Seen, Start
  <2>2. CASE EvaluateError
    <3>1. pc = "eval" /\ pos <= Len(cmds) /\ ~Found(cmds[pos])
      BY <2>2 DEF EvaluateError
    <3>2. CommandsInv
      BY <3>1
    <3>3. nerrs = 0 \/ nerrs > 0
      BY DEF TypeInv
    <3>4. OnlyChanges(given) => ~Seen(Len(cmds)).ok
      BY <3>1, <3>2, <3>3, FirstError DEF ErrorInv
    <3> QED BY <2>1, <3>4 DEF ErrorInv, OnlyChanges
  <2>3. CASE Evaluate \/ UNCHANGED vars
    <3>1. pc' = pc /\ nerrs' = nerrs
      BY <2>3 DEF Evaluate, vars
    <3> QED BY <2>1, <3>1 DEF ErrorInv, OnlyChanges
  <2>4. CASE Evaluated \/ Execute
    <3>1. pc' = "execute"
      BY <2>4 DEF Evaluated, Execute, Executing
    <3> QED BY <3>1 DEF ErrorInv
  <2> QED BY <1>3, <2>2, <2>3, <2>4 DEF Goes
<1>4. CASE pc' = "idle"
  BY <1>4 DEF ErrorInv
<1> QED BY <1>1, <1>2, <1>3, <1>4, StepKinds

-----------------------------------------------------------------------------
(* The batch. *)

\* Where the chains are after another command.
LEMMA ChainsKept ==
  ASSUME NEW s \in States, s.ok, NEW c \in Command, Apply(s, OwnMeaning(c)).ok, last \in Nat, last <= s.last,
         NEW P, \A e \in kernel : e.obj = "chain" => e.handle \in Nat /\ e.handle <= last,
         \A y \in s.objs, e \in kernel :
           y.obj = "chain" /\ e.obj = "chain" /\ y.handle = e.handle =>
             y.table = e.table /\ (y.name = e.name \/ <<e.table, e.name>> \in P)
  PROVE  \A y \in Apply(s, OwnMeaning(c)).objs, e \in kernel :
           y.obj = "chain" /\ e.obj = "chain" /\ y.handle = e.handle =>
             y.table = e.table /\ (y.name = e.name \/ <<e.table, e.name>> \in P \/ IsRename(c, e.table, e.name))
<1> DEFINE w == OwnMeaning(c)
           b == Apply(s, w)
<1>2. c.op = "rename" => c.name # None
  BY DEF Command
<1>3. w \in Message /\ w.table = c.table /\ w.name = c.name
  BY MeaningFacts
<1>4. w.type = "rename" => c.op = "rename"
  <2>1. c.op \in {"add", "create", "delete", "destroy", "flush", "rename", "list", "get"}
    BY DEF Command
  <2> QED BY <2>1, MeaningFacts
<1>5. b.ok /\ b = Apply(s, w)
  OBVIOUS
<1> HIDE DEF w, b
<1>6. s.last \in Nat
  BY DEF States
<1> SUFFICES ASSUME NEW y \in b.objs, NEW e \in kernel, y.obj = "chain", e.obj = "chain", y.handle = e.handle
             PROVE  y.table = e.table /\ (y.name = e.name \/ <<e.table, e.name>> \in P \/ IsRename(c, e.table, e.name))
  BY DEF b, w
<1>7. CASE y \in s.objs
  BY <1>7
<1>8. CASE y \notin s.objs
  <2>1. w.type \in {"new", "create", "delete", "destroy", "need", "flush", "rename"}
    BY <1>3 DEF Message
  <2>2. w.type # "flush"
    BY <1>3, <1>5, <1>8, FlushFacts
  <2>3. w.obj = "table" \/ HasTable(s.objs, w.table)
    BY <1>3, <1>5, <2>2, ApplyCases, RefusedFacts DEF Refusal
  <2>4. b # s
    BY <1>8
  <2>5. b # Refusal(s)
    BY <1>3, <1>5, RefusedFacts DEF Refusal
  <2>6. b = Removed(s, w) => y \in s.objs
    BY <1>3, RemovedFacts
  <2>7. CASE w.type \in {"new", "create"} /\ Target(s.objs, w) = {}
    <3>1. w.obj \in Kinds /\ w.name # None
      BY <1>3, <2>7 DEF Message
    <3>2. b = Created(s, w)
      BY <1>3, <1>5, <2>3, <2>7, ApplyCases
    <3>3. PICK x \in Object :
              /\ x.obj = w.obj /\ x.table = w.table /\ x.name = w.name
              /\ x.obj = "chain" => x.handle = s.last + 1
              /\ \A z : z \in Created(s, w).objs <=> z \in s.objs \/ z = x
      BY <1>3, <2>3, <2>7, <3>1, CreatedFacts
    <3>4. y = x
      BY <1>8, <3>2, <3>3
    <3>5. y.handle = s.last + 1 /\ e.handle <= last /\ e.handle \in Nat
      BY <3>3, <3>4
    <3> QED BY <1>6, <3>5
  <2>8. CASE w.type = "rename" /\ Target(s.objs, w) # {}
    <3>1. ~Present(s.objs, "chain", w.table, w.new) /\ b = Renamed(s, w)
      BY <1>3, <1>5, <2>3, <2>5, <2>8, ApplyCases
    <3>2. PICK x \in s.objs, z \in Object :
              /\ Target(s.objs, w) = {x} /\ x.obj = "chain" /\ x.table = w.table
              /\ z.obj = "chain" /\ z.table = x.table /\ z.handle = x.handle /\ z.name = w.new
              /\ \A u : u \in Renamed(s, w).objs <=> (u \in s.objs /\ u # x) \/ u = z
      BY <1>3, <2>8, <3>1, RenamedFacts
    <3>3. y = z
      BY <1>8, <3>1, <3>2
    <3>4. x.table = e.table /\ (x.name = e.name \/ <<e.table, e.name>> \in P)
      BY <3>2, <3>3
    <3>5. x.name = c.name
      BY <1>2, <1>3, <1>4, <2>8, <3>2, TargetFacts
    <3>6. x.name = e.name => IsRename(c, e.table, e.name)
      BY <1>3, <1>4, <2>8, <3>2, <3>4, <3>5 DEF IsRename
    <3> QED BY <3>2, <3>3, <3>4, <3>6
  <2> QED BY <1>3, <1>5, <1>8, <2>1, <2>2, <2>3, <2>4, <2>5, <2>6, <2>7, <2>8, ApplyCases
<1> QED BY <1>7, <1>8

\* A chain renamed by its handle is the one renamed by its name.
LEMMA RenamedByName ==
  ASSUME NEW s \in States, s.ok, NEW m \in Message, NEW w \in Message, Apply(s, m).ok,
         m.type = "rename", w.type = "rename", m.obj = w.obj, m.table = w.table, m.new = w.new,
         \A y : y \in Target(s.objs, m) => y \in Target(s.objs, w)
  PROVE  Apply(s, w) = Apply(s, m)
<1>1. m.obj # "table"
  BY DEF Message
<1>2. HasTable(s.objs, m.table) /\ Target(s.objs, m) # {} /\ ~Present(s.objs, "chain", m.table, m.new)
  <2>1. Apply(s, m) # Refusal(s)
    BY RefusedFacts DEF Refusal
  <2> QED BY <1>1, <2>1, ApplyCases
<1>3. Target(s.objs, w) # {}
  BY <1>2
<1>4. Apply(s, m) = Renamed(s, m) /\ Apply(s, w) = Renamed(s, w)
  BY <1>2, <1>3, ApplyCases
<1>5. Target(s.objs, w) = Target(s.objs, m)
  <2>1. PICK x : x \in Target(s.objs, m)
    BY <1>2
  <2>2. \A y : y \in Target(s.objs, w) => y = x
    BY <2>1, TargetFacts
  <2> QED BY <2>1, <2>2
<1> DEFINE F(T, n) == [s EXCEPT !.objs = (s.objs \ T) \cup {[e EXCEPT !.name = n] : e \in T}]
<1>6. Renamed(s, m) = F(Target(s.objs, m), m.new) /\ Renamed(s, w) = F(Target(s.objs, w), w.new)
  BY Zenon DEF Renamed
<1> HIDE DEF F
<1> QED BY <1>4, <1>5, <1>6, Zenon

\* The message of an executed command does what the command means.
LEMMA ExecuteMeans ==
  ASSUME TypeInv, CacheInv, BatchInv, Executing, NEW m \in Message, NEW c \in Command, c = cmds[pos],
         NoRename(cmds) \/ (script /\ RenamesDiffer(cmds)),
         \/ c.op \in {"add", "create"} /\ m = DoCommandAdd(c)
         \/ c.op \in {"delete", "destroy"} /\ m = DoCommandDelete(c)
         \/ c.op = "flush" /\ m = DoCommandFlush(c)
         \/ c.op = "rename" /\ InCache(c, "chain") /\ m = DoCommandRename(c),
         Applied(kernel, batch).ok, Apply(Applied(kernel, batch), m).ok
  PROVE  Apply(Applied(kernel, batch), m) = Does(Applied(kernel, batch), c)
<1> DEFINE a == Applied(kernel, batch)
           w == OwnMeaning(c)
<1>1. pc = "execute" /\ pos <= Len(cmds)
  BY DEF Executing
<1>2. pos \in DOMAIN cmds /\ pos \in Nat
  BY <1>1, CurrentFacts
<1>3. a \in States /\ a.ok /\ Apply(a, m).ok
  BY CommitFacts
<1>4. w \in Message /\ w.table = c.table /\ w.name = c.name /\ w.new = c.new
  BY MeaningFacts
<1>5. c.op \notin {"list", "get"} => Does(a, c) = Apply(a, w)
  BY DEF Does, Sees
<1>6. CASE c.op # "rename"
  BY <1>5, <1>6, ExecMessages
<1>7. CASE c.op = "rename"
  <2>1. script /\ RenamesDiffer(cmds)
    BY <1>2, <1>7 DEF NoRename
  <2>2. Chains(a.objs)
    BY <1>1, <1>3, <2>1 DEF BatchInv
  <2>3. cache \subseteq Object /\ m = DoCommandRename(c) /\ InCache(c, "chain")
    BY <1>7 DEF TypeInv
  <2>4. PICK e \in cache :
          /\ e.obj = "chain" /\ e.table = c.table /\ e.name = c.name
          /\ m = [type |-> "rename", obj |-> "chain", table |-> c.table,
                  name |-> None, handle |-> e.handle, new |-> c.new]
    BY <1>7, <2>3, RenameMessage
  <2>5. e.handle # 0 => e \in kernel
    BY <1>1, <2>1, <2>4 DEF CacheInv
  <2>6. c.name # None
    BY <1>7 DEF Command
  <2>7. w.type = "rename" /\ w.obj = "chain"
    BY <1>7, MeaningFacts
  <2> HIDE DEF a, w
  <2>8. /\ m.type = "rename" /\ m.obj = "chain" /\ m.table = c.table /\ m.name = None
        /\ m.handle = e.handle /\ m.new = c.new
    BY <2>4
  <2>9. ASSUME NEW y, y \in Target(a.objs, m) PROVE y \in Target(a.objs, w)
    <3>1. y \in a.objs /\ y.obj = "chain" /\ y.table = c.table /\ e.handle # 0 /\ y.handle = e.handle
      BY <1>3, <2>8, <2>9, TargetFacts
    <3>2. y.name = e.name \/ \E i \in 1..(pos - 1) : IsRename(cmds[i], e.table, e.name)
      BY <2>2, <2>4, <2>5, <3>1 DEF Chains
    <3>3. ASSUME NEW i \in 1..(pos - 1), IsRename(cmds[i], e.table, e.name) PROVE FALSE
      <4>1. i \in DOMAIN cmds /\ i < pos
        BY <1>1, <1>2
      <4>2. cmds[i].op = "rename" /\ cmds[i].table = cmds[pos].table /\ cmds[i].name = cmds[pos].name
        BY <2>4, <3>3 DEF IsRename
      <4>3. cmds[pos].op = "rename"
        BY <1>7
      <4> QED BY <1>2, <2>1, <4>1, <4>2, <4>3 DEF RenamesDiffer
    <3>4. y.name = c.name
      BY <2>4, <3>2, <3>3
    <3> QED BY <1>3, <1>4, <2>6, <2>7, <3>1, <3>4, TargetFacts
  <2>10. Apply(a, w) = Apply(a, m)
    BY <1>3, <1>4, <2>7, <2>8, <2>9, RenamedByName
  <2> QED BY <1>5, <1>7, <2>10 DEF a
<1> QED BY <1>6, <1>7

\* A command is executed.
LEMMA BatchExecute ==
  ASSUME TypeInv, CacheInv, BatchInv, Execute
  PROVE  BatchInv'
<1> DEFINE a == Applied(kernel, batch)
           b == Applied(kernel, batch')
           c == cmds[pos]
<1>1. /\ pc = "execute" /\ pos <= Len(cmds) /\ pos' = pos + 1 /\ kernel' = kernel /\ last' = last
      /\ cmds' = cmds /\ script' = script /\ pc' = pc
  BY DEF Execute, Executing
<1>2. /\ pos \in 1..Len(cmds) /\ pos \in Nat /\ pos \in DOMAIN cmds /\ c \in Command /\ pos \in 0..Len(cmds)
      /\ pos' - 1 = pos
  BY <1>1, CurrentFacts
<1>3. batch \in Seq(Message) /\ Start \in States /\ Start.last = last /\ a = SentAll(Start, batch)
  BY StartFacts DEF TypeInv
<1>4. a \in States /\ last <= a.last
  BY CommitFacts
<1>5. Done(pos) = Does(Done(pos - 1), c)
  BY <1>2, DoneFacts
<1>6. (NoRename(cmds)' <=> NoRename(cmds)) /\ (RenamesDiffer(cmds)' <=> RenamesDiffer(cmds))
  BY <1>1, Zenon DEF NoRename, RenamesDiffer
<1>7. Done(pos - 1)' = Done(pos)
  <2>1. Done(pos - 1)' = DoesAll(Start', SubSeq(cmds', 1, pos' - 1)) /\ Start' = Start
    BY <1>1, Zenon DEF Done, DoesAll, Start
  <2> QED BY <1>1, <1>2, <2>1, Zenon DEF Done
<1>8. Applied(kernel, batch)' = b
  BY <1>1, Zenon DEF Applied
<1>9. SUFFICES ASSUME NoRename(cmds) \/ (script /\ RenamesDiffer(cmds)), b.ok
               PROVE  /\ b = Done(pos)
                      /\ script => \A y \in b.objs, e \in kernel :
                           y.obj = "chain" /\ e.obj = "chain" /\ y.handle = e.handle =>
                             /\ y.table = e.table
                             /\ y.name = e.name \/ \E i \in 1..pos : IsRename(cmds[i], e.table, e.name)
  <2>1. Chains(Applied(kernel, batch).objs)' <=> \A y \in Applied(kernel, batch)'.objs, e \in kernel :
                           y.obj = "chain" /\ e.obj = "chain" /\ y.handle = e.handle =>
                             /\ y.table = e.table
                             /\ y.name = e.name \/ \E i \in 1..pos : IsRename(cmds[i], e.table, e.name)
    BY <1>1, <1>2, ZenonT(60) DEF Chains
  <2>2. BatchInv' <=> (pc' = "execute" /\ (NoRename(cmds)' \/ (script' /\ RenamesDiffer(cmds)')) /\ Applied(kernel, batch)'.ok =>
                         /\ Applied(kernel, batch)' = Done(pos - 1)'
                         /\ script' => Chains(Applied(kernel, batch).objs)')
    BY Zenon DEF BatchInv
  <2> HIDE DEF b
  <2> QED BY <1>1, <1>6, <1>7, <1>8, <1>9, <2>1, <2>2, Zenon
<1>10. a.ok => a = Done(pos - 1) /\ (script => Chains(a.objs))
  BY <1>1, <1>9 DEF BatchInv
<1>11. CASE batch' = batch /\ c.op \in {"list", "get"}
  <2>1. b = a
    BY <1>11
  <2>2. a = Done(pos - 1) /\ (script => Chains(a.objs))
    BY <1>9, <1>10, <2>1
  <2>3. b = Done(pos)
    BY <1>5, <1>11, <2>1, <2>2 DEF Does
  <2>4. 1..(pos - 1) \subseteq 1..pos
    BY <1>2
  <2> HIDE DEF a, b
  <2>5. script => \A y \in b.objs, e \in kernel :
                           y.obj = "chain" /\ e.obj = "chain" /\ y.handle = e.handle =>
                             /\ y.table = e.table
                             /\ y.name = e.name \/ \E i \in 1..pos : IsRename(cmds[i], e.table, e.name)
    BY <2>1, <2>2, <2>4 DEF Chains
  <2> QED BY <2>3, <2>5
<1>12. ASSUME NEW m, batch' = Append(batch, m),
              \/ c.op \in {"add", "create"} /\ m = DoCommandAdd(c)
              \/ c.op \in {"delete", "destroy"} /\ m = DoCommandDelete(c)
              \/ c.op = "flush" /\ m = DoCommandFlush(c)
              \/ c.op = "rename" /\ InCache(c, "chain") /\ m = DoCommandRename(c)
       PROVE  /\ b = Done(pos)
              /\ script => \A y \in b.objs, e \in kernel :
                   y.obj = "chain" /\ e.obj = "chain" /\ y.handle = e.handle =>
                     /\ y.table = e.table
                     /\ y.name = e.name \/ \E i \in 1..pos : IsRename(cmds[i], e.table, e.name)
  <2>1. m \in Message
    <3>1. cache \subseteq Object
      BY DEF TypeInv
    <3>2. OwnMeaning(c) \in Message
      BY <1>2, MeaningFacts
    <3> HIDE DEF c
    <3>3. c.op = "rename" /\ InCache(c, "chain") => DoCommandRename(c) \in Message
      BY <1>2, <3>1, RenameMessage
    <3> QED BY <1>2, <1>12, <3>2, <3>3, ExecMessages
  <2>2. b = Apply(a, m)
    <3>1. IsAppend(batch', batch, m)
      BY <1>12 DEF IsAppend
    <3>2. b = SentAll(Start, batch')
      BY Zenon DEF Applied, SentAll, Start
    <3>3. SentAll(Start, batch') = Apply(SentAll(Start, batch), m)
      BY <1>3, <2>1, <3>1, MessagesStep
    <3> QED BY <1>3, <3>2, <3>3
  <2>3. a.ok
    BY <1>4, <1>9, <2>1, <2>2, ApplyFacts
  <2>4. Apply(a, m) = Does(a, c)
    <3>1. Executing /\ c = cmds[pos]
      BY <1>1 DEF Executing
    <3>2. Apply(a, m).ok
      BY <1>9, <2>2
    <3> HIDE DEF c
    <3> QED BY <1>2, <1>9, <1>12, <2>1, <2>3, <3>1, <3>2, ExecuteMeans
  <2>5. b = Done(pos)
    BY <1>5, <1>10, <2>2, <2>3, <2>4
  <2>6. c.op \notin {"list", "get"}
    BY <1>12
  <2>7. b = Apply(a, OwnMeaning(c))
    BY <2>2, <2>4, <2>6 DEF Does, Sees
  <2> DEFINE P == {<<r.table, r.name>> : r \in {cmds[i] : i \in {j \in 1..(pos - 1) : cmds[j].op = "rename"}}}
  <2>8. \A t, n : <<t, n>> \in P => \E i \in 1..(pos - 1) : IsRename(cmds[i], t, n)
    BY DEF IsRename
  <2>9. \A t, n : (\E i \in 1..(pos - 1) : IsRename(cmds[i], t, n)) => <<t, n>> \in P
    BY DEF IsRename
  <2> HIDE DEF P, a, b, c
  <2>10. script => \A y \in a.objs, e \in kernel :
           y.obj = "chain" /\ e.obj = "chain" /\ y.handle = e.handle =>
             y.table = e.table /\ (y.name = e.name \/ <<e.table, e.name>> \in P)
    BY <1>10, <2>3, <2>9 DEF Chains
  <2>11. \A e \in kernel : e.obj = "chain" => e.handle \in Nat /\ e.handle <= last
    BY StartFacts
  <2>12. last \in Nat /\ Apply(a, OwnMeaning(c)).ok
    BY <1>9, <2>7 DEF TypeInv, Ruleset
  <2>13. script => \A y \in Apply(a, OwnMeaning(c)).objs, e \in kernel :
           y.obj = "chain" /\ e.obj = "chain" /\ y.handle = e.handle =>
             y.table = e.table /\ (y.name = e.name \/ <<e.table, e.name>> \in P \/ IsRename(c, e.table, e.name))
    BY <1>2, <1>4, <2>3, <2>10, <2>11, <2>12, ChainsKept
  <2>14. \A t, n : <<t, n>> \in P \/ IsRename(c, t, n) => \E i \in 1..pos : IsRename(cmds[i], t, n)
    <3>1. 1..(pos - 1) \subseteq 1..pos /\ pos \in 1..pos
      BY <1>2
    <3> QED BY <2>8, <3>1 DEF c
  <2> QED BY <2>5, <2>7, <2>13, <2>14
<1>13. \/ batch' = batch /\ c.op \in {"list", "get"}
       \/ \E m : /\ batch' = Append(batch, m)
                 /\ \/ c.op \in {"add", "create"} /\ m = DoCommandAdd(c)
                    \/ c.op \in {"delete", "destroy"} /\ m = DoCommandDelete(c)
                    \/ c.op = "flush" /\ m = DoCommandFlush(c)
                    \/ c.op = "rename" /\ InCache(c, "chain") /\ m = DoCommandRename(c)
  BY DEF Execute
<1> QED BY <1>11, <1>12, <1>13

\* The batch: a step.
LEMMA BatchStep ==
  ASSUME TypeInv, CacheInv, BatchInv, [Next]_vars
  PROVE  BatchInv'
<1>1. ASSUME NEW in, NEW s \in BOOLEAN, Begin(in, s) PROVE BatchInv'
  BY <1>1 DEF Begin, BatchInv
<1>2. CASE Expand
  <2>1. pc' # "execute"
    BY <1>2 DEF Expand
  <2> QED BY <2>1 DEF BatchInv
<1>3. CASE Evaluate \/ EvaluateError
  <2>1. pc' # "execute"
    BY <1>3 DEF Evaluate, EvaluateError
  <2> QED BY <2>1 DEF BatchInv
<1>4. CASE Evaluated
  <2>1. pc = "eval" /\ pos' = 1 /\ kernel' = kernel /\ last' = last /\ cmds' = cmds /\ batch' = batch
    BY <1>4 DEF Evaluated
  <2>2. batch = <<>>
    BY <2>1 DEF TypeInv
  <2>3. Start \in States /\ Start.objs = kernel /\ Applied(kernel, batch) = SentAll(Start, batch) /\ Done(0) = Start
    BY StartFacts, DoneFacts
  <2>4. SentAll(Start, <<>>) = Start
    BY <2>3, MessagesRun
  <2>5. Applied(kernel, batch)' = Start
    <3>1. Applied(kernel, batch)' = Applied(kernel, batch)
      BY <2>1, Zenon DEF Applied
    <3> QED BY <2>2, <2>3, <2>4, <3>1
  <2>6. Done(pos - 1)' = Start
    <3>1. Done(pos - 1)' = DoesAll(Start', SubSeq(cmds', 1, pos' - 1)) /\ Start' = Start
      BY <2>1, Zenon DEF Done, DoesAll, Start
    <3>2. pos' - 1 = 0
      BY <2>1
    <3> QED BY <2>1, <2>3, <3>1, <3>2, Zenon DEF Done
  <2>7. Chains(kernel)'
    <3>1. \A y \in kernel, e \in kernel : y.obj = "chain" /\ e.obj = "chain" /\ y.handle = e.handle => y = e
      BY DEF TypeInv, Ruleset
    <3>2. Chains(kernel)' <=> \A y \in kernel', e \in kernel' :
            y.obj = "chain" /\ e.obj = "chain" /\ y.handle = e.handle =>
              /\ y.table = e.table
              /\ y.name = e.name \/ \E i \in 1..(pos' - 1) : IsRename(cmds'[i], e.table, e.name)
      BY Zenon DEF Chains, IsRename
    <3> QED BY <2>1, <3>1, <3>2, Zenon
  <2>8. Chains(Applied(kernel, batch).objs)'
    <3>1. Applied(kernel, batch)'.objs = kernel'
      BY <2>1, <2>3, <2>5
    <3> QED BY <2>7, <3>1, Zenon DEF Chains
  <2> QED BY <2>5, <2>6, <2>8, Zenon DEF BatchInv
<1>5. CASE Execute
  BY <1>5, BatchExecute
<1>6. CASE UNCHANGED vars
  <2>1. /\ kernel' = kernel /\ last' = last /\ pc' = pc /\ script' = script /\ cmds' = cmds /\ pos' = pos /\ batch' = batch
    BY <1>6 DEF vars
  <2>2. Applied(kernel, batch)' = Applied(kernel, batch)
    BY <2>1, Zenon DEF Applied
  <2>3. Done(pos - 1)' = Done(pos - 1)
    BY <2>1, Zenon DEF Done, Start
  <2>4. (NoRename(cmds)' <=> NoRename(cmds)) /\ (RenamesDiffer(cmds)' <=> RenamesDiffer(cmds))
    BY <2>1, Zenon DEF NoRename, RenamesDiffer
  <2>5. Chains(Applied(kernel, batch).objs)' <=> Chains(Applied(kernel, batch).objs)
    <3> DEFINE W(o, k, cs, p) ==
                 \A y \in o, e \in k :
                   y.obj = "chain" /\ e.obj = "chain" /\ y.handle = e.handle =>
                     /\ y.table = e.table
                     /\ y.name = e.name \/ \E i \in 1..(p - 1) : IsRename(cs[i], e.table, e.name)
    <3>1. Chains(Applied(kernel, batch).objs)' <=> W(Applied(kernel, batch)'.objs, kernel', cmds', pos')
      BY Zenon DEF Chains, IsRename
    <3>2. Chains(Applied(kernel, batch).objs) <=> W(Applied(kernel, batch).objs, kernel, cmds, pos)
      BY Zenon DEF Chains
    <3> HIDE DEF W
    <3> QED BY <2>1, <2>2, <3>1, <3>2, Zenon
  <2>6. BatchInv' <=> (pc' = "execute" /\ (NoRename(cmds)' \/ (script' /\ RenamesDiffer(cmds)')) /\ Applied(kernel, batch)'.ok =>
                         /\ Applied(kernel, batch)' = Done(pos - 1)'
                         /\ script' => Chains(Applied(kernel, batch).objs)')
    BY Zenon DEF BatchInv
  <2> QED BY <2>1, <2>2, <2>3, <2>4, <2>5, <2>6, Zenon DEF BatchInv
<1>7. CASE pc' = "idle"
  BY <1>7 DEF BatchInv
<1> QED BY <1>1, <1>2, <1>3, <1>4, <1>5, <1>6, <1>7, StepKinds DEF Goes

-----------------------------------------------------------------------------
(* The theorems. *)

\* The invariant holds before the first input.
LEMMA TransactionInit ==
  ASSUME Init
  PROVE  TransactionInv
<1>1. /\ kernel = {} /\ last = 0 /\ pc = "idle" /\ script = FALSE /\ given = <<>> /\ cmds = <<>> /\ pos = 1
      /\ nerrs = 0 /\ batch = <<>> /\ cache = {} /\ cflags = {} /\ valid = FALSE /\ outcome = "none"
  BY DEF Init, NFT_CACHE_EMPTY
<1>2. Ruleset(kernel, last) /\ last <= MaxHandle
  BY <1>1, TransactionAssumption DEF Ruleset
<1>3. /\ given \in Seq(Command) /\ cmds \in Seq(Command) /\ batch \in Seq(Message)
      /\ Len(cmds) = 0 /\ Len(batch) = 0
  BY <1>1
<1>4. /\ pos \in 1..(Len(cmds) + 1) /\ nerrs \in 0..MaxErrors /\ Len(batch) <= pos - 1
  BY <1>1, <1>3, TransactionAssumption
<1>5. cflags \subseteq CacheFlag \ {"flushed"} /\ cache \subseteq Object
      /\ \A e \in cache : e.handle <= last /\ HasTable(cache, e.table)
  BY <1>1
<1>6. /\ pc \in {"idle", "expand", "eval", "execute"} /\ script \in BOOLEAN /\ valid \in BOOLEAN
      /\ outcome \in {"none", "done", "rejected", "refused", "crashed"}
      /\ (pc = "eval" => nerrs < MaxErrors \/ pos > Len(cmds))
      /\ nerrs = 0 /\ batch = <<>> /\ cmds = <<>>
  BY <1>1
<1>7. TypeInv
  BY <1>2, <1>3, <1>4, <1>5, <1>6 DEF TypeInv
<1>8. CacheFollowsCommit
  BY <1>1 DEF CacheFollowsCommit
<1>9. OrderInv /\ CacheInv /\ ErrorInv /\ BatchInv
  BY <1>1, <1>8 DEF OrderInv, CacheInv, ErrorInv, BatchInv
<1> QED BY <1>1, <1>7, <1>9 DEF TransactionInv

\* Every step keeps it.
LEMMA TransactionStep ==
  ASSUME InputsFollowed, TransactionInv, [Next]_vars
  PROVE  TransactionInv'
<1>1. TypeInv /\ (pc # "idle" => CommandsInv) /\ OrderInv /\ CacheInv /\ ErrorInv /\ BatchInv
  BY DEF TransactionInv
<1>2. TypeInv'
  BY <1>1, TypeStep
<1>3. pc' # "idle" => CommandsInv'
  BY <1>1, CommandsStep
<1>4. OrderInv'
  BY <1>1, OrderStep
<1>5. CacheInv'
  BY <1>1, <1>2, CacheStep
<1>6. ErrorInv'
  BY <1>1, <1>2, ErrorStep
<1>7. BatchInv'
  BY <1>1, BatchStep
<1> QED BY <1>2, <1>3, <1>4, <1>5, <1>6, <1>7 DEF TransactionInv

\* What the type invariant of the runs says.
LEMMA TypeConsequence ==
  ASSUME TypeInv
  PROVE  TypeOK
<1>1. last \in Nat /\ last <= MaxHandle /\ Ruleset(kernel, last)
  BY DEF TypeInv, Ruleset
<1>2. \A e \in kernel \cup cache : e \in Object /\ e.handle \in Nat /\ e.handle <= last
  BY StartFacts DEF TypeInv, Object
<1>3. \A e \in kernel \cup cache :
        e.obj \in Kinds /\ e.handle \in 0..last /\ (e.obj = "table" => e.name = e.table)
  BY <1>1, <1>2 DEF Object
<1>4. last \in 0..MaxHandle
  BY <1>1, TransactionAssumption
<1>5. Len(batch) <= Len(cmds)
  <2>1. pos \in 1..(Len(cmds) + 1) /\ Len(batch) <= pos - 1 /\ Len(cmds) \in Nat /\ Len(batch) \in Nat
    BY DEF TypeInv
  <2> QED BY <2>1
<1>6. cflags \subseteq CacheFlag
  BY DEF TypeInv
<1>7. /\ pc \in {"idle", "expand", "eval", "execute"} /\ script \in BOOLEAN /\ pos \in 1..(Len(cmds) + 1)
      /\ nerrs \in 0..MaxErrors /\ valid \in BOOLEAN
      /\ outcome \in {"none", "done", "rejected", "refused", "crashed"}
      /\ \A e \in cache : HasTable(cache, e.table)
  BY Zenon DEF TypeInv
<1> QED BY <1>3, <1>4, <1>5, <1>6, <1>7, Zenon DEF TypeOK

\* A batch that the kernel accepts does what the input says.
LEMMA BatchInOrder ==
  ASSUME TransactionInv, InputsOrderly, Executed, Applied(kernel, batch).ok
  PROVE  Applied(kernel, batch) = InOrder
<1>1. /\ TypeInv /\ CommandsInv /\ OrderInv /\ CacheInv /\ BatchInv
      /\ pc = "execute" /\ pos > Len(cmds)
  BY DEF TransactionInv, Executed
<1>2. pos - 1 = Len(cmds)
  BY <1>1 DEF TypeInv
<1>3. AllFollowed(cmds) => NoRename(cmds)
  BY DEF AllFollowed, NoRename, Followed
<1>4. NoRename(cmds) \/ (script /\ RenamesDiffer(cmds))
  <2>1. CASE ~script
    BY <1>1, <1>3, <2>1 DEF CommandsInv
  <2>2. CASE script
    <3>1. Orderly(cmds)
      BY <1>1 DEF CommandsInv
    <3>2. AllFollowed(cmds) \/ RenamesDiffer(cmds)
      BY <3>1 DEF Orderly, AllFollowed, RenamesDiffer
    <3> QED BY <1>3, <2>2, <3>2
  <2> QED BY <1>1, <2>1, <2>2 DEF TypeInv
<1>5. Applied(kernel, batch) = Done(pos - 1)
  BY <1>1, <1>4 DEF BatchInv
<1>6. Applied(kernel, batch) = Done(Len(cmds))
  BY <1>2, <1>5
<1>7. FollowInv(Len(cmds))
  BY <1>1 DEF CacheInv
<1>8. Seen(Len(cmds)) = Done(Len(cmds))
  BY <1>6, <1>7 DEF FollowInv
<1> QED BY <1>1, <1>6, <1>8 DEF OrderInv

\* A step that commits.
LEMMA CommitStep ==
  ASSUME TransactionInv, InputsOrderly, [Next]_vars, pc = "execute", outcome' = "done"
  PROVE  InOrder.ok /\ Names(kernel') = Names(InOrder.objs)
<1>1. TypeInv /\ CommandsInv /\ outcome = "none"
  BY DEF TransactionInv, CommandsInv
<1>2. ~Kept /\ ~Expand /\ \A in, s : ~Begin(in, s)
  BY <1>1 DEF Kept, Expand, Begin
<1>3. Ends
  BY <1>2, StepKinds
<1>4. NothingToSend \/ Commit
  BY <1>3 DEF Ends, Rejected, ExecuteNull, ExecuteError, Refused, Return
<1>5. Executed /\ Applied(kernel, batch).ok /\ kernel' = Applied(kernel, batch).objs
  <2>1. CASE Commit
    BY <2>1 DEF Commit
  <2>2. CASE NothingToSend
    <3>1. Executed /\ batch = <<>> /\ kernel' = kernel
      BY <2>2 DEF NothingToSend
    <3>2. Start \in States /\ Start.ok /\ Start.objs = kernel /\ Applied(kernel, batch) = SentAll(Start, batch)
      BY <1>1, StartFacts
    <3>3. SentAll(Start, <<>>) = Start
      BY <3>2, MessagesRun
    <3> QED BY <3>1, <3>2, <3>3
  <2> QED BY <1>4, <2>1, <2>2
<1>6. Applied(kernel, batch) = InOrder
  BY <1>5, BatchInOrder
<1> QED BY <1>5, <1>6

\* A step that turns an input down.
LEMMA RejectStep ==
  ASSUME TransactionInv, [Next]_vars, OnlyChanges(given), Fails
  PROVE  ~InOrder.ok
<1>1. TypeInv /\ (pc # "idle" => CommandsInv) /\ OrderInv /\ ErrorInv
  BY DEF TransactionInv
<1>2. ~Kept /\ ~Expand /\ \A in, s : ~Begin(in, s)
  BY DEF Kept, Expand, Begin, Fails
<1>3. Ends
  BY <1>2, StepKinds
<1>4. ~ExecuteNull /\ ~ExecuteError
  <2>1. ASSUME Executing, cmds[pos].op \in {"rename", "list", "get"} PROVE FALSE
    <3>1. pc = "execute" /\ pos \in DOMAIN cmds
      BY <1>1, <2>1, CurrentFacts DEF Executing
    <3>2. OnlyChanges(cmds)
      BY <1>1, <3>1 DEF CommandsInv
    <3> QED BY <2>1, <3>1, <3>2 DEF OnlyChanges
  <2> QED BY <2>1 DEF ExecuteNull, ExecuteError
<1>5. Rejected
  BY <1>3, <1>4 DEF Ends, NothingToSend, Commit, Refused, Return, Fails
<1>6. pc = "eval" /\ nerrs > 0
  BY <1>5 DEF Rejected
<1> QED BY <1>1, <1>6 DEF ErrorInv, OrderInv

\* The ruleset, the cache and the list of commands are what the code takes them
\* for, whatever the inputs are: every cached object has its table cached, so
\* that table_cache_find() finds it, and no loop leaves its list.
THEOREM TypeCorrect == Spec => []TypeOK
<1>1. Init => TypeInv
  BY TransactionInit DEF TransactionInv
<1>2. TypeInv /\ [Next]_vars => TypeInv'
  BY TypeStep
<1>3. TypeInv => TypeOK
  BY TypeConsequence
<1> QED BY <1>1, <1>2, <1>3, PTL DEF Spec

\* When the inputs after which a cache stays behind rename no chain and delete by
\* name, that cache has the names the kernel has, in every kind its flags promise:
\* nft_cache_is_updated() may accept it after the context's own commit.
THEOREM CacheCorrect ==
  ASSUME InputsFollowed
  PROVE  Spec => []CacheFollowsCommit
<1>1. Init => TransactionInv
  BY TransactionInit
<1>2. TransactionInv /\ [Next]_vars => TransactionInv'
  BY TransactionStep
<1>3. TransactionInv => CacheFollowsCommit
  BY DEF TransactionInv, CacheInv, CacheFollowsCommit
<1> QED BY <1>1, <1>2, <1>3, PTL DEF Spec

\* An input that is committed does to the ruleset what its commands do one after
\* the other: expanding blocks, evaluating all before executing any, and looking up
\* handles in the cache neither reorders nor redirects a command.
THEOREM CommitCorrect ==
  ASSUME InputsFollowed, InputsOrderly
  PROVE  Spec => CommitsInOrder
<1>1. Init => TransactionInv
  BY TransactionInit
<1>2. TransactionInv /\ [Next]_vars => TransactionInv'
  BY TransactionStep
<1>3. TransactionInv /\ [Next]_vars =>
        [pc = "execute" /\ outcome' = "done" => InOrder.ok /\ Names(kernel') = Names(InOrder.objs)]_vars
  BY CommitStep
<1> QED BY <1>1, <1>2, <1>3, PTL DEF Spec, CommitsInOrder

\* nft turns an input that only adds, deletes and flushes down only if its
\* commands, one after the other, fail.
THEOREM RejectCorrect ==
  ASSUME InputsFollowed
  PROVE  Spec => RejectsInOrder
<1>1. Init => TransactionInv
  BY TransactionInit
<1>2. TransactionInv /\ [Next]_vars => TransactionInv'
  BY TransactionStep
<1>3. TransactionInv /\ [Next]_vars => [OnlyChanges(given) /\ Fails => ~InOrder.ok]_vars
  BY RejectStep
<1> QED BY <1>1, <1>2, <1>3, PTL DEF Spec, RejectsInOrder
=============================================================================
