-------------------------- MODULE MCTransaction --------------------------
(***************************************************************************)
(* Inputs for TLC: one table, two chains, one object of each other kind.   *)
(***************************************************************************)
EXTENDS Transaction

Block == <<[obj |-> "chain", name |-> "a", body |-> TRUE],
           [obj |-> "set", name |-> "s", body |-> TRUE],
           [obj |-> "flowtable", name |-> "f", body |-> FALSE],
           [obj |-> "counter", name |-> "n", body |-> FALSE]>>

\* Commands by name that change the set of objects.
Named1 ==
  {Cmd(o, "table", "t", "t") : o \in {"add", "delete", "destroy"}}
  \cup {[Cmd(o, "table", "t", "t") EXCEPT !.block = Block] :
          o \in {"add", "create"}}
  \cup {Cmd(o, "chain", "t", "a") : o \in {"add", "create", "delete"}}
  \cup {[Cmd("add", "chain", "t", "b") EXCEPT !.body = TRUE]}
  \cup {Cmd(o, "set", "t", "s") : o \in {"add", "delete"}}
  \cup {[Cmd("create", "set", "t", "s") EXCEPT !.body = TRUE]}
  \cup {Cmd(o, "flowtable", "t", "f") : o \in {"add", "destroy"}}
  \cup {Cmd(o, "counter", "t", "n") : o \in {"create", "delete"}}
  \cup {Cmd(o, "elements", "t", "s") : o \in {"add", "delete"}}
  \cup {Cmd("add", "rule", "t", "a")}

Flush  == Cmd("flush", "ruleset", None, None)
Rename(n, m) == [Cmd("rename", "chain", "t", n) EXCEPT !.new = m]
List(o, n) == Cmd("list", o, "t", n)
DeleteHandle(h) == [Cmd("delete", "chain", "t", None) EXCEPT !.handle = h]

\* One context: up to two commands, or "flush ruleset" before two others.
MCInput ==
  {<<c>> : c \in Named1} \cup {<<c, d>> : c, d \in Named1}
  \cup {<<Flush, Cmd("add", "table", "t", "t"), c>> : c \in Named1}
  \cup {<<List("table", "t")>>, <<List("set", "s")>>,
        <<Cmd("flush", "set", "t", "s")>>, <<Cmd("flush", "chain", "t", "a")>>,
        <<Cmd("get", "elements", "t", "s")>>}

\* Commands whose execution depends on what later commands did to the cache.
OutOfOrder ==
  {<<List("chain", "a"), Cmd("delete", "table", "t", "t")>>,
   <<Rename("a", "b"), Cmd("delete", "table", "t", "t")>>}

\* A context of its own: also what the cache does not follow.
MCScript ==
  {<<Rename("a", "b")>>, <<Rename("b", "a")>>, <<DeleteHandle(1)>>,
   <<DeleteHandle(2), Cmd("add", "chain", "t", "a")>>,
   <<Rename("a", "b"), Cmd("add", "chain", "t", "a")>>,
   <<Cmd("add", "set", "t", "s"), Cmd("get", "elements", "t", "s")>>}
  \cup OutOfOrder

\* What a ruleset has before them.
OrderInput ==
  {<<Cmd("add", "table", "t", "t")>>, <<Cmd("add", "chain", "t", "a")>>}

\* The inputs are such as the theorems are about.
ASSUME FollowedAssumption == InputsFollowed
ASSUME OrderlyAssumption == InputsOrderly

=============================================================================
