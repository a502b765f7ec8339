---------------------------- MODULE MCRuleIndex ----------------------------
(***************************************************************************)
(* Inputs for RuleIndex: one or two commands on a chain of a few rules.     *)
(***************************************************************************)
EXTENDS RuleIndex

Cmd(op, by, at) == [op |-> op, by |-> by, at |-> at]

Plain   == {Cmd(o, "none", 0) : o \in {"add", "insert"}}
Indexed == {Cmd(o, "index", n) : o \in {"add", "insert"}, n \in 0..2}
Handled == {Cmd("add", "handle", 2)}
Replace == {Cmd("replace", "handle", 1)}
Delete  == {Cmd("delete", "handle", 1)}
Flush   == {Cmd("flush", "none", 0)}

Singles(S) == {<<c>> : c \in S}
Pairs(S, T) == {<<c, d>> : c \in S, d \in T}

\* Every command the cached chain follows, a replace command only in front.
MCInput ==
  Singles(Plain \cup Indexed \cup Handled \cup Replace)
    \cup Pairs(Plain \cup Replace \cup {Cmd("insert", "index", 1)}, Indexed)

\* In a context of its own, commands that are not followed may come last.
MCScript ==
  Singles(Delete \cup Flush)
    \cup Pairs(Indexed \cup Handled, Delete \cup Flush)

\* The theorems of RuleIndex_proofs apply to these inputs.
ASSUME InputsFollowed

\* The disagreement: two inputs of one context.
IndexTwice == Singles({Cmd("add", "index", 0), Cmd("add", "index", 1)})
NoScript == {}
=============================================================================
