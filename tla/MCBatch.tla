------------------------------ MODULE MCBatch ------------------------------
(***************************************************************************)
(* Instances of Batch.  Elements "a" and "c" are short, "b" is long: three *)
(* short ones or a long and a short one fill a message, and the offset of  *)
(* the third does not fit the scaled-down 16 bits.                         *)
(***************************************************************************)
EXTENDS Batch, TLC

MCSize == ("a" :> 1 @@ "b" :> 2 @@ "c" :> 1)

Cmd(op, set, elems) == [op |-> op, set |-> set, elems |-> elems]

Lists == {<<"a">>, <<"b">>, <<"b", "a">>, <<"a", "b", "c">>, <<>>}

OnSets ==
  {Cmd(op, "s1", l) : op \in {"add", "create", "delete"}, l \in Lists}
    \cup {Cmd("destroy", "s1", <<"a">>), Cmd("add", "s2", <<"a">>), Cmd("create", "s2", <<"a", "c">>)}

Others ==
  {Cmd("flush", "tables", <<>>), Cmd("list", "none", <<>>)}
    \cup {Cmd(op, "tables", <<"a">>) : op \in {"add", "create", "delete"}}

AllCmds == OnSets \cup Others

\* One and two commands, and runs of three on one set and something else.
MCInputs ==
  {[cmds |-> cs, check |-> chk] :
     cs \in {<<>>} \cup [1 .. 1 -> AllCmds] \cup [1 .. 2 -> AllCmds]
       \cup {<<Cmd(op1, "s1", <<"b">>), m, Cmd(op2, "s1", <<"a", "b", "c">>)>> :
               op1 \in {"add", "create"}, op2 \in {"add", "create"},
               m \in {Cmd(op, "s1", l) : op \in {"add", "create", "delete"}, l \in {<<"b">>, <<"a", "c">>}}
                       \cup {Cmd("add", "tables", <<"a">>), Cmd("list", "none", <<>>)}},
     chk \in BOOLEAN}
=============================================================================
