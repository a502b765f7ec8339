---------------------------- MODULE MCIntervals ----------------------------
(***************************************************************************)
(* Inputs for TLC.  A script may be one command with one interval or two   *)
(* keys, or two commands with one interval each.  The inputs of a context  *)
(* that is kept begin with a flush.                                        *)
(***************************************************************************)
EXTENDS Intervals

One == {<<i>> : i \in Interval}

TwoKeys == {<<Ival(a, a), Ival(b, b)>> : a, b \in 0..MaxKey}

Cmds(ops, lists) == [op : ops, elems : lists]

Add(lists) == Cmds({"add"}, lists)

Delete(lists) == Cmds({"delete"}, lists)

FlushSet == [op |-> "flush", elems |-> <<>>]

MCScript ==
  {<<c>> : c \in Add(One \cup TwoKeys) \cup Delete(One \cup TwoKeys)}
    \cup {<<c, d>> : c \in Add(One), d \in Add(One) \cup Delete(One)}
    \cup {<<c, d>> : c, d \in Delete(One)}

MCInput ==
  {<<FlushSet, c, d>> : c \in Add(One), d \in Add(One) \cup Delete(One)}

\* Two commands, the first a deletion and the second an addition.
DeleteThenAdd ==
  {<<c>> : c \in Add(TwoKeys \cup One)}
    \cup {<<c, d>> : c \in Delete(One), d \in Add(One)}
=============================================================================
