---------------------------- MODULE AtomicInput ----------------------------
(***************************************************************************)
(* What nft promises to whoever gives it an input: the commands take       *)
(* effect all together and in the order they are written, or not at all,   *)
(* and the exit status says which.  In check mode nothing takes effect and *)
(* the status says whether it would have.  While answers to an earlier     *)
(* input are still on their way, the status means nothing.                 *)
(*                                                                         *)
(* The ruleset is a set of <<set, element>>; tables count as elements of   *)
(* the set "tables".                                                       *)
(***************************************************************************)
EXTENDS Naturals, Sequences, SequencesExt

CONSTANT Inputs

VARIABLES
  ruleset,   \* what is in force
  asked,     \* the input that is being run
  phase,     \* "idle", "asked", or "committed"
  doubt,     \* answers to an earlier input are still on their way
  answer     \* "none", "ok" or "failed"

vars == <<ruleset, asked, phase, doubt, answer>>

Names(c) == {<<c.set, c.elems[k]>> : k \in DOMAIN c.elems}

Tables(r) == {x \in r : x[1] = "tables"}

Acceptable(r, c) ==
  /\ c.op \in {"create", "delete"} => IsInjective(c.elems)
  /\ c.op = "create" => Names(c) \cap r = {}
  /\ c.op = "delete" => Names(c) \subseteq r

Effect(r, c) ==
  CASE c.op \in {"add", "create"} -> r \cup Names(c)
    [] c.op \in {"delete", "destroy"} -> r \ Names(c)
    [] c.op = "flush" -> r \ Tables(r)
    [] c.op = "list" -> r

\* All commands, one after the other.
Run(r, cmds) ==
  FoldLeft(LAMBDA acc, c : [r |-> Effect(acc.r, c), ok |-> acc.ok /\ Acceptable(acc.r, c)],
           [r |-> r, ok |-> TRUE], cmds)

\* Between two inputs.
NoInput == [cmds |-> <<>>, check |-> FALSE]

Init == /\ ruleset = {}
        /\ asked = NoInput
        /\ phase = "idle"
        /\ doubt = FALSE
        /\ answer = "none"

Ask == /\ phase = "idle"
       /\ asked' \in Inputs
       /\ phase' = "asked"
       /\ doubt' \in BOOLEAN
       /\ answer' = "none"
       /\ UNCHANGED ruleset

Commit == /\ phase = "asked"
          /\ ~asked.check
          /\ Run(ruleset, asked.cmds).ok
          /\ ruleset' = Run(ruleset, asked.cmds).r
          /\ phase' = "committed"
          /\ UNCHANGED <<asked, doubt, answer>>

\* Without a commit, only a check or an input that changes nothing succeeds.
Succeed == /\ \/ phase = "committed"
              \/ /\ phase = "asked"
                 /\ Run(ruleset, asked.cmds).ok
                 /\ asked.check \/ Run(ruleset, asked.cmds).r = ruleset
              \/ phase = "asked" /\ doubt
           /\ phase' = "idle"
           /\ answer' = "ok"
           /\ asked' = NoInput
           /\ UNCHANGED <<ruleset, doubt>>

\* A failure after the commit would be a wrong answer.
Fail == /\ phase = "asked" \/ (phase = "committed" /\ doubt)
        /\ phase' = "idle"
        /\ answer' = "failed"
        /\ asked' = NoInput
        /\ UNCHANGED <<ruleset, doubt>>

Next == Ask \/ Commit \/ Succeed \/ Fail

Spec == Init /\ [][Next]_vars
=============================================================================
