-------------------------- MODULE MCCacheEvaluate --------------------------
(***************************************************************************)
(* Inputs of nft_cache_evaluate() for TLC: every command form the switch   *)
(* distinguishes, on two tables in two families.                           *)
(***************************************************************************)
EXTENDS CacheEvaluate

Base == [NoCmd EXCEPT !.table = "t"]

MCOverlong == {"overlong"}

AddCommands ==
  {[Base EXCEPT !.op = o, !.obj = "table", !.block = b, !.automerge = b] :
     o \in {"add", "create"}, b \in BOOLEAN}
  \cup {[Base EXCEPT !.op = "add", !.obj = k] :
          k \in {"chain", "flowtable", "counter"}}
  \cup {[Base EXCEPT !.op = "add", !.obj = k, !.set = "s", !.automerge = a] :
          k \in {"set", "elements"}, a \in BOOLEAN}
  \cup {[Base EXCEPT !.op = o, !.obj = "rule", !.chain = "c", !.located = l] :
          o \in {"add", "insert"}, l \in BOOLEAN}

ListCommands ==
  {[NoCmd EXCEPT !.op = "list", !.obj = "table", !.family = f] :
     f \in {None, "ip"}}
  \cup {[Base EXCEPT !.op = "list", !.obj = "table", !.table = t] :
          t \in {"t", "u"}}
  \cup {[Base EXCEPT !.op = "list", !.obj = "chain", !.chain = "c"],
        [Base EXCEPT !.op = "list", !.obj = "set", !.set = "s"],
        [Base EXCEPT !.op = "list", !.obj = "flowtable", !.ft = "f"],
        [Base EXCEPT !.op = "list", !.obj = "counter"]}
  \cup {[NoCmd EXCEPT !.op = "list", !.obj = k, !.family = None] :
          k \in {"ruleset", "chains", "sets", "flowtables"}}

OtherCommands ==
  {[Base EXCEPT !.op = "replace", !.obj = "rule", !.chain = "c"],
   [Base EXCEPT !.op = "delete", !.obj = "rule", !.chain = "c"],
   [Base EXCEPT !.op = "delete", !.obj = "elements", !.set = "s"],
   [Base EXCEPT !.op = "destroy", !.obj = "table", !.family = "ip6"],
   [Base EXCEPT !.op = "get", !.obj = "elements", !.set = "s"],
   [Base EXCEPT !.op = "reset", !.obj = "rules"],
   [Base EXCEPT !.op = "reset", !.obj = "rules", !.chain = "c"],
   [Base EXCEPT !.op = "reset", !.obj = "set", !.set = "s"],
   [Base EXCEPT !.op = "reset", !.obj = "counter"],
   [Base EXCEPT !.op = "flush", !.obj = "set", !.set = "s"],
   [Base EXCEPT !.op = "flush", !.obj = "table"],
   [NoCmd EXCEPT !.op = "flush", !.obj = "ruleset", !.family = None],
   [Base EXCEPT !.op = "rename", !.obj = "chain", !.chain = "c"],
   [NoCmd EXCEPT !.op = "monitor", !.obj = "monitor"],
   [NoCmd EXCEPT !.op = "describe"],
   [Base EXCEPT !.op = "add", !.obj = "chain", !.chain = "overlong"]}

TargetCommands == {[NoCmd EXCEPT !.op = o, !.obj = "target"] :
                     o \in {"appfw", "hostfw"}}

MCCommand == AddCommands \cup ListCommands \cup OtherCommands \cup TargetCommands

\* The commands of the run that looks for one disagreement.
IndexCommand ==
  {[Base EXCEPT !.op = "add", !.obj = "rule", !.chain = "c", !.located = TRUE],
   [Base EXCEPT !.op = "replace", !.obj = "rule", !.chain = "c"]}

=============================================================================
