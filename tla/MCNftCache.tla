----------------------------- MODULE MCNftCache -----------------------------
(***************************************************************************)
(* Instances of NftCache: inputs of one command, their flags and effects   *)
(* computed by the operators of CacheFlags.                                *)
(***************************************************************************)
EXTENDS NftCache

ItemsOf(kinds) == {i \in Item : KindOf(i) \in kinds}

BatchOf(cmd) ==
  [flags |-> FlagsOf(cmd), commits |-> InTransaction(cmd),
   writes |-> ItemsOf(KernelWrites(cmd)), mirrors |-> ItemsOf(CacheMirrors(cmd))]

Base == [NoCmd EXCEPT !.table = "t"]

ListRuleset == BatchOf([NoCmd EXCEPT !.op = "list", !.obj = "ruleset"])
AddTable == BatchOf([Base EXCEPT !.op = "add", !.obj = "table"])
AddChain == BatchOf([Base EXCEPT !.op = "add", !.obj = "chain", !.chain = "c"])
AddRule == BatchOf([Base EXCEPT !.op = "add", !.obj = "rule", !.chain = "c"])
AddRuleIndex == BatchOf([Base EXCEPT !.op = "add", !.obj = "rule",
                                     !.chain = "c", !.located = TRUE])
AddElements ==
  BatchOf([Base EXCEPT !.op = "add", !.obj = "elements", !.set = "s"])
DeleteChain ==
  BatchOf([Base EXCEPT !.op = "delete", !.obj = "chain", !.chain = "c"])
FlushRuleset == BatchOf([NoCmd EXCEPT !.op = "flush", !.obj = "ruleset"])
ReplaceRule ==
  BatchOf([Base EXCEPT !.op = "replace", !.obj = "rule", !.chain = "c"])

\* Inputs whose evaluation leaves the cache as their transaction leaves the
\* kernel, or whose cache is refreshed anyway.
FaithfulBatch ==
  {ListRuleset, AddTable, AddChain, AddRule, AddRuleIndex, ReplaceRule,
   AddElements, DeleteChain, FlushRuleset}

MCExtWrites == {ItemsOf({"rule"}), ItemsOf({"setelem"}), Item}
NoExtWrites == {}
=============================================================================
