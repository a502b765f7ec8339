--------------------------- MODULE CacheEvaluate ---------------------------
(***************************************************************************)
(* nft_cache_evaluate(): the loop over the commands of one input that      *)
(* accumulates the flag word and the dump filter handed to                 *)
(* nft_cache_update().  One step is one iteration; there is one action per *)
(* case of the switch.  The flags and the filter are computed for the      *)
(* whole input at once, so a command may disturb what an earlier command   *)
(* asked for: that is what the properties are about.                       *)
(***************************************************************************)
EXTENDS CacheFlags

CONSTANTS
  Command,    \* the commands an input may hold
  MaxCmds,    \* bound: commands in one input
  Overlong,   \* names longer than NFT_NAME_MAXLEN
  Echo,       \* nft_output_echo()
  Terse       \* nft_output_terse()

ASSUME CacheEvaluateAssumption ==
  /\ MaxCmds \in Nat
  /\ Echo \in BOOLEAN
  /\ Terse \in BOOLEAN

VARIABLES
  cmds,       \* the commands evaluated so far, in order
  flags,      \* the flag word
  filter,     \* filter->list
  skip,       \* filter->obj: sets whose elements are not fetched
  status      \* "loop", "done" or "error" (the value returned)

vars == <<cmds, flags, filter, skip, status>>

\* nft_handle_validate(): only the names the object kind has are looked at.
NftHandleValidate(cmd) ==
  CASE cmd.obj = "table" -> cmd.table \notin Overlong
    [] cmd.obj \in {"rule", "rules", "chain", "chains"} ->
         {cmd.table, cmd.chain} \cap Overlong = {}
    [] cmd.obj \in {"elements", "set", "sets", "map", "maps", "meter"} ->
         {cmd.table, cmd.set} \cap Overlong = {}
    [] cmd.obj \in {"flowtable", "flowtables"} ->
         {cmd.table, cmd.ft} \cap Overlong = {}
    [] OTHER -> TRUE

Init ==
  /\ cmds = <<>>
  /\ flags = NFT_CACHE_EMPTY
  /\ filter = NoFilter
  /\ skip = {}
  /\ status = "loop"

\* A command that is not a list command drops the filter of an earlier one,
\* if that filter names a table.
FilterBefore(cmd) ==
  IF filter.table # None /\ cmd.op # "list" THEN NoFilter ELSE filter

\* The part of an iteration that is common to the cases of the switch.
Iterate(cmd) ==
  /\ status = "loop"
  /\ Len(cmds) < MaxCmds
  /\ NftHandleValidate(cmd)
  /\ cmds' = Append(cmds, cmd)
  /\ UNCHANGED status

EvalAdd(cmd) ==
  /\ cmd.op \in {"add", "create", "insert"}
  /\ Iterate(cmd)
  /\ flags' = EvaluateCacheAdd(cmd, flags)
                \cup (IF Echo THEN NFT_CACHE_FULL ELSE {})
  /\ filter' = FilterBefore(cmd)
  /\ UNCHANGED skip

\* Fault: replace asks for the rules only.
EvalReplaceRuleOnly(cmd) ==
  /\ cmd.op = "replace"
  /\ Iterate(cmd)
  /\ flags' = NFT_CACHE_RULE
  /\ filter' = FilterBefore(cmd)
  /\ UNCHANGED skip

\* The accumulated flags are assigned, not or-ed.
EvalReplace(cmd) ==
  /\ cmd.op = "replace"
  /\ Iterate(cmd)
  /\ flags' = NFT_CACHE_FULL
  /\ filter' = FilterBefore(cmd)
  /\ UNCHANGED skip

EvalDelete(cmd) ==
  /\ cmd.op \in {"delete", "destroy"}
  /\ Iterate(cmd)
  /\ flags' = EvaluateCacheDel(cmd, flags \cup NFT_CACHE_TABLE
                \cup NFT_CACHE_CHAIN \cup NFT_CACHE_SET
                \cup NFT_CACHE_FLOWTABLE \cup NFT_CACHE_OBJECT)
  /\ filter' = FilterBefore(cmd)
  /\ UNCHANGED skip

EvalGet(cmd) ==
  /\ cmd.op = "get"
  /\ Iterate(cmd)
  /\ flags' = EvaluateCacheGet(cmd, flags)
  /\ filter' = FilterBefore(cmd)
  /\ UNCHANGED skip

EvalReset(cmd) ==
  /\ cmd.op = "reset"
  /\ Iterate(cmd)
  /\ flags' = flags \cup EvaluateCacheReset(cmd, flags)
  /\ filter' = ResetFilter(cmd, FilterBefore(cmd))
  /\ UNCHANGED skip

\* Fault: a listing does not mark the cache for a refresh.
EvalListNoRefresh(cmd) ==
  /\ cmd.op = "list"
  /\ Iterate(cmd)
  /\ filter' = ListFilter(cmd, FilterBefore(cmd))
  /\ flags' = flags \cup
                (EvaluateCacheList(cmd, flags, filter', Terse) \ {"refresh"})
  /\ UNCHANGED skip

EvalList(cmd) ==
  /\ cmd.op = "list"
  /\ Iterate(cmd)
  /\ filter' = ListFilter(cmd, FilterBefore(cmd))
  /\ flags' = flags \cup EvaluateCacheList(cmd, flags, filter', Terse)
  /\ UNCHANGED skip

EvalMonitor(cmd) ==
  /\ cmd.op = "monitor"
  /\ Iterate(cmd)
  /\ flags' = flags \cup NFT_CACHE_FULL
  /\ filter' = FilterBefore(cmd)
  /\ UNCHANGED skip

EvalTarget(cmd) ==
  /\ cmd.op \in {"appfw", "hostfw"}
  /\ Iterate(cmd)
  /\ flags' = flags \cup (IF cmd.op = "appfw" THEN TABLE_F_APPTGT
                                              ELSE TABLE_F_HOSTTGT)
  /\ filter' = FilterBefore(cmd)
  /\ UNCHANGED skip

EvalFlush(cmd) ==
  /\ cmd.op = "flush"
  /\ Iterate(cmd)
  /\ flags' = EvaluateCacheFlush(cmd, flags)
  /\ filter' = FilterBefore(cmd)
  /\ skip' = IF cmd.obj \in {"set", "map", "meter"}
             THEN skip \cup {<<cmd.family, cmd.table, cmd.set>>} ELSE skip

EvalRename(cmd) ==
  /\ cmd.op = "rename"
  /\ Iterate(cmd)
  /\ flags' = EvaluateCacheRename(cmd, flags)
  /\ filter' = FilterBefore(cmd)
  /\ UNCHANGED skip

EvalOther(cmd) ==
  /\ cmd.op \in {"describe", "import", "export"}
  /\ Iterate(cmd)
  /\ filter' = FilterBefore(cmd)
  /\ UNCHANGED <<flags, skip>>

\* A name that is too long ends the loop with an error.
Reject(cmd) ==
  /\ status = "loop"
  /\ Len(cmds) < MaxCmds
  /\ ~NftHandleValidate(cmd)
  /\ status' = "error"
  /\ UNCHANGED <<cmds, flags, filter, skip>>

\* The end of the list: *pflags = flags.
Return ==
  /\ status = "loop"
  /\ status' = "done"
  /\ UNCHANGED <<cmds, flags, filter, skip>>

Step(cmd) ==
  \/ EvalAdd(cmd)  \/ EvalReplace(cmd) \/ EvalDelete(cmd)  \/ EvalGet(cmd)
  \/ EvalReset(cmd) \/ EvalList(cmd)   \/ EvalMonitor(cmd) \/ EvalTarget(cmd)
  \/ EvalFlush(cmd) \/ EvalRename(cmd) \/ EvalOther(cmd)   \/ Reject(cmd)

Next == (\E cmd \in Command : Step(cmd)) \/ Return

Spec == Init /\ [][Next]_vars
-----------------------------------------------------------------------------
(* Properties. *)

\* The flag word of nft_cache_evaluate() has only bits of the cache, though
\* table flags are ORed into it.
TypeOK ==
  /\ cmds \in Seq(Command)
  /\ flags \subseteq CacheFlag
  /\ DOMAIN filter = DOMAIN NoFilter
  /\ status \in {"loop", "done", "error"}

Evaluated == {cmds[i] : i \in 1..Len(cmds)}

Fetched(k) ==
  IF k = "elems" THEN flags \cap {"setelem", "setelem_maybe"} # {}
                 ELSE k \in flags

\* Whatever the other commands of the input are and wherever it stands among
\* them, the flag word covers every kind of object the evaluation of a
\* command looks up: no command is refused, and none is evaluated against
\* an empty list, because another command of the input took a flag back.
NeedsCovered == \A c \in Evaluated : \A k \in Consults(c, Terse) : Fetched(k)

\* A dump restricted by a filter or by terse mode leaves a cache whose flags
\* claim more than it holds.  Such a request carries REFRESH, so that
\* nft_cache_needs_refresh() discards the cache before its next use; only a
\* replace command, which assigns the flag word, can take REFRESH back.
PartialNeverReused ==
  \/ \E c \in Evaluated : c.op = "replace"
  \/ filter = NoFilter /\ "terse" \notin flags
  \/ "refresh" \in flags

\* An index is translated into a handle only while the cache has UPDATE
\* (rule_evaluate()); without it the rule is appended.  So an input with a
\* located rule must still have UPDATE when the loop ends.
IndexTranslated == \A c \in Evaluated : c.located => "update" \in flags

\* The filter restricts the dumps to what one command names; it must admit
\* what the others look up.
TableAdmitted(c) ==
  /\ filter.family \in {None, c.family}
  /\ filter.table \in {None, c.table}
ChainAdmitted(c) == filter.table = None \/ filter.chain \in {None, c.chain}
SetAdmitted(c)   == filter.set \in {None, c.set}
FtAdmitted(c)    == filter.ft \in {None, c.ft}

\* Every command finds its objects among those the filter lets through.
FilterAdmits ==
  \A c \in Evaluated :
    LET need == Consults(c, Terse) IN
    /\ "table" \in need => TableAdmitted(c)
    /\ "chain" \in need /\ c.op = "list" => ChainAdmitted(c)
    /\ "set" \in need /\ c.op = "list" /\ c.obj # "chain" => SetAdmitted(c)
    /\ "flowtable" \in need /\ c.op = "list" => FtAdmitted(c)

=============================================================================
