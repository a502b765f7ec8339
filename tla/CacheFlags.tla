----------------------------- MODULE CacheFlags -----------------------------
(***************************************************************************)
(* What nft asks of its userspace cache: the flag words of                 *)
(* include/cache.h and the evaluate_cache_*() functions of src/cache.c     *)
(* that turn one command into the part of the ruleset that has to be       *)
(* fetched from the kernel before the command can be evaluated.  A flag    *)
(* word is the set of its bits; a command keeps the fields of struct cmd   *)
(* these functions branch on.                                              *)
(***************************************************************************)
EXTENDS Naturals, Sequences

\* A name that is not given (a NULL pointer in struct handle).
None == "none"

-----------------------------------------------------------------------------
(* enum cache_level_bits and enum cache_level_flags. *)

CacheKinds ==
  {"table", "chain", "set", "flowtable", "object", "setelem", "rule"}

NFT_CACHE_EMPTY     == {}
NFT_CACHE_TABLE     == {"table"}
NFT_CACHE_CHAIN     == {"table", "chain"}
NFT_CACHE_SET       == {"table", "set"}
NFT_CACHE_FLOWTABLE == {"table", "flowtable"}
NFT_CACHE_OBJECT    == {"table", "object"}
NFT_CACHE_SETELEM   == {"table", "set", "setelem"}
NFT_CACHE_RULE      == {"table", "chain", "rule"}
NFT_CACHE_FULL      == CacheKinds

ModifierFlags == {"terse", "setelem_maybe", "refresh", "update", "flushed"}

CacheFlag == CacheKinds \cup ModifierFlags

\* Fault: a bit that no cache flag has.
TABLE_F_APPTGT_Unassigned == {"apptgt"}

\* TABLE_F_APPTGT and TABLE_F_HOSTTGT are bits 3 and 4 of the table flags;
\* in a cache flag word these bits are FLOWTABLE and OBJECT.
TABLE_F_APPTGT  == {"flowtable"}
TABLE_F_HOSTTGT == {"object"}

-----------------------------------------------------------------------------
(* Commands. *)

ObjectKinds == {"counter", "quota", "limit"}

\* A command on nothing in particular; the other commands override fields.
\* block: cmd->table is set; automerge: one of its sets merges intervals;
\* located: the rule carries an index or a position.
NoCmd == [op |-> "describe", obj |-> "expr", family |-> "ip", table |-> None,
          chain |-> None, set |-> None, ft |-> None,
          block |-> FALSE, automerge |-> FALSE, located |-> FALSE]

EvaluateCacheAdd(cmd, flags) ==
  flags \cup
  CASE cmd.obj = "table" ->
         IF ~cmd.block THEN {}
         ELSE NFT_CACHE_TABLE \cup NFT_CACHE_CHAIN \cup NFT_CACHE_SET
                \cup NFT_CACHE_OBJECT \cup NFT_CACHE_FLOWTABLE
                \cup (IF cmd.automerge THEN {"setelem_maybe"} ELSE {})
    [] cmd.obj \in {"chain", "set", "flowtable"} \cup ObjectKinds ->
         NFT_CACHE_TABLE
    [] cmd.obj = "elements" ->
         NFT_CACHE_TABLE \cup NFT_CACHE_CHAIN \cup NFT_CACHE_SET
           \cup NFT_CACHE_OBJECT \cup {"setelem_maybe"}
    [] cmd.obj = "rule" ->
         NFT_CACHE_TABLE \cup NFT_CACHE_CHAIN \cup NFT_CACHE_SET
           \cup NFT_CACHE_OBJECT \cup NFT_CACHE_FLOWTABLE
           \cup (IF cmd.located THEN NFT_CACHE_RULE \cup {"update"} ELSE {})
    [] OTHER -> {}

EvaluateCacheDel(cmd, flags) ==
  flags \cup (IF cmd.obj = "elements" THEN {"setelem_maybe"} ELSE {})

EvaluateCacheGet(cmd, flags) ==
  flags \cup (IF cmd.obj = "elements" THEN NFT_CACHE_SETELEM ELSE {})

EvaluateCacheFlush(cmd, flags) ==
  flags \cup (CASE cmd.obj \in {"set", "map", "meter"} -> NFT_CACHE_SET
                [] cmd.obj = "ruleset"                 -> {"flushed"}
                [] OTHER                               -> {})

EvaluateCacheRename(cmd, flags) ==
  flags \cup (IF cmd.obj = "chain" THEN NFT_CACHE_CHAIN ELSE {})

EvaluateCacheReset(cmd, flags) ==
  flags \cup {"refresh"} \cup
  CASE cmd.obj \in {"rules", "rule"} ->
         NFT_CACHE_SET \cup NFT_CACHE_FLOWTABLE \cup NFT_CACHE_OBJECT
           \cup NFT_CACHE_CHAIN
    [] cmd.obj \in {"elements", "set", "map"} -> NFT_CACHE_SET
    [] OTHER                                  -> NFT_CACHE_TABLE

\* filter is the list filter the command leaves behind (ListFilter below).
EvaluateCacheList(cmd, flags, filter, terse) ==
  flags \cup {"refresh"} \cup (IF terse THEN {"terse"} ELSE {}) \cup
  CASE cmd.obj = "table" /\ cmd.table = None -> NFT_CACHE_TABLE
    [] cmd.obj = "chain" ->
         NFT_CACHE_FULL \cup (IF cmd.chain # None THEN {"terse"} ELSE {})
    [] cmd.obj \in {"set", "map"} /\ filter.table # None /\ filter.set # None ->
         NFT_CACHE_TABLE \cup NFT_CACHE_SET \cup NFT_CACHE_SETELEM
    [] cmd.obj = "chains" -> NFT_CACHE_TABLE \cup NFT_CACHE_CHAIN
    [] cmd.obj \in {"sets", "maps"} ->
         NFT_CACHE_TABLE \cup NFT_CACHE_SET
           \cup (IF terse THEN {} ELSE NFT_CACHE_SETELEM)
    [] cmd.obj \in {"flowtable", "flowtables"} ->
         NFT_CACHE_TABLE \cup NFT_CACHE_FLOWTABLE
    [] OTHER -> NFT_CACHE_FULL

-----------------------------------------------------------------------------
(* filter->list: the names the dumps are restricted to. *)

NoFilter == [family |-> None, table |-> None, chain |-> None,
             set |-> None, ft |-> None]

\* The filter evaluate_cache_list() leaves for a list command.
ListFilter(cmd, filter) ==
  CASE cmd.obj = "table" ->
         [filter EXCEPT !.family = cmd.family,
                        !.table = IF cmd.table = None THEN @ ELSE cmd.table]
    [] cmd.obj = "chain" /\ cmd.chain # None ->
         [filter EXCEPT !.family = cmd.family, !.table = cmd.table,
                        !.chain = cmd.chain]
    [] cmd.obj \in {"set", "map"} /\ cmd.table # None /\ cmd.set # None ->
         [filter EXCEPT !.family = cmd.family, !.table = cmd.table,
                        !.set = cmd.set]
    [] cmd.obj = "flowtable" /\ cmd.table # None /\ cmd.ft # None ->
         [filter EXCEPT !.family = cmd.family, !.table = cmd.table,
                        !.ft = cmd.ft]
    [] OTHER -> filter

\* The filter evaluate_cache_reset() leaves for a reset command.
ResetFilter(cmd, filter) ==
  IF cmd.obj \notin {"rules", "rule"} THEN filter
  ELSE [filter EXCEPT
          !.family = IF cmd.table # None THEN cmd.family ELSE @,
          !.table  = IF cmd.table # None THEN cmd.table ELSE @,
          !.chain  = IF cmd.chain # None THEN cmd.chain ELSE @]

-----------------------------------------------------------------------------
(***************************************************************************)
(* What the evaluation of a command (cmd_evaluate() and the functions it   *)
(* calls) looks up: the tables, chains, ... whose absence from the cache   *)
(* makes it fail, or act on, something the kernel does not have.  "elems"  *)
(* stands for the elements of interval sets.                               *)
(***************************************************************************)
ConsultsAdd(cmd) ==
  CASE cmd.obj = "table" ->
         IF cmd.block THEN {"table", "chain", "set", "object", "flowtable"}
         ELSE {}
    [] cmd.obj \in {"chain", "set", "flowtable"} \cup ObjectKinds -> {"table"}
    [] cmd.obj = "elements" -> {"table", "set", "elems"}
    [] cmd.obj = "rule" ->
         {"table", "chain", "set", "object", "flowtable"}
           \cup (IF cmd.located THEN {"rule"} ELSE {})
    [] OTHER -> {}

ConsultsDelete(cmd) ==
  IF cmd.obj = "elements" THEN {"table", "set", "elems"} ELSE {"table"}

\* A listing also prints what it finds: do_command_list().
ConsultsList(cmd, terse) ==
  CASE cmd.obj = "table" /\ cmd.table = None   -> {"table"}
    [] cmd.obj \in {"set", "map"}              -> NFT_CACHE_SETELEM
    [] cmd.obj \in {"sets", "maps"}            ->
         IF terse THEN NFT_CACHE_SET ELSE NFT_CACHE_SETELEM
    [] cmd.obj = "chain"                       -> {"table", "chain", "rule"}
    [] cmd.obj = "table" /\ cmd.table # None   -> CacheKinds
    [] cmd.obj = "ruleset"                     -> CacheKinds
    [] cmd.obj = "chains"                      -> {"table", "chain"}
    [] cmd.obj \in {"flowtable", "flowtables"} -> {"table", "flowtable"}
    [] cmd.obj \in ObjectKinds                 -> {"table", "object"}
    [] OTHER                                   -> {"table"}

ConsultsReset(cmd) ==
  IF cmd.obj \in {"elements", "set", "map"} THEN {"table", "set"} ELSE {"table"}

ConsultsFlush(cmd) ==
  IF cmd.obj \in {"set", "map", "meter"} THEN {"table", "set"} ELSE {}

Consults(cmd, terse) ==
  CASE cmd.op \in {"add", "create", "insert", "replace"} -> ConsultsAdd(cmd)
    [] cmd.op \in {"delete", "destroy"} -> ConsultsDelete(cmd)
    [] cmd.op = "get"     -> {"table", "set"}
    [] cmd.op = "list"    -> ConsultsList(cmd, terse)
    [] cmd.op = "reset"   -> ConsultsReset(cmd)
    [] cmd.op = "flush"   -> ConsultsFlush(cmd)
    [] cmd.op = "rename"  -> {"table", "chain"}
    [] cmd.op = "monitor" -> {"table", "set"}
    [] OTHER              -> {}

-----------------------------------------------------------------------------
(***************************************************************************)
(* The effects of a command: the kinds its transaction changes in the      *)
(* kernel, and those its evaluation changes in the cache accordingly.      *)
(***************************************************************************)
KernelWrites(cmd) ==
  CASE cmd.op \in {"add", "create", "insert", "replace"} ->
         (CASE cmd.obj = "table" /\ cmd.block ->
                CacheKinds
            [] cmd.obj \in ObjectKinds -> {"object"}
            [] cmd.obj = "elements"    -> {"setelem"}
            [] OTHER                   -> {cmd.obj})
    [] cmd.op \in {"delete", "destroy"} ->
         (CASE cmd.obj = "table"        -> CacheKinds
            [] cmd.obj = "chain"        -> {"chain", "rule"}
            [] cmd.obj = "set"          -> {"set", "setelem"}
            [] cmd.obj = "elements"     -> {"setelem"}
            [] cmd.obj \in ObjectKinds  -> {"object"}
            [] OTHER                    -> {cmd.obj})
    [] cmd.op = "flush" ->
         (CASE cmd.obj = "ruleset"           -> CacheKinds
            [] cmd.obj \in {"table", "chain"} -> {"rule"}
            [] OTHER                         -> {"setelem"})
    [] cmd.op = "rename" -> {"chain"}
    [] OTHER             -> {}

\* named: the object is given by its name; the *_del_cache() functions return
\* early for an object given by its handle.
Named(cmd) == CASE cmd.obj = "chain" -> cmd.chain # None
                [] cmd.obj = "set"   -> cmd.set # None
                [] cmd.obj = "table" -> cmd.table # None
                [] OTHER             -> TRUE

CacheMirrors(cmd) ==
  CASE cmd.op \in {"add", "create", "insert", "replace"} -> KernelWrites(cmd)
    [] cmd.op \in {"delete", "destroy"} ->
         IF cmd.obj = "rule" \/ ~Named(cmd) THEN {} ELSE KernelWrites(cmd)
    [] cmd.op = "flush" ->
         IF cmd.obj \in {"set", "map", "meter"} THEN {"setelem"} ELSE {}
    [] OTHER -> {}

\* Commands that are sent to the kernel as part of a transaction.
InTransaction(cmd) ==
  cmd.op \in {"add", "create", "insert", "replace", "delete", "destroy",
              "flush", "rename"}

\* The flags of an input of one command (CacheEvaluate has the whole loop).
FlagsOf(cmd) ==
  CASE cmd.op \in {"add", "create", "insert"} -> EvaluateCacheAdd(cmd, {})
    [] cmd.op = "replace" -> NFT_CACHE_FULL
    [] cmd.op \in {"delete", "destroy"} ->
         EvaluateCacheDel(cmd, NFT_CACHE_CHAIN \cup NFT_CACHE_SET
           \cup NFT_CACHE_FLOWTABLE \cup NFT_CACHE_OBJECT)
    [] cmd.op = "get"     -> EvaluateCacheGet(cmd, {})
    [] cmd.op = "reset"   -> EvaluateCacheReset(cmd, {})
    [] cmd.op = "list"    ->
         EvaluateCacheList(cmd, {}, ListFilter(cmd, NoFilter), FALSE)
    [] cmd.op = "flush"   -> EvaluateCacheFlush(cmd, {})
    [] cmd.op = "rename"  -> EvaluateCacheRename(cmd, {})
    [] cmd.op = "monitor" -> NFT_CACHE_FULL
    [] OTHER              -> {}
=============================================================================
