---------------------------- MODULE Transaction ----------------------------
(***************************************************************************)
(* From an input to the kernel's ruleset.  nft_run_cmd_from_buffer() first *)
(* expands the blocks of the input into commands, then evaluates all       *)
(* commands against the cache, and only then executes them one after the   *)
(* other, each adding its messages to one batch that the kernel applies as *)
(* a whole or refuses.  The evaluation also changes the cache the way the  *)
(* kernel is going to change the ruleset, since the next input of the      *)
(* context may reuse it.                                                   *)
(*                                                                         *)
(* One context and no other program: NftCache has those.  The ruleset is   *)
(* the set of its named objects; of rules and elements only the object     *)
(* they belong to is kept.  Handles are those of chains, the only ones     *)
(* that nft itself looks up in the cache.                                  *)
(***************************************************************************)
EXTENDS CacheFlags, FiniteSets, SequencesExt

CONSTANTS
  Input,       \* sequences of commands for one context ("nft -i")
  Script,      \* those that are run in a context of their own ("nft -f")
  MaxErrors,   \* nft->parser_max_errors
  MaxHandle    \* bound: chains created in a behaviour

ASSUME TransactionAssumption == MaxErrors \in Nat \ {0} /\ MaxHandle \in Nat

Kinds == {"table", "chain", "set", "flowtable", "counter"}

\* The bit of the cache flag word that stands for a kind.
FlagOf(obj) == IF obj = "counter" THEN "object" ELSE obj

\* A command names an object (name), or a chain by its handle (name = None).
\* body: the chain has rules, the set has elements; block: what a table block
\* declares, as <<[obj, name, body]>>.
Cmd(op, obj, table, name) ==
  [op |-> op, obj |-> obj, table |-> table, name |-> name, handle |-> 0,
   new |-> None, body |-> FALSE, block |-> <<>>]

Name == STRING \cup {None}

Item == [obj : Kinds \ {"table"}, name : Name \ {None}, body : BOOLEAN]

\* The commands the parser makes: a table is named by its name, what is added
\* has a name, and only the addition of a table has a block.
Command ==
  {c \in [op : {"add", "create", "delete", "destroy", "flush", "rename", "list", "get"},
          obj : Kinds \cup {"rule", "elements", "setelems", "ruleset"},
          table : Name, name : Name, handle : Nat, new : Name,
          body : BOOLEAN, block : Seq(Item)] :
     /\ c.obj = "table" => c.name = c.table
     /\ c.op \in {"add", "create"} => c.name # None /\ c.obj # "ruleset"
     /\ c.op \in {"delete", "destroy"} => c.obj \in Kinds \cup {"rule", "elements"}
     /\ c.op = "flush" => c.obj \in {"table", "chain", "set", "ruleset"}
     /\ c.op = "rename" => c.obj = "chain" /\ c.name # None /\ c.new # None
     /\ c.op = "list" => c.obj \in Kinds /\ c.name # None
     /\ c.op = "get" => c.obj = "elements" /\ c.name # None
     /\ c.block # <<>> => c.obj = "table" /\ c.op \in {"add", "create"}}

ASSUME InputsAssumption == Input \cup Script \subseteq Seq(Command)

VARIABLES
  kernel,    \* the ruleset: [obj, table, name, handle]
  last,      \* the last chain handle the kernel assigned
  pc,        \* where nft_run_cmd_from_buffer() is
  script,    \* the context ends with this input
  given,     \* the input
  cmds,      \* the list of commands
  pos,       \* the command a loop over the list is at
  nerrs,     \* nft->state->nerrs
  batch,     \* messages for the kernel
  cache,     \* the cached objects: handle 0 when not fetched
  cflags,    \* cache->flags
  valid,     \* cache->genid is not zero
  outcome    \* how the last input ended

cacheVars == <<cache, cflags, valid>>
vars == <<kernel, last, pc, script, given, cmds, pos, nerrs, batch, cacheVars,
          outcome>>

Present(objs, obj, table, name) ==
  \E e \in objs : e.obj = obj /\ e.table = table /\ e.name = name

HasTable(objs, t) == Present(objs, "table", t, t)

Names(objs) == {[obj |-> e.obj, table |-> e.table, name |-> e.name] : e \in objs}

Init ==
  /\ kernel = {}
  /\ last = 0
  /\ pc = "idle"
  /\ script = FALSE
  /\ given = <<>>
  /\ cmds = <<>>
  /\ pos = 1
  /\ nerrs = 0
  /\ batch = <<>>
  /\ cache = {}
  /\ cflags = NFT_CACHE_EMPTY
  /\ valid = FALSE
  /\ outcome = "none"

-----------------------------------------------------------------------------
(* nf_tables: what the kernel does with a message.                         *)

\* The object a message is about.
Target(objs, m) ==
  {e \in objs : /\ e.obj = m.obj
                /\ e.table = m.table
                /\ IF m.name # None THEN e.name = m.name
                                    ELSE m.handle # 0 /\ e.handle = m.handle}

Created(s, m) ==
  LET h == IF m.obj = "chain" THEN s.last + 1 ELSE 0
  IN [s EXCEPT !.last = IF m.obj = "chain" THEN h ELSE @,
               !.objs = @ \cup {[obj |-> m.obj, table |-> m.table,
                                 name |-> m.name, handle |-> h]}]

Removed(s, m) ==
  [s EXCEPT !.objs = @ \ (IF m.obj = "table" THEN {e \in @ : e.table = m.table}
                                             ELSE Target(@, m))]

Renamed(s, m) ==
  [s EXCEPT !.objs = (@ \ Target(@, m))
                       \cup {[e EXCEPT !.name = m.new] : e \in Target(@, m)}]

\* s: [ok, objs, last].  The first message that fails refuses the batch.
Apply(s, m) ==
  LET found   == Target(s.objs, m) # {}
      refused == [s EXCEPT !.ok = FALSE]
  IN IF ~s.ok THEN s
     ELSE IF m.type = "flush" THEN [s EXCEPT !.objs = {}]
     ELSE IF m.obj # "table" /\ ~HasTable(s.objs, m.table) THEN refused
     ELSE CASE m.type \in {"new", "create"} /\ ~found -> Created(s, m)
            [] m.type \in {"delete", "destroy"} /\ found -> Removed(s, m)
            [] /\ m.type = "rename" /\ found
               /\ ~Present(s.objs, "chain", m.table, m.new) -> Renamed(s, m)
            [] \/ m.type \in {"new", "need"} /\ found
               \/ m.type = "destroy" /\ ~found -> s
            [] OTHER -> refused

Applied(objs, msgs) ==
  FoldLeft(Apply, [ok |-> TRUE, objs |-> objs, last |-> last], msgs)

-----------------------------------------------------------------------------
(* nft_cache_evaluate() and nft_cache_update().                            *)

\* The command in the form CacheFlags has.
ForCache(cmd) ==
  [NoCmd EXCEPT !.op = cmd.op, !.obj = cmd.obj, !.table = cmd.table,
                !.block = (cmd.block # <<>>)]

Flags(in) == UNION {FlagsOf(ForCache(in[i])) : i \in DOMAIN in}

Release ==
  /\ cache' = {}
  /\ cflags' = NFT_CACHE_EMPTY
  /\ valid' = FALSE

\* A new input.  It reuses the cache of the context, whose generation is the
\* kernel's or one behind; or, after "flush ruleset", starts from nothing; or
\* fetches what the flags ask for.
NftCacheUpdate(in, s) ==
  LET flags == Flags(in)
      reuse == /\ valid /\ ~s
               /\ "refresh" \notin cflags \cup flags
               /\ flags \subseteq cflags
      fetched == {e \in kernel : FlagOf(e.obj) \in flags}
  IN /\ valid' = TRUE
     /\ cflags' = IF reuse THEN cflags
                  ELSE IF "flushed" \in flags THEN NFT_CACHE_EMPTY ELSE flags
     /\ cache' = IF reuse THEN cache
                 ELSE IF "flushed" \in flags THEN {} ELSE fetched

Begin(in, s) ==
  /\ pc = "idle"
  /\ given' = in
  /\ cmds' = in
  /\ script' = s
  /\ outcome' = "none"
  /\ NftCacheUpdate(in, s)
  /\ pc' = "expand"
  /\ UNCHANGED <<kernel, last, pos, nerrs, batch>>

-----------------------------------------------------------------------------
(* nft_cmd_expand().                                                       *)

\* A command of the block: rules are added, even those of "create table".
Inner(cmd, obj, name, body) ==
  [Cmd("add", obj, cmd.table, name) EXCEPT !.body = body]

Declared(cmd, obj) ==
  FoldLeft(LAMBDA own, i :
             IF i.obj = obj THEN Append(own, Inner(cmd, obj, i.name, i.body /\ obj = "set")) ELSE own,
           <<>>, cmd.block)

RulesOf(cmd) ==
  FoldLeft(LAMBDA own, i :
             IF i.obj = "chain" /\ i.body THEN Append(own, Inner(cmd, "rule", i.name, FALSE)) ELSE own,
           <<>>, cmd.block)

\* The commands that nft_cmd_expand() puts behind a command.
Expansion(cmd) ==
  IF cmd.op \notin {"add", "create"} THEN <<>>
  ELSE
  CASE cmd.obj = "table" ->
         Declared(cmd, "chain") \o Declared(cmd, "counter")
           \o Declared(cmd, "set") \o Declared(cmd, "flowtable") \o RulesOf(cmd)
    [] cmd.obj = "chain" /\ cmd.body -> <<Inner(cmd, "rule", cmd.name, FALSE)>>
    [] cmd.obj = "set" /\ cmd.body -> <<Inner(cmd, "setelems", cmd.name, FALSE)>>
    [] OTHER -> <<>>

\* The loop also visits the commands it has just inserted.
Expand ==
  /\ pc = "expand"
  /\ IF pos <= Len(cmds)
     THEN /\ cmds' = SubSeq(cmds, 1, pos) \o Expansion(cmds[pos])
                       \o SubSeq(cmds, pos + 1, Len(cmds))
          /\ pos' = pos + 1
          /\ pc' = pc
     ELSE /\ pos' = 1
          /\ pc' = "eval"
          /\ cmds' = cmds
  /\ UNCHANGED <<kernel, last, script, given, nerrs, batch, cacheVars,
                 outcome>>

-----------------------------------------------------------------------------
(* cmd_evaluate().                                                         *)

Entry(cmd) ==
  [obj |-> cmd.obj, table |-> cmd.table, name |-> cmd.name, handle |-> 0]

InCache(cmd, obj) ==
  HasTable(cache, cmd.table) /\ Present(cache, obj, cmd.table, cmd.name)

\* Fault: a new table is not cached.
AddToCacheNoTable(cmd) ==
  cache' = IF cmd.obj = "table" \/ Present(cache, cmd.obj, cmd.table, cmd.name)
           THEN cache ELSE cache \cup {Entry(cmd)}

\* *_cache_add() unless it is there.
AddToCache(cmd) ==
  cache' = IF Present(cache, cmd.obj, cmd.table, cmd.name) THEN cache
           ELSE cache \cup {Entry(cmd)}

\* Faults: only the table itself is taken out; a set stays.
DelFromCacheShallow(cmd) ==
  cache' = {e \in cache : ~(/\ e.obj = cmd.obj
                            /\ e.table = cmd.table
                            /\ e.name = cmd.name)}

DelFromCacheNotSets(cmd) ==
  cache' = {e \in cache : ~(/\ e.obj = cmd.obj /\ e.obj # "set"
                            /\ e.table = cmd.table
                            /\ e.name = cmd.name)}

\* table_del_cache(), chain_del_cache(), ...: nothing without a name.
DelFromCache(cmd) ==
  cache' = cache \ (IF cmd.name = None THEN {}
                    ELSE IF cmd.obj = "table"
                    THEN {e \in cache : e.table = cmd.table}
                    ELSE {e \in cache : /\ e.obj = cmd.obj
                                        /\ e.table = cmd.table
                                        /\ e.name = cmd.name})

\* What the evaluation of a command needs to find.
Found(cmd) ==
  CASE cmd.op \in {"add", "create"} /\ cmd.obj \in Kinds \ {"table"} ->
         HasTable(cache, cmd.table)
    [] cmd.obj = "elements" -> InCache(cmd, "set")
    [] cmd.op = "flush" /\ cmd.obj = "set" -> InCache(cmd, "set")
    [] cmd.op \in {"rename", "list"} /\ cmd.obj \in Kinds -> InCache(cmd, cmd.obj)
    [] OTHER -> TRUE

CmdEvaluateAdd(cmd) ==
  /\ cmd.op \in {"add", "create"}
  /\ IF cmd.obj \in Kinds THEN AddToCache(cmd) ELSE UNCHANGED cache

CmdEvaluateDelete(cmd) ==
  /\ cmd.op \in {"delete", "destroy"}
  /\ IF cmd.obj \in Kinds THEN DelFromCache(cmd) ELSE UNCHANGED cache

CmdEvaluateOther(cmd) ==
  /\ cmd.op \in {"flush", "rename", "list", "get"}
  /\ UNCHANGED cache

Evaluate ==
  /\ pc = "eval"
  /\ pos <= Len(cmds)
  /\ Found(cmds[pos])
  /\ \/ CmdEvaluateAdd(cmds[pos])
     \/ CmdEvaluateDelete(cmds[pos])
     \/ CmdEvaluateOther(cmds[pos])
  /\ pos' = pos + 1
  /\ UNCHANGED <<kernel, last, pc, script, given, cmds, nerrs, batch, cflags,
                 valid, outcome>>

\* table_not_found() and the like; the loop goes on up to MaxErrors errors.
EvaluateError ==
  /\ pc = "eval"
  /\ pos <= Len(cmds)
  /\ ~Found(cmds[pos])
  /\ nerrs' = nerrs + 1
  /\ pos' = IF nerrs' = MaxErrors THEN Len(cmds) + 1 ELSE pos + 1
  /\ UNCHANGED <<kernel, last, pc, script, given, cmds, batch, cacheVars,
                 outcome>>

\* The commands are freed.
Cleared ==
  /\ given' = <<>>
  /\ cmds' = <<>>
  /\ pos' = 1
  /\ nerrs' = 0
  /\ batch' = <<>>

\* The input ends; the cache outlives it only if it succeeded, and only in a
\* context that does too.
Return(how) ==
  /\ pc' = "idle"
  /\ outcome' = how
  /\ IF how = "done" /\ ~script THEN UNCHANGED cacheVars ELSE Release
  /\ script' = FALSE
  /\ Cleared

Evaluated ==
  /\ pc = "eval"
  /\ pos > Len(cmds)
  /\ nerrs = 0
  /\ pc' = "execute"
  /\ pos' = 1
  /\ UNCHANGED <<kernel, last, script, given, cmds, nerrs, batch, cacheVars,
                 outcome>>

Rejected ==
  /\ pc = "eval"
  /\ pos > Len(cmds)
  /\ nerrs > 0
  /\ Return("rejected")
  /\ UNCHANGED <<kernel, last>>

-----------------------------------------------------------------------------
(* do_command() and the mnl_nft_*() functions that build the messages.     *)

Msg(type, obj, cmd) ==
  [type |-> type, obj |-> obj, table |-> cmd.table, name |-> cmd.name,
   handle |-> cmd.handle, new |-> cmd.new]

\* The object whose content a message is about.
Holder(obj) == CASE obj = "rule" -> "chain"
                 [] obj \in {"elements", "setelems"} -> "set"
                 [] OTHER -> obj

DoCommandAdd(cmd) ==
  IF cmd.obj \in Kinds
  THEN Msg(IF cmd.op = "create" THEN "create" ELSE "new", cmd.obj, cmd)
  ELSE Msg("need", Holder(cmd.obj), cmd)

\* Fault: NFT_MSG_DESTROY* for both commands.
DoCommandDeleteDestroys(cmd) ==
  IF cmd.obj \in Kinds THEN Msg("destroy", cmd.obj, cmd)
  ELSE Msg("need", Holder(cmd.obj), cmd)

DoCommandDelete(cmd) ==
  IF cmd.obj \in Kinds THEN Msg(cmd.op, cmd.obj, cmd)
  ELSE Msg("need", Holder(cmd.obj), cmd)

DoCommandFlush(cmd) ==
  IF cmd.obj = "ruleset" THEN Msg("flush", "ruleset", cmd)
  ELSE Msg("need", cmd.obj, cmd)

\* The chain is given by the handle that the cache has now.
DoCommandRename(cmd) ==
  LET chain == CHOOSE e \in cache : /\ e.obj = "chain"
                                    /\ e.table = cmd.table
                                    /\ e.name = cmd.name
  IN [Msg("rename", "chain", cmd) EXCEPT !.name = None, !.handle = chain.handle]

\* do_command_list(): the table of the object that is listed; a set is
\* remembered by the evaluation.
ListsNull(cmd) ==
  cmd.obj \in {"table", "chain", "flowtable"} /\ ~HasTable(cache, cmd.table)

Executing == pc = "execute" /\ pos <= Len(cmds)

Execute ==
  /\ Executing
  /\ LET cmd == cmds[pos] IN
       \/ /\ cmd.op \in {"add", "create"}
          /\ batch' = Append(batch, DoCommandAdd(cmd))
       \/ /\ cmd.op \in {"delete", "destroy"}
          /\ batch' = Append(batch, DoCommandDelete(cmd))
       \/ cmd.op = "flush" /\ batch' = Append(batch, DoCommandFlush(cmd))
       \/ /\ cmd.op = "rename" /\ InCache(cmd, "chain")
          /\ batch' = Append(batch, DoCommandRename(cmd))
       \/ /\ cmd.op = "list" /\ ~ListsNull(cmd)
          /\ UNCHANGED batch
       \/ /\ cmd.op = "get" /\ Present(kernel, "set", cmd.table, cmd.name)
          /\ UNCHANGED batch
  /\ pos' = pos + 1
  /\ UNCHANGED <<kernel, last, pc, script, given, cmds, nerrs, cacheVars,
                 outcome>>

\* do_command_rename() and do_command_list() use what they look up in the
\* cache without checking that it is there.
ExecuteNull ==
  /\ Executing
  /\ \/ cmds[pos].op = "rename" /\ ~InCache(cmds[pos], "chain")
     \/ cmds[pos].op = "list" /\ ListsNull(cmds[pos])
  /\ pc' = "idle"
  /\ outcome' = "crashed"
  /\ script' = FALSE
  /\ Release
  /\ Cleared
  /\ UNCHANGED <<kernel, last>>

\* "get element" asks the kernel, which does not have the batch yet.
ExecuteError ==
  /\ Executing
  /\ cmds[pos].op = "get"
  /\ ~Present(kernel, "set", cmds[pos].table, cmds[pos].name)
  /\ Return("rejected")
  /\ UNCHANGED <<kernel, last>>

Executed == pc = "execute" /\ pos > Len(cmds)

\* mnl_batch_ready(): there is nothing to send.
NothingToSend ==
  /\ Executed
  /\ batch = <<>>
  /\ Return("done")
  /\ UNCHANGED <<kernel, last>>

Commit ==
  /\ Executed
  /\ batch # <<>>
  /\ LET s == Applied(kernel, batch)
     IN /\ s.ok
        /\ s.last <= MaxHandle
        /\ kernel' = s.objs
        /\ last' = s.last
  /\ Return("done")

\* The kernel refuses the batch, for one of its messages or for a reason of
\* its own.
Refused ==
  /\ Executed
  /\ batch # <<>>
  /\ Return("refused")
  /\ UNCHANGED <<kernel, last>>

Next ==
  \/ \E in \in Input : Begin(in, FALSE)
  \/ \E in \in Script : Begin(in, TRUE)
  \/ Expand \/ Evaluate \/ EvaluateError \/ Evaluated \/ Rejected
  \/ Execute \/ ExecuteNull \/ ExecuteError
  \/ NothingToSend \/ Commit \/ Refused

Spec == Init /\ [][Next]_vars
-----------------------------------------------------------------------------
(* What an input means: its commands one after the other, on the ruleset.  *)

\* A command as the user reads it, with objects by name.
OwnMeaning(cmd) ==
  CASE cmd.op \in {"add", "create"} -> DoCommandAdd(cmd)
    [] cmd.op \in {"delete", "destroy"} /\ cmd.obj \in Kinds -> Msg(cmd.op, cmd.obj, cmd)
    [] cmd.op = "rename" -> Msg("rename", "chain", cmd)
    [] cmd.op = "flush" /\ cmd.obj = "ruleset" -> Msg("flush", "ruleset", cmd)
    [] OTHER -> Msg("need", Holder(cmd.obj), cmd)

ItemMeaning(s, cmd, i) ==
  LET inner == Inner(cmd, i.obj, i.name, FALSE)
      made  == Apply(s, Msg("new", i.obj, inner))
  IN IF i.body THEN Apply(made, Msg("need", i.obj, inner)) ELSE made

\* A block is read from top to bottom.
Meaning(s, cmd) ==
  FoldLeft(LAMBDA r, i : ItemMeaning(r, cmd, i), Apply(s, OwnMeaning(cmd)), cmd.block)

InOrder == FoldLeft(Meaning, [ok |-> TRUE, objs |-> kernel, last |-> last], given)

-----------------------------------------------------------------------------
(* Properties. *)

\* Also: what is cached in a table has its table cached, since every lookup
\* of cmd_evaluate() goes through table_cache_find().
TypeOK ==
  /\ \A e \in kernel \cup cache :
       /\ e.obj \in Kinds
       /\ e.handle \in 0..last
       /\ e.obj = "table" => e.name = e.table
  /\ last \in 0..MaxHandle
  /\ pc \in {"idle", "expand", "eval", "execute"}
  /\ script \in BOOLEAN
  /\ pos \in 1..(Len(cmds) + 1)
  /\ nerrs \in 0..MaxErrors
  /\ Len(batch) <= Len(cmds)
  /\ cflags \subseteq CacheFlag
  /\ valid \in BOOLEAN
  /\ outcome \in {"none", "done", "rejected", "refused", "crashed"}
  /\ \A e \in cache : HasTable(cache, e.table)

\* After each input the cache that stays behind agrees, in the kinds its flags
\* promise, with the ruleset the kernel has now: what cmd_evaluate_add() and
\* cmd_evaluate_delete() did to it is what the batch did to the ruleset.
\* nft_cache_is_updated() relies on it when it accepts a generation that is
\* one ahead.
CacheFollowsCommit ==
  pc = "idle" /\ valid =>
    \A k \in Kinds : FlagOf(k) \in cflags =>
      {n \in Names(cache) : n.obj = k} = {n \in Names(kernel) : n.obj = k}

\* An input that is committed turns the ruleset into what its commands, one
\* after the other, turn it into: the expansion of blocks, the handles taken
\* from the cache and the batch neither reorder nor redirect a command, and
\* nothing that should fail succeeds.
CommitsInOrder ==
  [][pc = "execute" /\ outcome' = "done" =>
       InOrder.ok /\ Names(kernel') = Names(InOrder.objs)]_vars

\* Inputs that only add and delete objects, after "flush ruleset" or not.
OnlyChanges(in) ==
  \A i \in DOMAIN in : \/ in[i].op \in {"add", "create", "delete", "destroy"}
                       \/ i = 1 /\ in[i].op = "flush"

Fails == outcome = "none" /\ outcome' \in {"rejected", "crashed"}

\* nft itself turns such an input down only if its commands, one after the
\* other, cannot be carried out: evaluating all of them before executing any
\* loses nothing that an earlier command adds.
RejectsInOrder == [][OnlyChanges(given) /\ Fails => ~InOrder.ok]_vars

\* A command whose effect the evaluation carries out on the cache: no chain
\* changes its name, and what is deleted is found by its name.
Followed(cmd) ==
  /\ cmd.op # "rename"
  /\ cmd.op \in {"delete", "destroy"} /\ cmd.obj \in Kinds => cmd.name # None

\* The inputs after which a cache stays behind have only such commands.
InputsFollowed == \A in \in Input : \A i \in DOMAIN in : Followed(in[i])

\* Nothing is looked up at execution that the cache may have lost or renamed
\* by then: no listing, and no chain renamed twice; or only what is followed,
\* with "flush ruleset" at the start if at all.
Orderly(in) ==
  \/ /\ \A i \in DOMAIN in : in[i].op \notin {"list", "get"}
     /\ \A i, j \in DOMAIN in :
          i < j /\ in[i].op = "rename" /\ in[j].op = "rename" =>
            in[i].table # in[j].table \/ in[i].name # in[j].name
  \/ \A i \in DOMAIN in :
       Followed(in[i]) /\ (in[i].op = "flush" /\ in[i].obj = "ruleset" => i = 1)

InputsOrderly == \A in \in Input \cup Script : Orderly(in)

\* The same of every input, with "list", "get", "rename" and "flush": what
\* doc/libnftables-json.adoc says of commands, "interpreted in order of
\* appearance".
EveryInputInOrder == [][Fails => ~InOrder.ok]_vars

=============================================================================
