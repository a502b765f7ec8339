------------------------------ MODULE RuleIndex ------------------------------
(***************************************************************************)
(* Where a rule lands.  "add rule ... index N" is translated in userspace: *)
(* rule_cache_update() counts N rules down the cached chain and            *)
(* link_rules() makes the new rule refer to the one it finds, by the       *)
(* kernel's handle or, for a rule of the same input, by an ID that the     *)
(* kernel resolves within the transaction.  For this the cached chain has  *)
(* to follow every rule command of the input, and of the earlier inputs    *)
(* when the cache is reused.                                               *)
(*                                                                         *)
(* One chain, one context, and other programs that change the chain.  The  *)
(* cache is fetched in one step: NftCache shows that it holds one          *)
(* generation.  A rule is a number; its handle is the kernel's.            *)
(***************************************************************************)
EXTENDS Naturals, Sequences, SequencesExt

CONSTANTS
  Input,        \* sequences of rule commands for one context ("nft -i")
  Script,       \* those that are run in a context of their own ("nft -f")
  Initial,      \* rules in the chain at the start
  MaxRule,      \* bound: rules in a behaviour
  MaxGen        \* bound: generations in a behaviour

ASSUME RuleIndexAssumption ==
  /\ Initial \in Nat
  /\ MaxRule \in Nat /\ MaxRule >= Initial
  /\ MaxGen \in Nat \ {0}

\* op is add, insert, replace, delete or flush; by is none, index or handle; at
\* is the index (from 0) or the handle (from 1).
Command ==
  {c \in [op : {"add", "insert", "replace", "delete", "flush"},
          by : {"none", "index", "handle"}, at : Nat] :
     /\ c.op \in {"replace", "delete"} => c.by = "handle"
     /\ c.op = "flush" => c.by = "none"
     /\ c.by = "handle" => c.at # 0}

ASSUME InputsAssumption == Input \cup Script \subseteq Seq(Command)

VARIABLES
  kchain,   \* the kernel's chain: [id, handle]
  kgen,     \* its generation
  khandle,  \* the last handle it assigned
  last,     \* the last rule created, by anyone
  pc,       \* "idle", "eval" or "send"
  script,   \* the context ends with this input
  input,    \* the commands not evaluated yet
  batch,    \* the evaluated ones
  rules,    \* chain->rules: [id, handle], handle 0 when not known
  ruleId,   \* rule -> handle.rule_id, 0 until link_rules() sets it
  refId,    \* link_rules(): static ref_id
  cflags,   \* cache->flags: subset of {"base", "rule", "update"}
  cgen,     \* cache->genid
  want      \* the chain the user describes: the rules seen by
            \* nft_cache_update() and the commands applied to them

kernel == <<kchain, kgen, khandle>>
cache  == <<rules, ruleId, refId, cflags, cgen>>
vars   == <<kernel, last, pc, script, input, batch, cache, want>>

\* A rule that has a place.
Located(cmd) == cmd.op \in {"add", "insert"} /\ cmd.by # "none"

\* The flags nft_cache_evaluate() computes for the input: a replace command
\* assigns them, an add or insert command with a location adds UPDATE.
Flags(in) ==
  LET Step(flags, cmd) ==
        CASE cmd.op = "replace" -> {"base", "rule"}
          [] cmd.op = "delete"  -> flags \cup {"base"}
          [] cmd.op = "flush"   -> flags
          [] OTHER              ->
               flags \cup {"base"}
                 \cup (IF Located(cmd) THEN {"rule", "update"} ELSE {})
  IN FoldLeft(Step, {}, in)

Init ==
  /\ kchain = [i \in 1..Initial |-> [id |-> i, handle |-> i]]
  /\ kgen = 1
  /\ khandle = Initial
  /\ last = Initial
  /\ pc = "idle"
  /\ script = FALSE
  /\ input = <<>>
  /\ batch = <<>>
  /\ rules = <<>>
  /\ ruleId = [i \in 1..MaxRule |-> 0]
  /\ refId = 0
  /\ cflags = {}
  /\ cgen = 0
  /\ want = <<>>

Ids(chain) == [i \in DOMAIN chain |-> chain[i].id]

-----------------------------------------------------------------------------
(* nft_cache_update(), in one step. *)

Reusable(flags) == flags \subseteq cflags /\ kgen \in {cgen, cgen + 1}

\* Filled: the rules are fetched only if the flags ask for them.
UpdateCache(in) ==
  /\ pc = "idle"
  /\ input' = in
  /\ script' = (in \in Script)
  /\ IF cgen # 0 /\ Reusable(Flags(in))
     THEN UNCHANGED <<rules, cflags>>
     ELSE /\ rules' = IF "rule" \in Flags(in) THEN kchain ELSE <<>>
          /\ cflags' = Flags(in)
  /\ cgen' = kgen
  /\ want' = kchain
  /\ batch' = <<>>
  /\ pc' = "eval"
  /\ UNCHANGED <<kernel, last, ruleId, refId>>

-----------------------------------------------------------------------------
(* rule_evaluate(): the cached chain follows the command. *)

\* Fault: the first rule has index 1.
RuleLookupByIndexFromOne(n) == IF n <= Len(rules) THEN n ELSE 0

\* rule_lookup_by_index() and rule_lookup(): the position in the cached
\* chain, 0 when there is no such rule.
RuleLookupByIndex(n) == IF n < Len(rules) THEN n + 1 ELSE 0
RuleLookup(h) == SelectInSeq(rules, LAMBDA r : r.handle = h)

RefOf(cmd) == IF cmd.by = "index" THEN RuleLookupByIndex(cmd.at)
              ELSE RuleLookup(cmd.at)

\* Fault: the ID counter is not advanced.
LinkRulesSameId(dst) ==
  IF dst.handle # 0
  THEN [pos |-> dst.handle, posId |-> 0, refId |-> refId, ruleId |-> ruleId]
  ELSE [pos |-> 0, posId |-> 1, refId |-> refId,
        ruleId |-> [ruleId EXCEPT ![dst.id] = 1]]

\* link_rules(): a reference by handle, or by an ID given to dst.
LinkRules(dst) ==
  IF dst.handle # 0
  THEN [pos |-> dst.handle, posId |-> 0, refId |-> refId, ruleId |-> ruleId]
  ELSE IF ruleId[dst.id] # 0
  THEN [pos |-> 0, posId |-> ruleId[dst.id], refId |-> refId, ruleId |-> ruleId]
  ELSE [pos |-> 0, posId |-> refId + 1, refId |-> refId + 1,
        ruleId |-> [ruleId EXCEPT ![dst.id] = refId + 1]]

\* A new rule goes before (insert) or after (add) position ref; ref 0 is no
\* rule in particular.
Place(op, chain, ref, new) ==
  CASE op = "insert" /\ ref = 0 -> <<new>> \o chain
    [] op = "insert" /\ ref # 0 -> InsertAt(chain, ref, new)
    [] op = "add" /\ ref = 0    -> Append(chain, new)
    [] op = "add" /\ ref # 0    -> InsertAt(chain, ref + 1, new)
    [] op = "replace"           -> ReplaceAt(chain, ref, new)

\* What the user means: the position of the rule that cmd refers to.
Meant(cmd, chain) ==
  CASE cmd.by = "none"   -> 0
    [] cmd.by = "index"  -> IF cmd.at < Len(chain) THEN cmd.at + 1 ELSE 0
    [] cmd.by = "handle" -> SelectInSeq(chain, LAMBDA r : r.handle = cmd.at)

\* Fault: an insert command is sent with NLM_F_APPEND.
MsgAlwaysAppend(cmd, id, pos, posId) ==
  [op |-> IF cmd.op = "insert" THEN "add" ELSE cmd.op, id |-> id, pos |-> pos,
   posId |-> posId, by |-> cmd.by,
   asked |-> IF cmd.by = "index" /\ cmd.at < Len(want)
             THEN want[cmd.at + 1].id ELSE 0]

\* The messages carry the fields mnl_nft_rule_add() sends; asked is the rule
\* the user refers to, 0 for none.
Msg(cmd, id, pos, posId) ==
  [op |-> cmd.op, id |-> id, pos |-> pos, posId |-> posId, by |-> cmd.by,
   asked |-> IF cmd.by = "index" /\ cmd.at < Len(want)
             THEN want[cmd.at + 1].id ELSE 0]

NewRule == [id |-> last + 1, handle |-> 0]

\* Each message takes a handle in the kernel, except that a rule that is
\* replaced hands its own on.
Wanted(cmd) ==
  LET m   == Meant(cmd, want)
      new == [id |-> last + 1,
              handle |-> IF cmd.op = "replace" THEN cmd.at
                         ELSE khandle + Len(batch) + 1]
  IN IF cmd.by # "none" /\ m = 0 THEN want ELSE Place(cmd.op, want, m, new)

EvalCommon ==
  /\ pc = "eval"
  /\ input # <<>>
  /\ input' = Tail(input)
  /\ UNCHANGED <<kernel, pc, script, cflags, cgen>>

Creates(cmd) ==
  /\ cmd.op \in {"add", "insert", "replace"}
  /\ last < MaxRule
  /\ last' = last + 1
  /\ want' = Wanted(cmd)

\* With UPDATE, a rule that names another one.
EvalReferring ==
  /\ EvalCommon
  /\ "update" \in cflags
  /\ LET cmd == Head(input)
         ref == RefOf(cmd)
     IN /\ Creates(cmd)
        /\ cmd.by # "none"
        /\ ref # 0
        /\ LET link == IF cmd.by = "index" THEN LinkRules(rules[ref])
                       ELSE [pos |-> cmd.at, posId |-> 0, refId |-> refId,
                             ruleId |-> ruleId]
               new  == IF cmd.op = "replace" THEN [NewRule EXCEPT !.handle = cmd.at]
                       ELSE NewRule
           IN /\ batch' = Append(batch, Msg(cmd, last + 1, link.pos, link.posId))
              /\ ruleId' = link.ruleId
              /\ refId' = link.refId
              /\ rules' = Place(cmd.op, rules, ref, new)

\* With UPDATE, a rule at the end or the beginning of the chain.
EvalPlain ==
  /\ EvalCommon
  /\ "update" \in cflags
  /\ LET cmd == Head(input) IN
       /\ Creates(cmd)
       /\ cmd.by = "none"
       /\ batch' = Append(batch, Msg(cmd, last + 1, 0, 0))
       /\ rules' = Place(cmd.op, rules, 0, NewRule)
  /\ UNCHANGED <<ruleId, refId>>

\* Without it the cached chain is left alone and an index is not looked at.
EvalUntracked ==
  /\ EvalCommon
  /\ "update" \notin cflags
  /\ LET cmd == Head(input) IN
       /\ Creates(cmd)
       /\ LET pos == IF cmd.by = "handle" THEN cmd.at ELSE 0
          IN batch' = Append(batch, Msg(cmd, last + 1, pos, 0))
  /\ UNCHANGED <<rules, ruleId, refId>>

\* "delete rule" and "flush chain" only send a message.
EvalDelete ==
  /\ EvalCommon
  /\ LET cmd == Head(input) IN
       /\ cmd.op = "delete"
       /\ batch' = Append(batch, Msg(cmd, 0, cmd.at, 0))
       /\ want' = LET m == Meant(cmd, want)
                  IN IF m = 0 THEN want ELSE RemoveAt(want, m)
  /\ UNCHANGED <<last, rules, ruleId, refId>>

EvalFlush ==
  /\ EvalCommon
  /\ LET cmd == Head(input) IN
       /\ cmd.op = "flush"
       /\ batch' = Append(batch, Msg(cmd, 0, 0, 0))
  /\ want' = <<>>
  /\ UNCHANGED <<last, rules, ruleId, refId>>

\* nft_cache_release(), in nft_ctx_free() too.
Release ==
  /\ rules' = <<>>
  /\ cflags' = {}
  /\ cgen' = 0

EndOfInput ==
  /\ pc' = "idle"
  /\ script' = FALSE
  /\ input' = <<>>
  /\ batch' = <<>>
  /\ want' = <<>>

Fail == Release /\ EndOfInput

\* The index or handle names no cached rule, which is the only way out for
\* such a command, or the rule itself is in error.
EvalError ==
  /\ pc = "eval"
  /\ input # <<>>
  /\ Fail
  /\ UNCHANGED <<kernel, last, ruleId, refId>>

EvalDone ==
  /\ pc = "eval"
  /\ input = <<>>
  /\ pc' = "send"
  /\ UNCHANGED <<kernel, last, script, input, batch, cache, want>>

-----------------------------------------------------------------------------
(***************************************************************************)
(* The kernel's side: nf_tables_newrule() and nf_tables_delrule().  A      *)
(* handle names a rule of the chain, an ID one created earlier in the same *)
(* transaction; a rule that does not exist fails the transaction.  ids are *)
(* the IDs that the messages carry.                                        *)
(***************************************************************************)
Resolve(ids, chain, sent, m) ==
  CASE m.pos # 0   -> SelectInSeq(chain, LAMBDA r : r.handle = m.pos)
    [] m.pos = 0 /\ m.posId # 0 ->
         SelectInSeq(chain, LAMBDA r : \E k \in DOMAIN sent : /\ sent[k].id = r.id
                                                             /\ ids[sent[k].id] = m.posId)
    [] m.pos = 0 /\ m.posId = 0 -> 0

\* One message on the state s = [ok, chain, handle, sent, at]; at is the rule
\* each message was placed by.
Apply(ids, s, m) ==
  LET ref == Resolve(ids, s.chain, s.sent, m)
      found == ref # 0 \/ (m.pos = 0 /\ m.posId = 0)
      new == [id |-> m.id, handle |-> IF m.op = "replace" THEN m.pos ELSE s.handle + 1]
      next == CASE m.op = "delete" -> RemoveAt(s.chain, ref)
                [] m.op = "flush"  -> <<>>
                [] OTHER           -> Place(m.op, s.chain, ref, new)
  IN IF ~s.ok \/ ~found THEN [s EXCEPT !.ok = FALSE]
     ELSE [ok |-> TRUE, chain |-> next, handle |-> s.handle + 1,
           sent |-> Append(s.sent, m),
           at |-> Append(s.at, IF ref = 0 THEN 0 ELSE s.chain[ref].id)]

Transaction ==
  FoldLeft(LAMBDA s, m : Apply(ruleId, s, m),
           [ok |-> TRUE, chain |-> kchain, handle |-> khandle, sent |-> <<>>, at |-> <<>>],
           batch)

NextGen == kgen < MaxGen /\ kgen' = kgen + 1

Commit ==
  /\ pc = "send"
  /\ Transaction.ok
  /\ kchain' = Transaction.chain
  /\ khandle' = Transaction.handle
  /\ NextGen
  /\ EndOfInput
  /\ IF script THEN Release ELSE UNCHANGED <<rules, cflags, cgen>>
  /\ UNCHANGED <<last, ruleId, refId>>

\* The kernel refuses the transaction, for this or another reason, or the
\* context is one that only checks.
Refused ==
  /\ pc = "send"
  /\ Fail
  /\ UNCHANGED <<kernel, last, ruleId, refId>>

\* Another program inserts a rule or deletes one.
ForeignInsert ==
  /\ last < MaxRule
  /\ last' = last + 1
  /\ kchain' = <<[id |-> last + 1, handle |-> khandle + 1]>> \o kchain
  /\ khandle' = khandle + 1
  /\ NextGen
  /\ UNCHANGED <<pc, script, input, batch, cache, want>>

ForeignDelete ==
  /\ \E i \in DOMAIN kchain : kchain' = RemoveAt(kchain, i)
  /\ NextGen
  /\ UNCHANGED <<khandle, last, pc, script, input, batch, cache, want>>

\* The context ends between two inputs and another one begins.
NewContext ==
  /\ pc = "idle"
  /\ cgen # 0
  /\ Release
  /\ UNCHANGED <<kernel, last, pc, script, input, batch, ruleId, refId, want>>

\* The inputs whose rules the cached chain follows.  An index needs UPDATE,
\* which a replace command after it takes away; a deleted rule stays in the
\* cached chain, so no index may come after it in the same context.
HasCut(cmds)   == \E k \in 1..Len(cmds) : cmds[k].op \in {"delete", "flush"}
HasIndex(cmds) == \E k \in 1..Len(cmds) : cmds[k].by = "index"

InputsFollowed ==
  /\ \A in \in Input : ~HasCut(in)
  /\ \A in \in Input \cup Script :
       /\ HasIndex(in) => "update" \in Flags(in)
       /\ \A i, j \in 1..Len(in) :
            i < j /\ in[i].op \in {"delete", "flush"} => in[j].by # "index"

Next ==
  \/ \E in \in Input : UpdateCache(in)
  \/ \E in \in Script : cgen = 0 /\ UpdateCache(in)
  \/ NewContext
  \/ EvalReferring \/ EvalPlain \/ EvalUntracked \/ EvalDelete \/ EvalFlush
  \/ EvalError \/ EvalDone
  \/ Commit \/ Refused
  \/ ForeignInsert \/ ForeignDelete

Spec == Init /\ [][Next]_vars
-----------------------------------------------------------------------------
(* Properties. *)

Rule == [id : 1..MaxRule, handle : Nat]

\* Also: a rule has an ID only up to the counter of link_rules(), and the
\* cache is never ahead of the kernel.
TypeOK ==
  /\ kchain \in Seq(Rule)
  /\ rules \in Seq(Rule)
  /\ pc \in {"idle", "eval", "send"}
  /\ ruleId \in [1..MaxRule -> 0..refId]
  /\ cflags \subseteq {"base", "rule", "update"}
  /\ cgen <= kgen /\ kgen <= MaxGen

\* A rule with an index is placed next to the rule that had this index when
\* the cache was checked, counting the earlier commands of the input: not
\* next to another one that moved there, and not at an end of the chain.
\* Whatever else happened to the chain, the alternative is a refusal.
IndexMeansThatRule ==
  pc = "send" /\ Transaction.ok =>
    \A k \in DOMAIN batch :
      batch[k].by = "index" => Transaction.at[k] = batch[k].asked

\* If nobody else changed the chain since the cache was checked, it becomes
\* the chain the commands describe.
ChainAsDescribed ==
  pc = "send" /\ Transaction.ok /\ kgen = cgen => Ids(Transaction.chain) = Ids(want)

\* An index that names a rule of an unchanged chain is accepted: the
\* kernel does not refuse the transaction.
IndexAccepted ==
  pc = "send" /\ kgen = cgen
    /\ (\A k \in DOMAIN batch : batch[k].by = "index" /\ batch[k].asked # 0)
  => Transaction.ok
=============================================================================
