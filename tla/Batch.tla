------------------------------- MODULE Batch -------------------------------
(***************************************************************************)
(* The commands of an input on their way to the kernel and its answers on  *)
(* their way back.  Additions to one set are collapsed into one command    *)
(* for the evaluation and put apart again; each command is executed into   *)
(* messages with the sequence number of the command, a long list of        *)
(* elements into several; the kernel takes the batch as a whole.  It       *)
(* answers only to messages that it refuses, with the sequence number and  *)
(* the offset of the attribute it did not like, from which nft finds the   *)
(* place in the input to complain about.                                   *)
(*                                                                         *)
(* Evaluation itself is in Transaction and in RulePipeline.  Here it fails *)
(* only if the cache is missing the set.  Lengths are in units of a short  *)
(* attribute; the constants scale down the 16 bits of an attribute length. *)
(***************************************************************************)
EXTENDS Naturals, Sequences, SequencesExt

CONSTANTS
  Inputs,      \* [cmds, check]; a command is [op, set, elems]
  Size,        \* the length of an element's attribute
  NestMax,     \* UINT16_MAX, the longest list of elements in a message
  OffsetMod,   \* 2^16, the offsets that cmd_add_loc() can tell apart
  MaxInputs    \* bound: inputs in a behaviour

ASSUME BatchAssumption ==
  /\ NestMax \in Nat /\ OffsetMod \in Nat \ {0} /\ MaxInputs \in Nat
  /\ \A e \in DOMAIN Size : Size[e] \in Nat \ {0} /\ Size[e] + 1 <= NestMax

\* The elements of a set, tables, the whole ruleset, or nothing in the kernel.
Command ==
  {c \in [op : {"add", "create", "delete", "destroy", "flush", "list"}, set : STRING, elems : Seq(DOMAIN Size)] :
     /\ c.op = "flush" => c.set = "tables"
     /\ c.op = "list" <=> c.set = "none"}

\* A command is about one table, a listing about nothing that is sent.
ASSUME InputsAssumption ==
  /\ Inputs \subseteq [cmds : Seq(Command), check : BOOLEAN]
  /\ \A in \in Inputs :
       \A k \in DOMAIN in.cmds :
         /\ in.cmds[k].set = "tables" => Len(in.cmds[k].elems) <= 1
         /\ in.cmds[k].set = "none" => in.cmds[k].elems = <<>>

HdrLen == 1            \* netlink header and nfgenmsg: a message without attributes
NestOff == HdrLen + 1  \* after the attributes with the names of table and set
BatchSeq == 0          \* the sequence number of the batch header

VARIABLES
  kernel,    \* the ruleset: <<set, element>>
  queue,     \* messages that wait in the netlink socket
  overrun,   \* the socket lost one: the next read fails with ENOBUFS
  pc,        \* where nft_run_cmd_from_buffer() is
  input,     \* the input
  cmds,      \* the list of commands
  batch,     \* messages for the kernel
  errlist,   \* err_list of nft_netlink()
  records,   \* the errors shown: [cmd, loc]
  answer,    \* the exit status of the last input
  turn,      \* inputs so far
  refused,   \* history: what the kernel refused of this batch
  doubt      \* history: the input began with answers to an earlier one

vars == <<kernel, queue, overrun, pc, input, cmds, batch, errlist, records, answer, turn, refused, doubt>>

\* Between two inputs.
NoInput == [cmds |-> <<>>, check |-> FALSE]

Init ==
  /\ kernel = {} /\ queue = <<>> /\ overrun = FALSE
  /\ pc = "idle" /\ input = NoInput
  /\ cmds = <<>> /\ batch = <<>> /\ errlist = <<>> /\ records = <<>>
  /\ answer = "none" /\ turn = 0
  /\ refused = <<>> /\ doubt = FALSE

(***************************************************************************)
(* Collapsing.  A command in the list: its place in the input (id), and    *)
(* its elements with the command they were moved from, 0 for none.         *)
(***************************************************************************)
Listed(given) ==
  [k \in DOMAIN given |->
    [id |-> k, op |-> given[k].op, set |-> given[k].set, collapse |-> <<>>, attr |-> <<>>,
     expr |-> [i \in DOMAIN given[k].elems |-> [e |-> given[k].elems[i], cmd |-> 0]]]]

IsElements(c) == c.set \notin {"tables", "none"}

\* The elements of d, marked with where they come from.
Marked(d) == [i \in DOMAIN d.expr |-> [d.expr[i] EXCEPT !.cmd = d.id]]

\* Moving the elements of d to c.
Merge(c, d) ==
  [c EXCEPT !.expr = @ \o Marked(d), !.collapse = Append(@, [d EXCEPT !.expr = <<>>])]

\* Fault: a command on something else does not end the collapsing.
CollapseOneAcross(acc, c) ==
  LET k == acc.elems
  IN IF c.op \notin {"add", "create"} \/ ~IsElements(c)
     THEN [list |-> Append(acc.list, c), elems |-> k]
     ELSE IF k # 0 /\ acc.list[k].op = c.op /\ acc.list[k].set = c.set
     THEN [acc EXCEPT !.list[k] = Merge(@, c)]
     ELSE [list |-> Append(acc.list, c), elems |-> Len(acc.list) + 1]

\* What one command becomes: elems is the command that the next additions are
\* moved to, 0 if they are not.
CollapseOne(acc, c) ==
  LET k == acc.elems
  IN IF c.op \notin {"add", "create"} \/ ~IsElements(c)
     THEN [list |-> Append(acc.list, c), elems |-> 0]
     ELSE IF k # 0 /\ acc.list[k].op = c.op /\ acc.list[k].set = c.set
     THEN [acc EXCEPT !.list[k] = Merge(@, c)]
     ELSE [list |-> Append(acc.list, c), elems |-> Len(acc.list) + 1]

nft_cmd_collapse(list) == FoldLeft(CollapseOne, [list |-> <<>>, elems |-> 0], list).list

\* The elements that were moved from command id, as its own again.
Returned(expr, id) ==
  FoldLeft(LAMBDA own, x : IF x.cmd = id THEN Append(own, [x EXCEPT !.cmd = 0]) ELSE own, <<>>, expr)

\* Each collapsed command is inserted right after the command it was part of:
\* the last one comes first.
nft_cmd_uncollapse(list) ==
  FlattenSeq([k \in DOMAIN list |->
    <<[list[k] EXCEPT !.expr = Returned(@, 0), !.collapse = <<>>]>>
      \o Reverse([j \in DOMAIN list[k].collapse |->
           [list[k].collapse[j] EXCEPT !.expr = Returned(list[k].expr, list[k].collapse[j].id)]])])

(***************************************************************************)
(* Messages.  elems: what the message is about, each with the offset of    *)
(* its attribute.                                                          *)
(***************************************************************************)
Msg(seq, c, elems, len) == [seq |-> seq, op |-> c.op, set |-> c.set, elems |-> elems, len |-> len]

Loc(off, loc) == [off |-> off % OffsetMod, loc |-> loc]

\* Fault: the place is noted after the attribute was written.
cmd_add_locAfter(acc, e) == [acc EXCEPT !.attr = Append(@, Loc(acc.len + Size[e], e))]

\* acc: the messages of the command, the length of the last one so far, and
\* the places in the input that attributes come from.
cmd_add_loc(acc, e) == [acc EXCEPT !.attr = Append(@, Loc(acc.len, e))]

NewMsg(acc) == [acc EXCEPT !.msgs = Append(@, <<>>), !.len = NestOff + 1]

\* One element into the last message.
Into(acc, e) ==
  [acc EXCEPT !.msgs[Len(acc.msgs)] = Append(@, [e |-> e, off |-> acc.len]), !.len = @ + Size[e]]

mnl_nft_attr_nest_overflow(acc, e) == acc.len + Size[e] - NestOff > NestMax

\* Fault: what did not fit is not put into the next message.
PutElemDrops(acc, e) ==
  LET noted == cmd_add_loc(acc, e)
  IN IF mnl_nft_attr_nest_overflow(acc, e) THEN NewMsg(noted) ELSE Into(noted, e)

\* An element that did not fit is put into a new message, and noted again.
PutElem(acc, e) ==
  LET noted == cmd_add_loc(acc, e)
  IN IF mnl_nft_attr_nest_overflow(acc, e)
     THEN Into(cmd_add_loc(NewMsg(noted), e), e) ELSE Into(noted, e)

MsgLen(elems) == FoldLeft(LAMBDA n, x : n + Size[x.e], NestOff + 1, elems)

\* No message for an empty list.
mnl_nft_setelem_batch(c, seq) ==
  LET all == FoldLeft(LAMBDA acc, x : PutElem(acc, x.e),
                      NewMsg([msgs |-> <<>>, len |-> 0, attr |-> <<>>]), c.expr)
  IN IF c.expr = <<>> THEN [msgs |-> <<>>, attr |-> <<>>]
     ELSE [msgs |-> [k \in DOMAIN all.msgs |-> Msg(seq, c, all.msgs[k], MsgLen(all.msgs[k]))],
           attr |-> all.attr]

\* Tables are named by an attribute; the message that flushes them has none.
mnl_nft_table(c, seq) ==
  [msgs |-> <<Msg(seq, c, [k \in DOMAIN c.expr |-> [e |-> c.expr[k].e, off |-> HdrLen]], HdrLen + Len(c.expr))>>,
   attr |-> [k \in DOMAIN c.expr |-> Loc(HdrLen, c.expr[k].e)]]

do_command(c, seq) ==
  CASE IsElements(c) -> mnl_nft_setelem_batch(c, seq)
    [] c.set = "tables" -> mnl_nft_table(c, seq)
    [] c.set = "none" -> [msgs |-> <<>>, attr |-> <<>>]

Header(name, seq) == [seq |-> seq, op |-> name, set |-> "none", elems |-> <<>>, len |-> HdrLen]

\* The batch of nft_netlink(); in check mode it has no end.
Built(list, check) ==
  <<Header("begin", BatchSeq)>> \o FlattenSeq([k \in DOMAIN list |-> do_command(list[k], k).msgs])
    \o IF check THEN <<>> ELSE <<Header("end", Len(list) + 1)>>

mnl_batch_ready(b) == FoldLeft(LAMBDA n, m : n + m.len, 0, b) # 2 * HdrLen

(***************************************************************************)
(* The kernel.  A message is refused at the first element it does not      *)
(* like; the others of the batch are tried all the same, and an error      *)
(* anywhere undoes everything.                                             *)
(***************************************************************************)
Dislikes(op, r, x) == (op = "create" /\ x \in r) \/ (op = "delete" /\ x \notin r)

Applied(op, r, x) == IF op \in {"add", "create"} THEN r \cup {x} ELSE r \ {x}

TryElem(acc, m, x) ==
  CASE acc.bad # <<>> -> acc
    [] acc.bad = <<>> /\ Dislikes(m.op, acc.r, <<m.set, x.e>>) -> [acc EXCEPT !.bad = <<x>>]
    [] OTHER -> [acc EXCEPT !.r = Applied(m.op, @, <<m.set, x.e>>)]

TryMsg(acc, m) ==
  LET t == FoldLeft(LAMBDA a, x : TryElem(a, m, x), [r |-> acc.r, bad |-> <<>>], m.elems)
  IN [r |-> IF m.op = "flush" THEN {x \in acc.r : x[1] # "tables"} ELSE t.r,
      errs |-> acc.errs \o [k \in DOMAIN t.bad |->
                 [seq |-> m.seq, off |-> t.bad[k].off, elem |-> t.bad[k].e, turn |-> turn]]]

TryBatch(b) == FoldLeft(TryMsg, [r |-> kernel, errs |-> <<>>], b)

\* Errors about the batch as a whole: no permission, or the commit fails.
BatchError == [seq |-> BatchSeq, off |-> 0, elem |-> "none", turn |-> turn]

HasEnd(b) == b[Len(b)].op = "end"

(***************************************************************************)
(* Running an input.                                                       *)
(***************************************************************************)
\* Fault: err_list keeps what was not found.
FinishKeepsErrors(status) ==
  /\ pc' = "idle"
  /\ answer' = status
  /\ input' = NoInput /\ cmds' = <<>> /\ batch' = <<>> /\ UNCHANGED errlist
  /\ records' = <<>> /\ refused' = <<>>

\* The answer is given, and what belongs to the input is freed.
Finish(status) ==
  /\ pc' = "idle"
  /\ answer' = status
  /\ input' = NoInput /\ cmds' = <<>> /\ batch' = <<>> /\ errlist' = <<>>
  /\ records' = <<>> /\ refused' = <<>>

Begin ==
  /\ pc = "idle" /\ turn < MaxInputs
  /\ input' \in Inputs
  /\ turn' = turn + 1
  /\ pc' = "cache"
  /\ cmds' = Listed(input'.cmds)
  /\ answer' = "none"
  /\ doubt' = (queue # <<>>)
  /\ UNCHANGED <<kernel, queue, overrun, batch, errlist, records, refused>>

Flushes == \E k \in DOMAIN cmds : cmds[k].op = "flush"

OnElements == \E k \in DOMAIN cmds : IsElements(cmds[k])

NeedsDump == (OnElements \/ \E k \in DOMAIN cmds : cmds[k].op = "list") /\ ~Flushes

\* nft_cache_update() asks for the generation, which does not have to be
\* answered, and then for the ruleset unless the cache seems complete.  A
\* socket that has been full takes no reply until it is empty, so that what is
\* read instead is an answer to an earlier batch.
UpdateCache ==
  /\ pc = "cache"
  /\ pc' = "evaluate"
  /\ queue' = IF queue = <<>> THEN <<>> ELSE Tail(queue)
  /\ UNCHANGED <<kernel, overrun, input, cmds, batch, errlist, records, answer, turn, refused, doubt>>

UpdateCacheFails ==
  /\ pc = "cache"
  /\ Len(queue) > 1 /\ NeedsDump
  /\ Finish("failed")
  /\ queue' = Tail(Tail(queue))
  /\ UNCHANGED <<kernel, overrun, turn, doubt>>

\* After "flush ruleset" the cache is left empty, so that no set is found.
Evaluate ==
  /\ pc = "evaluate"
  /\ ~(Flushes /\ OnElements)
  /\ pc' = "execute"
  /\ cmds' = nft_cmd_uncollapse(nft_cmd_collapse(cmds))
  /\ UNCHANGED <<kernel, queue, overrun, input, batch, errlist, records, answer, turn, refused, doubt>>

EvaluateFails ==
  /\ pc = "evaluate"
  /\ Flushes /\ OnElements
  /\ Finish("failed")
  /\ UNCHANGED <<kernel, queue, overrun, turn, doubt>>

\* The commands of nft_netlink() into the batch.
Execute ==
  /\ pc = "execute"
  /\ cmds # <<>>
  /\ cmds' = [k \in DOMAIN cmds |-> [cmds[k] EXCEPT !.attr = do_command(cmds[k], k).attr]]
  /\ batch' = Built(cmds, input.check)
  /\ pc' = "send"
  /\ UNCHANGED <<kernel, queue, overrun, input, errlist, records, answer, turn, refused, doubt>>

\* A listing of something that is not there ends it all.
ExecuteFails ==
  /\ pc = "execute"
  /\ \E k \in DOMAIN cmds : cmds[k].op = "list"
  /\ Finish("failed")
  /\ UNCHANGED <<kernel, queue, overrun, turn, doubt>>

NothingToDo ==
  /\ \/ pc = "execute" /\ cmds = <<>>
     \/ pc = "send" /\ ~mnl_batch_ready(batch)
  /\ Finish("ok")
  /\ UNCHANGED <<kernel, queue, overrun, turn, doubt>>

\* The socket takes the answers, or the first of them, or none because it has
\* been full before.
Answered(acks) ==
  \/ queue = <<>> /\ queue' = acks /\ UNCHANGED overrun
  \/ /\ queue = <<>>
     /\ \E n \in 1 .. Len(acks) - 1 : queue' = SubSeq(acks, 1, n)
     /\ overrun' = TRUE
  \/ queue # <<>> /\ UNCHANGED <<queue, overrun>>

\* The first half of mnl_batch_talk(): the kernel handles the batch before
\* sendmsg() returns.
Send ==
  /\ pc = "send"
  /\ mnl_batch_ready(batch)
  /\ pc' = "receive"
  /\ UNCHANGED <<input, cmds, batch, errlist, records, answer, turn, doubt>>

Sent(acks) == Answered(acks) /\ refused' = acks

SendAccepted ==
  /\ Send
  /\ TryBatch(batch).errs = <<>>
  /\ kernel' = IF HasEnd(batch) THEN TryBatch(batch).r ELSE kernel
  /\ UNCHANGED <<queue, overrun, refused>>

SendRefused ==
  /\ Send
  /\ TryBatch(batch).errs # <<>>
  /\ Sent(TryBatch(batch).errs)
  /\ UNCHANGED kernel

SendRefusedWhole ==
  /\ Send
  /\ Sent(<<BatchError>>)
  /\ UNCHANGED kernel

\* sendmsg() fails, with EMSGSIZE for one.
SendFails ==
  /\ pc = "send"
  /\ mnl_batch_ready(batch)
  /\ Finish("failed")
  /\ UNCHANGED <<kernel, queue, overrun, turn, doubt>>

\* The second half: answers are read until there are none, whatever their
\* sequence number.
Receive ==
  /\ pc = "receive"
  /\ ~overrun /\ queue # <<>>
  /\ queue' = Tail(queue)
  /\ errlist' = Append(errlist, Head(queue))
  /\ UNCHANGED <<kernel, overrun, pc, input, cmds, batch, records, answer, turn, refused, doubt>>

\* ENOBUFS: what is in the socket stays there.
ReceiveFails ==
  /\ pc = "receive"
  /\ overrun
  /\ overrun' = FALSE
  /\ Finish("failed")
  /\ UNCHANGED <<kernel, queue, turn, doubt>>

(***************************************************************************)
(* Whom to blame.                                                          *)
(***************************************************************************)
\* The places before the first one at offset 0, the last that matches.
LocOf(c, off) ==
  LET known == SubSeq(c.attr, 1, SelectInSeq(c.attr, LAMBDA a : a.off = 0) - 1)
      seen == IF \E k \in DOMAIN c.attr : c.attr[k].off = 0 THEN known ELSE c.attr
      k == SelectLastInSeq(seen, LAMBDA a : a.off = off)
  IN IF k = 0 THEN "command" ELSE seen[k].loc

nft_cmd_error(c, err) == [cmd |-> c.id, loc |-> LocOf(c, err.off)]

\* UINT32_MAX, as far as TLC counts.
NoSeq == 2147483647

\* Fault: the command that was found is not looked at again.
BlameOnce(acc, err) ==
  LET start == IF err.seq < acc.last THEN 1 ELSE acc.from
      rest == SubSeq(cmds, start, Len(cmds))
  IN IF err.seq \in start .. Len(cmds)
     THEN [from |-> err.seq + 1, last |-> err.seq,
           records |-> Append(acc.records, nft_cmd_error(cmds[err.seq], err))]
     ELSE [from |-> Len(cmds) + 1, last |-> NoSeq,
           records |-> acc.records \o IF err.seq = BatchSeq
                                      THEN [k \in DOMAIN rest |-> nft_cmd_error(rest[k], err)] ELSE <<>>]

\* One error of nft_netlink(): from is the command to begin with, the end of
\* the list if it is past the last; last the sequence number seen last.
Blame(acc, err) ==
  LET start == IF err.seq < acc.last THEN 1 ELSE acc.from
      rest == SubSeq(cmds, start, Len(cmds))
  IN IF err.seq \in start .. Len(cmds)
     THEN [from |-> err.seq, last |-> err.seq,
           records |-> Append(acc.records, nft_cmd_error(cmds[err.seq], err))]
     ELSE [from |-> Len(cmds) + 1, last |-> NoSeq,
           records |-> acc.records \o IF err.seq = BatchSeq
                                      THEN [k \in DOMAIN rest |-> nft_cmd_error(rest[k], err)] ELSE <<>>]

Report ==
  /\ pc = "receive"
  /\ ~overrun /\ queue = <<>>
  /\ records' = FoldLeft(Blame, [from |-> 1, last |-> NoSeq, records |-> <<>>], errlist).records
  /\ pc' = "report"
  /\ UNCHANGED <<kernel, queue, overrun, input, cmds, batch, errlist, answer, turn, refused, doubt>>

Return ==
  /\ pc = "report"
  /\ Finish(IF errlist = <<>> THEN "ok" ELSE "failed")
  /\ UNCHANGED <<kernel, queue, overrun, turn, doubt>>

\* The program ends and another one starts, with a socket of its own.
NewContext ==
  /\ pc = "idle" /\ turn < MaxInputs /\ queue # <<>>
  /\ queue' = <<>>
  /\ UNCHANGED <<kernel, overrun, pc, input, cmds, batch, errlist, records, answer, turn, refused, doubt>>

Done == pc = "idle" /\ turn = MaxInputs /\ UNCHANGED vars

Next ==
  \/ Begin \/ UpdateCache \/ UpdateCacheFails \/ Evaluate \/ EvaluateFails
  \/ Execute \/ ExecuteFails \/ NothingToDo \/ SendAccepted \/ SendRefused \/ SendRefusedWhole \/ SendFails
  \/ Receive \/ ReceiveFails \/ Report \/ Return \/ NewContext \/ Done

Spec == Init /\ [][Next]_vars

(***************************************************************************)
(* Properties.                                                             *)
(***************************************************************************)
\* The state of an input between nft_run_cmd_from_buffer() and its return is one
\* of those of the code.
TypeOK ==
  /\ pc \in {"idle", "cache", "evaluate", "execute", "send", "receive", "report"}
  /\ overrun \in BOOLEAN /\ doubt \in BOOLEAN
  /\ turn \in 0 .. MaxInputs
  /\ answer \in {"none", "ok", "failed"}
  /\ pc = "idle" => batch = <<>> /\ errlist = <<>>
  /\ overrun => pc = "receive"

\* The kernel has accepted the batch of this input.
Committed == pc \in {"receive", "report"} /\ refused = <<>> /\ ~input.check

Atomic == INSTANCE AtomicInput WITH
  ruleset <- kernel,
  asked <- input,
  phase <- IF pc = "idle" THEN "idle" ELSE IF Committed THEN "committed" ELSE "asked"

\* An input takes effect as a whole and as it is written, or not at all, and
\* the exit status says which: collapsing the commands, putting them apart in
\* another order, splitting them over messages, leaving an empty batch unsent
\* and dropping the end of a batch that is only checked change nothing of what
\* nft_run_cmd_from_buffer() promises.
ImplementsAtomic == Atomic!Spec

MessagesOf(k) == FoldLeft(LAMBDA own, m : IF m.seq = k THEN Append(own, m) ELSE own, <<>>, batch)

\* nft_cmd_uncollapse() gives back each command of the input, once, and
\* mnl_nft_setelem_batch() puts every element of a command in one message of the
\* command and in one only, in the order it is written, with no list longer
\* than its attribute can say.
ElementsSentOnce ==
  pc = "send" =>
    /\ \A i \in DOMAIN input.cmds : \E k \in DOMAIN cmds : {j \in DOMAIN cmds : cmds[j].id = i} = {k}
    /\ \A k \in DOMAIN cmds :
         LET msgs == MessagesOf(k)
             all == FlattenSeq([m \in DOMAIN msgs |-> msgs[m].elems])
         IN /\ [i \in DOMAIN all |-> all[i].e] = input.cmds[cmds[k].id].elems
            /\ \A m \in DOMAIN msgs : msgs[m].len - NestOff <= NestMax

\* nft_netlink(): when all answers are read, each message that the kernel
\* refused is an error on the command it comes from, commands out of order and
\* several refusals of one command included, and a refusal of the batch is an
\* error on every command.
RefusalsReported ==
  pc = "report" /\ ~doubt => \A k \in DOMAIN cmds :
    Cardinality({j \in DOMAIN records : records[j].cmd = cmds[k].id})
      = Cardinality({j \in DOMAIN refused : refused[j].seq \in {k, BatchSeq}})

\* The offset of every attribute of the message is told apart from the others.
OffsetsKnown(k) ==
  Len(MessagesOf(k)) = 1 /\ \A m \in ToSet(MessagesOf(k)) : m.len <= OffsetMod

\* nft_cmd_error(): the place in the input that is shown for a refused message
\* is that of the element the kernel did not like, as long as the command fits
\* one message and the offsets fit 16 bits.
ElementBlamed ==
  pc = "report" /\ ~doubt => \A j \in DOMAIN refused :
    refused[j].seq # BatchSeq /\ OffsetsKnown(refused[j].seq)
      => [cmd |-> cmds[refused[j].seq].id, loc |-> refused[j].elem] \in ToSet(records)

\* mnl_batch_talk() gets all acknowledgments: what is read after a batch was
\* sent are answers to this batch.  Not so after ENOBUFS.
AnswersAreOwn == \A j \in DOMAIN errlist : errlist[j].turn = turn
=============================================================================
