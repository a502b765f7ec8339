# TLA+ models of nftables

This directory models the userspace half of nftables (`src/src/`): how the
program turns commands into one kernel transaction while it keeps a private
copy of a ruleset that other programs change, and how a rule becomes a program
of the kernel and comes back as a listing.  Paths below are relative to the
repository root as it appears in the map (`src/src/cache.c` is the file
`src/cache.c` of nftables).

## 1. The system

`nft_run_cmd_from_buffer()` (`libnftables.c`) runs one *input*, a list of
commands, in a *context* that may run many of them:

    parse -> nft_cache_evaluate -> nft_cache_update -> collapse, expand
          -> cmd_evaluate for every command -> do_command for every command
          -> one batch to the kernel -> commit or refusal

| Component | State it keeps | Operations | Correct when |
|---|---|---|---|
| cache requirements (`cache.c`) | flag word, dump filter of the input | one case per command operation | every later lookup is covered by what is fetched; a restricted dump is not reused |
| ruleset cache (`cache.c`, `mnl.c`) | objects, generation, flags | check, reuse, dump, replay, release | an input sees exactly one generation, the present one; the update ends |
| command pipeline (`libnftables.c`, `cmd.c`, `evaluate.c`, `rule.c`, `mnl.c`) | command list, cache changed in advance, batch | expand, evaluate, execute, commit | what is committed is what the commands mean in order; the cache that is kept is the kernel's ruleset |
| rule positions (`evaluate.c`, `rule.c`) | cached chain, rule IDs | add, insert, replace, delete, flush; by index or handle | an index means the rule the user counted, or the input is refused |
| interval sets (`intervals.c`, `mergesort.c`) | cached elements of a set | auto-merge, overlap check, split and trim on deletion | the set holds the keys the commands mean; the kernel accepts the messages |
| batch and errors (`mnl.c`, `libnftables.c`, `cmd.c`) | collapsed commands, sequence numbers, offsets, answers in the socket | collapse, split, send, receive, attribute | an input takes effect as written or not at all, the status says which, and an error is shown at what caused it |
| optimizer (`optimize.c`) | statement matrix | merge rules | the ruleset decides the same packets |
| evaluation of rules (`evaluate.c`, `payload.c`, `proto.c`, ...) | protocol context, pending dependencies, declared sets | type, convert, fold, add dependencies | only contradictory rules are refused, and a match reads the field it names |
| encoding (`netlink_linearize.c`, `netlink_delinearize.c`, `netlink.c`, `segtree.c`) | registers in use; on the way back expressions in registers, dependencies | allocate, release, translate, clean up | the program does what the rule says; the listing means the same rule |
| JSON (`json.c`, `parser_json.c`) | parser context | print, parse | what is listed is accepted and means the same |
| monitor (`monitor.c`) | a cache fed by events | one handler per event | later events find the objects of earlier ones |
| grammar, scanner, command line | scopes, scanner states, options | | not of this kind |

The components meet in three places.  The *cache* is filled by the second,
changed in advance by the third, fourth and fifth, and read by all.  The
*generation* is the only sign of what other programs do.  The *batch* is
atomic in the kernel, while the evaluation that prepared it is not repeated
when the kernel refuses it.

What is hard here: other programs commit between two dumps, or between
evaluation and commit; commands are all evaluated before the first is
executed; what the evaluation does to the cache must agree with what the
kernel does later; the generation has 16 bits; the flags and the filter are
shared by all commands of an input; answers are lost when the socket is full;
what a listing leaves out must follow from what it keeps.  `PROJECT.json` lists these hazards with
their lines and the properties that watch them.

## 2. Modules

| Module | Models | State | Actions |
|---|---|---|---|
| `CacheFlags` | flag words of `cache.h`; `evaluate_cache_*()`; what `cmd_evaluate()` looks up; what a command changes in the kernel and in the cache | none | operators |
| `CacheEvaluate` | the loop of `nft_cache_evaluate()` | commands so far, flags, filter, status | one per case of the switch |
| `NftCache` | `nft_cache_update()` in several clients, and the kernel | kernel generation and versions; per client the program counter, `nft_genid`, local `genid`, dumps still to do, `cache->genid`, `cache->flags`, contents | `Begin`, `Reuse`, `SkipFlushed`, `BeginFill`, `Dump`, `DumpInterrupted`, `DumpRefused*`, `Accept`, `Replay`, `Commit`, `ReadOnly`, `Abort`, `ExternalCommit` |
| `RuleIndex` | `rule_cache_update()`, `link_rules()`, the rule messages and their effect on one chain | kernel chain, cached chain, IDs, batch | one per kind of command, `Commit`, `Refused`, foreign insertions and deletions |
| `Transaction` | a whole input: expansion, evaluation with its error limit, execution, batch | kernel objects, commands, position, errors, batch, cache | `Begin`, `Expand`, `Evaluate`, `EvaluateError`, `Evaluated`, `Rejected`, `Execute`, `ExecuteNull`, `ExecuteError`, `NothingToSend`, `Commit`, `Refused` |
| `Intervals` | `set_automerge()`, `set_overlap()`, `set_delete()` on one set | kernel intervals, cached list, batch | `EvalAddMerge`, `EvalAddOverlap`, `EvalDelete`, `EvalFlush`, `EvalError`, ... |
| `AtomicInput` | what an input promises: all of it in order, or nothing, and a status that says which | ruleset, input, phase, answer | `Ask`, `Commit`, `Succeed`, `Fail` |
| `Batch` | one input after the other from the command list to the answers: `nft_cmd_collapse()`, `nft_cmd_uncollapse()`, `mnl_nft_setelem_batch()`, `mnl_batch_talk()`, `nft_netlink()`, `nft_cmd_error()` | kernel, messages in the socket, commands, batch, error list, records shown | `Begin`, `UpdateCache`, `Evaluate`, `Execute`, `NothingToDo`, `SendAccepted`, `SendRefused`, `SendRefusedWhole`, `SendFails`, `Receive`, `ReceiveFails`, `Report`, `Return`, `NewContext` |
| `Bits`, `Proto`, `Expr`, `Exthdr` | numbers and their memory images, header descriptions, syntax trees, extension headers and options | none | operators |
| `Payload` | protocol context, fields behind raw bytes, dependencies that a listing may drop | none | operators |
| `Evaluate`, `EvalStmt` | `expr_evaluate()` and `stmt_evaluate()` with all they call | contexts passed along | operators |
| `Linearize`, `SetElems` | rules and set elements on their way to the kernel, and the elements back | registers, instructions | operators |
| `Vm` | the kernel's interpreter (external) | registers, effects | operators |
| `Delinearize`, `Postprocess` | instructions back to statements, and the clean-up of the listing | registers, dependencies | operators |
| `Json`, `JsonParse` | the listing in JSON, and the parser that takes it back | parser context | operators |
| `Meaning` | what a rule says about a packet, from the manual | none | operators |
| `RulePipeline` | load, list, load again | the rule | `RunRule` |
| `SequenceFacts`, `FoldFacts` | lemmas on sequences, and on `FoldLeft()` for any step `Op(p, a, x)` | | |
| `CacheEvaluate_proofs`, `NftCache_proofs` | theorems of these modules | | |
| `RuleIndex_proofs` | that the cached chain leads every index to the rule the user counted | | |
| `Batch_proofs` | what may be done to a list of commands without changing what it means; that `Batch` implements `AtomicInput`, sends every element once and blames what was refused | | |
| `Transaction_proofs` | what messages, commands and blocks do to a ruleset; that evaluation, cache, batch and commit agree | | |
| `Intervals_proofs` | what each function of `mergesort.c` and `intervals.c` does to a list; theorems of `Intervals` | | |
| `MC*` | the inputs TLC enumerates | | |

`CacheFlags` is shared: `NftCache`'s inputs get their flags and their effects
from it, and `Transaction` its flag words.  `NftCache` has the other programs
and abstracts contents to versions; `Transaction` has the contents and one
program.  The link between them is the assumption `AllFaithful` of the proofs,
"the evaluation does to the cache what the commit does to the kernel", which
is the invariant `CacheFollowsCommit` of `Transaction` (and `CacheFollowsSet`
of `Intervals` for elements), each proved there under conditions on the inputs
(section 4).  `Batch` takes over where `Transaction` has
`Commit` and `Refused`: it has few commands and all of the messages.  It
implements `AtomicInput`: `ruleset` is the kernel's, `phase` is `committed`
between the acceptance of the batch and the return.  `RulePipeline` is about
what a single rule contains, which the others leave out.

Definitions that begin with a comment "Fault:" are variants of the next
definition with a plausible mistake.  No specification uses them; replacing
the definition by its variant must break the property named in
`PROJECT.json`.

### Abstractions

* `NftCache`: the content of an item (all tables, all chains, the rules of one
  table, ...) is the generation of its last change.  The cache holds a *set*
  of versions, because filling it twice leaves both.  A dump of an empty kind
  has no message and so no generation to check (`kempty`).
* `CacheEvaluate`: commands are records of what the code tests (operation,
  object, names, block, index).  Validation errors are members of `Overlong`.
* `RuleIndex`: a rule is its identity and handle; a foreign transaction
  inserts or deletes one.
* `Transaction`: the ruleset is the set of named objects; of rules and
  elements only their chain or set is kept.  `Script` inputs have a context of
  their own (`nft -f`), `Input` ones share a context (`nft -i`, a library user).
* `Intervals`: keys are integers, elements are closed intervals with the mark
  `EXPR_F_KERNEL`; evaluation stops at the first error, which refuses the
  input anyway.
* `Batch`: elements are names with a length, tables are the elements of a set
  of their own, and lengths are in units of a short attribute.  Evaluation
  fails only for a missing set.  A socket that overflows takes nothing more
  until it has been read empty, and the first read after it fails, as in
  `netlink_attachskb()`.  `turn`, `refused` and `doubt` are history.
* `RulePipeline`: a number is the set of its one bits, so that masks, shifts,
  byte order and concatenation are set operations of any width.  Names of
  constants are their values; a string keeps its type where the parser would
  read it otherwise.  The passes are functions of the rule, so there is one
  action, and the properties are action properties about it that compute the
  passes.  (As actions with a variable for each result they would say the
  same: nothing interleaves with them.)  Left out: encapsulated headers,
  SCTP chunks, DCCP options, xtables matches, `meta hour`, chain statements,
  variables, and comments and timeouts of elements.
* The kernel (`nf_tables`) is external: transactions are atomic, messages are
  applied in order, the first failure refuses all.  It may also refuse for
  reasons of its own (`Refused` needs no cause).

## 3. Runs

| Run | What it asks | Result |
|---|---|---|
| `CacheEvaluate_pass` | inputs of three commands of every form: does the flag word cover each lookup (`NeedsCovered`), is a restricted dump always marked for refresh (`PartialNeverReused`)? | holds |
| `CacheEvaluate_filter` | does the filter let each command's objects through (`FilterAdmits`)? | violated: two list commands share the filter of the last |
| `NftCache_solo` | with foreign commits at any step and refused dumps: is the cache the present ruleset on use (`FreshOnUse`), has a populated cache a generation, does the update end? | holds |
| `RuleIndex_pass` | does an index mean the counted rule, does the chain become the described one, with foreign changes and several inputs? | holds |
| `Transaction_pass` | all pairs of commands that change objects, blocks, flushes, errors: committed in order (`CommitsInOrder`), nothing valid rejected (`RejectsInOrder`), cache kept equal to the kernel (`CacheFollowsCommit`)? | holds |
| `Transaction_order` | no failure for inputs with listings and renames either (`EveryInputInOrder`) | violated: executed after a later command emptied the cache |
| `Intervals_pass` | five keys, with and without auto-merge: keys as described (`SetAsDescribed`), kernel accepts (`KernelAgrees`), set fully merged (`FullyMerged`), errors only when true (`RejectsRightly`), cache equal to the kernel (`CacheFollowsSet`), and cached elements in order when others are spliced into them (`AddsInOrder`) | holds |
| `Intervals_order` | an addition after a deletion in one input (`SetAsDescribed`) | violated: the cached list is no longer sorted and keys are lost |
| `RulePipeline_pass` | 1821 rules and 8 packets: are only contradictory rules refused (`OnlyContradictionsRefused`), does the program do what the rule says (`ProgramMeansRule`), are registers given back (`RegistersBalanced`), is the JSON listing accepted (`ListingAccepted`) and does it mean the same (`ReloadMeansRule`)? | holds |
| `RulePipeline_range` | a lower bound on one field next to an upper bound on another (`ReloadMeansRule`) | violated: listed as a range of the second field |
| `Batch_pass` | three inputs with splitting, refusals, a full socket and check mode: implements `AtomicInput` (`ImplementsAtomic`), each command executed and each element sent once (`ElementsSentOnce`), each refusal shown at its command (`RefusalsReported`) and element (`ElementBlamed`)? | holds |
| `Batch_acks` | are the answers read those to this batch (`AnswersAreOwn`)? | violated: after ENOBUFS the rest is read by the next input |

The five violations are statements of the documentation, a test or a comment
that the code does not meet; `findings` in `PROJECT.json` quotes each.

### Bounds, and why they are enough

* `CacheEvaluate`: `MaxCmds = 3`.  The loop's effect on flags and filter
  depends on the present command and on what is left of the earlier ones; two
  commands show each interaction and the third what follows it.  The proof of
  `NeedsAlwaysCovered` has no bound.
* `NftCache`: one client, one table (seven dumps), `MaxGen = 4`: reuse, one
  own commit, one foreign commit during the dumps and a replay fit.  More
  clients and tables are covered by the proof.  `GenMod` stands for 2^16; it
  is 8 where the generation must not wrap and 2 where it must.
* `RuleIndex`: chains start with two rules, at most five exist, four
  generations; indices 0 to 2 reach the first, an inner and a missing rule.
* `Transaction`: one table, two chains, one object of each other kind, two
  commands per input (three after `flush ruleset`), two chain handles,
  `MaxErrors = 2`, so that the loop both continues after an error and stops.
* `Batch`: three inputs, of up to two commands of every kind and chosen ones
  of three: an overflow, an input that meets what it left, and one after it.
  A list of three elements does not fit `NestMax = 4`; `OffsetMod = 5` lets the
  offset of the last element of a full message wrap, as 2^16 does.
* `RulePipeline`: the rules are one of each kind in `tests/py` and
  `tests/shell`, and every pair, in both orders, of twenty matches in the
  families ip, inet, bridge and netdev; the packets have fields on both sides
  of each value.  The pairs leave out ip6, where a rule that contradicts its
  own table (`meta protocol ip`) loses that match in the listing.
* `Intervals`: keys 0 to 4 have every relation of two intervals (apart,
  adjacent, overlapping, nested, equal) and a split into two parts.  Inputs
  have up to three commands.  Those of a kept context begin with a flush and
  those with a deletion before an addition are left to `Intervals_order`: this
  is `InputsInOrder` of `Intervals_proofs`, and it also keeps an interval from
  being added twice and deleted afterwards (section 4).

### Fairness

Only `NftCache_solo` states liveness (an input of `Batch` ends because each
action takes it forward and the socket gets no new messages meanwhile).  `FairSpec` assumes weak fairness of a
running `nft_cache_update()`: the process is scheduled and the kernel answers
each request.  Nothing is assumed of other programs; the bound on generations
makes them stop, and "the ruleset stops changing" is what termination needs.
`CHECK_DEADLOCK FALSE` appears only in the `CacheEvaluate` and `RulePipeline`
configurations, whose behaviours end.

## 4. Proofs

`CacheEvaluate_proofs` proves `NeedsAlwaysCovered`: for inputs of any length
over any commands the flag word covers every lookup.  The invariant
`CoverInv` says that each command so far is covered by the present flags; the
argument is that each case covers its own command (one lemma per
`evaluate_cache_*()`), and that a step either only adds flags or assigns at
least `NFT_CACHE_FULL` (`IterateKeeps`).  It assumes what the grammar admits:
`get` names elements and `rename` names chains (`GetsElements`,
`RenamesChains`).

`NftCache_proofs` proves, for any set of clients, any number of tables and any
inputs:

* `TypeCorrect`: `Spec => []TypeOK`, with `NftCacheAssumption` only.
* `PopulatedSafe`: `PopulatedHasGenid`, and
* `FreshSafe`: `FreshOnUse`, under three assumptions that the code makes
  silently: `NoWrap` (the generation fits its 16 bits), `Answered` (GETGEN
  gets a reply) and `AllFaithful` (an input that does not ask for a refresh
  commits, and its evaluation repeats its changes on the cache).

`FreshOnUse` is not inductive.  `IInv` adds per client what each phase relies
on: at rest, the cache is unusable, or two generations behind, or exactly one
behind because of the client's own commit and then equal to the kernel
(`Resting`); during the dumps, what is loaded is the kernel's as long as the
generation has not moved (`Filling`); during evaluation likewise (`Ready`); and
a cache without generation is empty (`Unpopulated`).  "Exactly one behind" is
why `AllFaithful` is needed: the code cannot tell its own commit from another.

`Batch_proofs` proves, for all inputs, element sizes, offset widths and limits,
from `BatchAssumption` and `InputsAssumption` (what the constants are) only:

* `Implements`: `Spec => ImplementsAtomic`, the refinement of `AtomicInput`;
* `TypeCorrect`: `Spec => []TypeOK`;
* `CollapseSame`: what `nft_cmd_collapse()` and
  `nft_cmd_uncollapse()` leave of a list of commands is acceptable to the same
  rulesets and has the same effect on them as the list that was given;
* `SentOnce`, `RefusalsShown` and `Blamed`: `[]ElementsSentOnce`,
  `[]RefusalsReported` and `[]ElementBlamed`, what the user is told about a
  refused input.

`BatchAssumption` and `InputsAssumption` say what the code does not have to
check: an attribute has a header, so its length is not 0, and fits a list of its
own; a command is about one table at most; a listing sends nothing.  The last
two are about the shape of the input in the model (`tables` and `none` stand for
commands without elements), and the first is what makes offsets differ.

The argument goes from commands to messages to answers.  `Same(s, t)` says that
two lists of commands are accepted by the same rulesets and leave the same one;
it is kept when neighbours that are both additions to one set are joined, when
such a command is taken apart again, and when one of several additions to a set
is done after the others instead of before them (`Bubble`), since restoring
reverses their order.  That is all that collapsing and restoring do.  `PutInv` says that the messages a command has been split into so
far, with the element that is put next, ask for its elements up to there in
their order.  The kernel on the batch that was built for a list then accepts
it exactly if the list is acceptable, and computes its effect (`SendMeets`).
`BatchInv` carries this from `Begin` to `Return`:

* `CmdsOK`: the command list, and later the batch, is `Same` as the input;
* `AnswersOK`: without `doubt`, the socket and the error list have an answer
  if and only if this batch was refused.  That is what the status is computed
  from, and it is false once a socket has overflowed, which is why `doubt` is
  in `AtomicInput` too;
* `CheckedOK`: a check without an error would have been accepted;
* `Shape`, `InputOK`, `NothingLeft`: the types, and that batch and errors of an
  input are gone before the next one.

Each disjunct of `Next` is then one action of `AtomicInput` (`StepAsk`,
`StepAccepted`, `StepRefused`, `StepFail`, `StepReturn`; a batch that is too
short to be sent is `Succeed`, by `StepNothing`) or a stutter (`StepSilent`).

`BatchInv` knows that errors exist, not whose they are.  `BlameInv`, inductive
together with it (`Attribution`), has in addition

* `Listing`: the list that is executed has each command of the input once, with
  its own elements.  `Same` does not say so: it would allow to lose a command
  without effect.  For this, `Holds` says during the collapsing which command of
  the input each part of a collapsed one comes from (`CollapseRestores`);
* `Filled`: every command has noted the places that `do_command()` noted in its
  messages;
* `Refusals`: what the kernel refused is the batch or else elements of messages
  of commands in the list (`BuiltErrs`);
* without `doubt` and overflow, the errors read and those still in the socket
  are together what was refused, in this order, and at the end the records are
  one for each, or one for each command if the batch was refused (`Recorded`).

A list of elements is described while it grows (`FillInv`: messages in order,
none too long, and the length so far; `NotedInv`: in a command of one message the
offsets noted are those of its elements, all different), so that `LocFound` can
say that `nft_cmd_error()` finds the place.  The walk of `nft_netlink()` over
errors and commands is `BlameStep`: it begins at the command of the last error,
or at the first when the number is smaller, and so never passes the command of
the next error (`BlameOK`).

`Intervals_proofs` proves, for any `MaxKey`, any inputs and any history:

* `TypeCorrect` and `MergeComplete`: `[]TypeOK` and `[]FullyMerged`, from
  `Spec /\ []AddsInOrder`, with and without auto-merge;
* `MergeAgrees`, `CacheCorrect` and `MergeDescribed`: with auto-merge and under
  the same condition `KernelAgrees`, `CacheFollowsSet`, and `SetAsDescribed` with
  `RejectsRightly`;
* `InOrder`: `Spec => []AddsInOrder` if `InputsInOrder`, that is if no addition
  follows a deletion of its input, or of an earlier input of a kept context,
  without a flush in between;
* `IntervalsCorrect`: so, for these inputs, all of the above holds of `Spec`;
* `PlainInOrder` and `PlainTyped`: without auto-merge `[]AddsInOrder` and
  `[]TypeOK` hold of `Spec` for any inputs;
* `PlainCorrect`: without auto-merge `KernelAgrees`, `CacheFollowsSet`,
  `SetAsDescribed` and `RejectsRightly`, from `Spec /\ []DeletesOnce`;
* `PlainInputs`: so, without auto-merge, all of them hold of `Spec` if
  `InputsOnce`, that is if no deletion follows an addition of its input, or of an
  earlier input of a kept context, without a flush in between.

`AddsInOrder` is the precondition of `list_splice_sorted()`.  The code does not
establish it, and `Intervals_order` shows that `SetAsDescribed` is false
without it; the theorems show that this is the only thing that can go wrong
with auto-merge.  The first lemmas say of each function what it makes of a list
(`IsSortOf`, `IsSpliceOf`, `IsMergeOf`, `IsDeleteOf`): which keys the result
covers, that its elements are apart if those of the arguments were, and, for
the whole of an evaluation (`IsEditOf`, `EditBatch`), that the messages turn
exactly the old elements into the new ones, each deletion naming an element
that is there and each addition overlapping none.  The invariant `IntervalsInv`
has, with auto-merge: the kernel's intervals are apart; the cached ones are
(`ScatR`, neither overlapping nor touching, in any order); applying the messages
so far to the kernel's set gives the cached elements; and the keys these cover
are what the commands evaluated so far mean.  The properties only speak of the
ends of an input; the last two parts are what every single command has to keep
for them.  `Means` is also what shows that `nft_cmd_collapse()` keeps the
meaning.

`DeletesOnce` is what `__set_delete()` relies on without auto-merge: an interval
that a deletion names is in the cached list once.  The code does not establish it
either: adding an interval that is there already is no error
(`setelem_overlap()` skips equal ones) and lists it twice, and a deletion takes
one of the two, so that "add a; add a; delete a; delete a" passes the evaluation
and is refused by the kernel (section 5).  `PlainCorrect` says that this is the
only thing that can go wrong without auto-merge.  Its invariant `Plain` has: the
cached elements are in order (`PlainOrder`; a deletion here leaves no parts to be
put at the ends of the list); the intervals of the kernel do not overlap, nor do
the cached ones (`ClearSet`); applying the messages so far to the kernel's set
gives the cached intervals; and so does carrying out the commands evaluated so
far as they are written (`PlainMeans`).  For an addition, comparing neighbours in
a sorted list finds an overlap if there is one (`OverlapIs`), and the kernel gives
the same answer for the new elements, in whatever order they are sent and however
often each is (`AddRepeats`, `PlainAdd`).  A deletion is followed element by
element in the list and in the kernel (`IsTakenBy`, `TakeStep`): the search by the
left end finds the interval exactly if the set has it (`FoundAt`).

`RuleIndex_proofs` proves, for chains of any length, any number of rules and
generations:

* `TypeCorrect`: `Spec => []TypeOK`, without a condition;
* `IndexCorrect`: `Spec => []IndexMeansThatRule`, and
* `ChainCorrect`: `Spec => []ChainAsDescribed`, both for inputs that are
  `InputsFollowed`: an index sets UPDATE for its input (a replace command after
  it would take it away, section 5), and no index comes after a deletion or
  flush in the same context, since these leave the cached chain as it is
  (`evaluate.c:5654`).  `MCRuleIndex` assumes it of its inputs, so that TLC
  checks that the run's inputs are of this kind.

The messages are evaluated while other programs may still change the chain, so
what they will do cannot be said of the kernel's chain of that moment.  The
invariant quantifies over the chains the kernel may have when the batch arrives
(`Later`: rules may be gone, and those that are new have a larger handle and a
larger number than any the client has seen) and says what `Run`, the kernel on
the messages so far, makes of each (`Runs`): if it accepts them, every index has
been placed by the rule it asked for (`Sound`), and where the cached chain has a
handle of the resulting chain it is the same rule (`Agreeing`).  A step of
another program only makes `Later` smaller; an evaluated command adds one
message to `Run` (`SoundAppend`, `AgreeAppend`), and an ID that `link_rules()`
gives does not change what the earlier messages mean (`RunSameIds`).  Beside
it: the cached chain has the rules of the described one in their places
(`Mirrored`); on the chain the cache was made of, the kernel makes exactly the
described chain (`Exact`); and a cache that is one generation behind is the
client's own commit (`IdleOK`), which is where `Exact` leads to the next input.
The ids of rules never collide (`Unshared`), as long as the counter does not wrap.

`Transaction_proofs` proves, for any inputs, any number of tables and objects,
blocks of any length, any error limit and any history:

* `TypeCorrect`: `Spec => []TypeOK`, without a condition;
* `CacheCorrect`: `Spec => []CacheFollowsCommit`, and
* `RejectCorrect`: `Spec => RejectsInOrder`, if `InputsFollowed`;
* `CommitCorrect`: `Spec => CommitsInOrder`, if `InputsFollowed` and
  `InputsOrderly`.

`InputsFollowed` is about the inputs of a kept context only: they rename no
chain and delete no object by its handle, the two changes that the evaluation
does not carry out on the cache.  `InputsOrderly` is about each input by itself:
what is looked up in the cache at execution has not been taken out or renamed by
the same input.  That is, it neither lists nor gets and renames no chain twice;
or it has only commands that are followed, and `flush ruleset` at most at its
start.  Both are needed: `Transaction_order` violates the second, and section 5
has what happens without the first.  `MCTransaction` assumes both of its passing
inputs, so TLC checks that they are not vacuous there, and the inputs of the run
include renames (in a context of their own), listings and flushes.

The three rulesets of an input are compared by names: what the kernel has, what
the cache says, and what the commands mean.  `Seen(n)` is the meaning of the
first n commands after expansion, `Done(n)` the ruleset that the messages of
these commands would make.  The invariant `TransactionInv` has

* `TypeInv`: the types, the tables of cached objects, and which variables are
  cleared when;
* `CommandsInv`: what the hypotheses say of the input, of the expanded list, and
  that the cache flags cover every kind that the list needs;
* `OrderInv`: while blocks are expanded, the meaning of the commands still to be
  visited after those visited is the meaning of the input (`Rest`).  The
  expansion puts the rules of a block behind its sets and chains, so this rests
  on additions within one table being exchangeable (`BlockOrder`, `ExpansionMeans`);
* `CacheInv`: for commands that can be carried out so far, the cached names are
  those of `Done(n)` in the kinds that the flags promise (`Covers`, `Within`);
* `ErrorInv`: after an evaluation error the commands as a whole have no meaning;
* `BatchInv`: during the execution the kernel on the batch so far would have
  `Done(pos - 1)`, and the chains of the kernel keep their handles, which is
  what a rename by handle relies on (`Chains`).

`CacheFollowsCommit` speaks only of the moment between two inputs; it is
inductive with `CacheInv` because a commit makes the kernel the `Done` of all
commands, and every other end of an input releases the cache.  The step from
names to objects is `Ruleset`: names and handles tell objects apart.

`CacheEvaluate_proofs` has two more theorems, without an assumption on the
commands: `TypeCorrect`, and `PartialSafe`, `Spec => []PartialNeverReused`,
which is inductive together with `TypeOK`.

Induction over a list is not a theorem of the library here, whose induction
rules take a predicate as a parameter: `SequenceFacts` proves induction for
*sets* of numbers and of sequences (`SetInduction`, `SeqInduction`) from
`WFMin`, and the proofs apply it to the set of the lists that have a property.
`FoldFacts` unfolds `FoldLeft()`, a recursive function over sets of indices,
in the same way.

Only model-checked:

* `UpdateTerminates` (liveness is out of the prover's reach);
* the sets without auto-merge when a deletion follows an addition of the same
  interval: `DeletesOnce` can be false there, and the properties hold for the
  inputs of the run all the same;
* `RulePipeline`: its passes are recursive operators, which the prover cannot
  unfold.

## 5. Disagreements without a run

Properties that are stated in the modules and that the code does not meet; a
configuration with the inputs of the module's MC module shows each:

* `IndexTranslated` (`CacheEvaluate`): `replace rule` assigns the flag word
  (`cache.c:433`) and so takes UPDATE from an earlier `add rule ... index` of
  the input, whose index is then ignored.
* `PopulatedHasGenid` (`NftCache`, `GenMod = 2`): when the 16-bit generation is
  0, a populated cache counts as empty and is filled twice (`cache.c:1235`).
* `IndexAccepted` (`RuleIndex`): a rule added by an earlier input of the
  context is referred to by an ID of that transaction (`evaluate.c:5206`).
* `CommitsInOrder` (`Transaction`): after `rename chain t a b`, the context
  renames b when it is told to rename a again (`evaluate.c:5967`).
* `ListingAccepted` with `Rules <- JsonRules`: a verdict map on a `tcp option`,
  `meta mark set fib ...` and a map statement with a counter are listed in JSON
  and not taken back (`parser_json.c:1537`, `parser_json.c:2494`).
* `ReloadMeansRule` with `Rules <- OptionRules`: `exthdr_dependency_kill()`
  (`payload.c:928`) drops `ip6 nexthdr` and `ip protocol` in inet, bridge and
  netdev tables, where the comment at `payload.c:860` says they have to stay.

Met while reading, without a property:

* When a command is split over several messages, the offset of an element
  of the first also stands for one of the last, which is blamed
  (`nft_cmd_error()` takes the last match); offsets past 64 KB wrap, and one
  that wraps to 0 ends the search.
* `nft_cmd_uncollapse()` restores collapsed `create` commands in reverse: when
  the second and the third of three create the same element, the second is
  blamed.
* A socket that overflowed may hide a refusal altogether: if all that is left
  in it is a reply that a failed dump did not read, a refused input ends with
  success.  In `AtomicInput` the status means nothing in that state (`doubt`).
* `nft -c flush ruleset` makes a batch of the length of an empty one and is
  not sent (`mnl.c:216`); `nft -c list ruleset` sends an empty one.
* `flush ruleset` anywhere in an input leaves the cache empty: element
  commands on existing sets fail, also those before it.
* `json_parse_binop_expr()` with more than two operands and the statement
  lists of set statements use the result of a refused member; `destroy rule`
  in JSON asks for `expr` and does not read `handle` (`parser_json.c:3213`).
* `time_type_json()` divides by 1000; an array of two members in a set is read
  as a mapping; `queue to 0-65535` is sent with a total of 0.
* `stmt_payload_binop_postprocess()` inverts a mask in place.

* `get element` commits nothing and asks for no refresh: a foreign commit
  after it is taken for the client's own (`cache.c:1204`).
* `delete rule` (`evaluate.c:5654`) and deletions by handle
  (`evaluate.c:5563`) do not change the cache; in a kept context an index or a
  name then resolves to something that is gone.
* `flush ruleset <family>` sets FLUSHED for all families, so the commands
  after it do not find the tables of other families.
* `add set ...; get element ...` is rejected: `get` asks the kernel before
  the batch is sent.
* `destroy element` of a missing element of an interval set fails in
  `setelem_delete()` (`intervals.c:404`).
* Without auto-merge an element added twice is cached twice
  (`intervals.c:629`); after a deletion a stale copy stays.
* `interval_set_eval()` has no case for `reset element` and stops in `BUG()`.
* The commands for the application and host target put table flags into the
  cache flag word (`cache.c:458`), and `do_command_switch_target()` returns 1
  for success, which `nft_run_cmd_from_buffer()` reports as a failure.
* Refused dumps of flowtables, objects, rules and elements count as empty.

## 6. Not modelled, and the plan

Not modelled: the bison grammar and the scanner, the text of listings, the
JSON form of commands and of objects other than rules, symbol tables,
`mini-gmp`, the loader of OS fingerprints, option parsing, the optimizer and
the monitor.  The first are conversions or tables without protocol.

Planned, in this order:

1. `Monitor` and the JSON echo; `Optimize` against `Meaning`.
2. Scopes and scanner states, library contexts (variables, output cookies,
   application contexts).
