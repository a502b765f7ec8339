----------------------------- MODULE Intervals -----------------------------
(***************************************************************************)
(* Interval sets (src/intervals.c).  The kernel stores disjoint intervals, *)
(* accepts or refuses each one as it is, and splits or merges none.  What  *)
(* "add element" and "delete element" mean is worked out in userspace,     *)
(* from the cached elements of the set: with auto-merge, new intervals are *)
(* merged with the overlapping and adjacent ones, which have to be deleted *)
(* first, and a deletion inside an interval replaces it by what is left of *)
(* it; without auto-merge, overlaps are reported.  The cached list is      *)
(* updated on the way, for the next command of the input and for the next  *)
(* input that reuses the cache.                                            *)
(*                                                                         *)
(* One set, keys 0..MaxKey, and one context; catch-all elements and the    *)
(* half-open form that set_to_intervals() sends are left out.              *)
(***************************************************************************)
EXTENDS Integers, FiniteSets, SequencesExt

CONSTANTS
  MaxKey,      \* bound: the largest key
  Input,       \* inputs of a context that is kept
  Script,      \* inputs that have a context of their own
  AutoMerge    \* values of set->automerge

ASSUME IntervalsAssumption == MaxKey \in Nat /\ AutoMerge \subseteq BOOLEAN

Ival(l, r) == [l |-> l, r |-> r]

Interval == {i \in [l : 0..MaxKey, r : 0..MaxKey] : i.l <= i.r}

\* A command on the set, with its intervals.
Command == [op : {"add", "delete", "flush"}, elems : Seq(Interval)]

ASSUME InputsAssumption == Input \cup Script \subseteq Seq(Command)

VARIABLES
  automerge,  \* set->automerge
  kernel,     \* the intervals of the set
  pc,         \* "idle", "eval" or "send"
  script,     \* the context ends with this input
  given,      \* the input
  pos,        \* the command being evaluated
  existing,   \* existing_set->init: [l, r, k], k for EXPR_F_KERNEL
  fetched,    \* the cache has the elements of the set
  batch,      \* messages: [type, elems]
  outcome     \* how the last input ended

vars == <<automerge, kernel, pc, script, given, pos, existing, fetched, batch,
          outcome>>

Bare(e) == Ival(e.l, e.r)

Bares(s) == {Bare(s[i]) : i \in DOMAIN s}

InKernel(e) == [l |-> e.l, r |-> e.r, k |-> TRUE]

New(e) == [l |-> e.l, r |-> e.r, k |-> FALSE]

Each(Op(_), s) == [i \in DOMAIN s |-> Op(s[i])]

Init ==
  /\ automerge \in AutoMerge
  /\ kernel = {}
  /\ pc = "idle"
  /\ script = FALSE
  /\ given = <<>>
  /\ pos = 1
  /\ existing = <<>>
  /\ fetched = FALSE
  /\ batch = <<>>
  /\ outcome = "none"

-----------------------------------------------------------------------------
(* src/mergesort.c.                                                        *)

\* How many elements of a sorted list begin at key l or before it.
UpTo(list, l) == Cardinality({i \in DOMAIN list : list[i].l <= l})

\* One more element of a sorted list, behind those that are not larger.
Insert(list, e) == InsertAt(list, UpTo(list, e.l) + 1, e)

\* list_expr_sort(): a stable sort by the left end.
ListExprSort(s) == FoldLeft(Insert, <<>>, s)

\* Each element of list goes before the first element of head that is not
\* smaller, searching on from where the last one went.
Splice(acc, e) ==
  LET n == CHOOSE i \in 0..Len(acc.rest) :
             /\ \A j \in 1..i : acc.rest[j].l < e.l
             /\ i < Len(acc.rest) => acc.rest[i + 1].l >= e.l
  IN [out  |-> acc.out \o SubSeq(acc.rest, 1, n) \o <<e>>,
      rest |-> SubSeq(acc.rest, n + 1, Len(acc.rest))]

ListSpliceSorted(list, head) ==
  LET done == FoldLeft(Splice, [out |-> <<>>, rest |-> head], list)
  IN done.out \o done.rest

\* set_sort_splice(): the cached elements join the new ones.
SetSortSplice(init) == ListSpliceSorted(existing, ListExprSort(init))

-----------------------------------------------------------------------------
(* Adding elements.                                                        *)

\* setelem_automerge(): kept is the list up to prev, the last element; hi is
\* prev_range.high.
Absorb(acc, e) ==
  IF e.k THEN [acc EXCEPT !.purge = Append(@, e)] ELSE acc

\* Fault: the kernel element that grows is not deleted first.
MergeRangesNoPurge(acc, e) ==
  LET n == Len(acc.kept)
  IN [acc EXCEPT !.kept = [@ EXCEPT ![n].r = e.r, ![n].k = FALSE], !.hi = e.r]

MergeRanges(acc, e) ==
  LET n    == Len(acc.kept)
      prev == acc.kept[n]
  IN IF prev.k
     THEN [acc EXCEPT !.purge = Append(@, prev),
                      !.kept = [@ EXCEPT ![n] = [e EXCEPT !.l = prev.l]],
                      !.hi = e.r]
     ELSE [Absorb(acc, e) EXCEPT !.kept = [@ EXCEPT ![n].r = e.r],
                                 !.hi = e.r]

\* Fault: overlapping intervals are merged, adjacent ones are not.
Automerge1NotContiguous(acc, e) ==
  CASE acc.kept = <<>> -> [acc EXCEPT !.kept = <<e>>, !.lo = e.l, !.hi = e.r]
    [] acc.kept # <<>> /\ acc.lo <= e.l /\ acc.hi >= e.r -> Absorb(acc, e)
    [] /\ acc.kept # <<>> /\ ~(acc.lo <= e.l /\ acc.hi >= e.r)
       /\ e.l <= acc.hi -> MergeRanges(acc, e)
    [] OTHER -> [acc EXCEPT !.kept = Append(@, e), !.lo = e.l, !.hi = e.r]

Automerge1(acc, e) ==
  CASE acc.kept = <<>> -> [acc EXCEPT !.kept = <<e>>, !.lo = e.l, !.hi = e.r]
    [] acc.kept # <<>> /\ acc.lo <= e.l /\ acc.hi >= e.r -> Absorb(acc, e)
    [] /\ acc.kept # <<>> /\ ~(acc.lo <= e.l /\ acc.hi >= e.r)
       /\ e.l <= acc.hi \/ (automerge /\ e.l - acc.hi = 1) ->
         MergeRanges(acc, e)
    [] OTHER -> [acc EXCEPT !.kept = Append(@, e), !.lo = e.l, !.hi = e.r]

SetelemAutomerge(list) ==
  FoldLeft(Automerge1, [kept |-> <<>>, lo |-> 0, hi |-> 0, purge |-> <<>>], list)

\* A message, unless it would have no elements.
Message(type, elems) ==
  IF elems = <<>> THEN <<>>
  ELSE <<[type |-> type, elems |-> Each(Bare, elems)]>>

NewOnes(list) == FoldLeft(LAMBDA new, e : IF e.k THEN new ELSE Append(new, e), <<>>, list)

\* set_automerge(): what is merged away is deleted by a command before this
\* one; the merged list becomes the cached one.
SetAutomerge(init) ==
  LET m == SetelemAutomerge(SetSortSplice(init))
  IN /\ existing' = Each(InKernel, m.kept)
     /\ batch' = batch \o Message("del", m.purge)
                       \o Message("add", NewOnes(m.kept))

\* Fault: an interval that is added twice is an overlap.
SetelemOverlapSame(list) ==
  \E i \in 1..(Len(list) - 1) : list[i + 1].l <= list[i].r

\* setelem_overlap(): neighbours of the sorted list overlap without being
\* the same.
SetelemOverlap(list) ==
  \E i \in 1..(Len(list) - 1) :
    /\ Bare(list[i]) # Bare(list[i + 1])
    /\ list[i + 1].l <= list[i].r

\* set_overlap() without an error.
SetOverlap(init) ==
  LET list == SetSortSplice(init)
  IN /\ existing' = Each(InKernel, list)
     /\ batch' = batch \o Message("add", NewOnes(list))

-----------------------------------------------------------------------------
(* Deleting elements.                                                      *)

\* automerge_delete(): the elements to delete are merged with each other.
ToDelete(init) == IF automerge THEN SetelemAutomerge(ListExprSort(init)).kept
                  ELSE init

\* __set_delete() for one element d: setelem_delete() and setelem_adjust()
\* compare it with the element prev before it in the sorted list.  What is
\* left of prev is moved to the front of the list or appended to it.
Delete1(acc, d) ==
  LET list  == ListExprSort(acc.list)
      n     == UpTo(list, d.l)
      prev  == list[n]
      rest  == SubSeq(list, 1, n - 1) \o SubSeq(list, n + 1, Len(list))
      purge == IF prev.k THEN Append(acc.purge, prev) ELSE acc.purge
      left  == <<New(Ival(prev.l, d.l - 1))>>
      right == <<New(Ival(d.r + 1, prev.r))>>
  IN CASE ~acc.ok \/ n = 0 -> [acc EXCEPT !.ok = FALSE]
       [] acc.ok /\ n > 0 /\ Bare(prev) = Bare(d) ->
            [acc EXCEPT !.purge = purge, !.list = IF prev.k THEN rest ELSE list]
       [] acc.ok /\ n > 0 /\ automerge /\ prev.l = d.l /\ prev.r > d.r ->
            [acc EXCEPT !.purge = purge, !.list = right \o rest]
       [] acc.ok /\ n > 0 /\ automerge /\ prev.l < d.l /\ prev.r = d.r ->
            [acc EXCEPT !.purge = purge, !.list = left \o rest]
       [] acc.ok /\ n > 0 /\ automerge /\ prev.l < d.l /\ prev.r > d.r ->
            [acc EXCEPT !.purge = purge, !.list = left \o rest \o right]
       [] OTHER -> [acc EXCEPT !.ok = FALSE]

Deleted(init) ==
  FoldLeft(Delete1, [ok |-> TRUE, list |-> existing, purge |-> <<>>],
           ToDelete(init))

\* Fault: only the part before the deleted range is added again.
SetDeleteFirstOnly(init) ==
  LET d     == Deleted(init)
      added == NewOnes(d.list)
  IN /\ existing' = Each(InKernel, d.list)
     /\ batch' = batch \o Message("del", d.purge)
                  \o Message("add", IF added = <<>> THEN added ELSE <<added[1]>>)

\* Fault: the remaining parts are sent and not marked as kernel elements.
SetDeleteNotMarked(init) ==
  LET d == Deleted(init)
  IN /\ existing' = d.list
     /\ batch' = batch \o Message("del", d.purge)
                       \o Message("add", NewOnes(d.list))

\* set_delete(): the command deletes whole kernel intervals, and a command
\* after it adds what is left of them.
SetDelete(init) ==
  LET d == Deleted(init)
  IN /\ existing' = Each(InKernel, d.list)
     /\ batch' = batch \o Message("del", d.purge)
                       \o Message("add", NewOnes(d.list))

-----------------------------------------------------------------------------
(* The commands of an input.                                               *)

\* nft_cmd_collapse(): additions that follow each other are one command.
\* nft_cmd_uncollapse() gives each element back to its command, which only
\* changes the order in which disjoint intervals are sent.
Join(cmds, c) ==
  IF c.op = "add" /\ cmds # <<>> /\ cmds[Len(cmds)].op = "add"
  THEN [cmds EXCEPT ![Len(cmds)].elems = @ \o c.elems]
  ELSE Append(cmds, c)

Collapse(in) == FoldLeft(Join, <<>>, in)

\* interval_map_decompose(): whatever the order of the dump.
Ascending(ivs) == ListExprSort(Each(InKernel, SetToSeq(ivs)))

\* The elements of a reused cache are those the last input left; otherwise
\* they are fetched, in ascending order.
Begin(in, s) ==
  /\ pc = "idle"
  /\ pc' = "eval"
  /\ given' = in
  /\ script' = s
  /\ outcome' = "none"
  /\ existing' = IF fetched /\ ~s THEN existing
                 ELSE Ascending(kernel)
  /\ fetched' = TRUE
  /\ UNCHANGED <<automerge, kernel, pos, batch>>

Commands == Collapse(given)

Evaluating(op) ==
  pc = "eval" /\ pos <= Len(Commands) /\ Commands[pos].op = op

Elems == Each(New, Commands[pos].elems)

Evaluated ==
  /\ pos' = pos + 1
  /\ UNCHANGED <<automerge, kernel, pc, script, given, fetched, outcome>>

EvalAddMerge ==
  /\ Evaluating("add") /\ automerge
  /\ SetAutomerge(Elems)
  /\ Evaluated

EvalAddOverlap ==
  /\ Evaluating("add") /\ ~automerge
  /\ ~SetelemOverlap(SetSortSplice(Elems))
  /\ SetOverlap(Elems)
  /\ Evaluated

EvalDelete ==
  /\ Evaluating("delete")
  /\ Deleted(Elems).ok
  /\ SetDelete(Elems)
  /\ Evaluated

\* Fault: the cached elements outlive the flush.
EvalFlushKeepsCache ==
  /\ Evaluating("flush")
  /\ existing' = existing
  /\ batch' = Append(batch, [type |-> "flush", elems |-> <<>>])
  /\ Evaluated

\* __flush_set_cache() and mnl_nft_setelem_flush().
EvalFlush ==
  /\ Evaluating("flush")
  /\ existing' = <<>>
  /\ batch' = Append(batch, [type |-> "flush", elems |-> <<>>])
  /\ Evaluated

Return(how) ==
  /\ pc' = "idle"
  /\ outcome' = how
  /\ given' = <<>>
  /\ pos' = 1
  /\ batch' = <<>>
  /\ script' = FALSE
  /\ IF how = "done" /\ ~script THEN UNCHANGED <<existing, fetched>>
     ELSE existing' = <<>> /\ fetched' = FALSE
  /\ UNCHANGED automerge

EvalError ==
  /\ \/ Evaluating("add") /\ ~automerge /\ SetelemOverlap(SetSortSplice(Elems))
     \/ Evaluating("delete") /\ ~Deleted(Elems).ok
  /\ Return("rejected")
  /\ UNCHANGED kernel

EvalDone ==
  /\ pc = "eval" /\ pos > Len(Commands)
  /\ pc' = "send"
  /\ UNCHANGED <<automerge, kernel, script, given, pos, existing, fetched, batch,
                 outcome>>

\* The kernel: s is [ok, elems].
Overlaps(a, b) == a.l <= b.r /\ b.l <= a.r

KernelAdd(s, e) ==
  IF e \in s.elems THEN s
  ELSE [ok    |-> s.ok /\ e.l <= e.r /\ \A x \in s.elems : ~Overlaps(x, e),
        elems |-> s.elems \cup {e}]

KernelDel(s, e) == [ok |-> s.ok /\ e \in s.elems, elems |-> s.elems \ {e}]

KernelMsg(s, m) ==
  CASE m.type = "add"   -> FoldLeft(KernelAdd, s, m.elems)
    [] m.type = "del"   -> FoldLeft(KernelDel, s, m.elems)
    [] m.type = "flush" -> [s EXCEPT !.elems = {}]

Applied == FoldLeft(KernelMsg, [ok |-> TRUE, elems |-> kernel], batch)

Commit ==
  /\ pc = "send"
  /\ Applied.ok
  /\ kernel' = Applied.elems
  /\ Return("done")

\* For an element, or for a reason outside of the set.
Refused ==
  /\ pc = "send"
  /\ Return("refused")
  /\ UNCHANGED kernel

Next ==
  \/ \E in \in Input : Begin(in, FALSE)
  \/ \E in \in Script : Begin(in, TRUE)
  \/ EvalAddMerge \/ EvalAddOverlap \/ EvalDelete \/ EvalFlush \/ EvalError
  \/ EvalDone \/ Commit \/ Refused

Spec == Init /\ [][Next]_vars
-----------------------------------------------------------------------------
(* What the commands mean: with auto-merge on the keys in the set, without *)
(* it on its intervals.                                                    *)

Keys(ivs) == {k \in 0..MaxKey : \E i \in ivs : i.l <= k /\ k <= i.r}

\* s is [ok, keys].
MeaningMerge(s, cmd) ==
  LET keys == Keys(Bares(cmd.elems))
  IN CASE cmd.op = "add"    -> [s EXCEPT !.keys = @ \cup keys]
       [] cmd.op = "delete" -> [ok |-> s.ok /\ keys \subseteq s.keys,
                                keys |-> s.keys \ keys]
       [] cmd.op = "flush"  -> [s EXCEPT !.keys = {}]

MeaningPlain(s, cmd) ==
  KernelMsg(s, [type |-> IF cmd.op = "delete" THEN "del" ELSE cmd.op,
                elems |-> cmd.elems])

Wanted(cmds) ==
  IF automerge
  THEN FoldLeft(MeaningMerge, [ok |-> TRUE, keys |-> Keys(kernel)], cmds)
  ELSE FoldLeft(MeaningPlain, [ok |-> TRUE, elems |-> kernel], cmds)

-----------------------------------------------------------------------------
(* Properties. *)

\* Every cached element is marked as the kernel's between two commands
\* (EXPR_F_KERNEL): a mark that is missing sends the element again.
TypeOK ==
  /\ automerge \in BOOLEAN
  /\ kernel \subseteq Interval
  /\ pc \in {"idle", "eval", "send"}
  /\ script \in BOOLEAN
  /\ pos \in 1..(Len(given) + 1)
  /\ \A i \in DOMAIN existing : Bare(existing[i]) \in Interval /\ existing[i].k
  /\ fetched \in BOOLEAN
  /\ outcome \in {"none", "done", "rejected", "refused"}

\* list_splice_sorted() merges two lists that are in order: the cached elements
\* have to be when new ones join them.
AddsInOrder ==
  Evaluating("add") =>
    \A i, j \in DOMAIN existing : i < j => existing[i].l <= existing[j].l

\* What the commands of a committed input mean is what the set contains
\* afterwards: no merge or split loses a key or keeps a deleted one.
SetAsDescribed ==
  [][pc = "send" /\ outcome' = "done" =>
       LET wanted == Wanted(given)
       IN /\ wanted.ok
          /\ IF automerge THEN Keys(kernel') = wanted.keys
                          ELSE kernel' = wanted.elems]_vars

\* With auto-merge the set has no two adjacent intervals.
FullyMerged ==
  automerge => \A a, b \in kernel : a.r + 1 # b.l

\* The cached elements that the next input may reuse are the kernel's.
CacheFollowsSet == pc = "idle" /\ fetched => Bares(existing) = kernel

\* An input that passed the evaluation is one the kernel can apply: its
\* deletions name whole intervals and its additions overlap none.
KernelAgrees == pc = "send" => Applied.ok

\* "element does not exist" and "interval overlaps with an existing one" are
\* reported only when they are true.
RejectsRightly ==
  [][outcome = "none" /\ outcome' = "rejected" 
       => ~Wanted(SubSeq(Commands, 1, pos)).ok]_vars
=============================================================================
