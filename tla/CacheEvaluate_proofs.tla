------------------------ MODULE CacheEvaluate_proofs ------------------------
(***************************************************************************)
(* Proofs about CacheEvaluate, for every set of commands and inputs of any *)
(* length: the flag word that nft_cache_evaluate() returns covers what the *)
(* evaluation of each command looks up, has only bits of the cache, and    *)
(* marks a dump that is not complete.                                      *)
(***************************************************************************)
EXTENDS CacheEvaluate, TLAPS

\* A flag word that covers what a command looks up.
Covers(f, c) ==
  \A k \in Consults(c, Terse) :
    IF k = "elems" THEN f \cap {"setelem", "setelem_maybe"} # {} ELSE k \in f

\* The commands are kept as a sequence, each of them covered.
CoverInv ==
  /\ cmds \in Seq(Command)
  /\ \A i \in 1..Len(cmds) : Covers(flags, cmds[i])

-----------------------------------------------------------------------------
\* Adding flags never uncovers a command.
LEMMA CoversMonotone ==
  ASSUME NEW f, NEW g, NEW c, f \subseteq g, Covers(f, c)
  PROVE  Covers(g, c)
  BY DEF Covers

\* Evaluation looks up cacheable kinds and interval elements only.
LEMMA ConsultsKinds ==
  ASSUME NEW c
  PROVE  Consults(c, Terse) \subseteq CacheKinds \cup {"elems"}
<1>1. ConsultsAdd(c) \subseteq CacheKinds \cup {"elems"}
  BY DEF ConsultsAdd, CacheKinds
<1>2. ConsultsDelete(c) \subseteq CacheKinds \cup {"elems"}
  BY DEF ConsultsDelete, CacheKinds
<1>3. ConsultsList(c, Terse) \subseteq CacheKinds \cup {"elems"}
  BY DEF ConsultsList, CacheKinds, NFT_CACHE_SET, NFT_CACHE_SETELEM
<1>4. ConsultsReset(c) \subseteq CacheKinds /\ ConsultsFlush(c) \subseteq CacheKinds
  BY DEF ConsultsReset, ConsultsFlush, CacheKinds
<1> QED
  BY <1>1, <1>2, <1>3, <1>4 DEF Consults, CacheKinds

\* A full request covers every command.
LEMMA FullCovers ==
  ASSUME NEW f, NEW c, NFT_CACHE_FULL \subseteq f
  PROVE  Covers(f, c)
  BY ConsultsKinds DEF Covers, NFT_CACHE_FULL, CacheKinds

-----------------------------------------------------------------------------
(* Each case of the switch covers the command it handles. *)

LEMMA AddCovers ==
  ASSUME NEW c, c.op \in {"add", "create", "insert"}, NEW f
  PROVE  Covers(EvaluateCacheAdd(c, f), c)
<1>1. Consults(c, Terse) = ConsultsAdd(c)
  BY DEF Consults
<1> QED
  BY <1>1
  DEF Covers, ConsultsAdd, EvaluateCacheAdd, ObjectKinds, NFT_CACHE_TABLE,
      NFT_CACHE_CHAIN, NFT_CACHE_SET, NFT_CACHE_OBJECT, NFT_CACHE_FLOWTABLE,
      NFT_CACHE_RULE

LEMMA DeleteCovers ==
  ASSUME NEW c, c.op \in {"delete", "destroy"}, NEW f, NFT_CACHE_SET \subseteq f
  PROVE  Covers(EvaluateCacheDel(c, f), c)
<1>1. Consults(c, Terse) = ConsultsDelete(c)
  BY DEF Consults
<1> QED
  BY <1>1 DEF Covers, ConsultsDelete, EvaluateCacheDel, NFT_CACHE_SET

LEMMA ResetCovers ==
  ASSUME NEW c, c.op = "reset", NEW f
  PROVE  Covers(EvaluateCacheReset(c, f), c)
<1>1. Consults(c, Terse) = ConsultsReset(c)
  BY DEF Consults
<1> QED
  BY <1>1 DEF Covers, ConsultsReset, EvaluateCacheReset, NFT_CACHE_TABLE,
     NFT_CACHE_CHAIN, NFT_CACHE_SET, NFT_CACHE_OBJECT, NFT_CACHE_FLOWTABLE

LEMMA ListCovers ==
  ASSUME NEW c, c.op = "list", NEW f, NEW fl
  PROVE  Covers(EvaluateCacheList(c, f, fl, Terse), c)
<1>1. Consults(c, Terse) = ConsultsList(c, Terse)
  BY DEF Consults
<1> DEFINE g == EvaluateCacheList(c, f, fl, Terse)
<1>2. CASE c.obj = "table" /\ c.table = None
  <2>1. "table" \in g
    BY <1>2 DEF EvaluateCacheList, NFT_CACHE_TABLE
  <2>2. ConsultsList(c, Terse) = {"table"}
    BY <1>2, CacheEvaluateAssumption
    DEF ConsultsList, NFT_CACHE_SET, NFT_CACHE_SETELEM, CacheKinds, ObjectKinds
  <2> QED
    BY <1>1, <2>1, <2>2 DEF Covers
<1>3. CASE c.obj \in {"set", "map"}
  <2>1. {"table", "set", "setelem"} \subseteq g
    BY <1>3 DEF EvaluateCacheList, NFT_CACHE_SETELEM, NFT_CACHE_FULL, CacheKinds
  <2>2. ConsultsList(c, Terse) = NFT_CACHE_SETELEM
    BY <1>3, CacheEvaluateAssumption
    DEF ConsultsList, NFT_CACHE_SET, NFT_CACHE_SETELEM, CacheKinds, ObjectKinds
  <2> QED
    BY <1>1, <2>1, <2>2 DEF Covers, NFT_CACHE_SETELEM
<1>4. CASE c.obj \in {"sets", "maps"}
  <2>1. (IF Terse THEN NFT_CACHE_SET ELSE NFT_CACHE_SETELEM) \subseteq g
    BY <1>4 DEF EvaluateCacheList, NFT_CACHE_SET, NFT_CACHE_SETELEM
  <2>2. ConsultsList(c, Terse) = IF Terse THEN NFT_CACHE_SET ELSE NFT_CACHE_SETELEM
    BY <1>4, CacheEvaluateAssumption
    DEF ConsultsList, NFT_CACHE_SET, NFT_CACHE_SETELEM, CacheKinds, ObjectKinds
  <2>3. "elems" \notin NFT_CACHE_SET \cup NFT_CACHE_SETELEM
    BY DEF NFT_CACHE_SET, NFT_CACHE_SETELEM
  <2> QED
    BY <1>1, <2>1, <2>2, <2>3 DEF Covers
<1>5. CASE c.obj = "chains"
  <2>1. {"table", "chain"} \subseteq g
    BY <1>5 DEF EvaluateCacheList, NFT_CACHE_CHAIN
  <2>2. ConsultsList(c, Terse) = {"table", "chain"}
    BY <1>5, CacheEvaluateAssumption
    DEF ConsultsList, NFT_CACHE_SET, NFT_CACHE_SETELEM, CacheKinds, ObjectKinds
  <2> QED
    BY <1>1, <2>1, <2>2 DEF Covers
<1>6. CASE c.obj \in {"flowtable", "flowtables"}
  <2>1. {"table", "flowtable"} \subseteq g
    BY <1>6 DEF EvaluateCacheList, NFT_CACHE_FLOWTABLE
  <2>2. ConsultsList(c, Terse) = {"table", "flowtable"}
    BY <1>6, CacheEvaluateAssumption
    DEF ConsultsList, NFT_CACHE_SET, NFT_CACHE_SETELEM, CacheKinds, ObjectKinds
  <2> QED
    BY <1>1, <2>1, <2>2 DEF Covers
<1>7. CASE /\ ~(c.obj = "table" /\ c.table = None)
           /\ c.obj \notin {"set", "map", "sets", "maps", "chains",
                            "flowtable", "flowtables"}
  <2>1. NFT_CACHE_FULL \subseteq g
    BY <1>7 DEF EvaluateCacheList
  <2> QED
    BY <2>1, FullCovers
<1> QED
  BY <1>2, <1>3, <1>4, <1>5, <1>6, <1>7

LEMMA FlushCovers ==
  ASSUME NEW c, c.op = "flush", NEW f
  PROVE  Covers(EvaluateCacheFlush(c, f), c)
<1>1. Consults(c, Terse) = ConsultsFlush(c)
  BY DEF Consults
<1> QED
  BY <1>1 DEF Covers, ConsultsFlush, EvaluateCacheFlush, NFT_CACHE_SET

\* A get command is only parsed for elements.
GetsElements == \A c \in Command : c.op = "get" => c.obj = "elements"

\* A rename command is only parsed for chains.
RenamesChains == \A c \in Command : c.op = "rename" => c.obj = "chain"

-----------------------------------------------------------------------------
\* One more command, with a flag word that covers it and the earlier ones.
LEMMA IterateKeeps ==
  ASSUME CoverInv, NEW c \in Command, cmds' = Append(cmds, c),
         Covers(flags', c),
         flags \subseteq flags' \/ NFT_CACHE_FULL \subseteq flags'
  PROVE  CoverInv'
<1>1. cmds' \in Seq(Command) /\ Len(cmds') = Len(cmds) + 1 /\ Len(cmds) \in Nat
  BY DEF CoverInv
<1>2. ASSUME NEW i \in 1..Len(cmds') PROVE Covers(flags', cmds'[i])
  <2>1. CASE i = Len(cmds) + 1
    <3>1. cmds'[i] = c
      BY <2>1 DEF CoverInv
    <3> QED
      BY <3>1
  <2>2. CASE i \in 1..Len(cmds)
    <3>1. cmds'[i] = cmds[i] /\ Covers(flags, cmds[i])
      BY <2>2 DEF CoverInv
    <3> QED
      BY <3>1, CoversMonotone, FullCovers
  <2> QED
    BY <1>1, <1>2, <2>1, <2>2
<1> QED
  BY <1>1, <1>2 DEF CoverInv, Covers

LEMMA CoverStep ==
  ASSUME GetsElements, RenamesChains, CoverInv, NEW c \in Command, Step(c)
  PROVE  CoverInv'
<1>1. CASE EvalAdd(c)
  <2>1. /\ cmds' = Append(cmds, c)
        /\ EvaluateCacheAdd(c, flags) \subseteq flags'
        /\ Covers(EvaluateCacheAdd(c, flags), c)
    BY <1>1, AddCovers DEF EvalAdd, Iterate
  <2>2. flags \subseteq flags'
    BY <2>1 DEF EvaluateCacheAdd
  <2>3. Covers(flags', c)
    BY <2>1, CoversMonotone
  <2> QED
    BY <2>1, <2>2, <2>3, IterateKeeps
<1>2. CASE EvalReplace(c)
  <2>1. cmds' = Append(cmds, c) /\ flags' = NFT_CACHE_FULL
    BY <1>2 DEF EvalReplace, Iterate
  <2>2. NFT_CACHE_FULL \subseteq flags' /\ Covers(flags', c)
    BY <2>1, FullCovers
  <2> QED
    BY <2>1, <2>2, IterateKeeps
<1>3. CASE EvalDelete(c)
  <2> DEFINE f == flags \cup NFT_CACHE_TABLE \cup NFT_CACHE_CHAIN \cup NFT_CACHE_SET
                    \cup NFT_CACHE_FLOWTABLE \cup NFT_CACHE_OBJECT
  <2>1. cmds' = Append(cmds, c) /\ flags' = EvaluateCacheDel(c, f)
    BY <1>3 DEF EvalDelete, Iterate
  <2>2. Covers(flags', c)
    BY <1>3, <2>1, DeleteCovers DEF EvalDelete
  <2>3. flags \subseteq flags'
    BY <2>1 DEF EvaluateCacheDel
  <2> QED
    BY <2>1, <2>2, <2>3, IterateKeeps
<1>4. CASE EvalGet(c)
  <2>1. Covers(flags', c)
    BY <1>4 DEF EvalGet, EvaluateCacheGet, GetsElements, Covers, Consults,
       NFT_CACHE_SETELEM
  <2> QED
    BY <1>4, <2>1, IterateKeeps DEF EvalGet, Iterate, EvaluateCacheGet
<1>5. CASE EvalReset(c)
  BY <1>5, ResetCovers, CoversMonotone, IterateKeeps DEF EvalReset, Iterate
<1>6. CASE EvalList(c)
  BY <1>6, ListCovers, CoversMonotone, IterateKeeps DEF EvalList, Iterate
<1>7. CASE EvalMonitor(c)
  BY <1>7, FullCovers, IterateKeeps DEF EvalMonitor, Iterate
<1>8. CASE EvalTarget(c)
  <2>1. Covers(flags', c)
    BY <1>8 DEF EvalTarget, Covers, Consults
  <2> QED
    BY <1>8, <2>1, IterateKeeps DEF EvalTarget, Iterate
<1>9. CASE EvalFlush(c)
  BY <1>9, FlushCovers, IterateKeeps DEF EvalFlush, Iterate, EvaluateCacheFlush
<1>10. CASE EvalRename(c)
  <2>1. Covers(flags', c)
    BY <1>10 DEF EvalRename, EvaluateCacheRename, RenamesChains, Covers,
       Consults, NFT_CACHE_CHAIN
  <2> QED
    BY <1>10, <2>1, IterateKeeps DEF EvalRename, Iterate, EvaluateCacheRename
<1>11. CASE EvalOther(c)
  <2>1. Covers(flags', c)
    BY <1>11 DEF EvalOther, Covers, Consults
  <2> QED
    BY <1>11, <2>1, IterateKeeps DEF EvalOther, Iterate
<1>12. CASE Reject(c)
  BY <1>12 DEF Reject, CoverInv, Covers
<1> QED
  BY <1>1, <1>2, <1>3, <1>4, <1>5, <1>6, <1>7, <1>8, <1>9, <1>10, <1>11, <1>12
  DEF Step

\* Whatever the commands of an input and their order, the flag word covers all
\* that the evaluation of each of them looks up.
THEOREM NeedsAlwaysCovered ==
  ASSUME GetsElements, RenamesChains
  PROVE  Spec => []NeedsCovered
<1>1. Init => CoverInv
  BY DEF Init, CoverInv
<1>2. CoverInv /\ [Next]_vars => CoverInv'
  <2> SUFFICES ASSUME CoverInv, [Next]_vars PROVE CoverInv'
    OBVIOUS
  <2>1. CASE UNCHANGED vars
    BY <2>1 DEF vars, CoverInv, Covers
  <2>2. CASE Return
    BY <2>2 DEF Return, CoverInv, Covers
  <2> QED
    BY <2>1, <2>2, CoverStep DEF Next
<1>3. CoverInv => NeedsCovered
  BY DEF CoverInv, Covers, NeedsCovered, Evaluated, Fetched
<1> QED
  BY <1>1, <1>2, <1>3, PTL DEF Spec
-----------------------------------------------------------------------------
(* The flag word and the filter keep their form. *)

\* What the functions on a flag word add are flags of the cache.
LEMMA FlagsType ==
  ASSUME NEW c, NEW f, f \subseteq CacheFlag
  PROVE  /\ EvaluateCacheAdd(c, f) \subseteq CacheFlag
         /\ EvaluateCacheDel(c, f) \subseteq CacheFlag
         /\ EvaluateCacheGet(c, f) \subseteq CacheFlag
         /\ EvaluateCacheFlush(c, f) \subseteq CacheFlag
         /\ EvaluateCacheRename(c, f) \subseteq CacheFlag
         /\ EvaluateCacheReset(c, f) \subseteq CacheFlag
         /\ \A g : EvaluateCacheList(c, f, g, Terse) \subseteq CacheFlag
<1> USE DEF CacheFlag, CacheKinds, ModifierFlags, NFT_CACHE_TABLE, NFT_CACHE_CHAIN,
            NFT_CACHE_SET, NFT_CACHE_FLOWTABLE, NFT_CACHE_OBJECT, NFT_CACHE_SETELEM,
            NFT_CACHE_RULE, NFT_CACHE_FULL
<1>1. EvaluateCacheAdd(c, f) \subseteq CacheFlag
  BY DEF EvaluateCacheAdd
<1>2. /\ EvaluateCacheDel(c, f) \subseteq CacheFlag
      /\ EvaluateCacheGet(c, f) \subseteq CacheFlag
      /\ EvaluateCacheRename(c, f) \subseteq CacheFlag
  BY DEF EvaluateCacheDel, EvaluateCacheGet, EvaluateCacheRename
<1>3. EvaluateCacheFlush(c, f) \subseteq CacheFlag /\ EvaluateCacheReset(c, f) \subseteq CacheFlag
  BY DEF EvaluateCacheFlush, EvaluateCacheReset
<1>4. \A g : EvaluateCacheList(c, f, g, Terse) \subseteq CacheFlag
  BY DEF EvaluateCacheList
<1> QED BY <1>1, <1>2, <1>3, <1>4

\* No function on a filter adds a field or takes one away.
LEMMA FilterType ==
  ASSUME NEW c, NEW g, DOMAIN g = DOMAIN NoFilter
  PROVE  DOMAIN ListFilter(c, g) = DOMAIN NoFilter /\ DOMAIN ResetFilter(c, g) = DOMAIN NoFilter
BY DEF ListFilter, ResetFilter

\* Each case of the switch keeps it.
LEMMA TypeStep ==
  ASSUME TypeOK, NEW c \in Command, Step(c)
  PROVE  TypeOK'
<1>1. cmds \in Seq(Command) /\ flags \subseteq CacheFlag /\ DOMAIN filter = DOMAIN NoFilter
  BY DEF TypeOK
<1>2. DOMAIN FilterBefore(c) = DOMAIN NoFilter
  BY <1>1 DEF FilterBefore
<1>3. status' \in {"loop", "done", "error"}
  BY DEF TypeOK, Step, Reject, EvalAdd, EvalReplace, EvalDelete, EvalGet, EvalReset, EvalList,
         EvalMonitor, EvalTarget, EvalFlush, EvalRename, EvalOther, Iterate
<1>4. cmds' \in Seq(Command)
  <2>1. cmds' = cmds \/ cmds' = Append(cmds, c)
    BY DEF Step, Reject, EvalAdd, EvalReplace, EvalDelete, EvalGet, EvalReset, EvalList,
           EvalMonitor, EvalTarget, EvalFlush, EvalRename, EvalOther, Iterate
  <2> QED BY <1>1, <2>1
<1>5. DOMAIN filter' = DOMAIN NoFilter
  <2>1. \/ filter' = filter \/ filter' = FilterBefore(c)
        \/ filter' = ListFilter(c, FilterBefore(c)) \/ filter' = ResetFilter(c, FilterBefore(c))
    BY DEF Step, Reject, EvalAdd, EvalReplace, EvalDelete, EvalGet, EvalReset, EvalList,
           EvalMonitor, EvalTarget, EvalFlush, EvalRename, EvalOther
  <2> QED BY <1>1, <1>2, <2>1, FilterType
<1>6. flags' \subseteq CacheFlag
  <2>0. /\ NFT_CACHE_FULL \subseteq CacheFlag
        /\ TABLE_F_APPTGT \subseteq CacheFlag /\ TABLE_F_HOSTTGT \subseteq CacheFlag
    BY DEF NFT_CACHE_FULL, CacheFlag, CacheKinds, TABLE_F_APPTGT, TABLE_F_HOSTTGT
  <2>1. CASE EvalAdd(c)
    BY <1>1, <2>0, <2>1, FlagsType DEF EvalAdd
  <2>2. CASE EvalReplace(c)
    BY <2>0, <2>2 DEF EvalReplace
  <2>3. CASE EvalDelete(c)
    <3> DEFINE f == flags \cup NFT_CACHE_TABLE \cup NFT_CACHE_CHAIN \cup NFT_CACHE_SET
                      \cup NFT_CACHE_FLOWTABLE \cup NFT_CACHE_OBJECT
    <3>1. f \subseteq CacheFlag
      BY <1>1 DEF CacheFlag, CacheKinds, NFT_CACHE_TABLE, NFT_CACHE_CHAIN, NFT_CACHE_SET,
                  NFT_CACHE_FLOWTABLE, NFT_CACHE_OBJECT
    <3> QED BY <2>3, <3>1, FlagsType DEF EvalDelete
  <2>4. CASE EvalGet(c)
    BY <1>1, <2>4, FlagsType DEF EvalGet
  <2>5. CASE EvalReset(c)
    BY <1>1, <2>5, FlagsType DEF EvalReset
  <2>6. CASE EvalList(c)
    BY <1>1, <2>6, FlagsType DEF EvalList
  <2>7. CASE EvalMonitor(c)
    BY <1>1, <2>0, <2>7 DEF EvalMonitor
  <2>8. CASE EvalTarget(c)
    BY <1>1, <2>0, <2>8 DEF EvalTarget
  <2>9. CASE EvalFlush(c)
    BY <1>1, <2>9, FlagsType DEF EvalFlush
  <2>10. CASE EvalRename(c)
    BY <1>1, <2>10, FlagsType DEF EvalRename
  <2>11. CASE EvalOther(c) \/ Reject(c)
    BY <1>1, <2>11 DEF EvalOther, Reject
  <2> QED
    BY <2>1, <2>2, <2>3, <2>4, <2>5, <2>6, <2>7, <2>8, <2>9, <2>10, <2>11 DEF Step
<1> QED BY <1>3, <1>4, <1>5, <1>6 DEF TypeOK

\* The flag word of nft_cache_evaluate() never gets a bit that is none of the
\* cache's, the table flags of "appfw" and "hostfw" included.
THEOREM TypeCorrect == Spec => []TypeOK
<1>1. Init => TypeOK
  BY DEF Init, TypeOK, NFT_CACHE_EMPTY
<1>2. TypeOK /\ [Next]_vars => TypeOK'
  <2> SUFFICES ASSUME TypeOK, [Next]_vars PROVE TypeOK'
    OBVIOUS
  <2>1. CASE UNCHANGED vars
    BY <2>1 DEF vars, TypeOK
  <2>2. CASE Return
    BY <2>2 DEF Return, TypeOK
  <2> QED BY <2>1, <2>2, TypeStep DEF Next
<1> QED BY <1>1, <1>2, PTL DEF Spec

-----------------------------------------------------------------------------
(* Partial dumps. *)

\* The functions on a flag word keep the modifiers they do not set.
LEMMA ModifiersKept ==
  ASSUME NEW c, NEW f
  PROVE  /\ \A m \in {"refresh", "terse"} :
              /\ m \in EvaluateCacheAdd(c, f) <=> m \in f
              /\ m \in EvaluateCacheDel(c, f) <=> m \in f
              /\ m \in EvaluateCacheGet(c, f) <=> m \in f
              /\ m \in EvaluateCacheFlush(c, f) <=> m \in f
              /\ m \in EvaluateCacheRename(c, f) <=> m \in f
         /\ "refresh" \in EvaluateCacheReset(c, f)
         /\ \A g : "refresh" \in EvaluateCacheList(c, f, g, Terse)
<1> USE DEF CacheKinds, NFT_CACHE_TABLE, NFT_CACHE_CHAIN, NFT_CACHE_SET, NFT_CACHE_FLOWTABLE,
            NFT_CACHE_OBJECT, NFT_CACHE_SETELEM, NFT_CACHE_RULE, NFT_CACHE_FULL
<1>1. \A m \in {"refresh", "terse"} : m \in EvaluateCacheAdd(c, f) <=> m \in f
  BY DEF EvaluateCacheAdd
<1>2. \A m \in {"refresh", "terse"} :
         /\ m \in EvaluateCacheDel(c, f) <=> m \in f
         /\ m \in EvaluateCacheGet(c, f) <=> m \in f
         /\ m \in EvaluateCacheRename(c, f) <=> m \in f
  BY DEF EvaluateCacheDel, EvaluateCacheGet, EvaluateCacheRename
<1>3. \A m \in {"refresh", "terse"} : m \in EvaluateCacheFlush(c, f) <=> m \in f
  BY DEF EvaluateCacheFlush
<1>4. "refresh" \in EvaluateCacheReset(c, f) /\ \A g : "refresh" \in EvaluateCacheList(c, f, g, Terse)
  BY DEF EvaluateCacheReset, EvaluateCacheList
<1> QED BY <1>1, <1>2, <1>3, <1>4

\* Only a listing or a reset restricts a dump, and it sets REFRESH; the other
\* cases keep the flag and add no restriction.
LEMMA PartialStep ==
  ASSUME cmds \in Seq(Command), PartialNeverReused, NEW c \in Command, Step(c)
  PROVE  PartialNeverReused'
<1> DEFINE Whole == filter = NoFilter /\ "terse" \notin flags
           Replaced == \E d \in Evaluated : d.op = "replace"
<1>1. CASE Reject(c)
  BY <1>1 DEF Reject, PartialNeverReused, Evaluated
<1>2. CASE ~Reject(c)
  <2>1. cmds' = Append(cmds, c)
    BY <1>2 DEF Step, EvalAdd, EvalReplace, EvalDelete, EvalGet, EvalReset, EvalList,
           EvalMonitor, EvalTarget, EvalFlush, EvalRename, EvalOther, Iterate
  <2>2. Evaluated' = Evaluated \cup {c}
    <3>1. /\ Len(cmds') = Len(cmds) + 1 /\ Len(cmds) \in Nat /\ cmds'[Len(cmds) + 1] = c
          /\ \A i \in 1..Len(cmds) : cmds'[i] = cmds[i]
      BY <2>1
    <3>2. 1..Len(cmds') = 1..Len(cmds) \cup {Len(cmds) + 1}
      BY <3>1
    <3> QED BY <3>1, <3>2 DEF Evaluated
  <2>3. CASE Replaced \/ c.op = "replace"
    BY <2>2, <2>3 DEF PartialNeverReused
  <2>4. CASE ~Replaced /\ c.op # "replace"
    <3>1. Whole \/ "refresh" \in flags
      BY <2>4 DEF PartialNeverReused
    <3>2. Whole => FilterBefore(c) = NoFilter
      BY DEF FilterBefore
    <3>3. "refresh" \in flags' \/ (Whole /\ filter' = FilterBefore(c) /\ "terse" \notin flags')
      <4> USE DEF CacheKinds, NFT_CACHE_TABLE, NFT_CACHE_CHAIN, NFT_CACHE_SET, NFT_CACHE_FLOWTABLE,
                  NFT_CACHE_OBJECT, NFT_CACHE_FULL, TABLE_F_APPTGT, TABLE_F_HOSTTGT
      <4>1. CASE EvalAdd(c)
        BY <3>1, <4>1, ModifiersKept DEF EvalAdd
      <4>2. CASE EvalDelete(c)
        <5> DEFINE f == flags \cup NFT_CACHE_TABLE \cup NFT_CACHE_CHAIN \cup NFT_CACHE_SET
                          \cup NFT_CACHE_FLOWTABLE \cup NFT_CACHE_OBJECT
        <5>1. \A m \in {"refresh", "terse"} : m \in f <=> m \in flags
          OBVIOUS
        <5> HIDE DEF f
        <5>2. flags' = EvaluateCacheDel(c, f) /\ filter' = FilterBefore(c)
          BY <4>2 DEF EvalDelete, f
        <5> QED BY <3>1, <5>1, <5>2, ModifiersKept
      <4>3. CASE EvalGet(c)
        BY <3>1, <4>3, ModifiersKept DEF EvalGet
      <4>4. CASE EvalReset(c) \/ EvalList(c)
        BY <4>4, ModifiersKept DEF EvalReset, EvalList
      <4>5. CASE EvalMonitor(c) \/ EvalTarget(c) \/ EvalOther(c)
        BY <3>1, <4>5 DEF EvalMonitor, EvalTarget, EvalOther
      <4>6. CASE EvalFlush(c)
        BY <3>1, <4>6, ModifiersKept DEF EvalFlush
      <4>7. CASE EvalRename(c)
        BY <3>1, <4>7, ModifiersKept DEF EvalRename
      <4> QED BY <1>2, <2>4, <4>1, <4>2, <4>3, <4>4, <4>5, <4>6, <4>7 DEF Step, EvalReplace
    <3> QED BY <3>2, <3>3 DEF PartialNeverReused
  <2> QED BY <2>3, <2>4
<1> QED BY <1>1, <1>2

\* Whatever the commands and their order, a dump that a filter or terse mode
\* restricts is marked for a refresh, unless a replace command has assigned the
\* flag word.
THEOREM PartialSafe == Spec => []PartialNeverReused
<1>1. Init => PartialNeverReused
  BY DEF Init, PartialNeverReused, NFT_CACHE_EMPTY
<1>2. TypeOK /\ PartialNeverReused /\ [Next]_vars => PartialNeverReused'
  <2> SUFFICES ASSUME TypeOK, PartialNeverReused, [Next]_vars PROVE PartialNeverReused'
    OBVIOUS
  <2>1. CASE UNCHANGED vars
    BY <2>1 DEF vars, PartialNeverReused, Evaluated
  <2>2. CASE Return
    BY <2>2 DEF Return, PartialNeverReused, Evaluated
  <2> QED BY <2>1, <2>2, PartialStep DEF Next, TypeOK
<1> QED BY <1>1, <1>2, TypeCorrect, PTL DEF Spec
=============================================================================
