--------------------------- MODULE NftCache_proofs ---------------------------
(***************************************************************************)
(* Proofs about NftCache, for any number of clients, tables and inputs.    *)
(*                                                                         *)
(* Type correctness and the two safety properties of the cache protocol    *)
(* are proved from one inductive invariant.  The safety properties need    *)
(* what the code takes for granted: the 16 bits of the generation do not   *)
(* wrap (NoWrap), generation requests are answered (Answered), and every   *)
(* input that does not ask for a refresh has a transaction whose changes   *)
(* its evaluation repeats in the cache (Faithful).  The model checker      *)
(* shows what happens without the first (NftCache_wrap) and the third      *)
(* (Transaction_rename).                                                   *)
(***************************************************************************)
EXTENDS NftCache, TLAPS

NoWrap == MaxGen < GenMod

Answered == GetgenFails = FALSE

Faithful(b) ==
  \/ "refresh" \in b.flags /\ "flushed" \notin b.flags
  \/ b.commits /\ ("flushed" \in b.flags \/ b.writes \subseteq b.mirrors)

AllFaithful == \A b \in Batch : Faithful(b)

\* The cache holds the kernel's version of all it promises to its readers.
Match(c) == \A i \in Item : UsedBy(cflags[c], i) => data[c][i] = {kver[i]}

\* A cache without a generation is empty and promises nothing.
Unpopulated(c) ==
  pc[c] # "fill" /\ cgen[c] = 0 => data[c] = NothingLoaded /\ cflags[c] = {}

\* Between inputs: the cache will not be reused, or the kernel is exactly one
\* generation ahead because of the client's own transaction.
Resting(c) ==
  pc[c] \in {"idle", "genid"} =>
    \/ cgen[c] = 0
    \/ "refresh" \in cflags[c]
    \/ kgen >= cgen[c] + 2
    \/ kgen = cgen[c] + 1 /\ Match(c)

\* During the dumps: as long as the kernel has not moved, what has been
\* dumped is what the kernel has.
Filling(c) ==
  pc[c] = "fill" =>
    /\ start[c] \in 1..kgen
    /\ genid[c] = start[c]
    /\ cgen[c] = 0
    /\ "flushed" \notin req[c].flags
    /\ \A i \in Item : i \in todo[c] => data[c][i] = {}
    /\ kgen = start[c] =>
         \A i \in Item : Dumped(req[c].flags, i) /\ Reliable(i) /\ i \notin todo[c]
                           => data[c][i] = {kver[i]}

\* During evaluation: as long as the kernel has not moved, the cache matches.
Ready(c) ==
  pc[c] = "ready" =>
    /\ cgen[c] \in 1..kgen
    /\ kgen = cgen[c] => Match(c)
    /\ "refresh" \in req[c].flags /\ "flushed" \notin req[c].flags
         => "refresh" \in cflags[c]
    /\ "flushed" \in req[c].flags => cflags[c] \subseteq {"update"}

ClientInv(c) ==
  /\ "flushed" \notin cflags[c]
  /\ Unpopulated(c)
  /\ Resting(c)
  /\ Filling(c)
  /\ Ready(c)

IInv == TypeOK /\ \A c \in Client : ClientInv(c)

-----------------------------------------------------------------------------
\* Without wrap, the 16 bits identify the generation.
LEMMA ResIdExact ==
  ASSUME NoWrap, NEW g \in 1..MaxGen
  PROVE  ResId(g) = g
  BY NftCacheAssumption DEF NoWrap, ResId

\* An answered request returns the generation itself.
LEMMA GenidExact ==
  ASSUME NoWrap, Answered, TypeOK, NEW c \in Client
  PROVE  MnlGenidGet(c) = {kgen}
  BY ResIdExact DEF MnlGenidGet, Answered, TypeOK

\* A kind cannot be both a modifier and an item: the promises of a flag word
\* without kinds are empty.
LEMMA NothingCovered ==
  ASSUME NEW i \in Item, NEW flags, flags \subseteq {"update"}
  PROVE  ~Covered(flags, i)
<1>1. KindOf(i) # "update"
  BY NftCacheAssumption DEF KindOf, Item, GlobalDumps, TableDumps
<1> QED
  BY <1>1 DEF Covered

\* Every promise of a flag word is backed by a dump.
LEMMA CoveredDumped ==
  ASSUME NEW i \in Item, NEW flags, Covered(flags, i)
  PROVE  Dumped(flags, i)
  BY DEF Covered, Dumped, NFT_CACHE_EMPTY

\* What a smaller flag word is used for, a larger one is used for as well.
LEMMA UsedByMonotone ==
  ASSUME NEW i \in Item, NEW f, NEW g, f \subseteq g, UsedBy(f, i)
  PROVE  UsedBy(g, i)
  BY DEF UsedBy, Covered

-----------------------------------------------------------------------------
(* Type correctness. *)

LEMMA TypeInit == Init => TypeOK
  BY NftCacheAssumption
  DEF Init, TypeOK, NFT_CACHE_EMPTY, CacheFlag, NothingLoaded

\* The generations requests return are natural numbers.
LEMMA GenidNat ==
  ASSUME TypeOK, NEW c \in Client, NEW g \in MnlGenidGet(c)
  PROVE  g \in Nat
  BY NftCacheAssumption DEF MnlGenidGet, ResId, TypeOK

\* A transaction keeps the kernel's variables in their types.
LEMMA TransactionType ==
  ASSUME TypeOK, NEW w, w \subseteq Item, Transaction(w)
  PROVE  /\ kgen' \in 1..MaxGen
         /\ kver' \in [Item -> 1..kgen']
         /\ kempty' \subseteq Item
<1>1. kgen' \in 1..MaxGen /\ kgen' = kgen + 1
  BY NftCacheAssumption DEF TypeOK, Transaction
<1>2. kver' \in [Item -> 1..kgen']
  BY <1>1 DEF TypeOK, Transaction
<1>3. kempty' \subseteq Item
  BY DEF TypeOK, Transaction
<1> QED
  BY <1>1, <1>2, <1>3

LEMMA TypeNext == TypeOK /\ [Next]_vars => TypeOK'
<1> SUFFICES ASSUME TypeOK, [Next]_vars PROVE TypeOK'
  OBVIOUS
<1> USE NftCacheAssumption
<1>1. ASSUME NEW c \in Client, Begin(c) PROVE TypeOK'
  BY <1>1 DEF TypeOK, Begin, kernel
<1>2. ASSUME NEW c \in Client, Reuse(c) PROVE TypeOK'
  BY <1>2, GenidNat DEF TypeOK, Reuse, kernel
<1>3. ASSUME NEW c \in Client, SkipFlushed(c) PROVE TypeOK'
  <2>1. data' \in [Client -> [Item -> SUBSET Nat]]
    BY <1>3 DEF TypeOK, SkipFlushed, DropOld, NothingLoaded
  <2>2. cflags' \in [Client -> SUBSET CacheFlag]
    BY <1>3 DEF TypeOK, SkipFlushed, BatchOK
  <2> QED
    BY <1>3, <2>1, <2>2, GenidNat DEF TypeOK, SkipFlushed, kernel
<1>4. ASSUME NEW c \in Client, BeginFill(c) PROVE TypeOK'
  <2>1. data' \in [Client -> [Item -> SUBSET Nat]]
    BY <1>4 DEF TypeOK, BeginFill, DropOld, NothingLoaded
  <2> QED
    BY <1>4, <2>1, GenidNat DEF TypeOK, BeginFill, NFT_CACHE_EMPTY, kernel
<1>5. ASSUME NEW c \in Client, NEW i \in Item, Dump(c, i) PROVE TypeOK'
  <2>1. kver[i] \in Nat
    BY DEF TypeOK
  <2>2. data' \in [Client -> [Item -> SUBSET Nat]]
    BY <1>5, <2>1 DEF TypeOK, Dump
  <2> QED
    BY <1>5, <2>2 DEF TypeOK, Dump, kernel
<1>6. ASSUME NEW c \in Client, NEW i \in Item, DumpInterrupted(c, i) PROVE TypeOK'
  BY <1>6 DEF TypeOK, DumpInterrupted, Release, NothingLoaded, NFT_CACHE_EMPTY, kernel
<1>7. ASSUME NEW c \in Client, NEW i \in Item, DumpRefusedSoft(c, i) PROVE TypeOK'
  BY <1>7 DEF TypeOK, DumpRefusedSoft, kernel
<1>8. ASSUME NEW c \in Client, NEW i \in Item, DumpRefusedHard(c, i) PROVE TypeOK'
  BY <1>8 DEF TypeOK, DumpRefusedHard, Release, NothingLoaded, NFT_CACHE_EMPTY, kernel
<1>9. ASSUME NEW c \in Client, Accept(c) PROVE TypeOK'
  <2>1. cflags' \in [Client -> SUBSET CacheFlag]
    BY <1>9 DEF TypeOK, Accept, BatchOK
  <2> QED
    BY <1>9, <2>1 DEF TypeOK, Accept, kernel
<1>10. ASSUME NEW c \in Client, Replay(c) PROVE TypeOK'
  BY <1>10, GenidNat
  DEF TypeOK, Replay, Release, NothingLoaded, NFT_CACHE_EMPTY, kernel
<1>11. ASSUME NEW c \in Client, Commit(c) PROVE TypeOK'
  <2>1. req[c].writes \subseteq Item
    BY DEF TypeOK, BatchOK
  <2>2. kgen' \in 1..MaxGen /\ kver' \in [Item -> 1..kgen'] /\ kempty' \subseteq Item
    BY <1>11, <2>1, TransactionType DEF Commit
  <2>3. kgen + 1 \in Nat
    BY DEF TypeOK
  <2>4. data' \in [Client -> [Item -> SUBSET Nat]]
    BY <1>11, <2>3 DEF TypeOK, Commit
  <2> QED
    BY <1>11, <2>2, <2>4 DEF TypeOK, Commit
<1>12. ASSUME NEW c \in Client, ReadOnly(c) PROVE TypeOK'
  BY <1>12 DEF TypeOK, ReadOnly, kernel
<1>13. ASSUME NEW c \in Client, Abort(c) PROVE TypeOK'
  BY <1>13 DEF TypeOK, Abort, Release, NothingLoaded, NFT_CACHE_EMPTY, kernel
<1>14. ASSUME ExternalCommit PROVE TypeOK'
  <2>1. PICK w \in ExtWrites : Transaction(w)
    BY <1>14 DEF ExternalCommit
  <2>2. kgen' \in 1..MaxGen /\ kver' \in [Item -> 1..kgen'] /\ kempty' \subseteq Item
    BY <2>1, TransactionType
  <2> QED
    BY <1>14, <2>2 DEF TypeOK, ExternalCommit
<1>15. CASE UNCHANGED vars
  BY <1>15 DEF TypeOK, vars
<1> QED
  BY <1>1, <1>2, <1>3, <1>4, <1>5, <1>6, <1>7, <1>8, <1>9, <1>10, <1>11,
     <1>12, <1>13, <1>14, <1>15 DEF Next, Update

\* Every behaviour of the cache protocol stays within its types.
THEOREM TypeCorrect == Spec => []TypeOK
  BY TypeInit, TypeNext, PTL DEF Spec
-----------------------------------------------------------------------------
(* The inductive invariant. *)

LEMMA IInvInit == Init => IInv
<1> SUFFICES ASSUME Init PROVE IInv
  OBVIOUS
<1>1. TypeOK
  BY TypeInit
<1>2. ASSUME NEW c \in Client PROVE ClientInv(c)
  BY DEF Init, ClientInv, Unpopulated, Resting, Filling, Ready, NFT_CACHE_EMPTY
<1> QED
  BY <1>1, <1>2 DEF IInv

\* The variables of client c do not change.
Still(c) ==
  /\ pc'[c] = pc[c] /\ req'[c] = req[c] /\ genid'[c] = genid[c]
  /\ start'[c] = start[c] /\ todo'[c] = todo[c] /\ cgen'[c] = cgen[c]
  /\ cflags'[c] = cflags[c] /\ data'[c] = data[c]

\* A client that takes no step keeps its part of the invariant, whether the
\* kernel stays or moves to the next generation.
LEMMA StillKeeps ==
  ASSUME TypeOK, NEW c \in Client, ClientInv(c), Still(c),
         UNCHANGED kernel \/ kgen' = kgen + 1
  PROVE  ClientInv(c)'
<1>1. kgen \in Nat /\ cgen[c] \in Nat /\ start[c] \in Nat
  BY DEF TypeOK
<1>2. CASE UNCHANGED kernel
  BY <1>2 DEF ClientInv, Still, kernel, Unpopulated, Resting, Filling, Ready, Match
<1>3. CASE kgen' = kgen + 1
  <2>1. Unpopulated(c)' /\ "flushed" \notin cflags'[c]
    BY DEF ClientInv, Still, Unpopulated
  <2>2. Resting(c)'
    BY <1>1, <1>3 DEF ClientInv, Still, Resting
  <2>3. Filling(c)'
    BY <1>1, <1>3 DEF ClientInv, Still, Filling
  <2>4. Ready(c)'
    BY <1>1, <1>3 DEF ClientInv, Still, Ready
  <2> QED
    BY <2>1, <2>2, <2>3, <2>4 DEF ClientInv
<1> QED
  BY <1>2, <1>3

\* A released client that is not filling satisfies its part trivially.
LEMMA ReleasedKeeps ==
  ASSUME TypeOK, NEW c \in Client, Release(c), pc'[c] \in {"idle", "genid"}
  PROVE  ClientInv(c)'
  BY DEF TypeOK, Release, ClientInv, Unpopulated, Resting, Filling, Ready,
         NFT_CACHE_EMPTY

LEMMA BeginKeeps ==
  ASSUME TypeOK, NEW c \in Client, ClientInv(c), Begin(c)
  PROVE  ClientInv(c)'
  BY DEF TypeOK, Begin, kernel, ClientInv, Unpopulated, Resting, Filling, Ready, Match

\* A reused cache is one generation behind the kernel and matches it, or is
\* empty and asked for nothing.
LEMMA ReuseMatches ==
  ASSUME NoWrap, Answered, TypeOK, NEW c \in Client, ClientInv(c), Reuse(c)
  PROVE  /\ req[c].flags \subseteq cflags[c]
         /\ "refresh" \notin req[c].flags
         /\ Match(c)
         /\ cgen'[c] = kgen
<1>1. PICK g \in MnlGenidGet(c) : Reusable(c, g) /\ cgen' = [cgen EXCEPT ![c] = g]
  BY DEF Reuse
<1>2. g = kgen
  BY GenidExact
<1>3. /\ req[c].flags \subseteq cflags[c]
      /\ "refresh" \notin req[c].flags
      /\ "refresh" \notin cflags[c]
      /\ kgen = cgen[c] \/ kgen = cgen[c] + 1
  BY <1>1, <1>2
  DEF Reusable, NftCacheNeedsRefresh, NftCacheIsComplete, NftCacheIsUpdated
<1>4. cgen'[c] = kgen
  BY <1>1, <1>2 DEF TypeOK
<1>5. cgen[c] \in Nat /\ kgen \in Nat /\ pc[c] = "genid"
  BY DEF TypeOK, Reuse
<1>6. CASE cgen[c] = 0
  <2>1. cflags[c] \subseteq {"update"}
    BY <1>5, <1>6 DEF ClientInv, Unpopulated
  <2>2. Match(c)
    BY <2>1, NothingCovered DEF Match, UsedBy
  <2> QED
    BY <1>3, <1>4, <2>2
<1>7. CASE cgen[c] # 0
  <2>1. Match(c)
    BY <1>3, <1>5, <1>7 DEF ClientInv, Resting
  <2> QED
    BY <1>3, <1>4, <2>1
<1> QED
  BY <1>6, <1>7

LEMMA ReuseKeeps ==
  ASSUME NoWrap, Answered, TypeOK, NEW c \in Client, ClientInv(c), Reuse(c)
  PROVE  ClientInv(c)'
<1>1. /\ pc'[c] = "ready" /\ req'[c] = req[c] /\ cflags'[c] = cflags[c]
      /\ data'[c] = data[c] /\ UNCHANGED kernel
  BY DEF TypeOK, Reuse
<1>2. /\ req[c].flags \subseteq cflags[c] /\ "refresh" \notin req[c].flags
      /\ Match(c) /\ cgen'[c] = kgen
  BY ReuseMatches
<1>3. kgen \in 1..kgen
  BY DEF TypeOK
<1>4. Match(c)'
  BY <1>1, <1>2 DEF Match, kernel
<1>5. "flushed" \notin req[c].flags /\ "flushed" \notin cflags[c]
  BY <1>2 DEF ClientInv
<1>6. Ready(c)'
  BY <1>1, <1>2, <1>3, <1>4, <1>5 DEF Ready, kernel
<1>7. Unpopulated(c)'
  BY <1>1, <1>2, <1>3 DEF Unpopulated, kernel
<1> QED
  BY <1>1, <1>5, <1>6, <1>7 DEF ClientInv, Resting, Filling

LEMMA SkipFlushedKeeps ==
  ASSUME NoWrap, Answered, TypeOK, NEW c \in Client, ClientInv(c), SkipFlushed(c)
  PROVE  ClientInv(c)'
<1>1. /\ pc'[c] = "ready" /\ req'[c] = req[c] /\ UNCHANGED kernel
      /\ cflags'[c] = req[c].flags \cap {"update"} /\ "flushed" \in req[c].flags
  BY DEF TypeOK, SkipFlushed
<1>2. cgen'[c] = kgen /\ kgen \in 1..kgen
  BY GenidExact DEF TypeOK, SkipFlushed
<1>3. Match(c)'
  BY <1>1, NothingCovered DEF Match, UsedBy
<1> QED
  BY <1>1, <1>2, <1>3 DEF ClientInv, Unpopulated, Resting, Filling, Ready, kernel

LEMMA BeginFillKeeps ==
  ASSUME NoWrap, Answered, TypeOK, NEW c \in Client, ClientInv(c), BeginFill(c)
  PROVE  ClientInv(c)'
<1>1. /\ pc'[c] = "fill" /\ req'[c] = req[c] /\ UNCHANGED kernel
      /\ "flushed" \notin req[c].flags /\ cgen'[c] = 0 /\ pc[c] = "genid"
      /\ todo'[c] = {i \in Item : Dumped(req[c].flags, i)}
  BY DEF TypeOK, BeginFill
<1>2. genid'[c] = kgen /\ start'[c] = kgen /\ kgen \in 1..kgen
  BY GenidExact DEF TypeOK, BeginFill
<1>3. data'[c] = NothingLoaded
  BY <1>1 DEF TypeOK, BeginFill, DropOld, ClientInv, Unpopulated
<1>4. "flushed" \notin cflags'[c]
  BY DEF TypeOK, BeginFill, NFT_CACHE_EMPTY, ClientInv
<1>5. Filling(c)'
  BY <1>1, <1>2, <1>3 DEF Filling, NothingLoaded, kernel
<1> QED
  BY <1>1, <1>4, <1>5 DEF ClientInv, Unpopulated, Resting, Ready

LEMMA DumpKeeps ==
  ASSUME NoWrap, Answered, TypeOK, NEW c \in Client, NEW d \in Item,
         ClientInv(c), Dump(c, d)
  PROVE  ClientInv(c)'
<1>1. /\ pc[c] = "fill" /\ pc'[c] = "fill" /\ d \in todo[c]
      /\ todo'[c] = todo[c] \ {d}
      /\ data'[c] = [data[c] EXCEPT ![d] = @ \cup {kver[d]}]
      /\ UNCHANGED <<kernel, req, genid, start, cgen, cflags>>
  BY DEF TypeOK, Dump, IsNext
<1>2. Filling(c)
  BY DEF ClientInv
<1>3. data[c][d] = {}
  BY <1>1, <1>2 DEF Filling
<1>4. data'[c][d] = {kver[d]} /\ \A i \in Item \ {d} : data'[c][i] = data[c][i]
  BY <1>1, <1>3 DEF TypeOK
<1>5. Filling(c)'
  BY <1>1, <1>2, <1>4 DEF Filling, kernel
<1> QED
  BY <1>1, <1>5 DEF ClientInv, Unpopulated, Resting, Ready

LEMMA DumpRefusedSoftKeeps ==
  ASSUME TypeOK, NEW c \in Client, NEW d \in Item,
         ClientInv(c), DumpRefusedSoft(c, d)
  PROVE  ClientInv(c)'
<1>1. /\ pc[c] = "fill" /\ pc'[c] = "fill" /\ todo'[c] = todo[c] \ {d}
      /\ UNCHANGED <<kernel, req, genid, start, cgen, cflags, data>>
  BY DEF TypeOK, DumpRefusedSoft
<1>2. ~Reliable(d)
  BY DEF DumpRefusedSoft, Reliable
<1>3. Filling(c)'
  BY <1>1, <1>2 DEF ClientInv, Filling, kernel
<1> QED
  BY <1>1, <1>3 DEF ClientInv, Unpopulated, Resting, Ready

\* A fill that is accepted saw one generation throughout.
LEMMA AcceptMatches ==
  ASSUME NoWrap, Answered, TypeOK, NEW c \in Client, ClientInv(c), Accept(c)
  PROVE  /\ start[c] = kgen
         /\ \A i \in Item : UsedBy(req[c].flags, i) => data[c][i] = {kver[i]}
<1>1. start[c] = kgen /\ todo[c] = {} /\ pc[c] = "fill"
  BY GenidExact DEF Accept
<1>2. ASSUME NEW i \in Item, UsedBy(req[c].flags, i)
      PROVE  data[c][i] = {kver[i]}
  <2>1. Dumped(req[c].flags, i) /\ Reliable(i)
    BY <1>2, CoveredDumped DEF UsedBy
  <2> QED
    BY <1>1, <2>1 DEF ClientInv, Filling
<1> QED
  BY <1>1, <1>2

LEMMA AcceptKeeps ==
  ASSUME NoWrap, Answered, TypeOK, NEW c \in Client, ClientInv(c), Accept(c)
  PROVE  ClientInv(c)'
<1>1. /\ pc[c] = "fill" /\ pc'[c] = "ready" /\ req'[c] = req[c]
      /\ UNCHANGED kernel /\ data'[c] = data[c]
      /\ cgen'[c] = start[c] /\ cflags'[c] = req[c].flags
  BY DEF TypeOK, Accept
<1>2. start[c] = kgen /\ kgen \in 1..kgen /\ "flushed" \notin req[c].flags
  BY <1>1, AcceptMatches DEF TypeOK, ClientInv, Filling
<1>3. Match(c)'
  BY <1>1, AcceptMatches DEF Match, kernel
<1> QED
  BY <1>1, <1>2, <1>3 DEF ClientInv, Unpopulated, Resting, Filling, Ready, kernel
\* A client's own transaction leaves a matching cache one generation behind.
LEMMA CommitKeeps ==
  ASSUME AllFaithful, TypeOK, NEW c \in Client, ClientInv(c), Commit(c)
  PROVE  ClientInv(c)'
<1> DEFINE w == req[c].writes
<1>1. /\ pc[c] = "ready" /\ pc'[c] = "idle" /\ req[c] \in Batch
      /\ cgen'[c] = cgen[c] /\ cflags'[c] = cflags[c]
      /\ kgen' = kgen + 1
      /\ kver' = [i \in Item |-> IF i \in w THEN kgen + 1 ELSE kver[i]]
      /\ data'[c] = [i \in Item |-> IF Mirrored(c, i) THEN {kgen + 1} ELSE data[c][i]]
  BY DEF TypeOK, Commit, Transaction
<1>2. cgen[c] \in 1..kgen /\ kgen \in Nat /\ cgen[c] \in Nat
  BY <1>1 DEF ClientInv, Ready, TypeOK
<1>3. CASE kgen # cgen[c]
  BY <1>1, <1>2, <1>3 DEF ClientInv, Unpopulated, Resting, Filling, Ready
<1>4. CASE "refresh" \in cflags[c]
  BY <1>1, <1>2, <1>4 DEF ClientInv, Unpopulated, Resting, Filling, Ready
<1>5. CASE kgen = cgen[c] /\ "refresh" \notin cflags[c]
  <2>1. Match(c)
    BY <1>1, <1>5 DEF ClientInv, Ready
  <2>2. ASSUME NEW i \in Item, UsedBy(cflags[c], i)
        PROVE  data'[c][i] = {kver'[i]}
    <3>1. data[c][i] = {kver[i]}
      BY <2>1, <2>2 DEF Match
    <3>2. CASE i \notin w
      BY <1>1, <3>1, <3>2 DEF Mirrored
    <3>3. CASE i \in w
      <4>1. "flushed" \notin req[c].flags
        BY <1>1, <2>2, NothingCovered DEF ClientInv, Ready, UsedBy
      <4>2. w \subseteq req[c].mirrors
        BY <1>1, <1>5, <4>1 DEF AllFaithful, Faithful, ClientInv, Ready
      <4>3. Mirrored(c, i)
        BY <1>5, <2>2, <3>1, <3>3, <4>2 DEF Mirrored, UsedBy
      <4> QED
        BY <1>1, <3>3, <4>3
    <3> QED
      BY <3>2, <3>3
  <2>3. Match(c)'
    BY <1>1, <2>2 DEF Match
  <2> QED
    BY <1>1, <1>2, <1>5, <2>3 DEF ClientInv, Unpopulated, Resting, Filling, Ready
<1> QED
  BY <1>3, <1>4, <1>5

LEMMA ReadOnlyKeeps ==
  ASSUME AllFaithful, TypeOK, NEW c \in Client, ClientInv(c), ReadOnly(c)
  PROVE  ClientInv(c)'
<1>1. /\ pc[c] = "ready" /\ pc'[c] = "idle" /\ req[c] \in Batch /\ ~req[c].commits
      /\ UNCHANGED <<kernel, req, genid, start, todo, cgen, cflags, data>>
  BY DEF TypeOK, ReadOnly
<1>2. "refresh" \in cflags[c]
  BY <1>1 DEF AllFaithful, Faithful, ClientInv, Ready
<1>3. cgen[c] \in 1..kgen /\ kgen \in Nat
  BY <1>1 DEF ClientInv, Ready, TypeOK
<1> QED
  BY <1>1, <1>2, <1>3 DEF ClientInv, Unpopulated, Resting, Filling, Ready

\* The step of one client keeps its own part of the invariant.
LEMMA OwnStepKeeps ==
  ASSUME NoWrap, Answered, AllFaithful, TypeOK, NEW c \in Client, ClientInv(c),
         Begin(c) \/ Update(c) \/ Commit(c) \/ ReadOnly(c) \/ Abort(c)
  PROVE  ClientInv(c)'
<1>1. ASSUME NEW i \in Item, DumpInterrupted(c, i) PROVE ClientInv(c)'
  BY <1>1, ReleasedKeeps DEF DumpInterrupted, TypeOK
<1>2. ASSUME NEW i \in Item, DumpRefusedHard(c, i) PROVE ClientInv(c)'
  BY <1>2, ReleasedKeeps DEF DumpRefusedHard, TypeOK
<1>3. CASE Replay(c)
  BY <1>3, ReleasedKeeps DEF Replay, TypeOK
<1>4. CASE Abort(c)
  BY <1>4, ReleasedKeeps DEF Abort, TypeOK
<1> QED
  BY <1>1, <1>2, <1>3, <1>4, BeginKeeps, ReuseKeeps, SkipFlushedKeeps,
     BeginFillKeeps, DumpKeeps, DumpRefusedSoftKeeps, AcceptKeeps, CommitKeeps,
     ReadOnlyKeeps DEF Update

\* The step of one client does not touch another client's variables.
LEMMA OtherStill ==
  ASSUME TypeOK, NEW c \in Client, NEW d \in Client, c # d,
         Begin(d) \/ Update(d) \/ Commit(d) \/ ReadOnly(d) \/ Abort(d)
  PROVE  Still(c) /\ (UNCHANGED kernel \/ kgen' = kgen + 1)
<1>1. CASE Begin(d)
  BY <1>1 DEF TypeOK, Begin, Still
<1>2. CASE Reuse(d)
  BY <1>2 DEF TypeOK, Reuse, Still
<1>3. CASE SkipFlushed(d)
  BY <1>3 DEF TypeOK, SkipFlushed, Still
<1>4. CASE BeginFill(d)
  BY <1>4 DEF TypeOK, BeginFill, Still
<1>5. CASE Accept(d)
  BY <1>5 DEF TypeOK, Accept, Still
<1>6. CASE Replay(d)
  BY <1>6 DEF TypeOK, Replay, Release, Still
<1>7. ASSUME NEW i \in Item, Dump(d, i)
      PROVE  Still(c) /\ UNCHANGED kernel
  BY <1>7 DEF TypeOK, Dump, Still
<1>8. ASSUME NEW i \in Item, DumpInterrupted(d, i)
      PROVE  Still(c) /\ UNCHANGED kernel
  BY <1>8 DEF TypeOK, DumpInterrupted, Release, Still
<1>9. ASSUME NEW i \in Item, DumpRefusedSoft(d, i)
      PROVE  Still(c) /\ UNCHANGED kernel
  BY <1>9 DEF TypeOK, DumpRefusedSoft, Still
<1>10. ASSUME NEW i \in Item, DumpRefusedHard(d, i)
       PROVE  Still(c) /\ UNCHANGED kernel
  BY <1>10 DEF TypeOK, DumpRefusedHard, Release, Still
<1>11. CASE Commit(d)
  BY <1>11 DEF TypeOK, Commit, Transaction, Still
<1>12. CASE ReadOnly(d)
  BY <1>12 DEF TypeOK, ReadOnly, Still
<1>13. CASE Abort(d)
  BY <1>13 DEF TypeOK, Abort, Release, Still
<1> QED
  BY <1>1, <1>2, <1>3, <1>4, <1>5, <1>6, <1>7, <1>8, <1>9, <1>10, <1>11,
     <1>12, <1>13 DEF Update

LEMMA IInvNext ==
  ASSUME NoWrap, Answered, AllFaithful
  PROVE  IInv /\ [Next]_vars => IInv'
<1> SUFFICES ASSUME IInv, [Next]_vars PROVE IInv'
  OBVIOUS
<1>1. TypeOK /\ TypeOK'
  BY TypeNext DEF IInv
<1>2. ASSUME NEW c \in Client PROVE ClientInv(c)'
  <2>1. ClientInv(c)
    BY DEF IInv
  <2>2. CASE ExternalCommit
    <3>1. Still(c) /\ kgen' = kgen + 1
      BY <2>2 DEF ExternalCommit, Transaction, Still
    <3> QED
      BY <1>1, <2>1, <3>1, StillKeeps
  <2>3. CASE UNCHANGED vars
    <3>1. Still(c) /\ UNCHANGED kernel
      BY <2>3 DEF vars, Still, kernel
    <3> QED
      BY <1>1, <2>1, <3>1, StillKeeps
  <2>4. ASSUME NEW d \in Client,
               Begin(d) \/ Update(d) \/ Commit(d) \/ ReadOnly(d) \/ Abort(d)
        PROVE  ClientInv(c)'
    <3>1. CASE c = d
      BY <1>1, <2>1, <2>4, <3>1, OwnStepKeeps
    <3>2. CASE c # d
      <4>1. Still(c) /\ (UNCHANGED kernel \/ kgen' = kgen + 1)
        BY <1>1, <2>4, <3>2, OtherStill
      <4> QED
        BY <1>1, <2>1, <4>1, StillKeeps
    <3> QED
      BY <3>1, <3>2
  <2> QED
    BY <2>2, <2>3, <2>4 DEF Next
<1> QED
  BY <1>1, <1>2 DEF IInv

-----------------------------------------------------------------------------
(* The safety properties. *)

\* As long as the 16-bit generation does not wrap, a cache that holds objects
\* has a generation, so nft_cache_update() never fills it twice.
THEOREM PopulatedSafe ==
  ASSUME NoWrap, Answered, AllFaithful
  PROVE  Spec => []PopulatedHasGenid
<1>1. IInv => PopulatedHasGenid
  BY DEF IInv, ClientInv, Unpopulated, PopulatedHasGenid
<1>2. Init => IInv
  BY IInvInit
<1>3. IInv /\ [Next]_vars => IInv'
  BY IInvNext
<1> QED
  BY <1>1, <1>2, <1>3, PTL DEF Spec

\* The steps that end nft_cache_update() successfully leave a fresh cache.
LEMMA FreshStep ==
  ASSUME NoWrap, Answered, AllFaithful, IInv, [Next]_vars, NEW c \in Client,
         pc[c] # "ready", pc'[c] = "ready"
  PROVE  FreshFor(c)'
<1>1. TypeOK /\ ClientInv(c)
  BY DEF IInv
<1>2. Reuse(c) \/ SkipFlushed(c) \/ Accept(c)
  <2>1. PICK d \in Client :
          Begin(d) \/ Update(d) \/ Commit(d) \/ ReadOnly(d) \/ Abort(d)
    BY DEF Next, vars, ExternalCommit
  <2>2. c = d
    BY <1>1, <2>1, OtherStill DEF Still
  <2>3. ASSUME NEW i \in Item
        PROVE  /\ ~Dump(c, i) /\ ~DumpInterrupted(c, i)
               /\ ~DumpRefusedSoft(c, i) /\ ~DumpRefusedHard(c, i)
    BY <1>1 DEF TypeOK, Dump, DumpInterrupted, DumpRefusedSoft, DumpRefusedHard
  <2>4. ~Begin(c) /\ ~BeginFill(c) /\ ~Replay(c)
    BY <1>1 DEF TypeOK, Begin, BeginFill, Replay
  <2>5. ~Commit(c) /\ ~ReadOnly(c) /\ ~Abort(c)
    BY DEF Commit, ReadOnly, Abort
  <2> QED
    BY <2>1, <2>2, <2>3, <2>4, <2>5 DEF Update
<1>3. CASE Reuse(c)
  <2>1. req[c].flags \subseteq cflags[c] /\ Match(c)
    BY <1>1, <1>3, ReuseMatches
  <2>2. req'[c] = req[c] /\ data'[c] = data[c] /\ kver' = kver
    BY <1>1, <1>3 DEF TypeOK, Reuse, kernel
  <2> QED
    BY <2>1, <2>2, UsedByMonotone DEF FreshFor, Match
<1>4. CASE SkipFlushed(c)
  BY <1>4 DEF SkipFlushed, FreshFor
<1>5. CASE Accept(c)
  <2>1. req'[c] = req[c] /\ data'[c] = data[c] /\ kver' = kver
    BY <1>1, <1>5 DEF TypeOK, Accept, kernel
  <2> QED
    BY <1>1, <1>5, <2>1, AcceptMatches DEF FreshFor
<1> QED
  BY <1>2, <1>3, <1>4, <1>5

\* Whatever other processes commit and whenever they do, an input is evaluated
\* against exactly the kernel's ruleset at the end of nft_cache_update().
THEOREM FreshSafe ==
  ASSUME NoWrap, Answered, AllFaithful
  PROVE  Spec => FreshOnUse
<1>1. IInv /\ [Next]_vars =>
        [\A c \in Client : pc[c] # "ready" /\ pc'[c] = "ready" => FreshFor(c)']_vars
  BY FreshStep
<1>2. Init => IInv
  BY IInvInit
<1>3. IInv /\ [Next]_vars => IInv'
  BY IInvNext
<1> QED
  BY <1>1, <1>2, <1>3, PTL DEF Spec, FreshOnUse
=============================================================================
