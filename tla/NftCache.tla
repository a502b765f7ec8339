------------------------------ MODULE NftCache ------------------------------
(***************************************************************************)
(* nft_cache_update() and its users: how a process keeps a copy of the     *)
(* ruleset that other processes change at the same time.                   *)
(*                                                                         *)
(* The kernel numbers its rulesets; every transaction that changes one     *)
(* starts the next generation.  A client asks for the generation, dumps    *)
(* one kind of object after the other, and asks for the generation again.  *)
(* The messages of a dump carry the low 16 bits of the generation, which   *)
(* check_genid() compares; a dump without messages carries nothing.  The   *)
(* generation the cache was filled at decides whether the next input       *)
(* reuses it: the client's own transaction moves the kernel on by one, so  *)
(* "one ahead" is taken to be its own.                                     *)
(*                                                                         *)
(* Contents are abstracted to versions: the generation of the last change. *)
(* What the cache holds of an item is the set of versions loaded into it,  *)
(* empty when it was not loaded.                                           *)
(***************************************************************************)
EXTENDS CacheFlags, Integers, FiniteSets

CONSTANTS
  Client,       \* processes using libnftables, one context each
  Batch,        \* inputs a client may run (see BatchOK)
  ExtWrites,    \* sets of items a foreign transaction may change
  NTables,      \* tables in the ruleset
  GenMod,       \* the res_id field holds the generation modulo GenMod (2^16)
  MaxGen,       \* bound: generations of a behaviour
  FailKind,     \* kinds whose dump the kernel may refuse
  GetgenFails   \* whether a generation request may go unanswered

-----------------------------------------------------------------------------
(* The dump requests, in the order cache_init_objects() sends them. *)

GlobalDumps == <<"table", "chain", "set", "flowtable">>
TableDumps  == <<"setelem", "object", "rule">>

Item == 1..(4 + 3 * NTables)

KindOf(i) == IF i <= 4 THEN GlobalDumps[i] ELSE TableDumps[((i - 5) % 3) + 1]

\* What a flag word promises to hold.
Covered(flags, i) ==
  \/ KindOf(i) \in flags
  \/ KindOf(i) = "setelem" /\ "setelem_maybe" \in flags

\* What is dumped for it: nothing for NFT_CACHE_EMPTY, otherwise always the
\* tables.
Dumped(flags, i) ==
  flags # NFT_CACHE_EMPTY /\ (KindOf(i) = "table" \/ Covered(flags, i))

\* Kinds whose failed dump is taken for an empty one.
SoftKind == {"flowtable", "object", "rule", "setelem"}

Reliable(i) == KindOf(i) \notin FailKind \cap SoftKind

\* What the commands of an input with these flags read.  Cached rules are
\* read to translate an index (UPDATE) and to list; cached elements to merge
\* intervals (SETELEM_MAYBE) and to list.  Listings have REFRESH.
UsedBy(flags, i) ==
  /\ Covered(flags, i)
  /\ Reliable(i)
  /\ KindOf(i) = "rule" => flags \cap {"update", "refresh"} # {}
  /\ KindOf(i) = "setelem" => flags \cap {"setelem_maybe", "refresh"} # {}

\* An input: its flags, the items its transaction changes, those of them that
\* its evaluation also changes in the cache, and whether it has a transaction.
BatchOK(b) ==
  /\ b.flags \subseteq CacheFlag
  /\ b.writes \subseteq Item
  /\ b.mirrors \subseteq Item
  /\ b.commits \in BOOLEAN

ASSUME NftCacheAssumption ==
  /\ NTables \in Nat
  /\ GenMod \in Nat \ {0}
  /\ MaxGen \in Nat \ {0}
  /\ GetgenFails \in BOOLEAN
  /\ \A b \in Batch : BatchOK(b)
  /\ \A w \in ExtWrites : w \subseteq Item

VARIABLES
  kgen,     \* the kernel's generation
  kver,     \* item -> generation of its last change
  kempty,   \* items that hold nothing: their dump has no message
  pc,       \* client -> where nft_run_cmd_from_buffer() is
  req,      \* client -> the input being run
  genid,    \* client -> the static nft_genid
  start,    \* client -> the local genid of nft_cache_update()
  todo,     \* client -> items still to be dumped
  cgen,     \* client -> cache->genid
  cflags,   \* client -> cache->flags
  data      \* client -> item -> versions in the cache

kernel == <<kgen, kver, kempty>>
vars == <<kgen, kver, kempty, pc, req, genid, start, todo, cgen, cflags, data>>

ResId(g) == g % GenMod

NothingLoaded == [i \in Item |-> {}]

Init ==
  /\ kgen = 1
  /\ kver = [i \in Item |-> 1]
  /\ kempty \in {{}, Item}
  /\ pc = [c \in Client |-> "idle"]
  /\ req \in [Client -> Batch]
  /\ genid = [c \in Client |-> 0]
  /\ start = [c \in Client |-> 0]
  /\ todo = [c \in Client |-> {}]
  /\ cgen = [c \in Client |-> 0]
  /\ cflags = [c \in Client |-> NFT_CACHE_EMPTY]
  /\ data = [c \in Client |-> NothingLoaded]

-----------------------------------------------------------------------------
(* The tests of nft_cache_update(). *)

NftCacheIsComplete(c) == req[c].flags \subseteq cflags[c]

NftCacheNeedsRefresh(c) == "refresh" \in cflags[c] \cup req[c].flags

NftCacheIsUpdated(c, g) == g # 0 /\ (g = cgen[c] \/ g = cgen[c] + 1)

Reusable(c, g) ==
  ~NftCacheNeedsRefresh(c) /\ NftCacheIsComplete(c) /\ NftCacheIsUpdated(c, g)

\* Fault: the error code of the request is taken for a generation.
MnlGenidGetError(c) == {ResId(kgen), -1}

\* mnl_genid_get(): the reply, or the last value when there is none.
MnlGenidGet(c) ==
  {ResId(kgen)} \cup (IF GetgenFails THEN {genid[c]} ELSE {})

\* nft_cache_release().
Release(c) ==
  /\ data' = [data EXCEPT ![c] = NothingLoaded]
  /\ cgen' = [cgen EXCEPT ![c] = 0]
  /\ cflags' = [cflags EXCEPT ![c] = NFT_CACHE_EMPTY]

-----------------------------------------------------------------------------
(* nft_cache_update(). *)

\* A new input; nft_cache_evaluate() has computed its flags.
Begin(c) ==
  /\ pc[c] = "idle"
  /\ \E b \in Batch : req' = [req EXCEPT ![c] = b]
  /\ pc' = [pc EXCEPT ![c] = "genid"]
  /\ UNCHANGED <<kernel, genid, start, todo, cgen, cflags, data>>

\* The cache is reused; a generation that is one ahead is adopted.
Reuse(c) ==
  /\ pc[c] = "genid"
  /\ \E g \in MnlGenidGet(c) :
       /\ Reusable(c, g)
       /\ genid' = [genid EXCEPT ![c] = g]
       /\ start' = [start EXCEPT ![c] = g]
       /\ cgen' = [cgen EXCEPT ![c] = g]
  /\ pc' = [pc EXCEPT ![c] = "ready"]
  /\ UNCHANGED <<kernel, req, todo, cflags, data>>

\* The old contents are dropped, but only if the cache has a generation.
DropOld(c) == IF cgen[c] # 0 THEN NothingLoaded ELSE data[c]

\* The input starts by flushing the ruleset: nothing is fetched.
SkipFlushed(c) ==
  /\ pc[c] = "genid"
  /\ "flushed" \in req[c].flags
  /\ \E g \in MnlGenidGet(c) :
       /\ ~Reusable(c, g)
       /\ genid' = [genid EXCEPT ![c] = g]
       /\ start' = [start EXCEPT ![c] = g]
       /\ cgen' = [cgen EXCEPT ![c] = g]
  /\ cflags' = [cflags EXCEPT ![c] = req[c].flags \cap {"update"}]
  /\ data' = [data EXCEPT ![c] = DropOld(c)]
  /\ pc' = [pc EXCEPT ![c] = "ready"]
  /\ UNCHANGED <<kernel, req, todo>>

\* The cache is filled anew.
BeginFill(c) ==
  /\ pc[c] = "genid"
  /\ "flushed" \notin req[c].flags
  /\ \E g \in MnlGenidGet(c) :
       /\ ~Reusable(c, g)
       /\ genid' = [genid EXCEPT ![c] = g]
       /\ start' = [start EXCEPT ![c] = g]
  /\ data' = [data EXCEPT ![c] = DropOld(c)]
  /\ cgen' = [cgen EXCEPT ![c] = 0]
  /\ cflags' = [cflags EXCEPT ![c] = IF cgen[c] # 0 THEN NFT_CACHE_EMPTY ELSE @]
  /\ todo' = [todo EXCEPT ![c] = {i \in Item : Dumped(req[c].flags, i)}]
  /\ pc' = [pc EXCEPT ![c] = "fill"]
  /\ UNCHANGED <<kernel, req>>

\* The dump that is sent next.
IsNext(c, i) == i \in todo[c] /\ \A j \in todo[c] : i <= j

\* check_genid() lets every message of the dump of item i pass.
CheckGenid(c, i) == i \in kempty \/ ResId(kgen) = genid[c]

Dump(c, i) ==
  /\ pc[c] = "fill"
  /\ IsNext(c, i)
  /\ CheckGenid(c, i)
  /\ data' = [data EXCEPT ![c][i] = @ \cup {kver[i]}]
  /\ todo' = [todo EXCEPT ![c] = @ \ {i}]
  /\ UNCHANGED <<kernel, pc, req, genid, start, cgen, cflags>>

\* Fault: the dump is retried without a new generation.
DumpInterruptedRetry(c, i) ==
  /\ pc[c] = "fill"
  /\ IsNext(c, i)
  /\ ~CheckGenid(c, i)
  /\ UNCHANGED vars

\* EINTR: the ruleset changed under the dump; release and replay.
DumpInterrupted(c, i) ==
  /\ pc[c] = "fill"
  /\ IsNext(c, i)
  /\ ~CheckGenid(c, i)
  /\ Release(c)
  /\ todo' = [todo EXCEPT ![c] = {}]
  /\ pc' = [pc EXCEPT ![c] = "genid"]
  /\ UNCHANGED <<kernel, req, genid, start>>

\* The dump fails otherwise: an empty list for some kinds, an error for the
\* others.
DumpRefusedSoft(c, i) ==
  /\ pc[c] = "fill"
  /\ IsNext(c, i)
  /\ KindOf(i) \in FailKind \cap SoftKind
  /\ todo' = [todo EXCEPT ![c] = @ \ {i}]
  /\ UNCHANGED <<kernel, pc, req, genid, start, cgen, cflags, data>>

DumpRefusedHard(c, i) ==
  /\ pc[c] = "fill"
  /\ IsNext(c, i)
  /\ KindOf(i) \in FailKind \ SoftKind
  /\ Release(c)
  /\ todo' = [todo EXCEPT ![c] = {}]
  /\ pc' = [pc EXCEPT ![c] = "idle"]
  /\ UNCHANGED <<kernel, req, genid, start>>

\* Faults: the second generation is not compared; it is not recorded.
AcceptUnchecked(c) ==
  /\ pc[c] = "fill"
  /\ todo[c] = {}
  /\ genid' = [genid EXCEPT ![c] = ResId(kgen)]
  /\ cgen' = [cgen EXCEPT ![c] = start[c]]
  /\ cflags' = [cflags EXCEPT ![c] = req[c].flags]
  /\ pc' = [pc EXCEPT ![c] = "ready"]
  /\ UNCHANGED <<kernel, req, start, todo, data>>

AcceptUnrecorded(c) ==
  /\ pc[c] = "fill"
  /\ todo[c] = {}
  /\ start[c] \in MnlGenidGet(c)
  /\ genid' = [genid EXCEPT ![c] = start[c]]
  /\ cflags' = [cflags EXCEPT ![c] = req[c].flags]
  /\ pc' = [pc EXCEPT ![c] = "ready"]
  /\ UNCHANGED <<kernel, req, start, todo, cgen, data>>

\* The generation after the last dump is the one before the first.
Accept(c) ==
  /\ pc[c] = "fill"
  /\ todo[c] = {}
  /\ start[c] \in MnlGenidGet(c)
  /\ genid' = [genid EXCEPT ![c] = start[c]]
  /\ cgen' = [cgen EXCEPT ![c] = start[c]]
  /\ cflags' = [cflags EXCEPT ![c] = req[c].flags]
  /\ pc' = [pc EXCEPT ![c] = "ready"]
  /\ UNCHANGED <<kernel, req, start, todo, data>>

\* It is not: release and replay.
Replay(c) ==
  /\ pc[c] = "fill"
  /\ todo[c] = {}
  /\ \E g \in MnlGenidGet(c) \ {start[c]} : genid' = [genid EXCEPT ![c] = g]
  /\ Release(c)
  /\ pc' = [pc EXCEPT ![c] = "genid"]
  /\ UNCHANGED <<kernel, req, start, todo>>

-----------------------------------------------------------------------------
(* The rest of nft_run_cmd_from_buffer(): evaluation and transaction. *)

\* A transaction over the items w starts the next generation.
Transaction(w) ==
  /\ kgen < MaxGen
  /\ kgen' = kgen + 1
  /\ kver' = [i \in Item |-> IF i \in w THEN kgen + 1 ELSE kver[i]]
  /\ \E e \in BOOLEAN : kempty' = IF e THEN kempty \cup w ELSE kempty \ w

\* The evaluation changed the cached item the way the kernel did, provided
\* that it had the kernel's version before.  Rules are kept up to date only
\* in a cache with UPDATE, elements only where intervals are merged.
Mirrored(c, i) ==
  /\ i \in req[c].mirrors \cap req[c].writes
  /\ data[c][i] = {kver[i]}
  /\ KindOf(i) = "rule" => "update" \in cflags[c]
  /\ KindOf(i) = "setelem" => "setelem_maybe" \in cflags[c]

Commit(c) ==
  /\ pc[c] = "ready"
  /\ req[c].commits
  /\ Transaction(req[c].writes)
  /\ data' = [data EXCEPT ![c] =
               [i \in Item |-> IF Mirrored(c, i) THEN {kgen + 1} ELSE data[c][i]]]
  /\ pc' = [pc EXCEPT ![c] = "idle"]
  /\ UNCHANGED <<req, genid, start, todo, cgen, cflags>>

\* An input without a transaction leaves the cache as it is.
ReadOnly(c) ==
  /\ pc[c] = "ready"
  /\ ~req[c].commits
  /\ pc' = [pc EXCEPT ![c] = "idle"]
  /\ UNCHANGED <<kernel, req, genid, start, todo, cgen, cflags, data>>

\* An evaluation error, a transaction the kernel refuses, or a check-only
\* context: the cache is released.
Abort(c) ==
  /\ pc[c] = "ready"
  /\ Release(c)
  /\ pc' = [pc EXCEPT ![c] = "idle"]
  /\ UNCHANGED <<kernel, req, genid, start, todo>>

\* Another program changes the ruleset.
ExternalCommit ==
  /\ \E w \in ExtWrites : Transaction(w)
  /\ UNCHANGED <<pc, req, genid, start, todo, cgen, cflags, data>>

Update(c) ==
  \/ Reuse(c) \/ SkipFlushed(c) \/ BeginFill(c) \/ Accept(c) \/ Replay(c)
  \/ \E i \in Item : \/ Dump(c, i) \/ DumpInterrupted(c, i)
                     \/ DumpRefusedSoft(c, i) \/ DumpRefusedHard(c, i)

Next ==
  \/ \E c \in Client : \/ Begin(c) \/ Update(c)
                       \/ Commit(c) \/ ReadOnly(c) \/ Abort(c)
  \/ ExternalCommit

Spec == Init /\ [][Next]_vars

\* A running nft_cache_update() keeps taking steps.
FairSpec == Spec /\ \A c \in Client : WF_vars(Update(c))
-----------------------------------------------------------------------------
(* Properties. *)

\* Also: no item carries a version newer than the generation of the ruleset
\* (cache->genid is compared with the latter only).
TypeOK ==
  /\ kgen \in 1..MaxGen
  /\ kver \in [Item -> 1..kgen]
  /\ kempty \subseteq Item
  /\ pc \in [Client -> {"idle", "genid", "fill", "ready"}]
  /\ req \in [Client -> Batch]
  /\ genid \in [Client -> Nat]
  /\ start \in [Client -> Nat]
  /\ todo \in [Client -> SUBSET Item]
  /\ cgen \in [Client -> Nat]
  /\ cflags \in [Client -> SUBSET CacheFlag]
  /\ data \in [Client -> [Item -> SUBSET Nat]]

\* The cache holds the kernel's version, and no other, of everything the
\* input reads (after "flush ruleset" there is nothing to read).
FreshFor(c) ==
  "flushed" \in req[c].flags
    \/ \A i \in Item : UsedBy(req[c].flags, i) => data[c][i] = {kver[i]}

\* When nft_cache_update() returns success, whether it reused the cache or
\* filled it while others committed, the input is evaluated against one
\* generation of the ruleset: the one the kernel has at that moment.
FreshOnUse ==
  [][\A c \in Client : pc[c] # "ready" /\ pc'[c] = "ready" => FreshFor(c)']_vars

\* Outside of nft_cache_init(), a cache that holds objects has a generation:
\* nft_cache_update() drops the old contents only "if (cache->genid)", so a
\* cache without one would be filled a second time on top of the first.
PopulatedHasGenid ==
  \A c \in Client : pc[c] # "fill" /\ data[c] # NothingLoaded => cgen[c] # 0

\* The replay loop of nft_cache_update() ends, by a complete dump or by an
\* error, once the ruleset stops changing.
UpdateTerminates ==
  \A c \in Client : pc[c] \in {"genid", "fill"} ~> pc[c] \in {"idle", "ready"}

=============================================================================
