------------------------------ MODULE SetElems ------------------------------
(***************************************************************************)
(* The sets that a rule refers to, on their way to the kernel and back:    *)
(* the declaration (src/mnl.c, src/netlink.c), the elements with their     *)
(* keys and data, and the half-open intervals that the elements of an      *)
(* interval set are sent as (src/intervals.c, src/segtree.c).              *)
(*                                                                         *)
(* An element on the wire is [key, keyend, data, end, catchall]; NoData    *)
(* where an attribute is not sent.  end marks the first value behind an    *)
(* interval.  Comments, timeouts and counters of elements are left out.    *)
(***************************************************************************)
EXTENDS Delinearize

Wire(key, keyend, data, end) ==
  [key |-> key, keyend |-> keyend, data |-> data, end |-> end, catchall |-> FALSE]

WireData(set, e) ==
  IF e.data = Null \/ set.flags \cap {"map", "objmap"} = {} THEN NoData
  ELSE __netlink_gen_data(e.data, ~IsSingleton(e.data) /\ ~(e.data.t = "concat" /\ \A k \in DOMAIN e.data.elems :
                                                                IsSingleton(e.data.elems[k])))

\* A concatenation of ranges is sent as its lower and its upper corner.
alloc_nftnl_setelem(set, e, end) ==
  LET data == IF end THEN NoData ELSE WireData(set, e)
      corners == "interval" \in set.flags /\ e.key.t = "concat"
  IN CASE e.key.t = "catchall" -> [Wire(NoData, NoData, data, FALSE) EXCEPT !.catchall = TRUE]
       [] corners -> Wire(netlink_gen_key(e.key, TRUE, FALSE), netlink_gen_key(e.key, TRUE, TRUE), data, end)
       [] OTHER -> Wire(netlink_gen_key(e.key, FALSE, FALSE), NoData, data, end)

(***************************************************************************)
(* Intervals.                                                              *)
(***************************************************************************)
\* The value after v, and the one before it.
Next1(v) == LET n == Scan0(v, 0) IN (v \ Bitmask(n)) \cup {n}

Prev1(v) == LET n == Scan1(v, 0) IN (v \ {n}) \cup Bitmask(n)

SetKeyConst(set, v) ==
  constant_expr_alloc(set.key.dt, set.key.bo, set.key.len,
                      IF set.key.bo = "host" THEN SwitchByteorder(v, set.key.len \div 8) ELSE v)

\* Elements of an interval set: where each starts, and where it ends unless the
\* next one starts there.  A new set also gets the end of "nothing" at zero.
set_to_intervals(set, elems) ==
  LET ranges == SelectSeq(elems, LAMBDA e : e.key.t # "catchall")
      other == SelectSeq(elems, LAMBDA e : e.key.t = "catchall")
      wire(e, v, end) == alloc_nftnl_setelem(set, [e EXCEPT !.key = SetKeyConst(set, v)], end)
      open(e) == Bitmask(set.key.len) \subseteq e.key.right.v
      joined(k) == /\ k < Len(ranges) /\ "anonymous" \in set.flags
                   /\ ranges[k + 1].key.left.v = Next1(ranges[k].key.right.v)
      one(k) == <<wire(ranges[k], ranges[k].key.left.v, FALSE)>>
                \o IF open(ranges[k]) \/ joined(k) THEN <<>>
                   ELSE <<wire(ranges[k], Next1(ranges[k].key.right.v), TRUE)>>
      root == IF ranges # <<>> /\ ranges[1].key.left.v # {} THEN <<wire(ranges[1], {}, TRUE)>> ELSE <<>>
  IN root \o FlattenSeq([k \in DOMAIN ranges |-> one(k)])
       \o [k \in DOMAIN other |-> alloc_nftnl_setelem(set, other[k], FALSE)]

\* do_add_set(), mnl_nft_set_add() and the elements: the set as the kernel gets it.
set_is_non_concat_range(set) == "interval" \in set.flags /\ "concat" \notin set.flags

do_add_set(set) ==
  [set EXCEPT !.init = IF set_is_non_concat_range(set) THEN set_to_intervals(set, @)
                       ELSE [k \in DOMAIN @ |-> alloc_nftnl_setelem(set, @[k], FALSE)]]

(***************************************************************************)
(* Back from the kernel.                                                   *)
(***************************************************************************)
\* The expression a set was declared with is kept if it can be written down.
HasUdata(e) ==
  LET leaf(x) == x.t \in {"payload", "meta", "ct", "exthdr", "hash"} \cup Sources
  IN IF e.t = "concat" THEN \A k \in DOMAIN e.elems : leaf(e.elems[k]) ELSE leaf(e)

TypeConst(e) == constant_expr_alloc(e.dt, DataTypes[e.dt].bo, DataTypes[e.dt].size, {})

TypeOf(e) ==
  IF e.dt = "concat" THEN [e EXCEPT !.elems = [k \in DOMAIN @ |-> TypeConst(@[k])]]
  ELSE constant_expr_alloc(e.dt, e.bo, 8 * Bytes(e.len), {})

\* Without the expression of the data that of the key is dropped too.
netlink_delinearize_set(set) ==
  LET map == set.data # Null /\ "map" \in set.flags
      kept == HasUdata(set.key) /\ set.key.len % 8 = 0 /\ (map => HasUdata(set.data))
  IN [set EXCEPT !.key = IF kept THEN @ ELSE TypeOf(@),
                 !.data = CASE ~map \/ HasUdata(@) \/ @.dt = "verdict" -> @
                            [] OTHER -> [TypeOf(@) EXCEPT !.len = set.data.len]]

\* One part of a concatenated key: the most significant bits that are left.
concat_elem_expr(set, key, rest) ==
  LET sub == RoundUp(key.len, 8)
      cut == [Slice(rest, sub) EXCEPT !.dt = key.dt, !.bo = key.bo, !.len = key.len]
      swap == expr_basetype(key.dt) = "string" \/ ("interval" \notin set.flags /\ key.bo = "host")
      e == IF swap THEN [cut EXCEPT !.v = SwitchByteorder(@, key.len \div 8)] ELSE cut
  IN IF IsBitmask(e) THEN bitmask_expr_to_binops(e) ELSE e

\* netlink_parse_concat_elem_key(), netlink_parse_concat_elem().
SplitConcat(set, keys, data) ==
  FoldLeft(LAMBDA acc, key :
             [parts |-> Append(acc.parts, concat_elem_expr(set, key, acc.rest)),
              rest |-> [acc.rest EXCEPT !.len = @ - netlink_padded_len(RoundUp(key.len, 8))]],
           [parts |-> <<>>, rest |-> data], keys)

Keyed(set, d) ==
  LET raw == [netlink_alloc_value(d) EXCEPT !.dt = set.key.dt, !.bo = set.key.bo]
      key == IF set.key.t # "concat" THEN raw
             ELSE concat_expr_alloc(SplitConcat(set, set.key.elems, raw).parts)
      host == key.t = "value" /\ "interval" \notin set.flags /\ key.bo = "host"
      e == IF host THEN [key EXCEPT !.v = SwitchByteorder(@, key.len \div 8)] ELSE key
  IN IF e.t = "value" /\ IsBitmask(e) THEN bitmask_expr_to_binops(e) ELSE e

range_expr_reduce(r) ==
  CASE r.left.v = r.right.v -> r.left
    [] r.left.dt \in {"ipv4_addr", "ipv6_addr"} -> range_expr_to_prefix(r)
    [] OTHER -> r

netlink_parse_interval_elem(set, data) ==
  LET half == Bytes(data.len) \div 2
      m == Export(data.v, "big", 2 * half)
      end(off) == constant_expr_alloc(set.data.dt, DataTypes[set.data.dt].bo, 8 * half,
                    Import(From(m, off, 8 * half), DataTypes[set.data.dt].bo, half))
  IN range_expr_to_prefix(range_expr_alloc(end(0), end(8 * half)))

ConcatData(set, data) ==
  LET keys == set.data.elems
      low == SplitConcat(set, keys, data)
      high == SplitConcat(set, keys, low.rest)
  IN concat_expr_alloc(IF "interval" \notin set.dataflags THEN low.parts
                       ELSE [k \in DOMAIN keys |-> range_expr_reduce(range_expr_alloc(low.parts[k], high.parts[k]))])

Datum(set, d) ==
  LET raw == [netlink_alloc_value(d) EXCEPT !.dt = set.data.dt, !.bo = set.data.bo]
      e == CASE set.data.t = "concat" -> ConcatData(set, raw)
             [] "interval" \in set.dataflags -> netlink_parse_interval_elem(set, raw)
             [] OTHER -> raw
      name == constant_expr_alloc("string", "host", 8 * d.n, Import(d.m, "host", d.n))
  IN CASE "objmap" \in set.flags -> name
       [] set.data.dt = "verdict" -> verdict_expr_alloc(d.verdict, d.chain)
       [] e.t = "value" /\ e.bo = "host" -> [e EXCEPT !.v = SwitchByteorder(@, e.len \div 8)]
       [] OTHER -> e

\* netlink_delinearize_setelem(): a lower and an upper corner are two elements.
netlink_delinearize_setelem(set, w) ==
  LET data == IF w.data = NoData THEN Null ELSE Datum(set, w.data)
      elem(d, end) == set_elem_expr_alloc(Keyed(set, d), data) @@ [end |-> end]
  IN CASE w.catchall -> <<set_elem_expr_alloc([Catchall EXCEPT !.dt = set.key.dt, !.bo = set.key.bo,
                                                 !.len = set.key.len], data) @@ [end |-> FALSE]>>
       [] w.keyend # NoData /\ ~w.end -> <<elem(w.key, FALSE), elem(w.keyend, TRUE)>>
       [] OTHER -> <<elem(w.key, w.end)>>

Plain(e) == [f \in DOMAIN e \ {"end"} |-> e[f]]

\* range_mask_len(): the length of the prefix the two ends have in common, -1
\* if they are not the ends of a prefix.
range_mask_len(low, high, len) ==
  LET n == Scan0(Xor(low, high), 0)
  IN IF Xor(low, high) = Bitmask(n) /\ low \cap Bitmask(n) = {} THEN len - n ELSE -1

\* A name that ends in "*".
Wildcard(e, chars) ==
  constant_expr_alloc(e.dt, "host", 8 * (chars + 1), (e.v \cap Bitmask(8 * chars)) \cup Lshift(Star, 8 * chars))

IsPrefixType(e) == e.dt \in {"ipv4_addr", "ipv6_addr"}

\* One part of a concatenation of ranges.
AggregatePart(a, b) ==
  LET string == expr_basetype(a.dt) = "string"
      bytes == a.len \div 8
      sw(v) == IF string THEN SwitchByteorder(v, bytes) ELSE v
      plen == range_mask_len(sw(a.v), sw(b.v), a.len)
  IN CASE a.v = b.v -> b
       [] string /\ plen >= 0 /\ plen % 8 = 0 -> [Wildcard(a, plen \div 8) EXCEPT !.len = b.len]
       [] plen < 0 \/ ~IsPrefixType(a) -> range_expr_alloc(a, b)
       [] OTHER -> [prefix_expr_alloc(a, plen) EXCEPT !.len = b.len]

concat_range_aggregate(elems) ==
  LET pair(k) == [elems[2 * k] EXCEPT
                    !.key.elems = [j \in DOMAIN @ |-> AggregatePart(elems[2 * k - 1].key.elems[j], @[j])],
                    !.data = elems[2 * k - 1].data]
  IN [k \in 1..(Len(elems) \div 2) |-> Plain(pair(k))]

\* The interval between two elements: a value, a prefix, a name or a range.
add_interval(low, high) ==
  LET a == low.key.v
      plen == range_mask_len(a, high, low.key.len)
      name == [low.key EXCEPT !.v = SwitchByteorder(a, low.key.len \div 8)]
      string == expr_basetype(low.key.dt) = "string"
      chars == LastChar(name.v) + 1
      key == CASE a = high -> IF string THEN name ELSE low.key
               [] plen >= 0 /\ IsPrefixType(low.key) -> prefix_expr_alloc(low.key, plen)
               [] plen >= 0 /\ string /\ plen % 8 = 0 /\ chars \in 1..(low.key.len \div 8 - 1) ->
                    Wildcard(name, chars)
               [] plen >= 0 /\ string -> prefix_expr_alloc(low.key, plen)
               [] OTHER -> range_expr_alloc(low.key, [low.key EXCEPT !.v = high])
  IN Plain([low EXCEPT !.key = key])

\* Starts and ends in order; an interval ends where the next one starts, the
\* last one may be open.
interval_map_decompose(elems) ==
  LET catchall == SelectSeq(elems, LAMBDA e : e.key.t = "catchall")
      s == SortSeq(SelectSeq(elems, LAMBDA e : e.key.t # "catchall"),
                   LAMBDA x, y : Less(x.key.v, y.key.v) \/ (x.key.v = y.key.v /\ x.end /\ ~y.end))
      at(k) == IF s[k].end THEN <<>>
               ELSE <<add_interval(s[k], IF k = Len(s) THEN Bitmask(s[k].key.len) ELSE Prev1(s[k + 1].key.v))>>
  IN FlattenSeq([k \in DOMAIN s |-> at(k)]) \o [k \in DOMAIN catchall |-> Plain(catchall[k])]

\* expr_msort_value(): a concatenation is sorted as the little-endian number
\* its bytes make up.
RECURSIVE SortKey(_)
SortKey(e) ==
  CASE e.t = "value" -> e.v
    [] e.t = "concat" ->
         LET all == FoldLeft(LAMBDA acc, p : [m |-> acc.m \cup At(Export(p.v, p.bo, Bytes(p.len)), 8 * acc.n),
                                             n |-> acc.n + Bytes(p.len)], [m |-> {}, n |-> 0], e.elems)
         IN Import(all.m, "host", all.n)
    [] e.t = "binop" -> SortKey(e.left)
    [] e.t = "catchall" -> Bitmask(e.len)

list_expr_sort(elems) == SortSeq(elems, LAMBDA x, y : Less(SortKey(x.key), SortKey(y.key)))

netlink_list_setelems(wire) ==
  LET set == netlink_delinearize_set(wire)
      elems == FlattenSeq([k \in DOMAIN wire.init |-> netlink_delinearize_setelem(set, wire.init[k])])
  IN [set EXCEPT !.init = CASE "interval" \in set.flags /\ set.key.t = "concat" -> concat_range_aggregate(elems)
                            [] "interval" \in set.flags -> interval_map_decompose(elems)
                            [] OTHER -> list_expr_sort([k \in DOMAIN elems |-> Plain(elems[k])])]
=============================================================================
