-------------------------------- MODULE Expr --------------------------------
(***************************************************************************)
(* The syntax tree of a rule: expressions (src/expression.c), the          *)
(* datatypes they carry (src/datatype.c, src/meta.c, src/ct.c) and the     *)
(* templates of the packet's meta data and connection tracking keys.       *)
(*                                                                         *)
(* An expression is a record: t is its etype, dt the name of its datatype, *)
(* bo its byte order ("big", "host" or "invalid"), len its length in bits. *)
(* The flags of an expression that follow from its shape (constant,        *)
(* singleton, protocol) are operators on it.  Strings are numbers here:    *)
(* only their identity and their length matter.                            *)
(***************************************************************************)
EXTENDS Proto

E(t, dt, bo, len) == [t |-> t, dt |-> dt, bo |-> bo, len |-> len]

Null == E("null", "invalid", "invalid", 0)

\* The datatypes: parent, size and byte order.
T(base, size, bo) == [base |-> base, size |-> size, bo |-> bo]

DataTypes ==
  [invalid |-> T("none", 0, "invalid"), verdict |-> T("none", 0, "invalid"),
   integer |-> T("none", 0, "invalid"), string |-> T("none", 0, "host"),
   bitmask |-> T("integer", 0, "invalid"), nf_proto |-> T("integer", 8, "invalid"),
   ipv4_addr |-> T("integer", 32, "big"), ipv6_addr |-> T("integer", 128, "big"),
   ether_addr |-> T("integer", 48, "big"), inet_proto |-> T("integer", 8, "invalid"),
   inet_service |-> T("integer", 16, "big"), ether_type |-> T("integer", 16, "big"),
   icmp_type |-> T("integer", 8, "big"), icmp_code |-> T("integer", 8, "big"),
   icmpv6_type |-> T("integer", 8, "big"), icmpv6_code |-> T("integer", 8, "big"),
   igmp_type |-> T("integer", 8, "big"), arp_op |-> T("integer", 16, "big"),
   dscp |-> T("integer", 6, "big"), ecn |-> T("integer", 2, "big"),
   dccp_pkttype |-> T("integer", 4, "invalid"), boolean |-> T("integer", 1, "invalid"),
   mark |-> T("integer", 32, "host"), time |-> T("integer", 32, "host"),
   classid |-> T("integer", 32, "host"), iface_index |-> T("integer", 32, "host"),
   iface_type |-> T("integer", 16, "host"), ifname |-> T("string", 128, "host"),
   uid |-> T("integer", 32, "host"), pkt_type |-> T("integer", 8, "host"),
   tcp_flag |-> T("bitmask", 8, "big"), ct_state |-> T("bitmask", 32, "host"),
   ct_status |-> T("bitmask", 32, "host"), ct_dir |-> T("integer", 8, "invalid"),
   fib_addrtype |-> T("integer", 32, "host"), concat |-> T("none", 0, "invalid")]

\* expr_basetype(): the root of the chain of parents.
RECURSIVE expr_basetype(_)
expr_basetype(dt) ==
  IF DataTypes[dt].base = "none" THEN dt ELSE expr_basetype(DataTypes[dt].base)

IsBitmask(e) == DataTypes[e.dt].base = "bitmask"

HostInteger(e) == expr_basetype(e.dt) = "integer" /\ e.bo = "host"

\* meta_templates[].
MetaTemplates ==
  [length |-> <<"integer", 32, "host">>, protocol |-> <<"ether_type", 16, "big">>,
   nfproto |-> <<"nf_proto", 8, "host">>, l4proto |-> <<"inet_proto", 8, "host">>,
   priority |-> <<"classid", 32, "host">>, mark |-> <<"mark", 32, "host">>,
   iif |-> <<"iface_index", 32, "host">>, oif |-> <<"iface_index", 32, "host">>,
   iifname |-> <<"ifname", 128, "host">>, oifname |-> <<"ifname", 128, "host">>,
   iiftype |-> <<"iface_type", 16, "host">>, oiftype |-> <<"iface_type", 16, "host">>,
   skuid |-> <<"uid", 32, "host">>, nftrace |-> <<"integer", 1, "host">>,
   ibrpvid |-> <<"integer", 16, "host">>, ibrvproto |-> <<"ether_type", 16, "big">>,
   pkttype |-> <<"pkt_type", 8, "host">>, cpu |-> <<"integer", 32, "host">>,
   random |-> <<"integer", 32, "big">>, secmark |-> <<"integer", 32, "host">>]

\* ct_templates[].
CtTemplates ==
  [state |-> <<"ct_state", 32, "host">>, direction |-> <<"ct_dir", 8, "host">>,
   status |-> <<"ct_status", 32, "host">>, mark |-> <<"mark", 32, "host">>,
   expiration |-> <<"time", 32, "host">>, l3proto |-> <<"nf_proto", 8, "host">>,
   saddr |-> <<"invalid", 0, "big">>, daddr |-> <<"invalid", 0, "big">>,
   protocol |-> <<"inet_proto", 8, "big">>, protosrc |-> <<"inet_service", 16, "big">>,
   protodst |-> <<"inet_service", 16, "big">>, bytes |-> <<"integer", 64, "host">>,
   zone |-> <<"integer", 16, "host">>, srcip |-> <<"ipv4_addr", 32, "big">>,
   dstip |-> <<"ipv4_addr", 32, "big">>, srcip6 |-> <<"ipv6_addr", 128, "big">>,
   dstip6 |-> <<"ipv6_addr", 128, "big">>, id |-> <<"integer", 32, "big">>]

\* rt_templates[], socket_templates[], xfrm_templates[], and the results of fib,
\* osf and numgen.
SourceTemplates ==
  [fib |-> [oif |-> <<"iface_index", 32, "host">>, oifname |-> <<"string", 128, "host">>,
            type |-> <<"fib_addrtype", 32, "host">>],
   rt |-> [classid |-> <<"classid", 32, "host">>, nexthop4 |-> <<"ipv4_addr", 32, "big">>,
           nexthop6 |-> <<"ipv6_addr", 128, "big">>, mtu |-> <<"integer", 16, "host">>,
           ipsec |-> <<"boolean", 8, "host">>],
   socket |-> [transparent |-> <<"integer", 8, "host">>, mark |-> <<"mark", 32, "host">>,
               wildcard |-> <<"integer", 8, "host">>],
   xfrm |-> [spi |-> <<"integer", 32, "big">>, reqid |-> <<"integer", 32, "host">>],
   osf |-> [name |-> <<"string", 128, "host">>],
   numgen |-> [inc |-> <<"integer", 32, "host">>, random |-> <<"integer", 32, "host">>]]

Sources == DOMAIN SourceTemplates

Templated(t, tmpl) == E(t, tmpl[1], tmpl[3], tmpl[2])

meta_expr_alloc(key) == Templated("meta", MetaTemplates[key]) @@ [key |-> key]

\* fib_expr_alloc(), rt_expr_alloc(), socket_expr_alloc(), osf_expr_alloc(),
\* numgen_expr_alloc(), xfrm_expr_alloc(); a holds the other attributes.
source_expr_alloc(t, key, a) ==
  Templated(t, SourceTemplates[t][key]) @@ [key |-> key, a |-> a]

hash_expr_alloc(arg, a) == E("hash", "integer", "host", 32) @@ [arg |-> arg, a |-> a]

\* dir: "none", "original" or "reply".
ct_expr_alloc(key, dir) ==
  Templated("ct", CtTemplates[key]) @@ [key |-> key, dir |-> dir, l3 |-> "none"]

constant_expr_alloc(dt, bo, len, v) == E("value", dt, bo, len) @@ [v |-> v]

verdict_expr_alloc(code, chain) ==
  E("verdict", "verdict", "invalid", 0) @@ [code |-> code, chain |-> chain]

\* A name or number of the input, to be parsed by the datatype it is used as.
symbol_expr_alloc(v) == E("symbol", "invalid", "invalid", 0) @@ [v |-> v]

prefix_expr_alloc(e, plen) ==
  E("prefix", e.dt, e.bo, e.len) @@ [prefix |-> e, plen |-> plen]

unary_expr_alloc(op, arg) == E("unary", "invalid", "invalid", 0) @@ [op |-> op, arg |-> arg]

binop_expr_alloc(op, l, r) ==
  E("binop", l.dt, l.bo, 0) @@ [op |-> op, left |-> l, right |-> r]

relational_expr_alloc(op, l, r) ==
  E("rel", "verdict", "invalid", 0) @@ [op |-> op, left |-> l, right |-> r]

range_expr_alloc(l, r) == E("range", l.dt, l.bo, l.len) @@ [left |-> l, right |-> r]

\* Concatenations and lists; a set is a list of elements, each with a key
\* and, in a map, a datum.
compound_expr_alloc(t, elems) == E(t, "invalid", "invalid", 0) @@ [elems |-> elems]

concat_expr_alloc(elems) ==
  [compound_expr_alloc("concat", elems) EXCEPT
     !.dt = "concat",
     !.len = FoldSeq(LAMBDA e, n : n + RoundUp(e.len, 32), 0, elems)]

set_elem_expr_alloc(key, data) ==
  E("elem", key.dt, key.bo, key.len) @@ [key |-> key, data |-> data]

Catchall == E("catchall", "invalid", "invalid", 0)

map_expr_alloc(key, mappings) ==
  E("map", "invalid", "invalid", 0) @@ [map |-> key, mappings |-> mappings]

\* struct set: flags are a subset of "anonymous", "constant", "interval",
\* "map", "objmap", "eval"; key and data are expressions that carry a type.
Set(name, flags, key, data, init) ==
  [name |-> name, flags |-> flags, key |-> key, data |-> data, init |-> init,
   dataflags |-> {}]

set_ref_expr_alloc(set) == E("setref", set.key.dt, "invalid", 0) @@ [set |-> set]

\* expr_set_type() and the set_type() operations.
RECURSIVE expr_set_type(_, _, _)
expr_set_type(e, dt, bo) ==
  LET f == [e EXCEPT !.dt = dt, !.bo = bo]
  IN CASE e.t = "prefix" -> [f EXCEPT !.prefix = expr_set_type(@, dt, bo)]
       [] e.t = "range" -> [f EXCEPT !.left = expr_set_type(@, dt, bo),
                                     !.right = expr_set_type(@, dt, bo)]
       [] e.t = "elem" -> [f EXCEPT !.key = expr_set_type(@, dt, bo)]
       [] e.t = "set" -> [f EXCEPT !.elems = [i \in DOMAIN @ |-> expr_set_type(@[i], dt, bo)]]
       [] OTHER -> f

IsConst(e) == e.t \in {"value", "verdict", "prefix", "range"}

IsSingleton(e) == e.t \in {"value", "verdict"}

\* constant_expr_join(): the two memory images one after the other.
constant_expr_join(a, b) ==
  constant_expr_alloc("invalid", "invalid", a.len + b.len,
    Import(Export(a.v, a.bo, a.len \div 8)
             \cup At(Export(b.v, b.bo, b.len \div 8), a.len),
           "invalid", (a.len + b.len) \div 8))

\* constant_expr_splice(): the most significant len bits, and what is left.
\* The bits taken stay set in the rest: only its length shrinks.
Slice(e, len) ==
  constant_expr_alloc("invalid", "invalid", len,
    Rshift(And(e.v, Lshift(Bitmask(len), e.len - len)), e.len - len))

flag_expr_alloc(e, n) == constant_expr_alloc(e.dt, e.bo, e.len, {n})

bitmask_expr_to_binops(e) ==
  IF Cardinality(e.v) <= 1 THEN e
  ELSE LET bits == SetToSortSeq(e.v, <)
       IN FoldLeft(LAMBDA b, n : binop_expr_alloc("or", b, flag_expr_alloc(e, n)),
                   flag_expr_alloc(e, bits[1]), Tail(bits))

RECURSIVE range_expr_value_low(_)
range_expr_value_low(e) ==
  CASE e.t = "value" -> e.v
    [] e.t = "prefix" -> range_expr_value_low(e.prefix)
    [] e.t = "range" -> range_expr_value_low(e.left)
    [] e.t = "elem" -> range_expr_value_low(e.key)

RECURSIVE range_expr_value_high(_)
range_expr_value_high(e) ==
  CASE e.t = "value" -> e.v
    [] e.t = "prefix" -> Or(range_expr_value_low(e.prefix), Bitmask(e.len - e.plen))
    [] e.t = "range" -> range_expr_value_high(e.right)
    [] e.t = "elem" -> range_expr_value_high(e.key)

\* The characters of a string: the first is the least significant byte.
Star == Num(42)
Backslash == Num(92)

Char(v, i) == Rshift(v \cap (8 * i)..(8 * i + 7), 8 * i)

LastChar(v) == IF v = {} THEN -1 ELSE Max(v) \div 8

\* A statement: s is its type, the other fields depend on it.
Stmt(s, fields) == [s |-> s] @@ fields

ExprStmt(e) == Stmt("expr", [e |-> e])
=============================================================================
