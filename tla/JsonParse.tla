----------------------------- MODULE JsonParse -----------------------------
(***************************************************************************)
(* Reading the statements of a rule from JSON (src/parser_json.c).  What   *)
(* an object may contain depends on where it is: ctx is the set of flags   *)
(* that the objects around it have set.                                    *)
(*                                                                         *)
(* A parser returns an expression or a statement; Bad if it refused, with  *)
(* an error message, and Crash if it used the result of one that refused.  *)
(* Properties a listing never has are left out.                            *)
(***************************************************************************)
EXTENDS Json, Evaluate

Bad == E("bad", "invalid", "invalid", 0) @@ [s |-> "bad"]
Crash == E("crash", "invalid", "invalid", 0) @@ [s |-> "crash"]

\* The result, unless one of the parts it needs was refused.
Parsed(parts, result) ==
  IF Crash \in parts THEN Crash ELSE IF Bad \in parts THEN Bad ELSE result

\* The same where the code goes on with the missing part.
Unchecked(parts, result) == IF parts \cap {Bad, Crash} # {} THEN Crash ELSE result

(***************************************************************************)
(* Immediate values.                                                       *)
(***************************************************************************)
\* Names with a value of their own, whatever they are compared with.
ICMP_REDIRECT == 5

is_constant(j) ==
  \/ j.dt = "inet_proto" /\ \E n \in ProtocolNames : j.v = Num(n)
  \/ j.dt = "icmp_type" /\ j.v = Num(ICMP_REDIRECT)

json_parse_constant(j) == constant_expr_alloc(j.dt, "host", 8, j.v)

json_parse_immediate(j) ==
  CASE j.j = "str" /\ j.dt = "setref" -> SetSymbol(j.v)
    [] j.j = "str" /\ j.dt = "catchall" -> Catchall
    [] j.j = "str" /\ is_constant(j) -> json_parse_constant(j)
    [] j.j \in {"str", "int"} -> symbol_expr_alloc(j.v)
    [] j.j = "bool" -> constant_expr_alloc("boolean", "host", 8, IF j.b THEN {0} ELSE {})
    [] OTHER -> Bad

(***************************************************************************)
(* Where an expression may be.                                             *)
(***************************************************************************)
Everywhere == {"RHS", "STMT", "PRIMARY", "SET_RHS", "SES", "MAP", "CONCAT"}
Operand_ == {"STMT", "PRIMARY", "SET_RHS", "SES", "MAP", "CONCAT"}
BinopTypes == {"or", "xor", "and", "rshift", "lshift"}
VerdictTypes == {"accept", "drop", "continue", "jump", "goto", "return"}
OptionTypes == {"tcp option", "ip option"}

\* The flags of cb_tbl[]; {} for what is not in the table.
Allowed(type) ==
  CASE type = "concat" -> {"RHS", "STMT", "DTYPE", "SET_RHS", "SES", "MAP"}
    [] type = "set" -> {"RHS", "STMT"}
    [] type = "map" -> {"STMT", "PRIMARY", "SET_RHS"}
    [] type \in {"prefix", "range"} -> {"RHS", "SET_RHS", "STMT", "CONCAT"}
    [] type \in {"payload", "meta", "ct"} -> Operand_ \cup {"MANGLE"}
    [] type \in {"exthdr", "fib"} -> Operand_ \ {"STMT"}
    [] type \in OptionTypes -> {"PRIMARY", "SET_RHS", "MANGLE", "SES", "CONCAT"}
    [] type = "osf" -> {"STMT", "PRIMARY", "MAP", "CONCAT"}
    [] type = "ipsec" -> {"PRIMARY", "MAP", "CONCAT"}
    [] type = "socket" -> {"PRIMARY", "CONCAT"}
    [] type \in {"rt", "numgen", "jhash", "symhash"} -> Operand_
    [] type \in BinopTypes -> Everywhere
    [] type \in VerdictTypes -> {"RHS", "SET_RHS"}
    [] type = "elem" -> {"RHS", "STMT", "PRIMARY", "SES"}
    [] OTHER -> {}

KnownTypes == BinopTypes \cup VerdictTypes \cup OptionTypes
  \cup {"concat", "set", "map", "prefix", "range", "payload", "exthdr", "meta", "ct", "osf", "ipsec", "socket",
        "rt", "numgen", "jhash", "symhash", "fib", "elem"}

(***************************************************************************)
(* Expressions.  p are the properties of the object.                       *)
(***************************************************************************)
RECURSIVE json_parse_expr(_, _)

json_parse_flagged_expr(ctx, flag, j) == json_parse_expr(ctx \cup {flag}, j)

ParseAll(ctx, flag, a) == [k \in DOMAIN a |-> json_parse_flagged_expr(ctx, flag, a[k])]

Has(p, name) == name \in DOMAIN p

json_parse_payload_expr(p) ==
  CASE Has(p, "base") -> [payload_init_raw(p.base, p.offset, p.len) EXCEPT !.bo = "big"] @@ [raw |-> TRUE]
    [] p.protocol = "th" -> payload_expr_alloc(p.protocol, p.field) @@ [raw |-> TRUE]
    [] OTHER -> payload_expr_alloc(p.protocol, p.field)

\* The block tells which of the fields of that name is meant.
json_parse_tcp_option_field(p) ==
  LET named == SelectSeq(TcpOpts[p.name].fields, LAMBDA f : f.name = p.field)
  IN named[IF p.name = "sack" THEN p.block + 1 ELSE 1]

json_parse_tcp_option_expr(p) ==
  LET f == json_parse_tcp_option_field(p)
  IN CASE Has(p, "base") -> exthdr_init_raw("tcpopt", p.base, p.offset, p.len, p.offset = 0 /\ p.len = 8)
       [] ~Has(p, "field") -> exthdr_expr_alloc("tcpopt", p.name, "kind", TRUE)
       [] OTHER -> [exthdr_expr_alloc("tcpopt", p.name, p.field, FALSE) EXCEPT !.off = f.off, !.len = f.len]

json_parse_ip_option_expr(p) ==
  IF Has(p, "field") THEN exthdr_expr_alloc("ipv4", p.name, p.field, FALSE)
  ELSE exthdr_expr_alloc("ipv4", p.name, "type", TRUE)

\* A routing header of type 0 needs an offset, which no listing has.
json_parse_exthdr_expr(p) ==
  CASE ~Has(p, "field") -> exthdr_expr_alloc("ipv6", p.name, "nexthdr", TRUE)
    [] p.name = "rt0" /\ ~Has(p, "offset") -> Bad
    [] OTHER -> exthdr_expr_alloc("ipv6", p.name, p.field, FALSE)

json_parse_rt_expr(p) ==
  LET key == IF p.key # "nexthop" THEN p.key
             ELSE IF Has(p, "family") /\ p.family = "ip6" THEN "nexthop6" ELSE "nexthop4"
  IN source_expr_alloc("rt", key, <<>>)

CtDirKeys == {"l3proto", "saddr", "daddr", "protocol", "protosrc", "protodst", "bytes", "zone",
              "srcip", "dstip", "srcip6", "dstip6"}

json_parse_ct_expr(p) ==
  IF ~Has(p, "dir") THEN ct_expr_alloc(p.key, "none")
  ELSE IF p.key \in CtDirKeys THEN ct_expr_alloc(p.key, p.dir) ELSE Bad

json_parse_numgen_expr(p) == source_expr_alloc("numgen", p.mode, [mod |-> p.mod, offset |-> Attr(p, "offset")])

json_parse_hash_expr(ctx, type, p) ==
  LET a == [mod |-> p.mod, offset |-> Attr(p, "offset")]
      arg == json_parse_expr(ctx, p.expr)
  IN IF type = "symhash" THEN hash_expr_alloc(Null, a)
     ELSE Parsed({arg}, hash_expr_alloc(arg, a @@ If(Has(p, "seed"), "seed", Attr(p, "seed"))))

\* One address, and at most one interface.
json_parse_fib_expr(p) ==
  LET flags == IF Has(p, "flags") THEN p.flags ELSE {}
  IN IF Cardinality(flags \cap {"saddr", "daddr"}) # 1 \/ {"iif", "oif"} \subseteq flags THEN Bad
     ELSE source_expr_alloc("fib", p.result, [flags |-> flags])

json_parse_osf_expr(p) == source_expr_alloc("osf", p.key, [ttl |-> Attr(p, "ttl")])

json_parse_xfrm_expr(p) == source_expr_alloc("xfrm", p.key, [dir |-> p.dir, spnum |-> p.spnum])

\* Three operands or more are folded from the left, and none may be missing.
json_parse_binop_expr(ctx, op, a) ==
  LET primary == ParseAll(ctx, "PRIMARY", a)
      right == json_parse_flagged_expr(ctx, "RHS", a[2])
  IN IF Len(a) > 2
     THEN Unchecked(Range(primary),
            FoldLeft(LAMBDA l, r : binop_expr_alloc(op, l, r), primary[1], Tail(primary)))
     ELSE Parsed({primary[1], right}, binop_expr_alloc(op, primary[1], right))

json_parse_concat_expr(ctx, a) ==
  LET parts == ParseAll(ctx, "CONCAT", a)
  IN Parsed(Range(parts), IF Len(parts) = 1 THEN parts[1] ELSE concat_expr_alloc(parts))

json_parse_prefix_expr(ctx, p) ==
  LET addr == json_parse_flagged_expr(ctx, "PRIMARY", p.addr)
  IN Parsed({addr}, prefix_expr_alloc(addr, p.len))

json_parse_range_expr(ctx, a) ==
  LET ends == ParseAll(ctx, "PRIMARY", a)
  IN Parsed(Range(ends), range_expr_alloc(ends[1], ends[2]))

json_parse_verdict_expr(type, val) ==
  IF type \notin VerdictTypes THEN Bad
  ELSE verdict_expr_alloc(type, IF type \in {"jump", "goto"} THEN val.p.target ELSE "none")

ElemOf(e, data) == IF e.t = "elem" THEN [e EXCEPT !.data = data] ELSE set_elem_expr_alloc(e, data)

\* An array of two is a mapping.
SetMember(ctx, j) ==
  LET pair == j.j = "array" /\ Len(j.a) = 2
      key == json_parse_flagged_expr(ctx, "RHS", IF pair THEN j.a[1] ELSE j)
      data == IF pair THEN json_parse_flagged_expr(ctx, "SET_RHS", j.a[2]) ELSE Null
  IN Parsed({key, data}, ElemOf(key, data))

json_parse_set_expr(ctx, val) ==
  LET one == json_parse_immediate(val)
      elems == [k \in DOMAIN val.a |-> SetMember(ctx, val.a[k])]
  IN IF val.j # "array" THEN Parsed({one}, IF one.t = "symset" THEN one ELSE SetExpr(<<ElemOf(one, Null)>>))
     ELSE Parsed(Range(elems), SetExpr(elems))

json_parse_map_expr(ctx, p) ==
  LET key == json_parse_flagged_expr(ctx, "MAP", p.key)
      data == json_parse_flagged_expr(ctx, "RHS", p.data)
  IN Parsed({key, data}, map_expr_alloc(key, data))

\* The timeout of an element is a property of the statement here.
json_parse_set_elem_expr(ctx, p) ==
  LET key == json_parse_expr(ctx, p.val)
  IN Parsed({key}, set_elem_expr_alloc(key, Null) @@ [timeout |-> Attr(p, "timeout") * MSEC_PER_SEC])

Callback(ctx, type, val) ==
  CASE type = "concat" -> json_parse_concat_expr(ctx, val.a)
    [] type = "set" -> json_parse_set_expr(ctx, val)
    [] type = "map" -> json_parse_map_expr(ctx, val.p)
    [] type = "prefix" -> json_parse_prefix_expr(ctx, val.p)
    [] type = "range" -> json_parse_range_expr(ctx, val.a)
    [] type = "payload" -> json_parse_payload_expr(val.p)
    [] type = "exthdr" -> json_parse_exthdr_expr(val.p)
    [] type = "tcp option" -> json_parse_tcp_option_expr(val.p)
    [] type = "ip option" -> json_parse_ip_option_expr(val.p)
    [] type = "meta" -> meta_expr_alloc(val.p.key)
    [] type = "osf" -> json_parse_osf_expr(val.p)
    [] type = "ipsec" -> json_parse_xfrm_expr(val.p)
    [] type = "socket" -> source_expr_alloc("socket", val.p.key, <<>>)
    [] type = "rt" -> json_parse_rt_expr(val.p)
    [] type = "ct" -> json_parse_ct_expr(val.p)
    [] type = "numgen" -> json_parse_numgen_expr(val.p)
    [] type \in {"jhash", "symhash"} -> json_parse_hash_expr(ctx, type, val.p)
    [] type = "fib" -> json_parse_fib_expr(val.p)
    [] type \in BinopTypes -> json_parse_binop_expr(ctx, type, val.a)
    [] type \in VerdictTypes -> json_parse_verdict_expr(type, val)
    [] type = "elem" -> json_parse_set_elem_expr(ctx, val.p)

ListExpr(ctx, a) ==
  LET elems == [k \in DOMAIN a |-> json_parse_expr(ctx, a[k])]
  IN Parsed(Range(elems), compound_expr_alloc("list", elems))

\* Fault: true and false are not taken on the right-hand side of a match.
json_parse_exprNoBool(ctx, j) ==
  CASE j.j = "array" ->
         IF ctx \cap {"RHS", "STMT"} = {} \/ "PRIMARY" \in ctx THEN Bad ELSE ListExpr(ctx, j.a)
    [] j.j = "bool" -> IF "PRIMARY" \notin ctx THEN Bad ELSE json_parse_immediate(j)
    [] j.j \in {"str", "int"} -> json_parse_immediate(j)
    [] OTHER -> IF j.key \notin KnownTypes \/ ~(ctx \subseteq Allowed(j.key)) THEN Bad ELSE Callback(ctx, j.key, j.val)

json_parse_expr(ctx, j) ==
  CASE j.j = "array" ->
         IF ctx \cap {"RHS", "STMT"} = {} \/ "PRIMARY" \in ctx THEN Bad ELSE ListExpr(ctx, j.a)
    [] j.j = "bool" -> IF ctx \cap {"RHS", "PRIMARY"} = {} THEN Bad ELSE json_parse_immediate(j)
    [] j.j \in {"str", "int"} -> json_parse_immediate(j)
    [] OTHER -> IF j.key \notin KnownTypes \/ ~(ctx \subseteq Allowed(j.key)) THEN Bad ELSE Callback(ctx, j.key, j.val)

StmtExpr(j) == json_parse_expr({"STMT"}, j)

(***************************************************************************)
(* Statements.  Flags are names; an unknown one is reported and skipped,   *)
(* which no listing has.                                                   *)
(***************************************************************************)
RECURSIVE json_parse_stmt(_)

\* An operand that need not be there.
Opt_(p, name) == IF Has(p, name) THEN StmtExpr(p[name]) ELSE Null

FlagSet(p, name, known) == IF Has(p, name) THEN p[name] \cap known ELSE {}

FamilyOf(p) == IF Has(p, "family") THEN p.family ELSE "none"

InvFlag(p) == IF Has(p, "inv") /\ p.inv THEN 1 ELSE 0

\* The properties of a statement: none if it is null.
PropsOf(val) == IF val.j = "props" THEN val.p ELSE <<>>

RelationalOps == {"eq", "neq", "lt", "gt", "lte", "gte", "neg", "implicit"}

json_parse_match_stmt(p) ==
  LET left == json_parse_expr({}, p.left)
      right == json_parse_flagged_expr({}, "RHS", p.right)
  IN IF p.op \notin RelationalOps THEN Bad
     ELSE Parsed({left, right}, ExprStmt(relational_expr_alloc(p.op, left, right)))

\* A reference to a named object of that type.
ObjRef(type, val) == LET e == StmtExpr(val) IN Parsed({e}, Stmt("objref", [type |-> type, e |-> e]))

json_parse_counter_stmt(val) ==
  CASE val.j = "null" -> Stmt("counter", [a |-> [packets |-> 0, bytes |-> 0]])
    [] val.j = "props" -> Stmt("counter", [a |-> [packets |-> val.p.packets, bytes |-> val.p.bytes]])
    [] OTHER -> ObjRef("counter", val)

json_parse_last_stmt(val) ==
  IF val.j = "null" THEN Stmt("last", [a |-> [used |-> 0, set |-> FALSE]])
  ELSE Stmt("last", [a |-> [used |-> val.p.used, set |-> TRUE]])

\* The helper of a connection is an object.
json_parse_mangle_stmt(p) ==
  LET key == json_parse_flagged_expr({}, "MANGLE", p.key)
      val == StmtExpr(p.value)
  IN Parsed({key, val},
       CASE key.t \in {"exthdr", "payload"} -> Stmt(key.t, [e |-> key, val |-> val])
         [] key.t = "meta" -> Stmt("meta", [key |-> key.key, e |-> val])
         [] key.t = "ct" /\ key.key = "helper" -> Stmt("objref", [type |-> "ct helper", e |-> val])
         [] key.t = "ct" -> Stmt("ct", [key |-> key.key, dir |-> key.dir, e |-> val])
         [] OTHER -> Bad)

rate_to_bytes(v, unit) == CASE unit = "kbytes" -> v * 1024 [] unit = "mbytes" -> v * 1048576 [] OTHER -> v

UnitOf(p, name, default) == IF Has(p, name) THEN p[name] ELSE default

json_parse_quota_stmt(val) ==
  LET p == val.p
  IN IF val.j # "props" THEN ObjRef("quota", val)
     ELSE Stmt("quota", [a |-> [bytes |-> rate_to_bytes(p.val, UnitOf(p, "val_unit", "bytes")),
                                used |-> rate_to_bytes(Attr(p, "used"), UnitOf(p, "used_unit", "bytes")),
                                flags |-> InvFlag(p)]])

seconds_from_unit(unit) == IF unit \in DOMAIN Units THEN Units[unit] ELSE 1

DefaultBurst == 5

json_parse_limit_stmt(val) ==
  LET p == val.p
      packets == UnitOf(p, "rate_unit", "packets") = "packets"
      burst == Attr(p, "burst")
  IN IF val.j # "props" THEN ObjRef("limit", val)
     ELSE Stmt("limit", [a |->
            [type |-> IF packets THEN "packets" ELSE "bytes",
             rate |-> IF packets THEN p.rate ELSE rate_to_bytes(p.rate, p.rate_unit),
             burst |-> IF ~packets THEN rate_to_bytes(burst, UnitOf(p, "burst_unit", "bytes"))
                       ELSE IF burst = 0 THEN DefaultBurst ELSE burst,
             unit |-> seconds_from_unit(p.per), flags |-> InvFlag(p)]])

\* An address counts only together with a family.
json_parse_fwd_stmt(p) ==
  LET dev == StmtExpr(p.dev)
      family == FamilyOf(p)
      addr == IF family = "none" THEN Null ELSE Opt_(p, "addr")
  IN Parsed({dev, addr}, Stmt("fwd", [dev |-> dev, addr |-> addr, family |-> IF addr = Null THEN "none" ELSE family]))

json_parse_flow_offload_stmt(p) ==
  IF p.op # "add" \/ p.flowtable.dt # "setref" THEN Bad ELSE Stmt("flow_offload", [a |-> p.flowtable.v])

json_parse_dup_stmt(val) ==
  LET to == StmtExpr(val.p.addr)
      dev == Opt_(val.p, "dev")
  IN IF val.j = "null" THEN Bad ELSE Parsed({to, dev}, Stmt("dup", [to |-> to, dev |-> dev]))

NatTypes == {"snat", "dnat", "masq", "redir"}
NatFlags == {"random", "fully-random", "persistent", "netmap"}
NatTypeFlags == {"interval", "prefix", "concat"}

json_parse_nat_stmt(type, p) ==
  LET addr == Opt_(p, "addr")
      port == Opt_(p, "port")
  IN Parsed({addr, port},
       Stmt("nat", [type |-> type, family |-> FamilyOf(p), addr |-> addr, proto |-> port,
                    flags |-> FlagSet(p, "flags", NatFlags), tflags |-> FlagSet(p, "type_flags", NatTypeFlags)]))

json_parse_tproxy_stmt(p) ==
  LET addr == Opt_(p, "addr")
      port == Opt_(p, "port")
  IN Parsed({addr, port}, Stmt("tproxy", [family |-> FamilyOf(p), addr |-> addr, port |-> port]))

\* The code is read later, in the type that belongs to the message.
RejectTypes ==
  ("tcp reset" :> [type |-> "tcp_rst", family |-> "none"]) @@ [icmpx |-> [type |-> "icmpx_unreach", family |-> "none"],
   icmp |-> [type |-> "icmp_unreach", family |-> "ip"], icmpv6 |-> [type |-> "icmp_unreach", family |-> "ip6"]]

json_parse_reject_stmt(p) ==
  LET given == Has(p, "expr")
      code == IF ~Has(p, "type") THEN -1 ELSE IF given THEN NumOf(json_parse_immediate(p.expr).v) ELSE 0
      t == IF Has(p, "type") THEN RejectTypes[p.type] ELSE [type |-> "none", family |-> "none"]
  IN Stmt("reject", [type |-> t.type, family |-> t.family, code |-> code, given |-> given])

\* Nothing checks that a statement of the list was accepted.
json_parse_set_stmt_list(p) ==
  IF Has(p, "stmt") THEN [k \in DOMAIN p.stmt.a |-> json_parse_stmt(p.stmt.a[k])] ELSE <<>>

json_parse_set_elem_expr_stmt(j) ==
  LET e == json_parse_flagged_expr({}, "SES", j)
  IN IF e.t = "elem" THEN e ELSE Parsed({e}, set_elem_expr_alloc(e, Null) @@ [timeout |-> 0])

Keyed_(e) == set_elem_expr_alloc(e.key, e.data)

DynsetOps == {"add", "update", "delete"}

json_parse_set_stmt(p) ==
  LET elem == json_parse_set_elem_expr_stmt(p.elem)
      list == json_parse_set_stmt_list(p)
  IN IF p.op \notin DynsetOps THEN Bad
     ELSE Parsed({elem}, Unchecked(Range(list),
            Stmt("set", [op |-> p.op, set |-> SetSymbol(p.set.v), key |-> Keyed_(elem), timeout |-> elem.timeout,
                         stmts |-> list])))

\* The statements of the elements are linked to the list head of a set
\* statement, which in a map statement is where the data expression is.
json_parse_map_stmt(p) ==
  LET elem == json_parse_set_elem_expr_stmt(p.elem)
      data == json_parse_set_elem_expr_stmt(p.data)
      list == json_parse_set_stmt_list(p)
  IN IF p.op \notin DynsetOps THEN Bad
     ELSE Parsed({elem, data},
            IF list # <<>> THEN Crash
            ELSE Stmt("map", [op |-> p.op, set |-> SetSymbol(p.map.v), key |-> Keyed_(elem), timeout |-> elem.timeout,
                              data |-> data.key, stmts |-> <<>>]))

LogFlags == {"tcp sequence", "tcp options", "ip options", "skuid", "ether", "all"}
LogProps == {"prefix", "group", "snaplen", "qthreshold", "level"}

json_parse_log_stmt(p) ==
  LET flags == FlagSet(p, "flags", LogFlags)
  IN Stmt("log", [a |-> [n \in DOMAIN p \cap LogProps |-> p[n]] @@ If(flags # {}, "flags", flags)])

\* Without any of the properties it is the name of an object.
json_parse_synproxy_stmt(val) ==
  CASE val.j = "null" -> Stmt("synproxy", [a |-> <<>>])
    [] val.j = "props" -> Stmt("synproxy", [a |-> val.p])
    [] OTHER -> ObjRef("synproxy", val)

json_parse_meter_stmt(p) ==
  LET key == json_parse_set_elem_expr_stmt(p.key)
      stmt == json_parse_stmt(p.stmt)
  IN IF ~Has(p, "name") THEN Bad
     ELSE Parsed({key, stmt}, Stmt("meter", [name |-> p.name, key |-> Keyed_(key), timeout |-> key.timeout, stmt |-> stmt]))

QueueFlags == {"bypass", "fanout"}

json_parse_queue_stmt(p) ==
  LET q == Opt_(p, "num")
      flags == IF Has(p, "flags") THEN p.flags ELSE {}
  IN IF ~(flags \subseteq QueueFlags) THEN Bad ELSE Parsed({q}, Stmt("queue", [q |-> q, flags |-> flags]))

json_parse_connlimit_stmt(p) == Stmt("connlimit", [a |-> [count |-> p.val, flags |-> InvFlag(p)]])

json_parse_optstrip_stmt(val) ==
  LET e == json_parse_expr({}, val)
  IN IF e.t # "exthdr" THEN Bad ELSE IF e.op # "tcpopt" THEN Bad ELSE Stmt("optstrip", [e |-> e])

VerdictStmt(e) == Parsed({e}, Stmt("verdict", [e |-> e]))

json_parse_stmt(j) ==
  LET val == j.val
      p == PropsOf(val)
  IN CASE j.key = "vmap" -> VerdictStmt(json_parse_map_expr({}, p))
       [] j.key \in VerdictTypes -> VerdictStmt(json_parse_verdict_expr(j.key, val))
       [] j.key = "match" -> json_parse_match_stmt(p)
       [] j.key = "counter" -> json_parse_counter_stmt(val)
       [] j.key = "mangle" -> json_parse_mangle_stmt(p)
       [] j.key = "quota" -> json_parse_quota_stmt(val)
       [] j.key = "last" -> json_parse_last_stmt(val)
       [] j.key = "limit" -> json_parse_limit_stmt(val)
       [] j.key = "flow" -> json_parse_flow_offload_stmt(p)
       [] j.key = "fwd" -> json_parse_fwd_stmt(p)
       [] j.key = "notrack" -> Stmt("notrack", [a |-> 0])
       [] j.key = "dup" -> json_parse_dup_stmt(val)
       [] j.key \in NatTypes -> json_parse_nat_stmt(j.key, p)
       [] j.key = "reject" -> json_parse_reject_stmt(p)
       [] j.key = "set" -> json_parse_set_stmt(p)
       [] j.key = "map" -> json_parse_map_stmt(p)
       [] j.key = "log" -> json_parse_log_stmt(p)
       [] j.key \in {"ct helper", "ct timeout", "ct expectation", "secmark"} -> ObjRef(j.key, val)
       [] j.key = "meter" -> json_parse_meter_stmt(p)
       [] j.key = "queue" -> json_parse_queue_stmt(p)
       [] j.key = "ct count" -> json_parse_connlimit_stmt(p)
       [] j.key = "tproxy" -> json_parse_tproxy_stmt(p)
       [] j.key = "synproxy" -> json_parse_synproxy_stmt(val)
       [] j.key = "reset" -> json_parse_optstrip_stmt(val)
       [] OTHER -> Bad

\* The statements of a rule: the first one refused refuses the rule.
ParseRule(doc) == [k \in DOMAIN doc |-> json_parse_stmt(doc[k])]
=============================================================================
