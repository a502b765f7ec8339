-------------------------------- MODULE Json --------------------------------
(***************************************************************************)
(* The listing of a rule in JSON (src/json.c), from the statements that    *)
(* Postprocess returns.                                                    *)
(*                                                                         *)
(* A JSON value is a record: j is "int", "str", "bool", "null", "array",   *)
(* "obj" (an object with one property, named for what it is) or "props"    *)
(* (the properties of that object: expressions as JSON, numbers, names and *)
(* sets of flags as they are).  A string keeps the type whose name of the  *)
(* value it is, since only the names of some types mean something special  *)
(* to the parser.  Whether flags are one string or an array is left out.   *)
(***************************************************************************)
EXTENDS Postprocess

JInt(v) == [j |-> "int", v |-> v]
Text(dt, v) == [j |-> "str", dt |-> dt, v |-> v]
Bool(b) == [j |-> "bool", b |-> b]
Array(a) == [j |-> "array", a |-> a]
JsonNull == [j |-> "null"]
Obj(key, val) == [j |-> "obj", key |-> key, val |-> val]
Props(p) == [j |-> "props", p |-> p]

\* An object without properties is printed as null.
PropsOrNull(p) == IF p = <<>> THEN JsonNull ELSE Props(p)

(***************************************************************************)
(* Constants, by their type.                                               *)
(***************************************************************************)
MSEC_PER_SEC == 1000

\* A number of up to 64 bits is an integer, a larger one a string of digits.
integer_type_json(e) == IF LessEq(e.v, Bitmask(64)) THEN JInt(e.v) ELSE Text("integer", e.v)

\* The protocols that /etc/protocols knows by the name that nft uses.
ProtocolNames == {1, 6, 17, 33, 50, 51, 132, 136}

inet_protocol_type_json(o, e) ==
  IF ~o.numeric_proto /\ \E n \in ProtocolNames : e.v = Num(n) THEN Text("inet_proto", e.v) ELSE integer_type_json(e)

PlainNumbers == {"integer", "inet_service", "mark", "uid", "nf_proto", "classid"}

\* datatype_json(): the json method of the type, or of the type it is made
\* of; a type with symbols or a print method gives a string.
datatype_json(o, e) ==
  CASE e.dt = "inet_proto" -> inet_protocol_type_json(o, e)
    [] e.dt = "boolean" -> Bool(e.v # {})
    [] e.dt = "time" -> JInt(Num(NumOf(e.v) \div MSEC_PER_SEC))
    [] e.dt \in PlainNumbers -> integer_type_json(e)
    [] OTHER -> Text(e.dt, e.v)

(***************************************************************************)
(* Expressions.  o: the output flags.                                      *)
(***************************************************************************)
RECURSIVE expr_print_json(_, _)
RECURSIVE __binop_expr_json(_, _, _)

PrintAll(o, es) == [k \in DOMAIN es |-> expr_print_json(o, es[k])]

\* Operands of the same operation, on either side, become one list.
__binop_expr_json(o, op, e) ==
  IF e.t = "binop" /\ e.op = op THEN __binop_expr_json(o, op, e.left) \o __binop_expr_json(o, op, e.right)
  ELSE <<expr_print_json(o, e)>>

relational_expr_json(o, e) ==
  Obj("match", Props([op |-> e.op, left |-> expr_print_json(o, e.left), right |-> expr_print_json(o, e.right)]))

\* Protocols are printed as numbers inside a range.
range_expr_json(o, e) ==
  LET n == [o EXCEPT !.numeric_proto = TRUE]
  IN Obj("range", Array(<<expr_print_json(n, e.left), expr_print_json(n, e.right)>>))

payload_expr_json(e) ==
  Obj("payload", Props(IF payload_is_known(e) THEN [protocol |-> e.desc, field |-> e.field]
                       ELSE [base |-> e.base, offset |-> e.off, len |-> e.len]))

ct_expr_json(key, dir) == Obj("ct", Props([key |-> key] @@ If(dir # "none", "dir", dir)))

\* An element with a timeout has the long form; a mapping is a pair.
set_elem_expr_json(o, e, timeout) ==
  LET key == expr_print_json(o, e.key)
      elem == IF timeout = 0 THEN key
              ELSE Obj("elem", Props([val |-> key, timeout |-> timeout \div MSEC_PER_SEC]))
  IN IF e.data = Null THEN elem ELSE Array(<<elem, expr_print_json(o, e.data)>>)

set_expr_json(o, elems) == Obj("set", Array([k \in DOMAIN elems |-> set_elem_expr_json(o, elems[k], 0)]))

\* The name of a set or object: a reference to a set starts with "@".
SetName(name) == Text("setref", name)

set_ref_expr_json(o, e) ==
  IF "anonymous" \in e.set.flags THEN set_expr_json(o, e.set.init) ELSE SetName(e.set.name)

prefix_expr_json(o, e) == Obj("prefix", Props([addr |-> expr_print_json(o, e.prefix), len |-> e.plen]))

map_expr_json(o, e) ==
  Obj(IF e.mappings.t = "setref" /\ e.mappings.set.data.dt = "verdict" THEN "vmap" ELSE "map",
      Props([key |-> expr_print_json(o, e.map), data |-> expr_print_json(o, e.mappings)]))

\* The blocks of a SACK option are numbered by their offset.
exthdr_expr_json(e) ==
  LET block == IF e.off \div 64 < 4 THEN e.off \div 64 ELSE 0
      field == If(~e.present, "field", e.field)
  IN CASE e.op = "tcpopt" /\ e.desc = "none" ->
            Obj("tcp option", Props([base |-> e.type, offset |-> e.off, len |-> e.len]))
       [] e.op = "tcpopt" -> Obj("tcp option", Props([name |-> e.desc, block |-> block] @@ field))
       [] e.op = "ipv4" -> Obj("ip option", Props([name |-> e.desc] @@ field))
       [] OTHER -> Obj("exthdr", Props([name |-> e.desc] @@ field))

verdict_expr_json(e) ==
  Obj(e.code, IF e.code \in {"jump", "goto"} THEN Props([target |-> e.chain]) ELSE JsonNull)

rt_expr_json(e) ==
  LET family == IF e.key = "nexthop4" THEN "ip" ELSE IF e.key = "nexthop6" THEN "ip6" ELSE "none"
  IN Obj("rt", Props([key |-> IF family = "none" THEN e.key ELSE "nexthop"]
                     @@ If(family # "none", "family", family)))

numgen_expr_json(e) == Obj("numgen", Props([mode |-> e.key, mod |-> e.a.mod, offset |-> e.a.offset]))

hash_expr_json(o, e) ==
  LET a == [mod |-> e.a.mod] @@ If("seed" \in DOMAIN e.a, "seed", Attr(e.a, "seed"))
             @@ If(e.a.offset # 0, "offset", e.a.offset)
  IN IF e.arg = Null THEN Obj("symhash", Props(a)) ELSE Obj("jhash", Props(a @@ [expr |-> expr_print_json(o, e.arg)]))

\* The flag that asks whether there is a route at all is not printed.
fib_expr_json(e) ==
  LET flags == e.a.flags \ {"present"}
  IN Obj("fib", Props([result |-> e.key] @@ If(flags # {}, "flags", flags)))

osf_expr_json(e) == Obj("osf", Props([key |-> e.key] @@ If(e.a.ttl # 0, "ttl", e.a.ttl)))

xfrm_expr_json(e) == Obj("ipsec", Props([key |-> e.key, dir |-> e.a.dir, spnum |-> e.a.spnum]))

expr_print_json(o, e) ==
  CASE e.t = "value" -> datatype_json(o, e)
    [] e.t = "binop" -> Obj(e.op, Array(__binop_expr_json(o, e.op, e)))
    [] e.t = "rel" -> relational_expr_json(o, e)
    [] e.t = "range" -> range_expr_json(o, e)
    [] e.t = "meta" -> Obj("meta", Props([key |-> e.key]))
    [] e.t = "payload" -> payload_expr_json(e)
    [] e.t = "ct" -> ct_expr_json(e.key, e.dir)
    [] e.t = "concat" -> Obj("concat", Array(PrintAll(o, e.elems)))
    [] e.t = "list" -> Array(PrintAll(o, e.elems))
    [] e.t = "set" -> set_expr_json(o, e.elems)
    [] e.t = "elem" -> set_elem_expr_json(o, e, 0)
    [] e.t = "catchall" -> Text("catchall", {})
    [] e.t = "setref" -> set_ref_expr_json(o, e)
    [] e.t = "prefix" -> prefix_expr_json(o, e)
    [] e.t = "unary" -> expr_print_json(o, e.arg)
    [] e.t = "map" -> map_expr_json(o, e)
    [] e.t = "exthdr" -> exthdr_expr_json(e)
    [] e.t = "verdict" -> verdict_expr_json(e)
    [] e.t = "rt" -> rt_expr_json(e)
    [] e.t = "numgen" -> numgen_expr_json(e)
    [] e.t = "hash" -> hash_expr_json(o, e)
    [] e.t = "fib" -> fib_expr_json(e)
    [] e.t = "osf" -> osf_expr_json(e)
    [] e.t = "xfrm" -> xfrm_expr_json(e)
    [] e.t = "socket" -> Obj("socket", Props([key |-> e.key]))

(***************************************************************************)
(* Statements.                                                             *)
(***************************************************************************)
\* get_rate(): the largest unit that divides the number of bytes.
get_rate(n) ==
  CASE n # 0 /\ n % 1048576 = 0 -> [val |-> n \div 1048576, unit |-> "mbytes"]
    [] n # 0 /\ n % 1024 = 0 -> [val |-> n \div 1024, unit |-> "kbytes"]
    [] OTHER -> [val |-> n, unit |-> "bytes"]

Units == [second |-> 1, minute |-> 60, hour |-> 3600, day |-> 86400, week |-> 604800]

get_unit(n) == IF \E u \in DOMAIN Units : Units[u] = n THEN CHOOSE u \in DOMAIN Units : Units[u] = n ELSE "error"

Inv(flags) == If(flags # 0, "inv", TRUE)

mangle(key, value) == Obj("mangle", Props([key |-> key, value |-> value]))

quota_stmt_json(a) ==
  LET r == get_rate(a.bytes)
      u == get_rate(a.used)
  IN Obj("quota", Props([val |-> r.val, val_unit |-> r.unit] @@ Inv(a.flags)
                        @@ If(a.used # 0, "used", u.val) @@ If(a.used # 0, "used_unit", u.unit)))

limit_stmt_json(a) ==
  LET bytes == a.type = "bytes"
      r == IF bytes THEN get_rate(a.rate) ELSE [val |-> a.rate, unit |-> "packets"]
      b == IF bytes THEN get_rate(a.burst) ELSE [val |-> a.burst, unit |-> "packets"]
  IN Obj("limit", Props([rate |-> r.val, burst |-> b.val, per |-> get_unit(a.unit)] @@ Inv(a.flags)
                        @@ If(bytes, "rate_unit", r.unit) @@ If(bytes, "burst_unit", b.unit)))

fwd_stmt_json(o, s) ==
  Obj("fwd", Props([dev |-> expr_print_json(o, s.dev)]
                   @@ IF s.addr = Null THEN <<>> ELSE [family |-> s.family, addr |-> expr_print_json(o, s.addr)]))

\* Operands that are there.
Given(o, s, fields) ==
  [f \in {g \in fields : s[g] # Null} |-> expr_print_json(o, s[f])]

dup_stmt_json(o, s) ==
  Obj("dup", IF s.to = Null THEN JsonNull
             ELSE Props([addr |-> expr_print_json(o, s.to)] @@ Given(o, s, {"dev"})))

\* The level is left out when it is the default.
log_stmt_json(a) ==
  LET shown == {n \in DOMAIN a : n = "level" => a.level # "warn"} \ {"flags"}
      flags == IF "flags" \in DOMAIN a THEN a.flags ELSE {}
  IN Obj("log", PropsOrNull([n \in shown |-> a[n]] @@ If(flags # {}, "flags", flags)))

\* nat_type_flags_json(): of the flags, only the prefix is printed.
nat_stmt_json(o, s) ==
  LET tflags == s.tflags \cap {"prefix"}
      flags == s.flags \cap {"random", "fully-random", "persistent", "netmap"}
  IN Obj(s.type, PropsOrNull(If(s.family \in {"ip", "ip6"}, "family", s.family)
           @@ Given(o, s, {"addr"}) @@ If(s.proto # Null, "port", expr_print_json(o, s.proto))
           @@ If(flags # {}, "flags", flags) @@ If(tflags # {}, "type_flags", tflags)))

\* The code as the name of its type.
reject_stmt_json(s) ==
  LET code(dt) == [expr |-> Text(dt, Num(s.code))]
  IN Obj("reject",
       CASE s.type = "tcp_rst" -> Props([type |-> "tcp reset"])
         [] s.type = "icmpx_unreach" -> Props([type |-> "icmpx"] @@ code("icmpx_code"))
         [] s.family = "ip" -> Props([type |-> "icmp"] @@ code("icmp_code"))
         [] s.family = "ip6" -> Props([type |-> "icmpv6"] @@ code("icmpv6_code"))
         [] OTHER -> JsonNull)

counter_stmt_json(o, a) == Obj("counter", IF o.stateless THEN JsonNull ELSE Props(a))

last_stmt_json(o, a) == Obj("last", IF o.stateless \/ ~a.set THEN JsonNull ELSE Props([used |-> a.used]))

connlimit_stmt_json(a) == Obj("ct count", Props([val |-> a.count] @@ Inv(a.flags)))

queue_stmt_json(o, s) ==
  Obj("queue", PropsOrNull(If(s.q # Null, "num", expr_print_json(o, s.q)) @@ If(s.flags # {}, "flags", s.flags)))

\* The family is printed only in a table that has several.
tproxy_stmt_json(o, s) ==
  Obj("tproxy", Props(If(o.table_family = "inet" /\ s.family # "none", "family", s.family)
                      @@ Given(o, s, {"addr", "port"})))

synproxy_stmt_json(a) == Obj("synproxy", PropsOrNull(a))

StatefulJson(o, s) ==
  CASE s.s = "counter" -> counter_stmt_json(o, s.a)
    [] s.s = "limit" -> limit_stmt_json(s.a)
    [] s.s = "quota" -> quota_stmt_json(s.a)
    [] s.s = "last" -> last_stmt_json(o, s.a)
    [] s.s = "connlimit" -> connlimit_stmt_json(s.a)

\* The statements that the elements of a set carry.
set_stmt_list_json(o, stmts) ==
  If(stmts # <<>>, "stmt", Array([k \in DOMAIN stmts |-> StatefulJson(o, stmts[k])]))

set_stmt_json(o, s) ==
  Obj("set", Props([op |-> s.op, elem |-> set_elem_expr_json(o, s.key, s.timeout), set |-> SetName(s.set.set.name)]
                   @@ set_stmt_list_json(o, s.stmts)))

map_stmt_json(o, s) ==
  Obj("map", Props([op |-> s.op, elem |-> set_elem_expr_json(o, s.key, s.timeout), data |-> expr_print_json(o, s.data),
                    map |-> SetName(s.set.set.name)] @@ set_stmt_list_json(o, s.stmts)))

meter_stmt_json(o, s) ==
  Obj("meter", Props([key |-> set_elem_expr_json(o, s.key, s.timeout), name |-> s.set.set.name,
                      stmt |-> StatefulJson([o EXCEPT !.stateless = TRUE], s.stmt)]))

objref_stmt_json(o, s) == Obj(s.type, expr_print_json(o, s.e))

stmt_print_json(o, s) ==
  CASE s.s \in {"expr", "verdict"} -> expr_print_json(o, s.e)
    [] s.s = "flow_offload" -> Obj("flow", Props([op |-> "add", flowtable |-> SetName(s.a)]))
    [] s.s \in {"payload", "exthdr"} -> mangle(expr_print_json(o, s.e), expr_print_json(o, s.val))
    [] s.s = "meta" -> mangle(Obj("meta", Props([key |-> s.key])), expr_print_json(o, s.e))
    [] s.s = "ct" -> mangle(ct_expr_json(s.key, s.dir), expr_print_json(o, s.e))
    [] s.s \in Stateful -> StatefulJson(o, s)
    [] s.s = "fwd" -> fwd_stmt_json(o, s)
    [] s.s = "notrack" -> Obj("notrack", JsonNull)
    [] s.s = "dup" -> dup_stmt_json(o, s)
    [] s.s = "log" -> log_stmt_json(s.a)
    [] s.s = "nat" -> nat_stmt_json(o, s)
    [] s.s = "reject" -> reject_stmt_json(s)
    [] s.s = "set" -> set_stmt_json(o, s)
    [] s.s = "map" -> map_stmt_json(o, s)
    [] s.s = "objref" -> objref_stmt_json(o, s)
    [] s.s = "meter" -> meter_stmt_json(o, s)
    [] s.s = "queue" -> queue_stmt_json(o, s)
    [] s.s = "tproxy" -> tproxy_stmt_json(o, s)
    [] s.s = "synproxy" -> synproxy_stmt_json(s.a)
    [] s.s = "optstrip" -> Obj("reset", expr_print_json(o, s.e))

rule_print_json(family, stmts) ==
  LET o == [numeric_proto |-> FALSE, stateless |-> FALSE, table_family |-> family]
  IN [k \in DOMAIN stmts |-> stmt_print_json(o, stmts[k])]
=============================================================================
