---------------------------- MODULE Delinearize ----------------------------
(***************************************************************************)
(* From the kernel's instructions back to statements: the first pass of    *)
(* src/netlink_delinearize.c.  Every instruction is executed on registers  *)
(* that hold expressions.  The constants are read as big-endian numbers of *)
(* no type; Postprocess gives them theirs.                                 *)
(*                                                                         *)
(* ctx: the registers, the table's family and sets, the statements so far, *)
(* the statement being built (Null, or one to append), and whether an      *)
(* instruction could not be understood, which the program reports.         *)
(* Encapsulated headers, xtables matches and chain bindings are left out.  *)
(***************************************************************************)
EXTENDS Linearize, Payload

MaxRegs == 16

\* The registers are numbered in slots of 32 bits again; an attribute that is
\* not set reads as register 0.
netlink_parse_register(ins, attr) ==
  LET reg == IF attr \in DOMAIN ins THEN ins[attr] ELSE 0
  IN IF reg \in 1..4 THEN 1 + (reg - 1) * 4 ELSE IF reg >= 8 THEN 1 + reg - 8 ELSE reg

netlink_error(ctx) == [ctx EXCEPT !.err = TRUE]

netlink_set_register(ctx, reg, e) ==
  IF reg = VerdictReg \/ reg > MaxRegs THEN netlink_error(ctx) ELSE [ctx EXCEPT !.regs[reg] = e]

netlink_get_register(ctx, reg) ==
  IF reg = VerdictReg \/ reg > MaxRegs THEN Null ELSE ctx.regs[reg]

SetStmt(ctx, s) == [ctx EXCEPT !.stmt = s]

rule_stmt_append(ctx, s) == [ctx EXCEPT !.stmts = Append(@, s)]

\* A handler that needs the expression of a source register.
WithReg(ctx, reg, Handler(_)) ==
  LET e == netlink_get_register(ctx, reg) IN IF e = Null THEN netlink_error(ctx) ELSE Handler(e)

\* The expressions of consecutive registers that make up len bits; <<>> if
\* one is missing.
RECURSIVE Parts(_, _, _)
Parts(ctx, reg, len) ==
  LET e == netlink_get_register(ctx, reg)
      rest == Parts(ctx, reg + netlink_register_space(e.len), len - netlink_padded_len(e.len))
  IN IF e = Null \/ netlink_padded_len(e.len) > len THEN <<>>
     ELSE IF netlink_padded_len(e.len) = len THEN <<e>>
     ELSE IF rest = <<>> THEN <<>> ELSE <<e>> \o rest

netlink_parse_concat_expr(ctx, reg, len) == compound_expr_alloc("concat", Parts(ctx, reg, len))

\* The parts take the types of the set's key.
netlink_parse_concat_key(ctx, reg, key) ==
  LET parts == Parts(ctx, reg, key.len)
  IN compound_expr_alloc("concat",
       [k \in DOMAIN parts |->
          expr_set_type(parts[k], key.elems[k].dt, DataTypes[key.elems[k].dt].bo)])

\* The datum cut into the lengths of the parts it is compared with.
netlink_parse_concat_data(parts, data) ==
  compound_expr_alloc("concat",
    FoldLeft(LAMBDA acc, e :
               [cut |-> Append(acc.cut, Slice(acc.rest, e.len)),
                rest |-> [acc.rest EXCEPT !.len = @ - netlink_padded_len(e.len)]],
             [cut |-> <<>>, rest |-> data], parts).cut)

netlink_alloc_value(data) ==
  constant_expr_alloc("invalid", "invalid", 8 * data.n, Import(data.m, "invalid", data.n))

\* The operand of a set or map: as wide as its key, or a concatenation.
KeyExpr(ctx, e, reg, len) ==
  IF e.len < len THEN netlink_parse_concat_expr(ctx, reg, len) ELSE e

NoParts(e) == e.t = "concat" /\ e.elems = <<>>

netlink_parse_immediate(ctx, ins) ==
  LET dreg == netlink_parse_register(ins, "dreg")
  IN IF dreg = VerdictReg
     THEN SetStmt(ctx, Stmt("verdict", [e |-> verdict_expr_alloc(ins.verdict, ins.chain)]))
     ELSE netlink_set_register(ctx, dreg, netlink_alloc_value(ins.data))

\* fib, rt, socket, osf, numgen, xfrm: the template gives the type.
netlink_parse_source(ctx, ins) ==
  netlink_set_register(ctx, netlink_parse_register(ins, "dreg"), source_expr_alloc(ins.i, ins.key, ins.a))

netlink_parse_range(ctx, ins) ==
  WithReg(ctx, netlink_parse_register(ins, "sreg"), LAMBDA left :
    SetStmt(ctx, ExprStmt(relational_expr_alloc(ins.op, left,
      range_expr_alloc(netlink_alloc_value(ins.from), netlink_alloc_value(ins.to))))))

\* A datum shorter than what it is compared with is a prefix of it; a longer
\* one is compared with several registers.
netlink_parse_cmp(ctx, ins) ==
  LET sreg == netlink_parse_register(ins, "sreg")
      right == netlink_alloc_value(ins.data)
  IN WithReg(ctx, sreg, LAMBDA left :
       LET missing == left.len - right.len
           wide == [right EXCEPT !.len = left.len, !.v = Lshift(@, missing)]
           parts == Parts(ctx, sreg, right.len)
           rel(l, r) == SetStmt(ctx, ExprStmt(relational_expr_alloc(ins.op, l, r)))
       IN CASE missing > 0 /\ expr_basetype(left.dt) # "string" ->
                 rel(left, [prefix_expr_alloc(wide, right.len) EXCEPT !.len = right.len])
            [] left.len > 0 /\ missing < 0 ->
                 IF parts = <<>> THEN netlink_error(ctx)
                 ELSE rel(compound_expr_alloc("concat", parts),
                          netlink_parse_concat_data(parts, right))
            [] OTHER -> rel(left, right))

netlink_parse_lookup(ctx, ins) ==
  LET sreg == netlink_parse_register(ins, "sreg")
      dreg == netlink_parse_register(ins, "dreg")
  IN IF ins.set \notin DOMAIN ctx.sets THEN netlink_error(ctx)
     ELSE WithReg(ctx, sreg, LAMBDA e :
       LET set == ctx.sets[ins.set]
           left == KeyExpr(ctx, e, sreg, set.key.len)
           right == set_ref_expr_alloc(set)
       IN CASE NoParts(left) -> netlink_error(ctx)
            [] "dreg" \in DOMAIN ins /\ dreg # VerdictReg ->
                 netlink_set_register(ctx, dreg, map_expr_alloc(left, right))
            [] "dreg" \in DOMAIN ins -> SetStmt(ctx, ExprStmt(map_expr_alloc(left, right)))
            [] OTHER -> SetStmt(ctx, ExprStmt(
                 relational_expr_alloc(IF "inv" \in DOMAIN ins THEN "neq" ELSE "eq", left, right))))

\* x |-> (x & m) ^ y is split into and, xor and or.
netlink_parse_bitwise_bool(ins, left) ==
  LET mask == netlink_alloc_value(ins.mask)
      xor == netlink_alloc_value(ins.xor)
      o == Xor(And(mask.v, xor.v), xor.v)
      x == And(xor.v, mask.v)
      m == Or(mask.v, o)
      op(name, l, c, v) == [binop_expr_alloc(name, l, [c EXCEPT !.v = v]) EXCEPT !.len = left.len]
      anded == IF left.len > 0 /\ Scan0(m, 0) >= left.len THEN left ELSE op("and", left, mask, m)
      xored == IF x # {} THEN op("xor", anded, xor, x) ELSE anded
  IN IF o # {} THEN op("or", xored, xor, o) ELSE xored

netlink_parse_bitwise_shift(ins, left) ==
  [binop_expr_alloc(ins.op, left, [netlink_alloc_value(ins.data) EXCEPT !.bo = "host"])
   EXCEPT !.len = 8 * ins.len]

netlink_parse_bitwise(ctx, ins) ==
  WithReg(ctx, netlink_parse_register(ins, "sreg"), LAMBDA left :
    netlink_set_register(ctx, netlink_parse_register(ins, "dreg"),
      IF ins.op = "bool" THEN netlink_parse_bitwise_bool(ins, left)
      ELSE netlink_parse_bitwise_shift(ins, left)))

netlink_parse_byteorder(ctx, ins) ==
  WithReg(ctx, netlink_parse_register(ins, "sreg"), LAMBDA arg :
    netlink_set_register(ctx, netlink_parse_register(ins, "dreg"),
                         [unary_expr_alloc(ins.op, arg) EXCEPT !.len = arg.len]))

RawPayload(ins) == payload_init_raw(ins.base, 8 * ins.off, 8 * ins.len)

netlink_parse_payload(ctx, ins) ==
  IF "dreg" \in DOMAIN ins
  THEN netlink_set_register(ctx, netlink_parse_register(ins, "dreg"), RawPayload(ins))
  ELSE WithReg(ctx, netlink_parse_register(ins, "sreg"), LAMBDA val :
         rule_stmt_append(ctx, Stmt("payload", [e |-> RawPayload(ins), val |-> val])))

netlink_parse_exthdr(ctx, ins) ==
  LET e == IF "len" \in DOMAIN ins
           THEN exthdr_init_raw(ins.op, ins.type, 8 * ins.off, 8 * ins.len,
                                "present" \in DOMAIN ins /\ ins.present)
           ELSE exthdr_init_raw(ins.op, ins.type, 0, 0, FALSE)
  IN CASE "dreg" \in DOMAIN ins -> netlink_set_register(ctx, netlink_parse_register(ins, "dreg"), e)
       [] "sreg" \in DOMAIN ins ->
            WithReg(ctx, netlink_parse_register(ins, "sreg"), LAMBDA val :
              rule_stmt_append(ctx, Stmt("exthdr", [e |-> e, val |-> expr_set_type(val, e.dt, e.bo)])))
       [] OTHER -> rule_stmt_append(ctx, Stmt("optstrip", [e |-> [e EXCEPT !.present = TRUE]]))

netlink_parse_hash(ctx, ins) ==
  LET sreg == netlink_parse_register(ins, "sreg")
      put(arg) == netlink_set_register(ctx, netlink_parse_register(ins, "dreg"),
                                       hash_expr_alloc(arg, ins.a))
  IN IF "sreg" \notin DOMAIN ins THEN put(Null)
     ELSE WithReg(ctx, sreg, LAMBDA e :
            LET arg == KeyExpr(ctx, e, sreg, 8 * ins.len)
            IN IF NoParts(arg) THEN netlink_error(ctx) ELSE put(arg))

Dir(ins) == IF "dir" \in DOMAIN ins THEN ins.dir ELSE "none"

netlink_parse_meta(ctx, ins) ==
  LET t == MetaTemplates[ins.key]
  IN IF "dreg" \in DOMAIN ins
     THEN netlink_set_register(ctx, netlink_parse_register(ins, "dreg"), meta_expr_alloc(ins.key))
     ELSE WithReg(ctx, netlink_parse_register(ins, "sreg"), LAMBDA e :
            SetStmt(ctx, Stmt("meta", [key |-> ins.key, e |-> expr_set_type(e, t[1], t[3])])))

netlink_parse_ct(ctx, ins) ==
  LET t == CtTemplates[ins.key]
  IN IF "dreg" \in DOMAIN ins
     THEN netlink_set_register(ctx, netlink_parse_register(ins, "dreg"),
                               ct_expr_alloc(ins.key, Dir(ins)))
     ELSE WithReg(ctx, netlink_parse_register(ins, "sreg"), LAMBDA e :
            SetStmt(ctx, Stmt("ct", [key |-> ins.key, dir |-> Dir(ins),
                                     e |-> expr_set_type(e, t[1], t[3])])))

Attr(a, name) == IF name \in DOMAIN a THEN a[name] ELSE 0

\* connlimit, counter, last, quota, limit: attributes not sent read as zero.
StatefulStmt(ins) ==
  CASE ins.i = "counter" ->
         Stmt("counter", [a |-> [packets |-> Attr(ins.a, "packets"), bytes |-> Attr(ins.a, "bytes")]])
    [] ins.i = "limit" ->
         Stmt("limit", [a |-> [n \in {"rate", "unit", "type", "flags", "burst"} |-> Attr(ins.a, n)]])
    [] OTHER -> Stmt(ins.i, [a |-> ins.a])

\* A code that was not sent reads as 0.
netlink_parse_reject(ctx, ins) ==
  SetStmt(ctx, Stmt("reject", [type |-> ins.type, code |-> Attr(ins, "code"),
                               family |-> "none", given |-> ins.type # "tcp_rst"]))

RawStmt(ins) == Stmt(ins.i, [a |-> ins.a])

(***************************************************************************)
(* Address translation.                                                    *)
(***************************************************************************)
AddrType(family) == IF family = "ip" THEN "ipv4_addr" ELSE "ipv6_addr"

range_expr_is_prefix(r) ==
  LET differ == Xor(r.left.v, r.right.v)
      n == Scan0(differ, 0)
  IN differ = Bitmask(n) /\ r.left.v \cap Bitmask(n) = {}

range_expr_to_prefix(r) ==
  IF range_expr_is_prefix(r)
  THEN prefix_expr_alloc(r.left, r.left.len - Scan0(Xor(r.left.v, r.right.v), 0)) ELSE r

MapData(e) == IF e.t = "map" THEN e.mappings.set.data ELSE Null

MapIsInterval(e) == e.t = "map" /\ "interval" \in e.mappings.set.dataflags

\* is_nat_addr_map(): the map returns both ends of a range, of addresses or
\* of addresses and ports.
NatAddrMapFlags(addr, family) ==
  LET a == nat_addrlen(family)
  IN CASE ~MapIsInterval(addr) -> {}
       [] MapData(addr).len = a + a -> {"interval"}
       [] MapData(addr).len = a + 32 + a + 32 -> {"interval", "concat"}
       [] OTHER -> {}

is_nat_proto_map(addr, family) ==
  addr.t = "map" /\ MapData(addr).len = nat_addrlen(family) + 32

\* The operand in one register, or the range between two.
RegRange(ctx, ins, lo, hi, dt) ==
  LET r1 == netlink_parse_register(ins, lo)
      r2 == netlink_parse_register(ins, hi)
      e(r) == expr_set_type(netlink_get_register(ctx, r), dt, "big")
  IN CASE r1 = 0 /\ r2 = 0 -> Null
       [] r2 # 0 /\ r2 # r1 /\ r1 # 0 -> range_expr_alloc(e(r1), e(r2))
       [] r2 # 0 /\ r1 = 0 -> e(r2)
       [] OTHER -> e(r1)

\* A register that is named but holds nothing.
Dangling(ctx, ins, attrs) ==
  \E a \in attrs : netlink_parse_register(ins, a) # 0
                     /\ netlink_get_register(ctx, netlink_parse_register(ins, a)) = Null

Flags(ins) == IF "flags" \in DOMAIN ins THEN ins.flags ELSE {}

NatStmt(type, family, addr, proto, flags, tflags) ==
  Stmt("nat", [type |-> type, family |-> family, addr |-> addr, proto |-> proto,
               flags |-> flags, tflags |-> tflags])

netlink_parse_nat(ctx, ins) ==
  LET first == RegRange(ctx, ins, "amin", "none", AddrType(ins.family))
      both == RegRange(ctx, ins, "amin", "amax", AddrType(ins.family))
      addr == IF both.t = "range" THEN range_expr_to_prefix(both) ELSE both
      family == IF ctx.family = "inet" THEN ins.family ELSE "none"
      netmap == IF "netmap" \in Flags(ins) THEN {"prefix"} ELSE {}
      ranges == NatAddrMapFlags(first, ins.family)
      proto == RegRange(ctx, ins, "pmin", "pmax", "inet_service")
      stmt(f, a, p, t) == SetStmt(ctx, NatStmt(ins.i, f, a, p, Flags(ins), netmap \cup t))
  IN CASE Dangling(ctx, ins, {"amin"}) -> netlink_error(ctx)
       [] ranges # {} -> stmt(ins.family, first, Null, ranges)
       [] Dangling(ctx, ins, {"amax"}) -> netlink_error(ctx)
       [] is_nat_proto_map(addr, ins.family) -> stmt(ins.family, addr, Null, {"concat"})
       [] Dangling(ctx, ins, {"pmin", "pmax"}) -> netlink_error(ctx)
       [] OTHER -> stmt(family, addr, proto, {})

\* masquerade and redirect have ports only.
netlink_parse_masq(ctx, ins) ==
  IF Dangling(ctx, ins, {"pmin", "pmax"}) THEN netlink_error(ctx)
  ELSE SetStmt(ctx, NatStmt(ins.i, "none", Null, RegRange(ctx, ins, "pmin", "pmax", "inet_service"),
                            Flags(ins), {}))

\* A single operand as an address, a port or a device.
Operand(ctx, ins, attr, dt, bo) ==
  LET r == netlink_parse_register(ins, attr)
  IN IF r = 0 THEN Null ELSE expr_set_type(netlink_get_register(ctx, r), dt, bo)

netlink_parse_tproxy(ctx, ins) ==
  LET addr == Operand(ctx, ins, "addr", AddrType(ins.family), "big")
  IN IF Dangling(ctx, ins, {"addr", "port"}) \/ (addr # Null /\ ins.family \notin {"ip", "ip6"})
     THEN netlink_error(ctx)
     ELSE SetStmt(ctx, Stmt("tproxy", [family |-> ins.family, addr |-> addr,
                              port |-> Operand(ctx, ins, "port", "inet_service", "big")]))

netlink_parse_dup(ctx, ins) ==
  LET addr == Operand(ctx, ins, "addr", AddrType(ctx.family), "big")
      dev == Operand(ctx, ins, "dev", "iface_index", "host")
  IN IF Dangling(ctx, ins, {"addr", "dev"}) THEN netlink_error(ctx)
     ELSE SetStmt(ctx, Stmt("dup", IF addr = Null THEN [to |-> dev, dev |-> Null]
                                   ELSE [to |-> addr, dev |-> dev]))

netlink_parse_fwd(ctx, ins) ==
  LET family == IF "family" \in DOMAIN ins THEN ins.family ELSE "none"
      addr == Operand(ctx, ins, "addr", AddrType(family), "big")
  IN IF Dangling(ctx, ins, {"addr", "dev"}) \/ (addr # Null /\ family = "none")
     THEN netlink_error(ctx)
     ELSE SetStmt(ctx, Stmt("fwd", [dev |-> Operand(ctx, ins, "dev", "iface_index", "host"),
                                    family |-> family, addr |-> addr]))

\* num and total are 16 bits wide.
netlink_parse_queue(ctx, ins) ==
  LET num(n) == constant_expr_alloc("integer", "host", 16, Num(n % 65536))
      q == IF ins.total > 1 THEN range_expr_alloc(num(ins.num), num(ins.num + ins.total - 1))
           ELSE num(ins.num)
      stmt(e) == SetStmt(ctx, Stmt("queue", [q |-> e, flags |-> Flags(ins)]))
  IN IF "sreg" \in DOMAIN ins
     THEN WithReg(ctx, netlink_parse_register(ins, "sreg"), stmt) ELSE stmt(q)

\* Adding to a set or map from the packet path; a meter is an anonymous set
\* with a statement.
netlink_parse_dynset(ctx, ins) ==
  LET sreg == netlink_parse_register(ins, "key")
      stmts == CASE "expr" \in DOMAIN ins -> <<StatefulStmt(ins.expr)>>
                 [] "exprs" \in DOMAIN ins -> [k \in DOMAIN ins.exprs |-> StatefulStmt(ins.exprs[k])]
                 [] OTHER -> <<>>
      timeout == Attr(ins, "timeout")
  IN IF ins.set \notin DOMAIN ctx.sets THEN netlink_error(ctx)
     ELSE WithReg(ctx, sreg, LAMBDA e :
       LET set == ctx.sets[ins.set]
           key == IF e.len < set.key.len THEN netlink_parse_concat_key(ctx, sreg, set.key)
                  ELSE IF e.dt = "invalid" THEN expr_set_type(e, set.key.dt, set.key.bo) ELSE e
           raw == netlink_get_register(ctx, netlink_parse_register(ins, "data"))
           data == KeyExpr(ctx, raw, netlink_parse_register(ins, "data"), set.data.len)
           common == [key |-> set_elem_expr_alloc(key, Null), set |-> set_ref_expr_alloc(set),
                      timeout |-> timeout]
       IN CASE NoParts(key) -> netlink_error(ctx)
            [] "data" \in DOMAIN ins /\ raw # Null /\ ~NoParts(data) ->
                 SetStmt(ctx, Stmt("map", common @@ [op |-> ins.op, stmts |-> stmts,
                           data |-> expr_set_type(data, set.data.dt, set.data.bo)]))
            [] stmts # <<>> /\ "anonymous" \in set.flags ->
                 SetStmt(ctx, Stmt("meter", common @@ [stmt |-> stmts[1]]))
            [] OTHER -> SetStmt(ctx, Stmt("set", common @@ [op |-> ins.op, stmts |-> stmts])))

netlink_parse_objref(ctx, ins) ==
  LET sreg == netlink_parse_register(ins, "rawsreg")
      objref(type, e) == SetStmt(ctx, Stmt("objref", [type |-> type, e |-> expr_set_type(e, "string", "host")]))
  IN CASE "name" \in DOMAIN ins -> objref(ins.type, netlink_alloc_value(ins.name))
       [] ins.set \notin DOMAIN ctx.sets -> netlink_error(ctx)
       [] OTHER -> WithReg(ctx, sreg, LAMBDA e :
            LET set == ctx.sets[ins.set]
                left == KeyExpr(ctx, e, sreg, set.key.len)
            IN IF NoParts(left) THEN netlink_error(ctx)
               ELSE objref(set.objtype, map_expr_alloc(left, set_ref_expr_alloc(set))))

netlink_parse_expr(ctx, ins) ==
  CASE ins.i = "immediate" -> netlink_parse_immediate(ctx, ins)
    [] ins.i = "cmp" -> netlink_parse_cmp(ctx, ins)
    [] ins.i = "range" -> netlink_parse_range(ctx, ins)
    [] ins.i = "lookup" -> netlink_parse_lookup(ctx, ins)
    [] ins.i = "bitwise" -> netlink_parse_bitwise(ctx, ins)
    [] ins.i = "byteorder" -> netlink_parse_byteorder(ctx, ins)
    [] ins.i = "payload" -> netlink_parse_payload(ctx, ins)
    [] ins.i = "exthdr" -> netlink_parse_exthdr(ctx, ins)
    [] ins.i = "meta" -> netlink_parse_meta(ctx, ins)
    [] ins.i = "ct" -> netlink_parse_ct(ctx, ins)
    [] ins.i = "hash" -> netlink_parse_hash(ctx, ins)
    [] ins.i \in Sources -> netlink_parse_source(ctx, ins)
    [] ins.i \in Stateful -> SetStmt(ctx, StatefulStmt(ins))
    [] ins.i = "reject" -> netlink_parse_reject(ctx, ins)
    [] ins.i \in {"snat", "dnat"} -> netlink_parse_nat(ctx, ins)
    [] ins.i \in {"masq", "redir"} -> netlink_parse_masq(ctx, ins)
    [] ins.i = "tproxy" -> netlink_parse_tproxy(ctx, ins)
    [] ins.i = "dup" -> netlink_parse_dup(ctx, ins)
    [] ins.i = "fwd" -> netlink_parse_fwd(ctx, ins)
    [] ins.i = "queue" -> netlink_parse_queue(ctx, ins)
    [] ins.i = "dynset" -> netlink_parse_dynset(ctx, ins)
    [] ins.i = "objref" -> netlink_parse_objref(ctx, ins)
    [] ins.i \in {"log", "notrack", "flow_offload", "synproxy"} -> SetStmt(ctx, RawStmt(ins))
    [] OTHER -> netlink_error(ctx)

NoStmt == Stmt("none", <<>>)

netlink_parse_rule_expr(ctx, ins) ==
  LET c == netlink_parse_expr(ctx, ins)
  IN IF c.stmt = NoStmt THEN c ELSE [rule_stmt_append(c, c.stmt) EXCEPT !.stmt = NoStmt]

\* The first half of netlink_delinearize_rule(): every instruction in turn.
netlink_parse_rule(family, sets, code) ==
  FoldLeft(netlink_parse_rule_expr,
           [regs |-> [r \in 1..MaxRegs |-> Null], family |-> family, sets |-> sets,
            stmts |-> <<>>, stmt |-> NoStmt, err |-> FALSE],
           code)
=============================================================================
