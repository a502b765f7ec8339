------------------------------ MODULE Evaluate ------------------------------
(***************************************************************************)
(* Evaluation of the expressions of a rule (src/evaluate.c) and the        *)
(* dependencies it generates (src/payload.c): names get their value from   *)
(* the type of what they are compared with, constants are folded and       *)
(* converted to the byte order of the other operand, odd sized fields      *)
(* become masked loads, sets and maps are declared, and a match on a       *)
(* header is preceded by the match that the header is there.               *)
(*                                                                         *)
(* c is the evaluation context: pctx the protocol context; ectx the        *)
(* expected type (dt, "none" if unknown; bo, len, maxval, key; sub, the    *)
(* parts of a concatenated type); done the statements of the rule before   *)
(* the current one; stmtlen the width a statement asks for; set the set    *)
(* being declared; sets the sets declared, named those of the table; err:  *)
(* the rule is refused; bug: an assertion failed.                          *)
(* Inner headers, variables and meta hour are left out.                    *)
(***************************************************************************)
EXTENDS Payload

Ectx(dt, bo, len, maxval) ==
  [dt |-> dt, bo |-> bo, len |-> len, maxval |-> maxval, key |-> Null, sub |-> <<>>]

NoEctx == Ectx("none", "invalid", 0, 0)

__expr_set_context(c, dt, bo, len, maxval) == [c EXCEPT !.ectx = Ectx(dt, bo, len, maxval)]

expr_set_context(c, dt, len) ==
  __expr_set_context(c, dt, IF dt = "none" THEN "invalid" ELSE DataTypes[dt].bo, len, 0)

expr_error(c) == [c EXCEPT !.err = TRUE]

Require(c, ok) == [c EXCEPT !.err = @ \/ ~ok]

\* The next step, unless the one before failed.
Then(r, Step(_, _)) == IF r.c.err THEN r ELSE Step(r.c, r.e)

\* EXPR_F_CONSTANT and EXPR_F_SINGLETON.
RECURSIVE expr_is_constant(_)
expr_is_constant(e) ==
  CASE e.t = "concat" -> \A k \in DOMAIN e.elems : expr_is_constant(e.elems[k])
    [] e.t = "elem" -> expr_is_constant(e.key)
    [] OTHER -> e.t \in {"value", "verdict", "prefix", "range", "set", "setref", "map", "catchall"}

RECURSIVE expr_is_singleton(_)
expr_is_singleton(e) ==
  CASE e.t = "concat" -> \A k \in DOMAIN e.elems : expr_is_singleton(e.elems[k])
    [] e.t = "elem" -> expr_is_singleton(e.key)
    [] OTHER -> e.t \in {"value", "verdict", "catchall"}

RECURSIVE expr_evaluate(_, _)

\* Members evaluated one after the other; stops at the first that fails.
EvalSeq(c, s, Eval(_, _, _)) ==
  FoldLeft(LAMBDA acc, k : Then(acc, LAMBDA d, done :
             LET r == Eval(d, s[k], k) IN R(r.c, Append(done, r.e))),
           R(c, <<>>), [k \in DOMAIN s |-> k])

(***************************************************************************)
(* Byte order.                                                             *)
(***************************************************************************)
byteorder_conversion_op(bo) == IF bo = "big" THEN "hton" ELSE "ntoh"

\* A constant is relabelled, since its bytes are produced later; what is
\* computed gets an instruction.  BUG() if there is nothing to convert from.
Convert(c, e, bo) ==
  expr_evaluate(Expect(c, e.bo \in {"big", "host"} \ {bo}),
                unary_expr_alloc(byteorder_conversion_op(bo), e))

\* The parts of a concatenation, for range lookups.
ConvertPart(c, e, bo) ==
  CASE e.bo = "big" \/ expr_basetype(e.dt) = "string" -> R(c, e)
    [] e.t = "value" -> R(c, IF e.bo = "host" THEN [e EXCEPT !.v = SwitchByteorder(@, Bytes(e.len))] ELSE e)
    [] Bytes(e.len) >= 2 -> Convert(Expect(c, expr_basetype(e.dt) = "integer"), e, bo)
    [] OTHER -> R(c, e)

\* Fault: the parts of a concatenation keep their byte order, so that a range
\* is compared byte by byte from the wrong end.
byteorder_conversionNotParts(c0, e, bo) ==
  LET c == Expect(c0, expr_is_constant(e) => expr_is_singleton(e))
  IN CASE e.bo = bo \/ e.t = "concat" \/ expr_basetype(e.dt) = "string" -> R(c, e)
       [] expr_basetype(e.dt) # "integer" -> R(expr_error(c), e)
       [] expr_is_constant(e) \/ Bytes(e.len) < 2 -> R(c, [e EXCEPT !.bo = bo])
       [] OTHER -> Convert(c, e, bo)

byteorder_conversion(c0, e, bo) ==
  LET c == Expect(c0, expr_is_constant(e) => expr_is_singleton(e))
  IN CASE e.bo = bo -> R(c, e)
       [] e.t = "concat" ->
            Then(EvalSeq(c, e.elems, LAMBDA d, p, k : ConvertPart(d, p, bo)),
                 LAMBDA d, parts : R(d, [e EXCEPT !.elems = parts]))
       [] expr_basetype(e.dt) = "string" -> R(c, e)
       [] expr_basetype(e.dt) # "integer" -> R(expr_error(c), e)
       [] expr_is_constant(e) \/ Bytes(e.len) < 2 -> R(c, [e EXCEPT !.bo = bo])
       [] OTHER -> Convert(c, e, bo)

expr_evaluate_unary(c, e) ==
  LET bo == IF e.op = "hton" THEN "big" ELSE "host"
  IN R(Expect(c, /\ ~expr_is_constant(e.arg) /\ e.arg.t # "unary"
                 /\ expr_basetype(e.arg.dt) = "integer" /\ e.arg.bo \in {"big", "host"} \ {bo}),
       [e EXCEPT !.dt = e.arg.dt, !.bo = bo, !.len = e.arg.len])

(***************************************************************************)
(* Constants.                                                              *)
(***************************************************************************)
expr_evaluate_integer(c, e) ==
  LET len == IF c.stmtlen > c.ectx.len THEN c.stmtlen ELSE c.ectx.len
  IN R(Require(c, /\ c.ectx.maxval > 0 => LessEq(e.v, Num(c.ectx.maxval))
                  /\ LessEq(e.v, Bitmask(len))),
       [e EXCEPT !.bo = c.ectx.bo, !.len = len])

\* A name that ends in "*" is a prefix, unless the "*" is escaped.
expr_evaluate_string(c, e) ==
  LET last == LastChar(e.v)
      len == IF c.ectx.len > 0 THEN c.ectx.len ELSE e.len
      value(v) == constant_expr_alloc(c.ectx.dt, "host", len, v)
      head == {i \in e.v : i < 8 * last}
  IN CASE e.len > len \/ e.v = {} -> R(expr_error(c), e)
       [] Char(e.v, last) # Star -> R(c, value(e.v))
       [] last = 0 -> R(expr_error(c), e)
       [] Char(e.v, last - 1) = Backslash ->
            R(c, value(Or({i \in e.v : i < 8 * (last - 1)}, Lshift(Star, 8 * (last - 1)))))
       [] OTHER -> R(c, prefix_expr_alloc(value(head), 8 * last))

expr_evaluate_value(c, e) ==
  CASE expr_basetype(e.dt) = "integer" -> expr_evaluate_integer(c, e)
    [] expr_basetype(e.dt) = "string" -> expr_evaluate_string(c, e)
    [] OTHER -> R(Expect(c, FALSE), e)

\* A name or number is parsed by the type that is expected.
expr_evaluate_symbol(c, e) ==
  IF c.ectx.dt \in {"none", "invalid", "verdict"} THEN R(expr_error(c), e)
  ELSE expr_evaluate(c, constant_expr_alloc(c.ectx.dt, DataTypes[c.ectx.dt].bo,
         IF expr_basetype(c.ectx.dt) = "string" THEN 8 * (LastChar(e.v) + 1)
         ELSE DataTypes[c.ectx.dt].size, e.v))

\* "@name": a set of the table.
SetSymbol(name) == E("symset", "invalid", "invalid", 0) @@ [name |-> name]

expr_evaluate_set_ref(c, e) ==
  R([expr_set_context(c, e.set.key.dt, e.set.key.len) EXCEPT !.ectx.key = e.set.key], e)

SetLookup(c, e) ==
  IF e.name \in DOMAIN c.named
  THEN expr_evaluate_set_ref(c, set_ref_expr_alloc(c.named[e.name])) ELSE R(expr_error(c), e)

\* Primary expressions determine the type of the other operand.
expr_evaluate_primary(c, e) == R(__expr_set_context(c, e.dt, e.bo, e.len, 0), e)

expr_evaluate_prefix(c, e) ==
  Then(expr_evaluate(c, e.prefix), LAMBDA c1, base :
    LET string == expr_basetype(base.dt) = "string"
        mask == constant_expr_alloc(expr_basetype(base.dt), "host", base.len,
                  IF string THEN Bitmask(e.plen) ELSE Prefixmask(base.len, e.plen))
    IN IF \/ ~expr_is_constant(base) \/ expr_basetype(base.dt) \notin {"integer", "string"}
          \/ e.plen > base.len
       THEN R(expr_error(c1), e)
       ELSE Then(expr_evaluate(c1, binop_expr_alloc("and", base, mask)), LAMBDA c2, b :
              R(Expect(c2, expr_is_constant(b)),
                [e EXCEPT !.prefix = b, !.dt = b.dt, !.bo = b.bo, !.len = b.len])))

\* The range keeps the byte order and length it was built with.
expr_evaluate_range(c, e) ==
  Then(expr_evaluate(c, e.left), LAMBDA c1, l : Then(expr_evaluate(c1, e.right), LAMBDA c2, r :
    LET c3 == Require(c2, \A b \in {l, r} : expr_basetype(b.dt) = "integer" /\ b.t = "value")
    IN IF c3.err THEN R(c3, e)
       ELSE R(Require(c3, LessEq(l.v, r.v)),
              [e EXCEPT !.left = l, !.right = r, !.dt = l.dt, !.bo = l.bo, !.len = l.len])))

(***************************************************************************)
(* Binary operations.                                                      *)
(***************************************************************************)
constant_binop_simplify(c, e) ==
  LET l == e.left.v
      n == NumOf(e.right.v)
      all == Bitmask(e.len)
      v == CASE e.op = "and" -> And(And(l, e.right.v), all)
             [] e.op = "or" -> And(Or(l, e.right.v), all)
             [] e.op = "xor" -> And(Xor(l, e.right.v), all)
             [] e.op = "lshift" -> And(Lshift(l, n), all)
             [] e.op = "rshift" -> Rshift(And(l, all), n)
  IN expr_evaluate(Expect(c, e.left.bo = e.right.bo), constant_expr_alloc(e.dt, e.bo, e.len, v))

Folded(c, e) == IF expr_is_constant(e.left) THEN constant_binop_simplify(c, e) ELSE R(c, e)

Wider(a, b) == IF a > b THEN a ELSE b

\* Shifts are made in host byte order.
expr_evaluate_shift(c, e) ==
  LET len == Wider(c.stmtlen, e.left.len)
  IN IF LessEq(Num(len), e.right.v) THEN R(expr_error(c), e)
     ELSE Then(byteorder_conversion(c, e.left, "host"), LAMBDA c1, l :
            Then(byteorder_conversion(c1, e.right, "host"), LAMBDA c2, r :
              Folded(c2, [e EXCEPT !.left = l, !.right = r, !.dt = "integer", !.bo = "host", !.len = len])))

\* When a statement asks for more bits than the operand has, the operation is
\* made in host byte order.
expr_evaluate_bitwise(c, e) ==
  LET wide == c.stmtlen > e.left.len
  IN Then(IF wide THEN byteorder_conversion(c, e.left, "host") ELSE R(c, e.left), LAMBDA c1, l :
       LET bo == IF wide THEN "host" ELSE l.bo
       IN Then(byteorder_conversion(c1, e.right, bo), LAMBDA c2, r :
            Folded(c2, [e EXCEPT !.left = l, !.right = r, !.bo = bo,
                                 !.dt = IF wide THEN "integer" ELSE l.dt,
                                 !.len = Wider(c.stmtlen, l.len)])))

expr_evaluate_binop(c, e) ==
  Then(expr_evaluate(c, e.left), LAMBDA c1, l :
    LET shift == e.op \in {"lshift", "rshift"}
        c2 == IF shift THEN __expr_set_context(c1, "integer", l.bo, Wider(c.ectx.len, l.len), 0) ELSE c1
    IN Then(expr_evaluate(c2, e.right), LAMBDA c3, r :
         LET b == [e EXCEPT !.left = l, !.right = r]
         IN IF /\ expr_basetype(l.dt) \in {"integer", "string"}
               /\ expr_is_constant(l) => expr_is_singleton(l)
               /\ expr_is_constant(r) /\ expr_is_singleton(r)
               /\ expr_basetype(l.dt) = expr_basetype(r.dt)
            THEN IF shift THEN expr_evaluate_shift(c3, b) ELSE expr_evaluate_bitwise(c3, b)
            ELSE R(expr_error(c3), b)))

(***************************************************************************)
(* Dependencies.                                                           *)
(***************************************************************************)
\* stmt_dependency_evaluate(): a match on its own, with no expected type.
stmt_dependency_evaluate(c, rel) ==
  LET r == expr_evaluate([c EXCEPT !.ectx = NoEctx, !.stmtlen = 0], rel) IN R([r.c EXCEPT !.stmtlen = c.stmtlen], r.e)

\* stmt_dep_conflict(): the field is already compared with another constant.
SameField(s, rel) ==
  /\ s.s = "expr" /\ s.e.t = "rel" /\ s.e.right.t = "value"
  /\ s.e.left.t = "payload" /\ rel.left.t = "payload" /\ s.e.left.len = rel.left.len
  /\ s.e.left.desc = rel.left.desc /\ s.e.left.base = rel.left.base /\ s.e.left.off = rel.left.off

rule_stmt_dep_add(c, rel) ==
  [Require(c, \A i \in DOMAIN c.done : ~SameField(c.done[i], rel)) EXCEPT
     !.done = Append(@, ExprStmt(rel))]

\* payload_add_dependency(): the match that says which header comes next.
payload_add_dependency(c, d, upper) ==
  LET key == Proto[d].key
      num == proto_find_num(d, upper)
      left == IF key.name = "meta" THEN meta_expr_alloc(key.meta) ELSE payload_expr_alloc(d, key.name)
      right == constant_expr_alloc(key.dt, DataTypes[key.dt].bo, key.len, Num(num))
  IN IF num < 0 THEN R(expr_error(c), Null)
     ELSE Then(stmt_dependency_evaluate(c, relational_expr_alloc("eq", left, right)),
               LAMBDA c1, rel : R([c1 EXCEPT !.pctx = relational_expr_pctx_update(@, rel)], rel))

payload_get_get_ll_hdr(family) ==
  CASE family = "inet" -> "inet" [] family = "bridge" -> "ether" [] family = "netdev" -> "netdev"
    [] OTHER -> "none"

\* payload_gen_special_dependency(): families with more than one network
\* protocol.  ICMP also says which one.  The result's e is the lower header.
payload_gen_special_dependency(c, e) ==
  LET ll == IF c.pctx.desc["ll"] # "none" THEN c.pctx.desc["ll"] ELSE payload_get_get_ll_hdr(c.family)
      upper == IF e.desc = "icmpv6" THEN "ip6" ELSE "ip"
      r == payload_add_dependency(c, ll, upper)
  IN CASE e.base = "ll" -> R(c, payload_get_get_ll_hdr(c.family))
       [] e.base = "transport" /\ e.desc \in {"icmp", "icmpv6", "igmp"} ->
            IF ll = "none" THEN R(c, "none")
            ELSE IF r.c.err THEN R(r.c, "none")
            ELSE R([r.c EXCEPT !.done = Append(@, ExprStmt(r.e))], upper)
       [] e.base = "transport" -> R(c, "inetservice")
       [] OTHER -> R(c, "none")

IifType == relational_expr_alloc("eq", meta_expr_alloc("iiftype"),
                                 constant_expr_alloc("iface_type", "host", 16, ArphrdEther))

payload_gen_dependency(c, e) ==
  LET below == BaseIndex(e.base) < BaseIndex(Hook[c.family][1])
      lower == IF e.base = "ll" THEN "none" ELSE c.pctx.desc[Bases[BaseIndex(e.base) - 1]]
      r == IF lower = "none" THEN payload_gen_special_dependency(c, e) ELSE R(c, lower)
      d == IF c.family = "bridge" /\ r.e = "ether" /\ e.desc \in {"ip", "ip6"} THEN "netdev" ELSE r.e
  IN CASE below -> IF OnEther(e.desc) THEN stmt_dependency_evaluate(c, IifType) ELSE R(expr_error(c), Null)
       [] r.c.err \/ r.e = "none" -> R(expr_error(c), Null)
       [] OTHER -> payload_add_dependency(r.c, d, e.desc)

exthdr_gen_dependency(c, d) ==
  IF c.pctx.desc["ll"] = "none" THEN R(expr_error(c), Null)
  ELSE payload_add_dependency(c, c.pctx.desc["ll"], d)

\* payload_gen_icmp_dependency(): the messages that have the field.
IcmpConst(d, n) == constant_expr_alloc(IF d = "icmp" THEN "icmp_type" ELSE "icmpv6_type", "big", 8, Num(n))

SetExpr(elems) == compound_expr_alloc("set", elems) @@ [sflags |-> {}]

IcmpTypes(need) ==
  CASE need = "ECHO" -> <<8, 0>> [] need = "6ECHO" -> <<128, 129>>
    [] need = "6ADDRESS" -> Icmp6AddrTypes [] OTHER -> <<icmp_dep_to_type(need)>>

payload_gen_icmp_dependency(c, e) ==
  LET need == IcmpDep(e.desc, e.field)
      types == IcmpTypes(need)
      vals == [k \in DOMAIN types |-> set_elem_expr_alloc(IcmpConst(e.desc, types[k]), Null)]
      left == payload_expr_alloc(e.desc, "type")
      rel == IF Len(types) = 1 THEN relational_expr_alloc("eq", left, IcmpConst(e.desc, types[1]))
             ELSE relational_expr_alloc("implicit", left, SetExpr(vals))
      seen == c.pctx.icmp # {} /\ icmp_dep_type_match(need, c.pctx.icmp)
      r == stmt_dependency_evaluate([c EXCEPT !.pctx.icmp = Num(icmp_dep_to_type(need))], rel)
  IN CASE need = "ANY" \/ seen -> c
       [] c.pctx.icmp # {} -> expr_error(c)
       [] r.c.err -> r.c
       [] OTHER -> rule_stmt_dep_add(r.c, r.e)

(***************************************************************************)
(* Headers of the packet.                                                  *)
(***************************************************************************)
\* ll_conflict_resolution_gen_dependency(): one link layer header in another.
ll_conflict_resolution_gen_dependency(c, link) ==
  LET d == c.pctx.desc["ll"]
      key == Proto[d].key
  IN stmt_dependency_evaluate(c, relational_expr_alloc("eq", payload_expr_alloc(d, key.name),
       constant_expr_alloc(key.dt, DataTypes[key.dt].bo, key.len, Num(link))))

StackedLength(c) == FoldSeq(LAMBDA d, n : n + HdrLength(d), 0, c.pctx.stacked)

\* The payload behind a header that the context does not name yet.
StackLl(c, e, d, Offset(_)) ==
  LET link == proto_find_num(d, e.desc)
      r == ll_conflict_resolution_gen_dependency(c, link)
  IN IF link < 0 \/ r.c.err THEN R(expr_error(c), e)
     ELSE R(rule_stmt_dep_add(r.c, r.e), [e EXCEPT !.off = @ + Offset(r.c)])

resolve_ll_protocol_conflict(c, e) ==
  LET d == c.pctx.desc["ll"]
      r == stmt_dependency_evaluate(c, IifType)
      c1 == rule_stmt_dep_add(r.c, r.e)
  IN CASE d \in {"inet", "netdev"} ->
            IF ~OnEther(e.desc) \/ r.c.err \/ c1.err THEN R(expr_error(c), e)
            ELSE IF proto_find_num(e.desc, e.desc) < 0
            THEN R(Require(c1, c1.pctx.desc["ll"] = e.desc), e)
            ELSE StackLl(c1, e, e.desc, StackedLength)
       [] Contains(c.pctx.stacked, e.desc) -> R(c, e)
       [] OTHER -> StackLl(c, e, d, StackedLength)

\* A header field: the header must be there, and only one of its kind.
__expr_evaluate_payload(c, e) ==
  LET d == c.pctx.desc[e.base]
      r == payload_gen_dependency(c, e)
      c1 == rule_stmt_dep_add(r.c, r.e)
      now == c1.pctx.desc[e.base]
      icmp(x, k) == IF k \in {"icmp", "icmpv6"} THEN payload_gen_icmp_dependency(x, e) ELSE x
  IN CASE e.desc \in {"unknown", "th"} \/ "raw" \in DOMAIN e -> R(c, e)
       [] d = "none" ->
            IF r.c.err \/ c1.err THEN R(expr_error(c), e)
            ELSE IF now # e.desc /\ e.base = "ll"
            THEN StackLl(c1, e, now, LAMBDA x : HdrLength(x.pctx.stacked[1]))
            ELSE R(icmp(c1, now), e)
       [] e.base = Proto[d].base /\ proto_ctx_is_ambiguous(c.pctx, e.base) -> R(expr_error(c), e)
       [] d = e.desc -> R(icmp(c, d), IF Proto[d].base = "ll" THEN [e EXCEPT !.off = @ + StackedLength(c)] ELSE e)
       [] e.base = "ll" -> resolve_ll_protocol_conflict(c, e)
       [] OTHER -> R(expr_error(c), e)

\* expr_offset_shift(): the bits behind the field in its last byte, and the
\* bytes the load grows by.
ExtraLen(e) == LET short == (e.off % 8) + e.len - RoundUp(e.len, 8) IN IF short > 0 THEN RoundUp(short, 8) ELSE 0

expr_offset_shift(e) == RoundUp(e.len, 8) + ExtraLen(e) - (e.off % 8) - e.len

\* A field that does not fill its bytes is masked and shifted.
expr_evaluate_bits(c, e) ==
  LET shift == expr_offset_shift(e)
      masklen == e.len + shift
      base == expr_basetype(e.dt)
      load == [e EXCEPT !.len = @ + ExtraLen(e)]
      mask == constant_expr_alloc(base, "host", masklen, Lshift(Bitmask(e.len), shift))
      and == [binop_expr_alloc("and", load, mask) EXCEPT !.dt = e.dt, !.bo = e.bo, !.len = masklen]
      swap == (c.ectx.key # Null \/ c.stmtlen > 0) /\ Bytes(masklen) > 1
      arg == IF swap THEN [unary_expr_alloc("ntoh", and) EXCEPT !.len = masklen] ELSE and
      off == constant_expr_alloc(base, "host", 1, Num(shift))
  IN IF masklen > 128 THEN R(expr_error(c), e)
     ELSE IF shift = 0 THEN R(c, and)
     ELSE R(Expect(c, swap => e.bo = "big"),
            [binop_expr_alloc("rshift", arg, off) EXCEPT
               !.dt = e.dt, !.bo = IF swap THEN "host" ELSE e.bo, !.len = masklen])

Odd(e) == e.off % 8 # 0 \/ e.len % 8 # 0

Primary(c, e) ==
  LET p == [expr_evaluate_primary(c, e).c EXCEPT !.ectx.key = c.ectx.key]
  IN IF Odd(e) THEN expr_evaluate_bits(p, e) ELSE R(p, e)

IsEvaluated(e) == "evaluated" \in DOMAIN e

expr_evaluate_payload(c, e) ==
  IF IsEvaluated(e) THEN R(c, e)
  ELSE Then(__expr_evaluate_payload(c, e), LAMBDA c1, p : Primary(c1, p @@ [evaluated |-> TRUE]))

\* The dependency of an extension header goes to the front of the rule.
expr_evaluate_exthdr(c, e0) ==
  LET d == IF e0.op = "ipv4" THEN "ip" ELSE "ip6"
      now == c.pctx.desc["network"]
      e == IF e0.present THEN [e0 EXCEPT !.dt = "boolean"] ELSE e0
      fits(cc) == Require(cc, e.op \in {"tcpopt", "ipv4"} => e.off + e.len <= 320)
      r == exthdr_gen_dependency(c, d)
  IN CASE e.op = "tcpopt" \/ now = d -> Primary(fits(c), e)
       [] now # "none" \/ r.c.err -> R(expr_error(c), e)
       [] OTHER -> Primary(fits([r.c EXCEPT !.done = <<ExprStmt(r.e)>> \o @]), e)

(***************************************************************************)
(* The other operands.                                                     *)
(***************************************************************************)
rt_expr_update_type(c, e) ==
  IF e.key \in {"nexthop4", "nexthop6"} /\ c.pctx.desc["network"] \in {"ip", "ip6"}
  THEN source_expr_alloc("rt", IF c.pctx.desc["network"] = "ip" THEN "nexthop4" ELSE "nexthop6", e.a) ELSE e

expr_evaluate_rt(c, e0) ==
  LET e == rt_expr_update_type(c, e0)
  IN expr_evaluate_primary(
       Require(c, /\ e.key = "nexthop4" => c.family # "ip6"
                  /\ e.key = "nexthop6" => c.family # "ip"), e)

\* The addresses of a connection need to know the network protocol.  An error
\* here is queued, but the evaluation goes on; the rule is refused all the same.
ct_gen_nh_dependency(c, e) ==
  LET now == c.pctx.desc["network"]
      base == IF e.l3 # "none" THEN e.l3 ELSE now
      left == ct_expr_alloc("l3proto", e.dir)
      rel == relational_expr_alloc("eq", left,
               constant_expr_alloc(left.dt, DataTypes[left.dt].bo, left.len, Num(NFPROTO[base])))
  IN CASE base = "none" \/ (now # "none" /\ now # base) -> expr_error(c)
       [] base = now \/ c.family \in {"ip", "ip6"} -> c
       [] OTHER -> rule_stmt_dep_add([c EXCEPT !.pctx = relational_expr_pctx_update(@, rel)], rel)

expr_evaluate_ct(c, e) ==
  LET now == c.pctx.desc["network"]
      c1 == CASE e.key \in {"saddr", "daddr"} -> ct_gen_nh_dependency(c, e)
              [] e.key \in {"srcip", "dstip"} -> Require(c, now # "ip6")
              [] e.key \in {"srcip6", "dstip6"} -> Require(c, now # "ip")
              [] OTHER -> c
  IN expr_evaluate_primary(c1, ct_expr_update_type(c1.pctx, e))

expr_evaluate_meta(c, e) ==
  expr_evaluate_primary(Require(c, e.key = "nfproto" => c.family = "inet"), e)

expr_evaluate_socket(c, e) ==
  R(__expr_set_context(c, e.dt, e.bo, e.len, IF e.key \in {"transparent", "wildcard"} THEN 1 ELSE 0), e)

expr_evaluate_xfrm(c, e) ==
  expr_evaluate_primary(Require(c, c.family \in {"ip", "ip6", "inet"}), e)

\* A number takes the type that is expected, if it is 32 bits wide.
expr_dtype_integer_compatible(c, e) ==
  IF c.ectx.dt # "none" /\ DataTypes[c.ectx.dt].base = "integer" /\ c.ectx.len = 32
  THEN [e EXCEPT !.dt = c.ectx.dt, !.len = c.ectx.len] ELSE e

MaxVal(e) == e.a.mod + e.a.offset - 1

expr_evaluate_numgen(c, e0) ==
  LET e == expr_dtype_integer_compatible(c, e0)
  IN R(__expr_set_context(c, e.dt, e.bo, e.len, MaxVal(e)), e)

expr_evaluate_hash(c, e0) ==
  LET e == expr_dtype_integer_compatible(c, e0)
      r == IF e.arg = Null THEN R(c, Null) ELSE expr_evaluate(expr_set_context(c, "none", 0), e.arg)
  IN R(__expr_set_context(r.c, e.dt, e.bo, e.len, MaxVal(e)), [e EXCEPT !.arg = r.e])

(***************************************************************************)
(* Concatenations and sets.                                                *)
(***************************************************************************)
\* The types expected of the parts, <<>> if nothing is expected.
Expected(c) == IF c.ectx.key.t = "concat" THEN c.ectx.key.elems ELSE c.ectx.sub

ConcatPart(c, e, keys, k) ==
  LET typed == IF keys = <<>> THEN expr_set_context(c, "none", 0)
               ELSE __expr_set_context(c, keys[k].dt, keys[k].bo, keys[k].len, 0)
  IN IF e.t = "ct" /\ e.key \in {"saddr", "daddr"} THEN R(expr_error(c), e)
     ELSE Then(expr_evaluate([typed EXCEPT !.ectx.key = e], e), LAMBDA c1, p :
            R(Require(c1, p.t # "set" /\ p.dt # "invalid" /\ (keys = <<>> => p.len > 0)), p))

MaxExprLen == 512

expr_evaluate_concat(c, e) ==
  LET keys == Expected(c)
      width(p, k) == RoundUp(IF keys # <<>> THEN keys[k].len
                             ELSE IF p.dt = "integer" THEN p.len ELSE DataTypes[p.dt].size, 32)
  IN IF keys # <<>> /\ Len(keys) # Len(e.elems) THEN R(expr_error(c), e)
     ELSE Then(EvalSeq(c, e.elems, LAMBDA d, p, k : ConcatPart(d, p, keys, k)), LAMBDA c1, parts :
            LET size == FoldFunctionOnSet(+, 0, [k \in DOMAIN parts |-> width(parts[k], k)], DOMAIN parts)
                done == [e EXCEPT !.elems = parts, !.dt = "concat", !.len = size]
            IN R([expr_set_context(Require(c1, size <= MaxExprLen), "concat", size) EXCEPT
                    !.ectx.key = IF c.ectx.key.t = "concat" THEN c.ectx.key ELSE done], done))

\* A list of flags is their union.
expr_evaluate_list(c, e) ==
  Then(EvalSeq(c, e.elems, LAMBDA d, p, k : expr_evaluate(d, p)), LAMBDA c1, vals :
    IF \E k \in DOMAIN vals : vals[k].t # "value" \/ ~IsBitmask(vals[k]) THEN R(expr_error(c1), e)
    ELSE R(c1, constant_expr_alloc(c1.ectx.dt, "host", c1.ectx.len, UNION {vals[k].v : k \in DOMAIN vals})))

IsRange(e) == e.t \in {"prefix", "range"}

HasRange(e) == IsRange(e) \/ (e.t = "concat" /\ \E k \in DOMAIN e.elems : IsRange(e.elems[k]))

expr_evaluate_set_elem(c, e) ==
  LET key == c.set.key
      typed == IF c.set.name = "none" THEN c
               ELSE [__expr_set_context(c, key.dt, key.bo, key.len, 0) EXCEPT !.ectx.key = key]
      strict == c.set.name # "none" /\ c.set.flags \cap {"anonymous", "interval"} = {}
  IN Then(expr_evaluate(typed, e.key), LAMBDA c1, k :
       R(Require(c1, strict => ~HasRange(k)), [e EXCEPT !.key = k, !.dt = k.dt, !.len = k.len]))

\* __mapping_expr_expand(): when some data are ranges, all are.
Point(e) == IF e.t = "value" THEN range_expr_alloc(e, e) ELSE e

__mapping_expr_expand(e) ==
  [e EXCEPT !.data = IF @.t = "concat" THEN [@ EXCEPT !.elems = [k \in DOMAIN @ |-> Point(@[k])]] ELSE Point(@)]

\* expr_evaluate_mapping(): an element of a map.
expr_evaluate_mapping(c, e) ==
  LET set == c.set
      anon == "anonymous" \in set.flags
      wide == ~anon /\ "interval" \in set.dataflags
      datalen == IF wide THEN set.data.len \div 2 ELSE set.data.len
  IN IF set.name = "none" \/ "map" \notin set.flags THEN R(expr_error(c), e)
     ELSE Then(expr_evaluate_set_elem(expr_set_context(c, set.key.dt, set.key.len), e), LAMBDA c1, k :
            LET c2 == [__expr_set_context(c1, set.data.dt, set.data.bo, datalen, 0) EXCEPT
                         !.ectx.sub = IF set.data.t = "concat" THEN set.data.elems ELSE <<>>]
            IN Then(expr_evaluate(Require(c2, expr_is_constant(k)), e.data), LAMBDA c3, d :
                 LET c4 == IF anon /\ HasRange(d) THEN [c3 EXCEPT !.set.dataflags = @ \cup {"interval"}] ELSE c3
                     m == [k EXCEPT !.data = d]
                 IN R(Require(c4, /\ expr_is_constant(d)
                                  /\ "interval" \notin c4.set.dataflags => expr_is_singleton(d)),
                      IF wide THEN __mapping_expr_expand(m) ELSE m)))

\* expr_evaluate_set(): nested sets are merged into the set, those of a map
\* at its end.
Members(e) ==
  IF e.t = "elem" /\ e.key.t = "set"
  THEN [k \in DOMAIN e.key.elems |-> [e.key.elems[k] EXCEPT !.data = e.data]] ELSE <<e>>

expr_evaluate_set(c, e) ==
  Then(EvalSeq(c, e.elems, LAMBDA d, p, k : expr_evaluate(d, p)), LAMBDA c1, elems :
    LET nested(k) == elems[k].key.t = "set"
        late == FlattenSeq([k \in DOMAIN elems |->
                  IF nested(k) /\ elems[k].data # Null THEN Members(elems[k]) ELSE <<>>])
        all == FlattenSeq([k \in DOMAIN elems |->
                  IF nested(k) /\ elems[k].data # Null THEN <<>> ELSE Members(elems[k])]) \o late
        ranged == \E k \in DOMAIN all : ~expr_is_singleton(all[k])
        concat == \E k \in DOMAIN all : ~expr_is_singleton(all[k]) /\ all[k].key.t = "concat"
    IN R(Require(c1, \A k \in DOMAIN all : expr_is_constant(all[k]) /\ all[k].key.t # "setref"),
         [e EXCEPT !.elems = all, !.dt = c1.ectx.dt, !.len = c1.ectx.len,
                   !.sflags = @ \cup {"constant"} \cup (IF ranged THEN {"interval"} ELSE {})
                                \cup (IF concat THEN {"concat"} ELSE {})]))

\* setelem_expr_to_range() (src/intervals.c): names are ordered by their
\* characters, the first the most significant.
setelem_expr_to_range(e) ==
  LET name(x) == IF expr_basetype(x.dt) = "string" THEN [x EXCEPT !.v = SwitchByteorder(@, x.len \div 8)] ELSE x
      low == name(IF e.key.t = "prefix" THEN e.key.prefix ELSE e.key)
      rest == IF e.key.t = "prefix" THEN Bitmask(e.key.len - e.key.plen) ELSE {}
  IN IF e.key.t \in {"catchall", "range"} THEN e
     ELSE [e EXCEPT !.key = range_expr_alloc(low, [low EXCEPT !.v = Or(@, rest)])]

\* set_to_range() and the sort by the lower end.
SortedRanges(elems) ==
  SortSeq([k \in DOMAIN elems |-> setelem_expr_to_range(elems[k])],
          LAMBDA a, b : /\ a.key.t = "range" /\ b.key.t = "range" /\ a.key.left.v # b.key.left.v
                        /\ Less(a.key.left.v, b.key.left.v))

\* set_automerge(): ranges that overlap or touch become one.
Succ(v) == LET n == Scan0(v, 0) IN Or(v \ Bitmask(n), {n})

set_automerge(elems) ==
  FoldLeft(LAMBDA acc, e :
    LET last == acc[Len(acc)].key
        end == IF LessEq(e.key.right.v, last.right.v) THEN last.right ELSE e.key.right
    IN IF acc = <<>> \/ last.t # "range" \/ e.key.t # "range" \/ Less(Succ(last.right.v), e.key.left.v)
       THEN Append(acc, e)
       ELSE [acc EXCEPT ![Len(acc)].key.right = end],
    <<>>, SortedRanges(elems))

set_overlap(elems) ==
  \E i, j \in DOMAIN elems :
    /\ i # j /\ elems[i].key.t = "range" /\ elems[j].key.t = "range"
    /\ LessEq(elems[i].key.left.v, elems[j].key.left.v)
    /\ LessEq(elems[j].key.left.v, elems[i].key.right.v)
    /\ elems[i].key # elems[j].key

\* interval_set_eval(): what an interval set without concatenations goes
\* through before it is sent.
interval_set_eval(c, e, automerge) ==
  IF ~("interval" \in e.sflags /\ "concat" \notin e.sflags) THEN R(c, e)
  ELSE IF automerge THEN R(c, [e EXCEPT !.elems = set_automerge(@)])
  ELSE R(Require(c, ~set_overlap(SortedRanges(e.elems))), [e EXCEPT !.elems = SortedRanges(@)])

AnonNames == <<"__set0", "__set1", "__set2", "__set3">>

NoSet == [Set("none", {}, Null, Null, <<>>) EXCEPT !.dataflags = {}]

\* implicit_set_declaration() and set_evaluate() of an anonymous set: the
\* result is a reference to the set that will be added before the rule.
implicit_set_declaration(c, key, data, e, flags) ==
  LET name == AnonNames[Cardinality(DOMAIN c.sets) + 1]
      all == e.sflags \cup flags \cup {"anonymous"}
               \cup IF "interval" \in e.sflags /\ key.t = "concat" THEN {"concat"} ELSE {}
      r == interval_set_eval(c, e, "interval" \in e.sflags)
      set == Set(name, all, key, data, r.e.elems)
      bad == \/ key.len = 0
             \/ key.t = "concat" /\ \E k \in DOMAIN e.elems : e.elems[k].key.t \notin {"concat", "catchall"}
             \/ "map" \in all /\ data.len = 0 /\ data.dt # "verdict"
  IN R([Require(r.c, ~bad) EXCEPT !.sets = (name :> set) @@ @], set_ref_expr_alloc(set))

(***************************************************************************)
(* Inversion of operations on the left side of a match.                    *)
(***************************************************************************)
\* binop_can_transfer(): "no" if the operation stays, "false" if nothing can
\* match.
RECURSIVE Transferable(_, _)
Transferable(left, e) ==
  CASE e.t = "elem" -> Transferable(left, e.key)
    [] e.t = "range" -> Transferable(left, e.left) /\ Transferable(left, e.right)
    [] OTHER -> e.t = "value" /\ left.op \in {"lshift", "rshift", "xor"}

RECURSIVE NeverEqual(_, _)
NeverEqual(left, e) ==
  CASE e.t = "elem" -> NeverEqual(left, e.key)
    [] e.t = "range" -> NeverEqual(left, e.left) \/ NeverEqual(left, e.right)
    [] OTHER -> left.op = "lshift" /\ e.v \cap Bitmask(NumOf(left.right.v)) # {}

RECURSIVE Widen(_, _, _)
Widen(c, left, e) ==
  CASE e.t = "elem" -> Widen(c, left, e.key)
    [] e.t = "range" -> Widen(Widen(c, left, e.left), left, e.right)
    [] OTHER -> IF left.op = "rshift" /\ c.ectx.len < e.len + NumOf(left.right.v)
                THEN [c EXCEPT !.ectx.len = @ + NumOf(left.right.v)] ELSE c

Inverted(op) == CASE op = "lshift" -> "rshift" [] op = "rshift" -> "lshift" [] op = "xor" -> "xor"

RECURSIVE binop_transfer_one(_, _, _)
binop_transfer_one(c, left, e) ==
  CASE e.t = "elem" -> Then(binop_transfer_one(c, left, e.key), LAMBDA c1, k : R(c1, [e EXCEPT !.key = k]))
    [] e.t = "range" ->
         Then(binop_transfer_one(c, left, e.left), LAMBDA c1, l :
           Then(binop_transfer_one(c1, left, e.right), LAMBDA c2, r :
             R(c2, [e EXCEPT !.left = l, !.right = r])))
    [] OTHER -> expr_evaluate(c, binop_expr_alloc(Inverted(left.op), e, left.right))

binop_transfer_handle_lhs(left) ==
  IF left.op = "rshift"
  THEN [left EXCEPT !.op = "and", !.right.v = Lshift(Bitmask(left.left.len), NumOf(left.right.v))]
  ELSE [left.left EXCEPT !.dt = left.dt]

\* __binop_transfer(): what the constants become.
Operated(e) == IF e.t = "setref" THEN e.set.init ELSE <<e>>

binop_transfer(c, left, right) ==
  LET vals == Operated(right)
      c1 == FoldLeft(LAMBDA d, v : Widen(d, left, v), c, vals)
      r == EvalSeq(c1, vals, LAMBDA d, v, k : binop_transfer_one(d, left, v))
      put == IF right.t = "setref" THEN [right EXCEPT !.set.init = r.e] ELSE r.e[1]
      stay == Pair(c, left, right)
  IN CASE left.t # "binop" \/ right.t \notin {"value", "range", "setref"} -> stay
       [] right.t = "setref" /\ "anonymous" \notin right.set.flags -> stay
       [] \E k \in DOMAIN vals : ~Transferable(left, vals[k]) -> stay
       [] \E k \in DOMAIN vals : NeverEqual(left, vals[k]) -> Pair(expr_error(c), left, right)
       [] r.c.err -> Pair(r.c, left, right)
       [] OTHER -> Pair(IF right.t = "setref" THEN [r.c EXCEPT !.sets = (right.set.name :> put.set) @@ @] ELSE r.c,
                        binop_transfer_handle_lhs(left), put)

(***************************************************************************)
(* Maps and matches.                                                       *)
(***************************************************************************)
datatype_compatible(a, b) == a = b \/ (a = "mark" /\ expr_basetype(b) = "integer")

CtAddr(e) == e.t = "ct" /\ e.key \in {"saddr", "daddr"}

\* A map literal: declared as a set, then its elements are evaluated.
ImplicitMap(c, e, want) ==
  LET key == IF c.ectx.key.t = "concat" THEN c.ectx.key
             ELSE constant_expr_alloc(c.ectx.dt, c.ectx.bo, c.ectx.len, {})
      data == IF want.dt = "verdict" THEN verdict_expr_alloc("none", "none")
              ELSE IF want.sub # <<>> THEN [compound_expr_alloc("concat", want.sub) EXCEPT !.dt = "concat", !.len = want.len]
              ELSE constant_expr_alloc(want.dt, want.bo, want.len, {})
  IN IF want.dt = "none" THEN R(expr_error(c), e)
     ELSE Then(implicit_set_declaration(c, key, data, e.mappings, {"map"}), LAMBDA c1, ref :
       Then(expr_evaluate([c1 EXCEPT !.set = ref.set], e.mappings), LAMBDA c2, init :
         Then(interval_set_eval(c2, init, FALSE), LAMBDA c3, init2 :
           LET ranges == "interval" \in c3.set.dataflags
               set0 == [c3.set EXCEPT !.init = init2.elems, !.flags = @ \cup init2.sflags]
               t == binop_transfer(expr_set_context(c3, key.dt, key.len), e.map, set_ref_expr_alloc(set0))
               set1 == IF ~ranges THEN t.right.set
                       ELSE [t.right.set EXCEPT !.data.len = 2 * @,
                               !.init = [k \in DOMAIN @ |-> __mapping_expr_expand(@[k])]]
               set == [set1 EXCEPT !.key.len = t.c.ectx.len]
           IN IF t.c.err THEN R(t.c, e)
              ELSE R([t.c EXCEPT !.set = NoSet, !.sets = (set.name :> set) @@ @],
                     [e EXCEPT !.map = t.left, !.mappings = set_ref_expr_alloc(set)]))))

NamedMap(c, e) ==
  Then(expr_evaluate(c, e.mappings), LAMBDA c1, ref :
    R(Require(c1, ref.t = "setref" /\ ref.set.flags \cap {"map", "objmap"} # {}),
      [e EXCEPT !.mappings = ref]))

expr_evaluate_map(c, e) ==
  LET parts == IF e.map.t = "concat" THEN Range(e.map.elems) ELSE {e.map}
  IN IF \E p \in parts : CtAddr(p) THEN R(expr_error(c), e)
     ELSE Then(expr_evaluate(expr_set_context(c, "none", 0), e.map), LAMBDA c1, key :
       LET c2 == [Require(c1, ~expr_is_constant(key)) EXCEPT !.stmtlen = 0]
           m == [e EXCEPT !.map = key]
       IN IF c2.err THEN R(c2, e)
          ELSE Then(IF e.mappings.t = "set" THEN ImplicitMap(c2, m, c.ectx) ELSE NamedMap(c2, m), LAMBDA c3, n :
            LET set == n.mappings.set
                c4 == Require(c3, datatype_compatible(set.key.dt, n.map.dt))
                k == IF "interval" \in set.flags THEN byteorder_conversion(c4, n.map, "big") ELSE R(c4, n.map)
            IN IF c4.err THEN R(c4, n) ELSE R(k.c, [n EXCEPT !.map = k.e, !.dt = set.data.dt])))

\* optimize_singleton_set(): a set of one element is that element.
SingletonSet(e) == e.t = "set" /\ Len(e.elems) = 1 /\ e.elems[1].key.t \in {"prefix", "range", "value"}

optimize_singleton_set(e) ==
  LET r == IF SingletonSet(e.right) THEN [e EXCEPT !.right = e.right.elems[1].key] ELSE e
  IN IF e.op = "implicit" /\ IsBitmask(r.right) /\ r.right.dt # "ct_state" THEN [r EXCEPT !.op = "eq"] ELSE r

\* Both operands in the byte order of the comparison.
Both(c, left, right, bo) ==
  LET l == byteorder_conversion(c, left, bo)
      r == byteorder_conversion(l.c, right, bo)
  IN Pair(r.c, l.e, r.e)

\* The operands of an (in)equality, by what is on the right.
MatchOperands(c, e) ==
  LET l == e.left
      r == e.right
      big == byteorder_conversion(c, l, "big")
      ends == Both(big.c, r.left, r.right, "big")
      pfx == byteorder_conversion(c, r.prefix, l.bo)
      val == byteorder_conversion(c, r, l.bo)
      d == implicit_set_declaration(c, l, Null, r, {})
      lookup(cc, ref) ==
        LET k == IF "interval" \in ref.set.flags THEN byteorder_conversion(cc, l, "big") ELSE R(cc, l)
        IN IF CtAddr(l) THEN Pair(expr_error(cc), l, r) ELSE Pair(k.c, k.e, ref)
  IN CASE r.t = "range" -> Pair(ends.c, big.e, [r EXCEPT !.left = ends.left, !.right = ends.right])
       [] r.t = "prefix" -> Pair(pfx.c, l, [r EXCEPT !.prefix = pfx.e])
       [] r.t = "value" -> Pair(val.c, l, val.e)
       [] r.t = "set" -> IF r.elems = <<>> \/ d.c.err THEN Pair(expr_error(c), l, r) ELSE lookup(d.c, d.e)
       [] r.t = "setref" -> lookup(c, r)
       [] OTHER -> Pair(expr_error(c), l, r)

expr_evaluate_relational(c0, e0) ==
  LET s == IF e0.right.t = "symset" THEN expr_evaluate(c0, e0.right) ELSE R(c0, e0.right)
  IN IF s.c.err THEN R(s.c, e0)
     ELSE Then(expr_evaluate(s.c, e0.left), LAMBDA c1, left : Then(expr_evaluate(c1, s.e), LAMBDA c2, right :
       LET fine == /\ expr_is_constant(right) /\ ~expr_is_constant(left) /\ left.dt = right.dt
                   /\ left.t = "meta" => left.key # "secmark"
           rel0 == [e0 EXCEPT !.left = left, !.right = right]
           equal == e0.op \in {"eq", "implicit", "neq", "neg"}
           e == IF left.t # "concat" /\ e0.op \in {"eq", "implicit", "neq"} /\ right.t = "set" /\ Len(right.elems) = 1
                THEN optimize_singleton_set(rel0) ELSE rel0
           c3 == IF e.op \in {"eq", "implicit"} THEN [c2 EXCEPT !.pctx = relational_expr_pctx_update(@, e)] ELSE c2
           flags == e.op = "neg" => left.t # "binop" /\ e.right.t = "value" /\ IsBitmask(e.right)
           p == IF equal THEN MatchOperands(c3, e) ELSE Both(c3, left, e.right, "big")
           t == binop_transfer(p.c, p.left, p.right)
       IN IF ~fine \/ ~flags \/ (~equal /\ (left.t = "concat" \/ ~expr_is_singleton(right)))
          THEN R(expr_error(c2), e0)
          ELSE IF p.c.err THEN R(p.c, e0)
          ELSE R(t.c, [e EXCEPT !.left = t.left, !.right = t.right])))

expr_evaluate(c, e) ==
  CASE e.t = "symbol" -> expr_evaluate_symbol(c, e)
    [] e.t = "symset" -> SetLookup(c, e)
    [] e.t = "setref" -> expr_evaluate_set_ref(c, e)
    [] e.t = "value" -> expr_evaluate_value(c, e)
    [] e.t = "payload" -> expr_evaluate_payload(c, e)
    [] e.t = "exthdr" -> expr_evaluate_exthdr(c, e)
    [] e.t = "meta" -> expr_evaluate_meta(c, e)
    [] e.t = "socket" -> expr_evaluate_socket(c, e)
    [] e.t = "rt" -> expr_evaluate_rt(c, e)
    [] e.t = "ct" -> expr_evaluate_ct(c, e)
    [] e.t = "xfrm" -> expr_evaluate_xfrm(c, e)
    [] e.t \in {"verdict", "fib", "osf"} -> expr_evaluate_primary(c, e)
    [] e.t = "prefix" -> expr_evaluate_prefix(c, e)
    [] e.t = "range" -> expr_evaluate_range(c, e)
    [] e.t = "unary" -> expr_evaluate_unary(c, e)
    [] e.t = "binop" -> expr_evaluate_binop(c, e)
    [] e.t = "concat" -> expr_evaluate_concat(c, e)
    [] e.t = "list" -> expr_evaluate_list(c, e)
    [] e.t = "set" -> expr_evaluate_set(c, e)
    [] e.t = "elem" -> IF e.data = Null THEN expr_evaluate_set_elem(c, e) ELSE expr_evaluate_mapping(c, e)
    [] e.t = "map" -> expr_evaluate_map(c, e)
    [] e.t = "rel" -> expr_evaluate_relational(c, e)
    [] e.t = "numgen" -> expr_evaluate_numgen(c, e)
    [] e.t = "hash" -> expr_evaluate_hash(c, e)
    [] e.t = "catchall" -> R(c, e)
    [] OTHER -> R(Expect(c, FALSE), e)
=============================================================================
