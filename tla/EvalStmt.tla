------------------------------ MODULE EvalStmt ------------------------------
(***************************************************************************)
(* Evaluation of the statements of a rule (src/evaluate.c): the operands   *)
(* get the type the statement needs, writes to a header that is not a      *)
(* whole number of checksum words become a read, a mask and a write, and   *)
(* reject, nat, tproxy, dup and fwd find out from the matches before them  *)
(* for which protocol they are.  Chain statements, variables in a log      *)
(* prefix and inner headers are left out.                                  *)
(***************************************************************************)
EXTENDS Evaluate

\* A prefix as the operand of a statement is the range it stands for.
stmt_prefix_conversion(c, e, bo) ==
  LET base == e.prefix
      const(v) == constant_expr_alloc("integer", "host", base.len, v)
      and == binop_expr_alloc("and", base, const(Prefixmask(base.len, e.plen)))
      or == binop_expr_alloc("or", base, const(Bitmask(base.len - e.plen)))
      ends == [range_expr_alloc(and, or) EXCEPT !.dt = base.dt, !.bo = bo, !.len = base.len]
  IN IF expr_basetype(e.dt) # "integer" \/ base.t # "value" THEN R(expr_error(c), e)
     ELSE expr_evaluate(c, ends)

\* __stmt_evaluate_arg(): the operand has the type; nothing can be set to a set.
CheckArg(c, dt, len, bo, e) ==
  CASE e.t = "payload" /\ e.dt = "integer" /\ (expr_basetype(dt) # "integer" \/ e.len # len) -> R(expr_error(c), e)
    [] ~datatype_compatible(dt, e.dt) -> R(expr_error(c), e)
    [] dt = "mark" /\ expr_basetype(e.dt) = "integer" /\ ~expr_is_constant(e) -> byteorder_conversion(c, e, bo)
    [] e.t \in {"set", "setref"} -> R(expr_error(c), e)
    [] e.t = "rt" -> byteorder_conversion(c, e, bo)
    [] e.t = "prefix" -> stmt_prefix_conversion(c, e, bo)
    [] e.t = "numgen" /\ dt = "ipv4_addr" -> byteorder_conversion(c, e, bo)
    [] OTHER -> R(c, e)

stmt_evaluate_arg(c, dt, len, bo, e) ==
  Then(expr_evaluate(__expr_set_context(c, dt, bo, len, 0), e), LAMBDA d, v : CheckArg(d, dt, len, bo, v))

\* The same in the context that the evaluation of the set left.
stmt_evaluate_key(c, key, e) ==
  Then(expr_evaluate(c, e), LAMBDA d, v : CheckArg(d, key.dt, key.len, key.bo, v))

NotRange(r) == R(Require(r.c, r.e.t # "range"), r.e)

\* A statement with a new operand.
With(r, s, field) == R(r.c, [s EXCEPT ![field] = r.e])

stmt_evaluate_expr(c, s) == With(expr_evaluate([c EXCEPT !.ectx = NoEctx], s.e), s, "e")

stmt_evaluate_verdict(c, s) ==
  LET r == stmt_evaluate_arg(c, "verdict", 0, "invalid", s.e)
  IN With(R(Expect(r.c, r.c.err \/ r.e.t \in {"verdict", "map"}), r.e), s, "e")

\* meta and ct: a narrow operand is widened to the key.
stmt_evaluate_meta(c, s) ==
  LET t == IF s.s = "meta" THEN MetaTemplates[s.key] ELSE CtTemplates[s.key]
  IN With(NotRange(stmt_evaluate_arg([c EXCEPT !.stmtlen = t[2]], t[1], t[2], t[3], s.e)), s, "e")

\* The option itself is evaluated without the dependency of a match.
stmt_evaluate_exthdr(c, s) ==
  Then(Primary(c, s.e), LAMBDA d, e :
    With(NotRange(stmt_evaluate_arg(d, e.dt, e.len, "big", s.val)), [s EXCEPT !.e = e], "val"))

(***************************************************************************)
(* Writes to a header.                                                     *)
(***************************************************************************)
stmt_evaluate_payload_need_csum(e) == e.desc # "unknown" /\ Proto[e.desc].csum # "none"

payload_needs_adjustment(e) == Odd(e) \/ (stmt_evaluate_payload_need_csum(e) /\ (e.len \div 8) % 2 = 1)

\* The bytes that are read, changed and written: whole 16 bit words when a
\* checksum has to be updated.
Munged(e) ==
  LET size == Bytes(e.len + ExtraLen(e))
      off == e.off \div 8
      word == stmt_evaluate_payload_need_csum(e) /\ size % 2 = 1
  IN [size |-> IF word THEN size + 1 ELSE size,
      off |-> IF word /\ off % 2 = 1 THEN off - 1 ELSE off,
      shift |-> expr_offset_shift(e) + IF word /\ off % 2 = 0 THEN 8 ELSE 0]

MaxMunge == 16

MungePayload(c, s) ==
  LET e == s.e
      m == Munged(e)
      len == 8 * m.size
      shl == [binop_expr_alloc("lshift", s.val, constant_expr_alloc(expr_basetype(e.dt), "host", 1, Num(m.shift)))
                EXCEPT !.dt = e.dt, !.bo = e.bo]
      mask == constant_expr_alloc(expr_basetype(e.dt), e.bo, len,
                Xor(Bitmask(len), Lshift(Bitmask(e.len), m.shift)))
      bytes == [payload_init_raw(e.base, 8 * m.off, len) EXCEPT !.desc = e.desc, !.bo = e.bo] @@ [raw |-> TRUE]
      and == [binop_expr_alloc("and", bytes, mask) EXCEPT !.dt = bytes.dt, !.bo = bytes.bo, !.len = len]
      xor == [binop_expr_alloc("xor", and, IF m.shift # 0 THEN shl ELSE s.val) EXCEPT
                !.dt = e.dt, !.bo = e.bo, !.len = len]
  IN IF Bytes(e.len + ExtraLen(e)) > MaxMunge THEN R(expr_error(c), s)
     ELSE With(expr_evaluate(Expect(c, len <= 8 * MaxMunge), xor),
               [s EXCEPT !.e.len = len, !.e.off = 8 * m.off], "val")

stmt_evaluate_payload(c, s) ==
  Then(__expr_evaluate_payload(c, s.e), LAMBDA c1, e :
    Then(stmt_evaluate_arg(c1, e.dt, e.len, e.bo, s.val), LAMBDA c2, val :
      Then(NotRange(IF expr_is_constant(val) THEN R(c2, val) ELSE byteorder_conversion(c2, val, e.bo)), LAMBDA c3, v :
        LET w == [s EXCEPT !.e = e, !.val = v]
        IN IF payload_needs_adjustment(e) THEN MungePayload(c3, w) ELSE R(c3, w))))

(***************************************************************************)
(* Reject.  given: a code was given; without one the code is -1.           *)
(***************************************************************************)
EtherIP == 2048
EtherIP6 == 34525
ICMP_PORT_UNREACH == 3
ICMP6_DST_UNREACH_NOPORT == 4
ICMPX_PORT_UNREACH == 1

\* The network protocol, as the link layer names it.
NetworkFamily(c) ==
  LET num == proto_find_num(c.pctx.desc["ll"], c.pctx.desc["network"])
      inet == c.family = "inet"
  IN CASE num = EtherIP \/ (inet /\ num = NFPROTO["ip"]) -> "ip"
       [] num = EtherIP6 \/ (inet /\ num = NFPROTO["ip6"]) -> "ip6"
       [] OTHER -> "none"

PortUnreach(s, family) ==
  [s EXCEPT !.type = "icmp_unreach", !.family = family,
            !.code = IF family = "ip" THEN ICMP_PORT_UNREACH
                     ELSE IF family = "ip6" THEN ICMP6_DST_UNREACH_NOPORT ELSE @]

stmt_evaluate_reject_default(c, s) ==
  CASE c.family \in {"ip", "ip6"} -> PortUnreach(s, c.family)
    [] c.family = "arp" -> s
    [] c.pctx.desc["network"] = "none" -> [s EXCEPT !.type = "icmpx_unreach", !.code = ICMPX_PORT_UNREACH]
    [] OTHER -> PortUnreach(s, NetworkFamily(c))

\* "tcp reset" after a match on another transport protocol.
stmt_evaluate_reset(c, s) ==
  LET d == c.pctx.desc["transport"]
      base == IF c.pctx.desc["network"] = "none" THEN "inetservice" ELSE c.pctx.desc["network"]
  IN Require(c, d # "none" /\ s.type = "tcp_rst" => proto_find_num(base, d) = 6)

\* What the message needs is matched before anything else in the rule.
stmt_reject_gen_dependency(c, s) ==
  LET need == \* only the header counts
              CASE s.type = "tcp_rst" /\ c.pctx.desc["transport"] = "none" -> payload_expr_alloc("tcp", "sport")
                [] s.type = "icmp_unreach" /\ c.pctx.desc["network"] = "none" ->
                     IF s.family = "ip" THEN payload_expr_alloc("ip", "protocol") ELSE payload_expr_alloc("ip6", "nexthdr")
                [] OTHER -> Null
      r == payload_gen_dependency(c, need)
  IN IF need = Null THEN c ELSE IF r.c.err THEN r.c ELSE [r.c EXCEPT !.done = <<ExprStmt(r.e)>> \o @]

stmt_evaluate_reject_family(c, s) ==
  LET known == c.pctx.desc["network"] # "none"
      linked == c.family = "inet" \/ c.pctx.desc["ll"] \in {"ether", "vlan", "netdev"}
      fits == CASE s.type = "icmp_unreach" -> NetworkFamily(c) = s.family
                [] OTHER -> c.family = "inet" \/ NetworkFamily(c) # "none"
  IN CASE c.family = "arp" -> expr_error(c)
       [] c.family \in {"ip", "ip6"} /\ s.type = "tcp_rst" -> stmt_reject_gen_dependency(c, s)
       [] c.family \in {"ip", "ip6"} -> Require(c, s.type = "icmp_unreach" /\ s.family = c.family)
       [] ~linked \/ (known /\ ~fits) -> expr_error(c)
       [] s.type = "icmpx_unreach" -> c
       [] OTHER -> stmt_reject_gen_dependency(c, s)

MaxCode == 255

stmt_evaluate_reject(c, s) ==
  LET t == IF s.code < 0 THEN stmt_evaluate_reject_default(c, s) ELSE s
      c1 == IF s.code < 0 THEN c ELSE IF s.given THEN Require(c, s.code <= MaxCode) ELSE stmt_evaluate_reset(c, s)
  IN IF c1.err THEN R(c1, t) ELSE R(stmt_evaluate_reject_family(c1, t), t)

(***************************************************************************)
(* Addresses and ports: nat, tproxy, dup, fwd.                             *)
(***************************************************************************)
nat_evaluate_family(c, s) ==
  CASE c.family \in {"ip", "ip6"} -> IF s.family = "none" THEN c.family ELSE s.family
    [] s.addr = Null -> "inet"
    [] s.family = "none" /\ c.pctx.desc["network"] \in {"ip", "ip6"} -> c.pctx.desc["network"]
    [] OTHER -> s.family

get_addr_dtype(family) ==
  CASE family = "ip" -> "ipv4_addr" [] family = "ip6" -> "ipv6_addr" [] OTHER -> "invalid"

AddrArg(c, family, e) ==
  LET dt == get_addr_dtype(family) IN stmt_evaluate_arg(c, dt, DataTypes[dt].size, "big", e)

\* nat_evaluate_addr_has_th_expr(): a map keyed by the transport protocol or
\* one of its fields.
nat_evaluate_addr_has_th_expr(e) ==
  /\ e.t = "map" /\ e.map.t = "concat"
  /\ \E k \in DOMAIN e.map.elems :
       LET p == e.map.elems[k]
       IN \/ p.t = "payload" /\ p.base = "transport" /\ p.desc # "th"
          \/ p.t = "payload" /\ p.proto /\ p.base = "network"
          \/ p.t = "meta" /\ p.key = "l4proto"

nat_evaluate_transport(c, addr, e) ==
  LET r == stmt_evaluate_arg(c, "inet_service", 16, "big", e)
  IN R(Require(r.c, c.pctx.desc["transport"] # "none" \/ nat_evaluate_addr_has_th_expr(addr)), r.e)

stmt_evaluate_l3proto(c, family) ==
  Require(c, /\ c.pctx.desc["network"] = "ip" => family = "ip"
             /\ c.pctx.desc["network"] = "ip6" => family = "ip6")

\* The family of the addresses that a map is keyed by; the last one counts.
expr_family_infer(e, family) ==
  LET parts == IF e.t # "map" THEN <<>> ELSE IF e.map.t = "concat" THEN e.map.elems ELSE <<e.map>>
  IN FoldLeft(LAMBDA f, p : IF p.t = "payload" /\ p.desc \in {"ip", "ip6"} THEN p.desc ELSE f, family, parts)

AddrFamily(c, family, e) ==
  IF c.family # "inet" THEN c.family
  ELSE IF family \in {"inet", "none"} THEN expr_family_infer(e, family) ELSE family

stmt_evaluate_addr(c, s) ==
  LET family == AddrFamily(c, s.family, s.addr)
  IN IF get_addr_dtype(family) = "invalid" THEN R(expr_error(c), s)
     ELSE With(AddrArg(c, family, s.addr), IF c.family = "inet" THEN [s EXCEPT !.family = family] ELSE s, "addr")

\* nat_concat_map(): the map returns an address and a port.
nat_concat_map(c, e) ==
  /\ e.t = "map"
  /\ \/ e.mappings.t = "set" /\ \E k \in DOMAIN e.mappings.elems : e.mappings.elems[k].data.t = "concat"
     \/ /\ e.mappings.t = "symset" /\ e.mappings.name \in DOMAIN c.named
        /\ "map" \in c.named[e.mappings.name].flags /\ c.named[e.mappings.name].data.t = "concat"

stmt_evaluate_nat_map(c, s) ==
  LET family == IF s.family = "inet" THEN expr_family_infer(s.addr, s.family) ELSE s.family
      part(dt) == constant_expr_alloc(dt, "big", DataTypes[dt].size, {})
      want == concat_expr_alloc(<<part(get_addr_dtype(family)), part("inet_service")>>)
      typed == [expr_set_context(c, "concat", want.len) EXCEPT !.ectx.sub = want.elems]
  IN IF get_addr_dtype(family) = "invalid" THEN R(expr_error(c), s)
     ELSE Then(expr_evaluate(typed, s.addr), LAMBDA c1, addr :
       LET t == [s EXCEPT !.family = family, !.addr = addr, !.tflags = @ \cup {"concat"}]
           ends == addr.t = "map" /\ "interval" \in addr.mappings.set.dataflags
           c2 == Require(c1, /\ c.pctx.desc["transport"] # "none" \/ nat_evaluate_addr_has_th_expr(addr)
                             /\ addr.t = "map" => datatype_compatible("concat", addr.dt))
       IN R(c2, IF ends THEN [t EXCEPT !.tflags = @ \cup {"interval"}] ELSE t))

stmt_evaluate_nat(c, s0) ==
  LET s == [s0 EXCEPT !.family = nat_evaluate_family(c, s0)]
      c1 == IF s.addr = Null THEN c ELSE stmt_evaluate_l3proto(c, s.family)
      addr == IF s.addr = Null THEN R(c1, s) ELSE stmt_evaluate_addr(c1, s)
  IN CASE c.family \notin {"ip", "ip6", "inet"} \/ c1.err -> R(expr_error(c1), s)
       [] s.addr # Null /\ (nat_concat_map(c, s.addr) \/ "concat" \in s.tflags) -> stmt_evaluate_nat_map(c1, s)
       [] s.proto = Null -> addr
       [] OTHER -> Then(addr, LAMBDA d, t :
            With(nat_evaluate_transport(d, t.addr, s.proto), [t EXCEPT !.flags = @ \cup {"proto_specified"}], "proto"))

stmt_evaluate_tproxy(c, s0) ==
  LET s == IF c.family # "inet" /\ s0.family = "none" THEN [s0 EXCEPT !.family = c.family] ELSE s0
      c1 == stmt_evaluate_l3proto(
              Require(c, /\ c.family \in {"ip", "ip6", "inet"} /\ c.pctx.desc["transport"] # "none"
                         /\ s.addr # Null \/ s.port # Null), s.family)
      addr == IF s.addr = Null THEN R(c1, s) ELSE stmt_evaluate_addr(c1, s)
      whole(r) == R(Require(r.c, r.e.addr.t # "range"), r.e)
  IN IF c1.err THEN R(c1, s)
     ELSE Then(whole(addr), LAMBDA d, t :
            IF s.port = Null THEN R(d, t)
            ELSE With(NotRange(nat_evaluate_transport(d, Null, s.port)), t, "port"))

DevArg(c, e) == NotRange(stmt_evaluate_arg(c, "iface_index", 32, "host", e))

stmt_evaluate_dup(c, s) ==
  CASE c.family \in {"ip", "ip6"} /\ s.to # Null ->
         Then(NotRange(AddrArg(c, c.family, s.to)), LAMBDA d, to :
           LET t == [s EXCEPT !.to = to] IN IF s.dev = Null THEN R(d, t) ELSE With(DevArg(d, s.dev), t, "dev"))
    [] c.family = "netdev" /\ s.to # Null /\ s.dev = Null -> With(DevArg(c, s.to), s, "to")
    [] OTHER -> R(expr_error(c), s)

stmt_evaluate_fwd(c, s) ==
  IF c.family # "netdev" \/ s.dev = Null \/ (s.addr # Null /\ s.family = "none") THEN R(expr_error(c), s)
  ELSE Then(DevArg(c, s.dev), LAMBDA d, dev :
         LET t == [s EXCEPT !.dev = dev]
         IN IF s.addr = Null THEN R(d, t) ELSE With(NotRange(AddrArg(d, s.family, s.addr)), t, "addr"))

MaxQueue == 65535

stmt_evaluate_queue(c, s) ==
  IF s.q = Null THEN R(c, s)
  ELSE Then(stmt_evaluate_arg(c, "integer", 16, "host", s.q), LAMBDA d, q :
         R(Require(d, ("fanout" \in s.flags => q.t = "range") /\ d.ectx.maxval <= MaxQueue), [s EXCEPT !.q = q]))

\* Options of one backend exclude those of the other.
stmt_evaluate_log(c, s) ==
  LET has == DOMAIN s.a
      nflog == has \cap {"group", "snaplen", "qthreshold"} # {}
      audit == "level" \in has /\ s.a.level = "audit"
  IN R(Require(c, /\ nflog => has \cap {"level", "flags"} = {}
                  /\ audit => has = {"level"}), s)

(***************************************************************************)
(* Sets and maps that the packet path updates, and stateful objects.       *)
(***************************************************************************)
StatefulStmts == {"connlimit", "counter", "last", "limit", "quota"}

AllStateful(stmts) == \A k \in DOMAIN stmts : stmts[k].s \in StatefulStmts

\* The set, and the key in the type of the set.
SetAndKey(c, s) ==
  Then(expr_evaluate(expr_set_context(c, "none", 0), s.set), LAMBDA c1, ref :
    IF ref.t # "setref" THEN R(expr_error(c1), s)
    ELSE Then(stmt_evaluate_key(c1, ref.set.key, s.key.key), LAMBDA c2, k :
           R(Require(c2, ~expr_is_constant(k) /\ AllStateful(s.stmts)),
             [s EXCEPT !.set = ref, !.key.key = k])))

\* The set must allow updates from the packet path.
stmt_evaluate_set(c, s) ==
  Then(SetAndKey(c, s), LAMBDA d, t :
    LET set == [t.set.set EXCEPT !.flags = @ \cup {"eval"}]
    IN R([d EXCEPT !.named[set.name] = set], [t EXCEPT !.set.set = set]))

stmt_evaluate_map(c, s) ==
  Then(SetAndKey(c, s), LAMBDA d, t :
    LET data == t.set.set.data
    IN IF t.set.set.flags \cap {"map", "objmap"} = {} THEN R(expr_error(d), t)
       ELSE Then(stmt_evaluate_arg(d, data.dt, data.len, data.bo, s.data), LAMBDA d2, v :
              R(Require(d2, ~expr_is_constant(v)), [t EXCEPT !.data = v])))

\* A meter is a set of its own that the rule declares.
stmt_evaluate_meter(c, s) ==
  LET empty == [SetExpr(<<>>) EXCEPT !.sflags = {"eval"} \cup IF s.timeout > 0 THEN {"timeout"} ELSE {}]
  IN IF s.name \in DOMAIN c.named \/ s.stmt.s \notin StatefulStmts THEN R(expr_error(c), s)
     ELSE Then(expr_evaluate(expr_set_context(c, "none", 0), s.key.key), LAMBDA c1, k :
       LET set == Set(s.name, empty.sflags, k, Null, <<>>)
       IN R([Require(c1, ~expr_is_constant(k)) EXCEPT !.sets = (set.name :> set) @@ @],
            [s EXCEPT !.key.key = k] @@ [set |-> set_ref_expr_alloc(set)]))

stmt_evaluate_objref_map(c, s) ==
  LET e == s.e
  IN Then(expr_evaluate(expr_set_context(c, "none", 0), e.map), LAMBDA c1, key :
       IF expr_is_constant(key) THEN R(expr_error(c1), s)
       ELSE Then(expr_evaluate(c1, e.mappings), LAMBDA c2, ref :
              LET fine == ref.t = "setref" /\ "objmap" \in ref.set.flags /\ datatype_compatible(ref.set.key.dt, key.dt)
                  k == IF "interval" \in ref.set.flags THEN byteorder_conversion(c2, key, "big") ELSE R(c2, key)
              IN IF ~fine THEN R(expr_error(c2), s)
                 ELSE R(k.c, [s EXCEPT !.e = [map_expr_alloc(k.e, ref) EXCEPT !.dt = "string"]])))

MaxObjName == 256 * 8

stmt_evaluate_objref(c, s) ==
  IF s.e.t = "map" THEN stmt_evaluate_objref_map(c, s)
  ELSE Then(stmt_evaluate_arg(c, "string", MaxObjName, "host", s.e), LAMBDA d, v :
         R(Require(d, expr_is_constant(v)), [s EXCEPT !.e = v]))

stmt_evaluate(c0, s) ==
  LET c == [c0 EXCEPT !.stmtlen = 0]
  IN CASE s.s \in StatefulStmts \cup {"notrack", "flow_offload", "synproxy"} -> R(c, s)
       [] s.s = "expr" -> stmt_evaluate_expr(c, s)
       [] s.s = "verdict" -> stmt_evaluate_verdict(c, s)
       [] s.s = "payload" -> stmt_evaluate_payload(c, s)
       [] s.s = "exthdr" -> stmt_evaluate_exthdr(c, s)
       [] s.s = "meter" -> stmt_evaluate_meter(c, s)
       [] s.s \in {"meta", "ct"} -> stmt_evaluate_meta(c, s)
       [] s.s = "log" -> stmt_evaluate_log(c, s)
       [] s.s = "reject" -> stmt_evaluate_reject(c, s)
       [] s.s = "nat" -> stmt_evaluate_nat(c, s)
       [] s.s = "tproxy" -> stmt_evaluate_tproxy(c, s)
       [] s.s = "queue" -> stmt_evaluate_queue(c, s)
       [] s.s = "dup" -> stmt_evaluate_dup(c, s)
       [] s.s = "fwd" -> stmt_evaluate_fwd(c, s)
       [] s.s = "set" -> stmt_evaluate_set(c, s)
       [] s.s = "map" -> stmt_evaluate_map(c, s)
       [] s.s = "objref" -> stmt_evaluate_objref(c, s)
       [] s.s = "optstrip" -> With(expr_evaluate(c, s.e), s, "e")
       [] OTHER -> R(Expect(c, FALSE), s)

(***************************************************************************)
(* A rule.                                                                 *)
(***************************************************************************)
\* STMT_F_TERMINAL.
IsTerminal(s) ==
  \/ s.s \in {"reject", "nat", "fwd", "queue"}
  \/ s.s = "verdict" /\ s.e.t = "verdict" /\ s.e.code # "continue"

\* Every statement in turn; nothing may follow one that ends the rule.
rule_evaluate(family, named, stmts) ==
  FoldLeft(LAMBDA c, s :
    IF c.err \/ c.bug THEN c
    ELSE IF c.done # <<>> /\ IsTerminal(Last(c.done)) THEN expr_error(c)
    ELSE LET r == stmt_evaluate(c, s) IN [r.c EXCEPT !.done = Append(@, r.e)],
    [family |-> family, pctx |-> proto_ctx_init(family), ectx |-> NoEctx, done |-> <<>>, stmtlen |-> 0,
     set |-> NoSet, sets |-> <<>>, named |-> named, err |-> FALSE, bug |-> FALSE],
    stmts)
=============================================================================
