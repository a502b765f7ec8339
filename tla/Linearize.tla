----------------------------- MODULE Linearize -----------------------------
(***************************************************************************)
(* From the evaluated syntax tree of a rule to the kernel's instructions   *)
(* (src/netlink_linearize.c) and their data (src/netlink.c).  Each         *)
(* instruction reads and writes registers, which userspace allocates as a  *)
(* stack of 16 slots of 32 bits.                                           *)
(*                                                                         *)
(* Data is [m, n]: the memory image and its length in bytes.  An           *)
(* instruction is a record with only the attributes that are set; i is its *)
(* name.  ctx is the linearize context: the lowest free slot, the          *)
(* instructions so far, and whether a BUG() or an assertion was hit, which *)
(* aborts the program.                                                     *)
(***************************************************************************)
EXTENDS Expr

Data(m, n) == [m |-> m, n |-> n]

netlink_register_space(len) == (len + 31) \div 32

netlink_padded_len(len) == netlink_register_space(len) * 32

netlink_gen_raw_data(v, bo, bytes) == Data(Export(v, bo, bytes), bytes)

netlink_gen_constant_data(e) == netlink_gen_raw_data(e.v, e.bo, Bytes(e.len))

\* netlink_export_pad(): the image of one part of a concatenation.
netlink_export_pad(v, e) == Export(v, e.bo, Bytes(e.len))

\* Parts laid out one after the other, each padded to whole registers.
Padded(parts, Image(_)) ==
  FoldLeft(LAMBDA acc, e : [m |-> acc.m \cup At(Image(e), acc.off),
                            off |-> acc.off + netlink_padded_len(e.len)],
           [m |-> {}, off |-> 0], parts).m

\* Intervals are compared as memory: host order integers are sent swapped.
KeyOrder(v, e) == IF HostInteger(e) THEN SwitchByteorder(v, Bytes(e.len)) ELSE v

__netlink_gen_concat_key(e, interval, end) ==
  CASE e.t = "range" ->
         LET b == IF end THEN e.right ELSE e.left IN netlink_export_pad(KeyOrder(b.v, b), b)
    [] e.t = "prefix" ->
         netlink_export_pad(
           IF end THEN Or(e.prefix.v, LET rest == Bitmask(e.len - e.plen)
                                      IN IF e.bo = "host" THEN SwitchByteorder(rest, Bytes(e.len))
                                         ELSE rest)
           ELSE e.prefix.v, e)
    [] OTHER -> netlink_export_pad(IF interval THEN KeyOrder(e.v, e) ELSE e.v, e)

netlink_gen_concat_key(e, interval, end) ==
  Data(Padded(e.elems, LAMBDA p : __netlink_gen_concat_key(p, interval, end)), e.len \div 8)

__netlink_gen_concat_data(e, end) ==
  netlink_export_pad(IF end THEN range_expr_value_high(e) ELSE range_expr_value_low(e), e)

\* A concatenation as data of a map; expand: both ends of its intervals.
netlink_gen_concat_data(e, expand) ==
  LET half(end) == Padded(e.elems, LAMBDA p : __netlink_gen_concat_data(p, end))
  IN IF expand THEN Data(half(FALSE) \cup At(half(TRUE), e.len), 2 * Bytes(e.len))
     ELSE Data(half(FALSE), e.len \div 8)

\* netlink_gen_range() and netlink_gen_prefix(): the first and the last value.
BothEnds(e) ==
  Data(netlink_export_pad(range_expr_value_low(e), e)
         \cup At(netlink_export_pad(range_expr_value_high(e), e), netlink_padded_len(e.len)),
       2 * IF e.t = "range" THEN Bytes(e.left.len) ELSE netlink_padded_len(e.len) \div 8)

\* A verdict is data too.
NoData == Data({}, 0)

netlink_gen_verdict(e) == [verdict |-> e.code, chain |-> e.chain]

netlink_gen_key(e, interval, end) ==
  CASE e.t = "value" -> netlink_gen_constant_data(e)
    [] e.t = "concat" -> netlink_gen_concat_key(e, interval, end)
    [] OTHER -> BothEnds(e)

__netlink_gen_data(e, expand) ==
  CASE e.t = "value" -> netlink_gen_constant_data(e)
    [] e.t = "concat" -> netlink_gen_concat_data(e, expand)
    [] e.t = "verdict" -> netlink_gen_verdict(e)
    [] OTHER -> BothEnds(e)

netlink_gen_data(e) == __netlink_gen_data(e, FALSE)

(***************************************************************************)
(* Registers.  0 is the verdict register.                                  *)
(***************************************************************************)
VerdictReg == 0

FirstReg == 1

RegEnd == 17   \* one past the last slot

\* netlink_put_register(): a multiple of four slots has a 128 bit number.
PutRegister(reg) ==
  IF reg = VerdictReg THEN reg
  ELSE IF (reg - FirstReg) % 4 = 0 THEN 1 + (reg - FirstReg) \div 4
  ELSE reg - FirstReg + 8

Check(ctx, ok) == [ctx EXCEPT !.bug = @ \/ ~ok]

RegSize(e) == netlink_register_space(IF e.t = "concat" THEN e.len ELSE 128)

\* The register get_register() returns is the lowest free slot before it.
get_register(ctx, e) ==
  [Check(ctx, ctx.reg + RegSize(e) <= RegEnd) EXCEPT !.reg = @ + RegSize(e)]

release_register(ctx, e) ==
  [Check(ctx, ctx.reg >= FirstReg + RegSize(e)) EXCEPT !.reg = @ - RegSize(e)]

nft_rule_add_expr(ctx, ins) == [ctx EXCEPT !.code = Append(@, ins)]

I(name, attrs) == [i |-> name] @@ attrs

\* An attribute that is set under a condition only.
If(cond, name, val) == IF cond THEN name :> val ELSE <<>>

RECURSIVE netlink_gen_expr(_, _, _)

\* An expression into a register of its own, which is released again: what
\* follows may overwrite it, but the next instruction finds it there.
IntoReg(ctx, e) ==
  release_register(netlink_gen_expr(get_register(ctx, e), e, ctx.reg), e)

netlink_gen_concat(ctx, e, dreg) ==
  FoldLeft(LAMBDA acc, p : [c |-> netlink_gen_expr(acc.c, p, acc.r),
                            r |-> acc.r + netlink_register_space(p.len)],
           [c |-> ctx, r |-> dreg], e.elems).c

netlink_gen_hash(ctx, e, dreg) ==
  LET keyed == e.arg # Null
      attrs == [dreg |-> PutRegister(dreg), a |-> e.a]
  IN IF keyed
     THEN nft_rule_add_expr(IntoReg(ctx, e.arg),
            I("hash", attrs @@ [sreg |-> PutRegister(ctx.reg), len |-> Bytes(e.arg.len)]))
     ELSE nft_rule_add_expr(ctx, I("hash", attrs))

netlink_gen_payload(ctx, e, dreg) ==
  nft_rule_add_expr(ctx, I("payload", [dreg |-> PutRegister(dreg), base |-> e.base,
                                       off |-> e.off \div 8, len |-> Bytes(e.len)]))

netlink_gen_exthdr(ctx, e, dreg) ==
  nft_rule_add_expr(ctx, I("exthdr", [dreg |-> PutRegister(dreg), type |-> e.type,
                                      off |-> e.off \div 8, len |-> Bytes(e.len),
                                      op |-> e.op, present |-> e.present]))

\* fib, rt, socket, osf, numgen, xfrm: a key and scalar attributes.
GenSource(ctx, e, dreg) ==
  nft_rule_add_expr(ctx, I(e.t, [dreg |-> PutRegister(dreg), key |-> e.key, a |-> e.a]))

netlink_gen_meta(ctx, e, dreg) ==
  nft_rule_add_expr(ctx, I("meta", [dreg |-> PutRegister(dreg), key |-> e.key]))

netlink_gen_ct(ctx, e, dreg) ==
  nft_rule_add_expr(ctx, I("ct", [dreg |-> PutRegister(dreg), key |-> e.key]
                                   @@ If(e.dir # "none", "dir", e.dir)))

\* Fault: the space of a concatenated key is not given back.
netlink_gen_mapLeaks(ctx, e, dreg) ==
  LET verdict == dreg = VerdictReg
      sreg == IF verdict THEN ctx.reg ELSE dreg
      c1 == IF verdict THEN get_register(ctx, e.map) ELSE ctx
      space == IF e.map.t = "concat" THEN netlink_register_space(e.map.len) ELSE 0
      c2 == netlink_gen_expr([c1 EXCEPT !.reg = @ + space], e.map, sreg)
  IN nft_rule_add_expr(IF verdict THEN release_register(c2, e.map) ELSE c2,
       I("lookup", [sreg |-> PutRegister(sreg), dreg |-> PutRegister(dreg),
                    set |-> e.mappings.set.name]))

\* The key of a map shares the register of the result.
netlink_gen_map(ctx, e, dreg) ==
  LET verdict == dreg = VerdictReg
      sreg == IF verdict THEN ctx.reg ELSE dreg
      c1 == IF verdict THEN get_register(ctx, e.map) ELSE ctx
      space == IF e.map.t = "concat" THEN netlink_register_space(e.map.len) ELSE 0
      c2 == netlink_gen_expr([c1 EXCEPT !.reg = @ + space], e.map, sreg)
      c3 == [c2 EXCEPT !.reg = @ - space]
  IN nft_rule_add_expr(IF verdict THEN release_register(c3, e.map) ELSE c3,
       I("lookup", [sreg |-> PutRegister(sreg), dreg |-> PutRegister(dreg),
                    set |-> e.mappings.set.name]))

netlink_gen_lookup(ctx, e) ==
  nft_rule_add_expr(IntoReg(Check(ctx, e.right.t = "setref"), e.left),
    I("lookup", [sreg |-> PutRegister(ctx.reg), set |-> e.right.set.name]
                  @@ If(e.op = "neq", "inv", TRUE)))

netlink_gen_cmp_op(op) == IF op = "implicit" THEN "eq" ELSE op

Cmp(reg, op, data) == I("cmp", [sreg |-> PutRegister(reg), op |-> op, data |-> data])

Bitwise(reg, len, mask, xor) ==
  I("bitwise", [sreg |-> PutRegister(reg), dreg |-> PutRegister(reg), op |-> "bool",
                len |-> len, mask |-> mask, xor |-> xor])

netlink_gen_prefix(ctx, e, sreg) ==
  LET n == Bytes(e.len)
  IN nft_rule_add_expr(ctx,
       Bitwise(sreg, n, netlink_gen_raw_data(Prefixmask(e.len, e.plen), e.bo, n), Data({}, n)))

netlink_gen_range(ctx, e) ==
  LET c == IntoReg(ctx, e.left)
      lo == netlink_gen_data(e.right.left)
      hi == netlink_gen_data(e.right.right)
  IN IF e.op = "neq"
     THEN nft_rule_add_expr(c, I("range", [sreg |-> PutRegister(ctx.reg), op |-> "neq",
                                           from |-> lo, to |-> hi]))
     ELSE nft_rule_add_expr(nft_rule_add_expr(Check(c, e.op \in {"eq", "implicit"}),
                                              Cmp(ctx.reg, "gte", lo)),
                            Cmp(ctx.reg, "lte", hi))

netlink_gen_flagcmp(ctx, e) ==
  LET c == IntoReg(ctx, e.left)
      len == Bytes(e.left.len)
      zero == netlink_gen_raw_data({}, e.right.bo, len)
      flags == netlink_gen_data(e.right)
  IN IF e.left.t = "binop" THEN nft_rule_add_expr(c, Cmp(ctx.reg, "eq", flags))
     ELSE nft_rule_add_expr(nft_rule_add_expr(c, Bitwise(ctx.reg, len, flags, zero)),
            Cmp(ctx.reg, IF e.op = "neg" THEN "eq" ELSE "neq", zero))

\* The prefix is compared as it is when its bytes can be compared alone.
WholeBytes(e) ==
  \/ expr_basetype(e.left.dt) = "string"
  \/ e.right.bo = "big" /\ e.right.plen # 0 /\ e.right.plen % 8 = 0

GenPrefixMatch(ctx, e) ==
  LET n == IF WholeBytes(e) THEN Bytes(e.right.plen) ELSE Bytes(e.right.len)
      left == IF WholeBytes(e) THEN [e.left EXCEPT !.len = e.right.plen] ELSE e.left
      c1 == netlink_gen_expr(get_register(ctx, e.left), left, ctx.reg)
      c2 == IF WholeBytes(e) THEN c1 ELSE netlink_gen_prefix(c1, e.right, ctx.reg)
      d == netlink_gen_data(e.right.prefix)
  IN nft_rule_add_expr(release_register(c2, left),
       Cmp(ctx.reg, netlink_gen_cmp_op(e.op), Data(From(d.m, 0, 8 * n), n)))

netlink_gen_relational(ctx, e) ==
  CASE e.right.t = "range" -> netlink_gen_range(ctx, e)
    [] e.right.t \in {"set", "setref"} -> netlink_gen_lookup(ctx, e)
    [] e.right.t = "prefix" -> GenPrefixMatch(ctx, e)
    [] e.op \in {"implicit", "neg"} /\ IsBitmask(e.right) -> netlink_gen_flagcmp(ctx, e)
    [] OTHER -> nft_rule_add_expr(IntoReg(Check(ctx, e.op # "neg"), e.left),
                  Cmp(ctx.reg, netlink_gen_cmp_op(e.op), netlink_gen_data(e.right)))

netlink_gen_shift(ctx, e, dreg) ==
  nft_rule_add_expr(netlink_gen_expr(ctx, e.left, dreg),
    I("bitwise", [sreg |-> PutRegister(dreg), dreg |-> PutRegister(dreg), op |-> e.op,
                  len |-> Bytes(e.len),
                  data |-> netlink_gen_raw_data(e.right.v, e.right.bo, 4)]))

\* combine_binop(): one more operation on the register, x |-> (x & m) ^ y.
combine_binop(acc, m, y) == [mask |-> And(acc.mask, m), xor |-> Xor(y, And(acc.xor, m))]

BoolOps == {"and", "or", "xor"}

\* The operations applied to an operand, innermost first, and the operand.
RECURSIVE Binops(_)
Binops(e) == IF e.t = "binop" /\ e.op \in BoolOps THEN Append(Binops(e.left), e) ELSE <<>>

RECURSIVE Innermost(_)
Innermost(e) == IF e.t = "binop" /\ e.op \in BoolOps THEN Innermost(e.left) ELSE e

\* A series of and, or and xor becomes one instruction.
netlink_gen_bitwise(ctx, e, dreg) ==
  LET all == Bitmask(e.len)
      step(acc, b) ==
        CASE b.op = "and" -> combine_binop(acc, b.right.v, {})
          [] b.op = "or" -> combine_binop(acc, all \ b.right.v, b.right.v)
          [] b.op = "xor" -> combine_binop(acc, all, b.right.v)
      r == FoldLeft(step, [mask |-> all, xor |-> {}], Binops(e))
      n == Bytes(e.len)
  IN nft_rule_add_expr(netlink_gen_expr(Check(ctx, Len(Binops(e)) < 16), Innermost(e), dreg),
       Bitwise(dreg, n, netlink_gen_raw_data(r.mask, e.bo, n),
               netlink_gen_raw_data(r.xor, e.bo, n)))

netlink_gen_binop(ctx, e, dreg) ==
  IF e.op \in {"lshift", "rshift"} THEN netlink_gen_shift(ctx, e, dreg)
  ELSE netlink_gen_bitwise(ctx, e, dreg)

netlink_gen_unary(ctx, e, dreg) ==
  LET size == IF e.arg.len % 64 = 0 THEN 8 ELSE IF e.arg.len % 32 = 0 THEN 4 ELSE 2
  IN nft_rule_add_expr(netlink_gen_expr(Check(ctx, Bytes(e.arg.len) # 1), e.arg, dreg),
       I("byteorder", [sreg |-> PutRegister(dreg), dreg |-> PutRegister(dreg),
                       len |-> Bytes(e.len), size |-> size, op |-> e.op]))

netlink_gen_immediate(ctx, e, dreg) ==
  nft_rule_add_expr(ctx, I("immediate", [dreg |-> PutRegister(dreg)]
                           @@ IF e.t = "verdict" THEN netlink_gen_verdict(e)
                              ELSE [data |-> netlink_gen_data(e)]))

netlink_gen_expr(ctx, e, dreg) ==
  LET c == Check(ctx, dreg < ctx.reg)
  IN CASE e.t \in {"verdict", "value"} -> netlink_gen_immediate(c, e, dreg)
       [] e.t = "unary" -> netlink_gen_unary(c, e, dreg)
       [] e.t = "binop" -> netlink_gen_binop(c, e, dreg)
       [] e.t = "rel" -> netlink_gen_relational(Check(c, dreg = VerdictReg), e)
       [] e.t = "concat" -> netlink_gen_concat(c, e, dreg)
       [] e.t = "map" -> netlink_gen_map(c, e, dreg)
       [] e.t = "payload" -> netlink_gen_payload(c, e, dreg)
       [] e.t = "exthdr" -> netlink_gen_exthdr(c, e, dreg)
       [] e.t = "meta" -> netlink_gen_meta(c, e, dreg)
       [] e.t = "ct" -> netlink_gen_ct(c, e, dreg)
       [] e.t = "elem" -> netlink_gen_expr(c, e.key, dreg)
       [] e.t = "hash" -> netlink_gen_hash(c, e, dreg)
       [] e.t \in {"fib", "rt", "socket", "osf", "numgen", "xfrm"} -> GenSource(c, e, dreg)
       [] OTHER -> Check(c, FALSE)

(***************************************************************************)
(* Statements.  Several operands are held at the same time: Hold evaluates *)
(* them one after the other, each in a register of its own, and releases   *)
(* them together; the operand k is then in register Held(ctx, es)[k].      *)
(***************************************************************************)
Held(ctx, es) ==
  FoldLeft(LAMBDA acc, e : [regs |-> Append(acc.regs, acc.next), next |-> acc.next + RegSize(e)],
           [regs |-> <<>>, next |-> ctx.reg], es).regs

Hold(ctx, es) ==
  FoldRight(LAMBDA e, c : release_register(c, e), es,
    FoldLeft(LAMBDA c, e : netlink_gen_expr(get_register(c, e), e, c.reg), ctx, es))

\* The operands that are there, and the attribute each is put in.
Operands(pairs) == SelectSeq(pairs, LAMBDA p : p[2] # Null)

HoldAs(ctx, pairs, ins) ==
  LET ops == Operands(pairs)
      es == [k \in DOMAIN ops |-> ops[k][2]]
      regs == Held(ctx, es)
      put == [a \in {ops[k][1] : k \in DOMAIN ops} |->
                PutRegister(regs[CHOOSE k \in DOMAIN ops : ops[k][1] = a])]
  IN nft_rule_add_expr(Hold(ctx, es), ins @@ put)

netlink_gen_objref_stmt(ctx, s) ==
  IF s.e.t = "map"
  THEN nft_rule_add_expr(IntoReg(ctx, s.e.map),
         I("objref", [rawsreg |-> ctx.reg, set |-> s.e.mappings.set.name]))
  ELSE nft_rule_add_expr(ctx, I("objref", [name |-> netlink_gen_data(s.e), type |-> s.type]))

\* netlink_gen_stmt_stateful(): connlimit, counter, limit, quota, last.
netlink_gen_counter_stmt(a) ==
  If(a.packets # 0, "packets", a.packets) @@ If(a.bytes # 0, "bytes", a.bytes)

netlink_gen_limit_stmt(a) ==
  [rate |-> a.rate, unit |-> a.unit, type |-> a.type, flags |-> a.flags]
    @@ If(a.burst > 0, "burst", a.burst)

netlink_gen_stmt_stateful(s) ==
  I(s.s, [a |-> CASE s.s = "counter" -> netlink_gen_counter_stmt(s.a)
                  [] s.s = "limit" -> netlink_gen_limit_stmt(s.a)
                  [] OTHER -> s.a])

Stateful == {"connlimit", "counter", "limit", "quota", "last"}

netlink_gen_exthdr_stmt(ctx, s) ==
  nft_rule_add_expr(IntoReg(ctx, s.val),
    I("exthdr", [sreg |-> PutRegister(ctx.reg), type |-> s.e.type, off |-> s.e.off \div 8,
                 len |-> Bytes(s.e.len), op |-> s.e.op]))

\* Writing to a header also updates its checksum, and the transport checksum
\* when the field is part of the pseudo header.
CsumField(e) == IF Proto[e.desc].csum = "none" THEN NoTemplate ELSE Template(e.desc, Proto[e.desc].csum)

netlink_gen_payload_stmt(ctx, s) ==
  LET csum == CsumField(s.e).off
  IN nft_rule_add_expr(IntoReg(ctx, s.val),
       I("payload", [sreg |-> PutRegister(ctx.reg), base |-> s.e.base,
                     off |-> s.e.off \div 8, len |-> s.e.len \div 8]
           @@ If(csum # 0, "csum", csum \div 8)
           @@ If(s.e.base = "network" /\ s.e.field \in Proto[s.e.desc].pseudo,
                 "pseudohdr", TRUE)))

netlink_gen_meta_stmt(ctx, s) ==
  nft_rule_add_expr(IntoReg(ctx, s.e),
    I("meta", [sreg |-> PutRegister(ctx.reg), key |-> s.key]))

netlink_gen_ct_stmt(ctx, s) ==
  nft_rule_add_expr(IntoReg(ctx, s.e),
    I("ct", [sreg |-> PutRegister(ctx.reg), key |-> s.key] @@ If(s.dir # "none", "dir", s.dir)))

\* The group decides which of the other options are sent.
netlink_gen_log_stmt(ctx, s) ==
  LET a == s.a
      given(names) == [n \in DOMAIN a \cap names |-> a[n]]
  IN nft_rule_add_expr(ctx,
       I("log", [a |-> given({"prefix"})
                       @@ IF "group" \in DOMAIN a THEN given({"group", "snaplen", "qthreshold"})
                          ELSE given({"level", "flags"})]))

\* icmp_code -1: a TCP reset.
netlink_gen_reject_stmt(ctx, s) ==
  nft_rule_add_expr(ctx, I("reject", [type |-> s.type] @@ If(s.code # -1, "code", s.code)))

nat_addrlen(family) == IF family = "ip" THEN 32 ELSE 128

\* The registers of the nat statement.  A map may return an address, an
\* address and a port, or the two ends of either: then the parts are in
\* consecutive slots after the first.
NatMapped(s, reg) ==
  LET alen == netlink_register_space(nat_addrlen(s.family))
      interval == s.addr.t = "map" /\ "interval" \in s.addr.mappings.set.dataflags
      concat == "concat" \in s.tflags
      amin == IF interval THEN reg + alen ELSE reg
      ends == "interval" \in s.tflags
      pmin == IF ends THEN amin + alen + alen ELSE amin + alen
  IN If(interval /\ ~concat, "amax", PutRegister(amin))
       @@ If(concat /\ ends, "amax", PutRegister(amin + alen))
       @@ If(concat, IF ends THEN "pmax" ELSE "pmin", PutRegister(pmin))
       @@ If(interval /\ concat, "pmin", PutRegister(amin))

NatOperands(e, lo, hi) ==
  IF e.t = "range" THEN <<<<lo, e.left>>, <<hi, e.right>>>> ELSE <<<<lo, e>>>>

\* snat, dnat, masquerade, redirect.  The ends of a range are constants, which
\* need no register but the one they are put in.
netlink_gen_nat_stmt(ctx, s) ==
  LET extra == IF s.addr # Null /\ s.addr.t # "range" THEN NatMapped(s, ctx.reg) ELSE <<>>
  IN HoldAs(Check(ctx, ~("concat" \in s.tflags /\ s.proto # Null)),
       NatOperands(s.addr, "amin", "amax") \o NatOperands(s.proto, "pmin", "pmax"),
       I(s.type, If(s.type \in {"snat", "dnat"}, "family", s.family)
                   @@ If(s.flags # {}, "flags", s.flags) @@ extra))

netlink_gen_tproxy_stmt(ctx, s) ==
  HoldAs(ctx, <<<<"addr", s.addr>>, <<"port", s.port>>>>, I("tproxy", [family |-> s.family]))

netlink_gen_dup_stmt(ctx, s) ==
  HoldAs(ctx, <<<<IF s.to.dt = "iface_index" THEN "dev" ELSE "addr", s.to>>, <<"dev", s.dev>>>>,
         I("dup", <<>>))

netlink_gen_fwd_stmt(ctx, s) ==
  HoldAs(ctx, <<<<"dev", s.dev>>, <<"addr", s.addr>>>>,
         I("fwd", If(s.family # "none", "family", s.family)))

netlink_gen_optstrip_stmt(ctx, s) ==
  nft_rule_add_expr(ctx, I("exthdr", [type |-> s.e.type, op |-> s.e.op]))

\* The difference is taken in 16 bits.
netlink_gen_queue_stmt(ctx, s) ==
  LET num(v) == SumSet({2 ^ i : i \in v})
      lo == num(range_expr_value_low(s.q))
      hi == num(range_expr_value_high(s.q))
      flags == If(s.flags # {}, "flags", s.flags)
  IN CASE s.q = Null -> nft_rule_add_expr(ctx, I("queue", [num |-> 0, total |-> 1] @@ flags))
       [] s.q.t \in {"range", "value"} ->
            nft_rule_add_expr(ctx, I("queue", [num |-> lo, total |-> (hi - lo + 1) % 65536] @@ flags))
       [] OTHER -> nft_rule_add_expr(IntoReg(ctx, s.q),
                     I("queue", [sreg |-> PutRegister(ctx.reg)] @@ flags))

DynsetStmts(stmts) ==
  IF Len(stmts) = 1 THEN [expr |-> netlink_gen_stmt_stateful(stmts[1])]
  ELSE If(Len(stmts) > 1, "exprs", [k \in DOMAIN stmts |-> netlink_gen_stmt_stateful(stmts[k])])

Dynset(op, set, timeout, stmts) ==
  I("dynset", [op |-> op, set |-> set.name] @@ If(timeout > 0, "timeout", timeout)
                @@ DynsetStmts(stmts))

netlink_gen_set_stmt(ctx, s) ==
  HoldAs(ctx, <<<<"key", s.key.key>>>>, Dynset(s.op, s.set.set, s.timeout, s.stmts))

netlink_gen_map_stmt(ctx, s) ==
  HoldAs(ctx, <<<<"key", s.key.key>>, <<"data", s.data>>>>,
         Dynset(s.op, s.set.set, s.timeout, s.stmts))

netlink_gen_meter_stmt(ctx, s) ==
  HoldAs(ctx, <<<<"key", s.key.key>>>>,
         Dynset(IF s.timeout > 0 THEN "update" ELSE "add", s.set.set, s.timeout, <<s.stmt>>))

netlink_gen_stmt(ctx, s) ==
  CASE s.s \in {"expr", "verdict"} -> netlink_gen_expr(ctx, s.e, VerdictReg)
    [] s.s = "meter" -> netlink_gen_meter_stmt(ctx, s)
    [] s.s = "exthdr" -> netlink_gen_exthdr_stmt(ctx, s)
    [] s.s = "payload" -> netlink_gen_payload_stmt(ctx, s)
    [] s.s = "meta" -> netlink_gen_meta_stmt(ctx, s)
    [] s.s = "log" -> netlink_gen_log_stmt(ctx, s)
    [] s.s = "reject" -> netlink_gen_reject_stmt(ctx, s)
    [] s.s = "nat" -> netlink_gen_nat_stmt(ctx, s)
    [] s.s = "tproxy" -> netlink_gen_tproxy_stmt(ctx, s)
    [] s.s = "dup" -> netlink_gen_dup_stmt(ctx, s)
    [] s.s = "fwd" -> netlink_gen_fwd_stmt(ctx, s)
    [] s.s = "queue" -> netlink_gen_queue_stmt(ctx, s)
    [] s.s = "ct" -> netlink_gen_ct_stmt(ctx, s)
    [] s.s = "set" -> netlink_gen_set_stmt(ctx, s)
    [] s.s = "map" -> netlink_gen_map_stmt(ctx, s)
    [] s.s = "objref" -> netlink_gen_objref_stmt(ctx, s)
    [] s.s = "optstrip" -> netlink_gen_optstrip_stmt(ctx, s)
    [] s.s \in Stateful -> nft_rule_add_expr(ctx, netlink_gen_stmt_stateful(s))
    [] s.s \in {"synproxy", "notrack", "flow_offload"} -> nft_rule_add_expr(ctx, I(s.s, [a |-> s.a]))
    [] OTHER -> Check(ctx, FALSE)

netlink_linearize_init == [reg |-> FirstReg, code |-> <<>>, bug |-> FALSE]

netlink_linearize_rule(stmts) == FoldLeft(netlink_gen_stmt, netlink_linearize_init, stmts)
=============================================================================
