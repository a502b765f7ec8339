--------------------------------- MODULE Vm ---------------------------------
(***************************************************************************)
(* The kernel's interpreter of rules (external: net/netfilter/nft_*.c), as *)
(* far as the programs that nft generates depend on it.                    *)
(*                                                                         *)
(* A packet is [desc, hdr, meta, ct, ext, src]: for each base the header   *)
(* that is there ("none" if there is none) and its memory image, the       *)
(* numbers of its meta data and connection, the images of its extension    *)
(* headers and options, by <<op, type>>, and the numbers that the routing  *)
(* table, its socket and the like have for it.                             *)
(*                                                                         *)
(* m is the state of the interpreter: regs the memory image of the 16      *)
(* registers of 32 bits, on: no match failed and no verdict was given,     *)
(* pkt the packet, eff what the rule did, in order.                        *)
(***************************************************************************)
EXTENDS SetElems

RegOffset(reg) == IF reg \in 1..4 THEN 128 * (reg - 1) ELSE 32 * (reg - 8)

Load(m, reg, bytes) == From(m.regs, RegOffset(reg), 8 * bytes)

\* Whole registers are written, the rest filled with zeros.
Store(m, reg, image, bytes) ==
  LET off == RegOffset(reg)
  IN [m EXCEPT !.regs = (@ \ (off..(off + RoundUp(8 * bytes, 32) - 1))) \cup At(image, off)]

Break(m) == [m EXCEPT !.on = FALSE]

Match(m, ok) == IF ok THEN m ELSE Break(m)

Effect(m, e) == [m EXCEPT !.eff = Append(@, e)]

Verdict(m, code, chain) == Break(Effect(m, <<"verdict", code, chain>>))

\* Memory images compared as the kernel's memcmp() does.
Big(image, bytes) == Import(image, "big", bytes)

Compare(op, a, b, bytes) ==
  LET x == Big(a, bytes)
      y == Big(b, bytes)
  IN CASE op = "eq" -> x = y [] op = "neq" -> x # y
       [] op = "lt" -> Less(x, y) [] op = "lte" -> LessEq(x, y)
       [] op = "gt" -> Less(y, x) [] op = "gte" -> LessEq(y, x)

\* A register as one number: words of host order, the first the most
\* significant.
Words(image, bytes) ==
  LET n == RoundUp(bytes, 4) \div 4
  IN UNION {Lshift(Import(From(image, 32 * (k - 1), 32), "host", 4), 32 * (n - k)) : k \in 1..n}

Unwords(v, bytes) ==
  LET n == RoundUp(bytes, 4) \div 4
  IN UNION {At(Export(From(v, 32 * (n - k), 32), "host", 4), 32 * (k - 1)) : k \in 1..n}

EvalBitwise(m, ins) ==
  LET src == Load(m, ins.sreg, ins.len)
      n == SumSet({2 ^ i : i \in Import(ins.data.m, "host", 4)})
      word == Words(Load(m, ins.sreg, RoundUp(ins.len, 4)), ins.len)
      all == Bitmask(RoundUp(8 * ins.len, 32))
      out == CASE ins.op = "bool" -> Xor(And(src, ins.mask.m), ins.xor.m)
               [] ins.op = "lshift" -> Unwords(Lshift(word, n) \cap all, ins.len)
               [] ins.op = "rshift" -> Unwords(Rshift(word, n), ins.len)
  IN Store(m, ins.dreg, out, ins.len)

EvalByteorder(m, ins) ==
  LET src == Load(m, ins.sreg, ins.len)
      swap(i) == LET k == i \div (8 * ins.size) IN
                 8 * ins.size * k + 8 * (ins.size - 1 - ((i % (8 * ins.size)) \div 8)) + (i % 8)
  IN Store(m, ins.dreg, {swap(i) : i \in src}, ins.len)

\* The element that a key belongs to, if any.  In an interval set it is the
\* last one that starts at or before the key, unless an interval ends there.
FieldsWithin(set, image, w) ==
  LET ends == FoldLeft(LAMBDA acc, e : Append(acc, acc[Len(acc)] + netlink_padded_len(e.len)), <<0>>, set.key.elems)
  IN \A k \in DOMAIN set.key.elems :
       LET n == (ends[k + 1] - ends[k]) \div 8
           part(x) == From(x, ends[k], 8 * n)
       IN Compare("gte", part(image), part(w.key.m), n) /\ Compare("lte", part(image), part(w.keyend.m), n)

LookupElem(set, m, reg) ==
  LET n == IF set.init = <<>> THEN 0 ELSE Max({set.init[k].key.n : k \in DOMAIN set.init})
      key == Load(m, reg, n)
      els == {k \in DOMAIN set.init : ~set.init[k].catchall}
      below == {k \in els : Compare("lte", set.init[k].key.m, key, n)}
      last == {k \in below : \A j \in below : Compare("lte", set.init[j].key.m, set.init[k].key.m, n)}
      hit == CASE "interval" \in set.flags /\ set.key.t = "concat" -> {k \in els : FieldsWithin(set, key, set.init[k])}
               [] "interval" \in set.flags -> IF \E k \in last : ~set.init[k].end
                                              THEN {k \in last : ~set.init[k].end} ELSE {}
               [] OTHER -> {k \in els : set.init[k].key.m = key}
  IN IF hit # {} THEN hit ELSE DOMAIN set.init \ els

EvalLookup(m, sets, ins) ==
  LET set == sets[ins.set]
      hit == LookupElem(set, m, ins.sreg)
      d == set.init[CHOOSE k \in hit : TRUE].data
  IN IF "dreg" \notin DOMAIN ins THEN Match(m, (hit # {}) = ("inv" \notin DOMAIN ins))
     ELSE IF hit = {} THEN Break(m)
     ELSE IF "verdict" \in DOMAIN d THEN Verdict(m, d.verdict, d.chain)
     ELSE Store(m, ins.dreg, d.m, d.n)

\* Loads: from a header, from the packet's meta data, from its connection.
EvalPayload(m, ins) ==
  IF "sreg" \in DOMAIN ins
  THEN LET range == (8 * ins.off)..(8 * (ins.off + ins.len) - 1)
       IN [m EXCEPT !.pkt.hdr[ins.base] = (@ \ range) \cup At(Load(m, ins.sreg, ins.len), 8 * ins.off)]
  ELSE IF m.pkt.desc[ins.base] = "none" THEN Break(m)
  ELSE Store(m, ins.dreg, From(m.pkt.hdr[ins.base], 8 * ins.off, 8 * ins.len), ins.len)

EvalKey(m, ins, values, t) ==
  IF "sreg" \in DOMAIN ins
  THEN Effect(m, <<ins.i, ins.key, Import(Load(m, ins.sreg, Bytes(t[2])), t[3], Bytes(t[2]))>>)
  ELSE IF ins.key \notin DOMAIN values THEN Break(m)
  ELSE Store(m, ins.dreg, Export(values[ins.key], t[3], Bytes(t[2])), Bytes(t[2]))

\* An address of the connection is as long as those of the packet.
CtKey(p, key) ==
  IF key \notin {"saddr", "daddr"} THEN CtTemplates[key]
  ELSE IF p.desc["network"] = "ip" THEN CtTemplates["srcip"] ELSE CtTemplates["srcip6"]

EvalExthdr(m, ins) ==
  LET at == <<ins.op, ins.type>>
      there == at \in DOMAIN m.pkt.ext
  IN CASE "dreg" \notin DOMAIN ins -> Effect(m, <<"exthdr", at>>)
       [] ins.present -> Store(m, ins.dreg, IF there THEN {7} ELSE {}, 1)
       [] there -> Store(m, ins.dreg, From(m.pkt.ext[at], 8 * ins.off, 8 * ins.len), ins.len)
       [] OTHER -> Break(m)

\* What a lookup outside the packet finds, as far as its attributes count.
SourceNumber(p, i, a) ==
  CASE i \in {"hash", "numgen"} -> Num((p.src[i] % a.mod) + a.offset)
    [] i = "fib" -> Num(IF "saddr" \in a.flags THEN p.src[i] ELSE p.src[i] + 1)
    [] OTHER -> Num(p.src[i])

EvalSource(m, ins) ==
  LET t == IF ins.i = "hash" THEN <<"integer", 32, "host">> ELSE SourceTemplates[ins.i][ins.key]
  IN IF ins.i \notin DOMAIN m.pkt.src THEN Break(m)
     ELSE Store(m, ins.dreg, Export(SourceNumber(m.pkt, ins.i, ins.a), t[3], Bytes(t[2])), Bytes(t[2]))

\* The numbers in the registers that an action names.
Numbers(m, ins) ==
  LET bytes(a) == IF a \in {"pmin", "pmax", "port"} THEN 2
                  ELSE IF "family" \in DOMAIN ins /\ ins.family = "ip6" THEN 16 ELSE 4
      regs == DOMAIN ins \cap {"amin", "amax", "pmin", "pmax", "addr", "port"}
  IN [a \in regs |-> Big(Load(m, ins[a], bytes(a)), bytes(a))]

Terminal == {"snat", "dnat", "masq", "redir", "reject", "queue", "fwd"}

\* The attributes of a stateful expression; those not sent are zero.
AttrNames ==
  [counter |-> {"packets", "bytes"}, limit |-> {"rate", "unit", "type", "flags", "burst"},
   quota |-> {"bytes", "used", "flags"}, connlimit |-> {"count", "flags"}, last |-> {}]

StatefulDetail(i, a) == <<i, [n \in AttrNames[i] |-> Attr(a, n)]>>

\* A message of the log has a level unless it goes to a group.
LogDetail(a) == a @@ If("group" \notin DOMAIN a, "level", "warn")

\* icmp_code_v4[] and icmp_code_v6[] of the kernel: what the codes of icmpx
\* stand for.
IcmpxCodes == [ip |-> <<0, 3, 1, 13>>, ip6 |-> <<0, 4, 3, 1>>]

RejectDetail(p, type, code) ==
  CASE p.desc["network"] \notin {"ip", "ip6"} -> <<"none", 0>>
    [] type = "tcp_rst" -> <<"tcp_rst", 0>>
    [] type = "icmpx_unreach" -> <<"icmp", IcmpxCodes[p.desc["network"]][code + 1]>>
    [] OTHER -> <<"icmp", code>>

\* How ports and addresses are chosen; the other flags repeat the operands.
PortFlags == {"random", "fully-random", "persistent"}

\* What an action says besides the numbers in its registers.
Detail(m, sets, ins) ==
  CASE ins.i \in Stateful -> StatefulDetail(ins.i, ins.a)
    [] ins.i = "log" -> LogDetail(ins.a)
    [] ins.i = "reject" -> RejectDetail(m.pkt, ins.type, Attr(ins, "code"))
    [] ins.i = "queue" -> <<ins.num, ins.total, Flags(ins)>>
    [] ins.i \in {"snat", "dnat", "masq", "redir"} -> Flags(ins) \cap PortFlags
    [] ins.i = "dynset" ->
         LET key == sets[ins.set].key
             stmts == IF "expr" \in DOMAIN ins THEN <<ins.expr>> ELSE IF "exprs" \in DOMAIN ins THEN ins.exprs ELSE <<>>
         IN <<ins.op, ins.set, Attr(ins, "timeout"),
              [k \in DOMAIN stmts |-> StatefulDetail(stmts[k].i, stmts[k].a)],
              Import(Load(m, ins.key, Bytes(key.len)), key.bo, Bytes(key.len))>>
    [] ins.i = "objref" -> <<ins.type, Import(ins.name.m, "host", ins.name.n)>>
    [] ins.i \in {"notrack", "flow_offload", "synproxy"} -> ins.a
    [] OTHER -> {}

Step(m, sets, ins) ==
  LET done == Effect(m, <<ins.i, Numbers(m, ins), Detail(m, sets, ins)>>)
  IN CASE ~m.on -> m
       [] ins.i = "immediate" -> IF "verdict" \in DOMAIN ins THEN Verdict(m, ins.verdict, ins.chain)
                                 ELSE Store(m, ins.dreg, ins.data.m, ins.data.n)
       [] ins.i = "cmp" -> Match(m, Compare(ins.op, Load(m, ins.sreg, ins.data.n), ins.data.m, ins.data.n))
       [] ins.i = "range" ->
            Match(m, (/\ Compare("gte", Load(m, ins.sreg, ins.from.n), ins.from.m, ins.from.n)
                      /\ Compare("lte", Load(m, ins.sreg, ins.to.n), ins.to.m, ins.to.n)) = (ins.op = "eq"))
       [] ins.i = "lookup" -> EvalLookup(m, sets, ins)
       [] ins.i = "bitwise" -> EvalBitwise(m, ins)
       [] ins.i = "byteorder" -> EvalByteorder(m, ins)
       [] ins.i = "payload" -> EvalPayload(m, ins)
       [] ins.i = "meta" -> EvalKey(m, ins, m.pkt.meta, MetaTemplates[ins.key])
       [] ins.i = "ct" -> EvalKey(m, ins, m.pkt.ct, CtKey(m.pkt, ins.key))
       [] ins.i \in Sources \cup {"hash"} -> EvalSource(m, ins)
       [] ins.i = "exthdr" -> EvalExthdr(m, ins)
       [] ins.i \in Terminal -> Break(done)
       [] OTHER -> done

\* What the program does to the packet.
Run(code, sets, pkt) ==
  LET m == FoldLeft(LAMBDA s, ins : Step(s, sets, ins), [regs |-> {}, on |-> TRUE, pkt |-> pkt, eff |-> <<>>], code)
  IN [eff |-> m.eff, hdr |-> m.pkt.hdr]
=============================================================================
