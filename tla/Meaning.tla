------------------------------ MODULE Meaning ------------------------------
(***************************************************************************)
(* What a rule means, as the manual (doc/) explains it to its author: a    *)
(* match compares a field of the packet as a number, whatever the bytes    *)
(* and registers it travels in, and fails if the packet has no such field. *)
(* This is the reference that the programs nft generates are compared      *)
(* with; it is defined on the rule as it is written, before evaluation.    *)
(*                                                                         *)
(* A packet is that of module Vm, with the sets of the table (named).  The *)
(* value of an expression is a set with one number, or with one sequence   *)
(* of numbers for a concatenation; it is empty if there is no such field.  *)
(***************************************************************************)
EXTENDS EvalStmt, Vm

\* The number in a field of a header.
FieldOf(hdr, off, len) == {len - 1 - i : i \in From(hdr, off, len)}

NumberAt(p, d, field) ==
  LET f == Template(d, field) IN FieldOf(p.hdr[Proto[d].base], f.off, f.len)

VlanTag == Num(33024)

\* The messages that have a field of ICMP.
IcmpKinds(e) ==
  CASE e.desc = "icmp" /\ e.field \in {"id", "sequence"} -> {0, 8}
    [] e.desc = "icmp" /\ e.field = "mtu" -> {3}
    [] e.desc = "icmp" /\ e.field = "gateway" -> {5}
    [] e.desc = "icmpv6" /\ e.field \in {"id", "sequence"} -> {128, 129}
    [] e.desc = "icmpv6" /\ e.field = "mtu" -> {2}
    [] OTHER -> 0..255

HasField(p, e) ==
  CASE e.desc = "vlan" -> p.desc["ll"] = "ether" /\ NumberAt(p, "ether", "type") = VlanTag
    [] e.desc \in {"th", "unknown"} -> p.desc[e.base] # "none"
    [] e.desc \in {"icmp", "icmpv6"} ->
         p.desc[e.base] = e.desc /\ \E n \in IcmpKinds(e) : NumberAt(p, e.desc, "type") = Num(n)
    [] OTHER -> p.desc[e.base] = e.desc

Apply(op, a, b) ==
  CASE op = "and" -> And(a, b) [] op = "or" -> Or(a, b) [] op = "xor" -> Xor(a, b)
    [] op = "lshift" -> Lshift(a, NumOf(b)) [] op = "rshift" -> Rshift(a, NumOf(b))

\* Is number v one of those that expression e of type dt denotes?
Denotes(dt, e, v) ==
  LET last == LastChar(e.v)
      wild == expr_basetype(dt) = "string" /\ last > 0 /\ Char(e.v, last) = Star
      keep == DataTypes[dt].size - e.plen
  IN CASE e.t \in {"symbol", "value"} -> IF wild THEN v \cap Bitmask(8 * last) = e.v \cap Bitmask(8 * last) ELSE v = e.v
       [] e.t = "range" -> LessEq(e.left.v, v) /\ LessEq(v, e.right.v)
       [] e.t = "prefix" -> Rshift(v, keep) = Rshift(e.prefix.v, keep)
       [] e.t = "binop" -> v = Or(e.left.v, e.right.v)

RECURSIVE OperandType(_)
OperandType(e) == IF e.t = "binop" THEN OperandType(e.left) ELSE e.dt

\* The same for a key, which may be a concatenation.
KeyDenotes(left, key, v) ==
  IF key.t = "concat"
  THEN \A k \in DOMAIN key.elems : Denotes(OperandType(left.elems[k]), key.elems[k], v[k])
  ELSE Denotes(OperandType(left), key, v)

\* The elements of a set: written in the rule, or of the table's set.
ElemsOf(p, e) ==
  IF e.t = "symset" THEN p.named[e.name].init
  ELSE [k \in DOMAIN e.elems |-> IF e.elems[k].t = "elem" THEN e.elems[k] ELSE set_elem_expr_alloc(e.elems[k], Null)]

\* The elements that v belongs to; "*" only if none of the others.
Hits(left, elems, v) ==
  LET hit == {k \in DOMAIN elems : elems[k].key.t # "catchall" /\ KeyDenotes(left, elems[k].key, v)}
  IN IF hit # {} THEN hit ELSE {k \in DOMAIN elems : elems[k].key.t = "catchall"}

RECURSIVE Value(_, _)

\* What a map has for the packet.
Mapped(p, e) ==
  LET elems == ElemsOf(p, e.mappings)
  IN UNION {{elems[k].data : k \in Hits(e.map, elems, v)} : v \in Value(p, e.map)}

Value(p, e) ==
  CASE e.t = "payload" ->
         LET at == IF e.desc = "vlan" THEN e.off + HdrLength("ether") ELSE e.off
         IN IF HasField(p, e) THEN {FieldOf(p.hdr[e.base], at, e.len)} ELSE {}
    [] e.t = "exthdr" ->
         LET at == <<e.op, e.type>>
         IN CASE e.present -> {IF at \in DOMAIN p.ext THEN {0} ELSE {}}
              [] at \in DOMAIN p.ext -> {FieldOf(p.ext[at], e.off, e.len)}
              [] OTHER -> {}
    [] e.t = "meta" -> {p.meta[k] : k \in {e.key} \cap DOMAIN p.meta}
    [] e.t = "ct" -> {p.ct[k] : k \in {e.key} \cap DOMAIN p.ct}
    [] e.t \in {"symbol", "value"} -> {e.v}
    [] e.t = "binop" -> {Apply(e.op, a, b) : a \in Value(p, e.left), b \in Value(p, e.right)}
    [] e.t = "concat" ->
         FoldLeft(LAMBDA acc, x : {Append(s, a) : s \in acc, a \in Value(p, x)}, {<<>>}, e.elems)
    [] e.t = "map" -> UNION {Value(p, d) : d \in Mapped(p, e)}
    [] e.t \in Sources -> IF e.t \in DOMAIN p.src THEN {SourceNumber(p, e.t, e.a)} ELSE {}
    [] e.t = "hash" -> IF e.arg # Null /\ Value(p, e.arg) = {} THEN {} ELSE {SourceNumber(p, "hash", e.a)}

IsFlags(e) == DataTypes[OperandType(e)].base = "bitmask"

FlagsOf(e) == IF e.t = "list" THEN UNION {e.elems[k].v : k \in DOMAIN e.elems} ELSE e.v

RelMatches(p, rel) ==
  LET r == rel.right
      flags == IsFlags(rel.left) /\ rel.left.t # "binop" /\ r.t \in {"symbol", "list"}
      one(v) == CASE rel.op = "lt" -> Less(v, r.v) [] rel.op = "lte" -> LessEq(v, r.v)
                  [] rel.op = "gt" -> Less(r.v, v) [] rel.op = "gte" -> LessEq(r.v, v)
                  [] r.t \in {"set", "symset"} -> (Hits(rel.left, ElemsOf(p, r), v) # {}) = (rel.op # "neq")
                  [] flags /\ rel.op = "implicit" -> v \cap FlagsOf(r) # {}
                  [] rel.op = "neg" -> v \cap FlagsOf(r) = {}
                  [] OTHER -> KeyDenotes(rel.left, r, v) = (rel.op # "neq")
  IN \E v \in Value(p, rel.left) : one(v)

(***************************************************************************)
(* Statements.  s is the state of the rule: on, the packet, what it did.   *)
(***************************************************************************)
\* The operands of an action: their names, the numbers each may have.
RECURSIVE LowHigh(_, _, _, _)
LowHigh(p, e, lo, hi) ==
  CASE e = Null -> <<>>
    [] e.t = "range" -> [a \in {lo, hi} |-> IF a = lo THEN {e.left.v} ELSE {e.right.v}]
    [] e.t = "prefix" -> LET host == Bitmask(32 - e.plen)   \* IPv4
                         IN [a \in {lo, hi} |-> {IF a = lo THEN e.prefix.v \ host ELSE e.prefix.v \cup host}]
    [] e.t = "concat" -> LowHigh(p, e.elems[1], "amin", "amax") @@ LowHigh(p, e.elems[2], "pmin", "pmax")
    [] e.t = "map" -> LET ds == Mapped(p, e)
                      IN IF ds = {} THEN lo :> {} ELSE LowHigh(p, CHOOSE d \in ds : TRUE, lo, hi)
    [] OTHER -> lo :> Value(p, e)

OperandsOf(p, s) ==
  CASE s.s = "nat" -> LowHigh(p, s.addr, "amin", "amax") @@ LowHigh(p, s.proto, "pmin", "pmax")
    [] s.s = "tproxy" -> LowHigh(p, s.addr, "addr", "addr") @@ LowHigh(p, s.port, "port", "port")
    [] s.s = "dup" -> IF s.to # Null /\ s.dev # Null THEN LowHigh(p, s.to, "addr", "addr") ELSE <<>>
    [] s.s = "fwd" -> LowHigh(p, s.addr, "addr", "addr")
    [] OTHER -> <<>>

\* What the action says.  Port unreachable unless a code was given.
PortUnreachable(p) == RejectDetail(p, "icmp_unreach", IF p.desc["network"] = "ip" THEN 3 ELSE 4)

QueueCount(q) == IF q.t = "range" THEN NumOf(q.right.v) - NumOf(q.left.v) + 1 ELSE 1

Said(p, s) ==
  CASE s.s \in Stateful -> StatefulDetail(s.s, s.a)
    [] s.s = "log" -> LogDetail(s.a)
    [] s.s = "reject" -> IF s.code >= 0 THEN RejectDetail(p, s.type, s.code)
                         ELSE PortUnreachable(p)
    [] s.s = "queue" -> IF s.q = Null THEN <<0, 1, s.flags>>
                        ELSE <<NumOf(IF s.q.t = "range" THEN s.q.left.v ELSE s.q.v), QueueCount(s.q), s.flags>>
    [] s.s = "nat" -> s.flags
    [] s.s \in {"set", "map"} ->
         <<s.op, s.set.name, s.timeout, [k \in DOMAIN s.stmts |-> StatefulDetail(s.stmts[k].s, s.stmts[k].a)],
           CHOOSE v \in Value(p, s.key.key) : TRUE>>
    [] s.s = "meter" -> <<IF s.timeout > 0 THEN "update" ELSE "add", s.name, s.timeout,
                          <<StatefulDetail(s.stmt.s, s.stmt.a)>>, CHOOSE v \in Value(p, s.key.key) : TRUE>>
    [] s.s = "objref" -> <<s.type, s.e.v>>
    [] s.s \in {"notrack", "flow_offload", "synproxy"} -> s.a
    [] OTHER -> {}

Act(m, p, s) ==
  LET ops == OperandsOf(p, s)
      name == IF s.s = "nat" THEN s.type ELSE IF s.s \in {"set", "map", "meter"} THEN "dynset" ELSE s.s
      read == IF s.s \in {"set", "map", "meter"} THEN Value(p, s.key.key) ELSE {{}}
  IN IF read = {} \/ \E a \in DOMAIN ops : ops[a] = {} THEN Break(m)
     ELSE LET done == Effect(m, <<name, [a \in DOMAIN ops |-> CHOOSE v \in ops[a] : TRUE], Said(p, s)>>)
          IN IF name \in Terminal THEN Break(done) ELSE done

Judge(m, p, e) ==
  LET vs == IF e.t = "map" THEN Mapped(p, e) ELSE {e}
  IN IF vs = {} THEN Break(m) ELSE LET v == CHOOSE v \in vs : TRUE IN Verdict(m, v.code, v.chain)

Write(m, p, s) ==
  LET range == s.e.off..(s.e.off + s.e.len - 1)
      put(v) == At(Export(v, "big", Bytes(s.e.len)), s.e.off - (8 * Bytes(s.e.len) - s.e.len)) 
  IN IF ~HasField(p, s.e) \/ Value(p, s.val) = {} THEN Break(m)
     ELSE [m EXCEPT !.pkt.hdr[s.e.base] = (@ \ range) \cup put(CHOOSE v \in Value(p, s.val) : TRUE)]

Assign(m, p, s) ==
  LET width == IF s.s = "meta" THEN MetaTemplates[s.key][2] ELSE CtTemplates[s.key][2]
  IN IF Value(p, s.e) = {} THEN Break(m)
     ELSE Effect(m, <<s.s, s.key, (CHOOSE v \in Value(p, s.e) : TRUE) \cap Bitmask(width)>>)

\* A TCP reset answers TCP only, an ICMP message packets of its family only.
Answerable(p, s) ==
  /\ s.type = "tcp_rst" => p.desc["transport"] = "tcp"
  /\ s.type = "icmp_unreach" /\ s.code >= 0 => p.desc["network"] = s.family

StmtMeaning(m, s) ==
  LET p == m.pkt
  IN CASE ~m.on -> m
       [] s.s = "expr" -> Match(m, RelMatches(p, s.e))
       [] s.s = "verdict" -> Judge(m, p, s.e)
       [] s.s \in {"meta", "ct"} -> Assign(m, p, s)
       [] s.s = "payload" -> Write(m, p, s)
       [] s.s \in {"exthdr", "optstrip"} -> Effect(m, <<"exthdr", <<s.e.op, s.e.type>>>>)
       [] s.s = "reject" -> IF Answerable(p, s) THEN Act(m, p, s) ELSE Break(m)
       [] OTHER -> Act(m, p, s)

RuleMeaning(stmts, p) ==
  LET m == FoldLeft(StmtMeaning, [on |-> TRUE, pkt |-> p, eff |-> <<>>], stmts)
  IN [eff |-> m.eff, hdr |-> m.pkt.hdr]
=============================================================================
