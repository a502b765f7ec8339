---------------------------- MODULE Postprocess ----------------------------
(***************************************************************************)
(* The second pass of src/netlink_delinearize.c: the statements read from  *)
(* the instructions get their types, bytes become header fields again, the *)
(* masks of odd sized fields disappear, and the matches that a later one   *)
(* implies are dropped from the listing.                                   *)
(*                                                                         *)
(* ctx: pctx the protocol context; dep the dependencies (see Payload);     *)
(* stmts the statements done, NoStmt where one was dropped; gone: the      *)
(* current statement was replaced by others; set: the set whose keys are   *)
(* processed; remove: RULE_PP_REMOVE_OP_AND; bug: an assertion failed.     *)
(* A step that also changes its expression returns both as [c, e].         *)
(* The xtables, inner header and meta hour cases are left out.             *)
(***************************************************************************)
EXTENDS Delinearize

payload_dependency_release(c, base) ==
  LET b == DependencyAt(c.dep, base)
      i == c.dep.pdeps[b]
  IN IF b = "none" THEN c
     ELSE [c EXCEPT !.stmts[i] = NoStmt, !.dep.pdeps[b] = 0,
                    !.dep.prev = IF @ = i THEN 0 ELSE @]

payload_dependency_get(c, base) == c.stmts[c.dep.pdeps[DependencyAt(c.dep, base)]].e

payload_dependency_kill(c, e) ==
  IF /\ e.desc # "unknown"
     /\ payload_dependency_exists(c.dep, e.base)
     /\ payload_may_dependency_kill(c.dep, c.pctx.family, payload_dependency_get(c, e.base), e)
  THEN payload_dependency_release(c, e.base) ELSE c

exthdr_dependency_kill(c, e) ==
  payload_dependency_release(c, IF e.op = "tcpopt" THEN "transport" ELSE "network")

\* A match that names another header of the same layer.
payload_is_stacked(d, rel) ==
  /\ rel.left.t = "payload" /\ rel.left.proto /\ rel.op = "eq"
  /\ proto_find_upper(d, rel.right.v) # "none"
  /\ Proto[proto_find_upper(d, rel.right.v)].base = Proto[d].base

PrevBase(b) == CASE b = "ll" -> "none" [] b = "network" -> "ll" [] b = "transport" -> "network"

(***************************************************************************)
(* Matches on the payload.                                                 *)
(***************************************************************************)
\* One field of a merged load, as a statement of its own.  A field cut short
\* is matched by a prefix.
ExpandOne(acc, op, left) ==
  LET cut == expr_set_type(Slice(acc.rest, left.len), left.dt, left.bo)
      full == Template(left.desc, left.field).len
      right == IF left.len < full
               THEN prefix_expr_alloc([cut EXCEPT !.v = Lshift(@, full - left.len), !.len = full], left.len)
               ELSE cut
      rel == relational_expr_alloc(op, left, right)
      p == IF op = "eq" THEN relational_expr_pctx_update(acc.c.pctx, rel) ELSE acc.c.pctx
      base == IF payload_is_stacked(p.desc[acc.base], rel) THEN PrevBase(acc.base) ELSE acc.base
      c1 == [Expect(acc.c, acc.base = left.base) EXCEPT
               !.pctx = p, !.stmts = Append(@, ExprStmt(rel))]
      c2 == payload_dependency_kill(c1, left)
  IN [c |-> IF op = "eq" /\ left.proto
            THEN [c2 EXCEPT !.dep = payload_dependency_store(@, rel, Len(c1.stmts), base)] ELSE c2,
      rest |-> [acc.rest EXCEPT !.len = @ - left.len], base |-> base]

payload_match_expand(c, op, payload, right) ==
  [FoldLeft(LAMBDA acc, left : ExpandOne(acc, op, left),
            [c |-> c, rest |-> right, base |-> payload.base],
            payload_expr_expand(payload, c.pctx)).c EXCEPT !.gone = TRUE]

\* The type of an ICMP message matched against a set.
payload_icmp_check(c, e, value) ==
  LET d == c.pctx.desc[e.base]
      fits == SelectSeq(Proto[d].fields, LAMBDA f : f.off = e.off /\ f.len = e.len)
  IN IF /\ e.base = "transport" /\ e.len = 8 /\ value.len = 8 /\ c.pctx.icmp = {}
        /\ d \in {"icmp", "icmpv6"} /\ fits # <<>> /\ fits[1] = Proto[d].key
     THEN R([c EXCEPT !.pctx.icmp = value.v], [e EXCEPT !.desc = d, !.field = fits[1].name])
     ELSE R(c, e)

FirstKey(right) ==
  IF right.t = "setref" /\ "anonymous" \in right.set.flags /\ right.set.init # <<>>
  THEN right.set.init[1].key ELSE Null

payload_match_postprocess(c, op, payload, right) ==
  LET first == FirstKey(right)
      r == IF op \in {"eq", "neq"} /\ first.t = "value" THEN payload_icmp_check(c, payload, first)
           ELSE R(c, payload)
      e == payload_expr_complete(r.e, r.c.pctx)
  IN IF op \in {"eq", "neq"} /\ right.t = "value"
     THEN Pair(payload_match_expand(c, op, payload, right), payload, right)
     ELSE Pair(payload_dependency_kill(r.c, e), e, expr_set_type(right, e.dt, e.bo))

(***************************************************************************)
(* Matches on meta data and connections.                                   *)
(***************************************************************************)
ether_type_to_nfproto(v) ==
  CASE v = Num(2048) -> 2 [] v = Num(34525) -> 10 [] OTHER -> 0

\* The network protocol that a dependency asks for, -1 if it asks for none.
DepNfproto(dep) ==
  CASE dep.left.t = "meta" /\ dep.left.key = "nfproto" -> NumOf(dep.right.v)
    [] dep.left.t = "meta" /\ dep.left.key = "protocol" -> ether_type_to_nfproto(dep.right.v)
    [] dep.left.t = "payload" /\ dep.left.base = "ll" /\ dep.left.dt = "ether_type" ->
         ether_type_to_nfproto(dep.right.v)
    [] OTHER -> -1

meta_may_dependency_kill(c, rel) ==
  LET nfproto == DepNfproto(payload_dependency_get(c, "network"))
      l4 == rel.right.v
  IN CASE ~payload_dependency_exists(c.dep, "network") -> TRUE
       [] nfproto = -1 -> TRUE
       [] c.pctx.family \in {"ip", "ip6"} -> NFPROTO[c.pctx.family] = nfproto
       [] c.pctx.family \notin {"inet", "netdev", "bridge"} -> TRUE
       [] ~(rel.left.t = "meta" /\ rel.left.key = "l4proto") -> TRUE
       [] OTHER -> /\ l4 \in {Num(1), Num(58)}
                   /\ ~(nfproto = 2 /\ l4 = Num(58)) /\ ~(nfproto = 10 /\ l4 = Num(1))

\* ct_match_postprocess() and meta_match_postprocess().
ct_meta_common_postprocess(c, rel) ==
  LET base == KeyBase(rel.left)
      typed == IF rel.right.t \in {"set", "setref"}
               THEN [rel EXCEPT !.right = expr_set_type(@, rel.left.dt, rel.left.bo)] ELSE rel
      c1 == [c EXCEPT !.pctx = relational_expr_pctx_update(@, rel)]
      c2 == IF payload_dependency_exists(c1.dep, base) /\ meta_may_dependency_kill(c1, rel)
            THEN payload_dependency_release(c1, base) ELSE c1
  IN R(CASE rel.op # "eq" \/ rel.right.t \in {"range", "set", "setref"} -> c
         [] base = "transport" -> c1
         [] IsProtocol(rel.left) ->
              [c2 EXCEPT !.dep = payload_dependency_store(@, rel, Len(c2.stmts) + 1, base)]
         [] OTHER -> c2,
       typed)

(***************************************************************************)
(* Masks.                                                                  *)
(***************************************************************************)
expr_mask_to_prefix(v) == IF v = {} THEN 0 ELSE Scan0(v, Scan1(v, 0) + 1) - Scan1(v, 0)

expr_mask_is_prefix(e) == e.v = {} \/ Scan0(e.v, Scan1(e.v, 0) + 1) >= e.len

RECURSIVE OrTerms(_)
OrTerms(e) == IF e.t = "binop" /\ e.op = "or" THEN OrTerms(e.left) \o OrTerms(e.right) ELSE <<e>>

binop_tree_to_list(e) ==
  IF Len(OrTerms(e)) = 1 THEN e ELSE compound_expr_alloc("list", OrTerms(e))

binop_adjust_one(left, value, shift) == [value EXCEPT !.v = Rshift(@, shift), !.len = left.len]

\* A constant, a range or the keys of an anonymous set, shifted.
RECURSIVE binop_adjust(_, _, _)
binop_adjust(left, e, shift) ==
  CASE e.t = "value" -> binop_adjust_one(left, e, shift)
    [] e.t = "range" -> [e EXCEPT !.left = binop_adjust_one(left, @, shift),
                                  !.right = binop_adjust_one(left, @, shift)]
    [] e.t = "elem" -> [e EXCEPT !.key = binop_adjust(left, @, shift)]
    [] e.t = "setref" /\ "anonymous" \in e.set.flags ->
         [e EXCEPT !.set.init = [k \in DOMAIN @ |-> binop_adjust(left, @[k], shift)]]
    [] OTHER -> e

\* The assertion of binop_adjust_one() and the BUG()s of binop_adjust().
RECURSIVE Adjustable(_, _)
Adjustable(mask, e) ==
  CASE e.t = "value" -> e.len >= mask.len
    [] e.t = "range" -> Adjustable(mask, e.left) /\ Adjustable(mask, e.right)
    [] e.t = "elem" -> Adjustable(mask, e.key)
    [] e.t = "setref" -> \/ "anonymous" \notin e.set.flags
                         \/ \A k \in DOMAIN e.set.init : Adjustable(mask, e.set.init[k])
    [] OTHER -> FALSE

\* The field that the mask cuts out of a load, and the shift of the values.
Masked(c, left, mask) ==
  LET x == exthdr_find_template(left, mask)
  IN CASE left.t = "payload" -> payload_expr_trim(left, mask, c.pctx)
       [] left.t = "exthdr" /\ mask.v # {} /\ x # Null -> [ok |-> TRUE, e |-> x, shift |-> Scan1(mask.v, 0)]
       [] OTHER -> NoTrim

\* The mask is implied by the field: it is removed, and what the field is
\* compared with is shifted.
__binop_postprocess(c, op, binop, right) ==
  LET m == Masked(c, binop.left, binop.right)
      adjusted == binop_adjust(m.e, right, m.shift)
      c1 == Expect(c, Adjustable(binop.right, right))
  IN CASE ~m.ok -> Pair(c, binop, right)
       [] m.e.t = "payload" -> payload_match_postprocess(c1, op, m.e, adjusted)
       [] OTHER -> Pair(c1, m.e, expr_set_type(adjusted, m.e.dt, m.e.bo))

map_binop_postprocess(c, e) ==
  LET b == e.map
      r == __binop_postprocess(c, "none", b, e.mappings)
  IN IF b.t = "binop" /\ b.op = "and" /\ b.left.t = "payload" /\ b.right.t = "value"
     THEN R(r.c, [e EXCEPT !.map = r.left, !.mappings = r.right]) ELSE R(c, e)

is_shift_by_zero(b) == b.op \in {"lshift", "rshift"} /\ b.right.t = "value" /\ b.right.v = {}

PrefixTypes == {"ipv4_addr", "ipv6_addr"}

relational_binop_postprocess(c, rel) ==
  LET b == rel.left
      r == __binop_postprocess(c, rel.op, b, rel.right)
      s == __binop_postprocess(c, b.op, b.left, b.right)
      shift == [b EXCEPT !.left = s.left, !.right = s.right]
  IN CASE b.op = "and" /\ rel.op \in {"eq", "neq"} /\ IsBitmask(rel.right)
            /\ rel.right.t = "value" /\ rel.right.v = {} ->
            R(c, [rel EXCEPT !.left = b.left, !.right = binop_tree_to_list(b.right),
                             !.op = IF rel.op = "neq" THEN "implicit" ELSE "neg"])
       [] b.op = "and" /\ b.left.dt \in PrefixTypes /\ rel.right.t = "value"
            /\ b.right.t = "value" /\ expr_mask_is_prefix(b.right) ->
            R(c, [rel EXCEPT !.left = b.left,
                             !.right = prefix_expr_alloc(@, expr_mask_to_prefix(b.right.v))])
       [] b.op = "and" /\ b.right.t = "value" ->
            R(r.c, [rel EXCEPT !.left = r.left, !.right = r.right])
       [] b.op = "rshift" /\ b.left.t = "binop" /\ b.left.op = "and"
            /\ b.right.t = "value" /\ b.left.right.t = "value" ->
            R(s.c, [rel EXCEPT !.left = IF is_shift_by_zero(shift) THEN shift.left ELSE shift])
       [] OTHER -> R(c, rel)

(***************************************************************************)
(* Constants.                                                              *)
(***************************************************************************)
\* A string that is not terminated is the start of a name: it gets a "*".  A
\* "*" that ends a name is escaped.
expr_postprocess_string(e) ==
  LET n == Bytes(e.len)
      last == LastChar(e.v)
  IN CASE last = n - 1 -> [e EXCEPT !.v = Or(@, Lshift(Star, 8 * n)), !.len = @ + 8]
       [] last >= 0 /\ Char(e.v, last) = Star ->
            [e EXCEPT !.v = Or({i \in @ : i < 8 * last},
                               Or(Lshift(Backslash, 8 * last), Lshift(Star, 8 * last + 8))),
                      !.len = 8 * (last + 3)]
       [] OTHER -> e

expr_postprocess_value(c, e) ==
  LET interval == c.set # Null /\ "interval" \in c.set.flags
      e1 == IF e.bo = "host" /\ ~interval
            THEN [e EXCEPT !.v = SwitchByteorder(@, e.len \div 8)] ELSE e
      e2 == IF expr_basetype(e.dt) = "string" THEN expr_postprocess_string(e1) ELSE e1
  IN IF IsBitmask(e2) THEN bitmask_expr_to_binops(e2) ELSE e2

RECURSIVE expr_postprocess(_, _)

\* Apply to two fields of a record, or to each member of a sequence, in turn.
PP2(c, e, f, g) ==
  LET r == expr_postprocess(c, e[f])
      s == expr_postprocess(r.c, e[g])
  IN R(s.c, [e EXCEPT ![f] = r.e, ![g] = s.e])

PP1(c, e, f) == LET r == expr_postprocess(c, e[f]) IN R(r.c, [e EXCEPT ![f] = r.e])

PPSeq(c, s) ==
  FoldLeft(LAMBDA acc, e : LET r == expr_postprocess(acc.c, e) IN R(r.c, Append(acc.e, r.e)),
           R(c, <<>>), s)

\* The parts take the types of the key of the set they are looked up in.
expr_postprocess_concat(c, e, keys) ==
  LET typed == [k \in DOMAIN e.elems |->
                  IF keys = <<>> THEN e.elems[k]
                  ELSE expr_set_type(e.elems[k], keys[k].dt, DataTypes[keys[k].dt].bo)]
      r == PPSeq([c EXCEPT !.remove = TRUE], typed)
  IN R([r.c EXCEPT !.remove = FALSE], [e EXCEPT !.elems = r.e, !.dt = "concat"])

\* A right shift of an odd sized field is the field itself.
ShiftedField(e) ==
  LET l == IF e.left.t = "unary" THEN e.left.arg ELSE e.left
  IN IF e.op = "rshift" /\ l.t = "binop" /\ l.op = "and" /\ l.left.t = "payload" THEN l ELSE Null

payload_binop_postprocess(c, e, l) ==
  LET r == expr_postprocess(c, expr_set_type(e.right, "integer", "host"))
      s == __binop_postprocess(r.c, e.op, l, r.e)
  IN R(s.c, s.left)

Shifts == {"lshift", "rshift"}

\* The constant has the type of the other operand; one that is wider is in
\* host byte order.
expr_postprocess_binop(c, e0) ==
  LET e == IF e0.op = "rshift" /\ e0.left.t = "unary" THEN [e0 EXCEPT !.left = @.arg] ELSE e0
      l == expr_postprocess(c, e.left)
      right == IF e.op \in Shifts THEN expr_set_type(e.right, "integer", "host")
               ELSE expr_set_type(e.right, l.e.dt, IF e.right.len > l.e.len THEN "host" ELSE l.e.bo)
      m == __binop_postprocess(l.c, e.op, [e EXCEPT !.left = l.e, !.right = right], right)
      r == expr_postprocess(l.c, right)
      done == [e EXCEPT !.left = l.e, !.right = r.e]
  IN CASE ShiftedField(e0) # Null -> payload_binop_postprocess(c, e, ShiftedField(e0))
       [] e.op = "and" /\ c.remove /\ l.e.t = "payload" /\ right.t = "value" -> R(m.c, m.left)
       [] e.op \in Shifts -> R(r.c, expr_set_type(done, "integer", "host"))
       [] OTHER -> R(r.c, expr_set_type(done, l.e.dt, l.e.bo))

\* A negated byte order: !BYTEORDER_INVALID is host, anything else invalid.
NotOrder(bo) == IF bo = "invalid" THEN "host" ELSE "invalid"

KeyTypes(set) == IF set.key.t = "concat" THEN set.key.elems ELSE <<>>

expr_postprocess_relational(c, e) ==
  LET toset == e.right.t = "setref"
      cc == [c EXCEPT !.set = IF toset THEN e.right.set ELSE Null]
      l == IF e.left.t = "concat"
           THEN LET r == expr_postprocess_concat(cc, e.left, IF toset THEN KeyTypes(e.right.set) ELSE <<>>)
                IN R([r.c EXCEPT !.set = Null], r.e)
           ELSE expr_postprocess(c, e.left)
      r == expr_postprocess(l.c, expr_set_type(e.right, l.e.dt, l.e.bo))
      rel == [e EXCEPT !.left = l.e, !.right = r.e]
      p == payload_match_postprocess(c, e.op, e.left, e.right)
  IN CASE e.left.t = "payload" -> R(p.c, [e EXCEPT !.left = p.left, !.right = p.right])
       [] l.e.t \in {"ct", "meta"} -> ct_meta_common_postprocess(r.c, rel)
       [] l.e.t = "binop" -> relational_binop_postprocess(r.c, rel)
       [] OTHER -> R(r.c, rel)

expr_postprocess(c, e) ==
  CASE e.t = "map" -> (LET m == map_binop_postprocess(c, e) IN PP2(m.c, m.e, "map", "mappings"))
    [] e.t = "set" -> (LET s == PPSeq(c, e.elems) IN R(s.c, [e EXCEPT !.elems = s.e]))
    [] e.t = "concat" -> expr_postprocess_concat(c, e, <<>>)
    [] e.t = "unary" ->
         (LET r == expr_postprocess(c, e.arg)
          IN R(r.c, expr_set_type([e EXCEPT !.arg = r.e], r.e.dt, NotOrder(r.e.bo))))
    [] e.t = "binop" -> expr_postprocess_binop(c, e)
    [] e.t = "rel" -> expr_postprocess_relational(c, e)
    [] e.t = "payload" ->
         (LET p == payload_expr_complete(e, c.pctx) IN R(payload_dependency_kill(c, p), p))
    [] e.t = "value" -> R(c, expr_postprocess_value(c, e))
    [] e.t = "range" -> PP2(c, e, "left", "right")
    [] e.t = "prefix" -> PP1(c, e, "prefix")
    [] e.t = "elem" ->
         (LET r == PP1([c EXCEPT !.remove = TRUE], e, "key") IN R([r.c EXCEPT !.remove = FALSE], r.e))
    [] e.t = "exthdr" -> R(exthdr_dependency_kill(c, e), e)
    [] e.t = "hash" -> IF e.arg = Null THEN R(c, e) ELSE PP1(c, e, "arg")
    [] e.t = "ct" -> R(c, ct_expr_update_type(c.pctx, e))
    [] e.t \in {"setref", "meta", "verdict"} \cup Sources -> R(c, e)
    [] OTHER -> R(Expect(c, FALSE), e)

(***************************************************************************)
(* Statements.                                                             *)
(***************************************************************************)
PutStmt(c, s) == [c EXCEPT !.stmts = Append(@, s)]

\* Reject: the family the message is for; a dependency that the reject implies
\* is dropped.
stmt_reject_postprocess(c, s) ==
  LET p == c.pctx
      num == proto_find_num(p.desc["ll"], p.desc["network"])
      family == CASE num \in {2, 2048} -> "ip" [] num \in {10, 34525} -> "ip6" [] OTHER -> "none"
  IN CASE p.family \in {"ip", "ip6"} ->
            PutStmt(IF s.type = "tcp_rst" THEN payload_dependency_release(c, "transport") ELSE c,
                    [s EXCEPT !.family = p.family])
       [] p.family \in {"inet", "bridge", "netdev"} /\ s.type # "icmpx_unreach" ->
            PutStmt(payload_dependency_release(c, "network"), [s EXCEPT !.family = family])
       [] OTHER -> PutStmt(c, s)

Unwrapped(e) == IF e.t = "unary" THEN e.arg ELSE e

\* Two matches in a row that bound the same kind of expression are a range.
expr_may_merge_range(e, prev) ==
  IF e.t = "rel" /\ prev.t = "rel" /\ Unwrapped(e.left).t = Unwrapped(prev.left).t
  THEN IF e.op = "lte" /\ prev.op = "gte" THEN "eq"
       ELSE IF e.op = "gt" /\ prev.op = "lt" THEN "neq" ELSE "none"
  ELSE "none"

expr_postprocess_range(c, e, prev, op) ==
  [c EXCEPT !.stmts = Append([@ EXCEPT ![c.dep.prev] = NoStmt],
     ExprStmt(relational_expr_alloc(op, e.left,
       expr_set_type(range_expr_alloc(prev.right, e.right), e.right.dt, e.right.bo))))]

stmt_expr_postprocess(c, s) ==
  LET r == expr_postprocess(c, s.e)
      prev == IF r.c.dep.prev = 0 THEN NoStmt ELSE r.c.stmts[r.c.dep.prev]
      op == IF prev.s = "expr" THEN expr_may_merge_range(r.e, prev.e) ELSE "none"
  IN CASE r.c.gone -> r.c
       [] op # "none" -> expr_postprocess_range(r.c, r.e, prev.e, op)
       [] OTHER -> PutStmt(r.c, [s EXCEPT !.e = r.e])

\* Writing an odd sized field: the value is the bytes around it with the bits
\* of the field cleared (I), and left clear (IIa) or all set (IIb).
stmt_payload_binop_postprocess(c, s) ==
  LET v == s.val
      and == v.left
      wanted == [and.right EXCEPT !.v = Xor(Xor(Bitmask(and.left.len), @), v.right.v)]
      one == __binop_postprocess(c, v.op, [and EXCEPT !.right = wanted], v.right)
      mask == IF v.op = "and" THEN [v.right EXCEPT !.v = Xor(Bitmask(v.left.len), @)] ELSE v.right
      t == payload_expr_trim(v.left, mask, c.pctx)
      field == IF t.ok THEN payload_expr_complete(t.e, c.pctx) ELSE v.left
      value == IF t.ok THEN expr_set_type(binop_adjust_one(t.e, mask, t.shift), field.dt, field.bo) ELSE mask
      put(cc, e, val) == [c |-> cc, s |-> [s EXCEPT !.e = e, !.val = val]]
      same == put(c, s.e, v)
  IN CASE v.t # "binop" -> same
       [] v.left.t = "binop" ->
            IF v.op = "or" /\ v.right.t = "value" /\ and.op = "and" /\ and.left.t = "payload"
                 /\ payload_expr_cmp(s.e, and.left) /\ and.right.t = "value"
            THEN IF one.left.t = "payload" /\ payload_is_known(one.left) THEN put(one.c, one.left, one.right)
                 ELSE IF one.left.t = "payload"
                 THEN put(one.c, s.e, [v EXCEPT !.left = one.left, !.right = one.right])
                 ELSE same
            ELSE same
       [] v.left.t = "payload" /\ v.right.t = "value" /\ v.op \in {"and", "or"} ->
            IF payload_is_known(field)
            THEN put(c, field, IF v.op = "and" THEN [value EXCEPT !.v = {}] ELSE value)
            ELSE put(c, s.e, [v EXCEPT !.left = field, !.right = value])
       [] OTHER -> same

stmt_payload_postprocess(c, s0) ==
  LET s1 == [s0 EXCEPT !.e = payload_expr_complete(@, c.pctx)]
      r == IF payload_is_known(s1.e) THEN [c |-> c, s |-> s1] ELSE stmt_payload_binop_postprocess(c, s1)
      e == expr_postprocess(r.c, r.s.e)
      v == expr_postprocess(e.c, expr_set_type(r.s.val, e.e.dt, e.e.bo))
  IN PutStmt(v.c, [r.s EXCEPT !.e = e.e, !.val = v.e])

\* The expressions of a statement, in the order they are processed.
StmtExprs(s) ==
  CASE s.s \in {"meter", "set"} -> <<"key">>
    [] s.s = "map" -> <<"key", "data">>
    [] s.s \in {"meta", "ct", "objref"} -> <<"e">>
    [] s.s = "nat" -> <<"addr", "proto">>
    [] s.s = "tproxy" -> <<"addr", "port">>
    [] s.s = "dup" -> <<"to", "dev">>
    [] s.s = "fwd" -> <<"dev", "addr">>
    [] s.s = "queue" -> IF s.q.t \in {"value", "range"} THEN <<>> ELSE <<"q">>
    [] OTHER -> <<>>

StmtField(c, s, f) ==
  LET cc == IF s.s = "tproxy" /\ f = "port" THEN [c EXCEPT !.dep = payload_dependency_reset] ELSE c
      r == expr_postprocess(cc, s[f])
  IN IF s[f] = Null THEN [c |-> c, s |-> s] ELSE [c |-> r.c, s |-> [s EXCEPT ![f] = r.e]]

StmtPostprocess(c, s) ==
  LET r == FoldLeft(LAMBDA acc, f : StmtField(acc.c, acc.s, f), [c |-> c, s |-> s], StmtExprs(s))
  IN CASE s.s = "expr" -> stmt_expr_postprocess(c, s)
       [] s.s = "payload" -> stmt_payload_postprocess(c, s)
       [] s.s = "reject" -> stmt_reject_postprocess(c, s)
       [] OTHER -> PutStmt(r.c, r.s)

\* A statement that is not a match may have a side effect: no match before it
\* may be dropped because of one after it.
rule_maybe_reset_payload_deps(c, s) ==
  IF s.s = "expr" THEN c ELSE [c EXCEPT !.dep = payload_dependency_reset]

rule_parse_postprocess(family, stmts) ==
  LET step(c, s) ==
        LET d == StmtPostprocess([c EXCEPT !.gone = FALSE], s)
        IN rule_maybe_reset_payload_deps([d EXCEPT !.dep.prev = IF d.gone THEN 0 ELSE Len(d.stmts)], s)
      c == FoldLeft(step, [pctx |-> proto_ctx_init(family), dep |-> payload_dependency_reset,
                           stmts |-> <<>>, gone |-> FALSE, set |-> Null, remove |-> FALSE,
                           bug |-> FALSE], stmts)
  IN [c EXCEPT !.stmts = SelectSeq(@, LAMBDA s : s # NoStmt)]

\* What the listing of a rule shows.
netlink_delinearize_rule(family, sets, code) ==
  LET p == netlink_parse_rule(family, sets, code)
      c == rule_parse_postprocess(family, p.stmts)
  IN [stmts |-> c.stmts, err |-> p.err, bug |-> c.bug]
=============================================================================
