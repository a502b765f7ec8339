------------------------------- MODULE Payload -------------------------------
(***************************************************************************)
(* Header fields of the packet (src/payload.c) and what matching on one    *)
(* says about the packet: the update of the protocol context by payload,   *)
(* meta and ct matches (src/payload.c, src/meta.c, src/ct.c), the fields   *)
(* that a raw load of bytes may stand for, and the dependencies, matches   *)
(* on the next header that later matches make redundant in a listing.      *)
(*                                                                         *)
(* A payload expression has a base, an offset in bits, the header and the  *)
(* field if they are known, and whether the field names the next header.   *)
(***************************************************************************)
EXTENDS Exthdr

\* A step that changes its context and an expression returns both.
R(c, e) == [c |-> c, e |-> e]

\* The same for two operands, of a match, of a binop or of a map.
Pair(c, left, right) == [c |-> c, left |-> left, right |-> right]

\* An assertion that failed aborts the program.
Expect(c, ok) == [c EXCEPT !.bug = @ \/ ~ok]

\* Whether the field names the next header.
proto_key_is_protocol(d, field) ==
  \/ Proto[d].key # NoTemplate /\ Proto[d].key.name = field
  \/ d = "ip6" /\ field = "nexthdr"
  \/ d = "ip" /\ field = "protocol"

PayloadField(d, field, base, f) ==
  E("payload", f.dt, "big", f.len)
    @@ [base |-> base, off |-> f.off, desc |-> d, field |-> field, proto |-> proto_key_is_protocol(d, field)]

payload_expr_alloc(d, field) == PayloadField(d, field, Proto[d].base, Template(d, field))

\* Bytes of no known header; ports are recognised in any transport header.
payload_init_raw(base, off, len) ==
  LET port == base = "transport" /\ len = 16 /\ off \in {0, 16}
  IN E("payload", IF port THEN "inet_service" ELSE "integer", "invalid", len)
       @@ [base |-> base, off |-> off, proto |-> FALSE,
           desc |-> IF port THEN "th" ELSE "unknown",
           field |-> IF ~port THEN "unknown" ELSE IF off = 0 THEN "sport" ELSE "dport"]

payload_is_known(e) == e.desc # "unknown" /\ e.field # "unknown"

\* Are two header fields the same?
payload_expr_cmp(a, b) ==
  a.desc = b.desc /\ a.field = b.field /\ a.base = b.base /\ a.off = b.off

(***************************************************************************)
(* What a match says about the packet.                                     *)
(***************************************************************************)
\* An ICMP echo reply counts as an echo; type 0 would mean "none seen".
ICMP_ECHO == 8
ICMP6_ECHO_REQUEST == 128
ICMP6_ECHO_REPLY == 129

IcmpSeen(d, v) ==
  CASE d = "icmp" -> IF v = {} THEN Num(ICMP_ECHO) ELSE v
    [] d = "icmpv6" -> IF v = Num(ICMP6_ECHO_REPLY) THEN Num(ICMP6_ECHO_REQUEST) ELSE v

payload_expr_pctx_update(ctx, left, right) ==
  LET base == ctx.desc[left.base]
      d == proto_find_upper(base, right.v)
  IN CASE d = "none" /\ base \in {"icmp", "icmpv6"} -> [ctx EXCEPT !.icmp = IcmpSeen(base, right.v)]
       [] d = "none" -> ctx
       [] OTHER ->
            proto_ctx_update(
              IF Proto[d].base = Proto[base].base /\ Proto[d].base = "ll" /\ Len(ctx.stacked) < 16
              THEN [ctx EXCEPT !.stacked = Append(@, base)] ELSE ctx,
              Proto[d].base, d)

NFPROTO == [inet |-> 1, ip |-> 2, arp |-> 3, netdev |-> 5, bridge |-> 7, ip6 |-> 10]

OrUnknown(d) == IF d = "none" THEN "unknown" ELSE d

\* Fault: "meta protocol ip" is taken for the protocol above the hook's own
\* layer in every family.
meta_expr_pctx_updateAnyHook(ctx, left, right) ==
  CASE left.key = "l4proto" ->
         proto_ctx_update(ctx, "transport", OrUnknown(proto_find_upper("inetservice", right.v)))
    [] left.key = "protocol" ->
         proto_ctx_update(ctx, "network", OrUnknown(proto_find_upper(Hook[ctx.family][2], right.v)))
    [] OTHER -> ctx

meta_expr_pctx_update(ctx, left, right) ==
  LET h == Hook[ctx.family]
      v == right.v
      up == proto_find_upper(h[2], v)
  IN CASE left.key = "iiftype" ->
            IF h[1] = "ll" /\ ctx.family \notin {"inet", "netdev"} THEN ctx
            ELSE proto_ctx_update(ctx, "ll", OrUnknown(proto_dev_desc(v)))
       [] left.key = "nfproto" ->
            IF h[2] \in {"ip", "ip6"} /\ v = Num(NFPROTO[h[2]]) THEN ctx
            ELSE proto_ctx_update(ctx, "network",
                   IF up = "none" /\ v = Num(NFPROTO[ctx.family]) /\ h[1] = "network"
                   THEN h[2] ELSE OrUnknown(up))
       [] left.key = "l4proto" ->
            proto_ctx_update(ctx, "transport", OrUnknown(proto_find_upper("inetservice", v)))
       [] left.key = "protocol" ->
            IF h[1] # "ll" \/ ctx.family \notin {"netdev", "bridge"} THEN ctx
            ELSE proto_ctx_update(ctx, "network", OrUnknown(up))
       [] OTHER -> ctx

\* The layer a meta or ct key belongs to.
KeyBase(e) ==
  CASE e.t = "payload" -> e.base
    [] e.t = "meta" -> (CASE e.key \in {"nfproto", "protocol"} -> "ll"
                          [] e.key = "l4proto" -> "network" [] OTHER -> "none")
    [] e.t = "ct" -> (CASE e.key \in {"saddr", "daddr", "protocol"} -> "network"
                        [] e.key \in {"protosrc", "protodst"} -> "transport"
                        [] e.key = "l3proto" -> "ll" [] OTHER -> "none")

\* EXPR_F_PROTOCOL: a match on it names a protocol.
IsProtocol(e) ==
  CASE e.t = "payload" -> e.proto
    [] e.t = "meta" -> e.key \in {"iiftype", "nfproto", "l4proto", "protocol"}
    [] e.t = "ct" -> e.key \in {"protocol", "l3proto"}
    [] OTHER -> FALSE

NextBase(b) ==
  CASE b = "none" -> "ll" [] b = "ll" -> "network" [] b = "network" -> "transport"
    [] b = "transport" -> "inner"

ct_expr_pctx_update(ctx, left, right) ==
  LET base == ctx.desc[KeyBase(left)]
      d == proto_find_upper(base, right.v)
  IN IF base = "none" \/ d = "none" THEN ctx ELSE proto_ctx_update(ctx, NextBase(KeyBase(left)), d)

\* The address of a connection has the type of the network layer.
ct_expr_update_type(ctx, e) ==
  LET d == ctx.desc["network"]
  IN CASE e.key \in {"saddr", "daddr"} ->
            (CASE d = "ip" -> [e EXCEPT !.dt = "ipv4_addr", !.len = 32, !.l3 = "ip"]
               [] d = "ip6" -> [e EXCEPT !.dt = "ipv6_addr", !.len = 128, !.l3 = "ip6"]
               [] OTHER -> [e EXCEPT !.len = DataTypes[e.dt].size])
       [] OTHER -> e

PctxUpdate(ctx, left, right) ==
  CASE left.t = "payload" -> payload_expr_pctx_update(ctx, left, right)
    [] left.t = "meta" -> meta_expr_pctx_update(ctx, left, right)
    [] OTHER -> ct_expr_pctx_update(ctx, left, right)

\* A match on a protocol, or on a set of them.
relational_expr_pctx_update(ctx, e) ==
  CASE ~IsProtocol(e.left) -> ctx
    [] IsSingleton(e.right) -> PctxUpdate(ctx, e.left, e.right)
    [] e.right.t = "set" ->
         FoldLeft(LAMBDA c, i : IF i.key.t = "value" THEN PctxUpdate(c, e.left, i.key) ELSE c,
                  ctx, e.right.elems)
    [] OTHER -> ctx

(***************************************************************************)
(* The ICMP messages that have a field.                                    *)
(***************************************************************************)
IcmpDep(d, field) ==
  CASE d = "icmp" /\ field \in {"id", "sequence"} -> "ECHO"
    [] d = "icmp" /\ field = "gateway" -> "ADDRESS"
    [] d = "icmp" /\ field = "mtu" -> "MTU"
    [] d = "icmpv6" /\ field \in {"id", "sequence"} -> "6ECHO"
    [] d = "icmpv6" /\ field = "parameter-problem" -> "6PPTR"
    [] d = "icmpv6" /\ field = "mtu" -> "6MTU"
    [] d = "icmpv6" /\ field = "max-delay" -> "6MGMQ"
    [] d = "icmpv6" /\ field = "taddr" -> "6ADDRESS"
    [] d = "icmpv6" /\ field = "daddr" -> "6REDIRECT"
    [] OTHER -> "ANY"

icmp_dep_to_type(t) ==
  CASE t = "ECHO" -> 8 [] t = "6ECHO" -> 128 [] t = "MTU" -> 3 [] t = "ADDRESS" -> 5
    [] t = "6MTU" -> 2 [] t = "6MGMQ" -> 130 [] t = "6PPTR" -> 4 [] t = "6REDIRECT" -> 137
    [] t = "6ADDRESS" -> 135

Icmp6AddrTypes == <<130, 131, 132, 135, 136, 137>>

icmp_dep_type_match(t, v) ==
  CASE t = "ANY" -> TRUE
    [] t = "ECHO" -> v \in {Num(0), Num(8)}
    [] t = "6ECHO" -> v \in {Num(128), Num(129)}
    [] t = "6ADDRESS" -> v \in {Num(n) : n \in Range(Icmp6AddrTypes)}
    [] OTHER -> v = Num(icmp_dep_to_type(t))

(***************************************************************************)
(* From bytes back to fields.                                              *)
(***************************************************************************)
\* get_stacked_desc(): the link layer header the offset lies in, and the bits
\* in front of it.
get_stacked_desc(ctx, top, e) ==
  IF e.base # "ll" \/ e.off < HdrLength(top) THEN [desc |-> top, skip |-> 0]
  ELSE LET r == FoldLeft(LAMBDA acc, d :
                  CASE acc.desc # "none" -> acc
                    [] e.off - acc.skip < HdrLength(d) -> [acc EXCEPT !.desc = d]
                    [] OTHER -> [acc EXCEPT !.skip = @ + HdrLength(d)],
                  [desc |-> "none", skip |-> 0], ctx.stacked)
       IN IF r.desc = "none" THEN [r EXCEPT !.desc = top] ELSE r

\* A field that the ICMP type seen so far rules out.
OtherIcmp(ctx, d, f) ==
  IcmpDep(d, f.name) # "ANY" /\ ctx.icmp # {} /\ ~icmp_dep_type_match(IcmpDep(d, f.name), ctx.icmp)

\* payload_expr_complete(): the field that a raw expression reads, if the
\* context tells.
payload_expr_complete(e, ctx) ==
  LET top == ctx.desc[e.base]
      st == get_stacked_desc(ctx, top, e)
      fits == SelectSeq(Proto[st.desc].fields,
                LAMBDA f : f.off = e.off - st.skip /\ f.len = e.len /\ ~OtherIcmp(ctx, st.desc, f))
  IN IF top \in {"none", "inet"} \/ fits = <<>> THEN e
     ELSE [e EXCEPT !.dt = fits[1].dt, !.bo = "big", !.desc = st.desc, !.field = fits[1].name]

\* payload_expr_trim(): the consecutive fields that a mask cuts out of the
\* bytes read.  The result: whether there are any, the narrowed expression and
\* the shift of the value compared with.
NoTrim == [ok |-> FALSE]

payload_expr_trim(e, mask, ctx) ==
  LET top == ctx.desc[e.base]
      st == get_stacked_desc(ctx, top, e)
      off == RoundUp(mask.len, 8) - mask_length(mask)
      lo == Scan1(mask.v, 0)
      step(acc, f) ==
        CASE acc.end \/ f.off # acc.off -> acc
          [] f.len >= acc.left -> [acc EXCEPT !.end = TRUE]
          [] OTHER -> LET len == acc.len + f.len
                      IN [off |-> acc.off + f.len, left |-> acc.left - f.len, len |-> len,
                          end |-> lo + len = mask_length(mask), ok |-> lo + len = mask_length(mask)]
      r == FoldLeft(step, [off |-> e.off - st.skip + off, left |-> e.len, len |-> 0,
                           end |-> FALSE, ok |-> FALSE], Proto[st.desc].fields)
  IN IF top = "none" \/ mask.v = {} \/ ~r.ok THEN NoTrim
     ELSE [ok |-> TRUE, e |-> [e EXCEPT !.off = @ + off, !.len = r.len], shift |-> lo]

\* payload_expr_expand(): the fields that adjacent bytes were merged from.
payload_expr_expand(e, ctx) ==
  LET top == ctx.desc[e.base]
      st == get_stacked_desc(ctx, top, e)
      step(acc, f) ==
        CASE acc.len = 0 \/ f.off # acc.off \/ OtherIcmp(ctx, st.desc, f) -> acc
          [] OTHER -> LET n == IF f.len <= acc.len THEN f.len ELSE acc.len
                      IN [list |-> Append(acc.list, [payload_expr_alloc(st.desc, f.name) EXCEPT !.len = n]),
                          off |-> acc.off + n, len |-> acc.len - n]
      r == FoldLeft(step, [list |-> <<>>, off |-> e.off - st.skip, len |-> e.len],
                    Proto[st.desc].fields)
  IN IF top \in {"none", "unknown"} THEN <<payload_init_raw(e.base, e.off, e.len)>>
     ELSE IF r.len = 0 THEN r.list
     ELSE Append(r.list, payload_init_raw(e.base, r.off, r.len))

\* payload_can_merge(): two adjacent loads of whole bytes fit one register,
\* and loading them together is not slower.
payload_can_merge(a, b) ==
  LET total == a.len + b.len
  IN /\ a.base = b.base /\ a.off + a.len = b.off
     /\ \A e \in {a, b} : e.off % 8 = 0 /\ e.len % 8 = 0
     /\ total <= 128
     /\ total <= 32 \/ a.base = "ll" \/ a.len > 32 \/ b.len > 32

payload_expr_join(a, b) ==
  [payload_init_raw(a.base, a.off, a.len + b.len) EXCEPT
     !.dt = "invalid", !.desc = "unknown", !.field = "unknown"]

(***************************************************************************)
(* Dependencies.  pdeps: for each layer the statement, by its index in the *)
(* list of statements, that named its protocol, 0 if none; icmp: the ICMP  *)
(* type matched; prev: the index of the previous statement.                *)
(***************************************************************************)
payload_dependency_reset ==
  [pdeps |-> [b \in {"none", "ll", "network", "transport", "inner"} |-> 0], icmp |-> 0, prev |-> 0]

NumOf(v) == SumSet({2 ^ i : i \in v})

\* payload_dependency_store_icmp_type(): an echo is never a dependency.
StoresIcmp(rel) ==
  rel.left.t = "payload" /\ rel.right.t = "value" /\ rel.right.len = 8
    /\ rel.left.desc \in {"icmp", "icmpv6"}

payload_dependency_store(dctx, rel, index, base) ==
  LET n == NumOf(rel.right.v)
      type == IF rel.left.desc = "icmp" /\ n = 0 THEN ICMP_ECHO ELSE n
      echo == IF rel.left.desc = "icmp" THEN {ICMP_ECHO} ELSE {ICMP6_ECHO_REQUEST, ICMP6_ECHO_REPLY}
      stored(c) == [c EXCEPT !.pdeps[NextBase(base)] = index]
  IN IF ~StoresIcmp(rel) THEN stored(dctx)
     ELSE IF type \in echo THEN [dctx EXCEPT !.icmp = type]
     ELSE stored([dctx EXCEPT !.icmp = type])

\* The layer whose dependency is found for a layer, "none" if there is none.
DependencyAt(dctx, base) ==
  CASE base # "none" /\ dctx.pdeps[base] # 0 -> base
    [] base = "transport" /\ dctx.pdeps["inner"] # 0 -> "inner"
    [] OTHER -> "none"

payload_dependency_exists(dctx, base) == DependencyAt(dctx, base) # "none"

payload_may_dependency_kill_icmp(dctx, dep, e) ==
  LET need == IcmpDep(e.desc, e.field)
  IN /\ need \notin {"ANY", "ECHO", "6ECHO", "6ADDRESS"}
     /\ dep.left.desc = e.desc
     /\ dctx.icmp = icmp_dep_to_type(need)

payload_may_dependency_kill_ll(dep) ==
  /\ dep.left.desc # "vlan"
  /\ dep.left.desc = "ether" /\ dep.right.t = "value" /\ dep.right.len = 16
       => dep.right.v = Num(33024)

\* Fault: "ip6 nexthdr tcp" is removed in front of a TCP field although it also
\* restricts the rule to IPv6.
payload_may_dependency_killAnyFamily(dctx, family, dep, e) ==
  LET payload == dep.left.t = "payload"
  IN CASE family \in {"bridge", "netdev", "inet"} /\ payload /\ dep.op = "eq"
            /\ e.base = dep.left.base /\ (e.proto \/ e.base = "ll") ->
              ~e.proto /\ payload_may_dependency_kill_ll(dep)
       [] e.base = "transport" /\ payload /\ dep.left.base = "transport"
            /\ dep.left.desc \in {"icmp", "icmpv6"} ->
              payload_may_dependency_kill_icmp(dctx, dep, e)
       [] OTHER -> TRUE

\* May the field e make the match dep redundant?
payload_may_dependency_kill(dctx, family, dep, e) ==
  LET payload == dep.left.t = "payload"
  IN CASE family \in {"bridge", "netdev", "inet"} /\ payload /\ dep.left.base = "network"
            /\ dep.left.desc \in {"ip", "ip6"} /\ e.base = "transport" -> FALSE
       [] family \in {"bridge", "netdev", "inet"} /\ payload /\ dep.op = "eq"
            /\ e.base = dep.left.base /\ (e.proto \/ e.base = "ll") ->
              ~e.proto /\ payload_may_dependency_kill_ll(dep)
       [] e.base = "transport" /\ payload /\ dep.left.base = "transport"
            /\ dep.left.desc \in {"icmp", "icmpv6"} ->
              payload_may_dependency_kill_icmp(dctx, dep, e)
       [] OTHER -> TRUE
=============================================================================
