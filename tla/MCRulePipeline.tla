--------------------------- MODULE MCRulePipeline ---------------------------
(***************************************************************************)
(* Rules and packets for the rule pipeline.  The rules are those of        *)
(* tests/py and tests/shell, reduced to one of each kind; the packets have *)
(* fields on both sides of every value the rules mention.                  *)
(***************************************************************************)
EXTENDS RulePipeline

(***************************************************************************)
(* Packets.                                                                *)
(***************************************************************************)
Put(off, len, v) == {off + len - 1 - i : i \in v}

\* The image of a header whose fields have the numbers of vals.
Header(d, vals) ==
  UNION {Put(Template(d, f).off, Template(d, f).len, vals[f]) : f \in DOMAIN vals}

EtherType == [ip |-> Num(2048), ip6 |-> Num(34525), arp |-> Num(2054)]

Ifname == Num(104) \cup Lshift(Num(49), 8)            \* "h1"

Addr6(n) == {125} \cup Num(n)

Packet(net, l4, netvals, tr, trvals, mark, ext) ==
  [desc |-> [ll |-> "ether", network |-> net, transport |-> tr],
   hdr |-> [ll |-> Header("ether", [type |-> EtherType[net], saddr |-> Num(5), daddr |-> Num(6)]),
            network |-> Header(net, netvals), transport |-> Header(tr, trvals)],
   meta |-> [protocol |-> EtherType[net], nfproto |-> Num(IF net = "ip" THEN 2 ELSE IF net = "ip6" THEN 10 ELSE 3),
             mark |-> Num(mark), iifname |-> Ifname, iif |-> Num(2), iiftype |-> ArphrdEther, length |-> Num(60),
             skuid |-> Num(0)]
            @@ IF tr = "none" THEN <<>> ELSE "l4proto" :> Num(l4),
   ct |-> [state |-> Num(2), mark |-> Num(mark), status |-> Num(5), direction |-> Num(0), zone |-> Num(3),
           saddr |-> IF "saddr" \in DOMAIN netvals THEN netvals.saddr ELSE {}, protodst |-> Num(22), protocol |-> Num(l4)],
   ext |-> ext,
   src |-> [fib |-> 2, rt |-> 7, socket |-> 1, numgen |-> 5, hash |-> 7, xfrm |-> 4]]

IpVals(saddr, daddr, proto, dscp) ==
  [version |-> Num(4), dscp |-> Num(dscp), ttl |-> Num(64), protocol |-> Num(proto), saddr |-> Num(saddr),
   daddr |-> Num(daddr), length |-> Num(60), id |-> Num(7)]

Ip6Vals(saddr, proto) ==
  [version |-> Num(6), dscp |-> Num(8), nexthdr |-> Num(proto), saddr |-> Addr6(saddr), daddr |-> Addr6(1),
   flowlabel |-> Num(5), hoplimit |-> Num(64)]

A1 == 167772161     \* 10.0.0.1
A2 == 167772162
A9 == 167772425     \* 10.0.1.9

TcpVals(sport, dport, flags) == [sport |-> Num(sport), dport |-> Num(dport), flags |-> Num(flags), doff |-> Num(5)]

MCPackets ==
  <<Packet("ip", 6, IpVals(A1, A2, 6, 8), "tcp", TcpVals(1024, 22, 2), 1,
           [x \in {<<"tcpopt", 2>>} |-> Put(16, 16, Num(1460))]),
    Packet("ip", 6, IpVals(A9, A1, 6, 0), "tcp", TcpVals(22, 80, 18), 16, <<>>),
    Packet("ip", 17, IpVals(A2, A9, 17, 46), "udp", [sport |-> Num(53), dport |-> Num(22)], 2, <<>>),
    Packet("ip", 1, IpVals(A1, A9, 1, 0), "icmp", [type |-> Num(8), id |-> Num(22)], 0, <<>>),
    Packet("ip", 1, IpVals(A1, A9, 1, 0), "icmp", [type |-> Num(3), code |-> Num(4), mtu |-> Num(22)], 0, <<>>),
    Packet("ip6", 6, Ip6Vals(1, 6), "tcp", TcpVals(1024, 22, 2), 1, <<>>),
    Packet("ip6", 58, Ip6Vals(2, 58), "icmpv6", [type |-> Num(128), id |-> Num(5)], 3, <<>>),
    Packet("arp", 0, [operation |-> Num(1)], "none", <<>>, 0, <<>>)>>

(***************************************************************************)
(* Rules.                                                                  *)
(***************************************************************************)
S(n) == symbol_expr_alloc(Num(n))

Field(d, f) == payload_expr_alloc(d, f)

Rel(op, l, r) == ExprStmt(relational_expr_alloc(op, l, r))

Is(l, r) == Rel("implicit", l, r)

Between(a, b) == range_expr_alloc(S(a), S(b))

Prefix(a, n) == prefix_expr_alloc(S(a), n)

Verd(v) == Stmt("verdict", [e |-> verdict_expr_alloc(v, "none")])

El(k, d) == set_elem_expr_alloc(k, d)

Elems(s) == SetExpr([k \in DOMAIN s |-> El(s[k], Null)])

Accept == Verd("accept")

Rule(family, stms) == [family |-> family, named |-> <<>>, stmts |-> stms]

Ip(s) == Rule("ip", Append(s, Accept))

In(family, s) == Rule(family, Append(s, Accept))

WithSets(named, r) == [r EXCEPT !.named = named]

Binop(op, a, b) == binop_expr_alloc(op, a, b)

List(s) == compound_expr_alloc("list", [k \in DOMAIN s |-> S(s[k])])

Concat(s) == concat_expr_alloc(s)

Str(s) == symbol_expr_alloc(UNION {Lshift(Num(s[k]), 8 * (k - 1)) : k \in DOMAIN s})

Vmap(key, elems) ==
  Stmt("verdict", [e |-> map_expr_alloc(key, SetExpr([k \in DOMAIN elems |->
         El(elems[k][1], verdict_expr_alloc(elems[k][2], "none"))]))])

MapTo(key, elems) ==
  map_expr_alloc(key, SetExpr([k \in DOMAIN elems |-> El(elems[k][1], elems[k][2])]))

SetMeta(key, e) == Stmt("meta", [key |-> key, e |-> e])

SetCt(key, e) == Stmt("ct", [key |-> key, e |-> e, dir |-> "none"])

SetField(d, f, v) == Stmt("payload", [e |-> Field(d, f), val |-> v])

Dport == Field("tcp", "dport")
Sport == Field("tcp", "sport")
Saddr == Field("ip", "saddr")
Daddr == Field("ip", "daddr")
Mark == meta_expr_alloc("mark")

\* Fields of a header, compared in every way.
FieldRules ==
  <<Ip(<<Is(Dport, S(22))>>), Ip(<<Rel("neq", Dport, S(22))>>), Ip(<<Rel("lt", Dport, S(80))>>),
    Ip(<<Rel("gte", Dport, S(80))>>), Ip(<<Is(Dport, Between(20, 40))>>), Ip(<<Rel("neq", Dport, Between(20, 40))>>),
    Ip(<<Is(Saddr, Prefix(A1, 24))>>), Ip(<<Rel("neq", Saddr, Prefix(A1, 24))>>), Ip(<<Is(Saddr, Prefix(A1, 30))>>),
    Ip(<<Is(Field("ip", "dscp"), S(8))>>), Ip(<<Rel("neq", Field("ip", "dscp"), S(8))>>),
    Ip(<<Is(Field("ip", "version"), S(4))>>), Ip(<<Is(Field("ip", "ttl"), Between(1, 64))>>),
    Ip(<<Is(Field("tcp", "doff"), S(5))>>), Ip(<<Is(Field("ip", "protocol"), S(6)), Is(Dport, S(22))>>),
    Ip(<<Is(Field("icmp", "type"), S(8))>>), Ip(<<Is(Field("icmp", "id"), S(22))>>),
    Ip(<<Is(Field("icmp", "mtu"), S(22))>>), Ip(<<Is(Field("icmp", "type"), S(8)), Is(Field("icmp", "id"), S(22))>>),
    Ip(<<Is(Field("th", "dport"), S(22))>>), Ip(<<Is(meta_expr_alloc("l4proto"), S(17)), Is(Field("th", "dport"), S(22))>>),
    In("ip6", <<Is(Field("ip6", "saddr"), symbol_expr_alloc(Addr6(1)))>>), In("ip6", <<Is(Field("ip6", "dscp"), S(8))>>),
    In("ip6", <<Is(Field("ip6", "flowlabel"), S(5))>>), In("ip6", <<Is(Field("icmpv6", "id"), S(5))>>),
    In("inet", <<Is(Saddr, S(A1))>>), In("inet", <<Is(Dport, S(22))>>), In("inet", <<Is(Saddr, S(A1)), Is(Dport, S(22))>>),
    In("bridge", <<Is(Saddr, S(A1))>>), In("bridge", <<Is(Dport, S(22))>>), In("netdev", <<Is(Dport, S(22))>>),
    In("bridge", <<Is(Field("arp", "operation"), S(1))>>), In("netdev", <<Is(Saddr, Prefix(A1, 8)), Is(Field("udp", "dport"), S(22))>>),
    In("bridge", <<Is(Field("ether", "saddr"), S(5)), Is(Saddr, S(A1))>>), Ip(<<Is(Field("ether", "saddr"), S(5))>>)>>

\* Meta data and connections: host byte order, bit masks, names.
MetaRules ==
  <<Ip(<<Is(Mark, S(1))>>), Ip(<<Rel("neq", Mark, S(1))>>), Ip(<<Is(Mark, Between(1, 5))>>), Ip(<<Rel("gt", Mark, S(1))>>),
    Ip(<<Is(Binop("and", Mark, S(3)), S(1))>>), Ip(<<Rel("neq", Binop("and", Mark, S(16)), S(0))>>),
    Ip(<<Is(Binop("or", Mark, S(2)), S(3))>>), Ip(<<Is(Binop("xor", Mark, S(3)), S(2))>>),
    Ip(<<Is(Binop("and", Binop("or", Mark, S(2)), S(3)), S(3))>>),
    Ip(<<Is(meta_expr_alloc("iifname"), Str(<<104, 49>>))>>), Ip(<<Is(meta_expr_alloc("iifname"), Str(<<104, 42>>))>>),
    Ip(<<Rel("neq", meta_expr_alloc("iifname"), Str(<<101, 42>>))>>),
    Ip(<<Is(ct_expr_alloc("state", "none"), S(2))>>), Ip(<<Is(ct_expr_alloc("state", "none"), List(<<2, 4>>))>>),
    Ip(<<Rel("neq", ct_expr_alloc("state", "none"), S(4))>>), Ip(<<Rel("eq", ct_expr_alloc("status", "none"), S(5))>>),
    Ip(<<Rel("neg", ct_expr_alloc("state", "none"), S(4))>>), Ip(<<Is(ct_expr_alloc("zone", "none"), S(3))>>),
    Ip(<<Is(Field("tcp", "flags"), S(2))>>), Ip(<<Rel("eq", Field("tcp", "flags"), S(2))>>),
    Ip(<<Rel("eq", Binop("and", Field("tcp", "flags"), S(18)), S(2))>>),
    Ip(<<Is(Field("tcp", "flags"), List(<<2, 16>>))>>), Ip(<<Rel("neg", Field("tcp", "flags"), S(16))>>),
    Ip(<<Is(meta_expr_alloc("length"), Between(40, 80))>>), In("inet", <<Is(meta_expr_alloc("nfproto"), S(2)), Is(Dport, S(22))>>),
    In("inet", <<Is(meta_expr_alloc("l4proto"), S(6)), Is(Dport, S(22))>>), Ip(<<Is(meta_expr_alloc("iif"), S(2))>>)>>

\* Sets, maps and concatenations.
SetRules ==
  <<Ip(<<Is(Dport, Elems(<<S(22), S(80)>>))>>), Ip(<<Rel("neq", Dport, Elems(<<S(22), S(443)>>))>>),
    Ip(<<Is(Dport, Elems(<<S(22)>>))>>), Ip(<<Is(Dport, Elems(<<Between(20, 30), S(80)>>))>>),
    Ip(<<Is(Saddr, Elems(<<Prefix(A1, 24), S(A9)>>))>>), Ip(<<Is(Mark, Elems(<<S(1), S(16)>>))>>),
    Ip(<<Is(Mark, Elems(<<Between(1, 2), Between(10, 20)>>))>>), Ip(<<Is(Field("ip", "dscp"), Elems(<<S(8), S(46)>>))>>),
    Ip(<<Is(Concat(<<Saddr, Dport>>), Elems(<<Concat(<<S(A1), S(22)>>), Concat(<<S(A9), S(22)>>)>>))>>),
    Ip(<<Is(Concat(<<Saddr, Dport>>), Elems(<<Concat(<<Prefix(A1, 24), Between(20, 30)>>), Concat(<<S(A9), S(80)>>)>>))>>),
    Ip(<<Is(Concat(<<Mark, Dport>>), Elems(<<Concat(<<S(1), S(22)>>)>>))>>),
    Ip(<<Is(Concat(<<Saddr, Mark>>), Elems(<<Concat(<<S(A9), Between(2, 20)>>)>>))>>),
    Ip(<<Is(meta_expr_alloc("iifname"), Elems(<<Str(<<104, 49>>), Str(<<101, 49>>)>>))>>),
    Ip(<<Is(meta_expr_alloc("iifname"), Elems(<<Str(<<104, 42>>), Str(<<101, 42>>)>>))>>),
    Rule("ip", <<Vmap(Dport, <<<<S(22), "accept">>, <<S(80), "drop">>>>)>>),
    Rule("ip", <<Vmap(Dport, <<<<Between(20, 30), "accept">>, <<S(80), "drop">>>>)>>),
    Rule("ip", <<Vmap(Saddr, <<<<Prefix(A1, 24), "drop">>, <<Catchall, "accept">>>>)>>),
    Rule("ip", <<Vmap(Mark, <<<<S(1), "accept">>, <<S(16), "drop">>>>)>>),
    Rule("ip", <<SetMeta("mark", MapTo(Dport, <<<<S(22), S(7)>>, <<S(80), S(9)>>>>))>>),
    Rule("ip", <<SetMeta("mark", MapTo(Saddr, <<<<Prefix(A1, 24), S(7)>>, <<S(A9), S(9)>>>>))>>),
    Rule("ip", <<Vmap(Concat(<<Saddr, Dport>>), <<<<Concat(<<S(A1), S(22)>>), "accept">>>>)>>)>>

\* Statements that change the packet or its meta data.
ChangeRules ==
  <<Rule("ip", <<SetMeta("mark", S(5))>>), Rule("ip", <<SetMeta("mark", Binop("or", Mark, S(4)))>>),
    Rule("ip", <<SetCt("mark", Mark)>>), Rule("ip", <<SetMeta("mark", Binop("lshift", Field("ip", "dscp"), S(2)))>>),
    Rule("ip", <<SetMeta("mark", Field("ip", "dscp"))>>), Rule("ip", <<SetMeta("mark", Dport)>>),
    Rule("ip", <<SetMeta("mark", Binop("and", ct_expr_alloc("mark", "none"), S(3)))>>), Rule("ip", <<SetMeta("mark", Binop("rshift", Mark, S(1)))>>),
    Rule("ip", <<SetField("tcp", "dport", S(80))>>), Rule("ip", <<SetField("ip", "ttl", S(1))>>),
    Rule("ip", <<SetField("ip", "dscp", S(1))>>), Rule("ip", <<SetField("ip", "daddr", S(A9))>>),
    Rule("ip6", <<SetField("ip6", "dscp", S(1))>>), Rule("ip6", <<SetField("ip6", "flowlabel", S(9))>>),
    Rule("inet", <<SetField("ip", "ecn", S(1))>>), Rule("inet", <<SetField("th", "dport", S(80))>>)>>

Counter == Stmt("counter", [a |-> [packets |-> 0, bytes |-> 0]])

Limit == Stmt("limit", [a |-> [rate |-> 5, unit |-> 60, type |-> "packets", flags |-> 0, burst |-> 5]])

Log(a) == Stmt("log", [a |-> a])

NatTo(type, family, addr, proto, flags) ==
  Stmt("nat", [type |-> type, family |-> family, addr |-> addr, proto |-> proto, flags |-> flags, tflags |-> {}])

Reject(type, code, family, given) == Stmt("reject", [type |-> type, code |-> code, family |-> family, given |-> given])

Queue(q, flags) == Stmt("queue", [q |-> q, flags |-> flags])

Tproxy(family, addr, port) == Stmt("tproxy", [family |-> family, addr |-> addr, port |-> port])

Opt(desc, f, present) == exthdr_expr_alloc("tcpopt", desc, f, present)

Ext6(desc, f, present) == exthdr_expr_alloc("ipv6", desc, f, present)

\* Statements that end the rule or act on the packet as a whole.
ActionRules ==
  <<Rule("ip", <<Counter, Accept>>), Rule("ip", <<Is(Dport, S(22)), Limit, Log([prefix |-> "p", level |-> "warn"]), Accept>>),
    Rule("ip", <<Log([group |-> 2, snaplen |-> 5])>>), Rule("ip", <<Is(Dport, S(22)), Counter, Is(Saddr, S(A1)), Accept>>),
    Rule("ip", <<NatTo("snat", "none", S(A1), Null, {})>>), Rule("ip", <<Is(Dport, S(22)), NatTo("dnat", "none", S(A1), S(80), {})>>),
    Rule("ip", <<Is(Dport, S(22)), NatTo("dnat", "none", Between(A1, A2), Between(80, 90), {"random"})>>),
    Rule("ip", <<Is(Field("ip", "protocol"), S(6)), NatTo("redir", "none", Null, S(80), {})>>),
    Rule("ip", <<NatTo("masq", "none", Null, Null, {"random"})>>),
    Rule("ip", <<NatTo("snat", "none", Prefix(A1, 24), Null, {})>>),
    Rule("ip", <<NatTo("dnat", "none", MapTo(Saddr, <<<<S(A1), S(A2)>>, <<S(A9), S(A1)>>>>), Null, {})>>),
    Rule("ip", <<Is(Field("ip", "protocol"), S(6)),
                 NatTo("dnat", "none", MapTo(Saddr, <<<<S(A1), Concat(<<S(A2), S(80)>>)>>, <<S(A9), Concat(<<S(A1), S(81)>>)>>>>), Null, {})>>),
    Rule("ip", <<NatTo("dnat", "none", MapTo(Saddr, <<<<S(A1), Between(A1, A2)>>, <<S(A9), Prefix(A1, 24)>>>>), Null, {})>>),
    Rule("inet", <<Is(Dport, S(22)), NatTo("dnat", "ip", S(A1), S(80), {})>>), Rule("inet", <<Is(Saddr, S(A1)), NatTo("dnat", "none", S(A2), Null, {})>>),
    Rule("ip", <<Reject("icmp_unreach", -1, "ip", FALSE)>>), Rule("ip", <<Reject("tcp_rst", 0, "none", FALSE)>>),
    Rule("ip", <<Reject("icmp_unreach", 1, "ip", TRUE)>>), Rule("inet", <<Reject("icmpx_unreach", -1, "none", FALSE)>>),
    Rule("inet", <<Reject("icmpx_unreach", 2, "none", TRUE)>>), Rule("inet", <<Reject("icmp_unreach", 1, "ip", TRUE)>>),
    Rule("inet", <<Is(Saddr, S(A1)), Reject("icmp_unreach", -1, "ip", FALSE)>>), Rule("bridge", <<Is(Dport, S(22)), Reject("tcp_rst", 0, "none", FALSE)>>),
    Rule("ip", <<Queue(S(4), {})>>), Rule("ip", <<Queue(Between(1, 4), {"bypass", "fanout"})>>),
    Rule("ip", <<Is(Field("ip", "protocol"), S(6)), Tproxy("none", S(A1), S(80)), Accept>>),
    Rule("ip", <<Stmt("dup", [to |-> S(A1), dev |-> S(3)])>>),
    Rule("netdev", <<Stmt("fwd", [dev |-> S(3), addr |-> Null, family |-> "none"])>>),
    Rule("netdev", <<Stmt("fwd", [dev |-> S(3), addr |-> S(A1), family |-> "ip"])>>),
    Rule("netdev", <<Stmt("dup", [to |-> S(3), dev |-> Null])>>),
    Rule("ip", <<Stmt("notrack", [a |-> 0])>>), Rule("ip", <<Stmt("optstrip", [e |-> Opt("sack_perm", "kind", TRUE)])>>),
    Rule("ip", <<Stmt("exthdr", [e |-> Opt("maxseg", "size", FALSE), val |-> S(1400)])>>),
    Rule("ip", <<Is(Opt("maxseg", "size", FALSE), S(1460)), Accept>>), Rule("ip", <<Is(Opt("maxseg", "kind", TRUE), S(1)), Accept>>),
    Rule("ip", <<Rel("neq", Opt("maxseg", "size", FALSE), Between(1, 100)), Accept>>),
    Rule("ip6", <<Is(Ext6("frag", "nexthdr", TRUE), S(0)), Accept>>), Rule("inet", <<Is(Ext6("frag", "frag-off", FALSE), S(1)), Accept>>)>>

\* Sets of the table, and rules that use and update them.
Typed(dt, n) == constant_expr_alloc(dt, DataTypes[dt].bo, n, {})

Val(dt, n) == constant_expr_alloc(dt, DataTypes[dt].bo, DataTypes[dt].size, Num(n))

Hosts == Set("hosts", {}, Typed("ipv4_addr", 32), Null, <<El(Val("ipv4_addr", A1), Null)>>)

Nets == Set("nets", {"interval"}, Typed("ipv4_addr", 32), Null,
            <<El(range_expr_alloc(Val("ipv4_addr", A1), Val("ipv4_addr", A2)), Null)>>)

Marks == Set("marks", {"map"}, Typed("inet_service", 16), Typed("mark", 32), <<El(Val("inet_service", 22), Val("mark", 9))>>)

Verdicts == Set("verdicts", {"map", "interval"}, Typed("mark", 32), verdict_expr_alloc("none", "none"),
                <<El(range_expr_alloc(Val("mark", 1), Val("mark", 5)), verdict_expr_alloc("drop", "none"))>>)

Named == [hosts |-> Hosts, nets |-> Nets, marks |-> Marks, verdicts |-> Verdicts]

OnSet(op, set, key, stms) ==
  Stmt("set", [op |-> op, set |-> SetSymbol(set), key |-> El(key, Null), timeout |-> 0, stmts |-> stms])

NamedRules ==
  [k \in 1..12 |-> WithSets(Named,
     <<Ip(<<Is(Saddr, SetSymbol("hosts"))>>), Ip(<<Rel("neq", Saddr, SetSymbol("nets"))>>),
       Rule("ip", <<SetMeta("mark", map_expr_alloc(Dport, SetSymbol("marks")))>>),
       Rule("ip", <<Stmt("verdict", [e |-> map_expr_alloc(Mark, SetSymbol("verdicts"))])>>),
       Rule("ip", <<OnSet("add", "hosts", Saddr, <<>>)>>), Rule("ip", <<OnSet("update", "hosts", Daddr, <<Counter>>)>>),
       Rule("ip", <<Stmt("meter", [name |-> "m", key |-> El(Saddr, Null), timeout |-> 0, stmt |-> Limit]), Accept>>),
       Rule("ip", <<Stmt("map", [op |-> "add", set |-> SetSymbol("marks"), key |-> El(Dport, Null), timeout |-> 0,
                                 stmts |-> <<>>, data |-> Mark])>>),
       Rule("ip", <<Stmt("objref", [type |-> "counter", e |-> Str(<<99>>)])>>),
       Rule("ip", <<[OnSet("update", "hosts", Saddr, <<Counter, Limit>>) EXCEPT !.timeout = 5000]>>),
       Rule("ip", <<Stmt("meter", [name |-> "m", key |-> El(Daddr, Null), timeout |-> 60000, stmt |-> Counter])>>),
       Rule("ip", <<OnSet("delete", "hosts", Daddr, <<>>), Counter>>)>>[k])]

\* Matches that imply, or that need, one another.
DependencyRules ==
  <<In("inet", <<Is(meta_expr_alloc("nfproto"), S(10)), Is(Field("ip6", "saddr"), symbol_expr_alloc(Addr6(1)))>>),
    In("inet", <<Is(Field("ip6", "nexthdr"), S(6)), Is(Dport, S(22))>>), In("inet", <<Is(meta_expr_alloc("l4proto"), S(1)), Is(Field("icmp", "type"), S(8))>>),
    In("bridge", <<Is(Field("ether", "type"), S(2048)), Is(Saddr, S(A1))>>), In("bridge", <<Is(meta_expr_alloc("protocol"), S(2048)), Is(Dport, S(22))>>),
    In("netdev", <<Is(meta_expr_alloc("protocol"), S(2048)), Is(Saddr, S(A1))>>), In("inet", <<Is(Field("ether", "saddr"), S(5)), Is(Saddr, S(A1))>>),
    In("ip", <<Is(Field("ip", "protocol"), Elems(<<S(6), S(17)>>)), Is(Field("th", "dport"), S(22))>>),
    In("ip", <<Is(Dport, S(22)), SetMeta("mark", S(1)), Is(Field("tcp", "sport"), S(1024))>>),
    In("ip", <<Is(Sport, S(1024)), Is(Dport, S(22))>>), In("ip", <<Is(Saddr, S(A1)), Is(Daddr, S(A2))>>),
    In("ip", <<Is(Field("icmp", "type"), S(3)), Is(Field("icmp", "code"), S(4)), Is(Field("icmp", "mtu"), S(22))>>),
    In("inet", <<Is(Concat(<<meta_expr_alloc("l4proto"), Field("th", "dport")>>), Elems(<<Concat(<<S(6), S(22)>>), Concat(<<S(17), S(22)>>)>>))>>),
    In("ip", <<Rel("neq", Field("ip", "protocol"), S(6))>>), In("inet", <<Rel("neq", Saddr, S(A1)), Is(Field("udp", "dport"), S(22))>>),
    In("bridge", <<Is(Field("vlan", "id"), S(5))>>), In("bridge", <<Is(Field("vlan", "id"), S(5)), Is(Saddr, S(A1))>>),
    In("netdev", <<Is(Field("vlan", "pcp"), S(1)), Is(Field("vlan", "id"), S(5)), Is(Dport, S(22))>>)>>

\* Numbers that do not come from the packet.
Fib(key, flags) == source_expr_alloc("fib", key, [flags |-> flags])

From_(t, key) == source_expr_alloc(t, key, <<>>)

Numgen(n) == source_expr_alloc("numgen", "inc", [mod |-> n, offset |-> 1])

Jhash(e, n) == hash_expr_alloc(e, [mod |-> n, offset |-> 0, seed |-> 9])

Symhash(n) == hash_expr_alloc(Null, [mod |-> n, offset |-> 2])

SourceRules ==
  <<Ip(<<Is(Fib("oif", {"saddr", "iif"}), S(2))>>), Ip(<<Rel("neq", Fib("type", {"daddr"}), S(3))>>),
    Ip(<<Is(Fib("type", {"saddr"}), Elems(<<S(2), S(5)>>))>>), Ip(<<Is(From_("rt", "classid"), S(7))>>),
    Ip(<<Is(From_("rt", "mtu"), Between(5, 9))>>), Ip(<<Is(From_("rt", "nexthop4"), S(7))>>),
    In("inet", <<Is(From_("rt", "nexthop4"), S(7))>>), Ip(<<Is(From_("socket", "transparent"), S(1))>>),
    Ip(<<Is(From_("socket", "mark"), S(1))>>), Rule("ip", <<SetMeta("mark", From_("rt", "classid"))>>),
    Ip(<<Is(source_expr_alloc("xfrm", "reqid", [dir |-> "in", spnum |-> 0]), S(4))>>),
    Ip(<<Is(source_expr_alloc("xfrm", "spi", [dir |-> "out", spnum |-> 1]), Between(2, 4))>>),
    Ip(<<Is(Numgen(4), S(2))>>), Rule("ip", <<SetMeta("mark", Numgen(3))>>),
    Rule("ip", <<Vmap(Numgen(4), <<<<S(2), "accept">>, <<S(3), "drop">>>>)>>),
    Rule("ip", <<NatTo("dnat", "none", MapTo(Jhash(Saddr, 5), <<<<S(2), S(A1)>>, <<S(1), S(A2)>>>>), Null, {})>>),
    Rule("ip", <<SetMeta("mark", Jhash(Concat(<<Saddr, Daddr>>), 8))>>), Rule("ip", <<SetMeta("mark", Symhash(3))>>),
    Ip(<<Is(Symhash(4), Between(4, 5))>>)>>

Byte(rate, burst, flags) ==
  Stmt("limit", [a |-> [rate |-> rate, unit |-> 1, type |-> "bytes", flags |-> flags, burst |-> burst]])

Quota(bytes, used, flags) == Stmt("quota", [a |-> [bytes |-> bytes, used |-> used, flags |-> flags]])

Connlimit(n, flags) == Stmt("connlimit", [a |-> [count |-> n, flags |-> flags]])

Goto(v, chain) == Stmt("verdict", [e |-> verdict_expr_alloc(v, chain)])

Ref(type, name) == Stmt("objref", [type |-> type, e |-> Str(name)])

\* Statements with numbers of their own, and references.
StatefulRules ==
  <<Ip(<<Byte(1024, 2048, 0)>>), Ip(<<Byte(1500, 0, 1)>>), Ip(<<Byte(3145728, 1024, 0), Counter>>),
    Ip(<<Stmt("limit", [a |-> [rate |-> 400, unit |-> 86400, type |-> "packets", flags |-> 1, burst |-> 9]])>>),
    Ip(<<Quota(1048576, 0, 0)>>), Ip(<<Quota(2049, 1024, 1)>>), Ip(<<Connlimit(7, 0)>>), Ip(<<Connlimit(7, 1)>>),
    Ip(<<Stmt("last", [a |-> [used |-> 0, set |-> FALSE]])>>), Ip(<<Stmt("last", [a |-> [used |-> 90, set |-> TRUE]])>>),
    Ip(<<Stmt("counter", [a |-> [packets |-> 3, bytes |-> 99]])>>), Ip(<<Log([prefix |-> "p", level |-> "emerg", flags |-> {"skuid"}])>>),
    Ip(<<Log(<<>>)>>), Rule("ip", <<Stmt("synproxy", [a |-> [mss |-> 1460, wscale |-> 7, flags |-> {"timestamp"}]])>>),
    Rule("ip", <<Stmt("synproxy", [a |-> <<>>])>>), Rule("ip", <<Stmt("flow_offload", [a |-> "ft"])>>),
    Rule("ip", <<Goto("jump", "c")>>), Rule("ip", <<Is(Dport, S(22)), Goto("goto", "c")>>), Rule("ip", <<Verd("return")>>),
    Rule("ip", <<Verd("continue"), Counter, Verd("drop")>>), Rule("ip", <<Ref("quota", <<113>>)>>),
    Rule("ip", <<Ref("ct timeout", <<116>>), Ref("ct expectation", <<101>>), Ref("secmark", <<115>>)>>),
    Ip(<<Is(ct_expr_alloc("saddr", "original"), S(A1))>>), Ip(<<Is(ct_expr_alloc("protodst", "original"), S(22))>>),
    Rule("ip", <<Queue(Null, {})>>), Rule("ip", <<Queue(Null, {"bypass"})>>),
    Rule("ip6", <<Reject("icmp_unreach", 4, "ip6", TRUE)>>), Rule("netdev", <<Is(Saddr, S(A1)), Reject("icmp_unreach", -1, "none", FALSE)>>),
    Rule("bridge", <<Reject("icmpx_unreach", 3, "none", TRUE)>>), Rule("inet", <<Reject("tcp_rst", 0, "none", FALSE)>>),
    Rule("ip", <<NatTo("masq", "none", Null, Null, {"persistent", "fully-random"})>>),
    Rule("inet", <<Is(Dport, S(22)), NatTo("redir", "none", Null, S(80), {})>>),
    Rule("ip6", <<NatTo("snat", "none", symbol_expr_alloc(Addr6(1)), Null, {})>>),
    Rule("inet", <<Is(Dport, S(22)), Tproxy("ip", S(A1), Null)>>), Rule("inet", <<Is(Dport, S(22)), Tproxy("none", Null, S(80))>>)>>

\* Every two matches, in both orders, in every family: what the first says
\* about the packet decides what the second needs.
Matches ==
  <<Is(Saddr, S(A1)), Is(Field("ip6", "saddr"), symbol_expr_alloc(Addr6(1))), Is(Dport, S(22)), Is(Field("udp", "dport"), S(22)),
    Is(Field("th", "dport"), S(22)), Is(meta_expr_alloc("l4proto"), S(6)),
    Is(meta_expr_alloc("protocol"), S(2048)), Is(Field("ip", "protocol"), S(6)),
    Is(Field("icmp", "type"), S(8)), Is(Field("icmpv6", "id"), S(5)), Is(Field("ether", "saddr"), S(5)), Is(Field("ip", "dscp"), S(8)),
    Is(Field("tcp", "flags"), S(2)), Is(Mark, S(1)), Is(Field("ether", "type"), S(2048)),
    Is(Field("ip6", "nexthdr"), S(6)), Is(Field("arp", "operation"), S(1)), Rel("neq", Saddr, S(A9)), Rel("gte", Dport, S(22)),
    Rel("neq", meta_expr_alloc("l4proto"), S(17))>>

Families == <<"ip", "inet", "bridge", "netdev">>

PairsOf(ms, n) ==
  [k \in 1..(n * n * Len(Families)) |->
     In(Families[((k - 1) \div (n * n)) + 1], <<ms[(((k - 1) \div n) % n) + 1], ms[((k - 1) % n) + 1]>>)]

PairRules == PairsOf(Matches, 20)

MCRules == FieldRules \o MetaRules \o SetRules \o ChangeRules \o ActionRules \o NamedRules \o DependencyRules
             \o SourceRules \o StatefulRules \o PairRules

\* Listings that the JSON parser does not take back.
JsonRules ==
  <<Rule("ip", <<Vmap(Opt("maxseg", "size", FALSE), <<<<S(1460), "accept">>>>)>>),
    Rule("ip", <<SetMeta("mark", Fib("type", {"daddr"}))>>),
    WithSets(Named, Rule("ip", <<Stmt("map", [op |-> "add", set |-> SetSymbol("marks"), key |-> El(Dport, Null), timeout |-> 0,
                                              stmts |-> <<Counter>>, data |-> Mark])>>))>>

\* Two comparisons of different fields, side by side.
RangeRules == <<Ip(<<Rel("gte", Sport, S(30)), Rel("lte", Dport, S(80))>>)>>

\* A TCP option after the protocol field of a network header.
OptionRules == <<In("inet", <<Is(Field("ip6", "nexthdr"), S(6)), Is(Opt("maxseg", "size", FALSE), S(1460))>>)>>
=============================================================================
