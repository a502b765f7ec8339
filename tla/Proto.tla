------------------------------- MODULE Proto -------------------------------
(***************************************************************************)
(* Protocol headers (src/proto.c): for each header its layer, its fields,  *)
(* the field that names the next header, and the headers it can carry;     *)
(* and the protocol context, which records what the rule read so far says  *)
(* about each layer of the packet.                                         *)
(*                                                                         *)
(* A field is <<name, offset, length, datatype>>, in bits.  A field of     *)
(* length 0 is template 0 of a header that has none; one named "meta" is   *)
(* a PROTO_META_TEMPLATE: the next protocol is found with a meta           *)
(* expression instead of a field of the header.  Encapsulated headers      *)
(* (vxlan, geneve, gre) are left out.                                      *)
(***************************************************************************)
EXTENDS Bits, SequencesExt

F(name, off, len, dt) == [name |-> name, off |-> off, len |-> len, dt |-> dt]

NoTemplate == F("none", 0, 0, "invalid")

MetaTemplate(key, dt, len) == [F(key, 0, len, dt) EXCEPT !.name = "meta"] @@ [meta |-> key]

\* proto_desc: base, the template its uppers are named by, the links in
\* table order, the fields in table order, the checksum field and the fields
\* of the pseudo header.
Desc(base, key, links, fields) ==
  [base |-> base, key |-> key, links |-> links, fields |-> fields,
   csum |-> "none", pseudo |-> {}]

Ports == <<F("sport", 0, 16, "inet_service"), F("dport", 16, 16, "inet_service")>>

Transports == <<<<50, "esp">>, <<51, "ah">>, <<108, "comp">>, <<17, "udp">>,
                <<136, "udplite">>, <<6, "tcp">>, <<33, "dccp">>, <<132, "sctp">>>>

Icmps == <<<<1, "icmp">>, <<2, "igmp">>, <<58, "icmpv6">>>>

EtherTypes == <<<<2048, "ip">>, <<2054, "arp">>, <<34525, "ip6">>,
                <<33024, "vlan">>, <<34984, "vlan">>>>

L4Proto == MetaTemplate("l4proto", "inet_proto", 8)

proto_ah ==
  Desc("transport", F("nexthdr", 0, 8, "inet_proto"), Transports,
       <<F("nexthdr", 0, 8, "inet_proto"), F("hdrlength", 8, 8, "integer"),
         F("reserved", 16, 16, "integer"), F("spi", 32, 32, "integer"),
         F("sequence", 64, 32, "integer")>>)

proto_esp ==
  Desc("transport", NoTemplate, <<>>,
       <<F("spi", 0, 32, "integer"), F("sequence", 32, 32, "integer")>>)

proto_comp ==
  Desc("transport", F("nexthdr", 0, 8, "inet_proto"), Transports,
       <<F("nexthdr", 0, 8, "inet_proto"), F("flags", 8, 8, "bitmask"),
         F("cpi", 16, 16, "integer")>>)

\* .icmp_dep: the kinds of message that have the field.
proto_icmp ==
  [Desc("transport", F("type", 0, 8, "icmp_type"), <<>>,
        <<F("type", 0, 8, "icmp_type"), F("code", 8, 8, "icmp_code"),
          F("checksum", 16, 16, "integer"), F("id", 32, 16, "integer"),
          F("sequence", 48, 16, "integer"), F("gateway", 32, 32, "integer"),
          F("mtu", 48, 16, "integer")>>) EXCEPT !.csum = "checksum"]

proto_igmp ==
  [Desc("transport", NoTemplate, <<>>,
        <<F("type", 0, 8, "igmp_type"), F("mrt", 8, 8, "integer"),
          F("checksum", 16, 16, "integer"), F("group", 32, 32, "integer")>>)
   EXCEPT !.csum = "checksum"]

proto_udp ==
  [Desc("transport", NoTemplate, <<>>,
        Ports \o <<F("length", 32, 16, "integer"), F("checksum", 48, 16, "integer")>>)
   EXCEPT !.csum = "checksum"]

proto_udplite ==
  Desc("transport", NoTemplate, <<>>,
       Ports \o <<F("csumcov", 32, 16, "integer"), F("checksum", 48, 16, "integer")>>)

proto_tcp ==
  [Desc("transport", NoTemplate, <<>>,
        Ports \o <<F("sequence", 32, 32, "integer"), F("ackseq", 64, 32, "integer"),
                   F("doff", 96, 4, "integer"), F("reserved", 100, 4, "integer"),
                   F("flags", 104, 8, "tcp_flag"), F("window", 112, 16, "integer"),
                   F("checksum", 128, 16, "integer"), F("urgptr", 144, 16, "integer")>>)
   EXCEPT !.csum = "checksum"]

proto_dccp ==
  Desc("transport", NoTemplate, <<>>, Append(Ports, F("type", 67, 4, "dccp_pkttype")))

proto_sctp ==
  [Desc("transport", NoTemplate, <<>>,
        Ports \o <<F("vtag", 32, 32, "integer"), F("checksum", 64, 32, "integer")>>)
   EXCEPT !.csum = "checksum"]

proto_th == Desc("transport", NoTemplate, <<>>, Ports)

proto_ip ==
  [Desc("network", L4Proto, Icmps \o Transports,
        <<F("version", 0, 4, "integer"), F("hdrlength", 4, 4, "integer"),
          F("dscp", 8, 6, "dscp"), F("ecn", 14, 2, "ecn"), F("length", 16, 16, "integer"),
          F("id", 32, 16, "integer"), F("frag-off", 48, 16, "integer"),
          F("ttl", 64, 8, "integer"), F("protocol", 72, 8, "inet_proto"),
          F("checksum", 80, 16, "integer"), F("saddr", 96, 32, "ipv4_addr"),
          F("daddr", 128, 32, "ipv4_addr")>>)
   EXCEPT !.csum = "checksum", !.pseudo = {"saddr", "daddr", "protocol", "length"}]

proto_icmp6 ==
  [Desc("transport", F("type", 0, 8, "icmpv6_type"), <<>>,
        <<F("type", 0, 8, "icmpv6_type"), F("code", 8, 8, "icmpv6_code"),
          F("checksum", 16, 16, "integer"), F("parameter-problem", 32, 32, "integer"),
          F("mtu", 32, 32, "integer"), F("id", 32, 16, "integer"),
          F("sequence", 48, 16, "integer"), F("max-delay", 32, 16, "integer"),
          F("taddr", 64, 128, "ipv6_addr"), F("daddr", 192, 128, "ipv6_addr")>>)
   EXCEPT !.csum = "checksum"]

proto_ip6 ==
  [Desc("network", L4Proto, Transports \o Icmps,
        <<F("version", 0, 4, "integer"), F("dscp", 4, 6, "dscp"), F("ecn", 10, 2, "ecn"),
          F("flowlabel", 12, 20, "integer"), F("length", 32, 16, "integer"),
          F("nexthdr", 48, 8, "inet_proto"), F("hoplimit", 56, 8, "integer"),
          F("saddr", 64, 128, "ipv6_addr"), F("daddr", 192, 128, "ipv6_addr")>>)
   EXCEPT !.pseudo = {"saddr", "daddr", "nexthdr", "length"}]

proto_inet ==
  Desc("ll", MetaTemplate("nfproto", "nf_proto", 8), <<<<2, "ip">>, <<10, "ip6">>>>, <<>>)

proto_inet_service == Desc("transport", L4Proto, Transports \o Icmps, <<>>)

proto_arp ==
  Desc("network", NoTemplate, <<>>,
       <<F("htype", 0, 16, "integer"), F("ptype", 16, 16, "ether_type"),
         F("hlen", 32, 8, "integer"), F("plen", 40, 8, "integer"),
         F("operation", 48, 16, "arp_op"), F("saddr ether", 64, 48, "ether_addr"),
         F("saddr ip", 112, 32, "ipv4_addr"), F("daddr ether", 144, 48, "ether_addr"),
         F("daddr ip", 192, 32, "ipv4_addr")>>)

\* proto_vlan and proto_eth also have a .length: see HdrLength.
proto_vlan ==
  Desc("ll", F("type", 16, 16, "ether_type"), EtherTypes,
       <<F("pcp", 0, 3, "integer"), F("dei", 3, 1, "integer"), F("cfi", 3, 1, "integer"),
         F("id", 4, 12, "integer"), F("type", 16, 16, "ether_type")>>)

proto_eth ==
  Desc("ll", F("type", 96, 16, "ether_type"), EtherTypes,
       <<F("daddr", 0, 48, "ether_addr"), F("saddr", 48, 48, "ether_addr"),
         F("type", 96, 16, "ether_type")>>)

proto_netdev == Desc("ll", MetaTemplate("protocol", "ether_type", 16), EtherTypes, <<>>)

HdrLength(d) == CASE d = "vlan" -> 32 [] d = "ether" -> 112 [] OTHER -> 0

\* The descriptions by name; "none" is no description, "unknown" is
\* proto_unknown.
Proto ==
  [none |-> Desc("none", NoTemplate, <<>>, <<>>), unknown |-> Desc("none", NoTemplate, <<>>, <<>>),
   ah |-> proto_ah, esp |-> proto_esp, comp |-> proto_comp, icmp |-> proto_icmp,
   igmp |-> proto_igmp, udp |-> proto_udp, udplite |-> proto_udplite, tcp |-> proto_tcp,
   dccp |-> proto_dccp, sctp |-> proto_sctp, th |-> proto_th, ip |-> proto_ip,
   icmpv6 |-> proto_icmp6, ip6 |-> proto_ip6, inet |-> proto_inet,
   inetservice |-> proto_inet_service, arp |-> proto_arp, vlan |-> proto_vlan,
   ether |-> proto_eth, netdev |-> proto_netdev]

HeaderNames == DOMAIN Proto \ {"none", "unknown", "inet", "inetservice", "netdev"}

\* The template of a field of a header, the first of that name.
FirstOr(s, none) == IF s = <<>> THEN none ELSE s[1]

Template(d, field) == FirstOr(SelectSeq(Proto[d].fields, LAMBDA f : f.name = field), NoTemplate)

Bases == <<"ll", "network", "transport">>

BaseIndex(b) == CASE b = "ll" -> 1 [] b = "network" -> 2 [] b = "transport" -> 3 [] OTHER -> 0

FirstLink(links, Test(_)) ==
  LET s == SelectSeq(links, Test) IN IF s = <<>> THEN <<-1, "none">> ELSE s[1]

\* The header that a value of the key field names, "none" if there is none.
proto_find_upper(d, v) == FirstLink(Proto[d].links, LAMBDA l : Num(l[1]) = v)[2]

\* The number that links two headers, -1 if none does.
proto_find_num(d, up) == FirstLink(Proto[d].links, LAMBDA l : l[2] = up)[1]

\* proto_dev_type() succeeds: the header is on a device of type ARPHRD_ETHER.
ArphrdEther == Num(1)

OnEther(d) == d = "ether" \/ proto_find_num("ether", d) # -1

proto_dev_desc(v) == IF v = ArphrdEther THEN "ether" ELSE "none"

\* The protocol context: desc per layer, the transport headers seen, the
\* stacked link layer headers, and the ICMP type of th_dep.
Hook ==
  [bridge |-> <<"ll", "ether">>, netdev |-> <<"ll", "netdev">>, inet |-> <<"ll", "inet">>,
   ip |-> <<"network", "ip">>, ip6 |-> <<"network", "ip6">>, arp |-> <<"network", "arp">>]

proto_ctx_init(family) ==
  [family |-> family, icmp |-> Num(0), stacked |-> <<>>, protos |-> <<>>,
   desc |-> [b \in {"ll", "network", "transport"} |->
               IF b = Hook[family][1] THEN Hook[family][2] ELSE "none"]]

proto_ctx_update(ctx, base, d) ==
  [ctx EXCEPT !.desc[base] = d,
              !.protos = IF base = "transport" /\ Len(@) < 16 /\ ~Contains(@, d)
                         THEN Append(@, d) ELSE @]

proto_ctx_is_ambiguous(ctx, base) == base = "transport" /\ Len(ctx.protos) > 1

proto_ctx_find_conflict(ctx, base, d) ==
  IF base = "transport"
  THEN IF \E i \in DOMAIN ctx.protos : ctx.protos[i] # d
       THEN SelectSeq(ctx.protos, LAMBDA p : p # d)[1] ELSE "none"
  ELSE IF d # ctx.desc[base] THEN ctx.desc[base] ELSE "none"
=============================================================================
