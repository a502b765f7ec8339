------------------------------- MODULE Exthdr -------------------------------
(***************************************************************************)
(* Extension headers of IPv6 (src/exthdr.c), TCP options (src/tcpopt.c)    *)
(* and IPv4 options (src/ipopt.c).  A description has the number the       *)
(* kernel looks for and its fields; op tells the three kinds apart.        *)
(* Chunks of SCTP and options of DCCP are left out.                        *)
(***************************************************************************)
EXTENDS Expr

Ext(type, fields) == [type |-> type, fields |-> fields]

N(name, off, len) == F(name, off, len, "integer")

NextHdr == F("nexthdr", 0, 8, "inet_proto")

exthdr_hbh == Ext(0, <<NextHdr, N("hdrlength", 8, 8)>>)

exthdr_rt2 == Ext(43, <<>>)

exthdr_rt0 ==
  Ext(43, <<N("reserved", 32, 32), F("addr[1]", 64, 128, "ipv6_addr"),
            F("addr[2]", 192, 128, "ipv6_addr")>>)

exthdr_rt4 ==
  Ext(43, <<N("last-entry", 32, 8), N("flags", 40, 8), N("tag", 48, 16),
            F("sid[1]", 64, 128, "ipv6_addr"), F("sid[2]", 192, 128, "ipv6_addr")>>)

exthdr_rt ==
  Ext(43, <<NextHdr, N("hdrlength", 8, 8), N("type", 16, 8), N("seg-left", 24, 8)>>)

exthdr_frag ==
  Ext(44, <<NextHdr, N("reserved", 8, 8), N("frag-off", 16, 13), N("reserved2", 29, 2),
            N("more-fragments", 31, 1), N("id", 32, 32)>>)

exthdr_dst == Ext(60, <<NextHdr, N("hdrlength", 8, 8)>>)

exthdr_mh ==
  Ext(135, <<NextHdr, N("hdrlength", 8, 8), N("type", 16, 8), N("reserved", 24, 8),
             N("checksum", 32, 16)>>)

\* The descriptions an expression may carry, by name.
Exthdrs ==
  [hbh |-> exthdr_hbh, rt2 |-> exthdr_rt2, rt0 |-> exthdr_rt0, srh |-> exthdr_rt4,
   rt |-> exthdr_rt, frag |-> exthdr_frag, dst |-> exthdr_dst, mh |-> exthdr_mh]

KindLength == <<N("kind", 0, 8), N("length", 8, 8)>>

\* The four blocks of a SACK option share the names left and right.
SackBlocks ==
  [k \in 1..8 |-> N(IF k % 2 = 1 THEN "left" ELSE "right", 16 + 32 * (k - 1), 32)]

TcpOpts ==
  [eol |-> Ext(0, <<N("kind", 0, 8)>>), nop |-> Ext(1, <<N("kind", 0, 8)>>),
   maxseg |-> Ext(2, Append(KindLength, N("size", 16, 16))),
   window |-> Ext(3, Append(KindLength, N("count", 16, 8))),
   sack_perm |-> Ext(4, KindLength), sack |-> Ext(5, KindLength \o SackBlocks),
   timestamp |-> Ext(8, KindLength \o <<N("tsval", 16, 32), N("tsecr", 48, 32)>>),
   md5sig |-> Ext(19, KindLength), mptcp |-> Ext(30, Append(KindLength, N("subtype", 16, 4))),
   fastopen |-> Ext(34, KindLength)]

IpOptRoute == <<N("type", 0, 8), N("length", 8, 8), N("ptr", 16, 8), N("addr", 24, 32)>>

IpOpts ==
  [lsrr |-> Ext(131, IpOptRoute), rr |-> Ext(7, IpOptRoute), ssrr |-> Ext(137, IpOptRoute),
   ra |-> Ext(148, <<N("type", 0, 8), N("length", 8, 8), N("value", 16, 16)>>)]

Descs(op) == CASE op = "ipv6" -> Exthdrs [] op = "tcpopt" -> TcpOpts [] op = "ipv4" -> IpOpts

\* The template of a description with this place, and the first of this name.
FieldAt(fields, off, len) ==
  LET s == SelectSeq(fields, LAMBDA f : f.off = off /\ f.len = len)
  IN IF s = <<>> THEN NoTemplate ELSE s[1]

FieldNamed(fields, name) ==
  LET s == SelectSeq(fields, LAMBDA f : f.name = name)
  IN IF s = <<>> THEN NoTemplate ELSE s[1]

\* exthdr_expr_alloc(), tcpopt_expr_alloc(), ipopt_expr_alloc(); present: the
\* expression asks whether the header is there.
exthdr_expr_alloc(op, desc, field, present) ==
  LET d == Descs(op)[desc]
      f == FieldNamed(d.fields, field)
  IN E("exthdr", IF present THEN "boolean" ELSE f.dt, "big", f.len)
       @@ [op |-> op, type |-> d.type, desc |-> desc, field |-> field, off |-> f.off,
           present |-> present]

\* The description the kernel's number stands for: the routing headers share
\* one and are told apart by the field.
DescOf(op, type, off, len) ==
  LET tried == CASE op = "tcpopt" -> <<"eol", "nop", "maxseg", "window", "sack_perm", "sack",
                                       "timestamp", "md5sig", "mptcp", "fastopen">>
                 [] op = "ipv4" -> <<"lsrr", "rr", "ssrr", "ra">>
                 [] OTHER -> <<"hbh", "rt", "frag", "dst", "mh", "srh", "rt0", "rt2">>
      same == SelectSeq(tried, LAMBDA n : Descs(op)[n].type = type)
      fits == SelectSeq(same, LAMBDA n : FieldAt(Descs(op)[n].fields, off, len) # NoTemplate)
  IN IF fits # <<>> THEN fits[1] ELSE IF same # <<>> THEN same[1] ELSE "none"

\* exthdr_init_raw(): the expression that reads len bits at off of a header.
exthdr_init_raw(op, type, off, len, present) ==
  LET desc == DescOf(op, type, off, len)
      f == IF desc = "none" THEN NoTemplate ELSE FieldAt(Descs(op)[desc].fields, off, len)
      dt == IF present THEN "boolean"
            ELSE IF f = NoTemplate /\ op = "tcpopt" THEN "integer" ELSE f.dt
  IN E("exthdr", dt, "big", len)
       @@ [op |-> op, type |-> type, desc |-> desc, off |-> off, present |-> present,
           field |-> IF f = NoTemplate THEN "unknown" ELSE f.name]

mask_length(mask) == Scan0(mask.v, Scan1(mask.v, 0) + 1)

\* exthdr_find_template(): the field a mask cuts out of the bytes read; Null
\* if there is none.
exthdr_find_template(e, mask) ==
  LET lo == Scan1(mask.v, 0)
      off == e.off + RoundUp(mask.len, 8) - mask_length(mask)
      f == exthdr_init_raw(e.op, e.type, off, mask_length(mask) - lo, FALSE)
  IN IF f.field = "unknown" \/ (e.op # "ipv6" /\ e.field # "unknown") THEN Null ELSE f
=============================================================================
