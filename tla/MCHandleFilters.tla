--------------------------- MODULE MCHandleFilters ---------------------------
(* Rules and file operations, filters, programs and packets for TLC. *)
EXTENDS HandleFilters, FiniteSets, Bitwise, TLC

CONSTANTS MaxTokens, MaxUnits

Tok(t) == [t |-> t, v |-> 0]
Num(n) == [t |-> "number", v |-> n]
Ip(n) == [t |-> "address", v |-> n]

H1 == 10 * 2^24 + 1
H2 == 10 * 2^24 + 2^16 * 3 + 2

Alphabet == {Tok("and"), Tok("or"), Tok("not"), Tok("("), Tok(")"), Tok("udp"),
             Tok("inbound"), Tok("dst"), Tok("port"), Num(80)}

Sentences == {
  <<Tok("not"), Tok("outbound"), Tok("and"), Tok("("), Tok("tcp"), Tok("or"), Tok("udp"), Tok(")"),
    Tok("and"), Tok("port"), Num(443)>>,
  <<Tok("src"), Tok("host"), Ip(H1), Tok("or"), Tok("dst"), Tok("port"), Num(80), Tok("outbound")>>,
  <<Tok("ip"), Tok("and"), Tok("not"), Tok("("), Tok("icmp"), Tok("or"), Tok("loopback"), Tok(")"),
    Tok("or"), Tok("ifindex"), Num(5)>>,
  <<Tok("host"), Ip(H2), Tok("not"), Tok("src"), Tok("port"), Num(80)>>,
  <<Tok("not"), Tok("not"), Tok("sub_ifindex"), Num(2), Tok("or"), Tok("impostor"), Tok("udp")>>,
  <<Tok("dst"), Tok("host"), Ip(H2), Tok("or"), Tok("inbound"), Tok("or"), Tok("tcp"), Tok("ip")>>,
  <<Tok("port"), Num(80), Tok("port"), Num(443), Tok("or"), Tok("port"), Num(1)>>,
  <<Tok("true")>>, <<Tok("("), Tok("true"), Tok(")")>>}

ASSUME AndIsAnd ==
  LET words == {0, 1, 6, 255, 256, 4097, 65535, 65536, 10 * 2^24 + 1, 2^30 - 2, 2^30 - 1}
  IN  \A u, v \in words : BitAnd(u, v) = u & v /\ BitOr(u, v) = u | v

MCTexts == UNION {[1..n -> Alphabet] : n \in 0..MaxTokens} \cup Sentences

Insns == {
  Ld("w", "imm", Word - 1), Ld("w", "abs", 12), Ld("h", "abs", 27), Ld("b", "abs", 0), Ld("b", "ind", 9),
  Ld("w", "mem", 17), Ld("w", "len", 0), Ld("w", "msh", 0), Ld("w", "abs", AddrProcessId), Ld("w", "abs", AddrLayer),
  Ld("w", "abs", AddrBase + 20), Ld("d", "abs", 0),
  Ldx("imm", 2), Ldx("mem", 1), Ldx("len", 0), Ldx("msh", 0), Ldx("ind", 0),
  [Blank EXCEPT !.class = "st", !.k = 17], [Blank EXCEPT !.class = "stx", !.k = 1],
  Alu("add", "x", 0), Alu("add", "k", 3), Alu("sub", "k", 1), Alu("mul", "k", 1), Alu("div", "x", 0), Alu("or", "x", 0),
  Alu("and", "k", 3), Alu("lsh", "k", 33), Alu("rsh", "k", 4), Alu("neg", "k", 0), Alu("mod", "k", 1),
  Jmp("ja", 0, 0, 0), Jmp("ja", Word - 2, 0, 0), Jmp("jgt", 1, 1, 0), Jmp("jge", 2, 0, 1),
  Jmp("jset", 1, 0, 2), Jmp("jne", 0, 0, 0), Blank}

MCPrograms == {<<>>} \cup {<<i>> : i \in Insns} \cup {<<i, j, [Ret(0) EXCEPT !.src = "x"]>> : i, j \in Insns}

Shown == [bytes : {0, 9, 15, 22, 28}, version : {4}, ihl : {5, 6}, proto : {6, 17}, src : {H1}, dst : {H1, H2},
          sport : {80}, dport : {443, 80}, outbound : BOOLEAN, ifIdx : {5}, subIfIdx : {2}, pid : {0}, layer : {0}]
MCPackets ==
  {p \in Shown : /\ (p.dst = H2) = (p.ihl = 5)
                 /\ p.bytes < 28 => p.dport = 80  \* not to be seen
                 /\ p.bytes < 10 => p.proto = 6} \cup
  {[bytes |-> 0, version |-> 6, ihl |-> 5, proto |-> 0, src |-> 0, dst |-> 0, sport |-> 0, dport |-> 0,
    outbound |-> TRUE, ifIdx |-> 0, subIfIdx |-> 0, pid |-> 7, layer |-> SocketLayer],
   [bytes |-> 28, version |-> 6, ihl |-> 5, proto |-> 1, src |-> H2, dst |-> H1, sport |-> 443, dport |-> 80,
    outbound |-> FALSE, ifIdx |-> 5, subIfIdx |-> 0, pid |-> 0, layer |-> 0]}

-----------------------------------------------------------------------------
(* The units are A 65, B 66, C 67, [ 91 (after Z), a 97, b 98, { 123, : 58,  *)
(* star 42 and ? 63.                                                         *)
Upto(n, units) == UNION {[1..k -> units] : k \in 0..n}

Drive == <<67, 58>>
MCDevices == Drive :> <<98, 91>>

Asks(masks, types, paths, pids) ==
  [mask : masks, type : types, path : paths, pid : pids, exclude : {FALSE}]
Excluding(fs) == {[f EXCEPT !.exclude = TRUE] : f \in fs}

Watched == Asks({{1}, {2, 4}}, {0, 3}, {<<97>>, <<42, 66>>}, {5})
MCTogether ==
  Watched \cup Excluding(Watched) \cup
  Asks({{1, 2}}, {1, 4}, {<<65>>, Drive \o <<66>>}, {0}) \cup
  Asks({{8}}, {2}, {<<>>}, {0}) \cup
  Asks({{1}}, {1}, {<<98, 98, 98, 98, 98, 98>>, Drive \o <<97, 97, 97, 97>>}, {0})

MCFilters ==
  MCTogether \cup
  Asks({{1}}, {0, 1, 2}, Upto(2, {97, 98, 91}) \cup {Drive, Drive \o <<63>>}, {0}) \cup
  Asks({{1}}, {3}, Upto(MaxUnits, {97, 42, 63}) \cup Upto(3, {97, 98, 42}) \cup {Drive \o <<42>>}, {0})

Raw(r, len) == [mask |-> r.mask, type |-> r.type, path |-> r.path, path_len |-> len, pid |-> r.pid, exclude |-> r.exclude]
Padded == [mask |-> {1}, type |-> 0, path |-> <<97, 98, 98, 0, 0>>, pid |-> 0, exclude |-> FALSE]
MCRawConfigs ==
  {[rule_count |-> n, rules |-> <<Raw(Padded, k), Raw([Padded EXCEPT !.type = 1], 3)>>] :
     n \in {0, 1, 2, 9}, k \in {2, 3, 9}}

Does(masks, names) == [mask : masks, pid : {6}, paging : {FALSE}, name : names]
MCOperations ==
  Does({{1}}, Upto(MaxUnits, {65, 98})) \cup
  Does({{1}}, {<<98, 91, 66>>, <<98, 91>>, <<98, 123, 97>>, <<65, 98, 65, 98, 98, 65>>, <<97, 98, 98, 0, 0>>,
               <<42>>, <<42, 65, 98>>, <<65, 42, 65>>, <<98, 42>>}) \cup
  [mask : {{1}, {2}, {4}, {}}, pid : {4, 5}, paging : BOOLEAN, name : {<<65>>, <<97, 66>>}]
=============================================================================
