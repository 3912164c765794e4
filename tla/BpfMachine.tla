----------------------------- MODULE BpfMachine ------------------------------
(***************************************************************************)
(* The driver's interpreter of packet filters, bpf_run_filter              *)
(* (src/src/network/bpf.rs), run on what a callout shows of a packet: one   *)
(* instruction is one action.                                              *)
(*                                                                         *)
(* A packet is its header fields and the number of bytes the callout could *)
(* see of it; the interpreter gets at a field only through its offset.     *)
(* Words are numbers below Word, 2^32 in the code; the pseudo-offsets of   *)
(* the address are at the top.                                             *)
(***************************************************************************)
EXTENDS Integers, Sequences

CONSTANTS
  Programs,  \* programs loaded with IOCTL_SET_BPF
  Packets,   \* what callouts show
  Word       \* 2^32

VARIABLES
  program,  \* the program in the driver
  pkt,      \* the packet being filtered
  pc, a, x, m,
  result    \* what bpf_run_filter returned

machine == <<pc, a, x, m>>
machineVars == <<program, pkt, machine, result>>

NoResult == -1
NoPacket == [bytes |-> 0]
U32Max == Word - 1

-----------------------------------------------------------------------------
(* Instructions *)

Blank == [class |-> "misc", size |-> "w", mode |-> "imm", op |-> "add",
          src |-> "k", k |-> 0, jt |-> 0, jf |-> 0]
Ld(size, mode, k) == [Blank EXCEPT !.class = "ld", !.size = size, !.mode = mode, !.k = k]
Ldx(mode, k) == [Blank EXCEPT !.class = "ldx", !.mode = mode, !.k = k]
Alu(op, src, k) == [Blank EXCEPT !.class = "alu", !.op = op, !.src = src, !.k = k]
Jmp(op, k, jt, jf) == [Blank EXCEPT !.class = "jmp", !.op = op, !.k = k, !.jt = jt, !.jf = jf]
Ret(k) == [Blank EXCEPT !.class = "ret", !.k = k]

(* 0xfffff000 and the words after it *)
AddrBase == Word - 4096
AddrFlags == AddrBase
AddrIfIdx == AddrBase + 4
AddrSubIfIdx == AddrBase + 8
AddrProcessId == AddrBase + 12
AddrLayer == AddrBase + 16

(* Bit fields, u8, u16 and u32 *)
U4 == 0..15
U8 == 0..255
U16 == 0..(2^16 - 1)
U32 == 0..U32Max

(* BpfInsn: any code, sizes and modes and operations that do not exist among *)
(* them.                                                                     *)
Instruction ==
  [class : STRING, size : STRING, mode : STRING, op : STRING, src : STRING,
   k : U32, jt : U8, jf : U8]

Packet ==
  [bytes : U32, version : U4, ihl : U4, proto : U8, src : U32, dst : U32, sport : U16,
   dport : U16, outbound : BOOLEAN, ifIdx : U32, subIfIdx : U32, pid : U32, layer : U4]

ASSUME WordAssumption ==
  /\ Word \in Nat /\ Word > 2^24 /\ Word % 2^24 = 0
  /\ Programs \subseteq Seq(Instruction) /\ Packets \subseteq Packet

-----------------------------------------------------------------------------
(* u & v, each half of the bits by itself *)
And1(u, v) == IF u % 2 = 1 /\ v % 2 = 1 THEN 1 ELSE 0
And2(u, v) == 2 * And1(u \div 2, v \div 2) + And1(u, v)
And4(u, v) == 2^2 * And2(u \div 2^2, v \div 2^2) + And2(u, v)
And8(u, v) == 2^4 * And4(u \div 2^4, v \div 2^4) + And4(u, v)
And16(u, v) == 2^8 * And8(u \div 2^8, v \div 2^8) + And8(u, v)
BitAnd(u, v) == 2^16 * And16(u \div 2^16, v \div 2^16) + And16(u, v)

(* u | v: what is not clear in both *)
BitOr(u, v) == U32Max - BitAnd(U32Max - u, U32Max - v)

-----------------------------------------------------------------------------
(* What the interpreter sees of a packet *)

(* External: the layout of an IPv4 header and of the ports behind it. *)
WordByte(w, n) == <<w \div 2^24, w \div 2^16, w \div 256, w>>[n + 1] % 256
PortByte(v, n) == IF n = 0 THEN v \div 256 ELSE v % 256
ByteAt(p, i) ==
  LET l4 == 4 * p.ihl
  IN  CASE i = 0 -> 16 * p.version + p.ihl
        [] i = 9 -> p.proto
        [] i \in 12..15 -> WordByte(p.src, i - 12)
        [] i \in 16..19 -> WordByte(p.dst, i - 16)
        [] i \in l4..(l4 + 1) -> PortByte(p.sport, i - l4)
        [] i \in (l4 + 2)..(l4 + 3) -> PortByte(p.dport, i - l4 - 2)
        [] OTHER -> 0

(* BpfContext::load_word, load_half, load_byte: a set, empty when the bytes *)
(* are not all there.                                                       *)
Width == [w |-> 4, h |-> 2, b |-> 1]
LoadBytes(p, size, off) ==
  IF size \notin DOMAIN Width THEN {}
  ELSE IF off + Width[size] > p.bytes THEN {}
  ELSE LET byte(n) == ByteAt(p, off + n)
       IN  CASE size = "b" -> {byte(0)}
             [] size = "h" -> {256 * byte(0) + byte(1)}
             [] OTHER -> {2^24 * (byte(0) % (Word \div 2^24)) + 2^16 * byte(1) + 256 * byte(2) + byte(3)}

(* The address filter_packet and filter_socket make up for the packet: of   *)
(* the flags only the direction and IPv6, and the layer for a socket.       *)
Flag == [outbound |-> 2^17, inbound |-> 2^17, loopback |-> 2^18, impostor |-> 2^19, ipv6 |-> 2^20]
FlowLayer == 2
SocketLayer == 3
FlagsOf(p) ==
  (IF p.outbound THEN Flag.outbound ELSE 0) + (IF p.version = 6 THEN Flag.ipv6 ELSE 0) + p.layer

(* The process is told for sockets and flows; no flow callout runs a filter *)
(* today.                                                                   *)
AddressField(p, k) ==
  CASE k = AddrFlags -> {FlagsOf(p)}
    [] k = AddrIfIdx -> {p.ifIdx}
    [] k = AddrSubIfIdx -> {p.subIfIdx}
    [] k = AddrProcessId -> {IF p.layer \in {SocketLayer, FlowLayer} THEN p.pid ELSE 0}
    [] k = AddrLayer -> {p.layer}
    [] OTHER -> {}

-----------------------------------------------------------------------------
(* bpf_run_filter *)

LoadAbs(insn) == IF insn.k >= AddrBase THEN AddressField(pkt, insn.k) ELSE LoadBytes(pkt, insn.size, insn.k)

LoadInd(insn) == LoadBytes(pkt, insn.size, (x + insn.k) % Word)

LdValue(insn) ==
  CASE insn.mode = "imm" -> {insn.k}
    [] insn.mode = "abs" -> LoadAbs(insn)
    [] insn.mode = "ind" -> LoadInd(insn)
    [] insn.mode = "mem" -> {m[insn.k % 16]}
    [] insn.mode = "len" -> {pkt.bytes}
    [] OTHER -> {}

LdxValue(insn) ==
  CASE insn.mode = "imm" -> {insn.k}
    [] insn.mode = "mem" -> {m[insn.k % 16]}
    [] insn.mode = "len" -> {pkt.bytes}
    [] insn.mode = "msh" -> {(v % 16) * 4 : v \in LoadBytes(pkt, "b", insn.k)}
    [] OTHER -> {}

Source(insn) == IF insn.src = "x" THEN x ELSE insn.k

(* Variant: arithmetic that does not wrap. *)
AluNoWrap(op, s) == IF op = "add" THEN {a + s} ELSE {a}

AluValue(op, s) ==
  CASE op = "add" -> {(a + s) % Word}
    [] op = "sub" -> {(a - s) % Word}
    [] op = "mul" -> {(a * s) % Word}
    [] op = "div" -> IF s = 0 THEN {} ELSE {a \div s}
    [] op = "or"  -> {BitOr(a, s)}
    [] op = "and" -> {BitAnd(a, s)}
    [] op = "lsh" -> {(a * 2^(s % 32)) % Word}
    [] op = "rsh" -> {a \div 2^(s % 32)}
    [] op = "neg" -> {(Word - a) % Word}
    [] OTHER -> {}

JumpOffset(insn, s) ==
  LET branch(holds) == {IF holds THEN insn.jt ELSE insn.jf}
  IN  CASE insn.op = "ja"   -> {insn.k}
        [] insn.op = "jeq"  -> branch(a = s)
        [] insn.op = "jgt"  -> branch(a > s)
        [] insn.op = "jge"  -> branch(a >= s)
        [] insn.op = "jset" -> branch(BitAnd(a, s) # 0)
        [] OTHER -> {}

Running(class) == /\ pkt # NoPacket /\ result = NoResult
                  /\ pc < Len(program) /\ program[pc + 1].class = class
Insn == program[pc + 1]

(* `return v` of the interpreter *)
Returns(v) == result' = v /\ UNCHANGED <<program, pkt, machine>>
Stay == UNCHANGED <<program, pkt, result>>

StepLd ==
  /\ Running("ld")
  /\ \/ LdValue(Insn) = {} /\ Returns(0)
     \/ \E v \in LdValue(Insn) : a' = v /\ pc' = pc + 1 /\ UNCHANGED <<x, m>> /\ Stay

StepLdx ==
  /\ Running("ldx")
  /\ \/ LdxValue(Insn) = {} /\ Returns(0)
     \/ \E v \in LdxValue(Insn) : x' = v /\ pc' = pc + 1 /\ UNCHANGED <<a, m>> /\ Stay

StepSt ==
  /\ Running("st") \/ Running("stx")
  /\ m' = [m EXCEPT ![Insn.k % 16] = IF Insn.class = "st" THEN a ELSE x]
  /\ pc' = pc + 1 /\ UNCHANGED <<a, x>> /\ Stay

StepAlu ==
  /\ Running("alu")
  /\ LET v == AluValue(Insn.op, Source(Insn))
     IN  \/ v = {} /\ Returns(0)
         \/ \E w \in v : a' = w /\ pc' = pc + 1 /\ UNCHANGED <<x, m>> /\ Stay

(* Variant: an offset with a sign. *)
TargetSigned(off) == pc + 1 + (IF off < Word \div 2 THEN off ELSE off - Word)
Target(off) == pc + 1 + off

StepJmp ==
  /\ Running("jmp")
  /\ LET to == {Target(off) : off \in JumpOffset(Insn, Source(Insn))} \cap 0..(Len(program) - 1)
     IN  \/ to = {} /\ Returns(0)
         \/ \E t \in to : pc' = t /\ UNCHANGED <<a, x, m>> /\ Stay

StepRet == Running("ret") /\ Returns(Source(Insn))
StepMisc == Running("misc") /\ Returns(0)

(* No filter, or the end of one that does not return. *)
RunsOff ==
  /\ pkt # NoPacket /\ result = NoResult /\ pc >= Len(program)
  /\ Returns(IF program = <<>> THEN U32Max ELSE 0)

Run == StepLd \/ StepLdx \/ StepSt \/ StepAlu \/ StepJmp \/ StepRet \/ StepMisc \/ RunsOff

-----------------------------------------------------------------------------
MachineInit ==
  /\ program = <<>> /\ pkt = NoPacket /\ result = NoResult
  /\ pc = 0 /\ a = 0 /\ x = 0 /\ m = [i \in 0..15 |-> 0]

(* IOCTL_SET_BPF *)
LoadProgram(p) ==
  /\ pkt = NoPacket
  /\ program' = p
  /\ UNCHANGED <<pkt, machine, result>>

(* A callout runs the filter. *)
Filter(p) ==
  /\ pkt = NoPacket
  /\ pkt' = p
  /\ UNCHANGED <<program, machine, result>>

MachineNext ==
  \/ \E p \in Programs : LoadProgram(p)
  \/ \E p \in Packets : Filter(p)
  \/ Run

MachineSpec == MachineInit /\ [][MachineNext]_machineVars

-----------------------------------------------------------------------------
(* Type invariant: a program, wherever it jumps, is left at its end at the  *)
(* latest, and no value is wider than a word.                               *)
MachineTypeOK ==
  /\ pkt = NoPacket \/ pkt \in Packets
  /\ pc \in 0..Len(program) /\ {a, x} \subseteq U32 /\ m \in [0..15 -> U32]
  /\ result = NoResult \/ result \in U32

(* bpf.rs:112-258: an instruction that does not return leads to a later one, *)
(* so that no program, compiled or not, keeps a callout longer than it is    *)
(* long.                                                                     *)
RunsForward == [][pkt # NoPacket => pc' > pc \/ result' # NoResult]_machineVars
=============================================================================
