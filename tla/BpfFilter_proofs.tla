---------------------------- MODULE BpfFilter_proofs ----------------------------
(***************************************************************************)
(* Theorems about packet filters: the interpreter (BpfMachine), the        *)
(* compiler and the two together (BpfFilter).                              *)
(*                                                                         *)
(*  1. The interpreter: arithmetic, loads, its invariant.                  *)
(*  2. Induction, recursion and the readings of a text: a reading at i is  *)
(*     made of readings behind i, so that the table explains itself.       *)
(*  3. Trees: what a tree says of a packet, how many tests it has.         *)
(*  4. The parser: what the calls under way make of a reading of the rest, *)
(*     a continuation; each call and each return keeps its value.          *)
(*  5. The code: what is known before each item of the list, for one       *)
(*     packet; what an item still to be emitted means.                     *)
(*  6. Where the labels are: every jump goes forward to a label.           *)
(*  7. One test: its loads, its jumps.                                     *)
(*  8. The code generator: each action keeps 5 and 6.                      *)
(*  9. resolve_insns: places, distances, and a step of the program.        *)
(* 10. The invariant of FilterSpec, and what compile_bpf promises.         *)
(* 11. What the compiler makes is a program for the interpreter, whose     *)
(*     invariant therefore holds of FilterSpec too.                        *)
(***************************************************************************)
EXTENDS BpfFilterInv, FiniteSetTheorems, NaturalsInduction, WellFoundedInduction, TLAPS

(***************************************************************************)
(* 1. The interpreter: whatever program a client loads and whatever packet *)
(* it is run on, it stays inside the program and its cells, computes       *)
(* words, and never goes back.                                             *)
(***************************************************************************)

LEMMA WordFacts ==
  /\ Word \in Nat /\ Word > 16777216 /\ U32Max \in Nat /\ U32Max = Word - 1
  /\ \A b \in 0..255 : 16777216 * (b % (Word \div 16777216)) + 16777215 < Word
  BY WordAssumption, SMT DEF U32Max

LEMMA WordSize == Word \in Nat /\ Word > 16777216 /\ U32Max \in Nat /\ U32Max = Word - 1
  BY WordFacts, SMT

LEMMA InU32 ==
  ASSUME NEW v \in Nat, v < Word
  PROVE  v \in U32
  BY WordSize, SMT DEF U32

(***************************************************************************)
(* The arithmetic of the interpreter.                                      *)
(***************************************************************************)

LEMMA And1Bound ==
  ASSUME NEW u \in Nat, NEW v \in Nat
  PROVE  And1(u, v) \in 0..(u % 2)
  BY DEF And1

LEMMA And2Bound ==
  ASSUME NEW u \in Nat, NEW v \in Nat
  PROVE  And2(u, v) \in 0..(u % 4)
<1> DEFINE p == u \div 2
           q == v \div 2
           N == 2
<1>1. p \in Nat /\ q \in Nat /\ u % 4 = 2 * (p % 2) + (u % 2)
  BY SMT
<1>2. \A s, t \in Nat : And1(s, t) \in 0..(s % N)
  BY And1Bound, Zenon
<1>3. And2(u, v) = 2 * And1(p, q) + And1(u, v)
  BY SMT DEF And2
<1> HIDE DEF p, q, N
<1>4. And1(p, q) \in 0..(p % N) /\ And1(u, v) \in 0..(u % N)
  BY <1>1, <1>2, Zenon
<1>5. And1(p, q) \in 0..(p % 2) /\ And1(u, v) \in 0..(u % 2)
  BY <1>4 DEF N
<1> QED BY <1>1, <1>3, <1>5, SMT

LEMMA And4Bound ==
  ASSUME NEW u \in Nat, NEW v \in Nat
  PROVE  And4(u, v) \in 0..(u % 16)
<1> DEFINE p == u \div 4
           q == v \div 4
           N == 4
<1>1. p \in Nat /\ q \in Nat /\ u % 16 = 4 * (p % 4) + (u % 4)
  BY SMT
<1>2. \A s, t \in Nat : And2(s, t) \in 0..(s % N)
  BY And2Bound, Zenon
<1>3. And4(u, v) = 4 * And2(p, q) + And2(u, v)
  BY SMT DEF And4
<1> HIDE DEF p, q, N
<1>4. And2(p, q) \in 0..(p % N) /\ And2(u, v) \in 0..(u % N)
  BY <1>1, <1>2, Zenon
<1>5. And2(p, q) \in 0..(p % 4) /\ And2(u, v) \in 0..(u % 4)
  BY <1>4 DEF N
<1> QED BY <1>1, <1>3, <1>5, SMT

LEMMA And8Bound ==
  ASSUME NEW u \in Nat, NEW v \in Nat
  PROVE  And8(u, v) \in 0..(u % 256)
<1> DEFINE p == u \div 16
           q == v \div 16
           N == 16
<1>1. p \in Nat /\ q \in Nat /\ u % 256 = 16 * (p % 16) + (u % 16)
  BY SMT
<1>2. \A s, t \in Nat : And4(s, t) \in 0..(s % N)
  BY And4Bound, Zenon
<1>3. And8(u, v) = 16 * And4(p, q) + And4(u, v)
  BY SMT DEF And8
<1> HIDE DEF p, q, N
<1>4. And4(p, q) \in 0..(p % N) /\ And4(u, v) \in 0..(u % N)
  BY <1>1, <1>2, Zenon
<1>5. And4(p, q) \in 0..(p % 16) /\ And4(u, v) \in 0..(u % 16)
  BY <1>4 DEF N
<1> QED BY <1>1, <1>3, <1>5, SMT

LEMMA And16Bound ==
  ASSUME NEW u \in Nat, NEW v \in Nat
  PROVE  And16(u, v) \in 0..(u % Half)
<1> DEFINE p == u \div 256
           q == v \div 256
           N == 256
<1>1. p \in Nat /\ q \in Nat /\ u % 65536 = 256 * (p % 256) + (u % 256)
  BY SMT
<1>2. \A s, t \in Nat : And8(s, t) \in 0..(s % N)
  BY And8Bound, Zenon
<1>3. And16(u, v) = 256 * And8(p, q) + And8(u, v)
  BY SMT DEF And16
<1>0. p \in Nat /\ q \in Nat
  BY SMT
<1> HIDE DEF p, q, N
<1>4. And8(p, q) \in 0..(p % N) /\ And8(u, v) \in 0..(u % N)
  BY <1>0, <1>2, Zenon
<1>5. And8(p, q) \in 0..(p % 256) /\ And8(u, v) \in 0..(u % 256)
  BY <1>4 DEF N
<1> QED BY <1>1, <1>3, <1>5, SMT DEF Half

\* A bit of u & v is a bit of u.
LEMMA AndBound ==
  ASSUME NEW u \in Nat, NEW v \in Nat
  PROVE  BitAnd(u, v) \in 0..u
<1> DEFINE p == u \div 65536
           q == v \div 65536
<1>1. p \in Nat /\ q \in Nat /\ u = 65536 * p + (u % 65536) /\ p % 65536 <= p
  BY SMT
<1>2. \A s, t \in Nat : And16(s, t) \in 0..(s % Half)
  BY And16Bound, Zenon
<1>3. BitAnd(u, v) = 65536 * And16(p, q) + And16(u, v)
  BY SMT DEF BitAnd
<1>4. p \in Nat /\ q \in Nat
  BY <1>1, SMT
<1> HIDE DEF p, q
<1>5. And16(p, q) \in 0..(p % Half) /\ And16(u, v) \in 0..(u % Half)
  BY <1>2, <1>4, Zenon
<1>6. And16(p, q) \in 0..(p % 65536) /\ And16(u, v) \in 0..(u % 65536)
  BY <1>5, SMT DEF Half
<1> QED BY <1>1, <1>3, <1>6, SMT

LEMMA OrIsWord ==
  ASSUME NEW u \in U32, NEW v \in U32
  PROVE  BitOr(u, v) \in U32
<1>1. U32Max \in Nat
  BY WordFacts, SMT
<1>2. U32Max - u \in Nat /\ U32Max - v \in Nat
  BY <1>1, SMT DEF U32
<1>3. BitAnd(U32Max - u, U32Max - v) \in 0..(U32Max - u)
  BY <1>2, AndBound, Zenon
<1> QED BY <1>1, <1>3, SMT DEF BitOr, U32

\* The shift count is cut to five bits.
LEMMA ShiftPower ==
  ASSUME NEW n \in 0..31
  PROVE  2^n \in Nat /\ 2^n > 0
<1>1. \/ n \in {0, 1, 2, 3, 4, 5, 6, 7}
      \/ n \in {8, 9, 10, 11, 12, 13, 14, 15}
      \/ n \in {16, 17, 18, 19, 20, 21, 22, 23}
      \/ n \in {24, 25, 26, 27, 28, 29, 30, 31}
  BY SMT
<1>2. CASE n \in {0, 1, 2, 3, 4, 5, 6, 7}
  <2>1. 2^n \in {2^0, 2^1, 2^2, 2^3, 2^4, 2^5, 2^6, 2^7}
    BY <1>2, Zenon
  <2> QED BY <2>1, SMT
<1>3. CASE n \in {8, 9, 10, 11, 12, 13, 14, 15}
  <2>1. 2^n \in {2^8, 2^9, 2^10, 2^11, 2^12, 2^13, 2^14, 2^15}
    BY <1>3, Zenon
  <2> QED BY <2>1, SMT
<1>4. CASE n \in {16, 17, 18, 19, 20, 21, 22, 23}
  <2>1. 2^n \in {2^16, 2^17, 2^18, 2^19, 2^20, 2^21, 2^22, 2^23}
    BY <1>4, Zenon
  <2> QED BY <2>1, SMT
<1>5. CASE n \in {24, 25, 26, 27, 28, 29, 30, 31}
  <2>1. 2^n \in {2^24, 2^25, 2^26, 2^27, 2^28, 2^29, 2^30, 2^31}
    BY <1>5, Zenon
  <2> QED BY <2>1, SMT
<1> QED BY <1>1, <1>2, <1>3, <1>4, <1>5

(***************************************************************************)
(* What the interpreter loads is a word.                                   *)
(***************************************************************************)

LEMMA PacketFields ==
  ASSUME NEW p \in Packet
  PROVE  /\ p.version \in U4 /\ p.ihl \in U4 /\ p.proto \in U8
         /\ p.src \in U32 /\ p.dst \in U32 /\ p.sport \in U16 /\ p.dport \in U16
         /\ p.ifIdx \in U32 /\ p.subIfIdx \in U32 /\ p.pid \in U32 /\ p.layer \in U4
         /\ p.bytes \in U32
  BY DEF Packet

LEMMA ByteOfWord ==
  ASSUME NEW w \in U32, NEW n \in 0..3
  PROVE  WordByte(w, n) \in U8
<1>1. w \in Nat
  BY WordFacts, SMT DEF U32
<1>2. w \div 16777216 \in Nat /\ w \div 65536 \in Nat /\ w \div 256 \in Nat
  BY <1>1, SMT
<1>3. \E y \in Nat : WordByte(w, n) = y % 256
  <2>1. n = 0 \/ n = 1 \/ n = 2 \/ n = 3
    BY SMT
  <2> QED BY <1>1, <1>2, <2>1, SMT DEF WordByte
<1> QED BY <1>3, SMT DEF U8

LEMMA ByteOfPort ==
  ASSUME NEW v \in U16, NEW n
  PROVE  PortByte(v, n) \in U8
<1>1. v \in Nat /\ v < 65536
  BY SMT DEF U16
<1>2. v \div 256 \in Nat /\ v \div 256 <= 255 /\ v % 256 \in Nat /\ v % 256 <= 255
  BY <1>1, SMT
<1> QED BY <1>2, SMT DEF PortByte, U8

LEMMA ByteAtIsByte ==
  ASSUME NEW p \in Packet, NEW i \in Nat
  PROVE  ByteAt(p, i) \in U8
<1>1. 16 * p.version + p.ihl \in U8 /\ p.proto \in U8 /\ 0 \in U8
  BY PacketFields, SMT DEF U4, U8
<1>2. i \in 12..15 => WordByte(p.src, i - 12) \in U8
  <2>1. i \in 12..15 => i - 12 \in 0..3
    BY SMT
  <2> QED BY <2>1, PacketFields, ByteOfWord, Zenon
<1>3. i \in 16..19 => WordByte(p.dst, i - 16) \in U8
  <2>1. i \in 16..19 => i - 16 \in 0..3
    BY SMT
  <2> QED BY <2>1, PacketFields, ByteOfWord, Zenon
<1>4. \A n : PortByte(p.sport, n) \in U8 /\ PortByte(p.dport, n) \in U8
  BY PacketFields, ByteOfPort, Zenon
<1> QED BY <1>1, <1>2, <1>3, <1>4, Zenon DEF ByteAt

LEMMA LoadBytesAreWords ==
  ASSUME NEW p \in Packet, NEW size, NEW off \in Nat
  PROVE  LoadBytes(p, size, off) \subseteq U32
<1> DEFINE b0 == ByteAt(p, off + 0)
           b1 == ByteAt(p, off + 1)
           b2 == ByteAt(p, off + 2)
           b3 == ByteAt(p, off + 3)
           high == 16777216 * (b0 % (Word \div 16777216))
<1>1. b0 \in U8 /\ b1 \in U8 /\ b2 \in U8 /\ b3 \in U8
  BY ByteAtIsByte, SMT
<1>2. LoadBytes(p, size, off) \subseteq {b0, 256 * b0 + b1, high + 65536 * b1 + 256 * b2 + b3}
  BY SMT DEF LoadBytes
<1> HIDE DEF b0, b1, b2, b3
<1>3. b0 \in 0..255 /\ b1 \in 0..255 /\ b2 \in 0..255 /\ b3 \in 0..255
  BY <1>1, Zenon DEF U8
<1>4. high \in Nat /\ high + 16777215 < Word
  <2>1. high + 16777215 < Word
    BY <1>3, WordFacts, SMT
  <2>2. Word \div 16777216 \in Nat /\ Word \div 16777216 > 0
    BY WordFacts, SMT
  <2>3. b0 % (Word \div 16777216) \in Nat
    BY <1>3, <2>2, SMT
  <2> QED BY <2>1, <2>3, SMT
<1> HIDE DEF high
<1>5. b0 \in Nat /\ b0 < Word
  BY <1>3, WordSize, SMT
<1>6. 256 * b0 + b1 \in Nat /\ 256 * b0 + b1 < Word
  BY <1>3, WordSize, SMT
<1>7. /\ high + 65536 * b1 + 256 * b2 + b3 \in Nat
      /\ high + 65536 * b1 + 256 * b2 + b3 < Word
  BY <1>3, <1>4, WordSize, SMT
<1> QED BY <1>2, <1>5, <1>6, <1>7, InU32, SMT

LEMMA AddressFieldsAreWords ==
  ASSUME NEW p \in Packet, NEW k \in Nat
  PROVE  AddressField(p, k) \subseteq U32
<1>1. p.layer \in U32 /\ 0 \in U32
  BY PacketFields, WordFacts, SMT DEF U4, U32
<1>2. FlagsOf(p) \in U32
  BY PacketFields, WordFacts, SMT DEF FlagsOf, Flag, U4, U32
<1> QED BY PacketFields, <1>1, <1>2, Zenon DEF AddressField

(***************************************************************************)
(* What an instruction computes is a word, and jumps lead forward.         *)
(***************************************************************************)

LEMMA ModIsWord ==
  ASSUME NEW v \in Int
  PROVE  v % Word \in U32
<1>1. v % Word \in Nat /\ v % Word < Word
  BY WordSize, SMT
<1> QED BY <1>1, InU32, Zenon

LEMMA WordIsNat ==
  ASSUME NEW u \in U32
  PROVE  u \in Nat /\ u < Word
  BY WordSize, SMT DEF U32

LEMMA SmallerIsWord ==
  ASSUME NEW u \in U32, NEW v \in 0..u
  PROVE  v \in U32
  BY WordSize, SMT DEF U32

LEMMA ShiftedRight ==
  ASSUME NEW u \in U32, NEW d \in Nat, d > 0
  PROVE  u \div d \in U32
<1>1. u \in Nat
  BY WordIsNat, Zenon
<1>2. u \div d \in 0..u
  BY <1>1, SMT
<1> QED BY <1>2, SmallerIsWord, Zenon

LEMMA AluIsWord ==
  ASSUME a \in U32, NEW op, NEW s \in U32
  PROVE  AluValue(op, s) \subseteq U32
<1>1. a \in Nat /\ s \in Nat /\ Word \in Nat
  BY WordIsNat, WordSize, SMT
<1>2. s % 32 \in 0..31
  BY <1>1, SMT
<1>3. 2^(s % 32) \in Nat /\ 2^(s % 32) > 0
  BY <1>2, ShiftPower, Zenon
<1>4. a + s \in Int /\ a - s \in Int /\ a * s \in Int /\ a * 2^(s % 32) \in Int /\ Word - a \in Int
  BY <1>1, <1>3, SMT
<1>5. /\ (a + s) % Word \in U32 /\ (a - s) % Word \in U32 /\ (a * s) % Word \in U32
      /\ (a * 2^(s % 32)) % Word \in U32 /\ (Word - a) % Word \in U32
  BY <1>4, ModIsWord, Zenon
<1>6. a \div 2^(s % 32) \in U32
  BY <1>3, ShiftedRight, Zenon
<1>7. s # 0 => a \div s \in U32
  <2>1. s # 0 => s > 0
    BY <1>1, SMT
  <2> QED BY <1>1, <2>1, ShiftedRight, Zenon
<1>8. BitOr(a, s) \in U32
  BY OrIsWord, Zenon
<1>9. BitAnd(a, s) \in U32
  BY <1>1, AndBound, SmallerIsWord, Zenon
<1> QED BY <1>5, <1>6, <1>7, <1>8, <1>9, Zenon DEF AluValue

LEMMA InstructionsFit ==
  ASSUME NEW q \in Seq(Instruction)
  PROVE  Fits(q)
<1>1. \A i \in Instruction : Sound(i)
  BY SMT DEF Instruction, Sound
<1> QED BY <1>1, Zenon DEF Fits

LEMMA InstructionFields ==
  ASSUME Inv, pkt # NoPacket, pc < Len(program)
  PROVE  /\ pkt \in Packet /\ pc \in Nat /\ pc + 1 \in 0..Len(program) /\ Len(program) \in Nat
         /\ Insn.k \in U32 /\ Insn.k \in Nat /\ Insn.jt \in U8 /\ Insn.jf \in U8
         /\ Insn.k % 16 \in 0..15 /\ Source(Insn) \in U32
<1>1. pkt \in Packet
  BY WordAssumption, Zenon DEF Inv, MachineTypeOK
<1>2. Fits(program) /\ pc \in 0..Len(program) /\ x \in U32
  BY Zenon DEF Inv, MachineTypeOK
<1>9. PICK S : program \in Seq(S) /\ \A i \in S : Sound(i)
  BY <1>2, Zenon DEF Fits
<1>3. pc \in Nat /\ pc + 1 \in 1..Len(program) /\ Len(program) \in Nat
  BY <1>2, <1>9, SMT
<1>4. Insn \in S
  BY <1>3, <1>9, SMT DEF Insn
<1>5. Insn.k \in U32 /\ Insn.jt \in U8 /\ Insn.jf \in U8
  BY <1>4, <1>9, Zenon DEF Sound
<1>6. Insn.k \in Nat
  BY <1>5, WordIsNat, Zenon
<1>7. Insn.k % 16 \in 0..15
  BY <1>6, SMT
<1>8. Source(Insn) \in U32
  BY <1>2, <1>5, Zenon DEF Source
<1> QED BY <1>1, <1>3, <1>5, <1>6, <1>7, <1>8, SMT

LEMMA LoadIsWord ==
  ASSUME Inv, pkt # NoPacket, pc < Len(program)
  PROVE  LdValue(Insn) \subseteq U32 /\ LdxValue(Insn) \subseteq U32
<1>1. /\ pkt \in Packet /\ Insn.k \in U32 /\ Insn.k \in Nat /\ Insn.k % 16 \in 0..15
  BY InstructionFields, Zenon
<1>2. m[Insn.k % 16] \in U32
  BY <1>1, Zenon DEF Inv, MachineTypeOK
<1>3. pkt.bytes \in U32
  BY <1>1, PacketFields, Zenon
<1>4. LoadAbs(Insn) \subseteq U32
  BY <1>1, AddressFieldsAreWords, LoadBytesAreWords, Zenon DEF LoadAbs
<1>5. LoadInd(Insn) \subseteq U32
  <2>1. x \in Nat
    BY WordIsNat, Zenon DEF Inv, MachineTypeOK
  <2>2. (x + Insn.k) % Word \in Nat
    BY <1>1, <2>1, WordSize, SMT
  <2> QED BY <1>1, <2>2, LoadBytesAreWords, Zenon DEF LoadInd
<1>6. \A v \in LoadBytes(pkt, "b", Insn.k) : (v % 16) * 4 \in U32
  <2> SUFFICES ASSUME NEW v \in LoadBytes(pkt, "b", Insn.k)
               PROVE  (v % 16) * 4 \in U32
    OBVIOUS
  <2>1. v \in Nat
    BY <1>1, LoadBytesAreWords, WordIsNat, Zenon
  <2>2. (v % 16) * 4 \in Nat /\ (v % 16) * 4 < Word
    BY <2>1, WordSize, SMT
  <2> QED BY <2>2, InU32, Zenon
<1>7. LdValue(Insn) \subseteq U32
  BY <1>1, <1>2, <1>3, <1>4, <1>5, Zenon DEF LdValue
<1>8. LdxValue(Insn) \subseteq U32
  BY <1>1, <1>2, <1>3, <1>6, Zenon DEF LdxValue
<1> QED BY <1>7, <1>8

\* A jump leads behind itself: its offset is not negative.
LEMMA JumpsLeadForward ==
  ASSUME Inv, pkt # NoPacket, pc < Len(program),
         NEW off \in JumpOffset(Insn, Source(Insn))
  PROVE  Target(off) \in Nat /\ Target(off) > pc
<1>1. off \in Nat
  <2>1. Insn.k \in Nat /\ Insn.jt \in U8 /\ Insn.jf \in U8
    BY InstructionFields, Zenon
  <2>2. \A v \in U8 : v \in Nat
    BY SMT DEF U8
  <2> QED BY <2>1, <2>2, Zenon DEF JumpOffset
<1>2. pc \in Nat
  BY InstructionFields, Zenon
<1> QED BY <1>1, <1>2, SMT DEF Target

(***************************************************************************)
(* The invariant.                                                          *)
(***************************************************************************)

LEMMA InitInv == MachineInit => Inv
<1> SUFFICES ASSUME MachineInit
             PROVE  Inv
  OBVIOUS
<1>1. 0 \in U32
  BY WordSize, InU32, SMT
<1>2. program \in Seq(Instruction) /\ pc \in 0..Len(program)
  BY SMT DEF MachineInit
<1>4. Fits(program)
  BY <1>2, InstructionsFit
<1>3. m \in [0..15 -> U32]
  BY <1>1, Zenon DEF MachineInit
<1> QED BY <1>1, <1>2, <1>3, <1>4, Zenon DEF MachineInit, Inv, MachineTypeOK

\* Another program, while no packet is filtered.
LEMMA NewProgramInv ==
  ASSUME Inv, pkt = NoPacket, Fits(program'), UNCHANGED <<pkt, machine, result>>
  PROVE  Inv'
<1>1. Len(program') \in Nat
  <2>1. PICK S : program' \in Seq(S)
    BY Zenon DEF Fits
  <2> QED BY <2>1, SMT
<1>2. pc' = 0 /\ 0 \in 0..Len(program')
  BY <1>1, SMT DEF Inv, machine
<1> QED BY <1>2, Zenon DEF Inv, MachineTypeOK, machine

LEMMA LoadInv ==
  ASSUME Inv, NEW p \in Programs, LoadProgram(p)
  PROVE  Inv'
<1>1. Fits(p)
  BY WordAssumption, InstructionsFit
<1> QED BY <1>1, NewProgramInv, Zenon DEF LoadProgram

LEMMA FilterInv ==
  ASSUME Inv, NEW p \in Packets, Filter(p)
  PROVE  Inv'
<1>1. p # NoPacket
  <2>1. p \in Packet
    BY WordAssumption, Zenon
  <2>2. DOMAIN p # DOMAIN NoPacket
    BY <2>1, SMT DEF Packet, NoPacket
  <2> QED BY <2>2, Zenon
<1> QED BY <1>1, Zenon DEF Filter, Inv, MachineTypeOK, machine

\* `return v` keeps it, for a word.
LEMMA ReturnInv ==
  ASSUME Inv, pkt # NoPacket, NEW v \in U32, Returns(v)
  PROVE  Inv' /\ result' # NoResult
<1>1. v # NoResult
  BY WordIsNat, SMT DEF NoResult
<1> QED BY <1>1, Zenon DEF Returns, Inv, MachineTypeOK, machine

\* An instruction that does not return goes on inside the program.
LEMMA StepOnInv ==
  ASSUME Inv, pkt # NoPacket, Stay, pc' \in 0..Len(program),
         a' \in U32, x' \in U32, m' \in [0..15 -> U32]
  PROVE  Inv'
BY Zenon DEF Stay, Inv, MachineTypeOK

LEMMA ZeroIsWord == 0 \in U32
BY WordSize, InU32, SMT

LEMMA StepLdForward ==
  ASSUME Inv, StepLd
  PROVE  Forward
<1>1. pkt # NoPacket /\ pc < Len(program)
  BY Zenon DEF StepLd, Running
<1>2. CASE Returns(0)
  BY <1>1, <1>2, ReturnInv, ZeroIsWord, Zenon DEF Forward
<1>3. ASSUME NEW v \in LdValue(Insn), a' = v, pc' = pc + 1, UNCHANGED <<x, m>>, Stay
      PROVE  Forward
  <2>1. a' \in U32
    BY <1>1, <1>3, LoadIsWord, Zenon
  <2>2. pc \in Nat /\ pc + 1 \in 0..Len(program)
    BY <1>1, InstructionFields, Zenon
  <2>3. pc' > pc
    BY <1>3, <2>2, SMT
  <2> QED BY <1>1, <1>3, <2>1, <2>2, <2>3, StepOnInv, Zenon DEF Forward, Inv, MachineTypeOK
<1> QED BY <1>2, <1>3, Zenon DEF StepLd

LEMMA StepLdxForward ==
  ASSUME Inv, StepLdx
  PROVE  Forward
<1>1. pkt # NoPacket /\ pc < Len(program)
  BY Zenon DEF StepLdx, Running
<1>2. CASE Returns(0)
  BY <1>1, <1>2, ReturnInv, ZeroIsWord, Zenon DEF Forward
<1>3. ASSUME NEW v \in LdxValue(Insn), x' = v, pc' = pc + 1, UNCHANGED <<a, m>>, Stay
      PROVE  Forward
  <2>1. x' \in U32
    BY <1>1, <1>3, LoadIsWord, Zenon
  <2>2. pc \in Nat /\ pc + 1 \in 0..Len(program)
    BY <1>1, InstructionFields, Zenon
  <2>3. pc' > pc
    BY <1>3, <2>2, SMT
  <2> QED BY <1>1, <1>3, <2>1, <2>2, <2>3, StepOnInv, Zenon DEF Forward, Inv, MachineTypeOK
<1> QED BY <1>2, <1>3, Zenon DEF StepLdx

LEMMA StepStForward ==
  ASSUME Inv, StepSt
  PROVE  Forward
<1>1. pkt # NoPacket /\ pc < Len(program)
  BY Zenon DEF StepSt, Running
<1>2. a \in U32 /\ x \in U32 /\ m \in [0..15 -> U32]
  BY Zenon DEF Inv, MachineTypeOK
<1>3. m' \in [0..15 -> U32]
  BY <1>2, Zenon DEF StepSt
<1>4. pc \in Nat /\ pc + 1 \in 0..Len(program)
  BY <1>1, InstructionFields, Zenon
<1>5. pc' = pc + 1 /\ a' = a /\ x' = x /\ Stay
  BY Zenon DEF StepSt
<1>6. pc' > pc
  BY <1>4, <1>5, SMT
<1> QED BY <1>1, <1>2, <1>3, <1>4, <1>5, <1>6, StepOnInv, Zenon DEF Forward

LEMMA StepAluForward ==
  ASSUME Inv, StepAlu
  PROVE  Forward
<1>1. pkt # NoPacket /\ pc < Len(program)
  BY Zenon DEF StepAlu, Running
<1>2. CASE Returns(0)
  BY <1>1, <1>2, ReturnInv, ZeroIsWord, Zenon DEF Forward
<1>3. ASSUME NEW v \in AluValue(Insn.op, Source(Insn)),
             a' = v, pc' = pc + 1, UNCHANGED <<x, m>>, Stay
      PROVE  Forward
  <2>1. a \in U32 /\ Source(Insn) \in U32
    BY <1>1, InstructionFields, Zenon DEF Inv, MachineTypeOK
  <2>2. a' \in U32
    BY <1>3, <2>1, AluIsWord, Zenon
  <2>3. pc \in Nat /\ pc + 1 \in 0..Len(program)
    BY <1>1, InstructionFields, Zenon
  <2>4. pc' > pc
    BY <1>3, <2>3, SMT
  <2> QED BY <1>1, <1>3, <2>2, <2>3, <2>4, StepOnInv, Zenon DEF Forward, Inv, MachineTypeOK
<1> QED BY <1>2, <1>3, Zenon DEF StepAlu

LEMMA StepJmpForward ==
  ASSUME Inv, StepJmp
  PROVE  Forward
<1>1. pkt # NoPacket /\ pc < Len(program)
  BY Zenon DEF StepJmp, Running
<1>2. CASE Returns(0)
  BY <1>1, <1>2, ReturnInv, ZeroIsWord, Zenon DEF Forward
<1>3. ASSUME NEW off \in JumpOffset(Insn, Source(Insn)), Target(off) \in 0..(Len(program) - 1),
             pc' = Target(off), UNCHANGED <<a, x, m>>, Stay
      PROVE  Forward
  <2>1. pc' > pc
    BY <1>1, <1>3, JumpsLeadForward, Zenon
  <2>2. Len(program) \in Nat
    BY <1>1, InstructionFields, Zenon
  <2>3. pc' \in 0..Len(program)
    BY <1>3, <2>2, SMT
  <2> QED BY <1>1, <1>3, <2>1, <2>3, StepOnInv, Zenon DEF Forward, Inv, MachineTypeOK
<1> QED BY <1>2, <1>3, Zenon DEF StepJmp

LEMMA RunForward ==
  ASSUME Inv, Run
  PROVE  Forward
<1>1. CASE StepRet
  <2>1. pkt # NoPacket /\ pc < Len(program) /\ Returns(Source(Insn))
    BY <1>1, Zenon DEF StepRet, Running
  <2>2. Source(Insn) \in U32
    BY <2>1, InstructionFields, Zenon
  <2> QED BY <2>1, <2>2, ReturnInv, Zenon DEF Forward
<1>2. CASE StepMisc
  <2>1. pkt # NoPacket /\ Returns(0)
    BY <1>2, Zenon DEF StepMisc, Running
  <2> QED BY <2>1, ReturnInv, ZeroIsWord, Zenon DEF Forward
<1>3. CASE RunsOff
  <2>1. U32Max \in U32
    BY WordSize, SMT DEF U32
  <2>2. pkt # NoPacket /\ (Returns(U32Max) \/ Returns(0))
    BY <1>3, Zenon DEF RunsOff
  <2> QED BY <2>1, <2>2, ReturnInv, ZeroIsWord, Zenon DEF Forward
<1> QED BY <1>1, <1>2, <1>3, StepLdForward, StepLdxForward, StepStForward,
           StepAluForward, StepJmpForward, Zenon DEF Run

LEMMA NextInv == Inv /\ [MachineNext]_machineVars => Inv'
<1>1. ASSUME Inv, UNCHANGED machineVars
      PROVE  Inv'
  BY <1>1, Zenon DEF machineVars, machine, Inv, MachineTypeOK
<1> QED BY <1>1, LoadInv, FilterInv, RunForward, Zenon DEF MachineNext, Forward

(* A program, whatever instructions a client has put into it and wherever   *)
(* they jump, is left at its end at the latest, reaches no cell beyond the  *)
(* sixteen and computes nothing wider than a word (bpf.rs:102-260).         *)
THEOREM MachineTypeCorrect == MachineSpec => []MachineTypeOK
<1>1. MachineSpec => []Inv
  BY InitInv, NextInv, PTL DEF MachineSpec
<1>2. Inv => MachineTypeOK
  BY DEF Inv
<1> QED BY <1>1, <1>2, PTL

(* Every step of a filter on a packet goes forward in the program or        *)
(* returns: no program keeps a callout for more steps than it has           *)
(* instructions (bpf.rs:112-258).                                           *)
THEOREM NeverGoesBack == MachineSpec => RunsForward
<1> DEFINE Step == pkt # NoPacket => pc' > pc \/ result' # NoResult
<1>1. MachineSpec => []Inv
  BY InitInv, NextInv, PTL DEF MachineSpec
<1>2. Inv /\ [MachineNext]_machineVars => [Step]_machineVars
  <2>1. ASSUME NEW p, LoadProgram(p) \/ Filter(p)
        PROVE  pkt = NoPacket
    BY <2>1, Zenon DEF LoadProgram, Filter
  <2>2. ASSUME Inv, Run
        PROVE  Step
    BY <2>2, RunForward, Zenon DEF Forward
  <2> QED BY <2>1, <2>2, Zenon DEF MachineNext
<1> QED BY <1>1, <1>2, PTL DEF MachineSpec, RunsForward

(***************************************************************************)
(* 2. Induction, recursion and the readings of a text.                     *)
(***************************************************************************)

(***************************************************************************)
(* Induction and recursion.                                                *)
(***************************************************************************)

\* A set of numbers with 0 and with n + 1 for every n in it has every number.
LEMMA SetInduction ==
  ASSUME NEW S, 0 \in S, \A n \in Nat : n \in S => n + 1 \in S
  PROVE  Nat \subseteq S
<1> DEFINE U == {n \in Nat : n \notin S}
<1>1. SUFFICES ASSUME U # {} PROVE FALSE
  OBVIOUS
<1>2. PICK u \in U : \A v \in U : ~ (<<v, u>> \in OpToRel(<, Nat))
  <2>1. IsWellFoundedOn(OpToRel(<, Nat), Nat)
    BY NatLessThanWellFounded
  <2>2. U \subseteq Nat
    OBVIOUS
  <2> HIDE DEF U
  <2> QED BY <1>1, <2>1, <2>2, WFMin, Zenon
<1>3. u # 0 /\ u \in Nat /\ u \notin S
  OBVIOUS
<1>4. u - 1 \in Nat /\ <<u - 1, u>> \in Nat \X Nat /\ u - 1 < u
  BY <1>3
<1>5. u - 1 \notin U
  <2>1. <<u - 1, u>> \in OpToRel(<, Nat)
    BY <1>4 DEF OpToRel
  <2> QED BY <1>2, <2>1
<1>6. u - 1 \in S
  BY <1>4, <1>5
<1> QED BY <1>3, <1>4, <1>6

\* The recursive function in Readings does what its definition says.
LEMMA Iterates ==
  ASSUME NEW V, NEW v0 \in V, NEW F \in [Nat \X V -> V], NEW k \in Nat
  PROVE  \E g \in [0..k -> V] : Iteration(F, v0, k, g)
<1> DEFINE Good(n, g) == g[0] = v0 /\ \A i \in 1..n : g[i] = F[<<i, g[i - 1]>>]
           S == {n \in Nat : \E g \in [0..n -> V] : Good(n, g)}
<1>1. 0 \in S
  <2> DEFINE g == [i \in 0..0 |-> v0]
  <2>1. g \in [0..0 -> V] /\ g[0] = v0 /\ 1..0 = {}
    OBVIOUS
  <2> QED BY <2>1
<1>2. ASSUME NEW n \in Nat, n \in S PROVE n + 1 \in S
  <2>1. PICK g \in [0..n -> V] : Good(n, g)
    BY <1>2
  <2> DEFINE h == [i \in 0..(n + 1) |-> IF i \in 0..n THEN g[i] ELSE F[<<n + 1, g[n]>>]]
  <2>2. g[n] \in V /\ <<n + 1, g[n]>> \in Nat \X V
    OBVIOUS
  <2>3. F[<<n + 1, g[n]>>] \in V
    BY <2>2, Zenon
  <2>4. h \in [0..(n + 1) -> V]
    BY <2>3
  <2>5. h[0] = v0
    BY <2>1
  <2>6. ASSUME NEW i \in 1..(n + 1) PROVE h[i] = F[<<i, h[i - 1]>>]
    <3>1. CASE i \in 1..n
      <4>1. h[i] = g[i] /\ h[i - 1] = g[i - 1]
        BY <3>1
      <4> HIDE DEF h
      <4> QED BY <2>1, <3>1, <4>1
    <3>2. CASE i = n + 1
      <4>1. h[i] = F[<<n + 1, g[n]>>] /\ i - 1 = n /\ h[n] = g[n]
        BY <3>2
      <4> HIDE DEF h
      <4> QED BY <3>2, <4>1
    <3> QED BY <3>1, <3>2
  <2> HIDE DEF h
  <2>7. Good(n + 1, h)
    BY <2>5, <2>6
  <2> QED BY <2>4, <2>7
<1>3. Nat \subseteq S
  <2> HIDE DEF S
  <2> QED BY <1>1, <1>2, SetInduction
<1> QED BY <1>3 DEF Iteration

(***************************************************************************)
(* The readings of a text, as a table that explains itself.                *)
(***************************************************************************)

\* The table after n positions, by the table after n - 1.
LEMMA ReadingsUnfold ==
  ASSUME NEW s, NEW p
  PROVE  Readings(s, p) = (CHOOSE from : from = FromBody(s, p, from))[Len(s)]
BY DEF Readings, FromBody

\* "and", "or" and "not" of values; both connectives are associative.
LEMMA ValuesClosed ==
  /\ \A u, v \in Values : Conj(u, v) \in Values /\ Disj(u, v) \in Values
  /\ \A v \in Values : Neg(v) \in Values
  /\ \A u, v, w \in Values : Conj(Conj(u, v), w) = Conj(u, Conj(v, w))
  /\ \A u, v, w \in Values : Disj(Disj(u, v), w) = Disj(u, Disj(v, w))
  /\ \A v \in Values : Conj("yes", v) = v /\ Disj("no", v) = v
BY DEF Values, Conj, Disj, Neg

LEMMA TestedValue == \A p, n, h : Tested(p, n, h) \in Values
BY DEF Tested, Values

LEMMA TestValue ==
  ASSUME NEW p, NEW name, NEW dir, NEW v
  PROVE  TestSays(p, name, dir, v) \in Values
<1>1. "no" \in Values
  BY DEF Values
<1> QED BY <1>1, TestedValue, ValuesClosed, Zenon DEF TestSays

\* Where there is a token there is a next position.
LEMMA NotAtEnd ==
  ASSUME NEW s, NEW i, At(s, i) # "end"
  PROVE  i <= Len(s)
BY DEF At

LEMMA LaterPos ==
  ASSUME NEW s \in Seq(Token), NEW i \in Pos(s), At(s, i) # "end"
  PROVE  i \in 1..Len(s) /\ i + 1 \in Pos(s)
BY NotAtEnd DEF Pos

LEMMA PairIn ==
  ASSUME NEW s, NEW i \in Pos(s), NEW v \in Values
  PROVE  <<i, v>> \in Reads(s)
BY Zenon DEF Reads

LEMMA PairOf ==
  ASSUME NEW s, NEW r \in Reads(s)
  PROVE  r[1] \in Pos(s) /\ r[2] \in Values /\ r = <<r[1], r[2]>>
BY SMT DEF Reads

LEMMA RowOf ==
  ASSUME NEW s, NEW T \in Table(s), NEW i \in Pos(s)
  PROVE  /\ T[i].factors \subseteq Reads(s) /\ T[i].terms \subseteq Reads(s)
         /\ T[i].exprs \subseteq Reads(s)
<1>1. T[i] \in Row(s)
  BY Zenon DEF Table
<1>2. T[i].factors \in SUBSET Reads(s) /\ T[i].terms \in SUBSET Reads(s) /\ T[i].exprs \in SUBSET Reads(s)
  BY <1>1, SMT DEF Row
<1> QED BY <1>2, Zenon

LEMMA PrimitivePos ==
  ASSUME NEW s \in Seq(Token), NEW i \in Pos(s)
  PROVE  /\ NameAt(s, i) \in Nat
         /\ IsSimple(s, i) => NameAt(s, i) \in Pos(s) /\ NameAt(s, i) + 1 \in Pos(s)
         /\ HasArgument(s, i) => /\ NameAt(s, i) \in Pos(s) /\ NameAt(s, i) + 1 \in Pos(s)
                                 /\ NameAt(s, i) + 2 \in Pos(s) /\ At(s, NameAt(s, i) + 1) # "end"
<1> DEFINE n == NameAt(s, i)
<1>1. n \in Nat /\ n >= 1 /\ Len(s) \in Nat
  BY SMT DEF NameAt, Pos
<1>2. IsSimple(s, i) => At(s, n) # "end"
  BY Zenon DEF IsSimple, Simple
<1>3. HasArgument(s, i) => At(s, n + 1) # "end"
  BY SMT DEF HasArgument, IsArgument
<1>4. At(s, n) # "end" => n <= Len(s)
  BY NotAtEnd, Zenon
<1>5. At(s, n + 1) # "end" => n + 1 <= Len(s)
  BY NotAtEnd, Zenon
<1> HIDE DEF n
<1>6. IsSimple(s, i) => n \in Pos(s) /\ n + 1 \in Pos(s)
  BY <1>1, <1>2, <1>4, SMT DEF Pos
<1>7. HasArgument(s, i) => n \in Pos(s) /\ n + 1 \in Pos(s) /\ n + 2 \in Pos(s)
  BY <1>1, <1>3, <1>5, SMT DEF Pos
<1> QED BY <1>1, <1>3, <1>6, <1>7, Zenon DEF n

\* Readings are pairs of a position of the text and a value.
LEMMA FactorsTyped ==
  ASSUME NEW s \in Seq(Token), NEW p, NEW T \in Table(s), NEW i \in 1..Len(s)
  PROVE  FactorsAt(s, p, T, i) \subseteq Reads(s)
<1>1. i \in Pos(s) /\ i + 1 \in Pos(s)
  BY SMT DEF Pos
<1>2. CASE At(s, i) = "not"
  <2>1. FactorsAt(s, p, T, i) = {<<r[1], Neg(r[2])>> : r \in T[i + 1].factors}
    BY <1>2, Zenon DEF FactorsAt
  <2>2. ASSUME NEW r \in T[i + 1].factors PROVE <<r[1], Neg(r[2])>> \in Reads(s)
    BY <1>1, RowOf, PairOf, PairIn, ValuesClosed, Zenon
  <2> QED BY <2>1, <2>2, Zenon
<1>3. CASE At(s, i) = "("
  <2>1. FactorsAt(s, p, T, i) = {<<r[1] + 1, r[2]>> : r \in {q \in T[i + 1].exprs : At(s, q[1]) = ")"}}
    BY <1>3, Zenon DEF FactorsAt
  <2>2. ASSUME NEW r \in T[i + 1].exprs, At(s, r[1]) = ")" PROVE <<r[1] + 1, r[2]>> \in Reads(s)
    <3>1. r[1] \in Pos(s) /\ r[2] \in Values
      BY <1>1, RowOf, PairOf, Zenon
    <3>2. r[1] + 1 \in Pos(s)
      BY <2>2, <3>1, LaterPos, Zenon
    <3> QED BY <3>1, <3>2, PairIn, Zenon
  <2> QED BY <2>1, <2>2, Zenon
<1>4. CASE At(s, i) # "not" /\ At(s, i) # "("
  <2> DEFINE n == NameAt(s, i)
             a1 == <<n + 1, TestSays(p, At(s, n), "either", 0)>>
             a2 == <<n + 2, TestSays(p, At(s, n), Direction(s, i), s[n + 1].v)>>
  <2>1. FactorsAt(s, p, T, i) = IF IsSimple(s, i) THEN {a1} ELSE IF HasArgument(s, i) THEN {a2} ELSE {}
    BY <1>4, Zenon DEF FactorsAt
  <2>2. IsSimple(s, i) => a1 \in Reads(s)
    BY <1>1, PrimitivePos, TestValue, PairIn, Zenon
  <2>3. HasArgument(s, i) => a2 \in Reads(s)
    BY <1>1, PrimitivePos, TestValue, PairIn, Zenon
  <2> QED BY <2>1, <2>2, <2>3, Zenon
<1> QED BY <1>2, <1>3, <1>4, Zenon

LEMMA MoreTyped ==
  ASSUME NEW s \in Seq(Token), NEW T \in Table(s), NEW r \in Reads(s)
  PROVE  MoreFactors(s, T, r) \subseteq Reads(s) /\ MoreTerms(s, T, r) \subseteq Reads(s)
<1>1. r[1] \in Pos(s) /\ r[2] \in Values
  BY PairOf, Zenon
<1>2. ASSUME NEW q \in T[r[1]].terms \cup (IF At(s, r[1]) = "and" THEN T[r[1] + 1].terms ELSE {})
      PROVE  <<q[1], Conj(r[2], q[2])>> \in Reads(s)
  <2>1. q \in Reads(s)
    BY <1>1, <1>2, LaterPos, RowOf, Zenon
  <2> QED BY <1>1, <2>1, PairOf, PairIn, ValuesClosed, Zenon
<1>3. ASSUME NEW q \in (IF At(s, r[1]) = "or" THEN T[r[1] + 1].exprs ELSE {})
      PROVE  <<q[1], Disj(r[2], q[2])>> \in Reads(s)
  <2>1. q \in Reads(s)
    BY <1>1, <1>3, LaterPos, RowOf, Zenon
  <2> QED BY <1>1, <2>1, PairOf, PairIn, ValuesClosed, Zenon
<1> QED BY <1>2, <1>3, Zenon DEF MoreFactors, MoreTerms

LEMMA ReadingsTyped ==
  ASSUME NEW s \in Seq(Token), NEW p, NEW T \in Table(s), NEW i \in 1..Len(s)
  PROVE  ReadingsAt(s, p, T, i) \in Row(s)
<1> DEFINE F == FactorsAt(s, p, T, i)
           U == UNION {MoreFactors(s, T, r) : r \in F}
           E == UNION {MoreTerms(s, T, r) : r \in U}
<1>1. F \subseteq Reads(s)
  BY FactorsTyped, Zenon
<1>2. U \subseteq Reads(s)
  BY <1>1, MoreTyped, Zenon
<1>3. E \subseteq Reads(s)
  BY <1>2, MoreTyped, Zenon
<1>4. ReadingsAt(s, p, T, i) = [factors |-> F, terms |-> U, exprs |-> E]
  BY Zenon DEF ReadingsAt
<1> HIDE DEF F, U, E
<1> QED BY <1>1, <1>2, <1>3, <1>4, SMT DEF Row

\* A factor takes a token at least.
LEMMA FactorsGoOn ==
  ASSUME NEW s \in Seq(Token), NEW p, NEW T \in Table(s), Onward(s, T), NEW i \in 1..Len(s),
         NEW r \in FactorsAt(s, p, T, i)
  PROVE  r[1] > i
<1>1. i \in Pos(s) /\ i + 1 \in Pos(s) /\ i \in Nat
  BY SMT DEF Pos
<1>2. CASE At(s, i) = "not"
  <2>1. FactorsAt(s, p, T, i) = {<<q[1], Neg(q[2])>> : q \in T[i + 1].factors}
    BY <1>2, Zenon DEF FactorsAt
  <2>2. PICK q \in T[i + 1].factors : r = <<q[1], Neg(q[2])>>
    BY <2>1, Zenon
  <2>3. q[1] \in Pos(s) /\ q[1] > i + 1 /\ r[1] = q[1]
    BY <1>1, <2>2, RowOf, PairOf, Zenon DEF Onward
  <2> QED BY <1>1, <2>3, SMT DEF Pos
<1>3. CASE At(s, i) = "("
  <2>1. FactorsAt(s, p, T, i) = {<<q[1] + 1, q[2]>> : q \in {u \in T[i + 1].exprs : At(s, u[1]) = ")"}}
    BY <1>3, Zenon DEF FactorsAt
  <2>2. PICK q \in T[i + 1].exprs : r = <<q[1] + 1, q[2]>>
    BY <2>1, Zenon
  <2>3. q[1] \in Pos(s) /\ q[1] > i + 1 /\ r[1] = q[1] + 1
    BY <1>1, <2>2, RowOf, PairOf, Zenon DEF Onward
  <2> QED BY <1>1, <2>3, SMT DEF Pos
<1>4. CASE At(s, i) # "not" /\ At(s, i) # "("
  <2> DEFINE n == NameAt(s, i)
             a1 == <<n + 1, TestSays(p, At(s, n), "either", 0)>>
             a2 == <<n + 2, TestSays(p, At(s, n), Direction(s, i), s[n + 1].v)>>
  <2>1. FactorsAt(s, p, T, i) = IF IsSimple(s, i) THEN {a1} ELSE IF HasArgument(s, i) THEN {a2} ELSE {}
    BY <1>4, Zenon DEF FactorsAt
  <2>2. r[1] = n + 1 \/ r[1] = n + 2
    <3>1. r = a1 \/ r = a2
      BY <2>1, Zenon
    <3>2. a1[1] = n + 1 /\ a2[1] = n + 2
      BY Zenon
    <3> HIDE DEF a1, a2
    <3> QED BY <3>1, <3>2, Zenon
  <2>3. n = i \/ n = i + 1
    BY Zenon DEF NameAt
  <2> HIDE DEF n
  <2> QED BY <1>1, <2>2, <2>3, SMT
<1> QED BY <1>2, <1>3, <1>4, Zenon

LEMMA MoreGoOn ==
  ASSUME NEW s \in Seq(Token), NEW T \in Table(s), Onward(s, T), NEW r \in Reads(s),
         NEW q \in MoreFactors(s, T, r) \cup MoreTerms(s, T, r)
  PROVE  q[1] = r[1] \/ q[1] > r[1]
<1>1. r[1] \in Pos(s)
  BY PairOf, Zenon
<1>2. ASSUME NEW u \in T[r[1]].terms PROVE u[1] > r[1]
  BY <1>1, Zenon DEF Onward
<1>3. ASSUME At(s, r[1]) # "end", NEW u \in T[r[1] + 1].terms \cup T[r[1] + 1].exprs PROVE u[1] > r[1]
  <2>1. r[1] + 1 \in Pos(s)
    BY <1>1, <1>3, LaterPos, Zenon
  <2>2. u[1] > r[1] + 1 /\ u[1] \in Pos(s)
    BY <2>1, <1>3, RowOf, PairOf, Zenon DEF Onward
  <2> QED BY <1>1, <2>2, SMT DEF Pos
<1>4. CASE q \in MoreFactors(s, T, r)
  <2>1. CASE q = r
    BY <2>1
  <2>2. CASE q # r
    <3>1. PICK u \in T[r[1]].terms \cup (IF At(s, r[1]) = "and" THEN T[r[1] + 1].terms ELSE {}) :
               q = <<u[1], Conj(r[2], u[2])>>
      BY <1>4, <2>2, Zenon DEF MoreFactors
    <3>2. q[1] = u[1]
      BY <3>1
    <3>3. CASE At(s, r[1]) = "and"
      BY <1>2, <1>3, <3>1, <3>2, <3>3, Zenon
    <3>4. CASE At(s, r[1]) # "and"
      BY <1>2, <3>1, <3>2, <3>4, Zenon
    <3> QED BY <3>3, <3>4
  <2> QED BY <2>1, <2>2
<1>5. CASE q \in MoreTerms(s, T, r)
  <2>1. CASE q = r
    BY <2>1
  <2>2. CASE q # r
    <3>1. PICK u \in (IF At(s, r[1]) = "or" THEN T[r[1] + 1].exprs ELSE {}) :
               q = <<u[1], Disj(r[2], u[2])>>
      BY <1>5, <2>2, Zenon DEF MoreTerms
    <3>2. q[1] = u[1]
      BY <3>1
    <3>3. At(s, r[1]) = "or" /\ u \in T[r[1] + 1].exprs
      BY <3>1, Zenon
    <3> QED BY <1>3, <3>2, <3>3, Zenon
  <2> QED BY <2>1, <2>2
<1> QED BY <1>4, <1>5, Zenon

LEMMA ReadingsGoOn ==
  ASSUME NEW s \in Seq(Token), NEW p, NEW T \in Table(s), Onward(s, T), NEW i \in 1..Len(s),
         NEW r \in ReadingsAt(s, p, T, i).factors \cup ReadingsAt(s, p, T, i).terms
                   \cup ReadingsAt(s, p, T, i).exprs
  PROVE  r[1] > i
<1> DEFINE F == FactorsAt(s, p, T, i)
           U == UNION {MoreFactors(s, T, q) : q \in F}
           E == UNION {MoreTerms(s, T, q) : q \in U}
<1>1. ReadingsAt(s, p, T, i).factors = F /\ ReadingsAt(s, p, T, i).terms = U /\ ReadingsAt(s, p, T, i).exprs = E
  BY Zenon DEF ReadingsAt
<1>2. F \subseteq Reads(s) /\ U \subseteq Reads(s)
  <2>1. F \subseteq Reads(s)
    BY FactorsTyped, Zenon
  <2> QED BY <2>1, MoreTyped, Zenon
<1>3. \A q \in F : q[1] > i
  BY FactorsGoOn, Zenon
<1>4. ASSUME NEW u \in Pos(s), NEW v, u > i, v = u \/ v > u, v \in Pos(s) PROVE v > i
  BY <1>4, SMT DEF Pos
<1>5. ASSUME NEW q \in U PROVE q[1] > i
  <2>1. PICK u \in F : q \in MoreFactors(s, T, u)
    BY Zenon
  <2>2. q[1] = u[1] \/ q[1] > u[1]
    BY <1>2, <2>1, MoreGoOn, Zenon
  <2>3. u[1] \in Pos(s) /\ q[1] \in Pos(s) /\ u[1] > i
    BY <1>2, <1>3, PairOf, Zenon
  <2> QED BY <1>4, <2>2, <2>3, Zenon
<1>6. ASSUME NEW q \in E PROVE q[1] > i
  <2>1. PICK u \in U : q \in MoreTerms(s, T, u)
    BY Zenon
  <2>2. q[1] = u[1] \/ q[1] > u[1]
    BY <1>2, <2>1, MoreGoOn, Zenon
  <2>3. u[1] \in Pos(s) /\ u[1] > i
    BY <1>2, <1>5, PairOf, Zenon
  <2>4. q \in Reads(s)
    BY <1>2, <2>1, MoreTyped, Zenon
  <2>5. q[1] \in Pos(s)
    BY <2>4, PairOf, Zenon
  <2> QED BY <1>4, <2>2, <2>3, <2>5, Zenon
<1> HIDE DEF F, U, E
<1> QED BY <1>1, <1>3, <1>5, <1>6, Zenon

\* What is read at i depends on the rows behind i alone.
LEMMA ReadingsLocal ==
  ASSUME NEW s \in Seq(Token), NEW p, NEW T \in Table(s), Onward(s, T), NEW i \in 1..Len(s),
         NEW R, \A j \in Pos(s) : j > i => R[j] = T[j]
  PROVE  ReadingsAt(s, p, R, i) = ReadingsAt(s, p, T, i)
<1> DEFINE F == FactorsAt(s, p, T, i)
           U == UNION {MoreFactors(s, T, q) : q \in F}
<1>1. F \subseteq Reads(s) /\ U \subseteq Reads(s)
  <2>1. F \subseteq Reads(s)
    BY FactorsTyped, Zenon
  <2> QED BY <2>1, MoreTyped, Zenon
<1>2. (\A q \in F : q[1] > i) /\ (\A q \in U : q[1] > i)
  <2>1. F = ReadingsAt(s, p, T, i).factors /\ U = ReadingsAt(s, p, T, i).terms
    BY Zenon DEF ReadingsAt
  <2> HIDE DEF F, U
  <2> QED BY <2>1, ReadingsGoOn, Zenon
<1>3. R[i + 1] = T[i + 1]
  <2>1. i + 1 \in Pos(s) /\ i + 1 > i
    BY SMT DEF Pos
  <2> QED BY <2>1, Zenon
<1>4. FactorsAt(s, p, R, i) = F
  BY <1>3, Zenon DEF FactorsAt
<1>5. ASSUME NEW q \in F \cup U PROVE MoreFactors(s, R, q) = MoreFactors(s, T, q) /\ MoreTerms(s, R, q) = MoreTerms(s, T, q)
  <2>1. q[1] \in Pos(s) /\ q[1] > i
    BY <1>1, <1>2, PairOf, Zenon
  <2>2. R[q[1]] = T[q[1]]
    BY <2>1, Zenon
  <2>3. At(s, q[1]) # "end" => R[q[1] + 1] = T[q[1] + 1]
    <3>1. SUFFICES ASSUME At(s, q[1]) # "end" PROVE q[1] + 1 \in Pos(s) /\ q[1] + 1 > i
      BY Zenon
    <3>2. q[1] + 1 \in Pos(s)
      BY <2>1, <3>1, LaterPos, Zenon
    <3>3. q[1] + 1 > i
      BY <2>1, SMT DEF Pos
    <3> QED BY <3>2, <3>3
  <2> HIDE DEF F, U
  <2>4. CASE At(s, q[1]) = "and"
    BY <2>2, <2>3, <2>4, Zenon DEF MoreFactors, MoreTerms
  <2>5. CASE At(s, q[1]) = "or"
    BY <2>2, <2>3, <2>5, Zenon DEF MoreFactors, MoreTerms
  <2>6. CASE At(s, q[1]) # "and" /\ At(s, q[1]) # "or"
    BY <2>2, <2>6, Zenon DEF MoreFactors, MoreTerms
  <2> QED BY <2>4, <2>5, <2>6, Zenon
<1>6. UNION {MoreFactors(s, R, q) : q \in F} = U
  BY <1>5, Zenon
<1>7. UNION {MoreTerms(s, R, q) : q \in U} = UNION {MoreTerms(s, T, q) : q \in U}
  <2> HIDE DEF F, U
  <2> QED BY <1>5, Zenon
<1> QED BY <1>4, <1>6, <1>7, Zenon DEF ReadingsAt

\* The table explains itself: each row follows from the table, and nothing is read
\* at the end.
LEMMA ReadingsTable ==
  ASSUME NEW s \in Seq(Token), NEW p
  PROVE  /\ Readings(s, p) \in Table(s)
         /\ \A i \in 1..Len(s) : Readings(s, p)[i] = ReadingsAt(s, p, Readings(s, p), i)
         /\ Readings(s, p)[Len(s) + 1] = Nothing
<1> DEFINE N == Len(s)
           V == {T \in Table(s) : Onward(s, T)}
           v0 == [i \in 1..(N + 1) |-> Nothing]
           Next1(n, T) == [T EXCEPT ![N + 1 - n] = ReadingsAt(s, p, T, N + 1 - n)]
           F == [q \in Nat \X V |-> IF q[1] \in 1..N THEN Next1(q[1], q[2]) ELSE v0]
<1>1. N \in Nat
  OBVIOUS
<1>2. v0 \in V
  <2>1. Nothing \in Row(s)
    BY SMT DEF Nothing, Row
  <2>2. v0 \in Table(s)
    BY <2>1, Zenon DEF Table, Pos
  <2>3. \A i \in Pos(s) : v0[i] = Nothing
    BY Zenon DEF Pos
  <2>4. Nothing.factors = {} /\ Nothing.terms = {} /\ Nothing.exprs = {}
    BY Zenon DEF Nothing
  <2>5. Onward(s, v0)
    BY <2>3, <2>4, Zenon DEF Onward
  <2> QED BY <2>2, <2>5
<1>3. ASSUME NEW n \in 1..N, NEW T \in V PROVE Next1(n, T) \in V
  <2>1. T \in Table(s) /\ Onward(s, T)
    OBVIOUS
  <2>2. N + 1 - n \in 1..Len(s) /\ N + 1 - n \in Pos(s)
    BY SMT DEF Pos
  <2> DEFINE k == N + 1 - n
             row == ReadingsAt(s, p, T, k)
             R == [T EXCEPT ![k] = row]
  <2>3. row \in Row(s)
    BY <2>1, <2>2, ReadingsTyped, Zenon
  <2>4. \A r \in row.factors \cup row.terms \cup row.exprs : r[1] > k
    BY <2>1, <2>2, ReadingsGoOn, Zenon
  <2> HIDE DEF row, k
  <2>5. k \in Pos(s)
    BY <2>2 DEF k
  <2>6. R \in Table(s)
    BY <2>1, <2>3, <2>5, Zenon DEF Table
  <2>7. \A i \in Pos(s) : R[i] = IF i = k THEN row ELSE T[i]
    BY <2>1, <2>5, Zenon DEF Table
  <2>8. Onward(s, R)
    <3> HIDE DEF R
    <3> QED BY <2>1, <2>4, <2>7, Zenon DEF Onward
  <2>9. R \in V
    BY <2>6, <2>8
  <2> QED BY <2>9, Zenon DEF R, row, k
<1>4. F \in [Nat \X V -> V]
  <2> HIDE DEF V, v0
  <2>1. ASSUME NEW q \in Nat \X V PROVE F[q] \in V
    <3>1. q[1] \in Nat /\ q[2] \in V
      BY SMT
    <3> QED BY <1>2, <1>3, <3>1, Zenon
  <2> QED BY <2>1, Zenon
<1>5. PICK g \in [0..N -> V] : g[0] = v0 /\ \A i \in 1..N : g[i] = F[<<i, g[i - 1]>>]
  <2> HIDE DEF V, v0, F
  <2>1. \E g \in [0..N -> V] : Iteration(F, v0, N, g)
    BY <1>1, <1>2, <1>4, Iterates, Zenon
  <2> QED BY <2>1, Zenon DEF Iteration
<1>6. ASSUME NEW n \in 1..N PROVE g[n - 1] \in V /\ g[n] = Next1(n, g[n - 1])
  <2>1. n - 1 \in 0..N /\ n \in Nat
    BY SMT
  <2>2. g[n - 1] \in V
    BY <2>1, Zenon
  <2>3. g[n] = F[<<n, g[n - 1]>>]
    BY <1>5, Zenon
  <2> HIDE DEF V
  <2>4. <<n, g[n - 1]>> \in Nat \X V
    BY <2>1, <2>2, Zenon
  <2>5. F[<<n, g[n - 1]>>] = Next1(n, g[n - 1])
    BY <2>4, Zenon
  <2> QED BY <2>2, <2>3, <2>5, Zenon
<1> DEFINE f == CHOOSE h : h = FromBody(s, p, h)
<1>7. g = FromBody(s, p, g)
  <2>1. \A n \in 0..N : g[n] = FromBody(s, p, g)[n]
    <3>1. SUFFICES ASSUME NEW n \in 0..N PROVE g[n] = FromBody(s, p, g)[n]
      OBVIOUS
    <3>2. CASE n = 0
      BY <1>5, <3>2, Zenon DEF FromBody, Nothing
    <3>3. CASE n # 0
      <4>1. n \in 1..N
        BY <3>3, SMT
      <4>2. FromBody(s, p, g)[n] = Next1(n, g[n - 1])
        BY <3>3, Zenon DEF FromBody
      <4> HIDE DEF Next1
      <4> QED BY <4>1, <4>2, <1>6, Zenon
    <3> QED BY <3>2, <3>3
  <2>2. g = [n \in 0..N |-> g[n]]
    BY Zenon
  <2>3. FromBody(s, p, g) = [n \in 0..N |-> FromBody(s, p, g)[n]]
    BY Zenon DEF FromBody
  <2> QED BY <2>1, <2>2, <2>3, Zenon
<1>8. f = FromBody(s, p, f)
  BY <1>7, Zenon
<1>9. \A n \in 0..N : f[n] = g[n]
  <2> HIDE DEF V, F, v0
  <2>1. f[0] = v0
    <3>1. 0 \in 0..N
      BY <1>1
    <3> HIDE DEF f
    <3>2. FromBody(s, p, f)[0] = v0
      BY <3>1, Zenon DEF FromBody, v0, Nothing
    <3> QED BY <1>8, <3>2, Zenon
  <2>2. \A n \in 1..N : f[n] = Next1(n, f[n - 1])
    <3>1. SUFFICES ASSUME NEW n \in 1..N PROVE FromBody(s, p, f)[n] = Next1(n, f[n - 1])
      BY <1>8, Zenon
    <3>2. n \in 0..N /\ n # 0
      BY SMT
    <3> HIDE DEF f
    <3> QED BY <3>2, Zenon DEF FromBody
  <2> DEFINE S == {n \in Nat : n \in 0..N => f[n] = g[n]}
  <2>3. 0 \in S
    BY <1>5, <2>1
  <2>4. ASSUME NEW n \in Nat, n \in S PROVE n + 1 \in S
    <3>1. SUFFICES ASSUME n + 1 \in 0..N PROVE f[n + 1] = g[n + 1]
      OBVIOUS
    <3>2. n + 1 \in 1..N /\ (n + 1) - 1 = n /\ n \in 0..N
      BY <3>1, <1>1, SMT
    <3>3. f[n] = g[n]
      BY <2>4, <3>2
    <3> HIDE DEF Next1, f
    <3>4. PICK k \in 1..N : k = n + 1 /\ k - 1 = n
      BY <3>2
    <3>5. f[k] = Next1(k, f[k - 1]) /\ g[k] = Next1(k, g[k - 1])
      BY <1>6, <2>2, Zenon
    <3> QED BY <3>3, <3>4, <3>5, Zenon
  <2>5. Nat \subseteq S
    <3> HIDE DEF S
    <3> QED BY <2>3, <2>4, SetInduction, Zenon
  <2>6. \A n \in 0..N : n \in Nat
    OBVIOUS
  <2> QED BY <2>5, <2>6, Zenon
<1> DEFINE T == g[N]
<1>10. Readings(s, p) = T
  <2>1. N \in 0..N
    BY <1>1
  <2> HIDE DEF f
  <2>2. Readings(s, p) = f[N]
    BY ReadingsUnfold, Zenon DEF f
  <2> QED BY <1>9, <2>1, <2>2, Zenon
<1>11. T \in V
  BY <1>1
\* Later steps leave a row alone.
<1>12. ASSUME NEW b \in 0..N PROVE \A j \in Pos(s) : j >= N + 1 - b => T[j] = g[b][j]
  <2> DEFINE S == {n \in Nat : n <= N - b => \A j \in Pos(s) : j >= N + 1 - b => g[b + n][j] = g[b][j]}
  <2>1. 0 \in S
    <3>1. b + 0 = b
      BY SMT
    <3> QED BY <3>1, Zenon
  <2>2. ASSUME NEW n \in Nat, n \in S PROVE n + 1 \in S
    <3>0. n + 1 \in Nat
      BY SMT
    <3>1. SUFFICES ASSUME n + 1 <= N - b, NEW j \in Pos(s), j >= N + 1 - b
                   PROVE  g[b + (n + 1)][j] = g[b][j]
      BY <3>0, Zenon
    <3>2. n <= N - b /\ b + (n + 1) \in 1..N /\ (b + (n + 1)) - 1 = b + n
      BY <1>1, <3>1, SMT
    <3>3. g[b + n][j] = g[b][j]
      BY <2>2, <3>1, <3>2, Zenon
    <3>4. PICK k \in 1..N : k = b + (n + 1) /\ k - 1 = b + n
      BY <3>2, Zenon
    <3>5. g[k] = Next1(k, g[k - 1]) /\ g[k - 1] \in Table(s)
      BY <1>6, Zenon
    <3>6. j # N + 1 - k
      BY <1>1, <3>1, <3>4, SMT DEF Pos
    <3>7. g[k][j] = g[k - 1][j]
      BY <3>5, <3>6, Zenon DEF Table
    <3> QED BY <3>3, <3>4, <3>7, Zenon
  <2>3. Nat \subseteq S
    <3> HIDE DEF S
    <3> QED BY <2>1, <2>2, SetInduction, Zenon
  <2>4. N - b \in Nat /\ N - b <= N - b /\ b + (N - b) = N
    BY <1>1, SMT
  <2>5. N - b \in S
    BY <2>3, <2>4, Zenon
  <2> QED BY <2>4, <2>5, Zenon
<1>13. ASSUME NEW i \in 1..N PROVE T[i] = ReadingsAt(s, p, T, i)
  <2>1. PICK n \in 1..N : i = N + 1 - n /\ n - 1 \in 0..N
    <3>1. N + 1 - i \in 1..N /\ i = N + 1 - (N + 1 - i) /\ (N + 1 - i) - 1 \in 0..N
      BY <1>1, SMT
    <3> QED BY <3>1, Zenon
  <2>2. g[n] = Next1(n, g[n - 1]) /\ g[n - 1] \in V /\ g[n - 1] \in Table(s) /\ Onward(s, g[n - 1])
    BY <1>6, Zenon
  <2>3. i \in Pos(s) /\ n \in 0..N
    BY <2>1, SMT DEF Pos
  <2>4. g[n][i] = ReadingsAt(s, p, g[n - 1], i)
    BY <2>1, <2>2, <2>3, Zenon DEF Table
  <2>5. T[i] = g[n][i]
    <3>1. i >= N + 1 - n
      BY <2>1, SMT
    <3> HIDE DEF T
    <3> QED BY <1>12, <2>3, <3>1, Zenon
  <2>6. \A j \in Pos(s) : j > i => T[j] = g[n - 1][j]
    <3>1. ASSUME NEW j \in Pos(s), j > i PROVE j >= N + 1 - (n - 1)
      BY <2>1, <3>1, <1>1, SMT DEF Pos
    <3> HIDE DEF T
    <3> QED BY <1>12, <2>1, <3>1, Zenon
  <2> HIDE DEF T, V
  <2>7. ReadingsAt(s, p, T, i) = ReadingsAt(s, p, g[n - 1], i)
    <3>1. i \in 1..Len(s)
      OBVIOUS
    <3> DEFINE G == g[n - 1]
    <3>2. G \in Table(s) /\ Onward(s, G) /\ \A j \in Pos(s) : j > i => T[j] = G[j]
      BY <2>2, <2>6
    <3> HIDE DEF G, N
    <3>3. ReadingsAt(s, p, T, i) = ReadingsAt(s, p, G, i)
      BY <3>1, <3>2, ReadingsLocal, Zenon
    <3> QED BY <3>3 DEF G
  <2> QED BY <2>4, <2>5, <2>7, Zenon
<1>14. T[N + 1] = Nothing
  <2>1. N + 1 \in Pos(s) /\ 0 \in 0..N /\ N + 1 >= N + 1 - 0
    BY <1>1, SMT DEF Pos
  <2>2. T[N + 1] = g[0][N + 1]
    <3> HIDE DEF T
    <3> QED BY <1>12, <2>1, Zenon
  <2>3. v0[N + 1] = Nothing
    BY <2>1, Zenon DEF Pos
  <2> HIDE DEF v0
  <2> QED BY <1>5, <2>2, <2>3, Zenon
<1> HIDE DEF T
<1> QED BY <1>10, <1>11, <1>13, <1>14, Zenon

(***************************************************************************)
(* Sequences of any kind of item.                                          *)
(***************************************************************************)

\* Items of sequences that are joined.
LEMMA Joined ==
  ASSUME NEW S, NEW s \in Seq(S), NEW t \in Seq(S)
  PROVE  /\ s \o t \in Seq(S) /\ Len(s \o t) = Len(s) + Len(t) /\ Len(s) \in Nat /\ Len(t) \in Nat
         /\ \A i \in 1..Len(s) : (s \o t)[i] = s[i]
         /\ \A i \in 1..Len(t) : (s \o t)[Len(s) + i] = t[i]
<1>1. s \o t \in Seq(S) /\ Len(s \o t) = Len(s) + Len(t) /\ Len(s) \in Nat /\ Len(t) \in Nat
  OBVIOUS
<1>2. \A i \in 1..Len(s) : (s \o t)[i] = s[i]
  OBVIOUS
<1>3. ASSUME NEW i \in 1..Len(t) PROVE (s \o t)[Len(s) + i] = t[i]
  <2>1. Len(s) + i \in 1..(Len(s) + Len(t)) /\ Len(s) + i > Len(s) /\ (Len(s) + i) - Len(s) = i
    BY <1>1
  <2> QED BY <1>1, <2>1
<1> QED BY <1>1, <1>2, <1>3

LEMMA Pushed ==
  ASSUME NEW S, NEW s \in Seq(S), NEW c
  PROVE  /\ s \in Seq(S \cup {c}) /\ Append(s, c) \in Seq(S \cup {c})
         /\ Len(s) \in Nat /\ Len(Append(s, c)) = Len(s) + 1
         /\ \A i \in 1..Len(s) : Append(s, c)[i] = s[i]
         /\ Append(s, c)[Len(s) + 1] = c
         /\ s \o <<c>> = Append(s, c)
<1> DEFINE R == S \cup {c}
<1>1. s \in Seq(R)
  OBVIOUS
<1>2. c \in R
  OBVIOUS
<1> HIDE DEF R
<1>3. /\ Append(s, c) \in Seq(R) /\ Len(s) \in Nat /\ Len(Append(s, c)) = Len(s) + 1
      /\ \A i \in 1..Len(s) : Append(s, c)[i] = s[i]
      /\ Append(s, c)[Len(s) + 1] = c
  BY <1>1, <1>2
<1>4. s \o <<c>> = Append(s, c)
  BY <1>1, <1>2
<1> QED BY <1>1, <1>3, <1>4 DEF R

LEMMA Popped ==
  ASSUME NEW S, NEW s \in Seq(S), s # <<>>
  PROVE  /\ SubSeq(s, 1, Len(s) - 1) \in Seq(S) /\ Len(s) \in Nat /\ Len(s) >= 1
         /\ Len(SubSeq(s, 1, Len(s) - 1)) = Len(s) - 1
         /\ \A i \in 1..(Len(s) - 1) : SubSeq(s, 1, Len(s) - 1)[i] = s[i]
<1>1. Len(s) \in Nat /\ Len(s) >= 1
  OBVIOUS
<1> DEFINE n == Len(s) - 1
<1>2. 1 \in Int /\ n \in Int /\ n >= 0 /\ \A i \in 1..n : s[i] \in S
  BY <1>1
<1> HIDE DEF n
<1>3. SubSeq(s, 1, n) \in Seq(S)
  BY <1>2, SMT
<1>4. Len(SubSeq(s, 1, n)) = n
  BY <1>2, SMT
<1>5. \A i \in 1..n : SubSeq(s, 1, n)[i] = s[i]
  BY <1>2, SMT
<1> QED BY <1>1, <1>3, <1>4, <1>5 DEF n

\* One more and two more.
LEMMA PushedTwo ==
  ASSUME NEW S, NEW s \in Seq(S), NEW c, NEW d
  PROVE  s \o <<c, d>> = Append(Append(s, c), d)
<1> DEFINE R == S \cup {c, d}
<1>1. s \in Seq(R) /\ c \in R /\ d \in R
  OBVIOUS
<1> HIDE DEF R
<1> QED BY <1>1

LEMMA PushedThree ==
  ASSUME NEW S, NEW s \in Seq(S), NEW c, NEW d, NEW e
  PROVE  /\ s \o <<c, d, e>> = Append(Append(Append(s, c), d), e)
         /\ Append(s, c) \o <<d, e>> = Append(Append(Append(s, c), d), e)
<1> DEFINE R == S \cup {c, d, e}
<1>1. s \in Seq(R) /\ c \in R /\ d \in R /\ e \in R
  OBVIOUS
<1> HIDE DEF R
<1> QED BY <1>1

(***************************************************************************)
(* 3. Trees.                                                               *)
(***************************************************************************)

(***************************************************************************)
(* What a tree says of a packet.                                           *)
(***************************************************************************)

LEMMA BecauseMore ==
  ASSUME NEW D, NEW R, D \subseteq R, NEW p, NEW e, NEW v, Because(D, p, e, v)
  PROVE  Because(R, p, e, v)
BY Zenon DEF Because

\* What a tree says is a value, and comes from what its parts say.
LEMMA TreeSaysValue ==
  ASSUME NEW p, NEW e, NEW v, TreeSays(p, e, v)
  PROVE  /\ v \in Values
         /\ \/ /\ e.op = "and"
               /\ \E l, r \in Values : TreeSays(p, e.l, l) /\ TreeSays(p, e.r, r) /\ v = Conj(l, r)
            \/ /\ e.op = "or"
               /\ \E l, r \in Values : TreeSays(p, e.l, l) /\ TreeSays(p, e.r, r) /\ v = Disj(l, r)
            \/ e.op = "not" /\ \E l \in Values : TreeSays(p, e.l, l) /\ v = Neg(l)
            \/ e.op \in Simple \cup WithArgument /\ v = TestSays(p, e.op, e.dir, e.val)
<1>1. PICK D : Sayings(D, p) /\ <<e, v>> \in D
  BY Zenon DEF TreeSays
<1>2. PICK e2, v2 : <<e, v>> = <<e2, v2>> /\ v2 \in Values /\ Because(D, p, e2, v2)
  BY <1>1, Zenon DEF Sayings
<1>3. e = e2 /\ v = v2
  BY <1>2, Zenon
<1>4. v \in Values /\ Because(D, p, e, v)
  BY <1>2, <1>3, Zenon
<1>5. \A f, w : <<f, w>> \in D => TreeSays(p, f, w)
  BY <1>1, Zenon DEF TreeSays
<1> QED BY <1>4, <1>5, Zenon DEF Because

\* What its parts say makes what a tree says.
LEMMA TreeOf ==
  ASSUME NEW p, NEW D, Sayings(D, p), NEW e, NEW v \in Values, Because(D, p, e, v)
  PROVE  TreeSays(p, e, v)
<1> DEFINE R == D \cup {<<e, v>>}
<1>1. D \subseteq R /\ <<e, v>> \in R
  OBVIOUS
<1>2. ASSUME NEW d \in R PROVE \E f, w : d = <<f, w>> /\ w \in Values /\ Because(R, p, f, w)
  <2>1. CASE d \in D
    <3>1. PICK f, w : d = <<f, w>> /\ w \in Values /\ Because(D, p, f, w)
      BY <2>1, Zenon DEF Sayings
    <3> HIDE DEF R
    <3>2. Because(R, p, f, w)
      BY <1>1, <3>1, BecauseMore, Zenon
    <3> QED BY <3>1, <3>2, Zenon
  <2>2. CASE d = <<e, v>>
    <3> HIDE DEF R
    <3>1. Because(R, p, e, v)
      BY <1>1, BecauseMore, Zenon
    <3> QED BY <2>2, <3>1, Zenon
  <2> QED BY <2>1, <2>2
<1> HIDE DEF R
<1>3. Sayings(R, p)
  BY <1>2, Zenon DEF Sayings
<1> QED BY <1>1, <1>3, Zenon DEF TreeSays

LEMMA UnionSays ==
  ASSUME NEW p, NEW D, Sayings(D, p), NEW E, Sayings(E, p)
  PROVE  Sayings(D \cup E, p)
<1> DEFINE R == D \cup E
<1>1. D \subseteq R /\ E \subseteq R
  OBVIOUS
<1>2. ASSUME NEW d \in R PROVE \E f, w : d = <<f, w>> /\ w \in Values /\ Because(R, p, f, w)
  <2>1. (d \in D \/ d \in E) /\ D \subseteq R /\ E \subseteq R
    BY <1>1
  <2> HIDE DEF R
  <2> QED BY <2>1, BecauseMore, Zenon DEF Sayings
<1> QED BY <1>2, Zenon DEF Sayings

\* Trees with "and" and "or".
LEMMA JunctionSays ==
  ASSUME NEW p, NEW e, NEW u, NEW f, NEW v, TreeSays(p, e, u), TreeSays(p, f, v)
  PROVE  /\ TreeSays(p, Both("and", e, f), Conj(u, v))
         /\ TreeSays(p, Both("or", e, f), Disj(u, v))
<1>1. PICK D : Sayings(D, p) /\ <<e, u>> \in D
  BY Zenon DEF TreeSays
<1>2. PICK E : Sayings(E, p) /\ <<f, v>> \in E
  BY Zenon DEF TreeSays
<1> DEFINE R == D \cup E
<1>3. Sayings(R, p) /\ <<e, u>> \in R /\ <<f, v>> \in R
  BY <1>1, <1>2, UnionSays, Zenon
<1>4. u \in Values /\ v \in Values /\ Conj(u, v) \in Values /\ Disj(u, v) \in Values
  BY TreeSaysValue, ValuesClosed, Zenon
<1> HIDE DEF R
<1>5. /\ Both("and", e, f).op = "and" /\ Both("and", e, f).l = e /\ Both("and", e, f).r = f
      /\ Both("or", e, f).op = "or" /\ Both("or", e, f).l = e /\ Both("or", e, f).r = f
  BY Zenon DEF Both
<1>6. Because(R, p, Both("and", e, f), Conj(u, v)) /\ Because(R, p, Both("or", e, f), Disj(u, v))
  BY <1>3, <1>4, <1>5, Zenon DEF Because
<1> QED BY <1>3, <1>4, <1>6, TreeOf, Zenon

LEMMA NegationSays ==
  ASSUME NEW p, NEW e, NEW u, TreeSays(p, e, u)
  PROVE  TreeSays(p, Negation(e), Neg(u))
<1>1. PICK D : Sayings(D, p) /\ <<e, u>> \in D
  BY Zenon DEF TreeSays
<1>2. u \in Values /\ Neg(u) \in Values
  BY TreeSaysValue, ValuesClosed, Zenon
<1>3. Negation(e).op = "not" /\ Negation(e).l = e
  BY Zenon DEF Negation
<1>4. Because(D, p, Negation(e), Neg(u))
  BY <1>1, <1>2, <1>3, Zenon DEF Because
<1> QED BY <1>1, <1>2, <1>4, TreeOf, Zenon

LEMMA PrimitiveSays ==
  ASSUME NEW p, NEW name \in Simple \cup WithArgument, NEW dir, NEW val
  PROVE  TreeSays(p, Primitive(name, dir, val), TestSays(p, name, dir, val))
<1>1. Sayings({}, p)
  BY Zenon DEF Sayings
<1>2. /\ Primitive(name, dir, val).op = name /\ Primitive(name, dir, val).dir = dir
      /\ Primitive(name, dir, val).val = val
  BY Zenon DEF Primitive
<1>3. Because({}, p, Primitive(name, dir, val), TestSays(p, name, dir, val))
  BY <1>2, Zenon DEF Because
<1> QED BY <1>1, <1>3, TestValue, TreeOf, Zenon

LEMMA NoTreeSaysNothing ==
  ASSUME NEW p, NEW v
  PROVE  ~TreeSays(p, NoTree, v)
<1>1. NoTree.op = "none"
  BY Zenon DEF NoTree
<1>2. "none" \notin Simple \cup WithArgument \cup {"and", "or", "not"}
  BY Zenon DEF Simple, WithArgument
<1> QED BY <1>1, <1>2, TreeSaysValue, Zenon

(***************************************************************************)
(* How many tests a tree has.                                              *)
(***************************************************************************)

LEMMA AddsMore ==
  ASSUME NEW D, NEW R, D \subseteq R, NEW e, NEW c, Adds(D, e, c)
  PROVE  Adds(R, e, c)
BY Zenon DEF Adds

\* The tests of a tree are those of its parts.
LEMMA TreeTestsCount ==
  ASSUME NEW e, NEW c, TreeTests(e, c)
  PROVE  /\ c \in Nat
         /\ \/ /\ e.op \in {"and", "or"}
               /\ \E l, r \in Nat : TreeTests(e.l, l) /\ TreeTests(e.r, r) /\ c = l + r
            \/ e.op = "not" /\ TreeTests(e.l, c)
            \/ e.op \in Simple \cup WithArgument /\ c = 1
<1>1. PICK D : Counts(D) /\ <<e, c>> \in D
  BY Zenon DEF TreeTests
<1>2. PICK e2, c2 : <<e, c>> = <<e2, c2>> /\ c2 \in Nat /\ Adds(D, e2, c2)
  BY <1>1, Zenon DEF Counts
<1>3. e = e2 /\ c = c2
  BY <1>2, Zenon
<1>4. c \in Nat /\ Adds(D, e, c)
  BY <1>2, <1>3, Zenon
<1>5. \A f, w : <<f, w>> \in D => TreeTests(f, w)
  BY <1>1, Zenon DEF TreeTests
<1> QED BY <1>4, <1>5, Zenon DEF Adds

LEMMA CountOf ==
  ASSUME NEW D, Counts(D), NEW e, NEW c \in Nat, Adds(D, e, c)
  PROVE  TreeTests(e, c)
<1> DEFINE R == D \cup {<<e, c>>}
<1>1. D \subseteq R /\ <<e, c>> \in R
  OBVIOUS
<1>2. ASSUME NEW d \in R PROVE \E f, w : d = <<f, w>> /\ w \in Nat /\ Adds(R, f, w)
  <2>1. (d \in D \/ d = <<e, c>>) /\ D \subseteq R
    OBVIOUS
  <2> HIDE DEF R
  <2> QED BY <2>1, AddsMore, Zenon DEF Counts
<1> HIDE DEF R
<1>3. Counts(R)
  BY <1>2, Zenon DEF Counts
<1> QED BY <1>1, <1>3, Zenon DEF TreeTests

LEMMA JunctionTests ==
  ASSUME NEW op \in {"and", "or"}, NEW e, NEW u, NEW f, NEW v, TreeTests(e, u), TreeTests(f, v)
  PROVE  TreeTests(Both(op, e, f), u + v)
<1>1. PICK D : Counts(D) /\ <<e, u>> \in D
  BY Zenon DEF TreeTests
<1>2. PICK E : Counts(E) /\ <<f, v>> \in E
  BY Zenon DEF TreeTests
<1> DEFINE R == D \cup E
<1>3. Counts(R)
  <2>1. ASSUME NEW d \in R PROVE \E g, w : d = <<g, w>> /\ w \in Nat /\ Adds(R, g, w)
    <3>1. (d \in D \/ d \in E) /\ D \subseteq R /\ E \subseteq R
      BY <2>1
    <3> HIDE DEF R
    <3> QED BY <1>1, <1>2, <3>1, AddsMore, Zenon DEF Counts
  <2> QED BY <2>1, Zenon DEF Counts
<1>4. <<e, u>> \in R /\ <<f, v>> \in R
  BY <1>1, <1>2
<1>5. u \in Nat /\ v \in Nat
  BY TreeTestsCount, Zenon
<1>6. u + v \in Nat
  BY <1>5, SMT
<1> HIDE DEF R
<1>7. Both(op, e, f).op = op /\ Both(op, e, f).l = e /\ Both(op, e, f).r = f
  BY Zenon DEF Both
<1>8. Adds(R, Both(op, e, f), u + v)
  BY <1>4, <1>5, <1>7, Zenon DEF Adds
<1> QED BY <1>3, <1>6, <1>8, CountOf, Zenon

LEMMA NegationTests ==
  ASSUME NEW e, NEW u, TreeTests(e, u)
  PROVE  TreeTests(Negation(e), u)
<1>1. PICK D : Counts(D) /\ <<e, u>> \in D
  BY Zenon DEF TreeTests
<1>2. u \in Nat
  BY TreeTestsCount, Zenon
<1>3. Negation(e).op = "not" /\ Negation(e).l = e
  BY Zenon DEF Negation
<1>4. Adds(D, Negation(e), u)
  BY <1>1, <1>3, Zenon DEF Adds
<1> QED BY <1>1, <1>2, <1>4, CountOf, Zenon

LEMMA PrimitiveTests ==
  ASSUME NEW name \in Simple \cup WithArgument, NEW dir, NEW val
  PROVE  TreeTests(Primitive(name, dir, val), 1)
<1>1. Counts({})
  BY Zenon DEF Counts
<1>2. Primitive(name, dir, val).op = name
  BY Zenon DEF Primitive
<1>3. Adds({}, Primitive(name, dir, val), 1) /\ 1 \in Nat
  BY <1>2, Zenon DEF Adds
<1> QED BY <1>1, <1>3, CountOf, Zenon

(***************************************************************************)
(* 4. The parser, for one packet.                                          *)
(***************************************************************************)

(***************************************************************************)
(* What the calls under way will make of a reading of the rest.            *)
(***************************************************************************)

LEMMA ContNone == \A s, p : Cont(s, p, <<>>, AtEnd(s), 0)
<1> TAKE s, p
<1> DEFINE G == [d \in 0..0 |-> <<AtEnd(s), 0>>]
<1>1. G[0] = <<AtEnd(s), 0>> /\ Len(<<>>) = 0 /\ 1..0 = {}
  OBVIOUS
<1> HIDE DEF G
<1> QED BY <1>1, Zenon DEF Cont

LEMMA ContEmpty ==
  ASSUME NEW s, NEW p, NEW k, NEW n, Cont(s, p, <<>>, k, n)
  PROVE  k = AtEnd(s) /\ n = 0
<1>1. PICK G : G[0] = <<AtEnd(s), 0>> /\ G[Len(<<>>)] = <<k, n>>
  BY Zenon DEF Cont
<1>2. Len(<<>>) = 0
  OBVIOUS
<1>3. <<AtEnd(s), 0>> = <<k, n>>
  BY <1>1, <1>2, Zenon
<1> QED BY <1>3, Zenon

LEMMA ContIsNat ==
  ASSUME NEW S, NEW cs \in Seq(S), NEW s, NEW p, NEW k, NEW n, Cont(s, p, cs, k, n)
  PROVE  n \in Nat
<1>1. PICK G : /\ G[0] = <<AtEnd(s), 0>> /\ G[Len(cs)] = <<k, n>>
               /\ \A d \in 1..Len(cs) : Hands(s, p, cs[d], G[d - 1], G[d])
  BY Zenon DEF Cont
<1>2. CASE Len(cs) = 0
  <2>1. <<AtEnd(s), 0>> = <<k, n>> /\ 0 \in Nat
    BY <1>1, <1>2, Zenon
  <2> QED BY <2>1, Zenon
<1>3. CASE Len(cs) # 0
  <2>1. Len(cs) \in 1..Len(cs)
    BY <1>3, SMT
  <2>2. Hands(s, p, cs[Len(cs)], G[Len(cs) - 1], G[Len(cs)])
    BY <1>1, <2>1, Zenon
  <2>3. PICK n1, e, h : n1 \in Nat /\ NodeTests(cs[Len(cs)], e) /\ G[Len(cs)] = <<h, n1 + e>>
    BY <2>2, Zenon DEF Hands
  <2>4. <<k, n>> = <<h, n1 + e>>
    BY <1>1, <2>3, Zenon
  <2>5. n = n1 + e
    BY <2>4, Zenon
  <2> QED BY <2>3, <2>5, SMT DEF NodeTests
<1> QED BY <1>2, <1>3

\* One more call.
LEMMA ContPush ==
  ASSUME NEW S, NEW cs \in Seq(S), NEW s, NEW p, NEW k, NEW n, Cont(s, p, cs, k, n),
         NEW c, NEW u, NEW e, NodeSays(p, c, u), NodeTests(c, e)
  PROVE  Cont(s, p, Append(cs, c), After(s, p, c.fn, u, k), n + e)
<1>1. PICK G : /\ G[0] = <<AtEnd(s), 0>> /\ G[Len(cs)] = <<k, n>>
               /\ \A d \in 1..Len(cs) : Hands(s, p, cs[d], G[d - 1], G[d])
  BY Zenon DEF Cont
<1> DEFINE l == Len(cs)
<1> DEFINE g == <<After(s, p, c.fn, u, k), n + e>>
           H == [d \in 0..(l + 1) |-> IF d <= l THEN G[d] ELSE g]
<1>2. /\ l \in Nat /\ Len(Append(cs, c)) = l + 1
      /\ Append(cs, c)[l + 1] = c
      /\ \A i \in 1..l : Append(cs, c)[i] = cs[i]
  BY Pushed
<1> HIDE DEF l, g
<1>3. H[0] = G[0] /\ H[l + 1] = g /\ H[l] = G[l]
  BY <1>2, SMT
<1>4. \A i \in 1..l : H[i] = G[i] /\ H[i - 1] = G[i - 1]
  BY <1>2, SMT
<1>5. \A d \in 1..(l + 1) : d \in 1..l \/ d = l + 1
  BY <1>2, SMT
<1>6. l + 1 - 1 = l
  BY <1>2, SMT
<1> HIDE DEF H
<1>7. n \in Nat
  BY ContIsNat, Zenon
<1>8. Hands(s, p, c, G[l], g)
  BY <1>1, <1>7, Zenon DEF Hands, g, l
<1>9. ASSUME NEW d \in 1..(l + 1) PROVE Hands(s, p, Append(cs, c)[d], H[d - 1], H[d])
  <2>1. CASE d \in 1..l
    BY <2>1, <1>1, <1>2, <1>4, Zenon DEF l
  <2>2. CASE d = l + 1
    <3>1. d - 1 = l
      <4>1. l \in Nat
        BY <1>2, Zenon
      <4> QED BY <2>2, <4>1, SMT
    <3> QED BY <2>2, <3>1, <1>2, <1>3, <1>8, Zenon
  <2> QED BY <2>1, <2>2, <1>5, Zenon
<1>10. H[0] = <<AtEnd(s), 0>> /\ H[Len(Append(cs, c))] = g
  BY <1>1, <1>2, <1>3, Zenon
<1>11. \A d \in 1..Len(Append(cs, c)) : Hands(s, p, Append(cs, c)[d], H[d - 1], H[d])
  BY <1>2, <1>9, Zenon
<1> QED BY <1>10, <1>11, Zenon DEF Cont, g

\* One call less.
LEMMA ContPop ==
  ASSUME NEW S, NEW cs \in Seq(S), cs # <<>>, NEW s, NEW p, NEW k, NEW n, Cont(s, p, cs, k, n)
  PROVE  \E k1, n1, u, e : /\ Cont(s, p, SubSeq(cs, 1, Len(cs) - 1), k1, n1) /\ n1 \in Nat
                           /\ NodeSays(p, cs[Len(cs)], u) /\ NodeTests(cs[Len(cs)], e)
                           /\ k = After(s, p, cs[Len(cs)].fn, u, k1) /\ n = n1 + e
<1>1. PICK G : /\ G[0] = <<AtEnd(s), 0>> /\ G[Len(cs)] = <<k, n>>
               /\ \A d \in 1..Len(cs) : Hands(s, p, cs[d], G[d - 1], G[d])
  BY Zenon DEF Cont
<1> DEFINE l == Len(cs)
           b == SubSeq(cs, 1, l - 1)
<1>2. l \in Nat /\ l >= 1 /\ Len(b) = l - 1 /\ \A i \in 1..(l - 1) : b[i] = cs[i]
  BY Popped, Zenon
<1>3. l \in 1..l /\ \A i \in 1..(l - 1) : i \in 1..l
  BY <1>2, SMT
<1>4. PICK k1, n1, u, e : /\ G[l - 1] = <<k1, n1>> /\ n1 \in Nat /\ NodeSays(p, cs[l], u) /\ NodeTests(cs[l], e)
                          /\ G[l] = <<After(s, p, cs[l].fn, u, k1), n1 + e>>
  BY <1>1, <1>3, Zenon DEF Hands
<1>5. <<k, n>> = <<After(s, p, cs[l].fn, u, k1), n1 + e>>
  BY <1>1, <1>4, Zenon
<1>8. k = After(s, p, cs[l].fn, u, k1) /\ n = n1 + e
  BY <1>5, Zenon
<1> HIDE DEF b, l
<1>6. \A d \in 1..Len(b) : Hands(s, p, b[d], G[d - 1], G[d])
  BY <1>1, <1>2, <1>3, Zenon DEF l
<1>7. Cont(s, p, b, k1, n1)
  BY <1>1, <1>2, <1>4, <1>6, Zenon DEF Cont
<1> QED BY <1>4, <1>8, <1>7, Zenon DEF b, l

(***************************************************************************)
(* Readings and what is made of them.                                      *)
(***************************************************************************)

\* Nothing begins at the end, at an operator or at a closing parenthesis.
LEMMA NoFactor ==
  ASSUME NEW s \in Seq(Token), NEW p, NEW i \in Pos(s), At(s, i) \in {"or", "and", ")", "end"}
  PROVE  Readings(s, p)[i].factors = {} /\ Readings(s, p)[i].terms = {}
<1> DEFINE T == Readings(s, p)
<1>1. CASE i = Len(s) + 1
  <2>1. T[i] = Nothing
    BY <1>1, ReadingsTable, Zenon
  <2>2. Nothing.factors = {} /\ Nothing.terms = {}
    BY DEF Nothing
  <2> QED BY <2>1, <2>2, Zenon
<1>2. CASE i # Len(s) + 1
  <2>1. i \in 1..Len(s)
    BY <1>2, SMT DEF Pos
  <2>2. T[i] = ReadingsAt(s, p, T, i)
    BY <2>1, ReadingsTable, Zenon
  <2>3. At(s, i) # "not" /\ At(s, i) # "(" /\ At(s, i) \notin {"src", "dst"} /\ At(s, i) \notin Simple
    BY DEF Simple
  <2>4. NameAt(s, i) = i
    BY <2>3, Zenon DEF NameAt, Direction
  <2>5. ~IsSimple(s, i)
    BY <2>3, <2>4, Zenon DEF IsSimple
  <2>6. ~HasArgument(s, i)
    <3>1. At(s, i) \notin WithArgument
      BY DEF WithArgument
    <3>2. \A j, n : n \notin WithArgument => ~IsArgument(s, j, n)
      BY DEF IsArgument, WithArgument
    <3> QED BY <2>4, <3>1, <3>2, Zenon DEF HasArgument
  <2>7. FactorsAt(s, p, T, i) = {}
    BY <2>3, <2>5, <2>6, Zenon DEF FactorsAt
  <2>8. UNION {MoreFactors(s, T, r) : r \in FactorsAt(s, p, T, i)} = {}
    BY <2>7
  <2> HIDE DEF T
  <2>9. /\ ReadingsAt(s, p, T, i).factors = FactorsAt(s, p, T, i)
        /\ ReadingsAt(s, p, T, i).terms = UNION {MoreFactors(s, T, r) : r \in FactorsAt(s, p, T, i)}
    BY Zenon DEF ReadingsAt
  <2> QED BY <2>2, <2>7, <2>8, <2>9, Zenon DEF T
<1> QED BY <1>1, <1>2

LEMMA MoreFactorsIn ==
  ASSUME NEW s, NEW T, NEW r, NEW z
  PROVE  z \in MoreFactors(s, T, r) <=>
           \/ z = r
           \/ \E q \in T[r[1]].terms : z = <<q[1], Conj(r[2], q[2])>>
           \/ At(s, r[1]) = "and" /\ \E q \in T[r[1] + 1].terms : z = <<q[1], Conj(r[2], q[2])>>
<1>1. CASE At(s, r[1]) = "and"
  BY <1>1, Zenon DEF MoreFactors
<1>2. CASE At(s, r[1]) # "and"
  BY <1>2, Zenon DEF MoreFactors
<1> QED BY <1>1, <1>2, Zenon

LEMMA MoreTermsIn ==
  ASSUME NEW s, NEW T, NEW r, NEW z
  PROVE  z \in MoreTerms(s, T, r) <=>
           \/ z = r
           \/ At(s, r[1]) = "or" /\ \E q \in T[r[1] + 1].exprs : z = <<q[1], Disj(r[2], q[2])>>
<1>1. CASE At(s, r[1]) = "or"
  BY <1>1, Zenon DEF MoreTerms
<1>2. CASE At(s, r[1]) # "or"
  BY <1>2, Zenon DEF MoreTerms
<1> QED BY <1>1, <1>2, Zenon

LEMMA MoreFactorsAt ==
  ASSUME NEW s, NEW T, NEW r, NEW i, r[1] = i, NEW z
  PROVE  z \in MoreFactors(s, T, r) <=>
           \/ z = r
           \/ \E q \in T[i].terms : z = <<q[1], Conj(r[2], q[2])>>
           \/ At(s, i) = "and" /\ \E q \in T[i + 1].terms : z = <<q[1], Conj(r[2], q[2])>>
BY MoreFactorsIn

\* More of a reading with something in front of it: more of it, with that in front.
LEMMA MoreFactorsAssoc ==
  ASSUME NEW s \in Seq(Token), NEW T \in Table(s), NEW r \in Reads(s), NEW w \in Values, NEW z
  PROVE  z \in MoreFactors(s, T, <<r[1], Conj(w, r[2])>>) <=>
           \E q \in MoreFactors(s, T, r) : z = <<q[1], Conj(w, q[2])>>
<1>1. r[1] \in Pos(s) /\ r[2] \in Values
  BY PairOf, Zenon
<1> DEFINE u == <<r[1], Conj(w, r[2])>>
<1>2. u[1] = r[1] /\ u[2] = Conj(w, r[2])
  OBVIOUS
<1> DEFINE Q == {q \in T[r[1]].terms : TRUE} \cup {q \in T[r[1] + 1].terms : At(s, r[1]) = "and"}
<1>3. ASSUME NEW q \in Q PROVE q[2] \in Values
  <2>1. q \in Reads(s)
    BY <1>1, <1>3, LaterPos, RowOf, Zenon
  <2> QED BY <2>1, PairOf, Zenon
<1>4. \A q \in Q : Conj(u[2], q[2]) = Conj(w, Conj(r[2], q[2]))
  BY <1>1, <1>2, <1>3, ValuesClosed, Zenon
<1>5. ASSUME NEW v, v[1] = r[1]
      PROVE  \A y : y \in MoreFactors(s, T, v) <=> y = v \/ \E q \in Q : y = <<q[1], Conj(v[2], q[2])>>
  <2> TAKE y
  <2>1. \A q : q \in Q <=> q \in T[r[1]].terms \/ (At(s, r[1]) = "and" /\ q \in T[r[1] + 1].terms)
    BY Zenon
  <2>2. y \in MoreFactors(s, T, v) <=>
           \/ y = v
           \/ \E q \in T[r[1]].terms : y = <<q[1], Conj(v[2], q[2])>>
           \/ At(s, r[1]) = "and" /\ \E q \in T[r[1] + 1].terms : y = <<q[1], Conj(v[2], q[2])>>
    BY <1>5, MoreFactorsAt, SMT
  <2> HIDE DEF Q
  <2> QED BY <2>1, <2>2, Zenon
<1> HIDE DEF u, Q
<1>6. z \in MoreFactors(s, T, u) <=> z = u \/ \E q \in Q : z = <<q[1], Conj(u[2], q[2])>>
  BY <1>2, <1>5, Zenon
<1>7. \A y : y \in MoreFactors(s, T, r) <=> y = r \/ \E q \in Q : y = <<q[1], Conj(r[2], q[2])>>
  BY <1>5, Zenon
<1>8. ASSUME NEW q \in Q PROVE <<q[1], Conj(r[2], q[2])>>[1] = q[1] /\ <<q[1], Conj(r[2], q[2])>>[2] = Conj(r[2], q[2])
  OBVIOUS
<1>9. u = <<r[1], Conj(w, r[2])>>
  BY DEF u
<1>10. ASSUME z \in MoreFactors(s, T, u)
       PROVE  \E q \in MoreFactors(s, T, r) : z = <<q[1], Conj(w, q[2])>>
  <2>1. CASE z = u
    BY <2>1, <1>7, <1>9, Zenon
  <2>2. ASSUME NEW q \in Q, z = <<q[1], Conj(u[2], q[2])>>
        PROVE  \E y \in MoreFactors(s, T, r) : z = <<y[1], Conj(w, y[2])>>
    <3> DEFINE y == <<q[1], Conj(r[2], q[2])>>
    <3>1. y \in MoreFactors(s, T, r)
      BY <1>7, Zenon
    <3>2. y[1] = q[1] /\ y[2] = Conj(r[2], q[2])
      BY <1>8, Zenon
    <3> HIDE DEF y
    <3> QED BY <2>2, <3>1, <3>2, <1>4, Zenon
  <2> QED BY <2>1, <2>2, <1>6, <1>10, Zenon
<1>11. ASSUME NEW y \in MoreFactors(s, T, r), z = <<y[1], Conj(w, y[2])>>
       PROVE  z \in MoreFactors(s, T, u)
  <2>1. CASE y = r
    BY <2>1, <1>6, <1>9, <1>11, Zenon
  <2>2. ASSUME NEW q \in Q, y = <<q[1], Conj(r[2], q[2])>>
        PROVE  z \in MoreFactors(s, T, u)
    <3>1. y[1] = q[1] /\ y[2] = Conj(r[2], q[2])
      BY <2>2, <1>8, Zenon
    <3> QED BY <1>11, <3>1, <1>4, <1>6, Zenon
  <2> QED BY <2>1, <2>2, <1>7, Zenon
<1>12. z \in MoreFactors(s, T, u) <=> \E q \in MoreFactors(s, T, r) : z = <<q[1], Conj(w, q[2])>>
  BY <1>10, <1>11, Zenon
<1> QED BY <1>12 DEF u

LEMMA MoreTermsAt ==
  ASSUME NEW s, NEW T, NEW r, NEW i, r[1] = i, NEW z
  PROVE  z \in MoreTerms(s, T, r) <=>
           \/ z = r
           \/ At(s, i) = "or" /\ \E q \in T[i + 1].exprs : z = <<q[1], Disj(r[2], q[2])>>
BY MoreTermsIn

LEMMA MoreTermsAssoc ==
  ASSUME NEW s \in Seq(Token), NEW T \in Table(s), NEW r \in Reads(s), NEW w \in Values, NEW z
  PROVE  z \in MoreTerms(s, T, <<r[1], Disj(w, r[2])>>) <=>
           \E q \in MoreTerms(s, T, r) : z = <<q[1], Disj(w, q[2])>>
<1>1. r[1] \in Pos(s) /\ r[2] \in Values
  BY PairOf, Zenon
<1> DEFINE u == <<r[1], Disj(w, r[2])>>
<1>2. u[1] = r[1] /\ u[2] = Disj(w, r[2])
  OBVIOUS
<1> DEFINE Q == {q \in T[r[1] + 1].exprs : At(s, r[1]) = "or"}
<1>3. ASSUME NEW q \in Q PROVE q[2] \in Values
  <2>1. q \in Reads(s)
    BY <1>1, <1>3, LaterPos, RowOf, Zenon
  <2> QED BY <2>1, PairOf, Zenon
<1>4. \A q \in Q : Disj(u[2], q[2]) = Disj(w, Disj(r[2], q[2]))
  BY <1>1, <1>2, <1>3, ValuesClosed, Zenon
<1>5. ASSUME NEW v, v[1] = r[1]
      PROVE  \A y : y \in MoreTerms(s, T, v) <=> y = v \/ \E q \in Q : y = <<q[1], Disj(v[2], q[2])>>
  <2> TAKE y
  <2>1. \A q : q \in Q <=> At(s, r[1]) = "or" /\ q \in T[r[1] + 1].exprs
    BY Zenon
  <2>2. y \in MoreTerms(s, T, v) <=>
           \/ y = v
           \/ At(s, r[1]) = "or" /\ \E q \in T[r[1] + 1].exprs : y = <<q[1], Disj(v[2], q[2])>>
    BY <1>5, MoreTermsAt, SMT
  <2> HIDE DEF Q
  <2> QED BY <2>1, <2>2, Zenon
<1> HIDE DEF u, Q
<1>6. z \in MoreTerms(s, T, u) <=> z = u \/ \E q \in Q : z = <<q[1], Disj(u[2], q[2])>>
  BY <1>2, <1>5, Zenon
<1>7. \A y : y \in MoreTerms(s, T, r) <=> y = r \/ \E q \in Q : y = <<q[1], Disj(r[2], q[2])>>
  BY <1>5, Zenon
<1>8. ASSUME NEW q \in Q PROVE <<q[1], Disj(r[2], q[2])>>[1] = q[1] /\ <<q[1], Disj(r[2], q[2])>>[2] = Disj(r[2], q[2])
  OBVIOUS
<1>9. u = <<r[1], Disj(w, r[2])>>
  BY DEF u
<1>10. ASSUME z \in MoreTerms(s, T, u)
       PROVE  \E q \in MoreTerms(s, T, r) : z = <<q[1], Disj(w, q[2])>>
  <2>1. CASE z = u
    BY <2>1, <1>7, <1>9, Zenon
  <2>2. ASSUME NEW q \in Q, z = <<q[1], Disj(u[2], q[2])>>
        PROVE  \E y \in MoreTerms(s, T, r) : z = <<y[1], Disj(w, y[2])>>
    <3> DEFINE y == <<q[1], Disj(r[2], q[2])>>
    <3>1. y \in MoreTerms(s, T, r)
      BY <1>7, Zenon
    <3>2. y[1] = q[1] /\ y[2] = Disj(r[2], q[2])
      BY <1>8, Zenon
    <3> HIDE DEF y
    <3> QED BY <2>2, <3>1, <3>2, <1>4, Zenon
  <2> QED BY <2>1, <2>2, <1>6, <1>10, Zenon
<1>11. ASSUME NEW y \in MoreTerms(s, T, r), z = <<y[1], Disj(w, y[2])>>
       PROVE  z \in MoreTerms(s, T, u)
  <2>1. CASE y = r
    BY <2>1, <1>6, <1>9, <1>11, Zenon
  <2>2. ASSUME NEW q \in Q, y = <<q[1], Disj(r[2], q[2])>>
        PROVE  z \in MoreTerms(s, T, u)
    <3>1. y[1] = q[1] /\ y[2] = Disj(r[2], q[2])
      BY <2>2, <1>8, Zenon
    <3> QED BY <1>11, <3>1, <1>4, <1>6, Zenon
  <2> QED BY <2>1, <2>2, <1>7, Zenon
<1>12. z \in MoreTerms(s, T, u) <=> \E q \in MoreTerms(s, T, r) : z = <<q[1], Disj(w, q[2])>>
  BY <1>10, <1>11, Zenon
<1> QED BY <1>12 DEF u

\* The terms at i go on from its factors, and the expressions from its terms.
LEMMA RowAt ==
  ASSUME NEW s \in Seq(Token), NEW p, NEW i \in Pos(s)
  PROVE  /\ \A q : q \in Readings(s, p)[i].terms <=>
                     \E r \in Readings(s, p)[i].factors : q \in MoreFactors(s, Readings(s, p), r)
         /\ \A q : q \in Readings(s, p)[i].exprs <=>
                     \E r \in Readings(s, p)[i].terms : q \in MoreTerms(s, Readings(s, p), r)
<1> DEFINE T == Readings(s, p)
<1>1. CASE i = Len(s) + 1
  <2>1. T[i] = Nothing
    BY <1>1, ReadingsTable, Zenon
  <2>2. Nothing.factors = {} /\ Nothing.terms = {} /\ Nothing.exprs = {}
    BY DEF Nothing
  <2>3. T[i].factors = {} /\ T[i].terms = {} /\ T[i].exprs = {}
    BY <2>1, <2>2, Zenon
  <2> HIDE DEF T
  <2> QED BY <2>3, Zenon DEF T
<1>2. CASE i # Len(s) + 1
  <2>1. i \in 1..Len(s)
    BY <1>2, SMT DEF Pos
  <2>2. T[i] = ReadingsAt(s, p, T, i)
    BY <2>1, ReadingsTable, Zenon
  <2> DEFINE F == FactorsAt(s, p, T, i)
             U == UNION {MoreFactors(s, T, r) : r \in F}
             E == UNION {MoreTerms(s, T, r) : r \in U}
  <2> HIDE DEF T
  <2>3. ReadingsAt(s, p, T, i).factors = F /\ ReadingsAt(s, p, T, i).terms = U /\ ReadingsAt(s, p, T, i).exprs = E
    BY Zenon DEF ReadingsAt
  <2>4. T[i].factors = F /\ T[i].terms = U /\ T[i].exprs = E
    BY <2>2, <2>3, Zenon
  <2>5. /\ \A q : q \in U <=> \E r \in F : q \in MoreFactors(s, T, r)
        /\ \A q : q \in E <=> \E r \in U : q \in MoreTerms(s, T, r)
    BY Zenon
  <2> HIDE DEF F, U, E
  <2> QED BY <2>4, <2>5, Zenon DEF T
<1> QED BY <1>1, <1>2

\* What k makes of the terms at i, it makes of the factors at i, each gone on from.
LEMMA TermFrom ==
  ASSUME NEW s \in Seq(Token), NEW p, NEW i \in Pos(s), NEW w \in Values, NEW k
  PROVE  Says(AfterTerm(s, p, w, k), Readings(s, p)[i].factors) = SaysConj(k, w, Readings(s, p)[i].terms)
<1> DEFINE T == Readings(s, p)
           A == AfterTerm(s, p, w, k)
<1>1. T \in Table(s)
  BY ReadingsTable, Zenon
<1>2. \A r \in T[i].factors : r \in Reads(s)
  BY <1>1, RowOf, Zenon
<1>3. ASSUME NEW r \in T[i].factors, NEW y
      PROVE  y \in A[r] <=> \E q \in MoreFactors(s, T, r) : y \in k[<<q[1], Conj(w, q[2])>>]
  <2>1. r \in Reads(s)
    BY <1>2, Zenon
  <2> DEFINE M == MoreFactors(s, T, <<r[1], Conj(w, r[2])>>)
  <2>2. A[r] = UNION {k[q] : q \in M}
    BY <2>1, Zenon DEF AfterTerm
  <2> HIDE DEF A, T
  <2>3. \A z : z \in M <=> \E q \in MoreFactors(s, T, r) : z = <<q[1], Conj(w, q[2])>>
    BY <1>1, <2>1, MoreFactorsAssoc, Zenon
  <2> HIDE DEF M
  <2>4. y \in A[r] <=> \E z \in M : y \in k[z]
    BY <2>2, Zenon
  <2> QED BY <2>3, <2>4, Zenon
<1>4. \A q : q \in T[i].terms <=> \E r \in T[i].factors : q \in MoreFactors(s, T, r)
  BY RowAt, Zenon
<1> HIDE DEF A, T
<1>5. ASSUME NEW y
      PROVE  (\E r \in T[i].factors : y \in A[r]) <=> (\E q \in T[i].terms : y \in k[<<q[1], Conj(w, q[2])>>])
  BY <1>3, <1>4, Zenon
<1>6. UNION {A[r] : r \in T[i].factors} = UNION {k[<<q[1], Conj(w, q[2])>>] : q \in T[i].terms}
  BY <1>5, Zenon
<1> QED BY <1>6, Zenon DEF A, T, Says, SaysConj

\* What k makes of the expressions at i, it makes of the terms at i, each gone on from.
LEMMA ExprFrom ==
  ASSUME NEW s \in Seq(Token), NEW p, NEW i \in Pos(s), NEW w \in Values, NEW k
  PROVE  Says(AfterTerm(s, p, "yes", AfterExpr(s, p, w, k)), Readings(s, p)[i].factors)
           = SaysDisj(k, w, Readings(s, p)[i].exprs)
<1> DEFINE T == Readings(s, p)
           A == AfterExpr(s, p, w, k)
<1>1. T \in Table(s)
  BY ReadingsTable, Zenon
<1>2. \A r \in T[i].terms : r \in Reads(s)
  BY <1>1, RowOf, Zenon
<1>3. ASSUME NEW r \in T[i].terms, NEW y
      PROVE  y \in A[r] <=> \E q \in MoreTerms(s, T, r) : y \in k[<<q[1], Disj(w, q[2])>>]
  <2>1. r \in Reads(s)
    BY <1>2, Zenon
  <2> DEFINE M == MoreTerms(s, T, <<r[1], Disj(w, r[2])>>)
  <2>2. A[r] = UNION {k[q] : q \in M}
    BY <2>1, Zenon DEF AfterExpr
  <2> HIDE DEF A, T
  <2>3. \A z : z \in M <=> \E q \in MoreTerms(s, T, r) : z = <<q[1], Disj(w, q[2])>>
    BY <1>1, <2>1, MoreTermsAssoc, Zenon
  <2> HIDE DEF M
  <2>4. y \in A[r] <=> \E z \in M : y \in k[z]
    BY <2>2, Zenon
  <2> QED BY <2>3, <2>4, Zenon
<1>4. \A q : q \in T[i].exprs <=> \E r \in T[i].terms : q \in MoreTerms(s, T, r)
  BY RowAt, Zenon
<1>5. ASSUME NEW r \in T[i].terms PROVE <<r[1], Conj("yes", r[2])>> = r
  <2>1. r \in Reads(s)
    BY <1>2, Zenon
  <2> QED BY <2>1, PairOf, ValuesClosed, Zenon
<1>6. "yes" \in Values
  BY DEF Values
<1> DEFINE L == Says(AfterTerm(s, p, "yes", A), T[i].factors)
<1>70. L = SaysConj(A, "yes", T[i].terms)
  BY <1>6, TermFrom, Zenon
<1>7. L = UNION {A[<<q[1], Conj("yes", q[2])>>] : q \in T[i].terms}
  BY <1>70, Zenon DEF SaysConj
<1> HIDE DEF A, T, L
<1>8. \A y : y \in L <=> \E r \in T[i].terms : y \in A[r]
  BY <1>5, <1>7, Zenon
<1>9. ASSUME NEW y
      PROVE  y \in L <=> (\E q \in T[i].exprs : y \in k[<<q[1], Disj(w, q[2])>>])
  BY <1>3, <1>4, <1>8, Zenon
<1>10. L = UNION {k[<<q[1], Disj(w, q[2])>>] : q \in T[i].exprs}
  BY <1>9, Zenon
<1> QED BY <1>10, Zenon DEF L, A, T, SaysDisj

\* From the start of an expression.
LEMMA ExprStart ==
  ASSUME NEW s \in Seq(Token), NEW p, NEW i \in Pos(s), NEW k
  PROVE  Says(AfterTerm(s, p, "yes", AfterExpr(s, p, "no", k)), Readings(s, p)[i].factors)
           = Says(k, Readings(s, p)[i].exprs)
<1> DEFINE T == Readings(s, p)
           L == Says(AfterTerm(s, p, "yes", AfterExpr(s, p, "no", k)), T[i].factors)
<1>1. "no" \in Values
  BY DEF Values
<1>20. L = SaysDisj(k, "no", T[i].exprs)
  BY <1>1, ExprFrom, Zenon
<1>2. L = UNION {k[<<q[1], Disj("no", q[2])>>] : q \in T[i].exprs}
  BY <1>20, Zenon DEF SaysDisj
<1>3. ASSUME NEW r \in T[i].exprs PROVE <<r[1], Disj("no", r[2])>> = r
  <2>1. r \in Reads(s)
    BY ReadingsTable, RowOf, Zenon
  <2> QED BY <2>1, PairOf, ValuesClosed, Zenon
<1> HIDE DEF L, T
<1>5. \A y : y \in L <=> \E q \in T[i].exprs : y \in k[q]
  BY <1>2, <1>3, Zenon
<1>4. L = UNION {k[q] : q \in T[i].exprs}
  BY <1>5, Zenon
<1> QED BY <1>4, Zenon DEF L, T, Says

(***************************************************************************)
(* The calls under way.                                                    *)
(***************************************************************************)

\* A call that may be made.
LEMMA StackPush ==
  ASSUME NEW cs, Stack(cs), NEW c, c.fn \in {"expr", "term", "(", "not"},
         c.fn = "term" => cs # <<>> /\ cs[Len(cs)].fn = "expr",
         c.fn = "expr" => cs = <<>> \/ cs[Len(cs)].fn = "("
  PROVE  Stack(Append(cs, c))
<1>1. PICK S : cs \in Seq(S)
  BY DEF Stack
<1> DEFINE l == Len(cs)
           n == Append(cs, c)
<1>2. /\ l \in Nat /\ Len(n) = l + 1 /\ n \in Seq(S \cup {c})
      /\ n[l + 1] = c
      /\ \A i \in 1..l : n[i] = cs[i]
  BY <1>1, Pushed
<1>3. cs # <<>> => l \in 1..l
  BY <1>1
<1>4. cs = <<>> => l = 0
  OBVIOUS
<1> HIDE DEF l, n
<1>5. ASSUME NEW d \in 1..(l + 1)
      PROVE  /\ n[d].fn \in {"expr", "term", "(", "not"}
             /\ n[d].fn = "term" => d - 1 \in 1..(l + 1) /\ n[d - 1].fn = "expr"
             /\ n[d].fn = "expr" => d = 1 \/ (d - 1 \in 1..(l + 1) /\ n[d - 1].fn = "(")
  <2>1. CASE d \in 1..l
    <3>1. n[d] = cs[d] /\ (d - 1 \in 1..l => n[d - 1] = cs[d - 1])
      BY <1>2, <2>1, Zenon
    <3>2. d - 1 \in 1..l => d - 1 \in 1..(l + 1)
      BY <1>2, SMT
    <3> QED BY <2>1, <3>1, <3>2, Zenon DEF Stack, Nested, l
  <2>2. CASE d = l + 1
    <3>1. n[d] = c /\ d - 1 = l /\ (l = 0 => d = 1) /\ (l \in 1..l => l \in 1..(l + 1))
      <4>1. l \in Nat
        BY <1>2, Zenon
      <4>2. d - 1 = l /\ (l = 0 => d = 1) /\ (l \in 1..l => l \in 1..(l + 1))
        BY <2>2, <4>1, SMT
      <4> QED BY <4>2, <1>2, <2>2, Zenon
    <3>2. l \in 1..l => n[l] = cs[l]
      BY <1>2, Zenon
    <3> QED BY <1>3, <1>4, <3>1, <3>2, Zenon DEF l
  <2> QED BY <1>2, <2>1, <2>2, SMT
<1>6. Nested(n)
  BY <1>2, <1>5, Zenon DEF Nested
<1> QED BY <1>2, <1>6, Zenon DEF Stack, n

\* What is below a call.
LEMMA StackPop ==
  ASSUME NEW cs, Stack(cs), cs # <<>>
  PROVE  /\ Stack(SubSeq(cs, 1, Len(cs) - 1))
         /\ cs[Len(cs)].fn \in {"expr", "term", "(", "not"}
         /\ LET b == SubSeq(cs, 1, Len(cs) - 1)
            IN  /\ cs[Len(cs)].fn = "term" => b # <<>> /\ b[Len(b)].fn = "expr"
                /\ cs[Len(cs)].fn = "expr" => b = <<>> \/ b[Len(b)].fn = "("
<1>1. PICK S : cs \in Seq(S)
  BY DEF Stack
<1> DEFINE l == Len(cs)
           b == SubSeq(cs, 1, l - 1)
<1>2. l \in Nat /\ l >= 1 /\ Len(b) = l - 1 /\ b \in Seq(S) /\ \A i \in 1..(l - 1) : b[i] = cs[i]
  BY <1>1, Popped, Zenon
<1>3. l \in Nat /\ l >= 1 /\ Len(b) = l - 1 /\ b \in Seq(S)
  BY <1>2, Zenon
<1>4. (b = <<>> <=> l = 1) /\ l \in 1..l /\ (l # 1 => l - 1 \in 1..(l - 1)) /\ (l - 1 \in 1..l => l # 1)
  <2>1. b = <<>> <=> Len(b) = 0
    <3> HIDE DEF b
    <3> QED BY <1>3
  <2> HIDE DEF b, l
  <2> QED BY <1>3, <2>1, SMT
<1>5. \A d \in 1..(l - 1) : d \in 1..l /\ (d - 1 \in 1..l => d - 1 \in 1..(l - 1))
  BY <1>3, SMT
<1> HIDE DEF l, b
<1>6. Nested(b)
  BY <1>2, <1>5, Zenon DEF Stack, Nested, l
<1>7. /\ cs[l].fn \in {"expr", "term", "(", "not"}
      /\ cs[l].fn = "term" => l - 1 \in 1..l /\ cs[l - 1].fn = "expr"
      /\ cs[l].fn = "expr" => l = 1 \/ (l - 1 \in 1..l /\ cs[l - 1].fn = "(")
  BY <1>4, Zenon DEF Stack, Nested, l
<1>8. l # 1 => b[Len(b)] = cs[l - 1]
  BY <1>2, <1>4, Zenon
<1> QED BY <1>3, <1>4, <1>6, <1>7, <1>8, Zenon DEF Stack, l, b

(***************************************************************************)
(* The tests that are left.                                                *)
(***************************************************************************)

LEMMA NamesFinite ==
  ASSUME NEW s \in Seq(Token)
  PROVE  /\ IsFiniteSet(Names(s)) /\ All(s) \in Nat
         /\ \A i : IsFiniteSet(LeftNames(s, i)) /\ Left(s, i) \in Nat /\ Left(s, i) <= All(s)
<1>1. Len(s) \in Nat /\ Len(s) \in Int /\ 1 \in Int
  OBVIOUS
<1>2. IsFiniteSet(1..Len(s))
  BY <1>1, FS_Interval, Zenon
<1>3. Names(s) \subseteq 1..Len(s)
  BY Zenon DEF Names
<1>4. IsFiniteSet(Names(s))
  BY <1>2, <1>3, FS_Subset, Zenon
<1>5. ASSUME NEW i PROVE IsFiniteSet(LeftNames(s, i)) /\ Left(s, i) \in Nat /\ Left(s, i) <= All(s)
  <2>1. LeftNames(s, i) \subseteq Names(s)
    BY Zenon DEF LeftNames
  <2> QED BY <1>4, <2>1, FS_Subset, FS_CardinalityType, Zenon DEF Left, All
<1> QED BY <1>4, <1>5, FS_CardinalityType, Zenon DEF All

\* Fewer tests are left further on.
LEMMA LeftFewer ==
  ASSUME NEW s \in Seq(Token), NEW i \in Nat, NEW j \in Nat, j >= i
  PROVE  Left(s, j) <= Left(s, i)
<1>1. LeftNames(s, j) \subseteq LeftNames(s, i)
  <2>1. \A k \in Names(s) : k \in Nat
    BY SMT DEF Names
  <2> QED BY <2>1, SMT DEF LeftNames
<1> QED BY <1>1, NamesFinite, FS_Subset, Zenon DEF Left

\* A test that is taken is left no more.
LEMMA LeftOneLess ==
  ASSUME NEW s \in Seq(Token), NEW i \in Nat, NEW j \in Nat, NEW n \in Names(s), n >= i, j > n
  PROVE  Left(s, j) + 1 <= Left(s, i)
<1>1. \A k \in Names(s) : k \in Nat
  BY SMT DEF Names
<1>2. n \in LeftNames(s, i) /\ LeftNames(s, j) \subseteq LeftNames(s, i) \ {n}
  BY <1>1, SMT DEF LeftNames
<1> DEFINE R == LeftNames(s, i) \ {n}
<1>3. IsFiniteSet(LeftNames(s, i)) /\ Left(s, i) \in Nat /\ Left(s, j) \in Nat
  BY NamesFinite, Zenon
<1>4. IsFiniteSet(R) /\ Cardinality(R) = Left(s, i) - 1
  BY <1>2, <1>3, FS_RemoveElement, Zenon DEF Left
<1> HIDE DEF R
<1>5. LeftNames(s, j) \subseteq R
  BY <1>2, Zenon DEF R
<1>6. Cardinality(LeftNames(s, j)) <= Cardinality(R)
  BY <1>4, <1>5, FS_Subset, Zenon
<1>7. Left(s, j) <= Left(s, i) - 1
  BY <1>4, <1>6, Zenon DEF Left
<1> QED BY <1>3, <1>7, SMT

(***************************************************************************)
(* Where the calls under way cannot go on.                                 *)
(***************************************************************************)

\* Behind an expression nothing can follow but its end.
LEMMA ContSilent ==
  ASSUME NEW s \in Seq(Token), NEW p, NEW cs, Stack(cs), cs = <<>> \/ cs[Len(cs)].fn = "(",
         NEW k, NEW n, Cont(s, p, cs, k, n), NEW r \in Reads(s), At(s, r[1]) \notin {")", "end"}
  PROVE  k[r] = {}
<1>1. CASE cs = <<>>
  <2>1. k = AtEnd(s)
    BY <1>1, ContEmpty, Zenon
  <2>2. r[1] \in Pos(s) /\ r[1] # Len(s) + 1
    <3>1. r[1] \in Pos(s)
      BY PairOf, Zenon
    <3>2. ~(Len(s) + 1 <= Len(s))
      OBVIOUS
    <3>3. At(s, Len(s) + 1) = "end"
      BY <3>2, Zenon DEF At
    <3> QED BY <3>1, <3>3, Zenon
  <2> QED BY <2>1, <2>2, Zenon DEF AtEnd
<1>2. CASE cs # <<>>
  <2>1. PICK S : cs \in Seq(S)
    BY Zenon DEF Stack
  <2>2. PICK k1, n1, u, e : /\ Cont(s, p, SubSeq(cs, 1, Len(cs) - 1), k1, n1) /\ n1 \in Nat
                            /\ NodeSays(p, cs[Len(cs)], u) /\ NodeTests(cs[Len(cs)], e)
                            /\ k = After(s, p, cs[Len(cs)].fn, u, k1) /\ n = n1 + e
    BY <1>2, <2>1, ContPop
  <2>3. k = AfterParen(s, k1)
    BY <1>2, <2>2, Zenon DEF After
  <2> QED BY <2>3, Zenon DEF AfterParen
<1> QED BY <1>1, <1>2

\* Behind a term, nothing but an "or" or the end.
LEMMA TermSilent ==
  ASSUME NEW s \in Seq(Token), NEW p, NEW cs, Stack(cs), cs # <<>>, cs[Len(cs)].fn = "expr",
         NEW k, NEW n, Cont(s, p, cs, k, n), NEW r \in Reads(s), At(s, r[1]) \notin {"or", ")", "end"}
  PROVE  k[r] = {}
<1>1. PICK S : cs \in Seq(S)
  BY Zenon DEF Stack
<1> DEFINE b == SubSeq(cs, 1, Len(cs) - 1)
<1>2. PICK k1, n1, u, e : /\ Cont(s, p, b, k1, n1) /\ n1 \in Nat
                          /\ NodeSays(p, cs[Len(cs)], u) /\ NodeTests(cs[Len(cs)], e)
                          /\ k = After(s, p, cs[Len(cs)].fn, u, k1) /\ n = n1 + e
  BY <1>1, ContPop
<1>3. k = AfterExpr(s, p, u, k1)
  BY <1>2, Zenon DEF After
<1>4. Stack(b) /\ (b = <<>> \/ b[Len(b)].fn = "(")
  BY StackPop, Zenon
<1> HIDE DEF b
<1> DEFINE q == <<r[1], Disj(u, r[2])>>
<1>5. q[1] = r[1]
  OBVIOUS
<1>6. q \in Reads(s)
  BY <1>2, PairOf, PairIn, ValuesClosed, Zenon DEF NodeSays
<1>7. k[r] = UNION {k1[z] : z \in MoreTerms(s, Readings(s, p), q)}
  BY <1>3, Zenon DEF AfterExpr
<1> HIDE DEF q
<1>10. At(s, r[1]) # "or"
  OBVIOUS
<1>11. At(s, q[1]) # "or"
  BY <1>5, <1>10
<1>8. \A z : z \in MoreTerms(s, Readings(s, p), q) => z = q
  BY <1>11, Zenon DEF MoreTerms
<1>9. k1[q] = {}
  BY <1>2, <1>4, <1>5, <1>6, ContSilent, Zenon
<1> QED BY <1>7, <1>8, <1>9, Zenon

(***************************************************************************)
(* One step of the parser, for one packet.  s is the text, i the position, *)
(* cs the calls under way, e what the last of them returned.               *)
(***************************************************************************)

LEMMA FreshCall ==
  ASSUME NEW fn, NEW p
  PROVE  NodeSays(p, Call(fn, NoTree), Unit(fn)) /\ NodeTests(Call(fn, NoTree), 0) /\ Call(fn, NoTree).fn = fn
<1>1. Call(fn, NoTree).node = NoTree /\ Call(fn, NoTree).fn = fn
  BY Zenon DEF Call
<1>2. Unit(fn) \in Values /\ 0 \in Nat
  BY DEF Unit, Values
<1> QED BY <1>1, <1>2, Zenon DEF NodeSays, NodeTests

\* What parse_expr, called, makes of k.
LEMMA ContExpr ==
  ASSUME NEW s \in Seq(Token), NEW p, NEW cs, Stack(cs), NEW k, NEW n, Cont(s, p, cs, k, n)
  PROVE  Cont(s, p, cs \o ParseExpr, AfterTerm(s, p, "yes", AfterExpr(s, p, "no", k)), n)
<1>1. PICK S : cs \in Seq(S)
  BY Zenon DEF Stack
<1> DEFINE c == Call("expr", NoTree)
           d == Call("term", NoTree)
<1>2. cs \o ParseExpr = Append(Append(cs, c), d)
  <2>1. cs \o <<c, d>> = Append(Append(cs, c), d)
    <3> HIDE DEF c, d
    <3> QED BY <1>1, PushedTwo
  <2> QED BY <2>1, Zenon DEF ParseExpr
<1>3. NodeSays(p, c, "no") /\ NodeSays(p, d, "yes") /\ NodeTests(c, 0) /\ NodeTests(d, 0) /\ c.fn = "expr" /\ d.fn = "term"
  BY FreshCall, Zenon DEF Unit
<1>4. n \in Nat
  BY <1>1, ContIsNat
<1>5. n + 0 = n
  BY <1>4, SMT
<1>6. After(s, p, "expr", "no", k) = AfterExpr(s, p, "no", k)
  BY Zenon DEF After
<1> HIDE DEF c, d
<1>7. Cont(s, p, Append(cs, c), After(s, p, c.fn, "no", k), n + 0)
  BY <1>1, <1>3, ContPush
<1>8. Cont(s, p, Append(cs, c), AfterExpr(s, p, "no", k), n)
  BY <1>3, <1>5, <1>6, <1>7, Zenon
<1>9. Append(cs, c) \in Seq(S \cup {c})
  BY <1>1, Pushed, Zenon
<1>10. Cont(s, p, Append(Append(cs, c), d), After(s, p, d.fn, "yes", AfterExpr(s, p, "no", k)), n + 0)
  BY <1>3, <1>8, <1>9, ContPush
<1>11. \A h : After(s, p, "term", "yes", h) = AfterTerm(s, p, "yes", h)
  BY Zenon DEF After
<1> QED BY <1>2, <1>3, <1>5, <1>10, <1>11, Zenon

LEMMA StackExpr ==
  ASSUME NEW cs, Stack(cs), cs = <<>> \/ cs[Len(cs)].fn = "("
  PROVE  Stack(cs \o ParseExpr)
<1>1. PICK S : cs \in Seq(S)
  BY Zenon DEF Stack
<1> DEFINE c == Call("expr", NoTree)
           d == Call("term", NoTree)
<1>2. cs \o ParseExpr = Append(Append(cs, c), d)
  <2>1. cs \o <<c, d>> = Append(Append(cs, c), d)
    <3> HIDE DEF c, d
    <3> QED BY <1>1, PushedTwo
  <2> QED BY <2>1, Zenon DEF ParseExpr
<1>3. c.fn = "expr" /\ d.fn = "term"
  BY FreshCall, Zenon
<1> HIDE DEF c, d
<1>4. Stack(Append(cs, c))
  BY <1>3, StackPush
<1>5. Append(cs, c) # <<>> /\ Append(cs, c)[Len(Append(cs, c))] = c
  <2>1. Len(cs) \in Nat /\ Len(Append(cs, c)) = Len(cs) + 1 /\ Append(cs, c)[Len(cs) + 1] = c
    BY <1>1, Pushed
  <2>2. Len(Append(cs, c)) # 0
    BY <2>1, SMT
  <2> QED BY <2>1, <2>2
<1>6. Stack(Append(Append(cs, c), d))
  <2>1. Append(cs, c) # <<>> /\ Append(cs, c)[Len(Append(cs, c))].fn = "expr"
    BY <1>3, <1>5, Zenon
  <2> DEFINE b == Append(cs, c)
  <2>2. d.fn \in {"expr", "term", "(", "not"} /\ d.fn # "expr"
    BY <1>3
  <2>3. Stack(b) /\ b # <<>> /\ b[Len(b)].fn = "expr"
    BY <1>4, <2>1
  <2> HIDE DEF b
  <2>4. Stack(Append(b, d))
    BY <2>2, <2>3, StackPush
  <2> QED BY <2>4, Zenon DEF b
<1> QED BY <1>2, <1>6, Zenon

\* The call of parse_expr by compile_bpf.
LEMMA StartsPending ==
  ASSUME NEW s \in Seq(Token), NEW p
  PROVE  Pending(s, 1, ParseExpr, p) /\ Stack(ParseExpr)
<1>1. Stack(<<>>)
  BY DEF Stack, Nested
<1>2. <<>> \o ParseExpr = ParseExpr
  BY DEF ParseExpr
<1>3. Stack(ParseExpr)
  BY <1>1, <1>2, StackExpr
<1> DEFINE k == AfterTerm(s, p, "yes", AfterExpr(s, p, "no", AtEnd(s)))
           X == Readings(s, p)[1].exprs
<1>4. Cont(s, p, ParseExpr, k, 0)
  BY <1>1, <1>2, ContNone, ContExpr, Zenon
<1>5. 1 \in Pos(s)
  BY DEF Pos
<1>6. Says(k, Readings(s, p)[1].factors) = Says(AtEnd(s), X)
  BY <1>5, ExprStart, Zenon
<1>7. X \subseteq Reads(s)
  BY <1>5, ReadingsTable, RowOf, Zenon
<1> HIDE DEF X, k
<1>8. ASSUME NEW y PROVE y \in Says(AtEnd(s), X) <=> \E q \in X : q[1] = Len(s) + 1 /\ y = q[2]
  <2>1. \A q \in X : AtEnd(s)[q] = IF q[1] = Len(s) + 1 THEN {q[2]} ELSE {}
    BY <1>7, Zenon DEF AtEnd
  <2>2. \A q \in X : y \in AtEnd(s)[q] <=> q[1] = Len(s) + 1 /\ y = q[2]
    BY <2>1, Zenon
  <2>3. y \in Says(AtEnd(s), X) <=> \E q \in X : y \in AtEnd(s)[q]
    BY Zenon DEF Says
  <2> QED BY <2>2, <2>3, Zenon
<1>9. FilterSays(s, p) = Says(AtEnd(s), X)
  <2>1. \A y : y \in FilterSays(s, p) <=> \E q \in X : q[1] = Len(s) + 1 /\ y = q[2]
    BY Zenon DEF FilterSays, X
  <2> QED BY <1>8, <2>1
<1>10. 0 + Left(s, 1) <= All(s)
  BY NamesFinite, SMT
<1> QED BY <1>3, <1>4, <1>6, <1>9, <1>10, Zenon DEF Pending

LEMMA PosIsNat ==
  ASSUME NEW s \in Seq(Token), NEW i \in Pos(s)
  PROVE  i \in Nat /\ i + 1 \in Nat
BY SMT DEF Pos

LEMMA FactorsOf ==
  ASSUME NEW s \in Seq(Token), NEW p, NEW i \in 1..Len(s)
  PROVE  Readings(s, p)[i].factors = FactorsAt(s, p, Readings(s, p), i)
<1> DEFINE T == Readings(s, p)
<1>1. T[i] = ReadingsAt(s, p, T, i)
  BY ReadingsTable, Zenon
<1> HIDE DEF T
<1>2. ReadingsAt(s, p, T, i).factors = FactorsAt(s, p, T, i)
  BY Zenon DEF ReadingsAt
<1>3. T[i].factors = FactorsAt(s, p, T, i)
  BY <1>1, <1>2, Zenon
<1> QED BY <1>3 DEF T

\* parse_factor meets "not".
LEMMA MeetsNot ==
  ASSUME NEW s \in Seq(Token), NEW p, NEW i \in Pos(s), NEW cs, Stack(cs), Pending(s, i, cs, p),
         At(s, i) = "not"
  PROVE  Pending(s, i + 1, Append(cs, Call("not", NoTree)), p)
<1> DEFINE c == Call("not", NoTree)
           F == Readings(s, p)[i + 1].factors
<1>1. PICK S : cs \in Seq(S)
  BY Zenon DEF Stack
<1>2. PICK k, n : /\ Cont(s, p, cs, k, n) /\ n + Left(s, i) <= All(s)
                  /\ FilterSays(s, p) = Says(k, Readings(s, p)[i].factors)
  BY Zenon DEF Pending
<1>3. i \in 1..Len(s) /\ i + 1 \in Pos(s)
  BY LaterPos
<1>4. Readings(s, p)[i].factors = {<<r[1], Neg(r[2])>> : r \in F}
  <2>1. Readings(s, p)[i].factors = FactorsAt(s, p, Readings(s, p), i)
    BY <1>3, FactorsOf
  <2> QED BY <2>1, Zenon DEF FactorsAt
<1>5. F \subseteq Reads(s)
  BY <1>3, ReadingsTable, RowOf, Zenon
<1>6. NodeSays(p, c, "no") /\ NodeTests(c, 0) /\ c.fn = "not"
  BY FreshCall, Zenon DEF Unit
<1>7. n \in Nat
  BY <1>1, <1>2, ContIsNat
<1>8. n + 0 = n
  BY <1>7, SMT
<1> HIDE DEF c
<1>9. Cont(s, p, Append(cs, c), After(s, p, c.fn, "no", k), n + 0)
  BY <1>1, <1>2, <1>6, ContPush
<1>10. After(s, p, "not", "no", k) = AfterNot(s, k)
  BY Zenon DEF After
<1>11. Cont(s, p, Append(cs, c), AfterNot(s, k), n)
  BY <1>6, <1>8, <1>9, <1>10, Zenon
<1>12. Says(k, {<<r[1], Neg(r[2])>> : r \in F}) = Says(AfterNot(s, k), F)
  <2> HIDE DEF F
  <2>1. \A r \in F : AfterNot(s, k)[r] = k[<<r[1], Neg(r[2])>>]
    BY <1>5, Zenon DEF AfterNot
  <2>2. \A y : y \in Says(AfterNot(s, k), F) <=> \E r \in F : y \in k[<<r[1], Neg(r[2])>>]
    BY <2>1, Zenon DEF Says
  <2>3. \A y : y \in Says(k, {<<r[1], Neg(r[2])>> : r \in F}) <=> \E r \in F : y \in k[<<r[1], Neg(r[2])>>]
    BY Zenon DEF Says
  <2> QED BY <2>2, <2>3
<1>13. n + Left(s, i + 1) <= All(s)
  <2>1. Left(s, i + 1) <= Left(s, i)
    <3>1. i \in Nat /\ i + 1 \in Nat /\ i + 1 >= i
      BY PosIsNat, SMT
    <3> QED BY <3>1, LeftFewer
  <2>2. Left(s, i) \in Nat /\ Left(s, i + 1) \in Nat /\ All(s) \in Nat
    BY NamesFinite
  <2> QED BY <1>2, <1>7, <2>1, <2>2, SMT
<1>14. FilterSays(s, p) = Says(AfterNot(s, k), F)
  BY <1>2, <1>4, <1>12, Zenon
<1> HIDE DEF F
<1>15. Pending(s, i + 1, Append(cs, c), p)
  BY <1>11, <1>13, <1>14, Zenon DEF Pending, F
<1> QED BY <1>15 DEF c

\* parse_factor meets "(".
LEMMA MeetsParen ==
  ASSUME NEW s \in Seq(Token), NEW p, NEW i \in Pos(s), NEW cs, Stack(cs), Pending(s, i, cs, p),
         At(s, i) = "("
  PROVE  Pending(s, i + 1, Append(cs, Call("(", NoTree)) \o ParseExpr, p)
<1> DEFINE c == Call("(", NoTree)
           X == Readings(s, p)[i + 1].exprs
           F == Readings(s, p)[i].factors
<1>1. PICK S : cs \in Seq(S)
  BY Zenon DEF Stack
<1>2. PICK k, n : /\ Cont(s, p, cs, k, n) /\ n + Left(s, i) <= All(s)
                  /\ FilterSays(s, p) = Says(k, F)
  BY Zenon DEF Pending
<1>3. i \in 1..Len(s) /\ i + 1 \in Pos(s)
  BY LaterPos
<1>4. F = {<<r[1] + 1, r[2]>> : r \in {q \in X : At(s, q[1]) = ")"}}
  <2>1. F = FactorsAt(s, p, Readings(s, p), i)
    BY <1>3, FactorsOf
  <2> QED BY <2>1, Zenon DEF FactorsAt
<1>5. X \subseteq Reads(s)
  BY <1>3, ReadingsTable, RowOf, Zenon
<1>6. NodeSays(p, c, "no") /\ NodeTests(c, 0) /\ c.fn = "("
  BY FreshCall, Zenon DEF Unit
<1>7. n \in Nat
  BY <1>1, <1>2, ContIsNat
<1>8. n + 0 = n
  BY <1>7, SMT
<1> HIDE DEF c, F
<1> DEFINE b == Append(cs, c)
           h == AfterParen(s, k)
<1>9. Cont(s, p, b, After(s, p, c.fn, "no", k), n + 0)
  BY <1>1, <1>2, <1>6, ContPush
<1>10. After(s, p, "(", "no", k) = h
  BY Zenon DEF After
<1>11. Cont(s, p, b, h, n)
  BY <1>6, <1>8, <1>9, <1>10, Zenon
<1>12. Says(k, F) = Says(h, X)
  <2> HIDE DEF X, b
  <2>1. \A r \in X : h[r] = IF At(s, r[1]) = ")" THEN k[<<r[1] + 1, r[2]>>] ELSE {}
    BY <1>5, Zenon DEF AfterParen
  <2> HIDE DEF h
  <2>2. ASSUME NEW y, NEW r \in X PROVE y \in h[r] <=> At(s, r[1]) = ")" /\ y \in k[<<r[1] + 1, r[2]>>]
    BY <2>1, Zenon
  <2>3. \A y : y \in Says(h, X) <=> \E r \in X : At(s, r[1]) = ")" /\ y \in k[<<r[1] + 1, r[2]>>]
    BY <2>2, Zenon DEF Says
  <2>4. \A y : y \in Says(k, F) <=> \E r \in X : At(s, r[1]) = ")" /\ y \in k[<<r[1] + 1, r[2]>>]
    BY <1>4, Zenon DEF Says
  <2> QED BY <2>3, <2>4
<1>13. n + Left(s, i + 1) <= All(s)
  <2>1. Left(s, i + 1) <= Left(s, i)
    <3>1. i \in Nat /\ i + 1 \in Nat /\ i + 1 >= i
      BY PosIsNat, SMT
    <3> QED BY <3>1, LeftFewer
  <2>2. Left(s, i) \in Nat /\ Left(s, i + 1) \in Nat /\ All(s) \in Nat
    BY NamesFinite
  <2> QED BY <1>2, <1>7, <2>1, <2>2, SMT
<1>14. Stack(b)
  BY <1>6, StackPush
<1> DEFINE g == AfterTerm(s, p, "yes", AfterExpr(s, p, "no", h))
           G == Readings(s, p)[i + 1].factors
<1> HIDE DEF b, h, X
<1>15. Cont(s, p, b \o ParseExpr, g, n)
  BY <1>11, <1>14, ContExpr, Zenon
<1>16. Says(g, G) = Says(h, X)
  BY <1>3, ExprStart, Zenon DEF X
<1>17. FilterSays(s, p) = Says(g, G)
  BY <1>2, <1>12, <1>16, Zenon
<1> HIDE DEF g, G
<1>18. Pending(s, i + 1, b \o ParseExpr, p)
  BY <1>13, <1>15, <1>17, Zenon DEF Pending, G
<1> QED BY <1>18 DEF b, c

\* parse_primitive reads a test: the factors there are one.
LEMMA MeetsTest ==
  ASSUME NEW s \in Seq(Token), NEW p, NEW i \in Pos(s), NEW cs, Stack(cs), Pending(s, i, cs, p),
         At(s, i) \notin {"not", "("}, NEW to, NEW name, NEW dir, NEW val,
         name = At(s, NameAt(s, i)),
         \/ IsSimple(s, i) /\ to = NameAt(s, i) + 1 /\ dir = "either" /\ val = 0
         \/ /\ HasArgument(s, i) /\ to = NameAt(s, i) + 2
            /\ dir = Direction(s, i) /\ val = s[NameAt(s, i) + 1].v
  PROVE  HasRead(s, to, cs, Primitive(name, dir, val), p) /\ to \in Pos(s)
<1> DEFINE F == Readings(s, p)[i].factors
           n0 == NameAt(s, i)
<1>1. PICK S : cs \in Seq(S)
  BY Zenon DEF Stack
<1>2. PICK k, n : /\ Cont(s, p, cs, k, n) /\ n + Left(s, i) <= All(s)
                  /\ FilterSays(s, p) = Says(k, F)
  BY Zenon DEF Pending
<1>3. /\ n0 \in Pos(s) /\ to \in Pos(s) /\ n0 \in Nat /\ to \in Nat /\ to > n0 /\ n0 >= i
      /\ n0 \in 1..Len(s) /\ i \in 1..Len(s)
  <2>1. n0 \in Nat /\ n0 \in Pos(s) /\ to \in Pos(s) /\ n0 + 1 \in Pos(s)
    BY PrimitivePos
  <2>2. n0 >= i
    BY SMT DEF NameAt, Pos
  <2>3. to = n0 + 1 \/ to = n0 + 2
    OBVIOUS
  <2> HIDE DEF n0
  <2> QED BY <2>1, <2>2, <2>3, SMT DEF Pos
<1>4. name \in Simple \cup WithArgument
  <2>1. IsSimple(s, i) => name \in Simple
    BY DEF IsSimple
  <2>2. HasArgument(s, i) => name \in WithArgument
    BY DEF HasArgument, IsArgument, WithArgument
  <2> QED BY <2>1, <2>2
<1>5. ~(IsSimple(s, i) /\ HasArgument(s, i))
  BY DEF IsSimple, HasArgument, IsArgument, Simple
<1>6. F = {<<to, TestSays(p, name, dir, val)>>}
  <2>1. F = FactorsAt(s, p, Readings(s, p), i)
    BY <1>3, FactorsOf
  <2>2. At(s, i) # "not" /\ At(s, i) # "("
    OBVIOUS
  <2>3. CASE IsSimple(s, i)
    <3>1. to = NameAt(s, i) + 1 /\ dir = "either" /\ val = 0
      BY <1>5, <2>3
    <3> QED BY <2>1, <2>2, <2>3, <3>1, Zenon DEF FactorsAt
  <2>4. CASE ~IsSimple(s, i)
    <3>1. to = NameAt(s, i) + 2 /\ dir = Direction(s, i) /\ val = s[NameAt(s, i) + 1].v /\ HasArgument(s, i)
      BY <2>4
    <3> QED BY <2>1, <2>2, <2>4, <3>1, Zenon DEF FactorsAt
  <2> QED BY <2>3, <2>4
<1> DEFINE v == TestSays(p, name, dir, val)
           e == Primitive(name, dir, val)
<1>7. TreeSays(p, e, v) /\ TreeTests(e, 1)
  BY <1>4, PrimitiveSays, PrimitiveTests, Zenon
<1> HIDE DEF F, v, e
<1>8. Says(k, F) = k[<<to, v>>]
  <2>1. F = {<<to, v>>}
    BY <1>6 DEF v
  <2> QED BY <2>1 DEF Says
<1>9. n0 \in Names(s)
  <2>1. s[n0].t \in Simple \cup WithArgument
    <3>1. n0 <= Len(s)
      BY <1>3
    <3> QED BY <1>4, <3>1 DEF At
  <2> QED BY <1>3, <2>1 DEF Names
<1> HIDE DEF n0
<1>10. n + 1 + Left(s, to) <= All(s)
  <2>1. i \in Nat
    BY <1>3, SMT
  <2>2. Left(s, to) + 1 <= Left(s, i)
    BY <1>3, <1>9, <2>1, LeftOneLess
  <2>3. Left(s, i) \in Nat /\ Left(s, to) \in Nat /\ All(s) \in Nat
    BY NamesFinite
  <2>4. n \in Nat
    BY <1>1, <1>2, ContIsNat
  <2> QED BY <1>2, <2>2, <2>3, <2>4, SMT
<1>11. FilterSays(s, p) = k[<<to, v>>]
  BY <1>2, <1>8, Zenon
<1>12. HasRead(s, to, cs, e, p)
  BY <1>2, <1>7, <1>10, <1>11, Zenon DEF HasRead
<1> QED BY <1>3, <1>12 DEF e

\* parse_primitive fails: there is no factor there, and so no reading of the text.
LEMMA MeetsNothing ==
  ASSUME NEW s \in Seq(Token), NEW p, NEW i \in Pos(s), NEW cs, Pending(s, i, cs, p),
         At(s, i) \notin {"not", "("}, ~IsSimple(s, i), ~HasArgument(s, i)
  PROVE  FilterSays(s, p) = {}
<1> DEFINE F == Readings(s, p)[i].factors
<1>1. PICK k, n : FilterSays(s, p) = Says(k, F)
  BY Zenon DEF Pending
<1>2. F = {}
  <2>1. CASE At(s, i) = "end"
    <3>1. At(s, i) \in {"or", "and", ")", "end"}
      BY <2>1
    <3> QED BY <3>1, NoFactor, Zenon
  <2>2. CASE At(s, i) # "end"
    <3>1. i \in 1..Len(s)
      BY <2>2, LaterPos
    <3>2. F = FactorsAt(s, p, Readings(s, p), i)
      BY <3>1, FactorsOf
    <3>3. At(s, i) # "not" /\ At(s, i) # "("
      OBVIOUS
    <3> QED BY <3>2, <3>3, Zenon DEF FactorsAt
  <2> QED BY <2>1, <2>2
<1> HIDE DEF F
<1>3. Says(k, F) = {}
  BY <1>2 DEF Says
<1> QED BY <1>1, <1>3, Zenon

\* What the call on top makes of the tree that is returned to it.
LEMMA GivesBack ==
  ASSUME NEW s \in Seq(Token), NEW p, NEW i, NEW cs, Stack(cs), cs # <<>>, NEW e, HasRead(s, i, cs, e, p)
  PROVE  Returning(s, p, i, cs, e)
<1>1. PICK S : cs \in Seq(S)
  BY Zenon DEF Stack
<1>2. PICK h, l, v, c : /\ Cont(s, p, cs, h, l) /\ TreeSays(p, e, v) /\ TreeTests(e, c)
                        /\ l + c + Left(s, i) <= All(s)
                        /\ FilterSays(s, p) = h[<<i, v>>]
  BY Zenon DEF HasRead
<1>3. PICK k, n, u, b : /\ Cont(s, p, Back(cs), k, n) /\ n \in Nat
                        /\ NodeSays(p, cs[Len(cs)], u) /\ NodeTests(cs[Len(cs)], b)
                        /\ h = After(s, p, cs[Len(cs)].fn, u, k) /\ l = n + b
  BY <1>1, <1>2, ContPop DEF Back
<1>4. v \in Values /\ c \in Nat
  BY <1>2, TreeSaysValue, TreeTestsCount, Zenon
<1>5. n + b + c + Left(s, i) <= All(s)
  BY <1>2, <1>3
<1>6. FilterSays(s, p) = After(s, p, cs[Len(cs)].fn, u, k)[<<i, v>>]
  BY <1>2, <1>3, Zenon
<1> QED BY <1>2, <1>3, <1>4, <1>5, <1>6, Zenon DEF Returning

\* parse_factor returns behind "not".
LEMMA GivesNot ==
  ASSUME NEW s \in Seq(Token), NEW p, NEW i \in Pos(s), NEW cs, Stack(cs), cs # <<>>, NEW e,
         HasRead(s, i, cs, e, p), cs[Len(cs)].fn = "not", cs[Len(cs)].node = NoTree
  PROVE  HasRead(s, i, Back(cs), Negation(e), p)
<1>1. PICK k, n, u, b, v, c :
           /\ Cont(s, p, Back(cs), k, n) /\ n \in Nat
           /\ NodeSays(p, cs[Len(cs)], u) /\ NodeTests(cs[Len(cs)], b)
           /\ TreeSays(p, e, v) /\ TreeTests(e, c) /\ v \in Values /\ c \in Nat
           /\ n + b + c + Left(s, i) <= All(s)
           /\ FilterSays(s, p) = After(s, p, cs[Len(cs)].fn, u, k)[<<i, v>>]
  <2>1. Returning(s, p, i, cs, e)
    BY GivesBack, Zenon
  <2> QED BY <2>1, Zenon DEF Returning
<1>2. TreeSays(p, Negation(e), Neg(v)) /\ TreeTests(Negation(e), c)
  BY <1>1, NegationSays, NegationTests, Zenon
<1>3. After(s, p, cs[Len(cs)].fn, u, k)[<<i, v>>] = k[<<i, Neg(v)>>]
  <2>1. After(s, p, cs[Len(cs)].fn, u, k) = AfterNot(s, k)
    BY Zenon DEF After
  <2>2. <<i, v>> \in Reads(s) /\ <<i, v>>[1] = i /\ <<i, v>>[2] = v
    BY <1>1, PairIn
  <2>3. AfterNot(s, k)[<<i, v>>] = k[<<i, Neg(v)>>]
    BY <2>2 DEF AfterNot
  <2> QED BY <2>1, <2>3, Zenon
<1>4. n + c + Left(s, i) <= All(s)
  <2>1. b \in Nat
    BY <1>1, Zenon DEF NodeTests
  <2>2. Left(s, i) \in Nat /\ All(s) \in Nat
    BY NamesFinite
  <2> QED BY <1>1, <2>1, <2>2, SMT
<1>5. FilterSays(s, p) = k[<<i, Neg(v)>>]
  BY <1>1, <1>3, Zenon
<1> QED BY <1>1, <1>2, <1>4, <1>5, Zenon DEF HasRead

\* parse_expr returns to a parenthesis; without its end there is no reading.
LEMMA GivesParen ==
  ASSUME NEW s \in Seq(Token), NEW p, NEW i \in Pos(s), NEW cs, Stack(cs), cs # <<>>, NEW e,
         HasRead(s, i, cs, e, p), cs[Len(cs)].fn = "("
  PROVE  IF At(s, i) = ")" THEN HasRead(s, i + 1, Back(cs), e, p) ELSE FilterSays(s, p) = {}
<1>1. PICK k, n, u, b, v, c :
           /\ Cont(s, p, Back(cs), k, n) /\ n \in Nat
           /\ NodeSays(p, cs[Len(cs)], u) /\ NodeTests(cs[Len(cs)], b)
           /\ TreeSays(p, e, v) /\ TreeTests(e, c) /\ v \in Values /\ c \in Nat
           /\ n + b + c + Left(s, i) <= All(s)
           /\ FilterSays(s, p) = After(s, p, cs[Len(cs)].fn, u, k)[<<i, v>>]
  <2>1. Returning(s, p, i, cs, e)
    BY GivesBack, Zenon
  <2> QED BY <2>1, Zenon DEF Returning
<1>3. After(s, p, cs[Len(cs)].fn, u, k)[<<i, v>>] = IF At(s, i) = ")" THEN k[<<i + 1, v>>] ELSE {}
  <2>1. After(s, p, cs[Len(cs)].fn, u, k) = AfterParen(s, k)
    BY Zenon DEF After
  <2>2. <<i, v>> \in Reads(s) /\ <<i, v>>[1] = i /\ <<i, v>>[2] = v
    BY <1>1, PairIn
  <2>3. AfterParen(s, k)[<<i, v>>] = IF At(s, i) = ")" THEN k[<<i + 1, v>>] ELSE {}
    BY <2>2 DEF AfterParen
  <2> QED BY <2>1, <2>3, Zenon
<1>4. CASE At(s, i) = ")"
  <2>1. n + c + Left(s, i + 1) <= All(s)
    <3>1. b \in Nat
      BY <1>1, Zenon DEF NodeTests
    <3>2. Left(s, i) \in Nat /\ Left(s, i + 1) \in Nat /\ All(s) \in Nat
      BY NamesFinite
    <3>3. Left(s, i + 1) <= Left(s, i)
      <4>1. i \in Nat /\ i + 1 \in Nat /\ i + 1 >= i
        BY PosIsNat, SMT
      <4> QED BY <4>1, LeftFewer
    <3> QED BY <1>1, <3>1, <3>2, <3>3, SMT
  <2>2. FilterSays(s, p) = k[<<i + 1, v>>]
    BY <1>1, <1>3, <1>4, Zenon
  <2> QED BY <1>1, <1>4, <2>1, <2>2, Zenon DEF HasRead
<1>5. CASE At(s, i) # ")"
  BY <1>1, <1>3, <1>5, Zenon
<1> QED BY <1>4, <1>5, Zenon

\* A node and a tree together.
LEMMA NodeWith ==
  ASSUME NEW p, NEW c, NEW u, NEW b, NodeSays(p, c, u), NodeTests(c, b),
         NEW e, NEW v, NEW n, TreeSays(p, e, v), TreeTests(e, n)
  PROVE  /\ c.fn = "term" => TreeSays(p, WithOf("and", c.node, e), Conj(u, v))
         /\ c.fn = "expr" => TreeSays(p, WithOf("or", c.node, e), Disj(u, v))
         /\ \A op \in {"and", "or"} : TreeTests(WithOf(op, c.node, e), b + n)
         /\ b \in Nat /\ n \in Nat /\ u \in Values /\ v \in Values
<1>1. v \in Values /\ n \in Nat /\ u \in Values /\ b \in Nat
  BY TreeSaysValue, TreeTestsCount, Zenon DEF NodeSays, NodeTests
<1>2. CASE c.node = NoTree
  <2>1. u = Unit(c.fn) /\ b = 0
    BY <1>2, Zenon DEF NodeSays, NodeTests
  <2>2. b + n = n
    BY <1>1, <2>1, SMT
  <2>3. \A op : WithOf(op, c.node, e) = e
    BY <1>2, Zenon DEF WithOf
  <2>4. c.fn = "term" => Conj(u, v) = v
    BY <1>1, <2>1, ValuesClosed, Zenon DEF Unit
  <2>5. c.fn = "expr" => Disj(u, v) = v
    BY <1>1, <2>1, ValuesClosed, Zenon DEF Unit
  <2>6. /\ c.fn = "term" => TreeSays(p, WithOf("and", c.node, e), Conj(u, v))
        /\ c.fn = "expr" => TreeSays(p, WithOf("or", c.node, e), Disj(u, v))
    BY <2>3, <2>4, <2>5, Zenon
  <2>7. \A op \in {"and", "or"} : TreeTests(WithOf(op, c.node, e), b + n)
    BY <2>2, <2>3, Zenon
  <2> QED BY <1>1, <2>6, <2>7, Zenon
<1>3. CASE c.node # NoTree
  <2>1. TreeSays(p, c.node, u) /\ TreeTests(c.node, b)
    BY <1>3, Zenon DEF NodeSays, NodeTests
  <2>2. \A op : WithOf(op, c.node, e) = Both(op, c.node, e)
    BY <1>3, Zenon DEF WithOf
  <2>3. TreeSays(p, Both("and", c.node, e), Conj(u, v)) /\ TreeSays(p, Both("or", c.node, e), Disj(u, v))
    BY <2>1, JunctionSays, Zenon
  <2>4. \A op \in {"and", "or"} : TreeTests(Both(op, c.node, e), b + n)
    BY <2>1, JunctionTests, Zenon
  <2> QED BY <1>1, <2>2, <2>3, <2>4, Zenon
<1> QED BY <1>2, <1>3, Zenon

LEMMA TreeIsTree ==
  ASSUME NEW p, NEW e, NEW v, TreeSays(p, e, v)
  PROVE  e # NoTree
BY NoTreeSaysNothing, Zenon

LEMMA NodeOf ==
  ASSUME NEW p, NEW fn, NEW e, NEW w, NEW n, TreeSays(p, e, w), TreeTests(e, n)
  PROVE  NodeSays(p, Call(fn, e), w) /\ NodeTests(Call(fn, e), n) /\ Call(fn, e).fn = fn
<1>1. Call(fn, e).node = e /\ Call(fn, e).fn = fn
  BY Zenon DEF Call
<1>2. e # NoTree /\ w \in Values /\ n \in Nat
  BY TreeIsTree, TreeSaysValue, TreeTestsCount, Zenon
<1> QED BY <1>1, <1>2, Zenon DEF NodeSays, NodeTests

\* parse_factor returns to parse_term: it returns too, or goes on.  The readings that
\* end here, or go on otherwise, are silent.
LEMMA GivesTerm ==
  ASSUME NEW s \in Seq(Token), NEW p, NEW i \in Pos(s), NEW cs, Stack(cs), cs # <<>>, NEW e,
         HasRead(s, i, cs, e, p), cs[Len(cs)].fn = "term", NEW W, W = WithOf("and", cs[Len(cs)].node, e)
  PROVE  /\ At(s, i) \in {"or", ")", "end"} => HasRead(s, i, Back(cs), W, p)
         /\ \A j : At(s, i) \notin {"or", ")", "end"} /\ j = (IF At(s, i) = "and" THEN i + 1 ELSE i) =>
              j \in Pos(s) /\ Pending(s, j, Append(Back(cs), Call("term", W)), p)
<1> DEFINE b == Back(cs)
           T == Readings(s, p)
<1>1. PICK k, n, u, d, v, c :
           /\ Cont(s, p, b, k, n) /\ n \in Nat
           /\ NodeSays(p, cs[Len(cs)], u) /\ NodeTests(cs[Len(cs)], d)
           /\ TreeSays(p, e, v) /\ TreeTests(e, c) /\ v \in Values /\ c \in Nat
           /\ n + d + c + Left(s, i) <= All(s)
           /\ FilterSays(s, p) = After(s, p, cs[Len(cs)].fn, u, k)[<<i, v>>]
  <2>1. Returning(s, p, i, cs, e)
    BY GivesBack, Zenon
  <2> QED BY <2>1, Zenon DEF Returning
<1> DEFINE w == Conj(u, v)
           r == <<i, w>>
<1>2. TreeSays(p, W, w) /\ TreeTests(W, d + c) /\ d \in Nat /\ u \in Values
  BY <1>1, NodeWith
<1>3. w \in Values
  BY <1>1, <1>2, ValuesClosed, Zenon
<1>4. FilterSays(s, p) = UNION {k[q] : q \in MoreFactors(s, T, r)}
  <2>1. After(s, p, cs[Len(cs)].fn, u, k) = AfterTerm(s, p, u, k)
    BY Zenon DEF After
  <2>2. <<i, v>> \in Reads(s) /\ <<i, v>>[1] = i /\ <<i, v>>[2] = v
    BY <1>1, PairIn
  <2>3. AfterTerm(s, p, u, k)[<<i, v>>] = UNION {k[q] : q \in MoreFactors(s, T, <<i, Conj(u, v)>>)}
    BY <2>2 DEF AfterTerm
  <2> QED BY <1>1, <2>1, <2>3, Zenon
<1>5. r \in Reads(s) /\ r[1] = i /\ r[2] = w
  BY <1>3, PairIn
<1>6. Stack(b) /\ b # <<>> /\ b[Len(b)].fn = "expr"
  BY StackPop DEF Back
<1>7. PICK S : b \in Seq(S)
  BY <1>6, Zenon DEF Stack
<1> HIDE DEF b, T, w, r
<1>8. \A z : z \in MoreFactors(s, T, r) <=>
           \/ z = r
           \/ \E q \in T[i].terms : z = <<q[1], Conj(w, q[2])>>
           \/ At(s, i) = "and" /\ \E q \in T[i + 1].terms : z = <<q[1], Conj(w, q[2])>>
  BY <1>5, MoreFactorsAt
<1>9. ASSUME At(s, i) \in {"or", ")", "end"}
      PROVE  HasRead(s, i, b, W, p)
  <2>1. T[i].terms = {} /\ At(s, i) # "and"
    <3>1. At(s, i) \in {"or", "and", ")", "end"}
      BY <1>9
    <3> QED BY <1>9, <3>1, NoFactor DEF T
  <2>2. \A z : z \in MoreFactors(s, T, r) <=> z = r
    BY <1>8, <2>1, Zenon
  <2>3. FilterSays(s, p) = k[r]
    BY <1>4, <2>2
  <2>4. n + (d + c) + Left(s, i) <= All(s)
    BY <1>1, <1>2, NamesFinite, SMT
  <2> QED BY <1>1, <1>2, <2>3, <2>4, Zenon DEF HasRead, r
<1>10. ASSUME At(s, i) \notin {"or", ")", "end"}, NEW j, j = (IF At(s, i) = "and" THEN i + 1 ELSE i)
       PROVE  j \in Pos(s) /\ Pending(s, j, Append(b, Call("term", W)), p)
  <2>1. At(s, i) # "end" /\ At(s, i) # "or" /\ At(s, i) # ")"
    BY <1>10
  <2>2. j \in Pos(s) /\ j \in Nat /\ i \in Nat /\ j >= i
    <3>1. i + 1 \in Pos(s)
      BY <2>1, LaterPos
    <3>2. i \in Nat
      BY PosIsNat
    <3> QED BY <1>10, <3>1, <3>2, SMT
  <2>3. k[r] = {}
    <3>1. At(s, r[1]) \notin {"or", ")", "end"}
      BY <1>5, <1>10
    <3> QED BY <1>1, <1>5, <1>6, <3>1, TermSilent
  <2>4. \A z : z \in MoreFactors(s, T, r) <=> z = r \/ \E q \in T[j].terms : z = <<q[1], Conj(w, q[2])>>
    <3>1. CASE At(s, i) = "and"
      <4>1. T[i].terms = {}
        <5>1. At(s, i) \in {"or", "and", ")", "end"}
          BY <3>1
        <5> QED BY <5>1, NoFactor DEF T
      <4>2. j = i + 1
        BY <1>10, <3>1
      <4> QED BY <1>8, <3>1, <4>1, <4>2, Zenon
    <3>2. CASE At(s, i) # "and"
      <4>1. j = i
        BY <1>10, <3>2
      <4> QED BY <1>8, <3>2, <4>1, Zenon
    <3> QED BY <3>1, <3>2, Zenon
  <2>5. FilterSays(s, p) = SaysConj(k, w, T[j].terms)
    <3>1. ASSUME NEW y
          PROVE  y \in FilterSays(s, p) <=> \E q \in T[j].terms : y \in k[<<q[1], Conj(w, q[2])>>]
      <4> DEFINE M == MoreFactors(s, T, r)
      <4>1. y \in FilterSays(s, p) <=> \E z \in M : y \in k[z]
        BY <1>4, Zenon
      <4>2. \A z : z = r => y \notin k[z]
        BY <2>3
      <4>3. \A z : z \in M <=> z = r \/ \E q \in T[j].terms : z = <<q[1], Conj(w, q[2])>>
        BY <2>4, Zenon
      <4> HIDE DEF M
      <4> QED BY <4>1, <4>2, <4>3, Zenon
    <3>2. \A y : y \in SaysConj(k, w, T[j].terms) <=> \E q \in T[j].terms : y \in k[<<q[1], Conj(w, q[2])>>]
      BY Zenon DEF SaysConj
    <3> QED BY <3>1, <3>2
  <2> DEFINE g == AfterTerm(s, p, w, k)
             x1 == Call("term", W)
  <2>6. FilterSays(s, p) = Says(g, T[j].factors)
    BY <1>3, <2>2, <2>5, TermFrom, Zenon DEF T
  <2>7. NodeSays(p, x1, w) /\ NodeTests(x1, d + c) /\ x1.fn = "term"
    BY <1>2, NodeOf
  <2>8. After(s, p, "term", w, k) = g
    BY Zenon DEF After
  <2> HIDE DEF x1, g
  <2>9. Cont(s, p, Append(b, x1), After(s, p, x1.fn, w, k), n + (d + c))
    BY <1>1, <1>7, <2>7, ContPush
  <2>10. Cont(s, p, Append(b, x1), g, n + (d + c))
    BY <2>7, <2>8, <2>9, Zenon
  <2>11. n + (d + c) + Left(s, j) <= All(s)
    <3>1. Left(s, j) <= Left(s, i)
      BY <2>2, LeftFewer
    <3>2. Left(s, j) \in Nat /\ Left(s, i) \in Nat /\ All(s) \in Nat
      BY NamesFinite
    <3> QED BY <1>1, <1>2, <3>1, <3>2, SMT
  <2>12. Pending(s, j, Append(b, x1), p)
    BY <2>6, <2>10, <2>11, Zenon DEF Pending, T
  <2> QED BY <2>2, <2>12 DEF x1
<1> QED BY <1>9, <1>10, Zenon DEF b

\* parse_term returns to parse_expr: it returns too, or goes on.
LEMMA GivesExpr ==
  ASSUME NEW s \in Seq(Token), NEW p, NEW i \in Pos(s), NEW cs, Stack(cs), cs # <<>>, NEW e,
         HasRead(s, i, cs, e, p), cs[Len(cs)].fn = "expr", NEW W, W = WithOf("or", cs[Len(cs)].node, e)
  PROVE  /\ At(s, i) # "or" => HasRead(s, i, Back(cs), W, p)
         /\ At(s, i) = "or" =>
              /\ i + 1 \in Pos(s)
              /\ Pending(s, i + 1, Append(Append(Back(cs), Call("expr", W)), Call("term", NoTree)), p)
<1> DEFINE b == Back(cs)
           T == Readings(s, p)
<1>1. PICK k, n, u, d, v, c :
           /\ Cont(s, p, b, k, n) /\ n \in Nat
           /\ NodeSays(p, cs[Len(cs)], u) /\ NodeTests(cs[Len(cs)], d)
           /\ TreeSays(p, e, v) /\ TreeTests(e, c) /\ v \in Values /\ c \in Nat
           /\ n + d + c + Left(s, i) <= All(s)
           /\ FilterSays(s, p) = After(s, p, cs[Len(cs)].fn, u, k)[<<i, v>>]
  <2>1. Returning(s, p, i, cs, e)
    BY GivesBack, Zenon
  <2> QED BY <2>1, Zenon DEF Returning
<1> DEFINE w == Disj(u, v)
           r == <<i, w>>
<1>2. TreeSays(p, W, w) /\ TreeTests(W, d + c) /\ d \in Nat /\ u \in Values
  BY <1>1, NodeWith
<1>3. w \in Values
  BY <1>1, <1>2, ValuesClosed, Zenon
<1>4. FilterSays(s, p) = UNION {k[q] : q \in MoreTerms(s, T, r)}
  <2>1. After(s, p, cs[Len(cs)].fn, u, k) = AfterExpr(s, p, u, k)
    BY Zenon DEF After
  <2>2. <<i, v>> \in Reads(s) /\ <<i, v>>[1] = i /\ <<i, v>>[2] = v
    BY <1>1, PairIn
  <2>3. AfterExpr(s, p, u, k)[<<i, v>>] = UNION {k[q] : q \in MoreTerms(s, T, <<i, Disj(u, v)>>)}
    BY <2>2 DEF AfterExpr
  <2> QED BY <1>1, <2>1, <2>3, Zenon
<1>5. r \in Reads(s) /\ r[1] = i /\ r[2] = w
  BY <1>3, PairIn
<1>6. Stack(b) /\ (b = <<>> \/ b[Len(b)].fn = "(")
  BY StackPop DEF Back
<1>7. PICK S : b \in Seq(S)
  BY <1>6, Zenon DEF Stack
<1> HIDE DEF b, T, w, r
<1>8. \A z : z \in MoreTerms(s, T, r) <=>
           \/ z = r
           \/ At(s, i) = "or" /\ \E q \in T[i + 1].exprs : z = <<q[1], Disj(w, q[2])>>
  BY <1>5, MoreTermsAt
<1>9. ASSUME At(s, i) # "or"
      PROVE  HasRead(s, i, b, W, p)
  <2>2. \A z : z \in MoreTerms(s, T, r) <=> z = r
    BY <1>8, <1>9, Zenon
  <2>3. FilterSays(s, p) = k[r]
    BY <1>4, <2>2
  <2>4. n + (d + c) + Left(s, i) <= All(s)
    BY <1>1, <1>2, NamesFinite, SMT
  <2> QED BY <1>1, <1>2, <2>3, <2>4, Zenon DEF HasRead, r
<1>10. ASSUME At(s, i) = "or"
       PROVE  i + 1 \in Pos(s) /\ Pending(s, i + 1, Append(Append(b, Call("expr", W)), Call("term", NoTree)), p)
  <2>2. i + 1 \in Pos(s) /\ i + 1 \in Nat /\ i \in Nat /\ i + 1 >= i
    <3>1. i + 1 \in Pos(s)
      BY <1>10, LaterPos
    <3>2. i \in Nat
      BY PosIsNat
    <3> QED BY <3>1, <3>2, SMT
  <2>3. k[r] = {}
    <3>1. At(s, r[1]) \notin {")", "end"}
      BY <1>5, <1>10
    <3> QED BY <1>1, <1>5, <1>6, <3>1, ContSilent
  <2>4. \A z : z \in MoreTerms(s, T, r) <=> z = r \/ \E q \in T[i + 1].exprs : z = <<q[1], Disj(w, q[2])>>
    BY <1>8, <1>10, Zenon
  <2>5. FilterSays(s, p) = SaysDisj(k, w, T[i + 1].exprs)
    <3>1. ASSUME NEW y
          PROVE  y \in FilterSays(s, p) <=> \E q \in T[i + 1].exprs : y \in k[<<q[1], Disj(w, q[2])>>]
      <4> DEFINE M == MoreTerms(s, T, r)
      <4>1. y \in FilterSays(s, p) <=> \E z \in M : y \in k[z]
        BY <1>4, Zenon
      <4>2. \A z : z = r => y \notin k[z]
        BY <2>3
      <4>3. \A z : z \in M <=> z = r \/ \E q \in T[i + 1].exprs : z = <<q[1], Disj(w, q[2])>>
        BY <2>4, Zenon
      <4> HIDE DEF M
      <4> QED BY <4>1, <4>2, <4>3, Zenon
    <3>2. \A y : y \in SaysDisj(k, w, T[i + 1].exprs) <=> \E q \in T[i + 1].exprs : y \in k[<<q[1], Disj(w, q[2])>>]
      BY Zenon DEF SaysDisj
    <3> QED BY <3>1, <3>2
  <2> DEFINE h == AfterExpr(s, p, w, k)
             g == AfterTerm(s, p, "yes", h)
             x1 == Call("expr", W)
             x2 == Call("term", NoTree)
  <2>6. FilterSays(s, p) = Says(g, T[i + 1].factors)
    BY <1>3, <2>2, <2>5, ExprFrom, Zenon DEF T
  <2>7. NodeSays(p, x1, w) /\ NodeTests(x1, d + c) /\ x1.fn = "expr"
    BY <1>2, NodeOf
  <2>8. NodeSays(p, x2, "yes") /\ NodeTests(x2, 0) /\ x2.fn = "term"
    BY FreshCall, Zenon DEF Unit
  <2>9. After(s, p, "expr", w, k) = h /\ After(s, p, "term", "yes", h) = g
    BY Zenon DEF After
  <2> HIDE DEF x1, x2, g, h
  <2>10. Cont(s, p, Append(b, x1), After(s, p, x1.fn, w, k), n + (d + c))
    BY <1>1, <1>7, <2>7, ContPush
  <2>11. Cont(s, p, Append(b, x1), h, n + (d + c))
    BY <2>7, <2>9, <2>10, Zenon
  <2>12. Append(b, x1) \in Seq(S \cup {x1})
    BY <1>7, Pushed, Zenon
  <2>13. Cont(s, p, Append(Append(b, x1), x2), After(s, p, x2.fn, "yes", h), (n + (d + c)) + 0)
    BY <2>8, <2>11, <2>12, ContPush
  <2>14. (n + (d + c)) + 0 = n + (d + c)
    BY <1>1, <1>2, SMT
  <2>15. Cont(s, p, Append(Append(b, x1), x2), g, n + (d + c))
    BY <2>8, <2>9, <2>13, <2>14, Zenon
  <2>16. n + (d + c) + Left(s, i + 1) <= All(s)
    <3>1. Left(s, i + 1) <= Left(s, i)
      BY <2>2, LeftFewer
    <3>2. Left(s, i + 1) \in Nat /\ Left(s, i) \in Nat /\ All(s) \in Nat
      BY NamesFinite
    <3> QED BY <1>1, <1>2, <3>1, <3>2, SMT
  <2>17. Pending(s, i + 1, Append(Append(b, x1), x2), p)
    BY <2>6, <2>15, <2>16, Zenon DEF Pending, T
  <2> QED BY <2>2, <2>17 DEF x1, x2
<1> QED BY <1>9, <1>10, Zenon DEF b

\* parse_expr returns to compile_bpf: at the end, the text says what the tree says;
\* before, nothing.
LEMMA GivesEnd ==
  ASSUME NEW s \in Seq(Token), NEW p, NEW i \in Pos(s), NEW e, HasRead(s, i, <<>>, e, p)
  PROVE  /\ i <= Len(s) => FilterSays(s, p) = {}
         /\ i > Len(s) => \E v, c : TreeSays(p, e, v) /\ TreeTests(e, c) /\ c <= All(s) /\ FilterSays(s, p) = {v}
<1>1. PICK k, n, v, c : /\ Cont(s, p, <<>>, k, n) /\ TreeSays(p, e, v) /\ TreeTests(e, c)
                        /\ n + c + Left(s, i) <= All(s)
                        /\ FilterSays(s, p) = k[<<i, v>>]
  BY Zenon DEF HasRead
<1>2. k = AtEnd(s) /\ n = 0
  BY <1>1, ContEmpty, Zenon
<1>3. v \in Values /\ c \in Nat
  BY <1>1, TreeSaysValue, TreeTestsCount, Zenon
<1>4. <<i, v>> \in Reads(s) /\ <<i, v>>[1] = i /\ <<i, v>>[2] = v
  BY <1>3, PairIn
<1>5. AtEnd(s)[<<i, v>>] = IF i = Len(s) + 1 THEN {v} ELSE {}
  BY <1>4 DEF AtEnd
<1>6. (i <= Len(s) => i # Len(s) + 1) /\ (i > Len(s) => i = Len(s) + 1)
  BY SMT DEF Pos
<1>7. c <= All(s)
  BY <1>1, <1>2, <1>3, NamesFinite, SMT
<1>8. FilterSays(s, p) = IF i = Len(s) + 1 THEN {v} ELSE {}
  BY <1>1, <1>2, <1>5, Zenon
<1> QED BY <1>1, <1>6, <1>7, <1>8, Zenon

(***************************************************************************)
(* 5. The code, for one packet.                                            *)
(***************************************************************************)

(***************************************************************************)
(* What the code does with one packet.  A point of the code is a pair: the *)
(* values that a and x may have there, and what will be returned.  L has   *)
(* the point of every label.                                               *)
(***************************************************************************)

LEMMA BehindNone ==
  ASSUME NEW p, NEW L, NEW g
  PROVE  Behind(p, L, <<>>, g, g)
<1> DEFINE G == [d \in 0..0 |-> g]
<1>1. G[0] = g /\ Len(<<>>) = 0 /\ 1..0 = {}
  OBVIOUS
<1> HIDE DEF G
<1> QED BY <1>1, Zenon DEF Behind, Follows

LEMMA BehindPush ==
  ASSUME NEW S, NEW ir \in Seq(S), NEW p, NEW L, NEW g, NEW h, Behind(p, L, ir, g, h),
         NEW i, NEW k, Leads(p, L, i, h, k)
  PROVE  Behind(p, L, Append(ir, i), g, k)
<1>1. PICK G : Follows(p, L, ir, G, g, h)
  BY Zenon DEF Behind
<1> DEFINE l == Len(ir)
           b == Append(ir, i)
           H == [d \in 0..(l + 1) |-> IF d <= l THEN G[d] ELSE k]
<1>2. l \in Nat /\ Len(b) = l + 1 /\ b[l + 1] = i /\ \A d \in 1..l : b[d] = ir[d]
  BY Pushed
<1>3. G[0] = g /\ G[l] = h /\ \A d \in 1..l : Leads(p, L, ir[d], G[d - 1], G[d])
  BY <1>1, Zenon DEF Follows
<1> HIDE DEF l, b
<1>4. H[0] = G[0] /\ H[l + 1] = k /\ H[l] = G[l]
  BY <1>2, SMT
<1>5. \A d \in 1..l : H[d] = G[d] /\ H[d - 1] = G[d - 1]
  BY <1>2, SMT
<1>6. \A d \in 1..(l + 1) : d \in 1..l \/ (d = l + 1 /\ d - 1 = l)
  BY <1>2, SMT
<1> HIDE DEF H
<1>7. ASSUME NEW d \in 1..(l + 1) PROVE Leads(p, L, b[d], H[d - 1], H[d])
  <2>1. CASE d \in 1..l
    BY <2>1, <1>2, <1>3, <1>5, Zenon
  <2>2. CASE d = l + 1 /\ d - 1 = l
    BY <2>2, <1>2, <1>3, <1>4, Zenon
  <2> QED BY <2>1, <2>2, <1>6, Zenon
<1>8. Follows(p, L, b, H, g, k)
  BY <1>2, <1>3, <1>4, <1>7, Zenon DEF Follows
<1> QED BY <1>8, Zenon DEF Behind, b

LEMMA BehindOne ==
  ASSUME NEW p, NEW L, NEW g, NEW i, NEW k, Leads(p, L, i, g, k)
  PROVE  Behind(p, L, <<i>>, g, k)
<1>1. Append(<<>>, i) = <<i>> /\ <<>> \in Seq({i})
  OBVIOUS
<1>2. Behind(p, L, Append(<<>>, i), g, k)
  BY <1>1, BehindNone, BehindPush
<1> QED BY <1>1, <1>2, Zenon

\* One list behind another.
LEMMA BehindJoin ==
  ASSUME NEW S, NEW ir \in Seq(S), NEW s \in Seq(S), NEW p, NEW L, NEW g, NEW h, NEW k,
         Behind(p, L, ir, g, h), Behind(p, L, s, h, k)
  PROVE  Behind(p, L, ir \o s, g, k)
<1>1. PICK G : Follows(p, L, ir, G, g, h)
  BY Zenon DEF Behind
<1>2. PICK H : Follows(p, L, s, H, h, k)
  BY Zenon DEF Behind
<1> DEFINE l == Len(ir)
           n == Len(s)
           b == ir \o s
           J == [d \in 0..(l + n) |-> IF d <= l THEN G[d] ELSE H[d - l]]
<1>3. /\ Len(b) = l + n /\ l \in Nat /\ n \in Nat
      /\ \A d \in 1..l : b[d] = ir[d]
      /\ \A d \in 1..n : b[l + d] = s[d]
  BY Joined
<1>4. G[0] = g /\ G[l] = h /\ \A d \in 1..l : Leads(p, L, ir[d], G[d - 1], G[d])
  BY <1>1, Zenon DEF Follows
<1>5. H[0] = h /\ H[n] = k /\ \A d \in 1..n : Leads(p, L, s[d], H[d - 1], H[d])
  BY <1>2, Zenon DEF Follows
<1> HIDE DEF l, b, n
<1>6. \A d \in 1..l : J[d] = G[d] /\ J[d - 1] = G[d - 1]
  BY <1>3, SMT
<1>7. J[0] = G[0]
  BY <1>3, SMT
<1>8. \A d \in 1..n : J[l + d] = H[d]
  BY <1>3, SMT
<1>9. J[l] = H[0]
  <2>1. J[l] = G[l]
    BY <1>3, SMT
  <2> QED BY <2>1, <1>4, <1>5, Zenon
<1>10. J[l + n] = H[n]
  <2>1. n = 0 \/ n \in 1..n
    BY <1>3, SMT
  <2>2. n = 0 => l + n = l
    BY <1>3, SMT
  <2> HIDE DEF J
  <2> QED BY <1>8, <1>9, <2>1, <2>2, Zenon
<1>11. ASSUME NEW d \in 1..n PROVE J[(l + d) - 1] = H[d - 1]
  <2>1. CASE d = 1
    <3>1. (l + d) - 1 = l /\ d - 1 = 0
      BY <2>1, <1>3, SMT
    <3> HIDE DEF J
    <3> QED BY <3>1, <1>9, Zenon
  <2>2. CASE d # 1
    <3>1. d - 1 \in 1..n /\ (l + d) - 1 = l + (d - 1)
      BY <2>2, <1>3, SMT
    <3> HIDE DEF J
    <3> QED BY <3>1, <1>8, Zenon
  <2> QED BY <2>1, <2>2
<1>12. \A d \in 1..(l + n) : d \in 1..l \/ (d - l \in 1..n /\ d = l + (d - l))
  BY <1>3, SMT
<1> HIDE DEF J
<1>13. ASSUME NEW d \in 1..(l + n) PROVE Leads(p, L, b[d], J[d - 1], J[d])
  <2>1. CASE d \in 1..l
    BY <2>1, <1>3, <1>4, <1>6, Zenon
  <2>2. ASSUME NEW c \in 1..n, d = l + c PROVE Leads(p, L, b[d], J[d - 1], J[d])
    <3>1. b[d] = s[c] /\ J[d - 1] = H[c - 1] /\ J[d] = H[c]
      BY <2>2, <1>3, <1>8, <1>11, Zenon
    <3> QED BY <3>1, <1>5, Zenon
  <2> QED BY <2>1, <2>2, <1>12, Zenon
<1>14. J[0] = g /\ J[Len(b)] = k
  BY <1>3, <1>4, <1>5, <1>7, <1>10, Zenon
<1>15. Follows(p, L, b, J, g, k)
  BY <1>3, <1>13, <1>14, Zenon DEF Follows
<1> QED BY <1>15, Zenon DEF Behind, b

(***************************************************************************)
(* Labels in use are below n.                                              *)
(***************************************************************************)

LEMMA ItemFields ==
  /\ \A i : Plain(i).ir = "insn" /\ Plain(i).insn = i
  /\ \A l : Label(l).ir = "label" /\ Label(l).l = l
  /\ \A op, k, t, f : /\ JmpCond(op, k, t, f).ir = "cond" /\ JmpCond(op, k, t, f).t = t
                      /\ JmpCond(op, k, t, f).f = f /\ JmpCond(op, k, t, f).op = op /\ JmpCond(op, k, t, f).k = k
  /\ \A e, t, f : /\ CompileExpr(e, t, f).ir = "call" /\ CompileExpr(e, t, f).e = e
                  /\ CompileExpr(e, t, f).t = t /\ CompileExpr(e, t, f).f = f
BY DEF Plain, Label, JmpCond, CompileExpr

\* Labels that an item does not use do not matter to it.
LEMMA LeadsSame ==
  ASSUME NEW p, NEW L, NEW M, NEW n, Agree(L, M, n), NEW i, Uses(i, n), NEW g, NEW h, Leads(p, L, i, g, h)
  PROVE  Leads(p, M, i, g, h)
<1>1. ASSUME NEW l \in Nat, i = Label(l), L[l] = g, h = g
      PROVE  Leads(p, M, i, g, h)
  <2>1. l \in 0..(n - 1)
    BY <1>1, ItemFields, Zenon DEF Uses
  <2> QED BY <1>1, <2>1, Zenon DEF Leads, Agree
<1>2. ASSUME NEW op, NEW k, NEW t, NEW f,
             i = JmpCond(op, k, t, f), op \in {"jeq", "jset"},
             \A o \in g[1] : IF Holds(op, o[1], k) THEN JumpsTo(L, t, o, g[2]) ELSE JumpsTo(L, f, o, g[2])
      PROVE  Leads(p, M, i, g, h)
  <2>1. t \in 0..(n - 1) /\ f \in 0..(n - 1)
    <3>1. i.ir = "cond" /\ i.t = t /\ i.f = f
      <4>1. i = JmpCond(op, k, t, f)
        BY <1>2
      <4>2. JmpCond(op, k, t, f).ir = "cond" /\ JmpCond(op, k, t, f).t = t /\ JmpCond(op, k, t, f).f = f
        BY DEF JmpCond
      <4> QED BY <4>1, <4>2
    <3>2. i.ir \in {"cond", "call"}
      BY <3>1
    <3> QED BY <3>1, <3>2, Zenon DEF Uses
  <2>2. M[t] = L[t] /\ M[f] = L[f]
    BY <2>1, Zenon DEF Agree
  <2>3. \A o : (JumpsTo(L, t, o, g[2]) => JumpsTo(M, t, o, g[2])) /\ (JumpsTo(L, f, o, g[2]) => JumpsTo(M, f, o, g[2]))
    BY <2>2, Zenon DEF JumpsTo
  <2>4. \A o \in g[1] : IF Holds(op, o[1], k) THEN JumpsTo(M, t, o, g[2]) ELSE JumpsTo(M, f, o, g[2])
    BY <1>2, <2>3, Zenon
  <2> QED BY <1>2, <2>4, Zenon DEF Leads
<1>3. CASE \E k \in {0, U32Max} : i = Plain(Ret(k)) /\ g[2] = k
  BY <1>3, Zenon DEF Leads
<1>4. CASE \E b : i = Plain(b) /\ IsStep(b) /\ LeadsOn(p, b, g, h)
  BY <1>4, Zenon DEF Leads
<1> QED BY <1>1, <1>2, <1>3, <1>4, Zenon DEF Leads

LEMMA BehindSame ==
  ASSUME NEW p, NEW L, NEW M, NEW n, Agree(L, M, n), NEW ir, \A j \in 1..Len(ir) : Uses(ir[j], n),
         NEW g, NEW h, Behind(p, L, ir, g, h)
  PROVE  Behind(p, M, ir, g, h)
<1>1. PICK G : Follows(p, L, ir, G, g, h)
  BY Zenon DEF Behind
<1>2. Follows(p, M, ir, G, g, h)
  BY <1>1, LeadsSame, Zenon DEF Follows
<1> QED BY <1>2, Zenon DEF Behind

(***************************************************************************)
(* What is still to be emitted, from the end.                              *)
(***************************************************************************)

LEMMA AheadNone ==
  ASSUME NEW p, NEW L
  PROVE  Ahead(p, L, <<>>, 0, 0)
<1> DEFINE G == [d \in 0..0 |-> <<0, 0>>]
<1>1. G[0] = <<0, 0>> /\ Len(<<>>) = 0 /\ 1..0 = {} /\ 0 \in Nat
  OBVIOUS
<1> HIDE DEF G
<1> QED BY <1>1, Zenon DEF Ahead, Waits

\* One more item to be emitted.
LEMMA AheadPush ==
  ASSUME NEW S, NEW td \in Seq(S), NEW p, NEW L, NEW r, NEW n, Ahead(p, L, td, r, n),
         NEW i, NEW r1, NEW n1 \in Nat, Means(p, L, i, <<r, n>>, <<r1, n1>>)
  PROVE  Ahead(p, L, Append(td, i), r1, n1)
<1>1. PICK G : Waits(p, L, td, G, r, n)
  BY Zenon DEF Ahead
<1> DEFINE l == Len(td)
           b == Append(td, i)
           H == [d \in 0..(l + 1) |-> IF d <= l THEN G[d] ELSE <<r1, n1>>]
<1>2. l \in Nat /\ Len(b) = l + 1 /\ b[l + 1] = i /\ \A d \in 1..l : b[d] = td[d]
  BY Pushed
<1>3. G[0] = <<0, 0>> /\ G[l] = <<r, n>> /\ \A d \in 1..l : Means(p, L, td[d], G[d - 1], G[d])
  BY <1>1, Zenon DEF Waits
<1> HIDE DEF l, b
<1>4. H[0] = G[0] /\ H[l + 1] = <<r1, n1>> /\ H[l] = G[l]
  BY <1>2, SMT
<1>5. \A d \in 1..l : H[d] = G[d] /\ H[d - 1] = G[d - 1]
  BY <1>2, SMT
<1>6. \A d \in 1..(l + 1) : d \in 1..l \/ (d = l + 1 /\ d - 1 = l)
  BY <1>2, SMT
<1> HIDE DEF H
<1>7. ASSUME NEW d \in 1..(l + 1) PROVE Means(p, L, b[d], H[d - 1], H[d])
  <2>1. CASE d \in 1..l
    BY <2>1, <1>2, <1>3, <1>5, Zenon
  <2>2. CASE d = l + 1 /\ d - 1 = l
    BY <2>2, <1>2, <1>3, <1>4, Zenon
  <2> QED BY <2>1, <2>2, <1>6, Zenon
<1>8. Waits(p, L, b, H, r1, n1)
  BY <1>2, <1>3, <1>4, <1>7, Zenon DEF Waits
<1> QED BY <1>8, Zenon DEF Ahead, b

\* One item less.
LEMMA AheadPop ==
  ASSUME NEW S, NEW td \in Seq(S), td # <<>>, NEW p, NEW L, NEW r, NEW n, Ahead(p, L, td, r, n)
  PROVE  \E r1, n1 : Ahead(p, L, Back(td), r1, n1) /\ Means(p, L, td[Len(td)], <<r1, n1>>, <<r, n>>)
<1>1. PICK G : Waits(p, L, td, G, r, n)
  BY Zenon DEF Ahead
<1> DEFINE l == Len(td)
           b == Back(td)
<1>2. l \in Nat /\ l >= 1 /\ Len(b) = l - 1 /\ \A d \in 1..(l - 1) : b[d] = td[d]
  BY Popped, Zenon DEF Back
<1>3. l \in 1..l /\ \A d \in 1..(l - 1) : d \in 1..l
  BY <1>2, SMT
<1>4. Means(p, L, td[l], G[l - 1], G[l]) /\ G[l] = <<r, n>>
  BY <1>1, <1>3, Zenon DEF Waits
<1>5. PICK r1, n1 : G[l - 1] = <<r1, n1>> /\ n1 \in Nat
  BY <1>4, Zenon DEF Means
<1> HIDE DEF b, l
<1>6. G[0] = <<0, 0>> /\ G[Len(b)] = <<r1, n1>> /\ \A d \in 1..Len(b) : Means(p, L, b[d], G[d - 1], G[d])
  BY <1>1, <1>2, <1>3, <1>5, Zenon DEF Waits, l
<1>7. Ahead(p, L, b, r1, n1)
  BY <1>5, <1>6, Zenon DEF Ahead, Waits
<1>8. Means(p, L, td[l], <<r1, n1>>, <<r, n>>)
  BY <1>4, <1>5, Zenon
<1> QED BY <1>7, <1>8, Zenon DEF b, l

LEMMA MeansSame ==
  ASSUME NEW p, NEW L, NEW M, NEW n, Agree(L, M, n), NEW i, Uses(i, n), NEW g, NEW h, Means(p, L, i, g, h)
  PROVE  Means(p, M, i, g, h)
<1>1. PICK r, b : /\ g = <<r, b>> /\ b \in Nat
            /\ \/ \E k \in {0, U32Max} : i = Plain(Ret(k)) /\ h = <<k, b + 1>>
               \/ \E l \in Nat : i = Label(l) /\ L[l] = <<Everywhere, r>> /\ h = <<r, b>>
               \/ \E e, t, f, v, c, y, z :
                    /\ i = CompileExpr(e, t, f) /\ TreeSays(p, e, v) /\ TreeTests(e, c)
                    /\ L[t] = <<Everywhere, y>> /\ L[f] = <<Everywhere, z>>
                    /\ h = <<To(v, y, z), b + 5 * c>>
  BY Zenon DEF Means
<1>2. ASSUME NEW l \in Nat, i = Label(l), L[l] = <<Everywhere, r>>, h = <<r, b>>
      PROVE  Means(p, M, i, g, h)
  <2>1. l \in 0..(n - 1)
    BY <1>2, ItemFields, Zenon DEF Uses
  <2>2. M[l] = <<Everywhere, r>>
    BY <1>2, <2>1, Zenon DEF Agree
  <2> QED BY <1>1, <1>2, <2>2, Zenon DEF Means
<1>3. ASSUME NEW e, NEW t, NEW f, NEW v, NEW c, NEW y, NEW z,
             i = CompileExpr(e, t, f), TreeSays(p, e, v), TreeTests(e, c),
             L[t] = <<Everywhere, y>>, L[f] = <<Everywhere, z>>,
             h = <<To(v, y, z), b + 5 * c>>
      PROVE  Means(p, M, i, g, h)
  <2>1. t \in 0..(n - 1) /\ f \in 0..(n - 1)
    <3>1. i.ir = "call" /\ i.t = t /\ i.f = f
      <4>1. i = CompileExpr(e, t, f)
        BY <1>3
      <4>2. CompileExpr(e, t, f).ir = "call" /\ CompileExpr(e, t, f).t = t /\ CompileExpr(e, t, f).f = f
        BY DEF CompileExpr
      <4> QED BY <4>1, <4>2
    <3>2. i.ir \in {"cond", "call"}
      BY <3>1
    <3> QED BY <3>1, <3>2, Zenon DEF Uses
  <2>2. M[t] = <<Everywhere, y>> /\ M[f] = <<Everywhere, z>>
    BY <1>3, <2>1, Zenon DEF Agree
  <2> QED BY <1>1, <1>3, <2>2, Zenon DEF Means
<1>4. CASE \E k \in {0, U32Max} : i = Plain(Ret(k)) /\ h = <<k, b + 1>>
  BY <1>1, <1>4, Zenon DEF Means
<1> QED BY <1>1, <1>2, <1>3, <1>4, Zenon

LEMMA AheadSame ==
  ASSUME NEW p, NEW L, NEW M, NEW n, Agree(L, M, n), NEW td, \A d \in 1..Len(td) : Uses(td[d], n),
         NEW r, NEW b, Ahead(p, L, td, r, b)
  PROVE  Ahead(p, M, td, r, b)
<1>1. PICK G : Waits(p, L, td, G, r, b)
  BY Zenon DEF Ahead
<1>2. Waits(p, M, td, G, r, b)
  BY <1>1, MeansSame, Zenon DEF Waits
<1> QED BY <1>2, Zenon DEF Ahead

\* Where the right operand goes if the left one does not decide.
LEMMA ToJunction ==
  ASSUME NEW u \in Values, NEW v \in Values, NEW y, NEW z
  PROVE  /\ To(Conj(u, v), y, z) = To(u, To(v, y, z), z)
         /\ To(Disj(u, v), y, z) = To(u, y, To(v, y, z))
         /\ To(Neg(u), y, z) = To(u, z, y)
BY DEF To, Conj, Disj, Neg, Values

\* A call at the end.
LEMMA AheadCall ==
  ASSUME NEW S, NEW td \in Seq(S), NEW p, NEW L, NEW r, NEW n, Ahead(p, L, td, r, n),
         NEW e, NEW t, NEW f, NEW v, NEW c, NEW y, NEW z, TreeSays(p, e, v), TreeTests(e, c),
         L[t] = <<Everywhere, y>>, L[f] = <<Everywhere, z>>
  PROVE  /\ Ahead(p, L, Append(td, CompileExpr(e, t, f)), To(v, y, z), n + 5 * c)
         /\ n \in Nat /\ c \in Nat
<1>1. c \in Nat /\ n \in Nat
  BY TreeTestsCount, Zenon DEF Ahead
<1>2. n + 5 * c \in Nat
  BY <1>1, SMT
<1>3. Means(p, L, CompileExpr(e, t, f), <<r, n>>, <<To(v, y, z), n + 5 * c>>)
  BY <1>1, Zenon DEF Means
<1> QED BY <1>1, <1>2, <1>3, AheadPush

LEMMA AheadLabel ==
  ASSUME NEW S, NEW td \in Seq(S), NEW p, NEW L, NEW r, NEW n, Ahead(p, L, td, r, n),
         NEW l \in Nat, L[l] = <<Everywhere, r>>
  PROVE  Ahead(p, L, Append(td, Label(l)), r, n)
<1>1. n \in Nat
  BY Zenon DEF Ahead
<1>2. Means(p, L, Label(l), <<r, n>>, <<r, n>>)
  BY <1>1, Zenon DEF Means
<1> QED BY <1>1, <1>2, AheadPush

LEMMA AheadRet ==
  ASSUME NEW S, NEW td \in Seq(S), NEW p, NEW L, NEW r, NEW n, Ahead(p, L, td, r, n),
         NEW k \in {0, U32Max}
  PROVE  Ahead(p, L, Append(td, Plain(Ret(k))), k, n + 1)
<1>1. n \in Nat
  BY Zenon DEF Ahead
<1>2. n + 1 \in Nat
  BY <1>1, SMT
<1>3. Means(p, L, Plain(Ret(k)), <<r, n>>, <<k, n + 1>>)
  BY <1>1, Zenon DEF Means
<1> QED BY <1>2, <1>3, AheadPush

(***************************************************************************)
(* 6. Places of items and of labels.                                       *)
(***************************************************************************)

(***************************************************************************)
(* How many instructions are before an item.                               *)
(***************************************************************************)

LEMMA InsnsToIn ==
  ASSUME NEW ir, NEW j, NEW k
  PROVE  k \in InsnsTo(ir, j) <=> k \in 1..(j - 1) /\ IsInsn(ir[k])
BY Zenon DEF InsnsTo

\* The instructions before a place are finitely many.
LEMMA BeforeSet ==
  ASSUME NEW ir, NEW j \in Nat
  PROVE  Before(ir, j) = Cardinality(InsnsTo(ir, j)) /\ IsFiniteSet(InsnsTo(ir, j)) /\ Before(ir, j) \in Nat
<1>1. Before(ir, j) = Cardinality(InsnsTo(ir, j))
  BY Zenon DEF Before, InsnsTo
<1>2. 1 \in Int /\ j - 1 \in Int
  OBVIOUS
<1>3. IsFiniteSet(1..(j - 1))
  BY <1>2, FS_Interval, Zenon
<1>4. InsnsTo(ir, j) \subseteq 1..(j - 1)
  BY Zenon DEF InsnsTo
<1>5. IsFiniteSet(InsnsTo(ir, j))
  BY <1>3, <1>4, FS_Subset, Zenon
<1> QED BY <1>1, <1>5, FS_CardinalityType, Zenon

LEMMA BeforeFirst ==
  ASSUME NEW ir
  PROVE  Before(ir, 1) = 0
<1>1. InsnsTo(ir, 1) = {}
  BY SMT DEF InsnsTo
<1>2. Cardinality({}) = 0
  BY FS_EmptySet, Zenon
<1>3. Before(ir, 1) = Cardinality(InsnsTo(ir, 1))
  BY Zenon DEF Before, InsnsTo
<1> QED BY <1>1, <1>2, <1>3, Zenon

\* An item further on.
LEMMA BeforeStep ==
  ASSUME NEW ir, NEW j \in Nat, j >= 1
  PROVE  Before(ir, j + 1) = Before(ir, j) + (IF IsInsn(ir[j]) THEN 1 ELSE 0)
<1>1. /\ Before(ir, j) = Cardinality(InsnsTo(ir, j)) /\ IsFiniteSet(InsnsTo(ir, j)) /\ Before(ir, j) \in Nat
      /\ Before(ir, j + 1) = Cardinality(InsnsTo(ir, j + 1))
  BY BeforeSet
<1>2. j \notin InsnsTo(ir, j)
  BY SMT DEF InsnsTo
<1>3. \A k : k \in 1..((j + 1) - 1) <=> k \in 1..(j - 1) \/ k = j
  BY SMT
<1>4. CASE IsInsn(ir[j])
  <2>1. InsnsTo(ir, j + 1) = InsnsTo(ir, j) \cup {j}
    <3>1. \A k : k = j => IsInsn(ir[k])
      BY <1>4
    <3>2. \A k : k \in InsnsTo(ir, j + 1) <=> k \in InsnsTo(ir, j) \/ k = j
      <4>1. \A k : k \in InsnsTo(ir, j + 1) <=> k \in 1..((j + 1) - 1) /\ IsInsn(ir[k])
        BY InsnsToIn
      <4>2. \A k : k \in InsnsTo(ir, j) <=> k \in 1..(j - 1) /\ IsInsn(ir[k])
        BY InsnsToIn
      <4> QED BY <1>3, <3>1, <4>1, <4>2, Zenon
    <3> QED BY <3>2
  <2>2. Cardinality(InsnsTo(ir, j) \cup {j}) = Cardinality(InsnsTo(ir, j)) + 1
    BY <1>1, <1>2, FS_AddElement, Zenon
  <2> QED BY <1>1, <1>4, <2>1, <2>2
<1>5. CASE ~IsInsn(ir[j])
  <2>3. \A k : k = j => ~IsInsn(ir[k])
    BY <1>5
  <2>1. \A k : k \in InsnsTo(ir, j + 1) <=> k \in InsnsTo(ir, j)
    <3>1. \A k : k \in InsnsTo(ir, j + 1) <=> k \in 1..((j + 1) - 1) /\ IsInsn(ir[k])
      BY InsnsToIn
    <3>2. \A k : k \in InsnsTo(ir, j) <=> k \in 1..(j - 1) /\ IsInsn(ir[k])
      BY InsnsToIn
    <3> QED BY <1>3, <2>3, <3>1, <3>2, Zenon
  <2>2. InsnsTo(ir, j + 1) = InsnsTo(ir, j)
    BY <2>1
  <2> QED BY <1>1, <1>5, <2>2
<1> QED BY <1>4, <1>5

LEMMA BeforeMonotone ==
  ASSUME NEW ir, NEW i \in Nat, NEW j \in Nat, i <= j
  PROVE  Before(ir, i) <= Before(ir, j)
<1>1. InsnsTo(ir, i) \subseteq InsnsTo(ir, j)
  <2>1. \A k \in 1..(i - 1) : k \in 1..(j - 1)
    BY SMT
  <2> QED BY <2>1, Zenon DEF InsnsTo
<1>2. /\ Before(ir, j) = Cardinality(InsnsTo(ir, j)) /\ IsFiniteSet(InsnsTo(ir, j))
      /\ Before(ir, i) = Cardinality(InsnsTo(ir, i))
  BY BeforeSet
<1> QED BY <1>1, <1>2, FS_Subset, Zenon

\* An instruction has a place of its own.
LEMMA BeforeStrict ==
  ASSUME NEW ir, NEW i \in Nat, NEW j \in Nat, 1 <= i, i < j, IsInsn(ir[i])
  PROVE  Before(ir, i) + 1 <= Before(ir, j)
<1>1. Before(ir, i + 1) = Before(ir, i) + 1
  BY BeforeStep
<1>2. i + 1 \in Nat /\ i + 1 <= j
  OBVIOUS
<1>3. Before(ir, i + 1) <= Before(ir, j)
  BY <1>2, BeforeMonotone
<1> QED BY <1>1, <1>3, Zenon

\* An instruction has a place of its own.
LEMMA BeforeInjective ==
  ASSUME NEW ir, NEW i \in 1..Len(ir), NEW j \in 1..Len(ir), IsInsn(ir[i]), IsInsn(ir[j]), Before(ir, i) = Before(ir, j)
  PROVE  i = j
<1>1. i \in Nat /\ j \in Nat /\ 1 <= i /\ 1 <= j
  BY SMT
<1>2. Before(ir, i) \in Nat /\ Before(ir, j) \in Nat
  BY <1>1, BeforeSet
<1>3. i < j => Before(ir, i) + 1 <= Before(ir, j)
  BY <1>1, BeforeStrict
<1>4. j < i => Before(ir, j) + 1 <= Before(ir, i)
  BY <1>1, BeforeStrict
<1> QED BY <1>1, <1>2, <1>3, <1>4, SMT

\* The size of two lists together.
LEMMA SizeJoin ==
  ASSUME NEW S, NEW ir \in Seq(S), NEW s \in Seq(S)
  PROVE  Size(ir \o s) = Size(ir) + Size(s) /\ Size(ir) \in Nat /\ Size(s) \in Nat
<1> DEFINE l == Len(ir)
           c == Len(s)
           b == ir \o s
<1>1. /\ Len(b) = l + c /\ l \in Nat /\ c \in Nat
      /\ \A d \in 1..l : b[d] = ir[d]
      /\ \A d \in 1..c : b[l + d] = s[d]
  BY Joined
<1> HIDE DEF l, b, c
<1> DEFINE P == {k \in Nat : k <= c => Before(b, l + k + 1) = Before(ir, l + 1) + Before(s, k + 1)}
<1>2. Before(ir, l + 1) \in Nat
  BY <1>1, BeforeSet
<1>3. Before(b, l + 1) = Before(ir, l + 1)
  <2>1. \A k \in 1..((l + 1) - 1) : b[k] = ir[k]
    <3>1. (l + 1) - 1 = l
      BY <1>1, SMT
    <3> QED BY <1>1, <3>1, Zenon
  <2>2. InsnsTo(b, l + 1) = InsnsTo(ir, l + 1)
    <3>1. \A k : k \in InsnsTo(b, l + 1) <=> k \in InsnsTo(ir, l + 1)
      <4>1. \A k \in 1..((l + 1) - 1) : IsInsn(b[k]) <=> IsInsn(ir[k])
        BY <2>1, Zenon DEF IsInsn
      <4> SUFFICES ASSUME NEW k PROVE k \in InsnsTo(b, l + 1) <=> k \in InsnsTo(ir, l + 1)
        OBVIOUS
      <4>2. k \in InsnsTo(b, l + 1) <=> k \in 1..((l + 1) - 1) /\ IsInsn(b[k])
        BY Zenon DEF InsnsTo
      <4>3. k \in InsnsTo(ir, l + 1) <=> k \in 1..((l + 1) - 1) /\ IsInsn(ir[k])
        BY Zenon DEF InsnsTo
      <4> QED BY <4>1, <4>2, <4>3, Zenon
    <3> QED BY <3>1
  <2>3. l + 1 \in Nat
    BY <1>1, SMT
  <2> QED BY <2>2, <2>3, BeforeSet, Zenon
<1>4. 0 \in P
  <2>1. l + 0 + 1 = l + 1 /\ 0 + 1 = 1
    BY <1>1, SMT
  <2>2. Before(ir, l + 1) + 0 = Before(ir, l + 1)
    BY <1>2, SMT
  <2> QED BY <1>3, <2>1, <2>2, BeforeFirst
<1>5. ASSUME NEW k \in Nat, k \in P PROVE k + 1 \in P
  <2>1. SUFFICES ASSUME k + 1 <= c
                 PROVE  Before(b, l + (k + 1) + 1) = Before(ir, l + 1) + Before(s, (k + 1) + 1)
    <3>1. k + 1 \in Nat
      OBVIOUS
    <3> QED BY <3>1, Zenon
  <2>2. k <= c /\ k + 1 \in 1..c /\ l + k + 1 \in Nat /\ l + k + 1 >= 1 /\ k + 1 \in Nat /\ k + 1 >= 1
        /\ l + (k + 1) + 1 = (l + k + 1) + 1 /\ l + k + 1 = l + (k + 1)
    BY <1>1, <2>1, SMT
  <2>3. Before(b, l + k + 1) = Before(ir, l + 1) + Before(s, k + 1)
    BY <1>5, <2>2, Zenon
  <2>4. Before(b, (l + k + 1) + 1) = Before(b, l + k + 1) + (IF IsInsn(b[l + k + 1]) THEN 1 ELSE 0)
    BY <2>2, BeforeStep
  <2>5. Before(s, (k + 1) + 1) = Before(s, k + 1) + (IF IsInsn(s[k + 1]) THEN 1 ELSE 0)
    BY <2>2, BeforeStep
  <2>6. b[l + k + 1] = s[k + 1]
    <3>1. b[l + (k + 1)] = s[k + 1]
      BY <1>1, <2>2, Zenon
    <3> QED BY <2>2, <3>1, Zenon
  <2>7. Before(s, k + 1) \in Nat
    BY <2>2, BeforeSet
  <2> DEFINE e == IF IsInsn(s[k + 1]) THEN 1 ELSE 0
  <2>8. e \in Nat
    OBVIOUS
  <2>9. Before(b, (l + k + 1) + 1) = Before(b, l + k + 1) + e
    BY <2>4, <2>6, Zenon
  <2>10. Before(s, (k + 1) + 1) = Before(s, k + 1) + e
    BY <2>5, Zenon
  <2> HIDE DEF e
  <2>11. (Before(ir, l + 1) + Before(s, k + 1)) + e = Before(ir, l + 1) + (Before(s, k + 1) + e)
    BY <1>2, <2>7, <2>8, SMT
  <2>12. Before(b, (l + k + 1) + 1) = Before(ir, l + 1) + Before(s, (k + 1) + 1)
    BY <2>3, <2>9, <2>10, <2>11, Zenon
  <2> QED BY <2>2, <2>12, Zenon
<1>6. Nat \subseteq P
  <2> HIDE DEF P
  <2> QED BY <1>4, <1>5, SetInduction
<1>7. Before(b, l + c + 1) = Before(ir, l + 1) + Before(s, c + 1)
  <2>1. c \in P /\ c <= c
    BY <1>1, <1>6, SMT
  <2> QED BY <2>1, Zenon
<1>8. Before(s, c + 1) \in Nat
  BY <1>1, BeforeSet
<1>9. l + c + 1 = Len(b) + 1
  BY <1>1, SMT
<1>10. Size(b) = Size(ir) + Size(s)
  BY <1>7, <1>9, Zenon DEF Size, l, c
<1> QED BY <1>2, <1>8, <1>10, Zenon DEF Size, l, c, b

LEMMA SizeFew ==
  /\ Size(<<>>) = 0
  /\ \A i : Size(<<i>>) = IF IsInsn(i) THEN 1 ELSE 0
  /\ \A i, j : Size(<<i, j>>) = (IF IsInsn(i) THEN 1 ELSE 0) + (IF IsInsn(j) THEN 1 ELSE 0)
<1>1. Size(<<>>) = 0
  <2>1. Len(<<>>) + 1 = 1
    OBVIOUS
  <2> QED BY <2>1, BeforeFirst, Zenon DEF Size
<1>2. ASSUME NEW i PROVE Size(<<i>>) = IF IsInsn(i) THEN 1 ELSE 0
  <2>1. Len(<<i>>) = 1 /\ <<i>>[1] = i
    OBVIOUS
  <2>2. Before(<<i>>, 1 + 1) = Before(<<i>>, 1) + (IF IsInsn(<<i>>[1]) THEN 1 ELSE 0)
    BY BeforeStep
  <2>3. Before(<<i>>, 1) = 0
    BY BeforeFirst
  <2> QED BY <2>1, <2>2, <2>3 DEF Size
<1>3. ASSUME NEW i, NEW j
      PROVE  Size(<<i, j>>) = (IF IsInsn(i) THEN 1 ELSE 0) + (IF IsInsn(j) THEN 1 ELSE 0)
  <2>1. Len(<<i, j>>) = 2 /\ <<i, j>>[1] = i /\ <<i, j>>[2] = j
    OBVIOUS
  <2>2. Before(<<i, j>>, 1 + 1) = Before(<<i, j>>, 1) + (IF IsInsn(<<i, j>>[1]) THEN 1 ELSE 0)
    BY BeforeStep
  <2>3. Before(<<i, j>>, 1) = 0
    BY BeforeFirst
  <2>4. Before(<<i, j>>, 2 + 1) = Before(<<i, j>>, 2) + (IF IsInsn(<<i, j>>[2]) THEN 1 ELSE 0)
    BY BeforeStep
  <2>5. Before(<<i, j>>, 2) = IF IsInsn(i) THEN 1 ELSE 0
    BY <2>1, <2>2, <2>3
  <2>6. Size(<<i, j>>) = Before(<<i, j>>, 2 + 1)
    BY <2>1 DEF Size
  <2> QED BY <2>1, <2>4, <2>5, <2>6
<1> QED BY <1>1, <1>2, <1>3

(***************************************************************************)
(* Where the labels are.                                                   *)
(***************************************************************************)

\* One more item, in general.
LEMMA PushIndex ==
  ASSUME NEW q, Listing(q), NEW c
  PROVE  /\ Listing(Append(q, c)) /\ Len(q) \in Nat /\ Len(Append(q, c)) = Len(q) + 1
         /\ \A k \in 1..Len(q) : Append(q, c)[k] = q[k] /\ k # Len(q) + 1
         /\ Append(q, c)[Len(q) + 1] = c /\ Append(q, c) # <<>>
         /\ \A k : k \in 1..Len(Append(q, c)) <=> k \in 1..Len(q) \/ k = Len(q) + 1
<1>1. PICK S : q \in Seq(S)
  BY Zenon DEF Listing
<1>2. /\ Append(q, c) \in Seq(S \cup {c})
      /\ Len(q) \in Nat /\ Len(Append(q, c)) = Len(q) + 1
      /\ \A i \in 1..Len(q) : Append(q, c)[i] = q[i]
      /\ Append(q, c)[Len(q) + 1] = c
  BY <1>1, Pushed
<1>3. Listing(Append(q, c))
  BY <1>2, Zenon DEF Listing
<1> DEFINE D == Len(q)
           r == Append(q, c)
<1>4. D \in Nat /\ Len(r) = D + 1
  BY <1>2, Zenon
<1>5. Len(<<>>) = 0
  OBVIOUS
<1> HIDE DEF D, r
<1>6. /\ \A k \in 1..D : k # D + 1
      /\ \A k : k \in 1..Len(r) <=> k \in 1..D \/ k = D + 1
      /\ Len(r) # 0
  BY <1>4, SMT
<1>7. r # <<>>
  BY <1>5, <1>6, Zenon
<1> QED BY <1>2, <1>3, <1>6, <1>7, Zenon DEF D, r

LEMMA BackIndex ==
  ASSUME NEW q, Listing(q), q # <<>>
  PROVE  /\ Listing(Back(q)) /\ Len(q) \in Nat /\ Len(q) >= 1 /\ Len(Back(q)) = Len(q) - 1
         /\ \A k \in 1..Len(Back(q)) : Back(q)[k] = q[k] /\ k # Len(q) /\ k \in 1..Len(q)
         /\ \A k : k \in 1..Len(q) <=> k \in 1..Len(Back(q)) \/ k = Len(q)
<1>1. PICK S : q \in Seq(S)
  BY Zenon DEF Listing
<1>2. /\ Back(q) \in Seq(S) /\ Len(q) \in Nat /\ Len(q) >= 1 /\ Len(Back(q)) = Len(q) - 1
      /\ \A i \in 1..(Len(q) - 1) : Back(q)[i] = q[i]
  BY <1>1, Popped DEF Back
<1> DEFINE D == Len(q)
           r == Back(q)
<1>4. D \in Nat /\ D >= 1 /\ Len(r) = D - 1
  BY <1>2, Zenon
<1> HIDE DEF D, r
<1>6. /\ \A k \in 1..Len(r) : k # D /\ k \in 1..D /\ k \in 1..(D - 1)
      /\ \A k : k \in 1..D <=> k \in 1..Len(r) \/ k = D
  BY <1>4, SMT
<1> QED BY <1>2, <1>6, Zenon DEF D, r, Listing

LEMMA PushIsIn ==
  ASSUME NEW q, Listing(q), NEW c, NEW l
  PROVE  IsIn(Append(q, c), l) <=> IsIn(q, l) \/ c = Label(l)
<1> DEFINE r == Append(q, c)
           D == Len(q)
<1>1. /\ \A k \in 1..D : r[k] = q[k]
      /\ r[D + 1] = c
      /\ \A k : k \in 1..Len(r) <=> k \in 1..D \/ k = D + 1
  BY PushIndex
<1> HIDE DEF r
<1>2. IsIn(r, l) <=> IsIn(q, l) \/ c = Label(l)
  BY <1>1, Zenon DEF IsIn
<1> QED BY <1>2, Zenon DEF r

LEMMA BackIsIn ==
  ASSUME NEW q, Listing(q), q # <<>>, NEW l
  PROVE  IsIn(q, l) <=> IsIn(Back(q), l) \/ q[Len(q)] = Label(l)
<1> DEFINE r == Back(q)
           D == Len(q)
<1>1. /\ \A k \in 1..Len(r) : r[k] = q[k]
      /\ \A k : k \in 1..D <=> k \in 1..Len(r) \/ k = D
  BY BackIndex
<1> HIDE DEF r, D
<1>3. IsIn(q, l) <=> \E k \in 1..D : q[k] = Label(l)
  BY Zenon DEF IsIn, D
<1>2. IsIn(q, l) <=> IsIn(r, l) \/ q[D] = Label(l)
  BY <1>1, <1>3, Zenon DEF IsIn
<1> QED BY <1>2, Zenon DEF r, D

LEMMA UsesMore ==
  ASSUME NEW n \in Nat, NEW i, Uses(i, n)
  PROVE  Uses(i, n + 1)
<1>1. \A l \in 0..(n - 1) : l \in 0..((n + 1) - 1)
  BY SMT
<1> QED BY <1>1, Zenon DEF Uses

LEMMA Kinds ==
  /\ \A l, k : Label(l) # Plain(k)
  /\ \A l, op, k, t, f : Label(l) # JmpCond(op, k, t, f)
  /\ \A l, e, t, f : Label(l) # CompileExpr(e, t, f)
  /\ \A l, k : Label(l) = Label(k) => l = k
<1>1. \A l : Label(l).ir = "label" /\ Label(l).l = l
  BY ItemFields
<1>2. \A k : Plain(k).ir = "insn"
  BY ItemFields
<1>3. \A op, k, t, f : JmpCond(op, k, t, f).ir = "cond"
  BY ItemFields
<1>4. \A e, t, f : CompileExpr(e, t, f).ir = "call"
  BY ItemFields
<1>5. "label" # "insn" /\ "label" # "cond" /\ "label" # "call"
  OBVIOUS
<1>6. \A l, k : Label(l) # Plain(k)
  <2> SUFFICES ASSUME NEW l, NEW k PROVE Label(l).ir # Plain(k).ir
    OBVIOUS
  <2> QED BY <1>1, <1>2, <1>5
<1>7. \A l, op, k, t, f : Label(l) # JmpCond(op, k, t, f)
  <2> SUFFICES ASSUME NEW l, NEW op, NEW k, NEW t, NEW f PROVE Label(l).ir # JmpCond(op, k, t, f).ir
    OBVIOUS
  <2> QED BY <1>1, <1>3, <1>5
<1>8. \A l, e, t, f : Label(l) # CompileExpr(e, t, f)
  <2> SUFFICES ASSUME NEW l, NEW e, NEW t, NEW f PROVE Label(l).ir # CompileExpr(e, t, f).ir
    OBVIOUS
  <2> QED BY <1>1, <1>4, <1>5
<1>9. \A l, k : Label(l) = Label(k) => l = k
  BY <1>1
<1> QED BY <1>6, <1>7, <1>8, <1>9, Zenon

LEMMA LayoutParts ==
  ASSUME NEW ir, NEW td, NEW n, Layout(ir, td, n)
  PROVE  /\ n \in Nat /\ Listing(ir) /\ Listing(td) /\ Ends(ir, td)
         /\ \A j \in 1..Len(ir) : DoneItem(ir, td, n, j)
         /\ \A d \in 1..Len(td) : TodoItem(ir, td, n, d)
BY Zenon DEF Layout

\* The next call is taken.
LEMMA LayoutCall ==
  ASSUME NEW ir, NEW td, NEW n, Layout(ir, td, n), td # <<>>, td[Len(td)].ir = "call"
  PROVE  /\ Layout(ir, Back(td), n)
         /\ Waiting(Back(td), n, td[Len(td)].t) /\ Waiting(Back(td), n, td[Len(td)].f)
<1> DEFINE B == Back(td)
           D == Len(td)
           C == Len(B)
           c == td[D]
<1>1. /\ n \in Nat /\ Listing(ir) /\ Listing(td) /\ Ends(ir, td)
      /\ \A j \in 1..Len(ir) : DoneItem(ir, td, n, j)
      /\ \A d \in 1..D : TodoItem(ir, td, n, d)
  BY LayoutParts
<1>2. /\ Listing(B) /\ D \in Nat /\ D >= 1 /\ C = D - 1
      /\ \A k \in 1..C : B[k] = td[k] /\ k # D /\ k \in 1..D
      /\ \A k : k \in 1..D <=> k \in 1..C \/ k = D
  BY <1>1, BackIndex
<1>3. c.ir = "call"
  OBVIOUS
<1>4. \A l : IsIn(td, l) <=> IsIn(B, l) \/ c = Label(l)
  BY <1>1, BackIsIn
<1>5. Len(<<>>) = 0 /\ "call" # "insn" /\ "call" # "label"
  OBVIOUS
<1>6. td[1].ir = "insn"
  BY <1>1, Zenon DEF Ends
<1> HIDE DEF B, D, C, c
<1>7. \A l : c # Label(l)
  BY <1>3, <1>5, ItemFields
<1>8. D # 1
  BY <1>3, <1>5, <1>6 DEF c
<1>9. 1 \in 1..C /\ C # 0
  BY <1>2, <1>8, SMT
<1>10. B # <<>> /\ B[1].ir = "insn"
  BY <1>2, <1>5, <1>6, <1>9, Zenon DEF C
<1>11. Ends(ir, B)
  BY <1>10, Zenon DEF Ends
<1>12. \A l : IsIn(td, l) <=> IsIn(B, l)
  BY <1>4, <1>7, Zenon
<1>13. ASSUME NEW j \in 1..Len(ir) PROVE DoneItem(ir, B, n, j)
  <2>1. DoneItem(ir, td, n, j)
    BY <1>1, Zenon
  <2> QED BY <2>1, <1>12, Zenon DEF DoneItem, Reached
<1>14. ASSUME NEW d \in 1..C PROVE TodoItem(ir, B, n, d)
  <2>1. TodoItem(ir, td, n, d) /\ B[d] = td[d]
    BY <1>1, <1>2, Zenon
  <2>2. \A k \in 1..(d - 1) : k \in 1..C
    BY <1>2, SMT
  <2>3. \A l : Lower(td, d, l) => Lower(B, d, l)
    BY <1>2, <2>2, Zenon DEF Lower
  <2>4. \A l : td[d] = Label(l) => ~IsIn(ir, l) /\ \A k \in 1..D : td[k] = Label(l) => k = d
    BY <2>1, Zenon DEF TodoItem, D
  <2>5. \A l : B[d] = Label(l) => ~IsIn(ir, l) /\ \A k \in 1..C : B[k] = Label(l) => k = d
    BY <1>2, <2>1, <2>4, Zenon
  <2>6. /\ ToDo(td[d]) /\ Uses(td[d], n)
        /\ td[d].ir = "call" => Lower(td, d, td[d].t) /\ Lower(td, d, td[d].f)
    BY <2>1, Zenon DEF TodoItem
  <2>7. /\ ToDo(B[d]) /\ Uses(B[d], n)
        /\ B[d].ir = "call" => Lower(B, d, B[d].t) /\ Lower(B, d, B[d].f)
    BY <2>1, <2>3, <2>6
  <2> QED BY <2>5, <2>7, Zenon DEF TodoItem, C
<1>15. Layout(ir, B, n)
  BY <1>1, <1>2, <1>11, <1>13, <1>14, Zenon DEF Layout, C
<1>16. Uses(c, n) /\ Lower(td, D, c.t) /\ Lower(td, D, c.f)
  <2>1. D \in 1..D
    BY <1>2, SMT
  <2>2. TodoItem(ir, td, n, D)
    BY <1>1, <2>1, Zenon
  <2> QED BY <1>3, <2>2, Zenon DEF TodoItem, c
<1>17. c.t \in 0..(n - 1) /\ c.f \in 0..(n - 1)
  BY <1>3, <1>16, Zenon DEF Uses
<1>18. \A l : Lower(td, D, l) => IsIn(B, l)
  <2>1. 1..(D - 1) = 1..C
    BY <1>2, Zenon
  <2> QED BY <1>2, <2>1, Zenon DEF Lower, IsIn, C
<1>19. Waiting(B, n, c.t) /\ Waiting(B, n, c.f)
  BY <1>16, <1>17, <1>18, Zenon DEF Waiting
<1> QED BY <1>15, <1>19, Zenon DEF B, D, c

\* A call is put in front of what is to be emitted.
LEMMA LayoutPushCall ==
  ASSUME NEW ir, NEW td, NEW n, Layout(ir, td, n), td # <<>>, NEW e, NEW t, NEW f,
         Waiting(td, n, t), Waiting(td, n, f)
  PROVE  /\ Layout(ir, Append(td, CompileExpr(e, t, f)), n) /\ Append(td, CompileExpr(e, t, f)) # <<>>
         /\ \A l : Waiting(td, n, l) => Waiting(Append(td, CompileExpr(e, t, f)), n, l)
<1> DEFINE D == Len(td)
           c == CompileExpr(e, t, f)
           B == Append(td, c)
<1>1. /\ n \in Nat /\ Listing(ir) /\ Listing(td) /\ Ends(ir, td)
      /\ \A j \in 1..Len(ir) : DoneItem(ir, td, n, j)
      /\ \A d \in 1..D : TodoItem(ir, td, n, d)
  BY LayoutParts
<1> HIDE DEF c
<1>2. /\ Listing(B) /\ D \in Nat /\ Len(B) = D + 1
      /\ \A k \in 1..D : B[k] = td[k] /\ k # D + 1
      /\ B[D + 1] = c /\ B # <<>>
      /\ \A k : k \in 1..Len(B) <=> k \in 1..D \/ k = D + 1
  BY <1>1, PushIndex
<1>3. c.ir = "call" /\ c.t = t /\ c.f = f /\ (\A l : Label(l) # c) /\ ToDo(c)
  BY ItemFields, Kinds DEF c, ToDo
<1>4. \A l : IsIn(B, l) <=> IsIn(td, l) \/ c = Label(l)
  BY <1>1, PushIsIn
<1> HIDE DEF B, D
<1>5. \A l : IsIn(B, l) <=> IsIn(td, l)
  BY <1>3, <1>4, Zenon
<1>6. 1 \in 1..D
  <2>1. Listing(td) => Len(td) \in Nat /\ Len(td) >= 1
    BY BackIndex
  <2> QED BY <1>1, <2>1, SMT DEF D
<1>7. Ends(ir, B)
  BY <1>1, <1>2, <1>6, Zenon DEF Ends
<1>8. ASSUME NEW j \in 1..Len(ir) PROVE DoneItem(ir, B, n, j)
  <2>1. DoneItem(ir, td, n, j)
    BY <1>1, Zenon
  <2> QED BY <2>1, <1>5, Zenon DEF DoneItem, Reached
<1>9. ASSUME NEW d \in 1..D PROVE TodoItem(ir, B, n, d)
  <2>1. TodoItem(ir, td, n, d) /\ B[d] = td[d]
    BY <1>1, <1>2, Zenon
  <2>2. \A k \in 1..(d - 1) : k \in 1..D
    BY <1>2, SMT
  <2>3. \A l : Lower(td, d, l) => Lower(B, d, l)
    BY <1>2, <2>2, Zenon DEF Lower
  <2>4. \A l : td[d] = Label(l) => ~IsIn(ir, l) /\ \A k \in 1..D : td[k] = Label(l) => k = d
    BY <2>1, Zenon DEF TodoItem, D
  <2>8. \A l : B[D + 1] # Label(l)
    BY <1>2, <1>3, Zenon
  <2>5. \A l : B[d] = Label(l) => ~IsIn(ir, l) /\ \A k \in 1..Len(B) : B[k] = Label(l) => k = d
    BY <1>2, <2>1, <2>4, <2>8, Zenon
  <2>6. /\ ToDo(td[d]) /\ Uses(td[d], n)
        /\ td[d].ir = "call" => Lower(td, d, td[d].t) /\ Lower(td, d, td[d].f)
    BY <2>1, Zenon DEF TodoItem
  <2>7. /\ ToDo(B[d]) /\ Uses(B[d], n)
        /\ B[d].ir = "call" => Lower(B, d, B[d].t) /\ Lower(B, d, B[d].f)
    BY <2>1, <2>3, <2>6
  <2> QED BY <2>5, <2>7, Zenon DEF TodoItem
<1>10. TodoItem(ir, B, n, D + 1)
  <2>1. Uses(c, n)
    BY <1>3, Zenon DEF Uses, Waiting
  <2>2. \A l : IsIn(td, l) => Lower(B, D + 1, l)
    <3>1. 1..((D + 1) - 1) = 1..D
      BY <1>2, SMT
    <3> QED BY <1>2, <3>1, Zenon DEF Lower, IsIn, D
  <2>3. Lower(B, D + 1, c.t) /\ Lower(B, D + 1, c.f)
    BY <1>3, <2>2 DEF Waiting
  <2>4. B[D + 1] = c
    BY <1>2, Zenon
  <2>5. /\ ToDo(B[D + 1]) /\ Uses(B[D + 1], n)
        /\ B[D + 1].ir = "call" => Lower(B, D + 1, B[D + 1].t) /\ Lower(B, D + 1, B[D + 1].f)
    BY <1>3, <2>1, <2>3, <2>4
  <2>6. \A l : B[D + 1] # Label(l)
    BY <1>3, <2>4, Zenon
  <2> QED BY <2>5, <2>6, Zenon DEF TodoItem
<1>11. \A d \in 1..Len(B) : TodoItem(ir, B, n, d)
  BY <1>2, <1>9, <1>10, Zenon
<1>12. Layout(ir, B, n)
  BY <1>1, <1>2, <1>7, <1>8, <1>11, Zenon DEF Layout
<1>13. \A l : Waiting(td, n, l) => Waiting(B, n, l)
  BY <1>5, Zenon DEF Waiting
<1> QED BY <1>2, <1>12, <1>13, Zenon DEF B, c

\* A label that is new.
LEMMA LayoutNewLabel ==
  ASSUME NEW ir, NEW td, NEW n, Layout(ir, td, n), td # <<>>
  PROVE  /\ Layout(ir, Append(td, Label(n)), n + 1) /\ Append(td, Label(n)) # <<>>
         /\ Waiting(Append(td, Label(n)), n + 1, n)
         /\ \A l : Waiting(td, n, l) => Waiting(Append(td, Label(n)), n + 1, l) /\ l # n
<1> DEFINE D == Len(td)
           c == Label(n)
           B == Append(td, c)
<1>1. /\ n \in Nat /\ Listing(ir) /\ Listing(td) /\ Ends(ir, td)
      /\ \A j \in 1..Len(ir) : DoneItem(ir, td, n, j)
      /\ \A d \in 1..D : TodoItem(ir, td, n, d)
  BY LayoutParts
<1> HIDE DEF c
<1>2. /\ Listing(B) /\ D \in Nat /\ Len(B) = D + 1
      /\ \A k \in 1..D : B[k] = td[k] /\ k # D + 1
      /\ B[D + 1] = c /\ B # <<>>
      /\ \A k : k \in 1..Len(B) <=> k \in 1..D \/ k = D + 1
  BY <1>1, PushIndex
<1>3. c.ir = "label" /\ c.l = n /\ (\A l : Label(l) = c => l = n) /\ ToDo(c)
  BY ItemFields, Kinds DEF c, ToDo
<1>4. \A l : IsIn(B, l) <=> IsIn(td, l) \/ c = Label(l)
  BY <1>1, PushIsIn
<1> HIDE DEF B, D
<1>5. /\ n + 1 \in Nat /\ n \in 0..((n + 1) - 1) /\ n \notin 0..(n - 1)
      /\ \A l \in 0..(n - 1) : l \in 0..((n + 1) - 1)
  BY <1>1, SMT
<1>6. 1 \in 1..D
  <2>1. Listing(td) => Len(td) \in Nat /\ Len(td) >= 1
    BY BackIndex
  <2> QED BY <1>1, <2>1, SMT DEF D
<1>7. Ends(ir, B)
  BY <1>1, <1>2, <1>6, Zenon DEF Ends
<1>14. \A i : Uses(i, n) => i # c
  <2>1. ASSUME NEW i, Uses(i, n), i = c PROVE FALSE
    <3>1. i.ir = "label" /\ i.l = n
      BY <1>3, <2>1
    <3> QED BY <1>5, <2>1, <3>1, Zenon DEF Uses
  <2> QED BY <2>1, Zenon
<1>15. ~IsIn(ir, n) /\ ~IsIn(td, n)
  <2>1. \A k \in 1..Len(ir) : Uses(ir[k], n)
    BY <1>1, Zenon DEF DoneItem
  <2>2. \A k \in 1..D : Uses(td[k], n)
    BY <1>1, Zenon DEF TodoItem
  <2> QED BY <1>14, <2>1, <2>2, Zenon DEF IsIn, c, D
<1>8. ASSUME NEW j \in 1..Len(ir) PROVE DoneItem(ir, B, n + 1, j)
  <2>1. DoneItem(ir, td, n, j)
    BY <1>1, Zenon
  <2>2. \A l : Reached(ir, td, j, l) => Reached(ir, B, j, l)
    BY <1>4, Zenon DEF Reached
  <2>3. Uses(ir[j], n + 1)
    BY <1>1, <2>1, UsesMore, Zenon DEF DoneItem
  <2> QED BY <2>1, <2>2, <2>3, Zenon DEF DoneItem
<1>9. ASSUME NEW d \in 1..D PROVE TodoItem(ir, B, n + 1, d)
  <2>1. TodoItem(ir, td, n, d) /\ B[d] = td[d]
    BY <1>1, <1>2, Zenon
  <2>2. \A k \in 1..(d - 1) : k \in 1..D
    BY <1>2, SMT
  <2>3. \A l : Lower(td, d, l) => Lower(B, d, l)
    BY <1>2, <2>2, Zenon DEF Lower
  <2>6. /\ ToDo(td[d]) /\ Uses(td[d], n)
        /\ td[d].ir = "call" => Lower(td, d, td[d].t) /\ Lower(td, d, td[d].f)
    BY <2>1, Zenon DEF TodoItem
  <2>9. Uses(td[d], n + 1) /\ td[d] # c
    BY <1>1, <1>14, <2>6, UsesMore, Zenon
  <2>4. \A l : td[d] = Label(l) => ~IsIn(ir, l) /\ \A k \in 1..D : td[k] = Label(l) => k = d
    BY <2>1, Zenon DEF TodoItem, D
  <2>5. \A l : B[d] = Label(l) => ~IsIn(ir, l) /\ \A k \in 1..Len(B) : B[k] = Label(l) => k = d
    BY <1>2, <2>1, <2>4, <2>9, Zenon
  <2>7. /\ ToDo(B[d]) /\ Uses(B[d], n + 1)
        /\ B[d].ir = "call" => Lower(B, d, B[d].t) /\ Lower(B, d, B[d].f)
    BY <2>1, <2>3, <2>6, <2>9
  <2> QED BY <2>5, <2>7, Zenon DEF TodoItem
<1>10. TodoItem(ir, B, n + 1, D + 1)
  <2>1. Uses(c, n + 1)
    <3>1. "label" # "cond" /\ "label" # "call"
      OBVIOUS
    <3> QED BY <1>3, <1>5, <3>1, Zenon DEF Uses
  <2>2. \A k \in 1..D : B[k] # c
    <3>1. \A k \in 1..D : Uses(td[k], n)
      BY <1>1, Zenon DEF TodoItem
    <3> QED BY <1>2, <1>14, <3>1, Zenon
  <2>4. B[D + 1] = c
    BY <1>2, Zenon
  <2>5. /\ ToDo(B[D + 1]) /\ Uses(B[D + 1], n + 1)
        /\ B[D + 1].ir # "call"
    BY <1>3, <2>1, <2>4
  <2>6. \A l : B[D + 1] = Label(l) => ~IsIn(ir, l) /\ \A k \in 1..Len(B) : B[k] = Label(l) => k = D + 1
    BY <1>2, <1>3, <1>15, <2>2, <2>4, Zenon
  <2> QED BY <2>5, <2>6, Zenon DEF TodoItem
<1>11. \A d \in 1..Len(B) : TodoItem(ir, B, n + 1, d)
  BY <1>2, <1>9, <1>10, Zenon
<1>12. Layout(ir, B, n + 1)
  BY <1>1, <1>2, <1>5, <1>7, <1>8, <1>11, Zenon DEF Layout
<1>13. \A l : Waiting(td, n, l) => Waiting(B, n + 1, l) /\ l # n
  BY <1>4, <1>5, Zenon DEF Waiting
<1>16. Waiting(B, n + 1, n)
  BY <1>4, <1>5, Zenon DEF Waiting, c
<1> QED BY <1>2, <1>12, <1>13, <1>16, Zenon DEF B, c

\* An instruction or a jump is emitted.
LEMMA LayoutPush ==
  ASSUME NEW ir, NEW td, NEW n, Layout(ir, td, n), NEW c, c.ir \in {"insn", "cond"},
         c.ir = "cond" => Waiting(td, n, c.t) /\ Waiting(td, n, c.f) /\ ir # <<>> /\ IsInsn(ir[Len(ir)])
  PROVE  /\ Layout(Append(ir, c), td, n)
         /\ Append(ir, c) # <<>> /\ IsInsn(Append(ir, c)[Len(Append(ir, c))])
<1> DEFINE D == Len(ir)
           B == Append(ir, c)
<1>1. /\ n \in Nat /\ Listing(ir) /\ Listing(td) /\ Ends(ir, td)
      /\ \A j \in 1..Len(ir) : DoneItem(ir, td, n, j)
      /\ \A d \in 1..Len(td) : TodoItem(ir, td, n, d)
  BY LayoutParts
<1>2. /\ Listing(B) /\ D \in Nat /\ Len(B) = D + 1
      /\ \A k \in 1..D : B[k] = ir[k] /\ k # D + 1
      /\ B[D + 1] = c /\ B # <<>>
      /\ \A k : k \in 1..Len(B) <=> k \in 1..D \/ k = D + 1
  BY <1>1, PushIndex
<1>3. "label" # "insn" /\ "label" # "cond" /\ "call" # "insn" /\ "call" # "cond"
  OBVIOUS
<1>4. \A l : Label(l) # c
  <2> SUFFICES ASSUME NEW l PROVE Label(l).ir # c.ir
    OBVIOUS
  <2>1. Label(l).ir = "label"
    BY ItemFields
  <2> QED BY <1>3, <2>1, Zenon
<1>5. \A l : IsIn(B, l) <=> IsIn(ir, l) \/ c = Label(l)
  BY <1>1, PushIsIn
<1> HIDE DEF B, D
<1>6. \A l : IsIn(B, l) <=> IsIn(ir, l)
  BY <1>4, <1>5, Zenon
<1>7. IsInsn(B[D + 1]) /\ IsInsn(B[Len(B)])
  <2>1. c.ir # "label" /\ B[D + 1] = c /\ Len(B) = D + 1
    BY <1>2, <1>3, Zenon
  <2>2. B[D + 1].ir # "label" /\ B[Len(B)].ir # "label"
    BY <2>1
  <2> QED BY <2>2, Zenon DEF IsInsn
<1>8. Ends(B, td)
  BY <1>1, <1>2, <1>7, Zenon DEF Ends
<1>9. ASSUME NEW j \in 1..D PROVE DoneItem(B, td, n, j)
  <2>1. DoneItem(ir, td, n, j) /\ B[j] = ir[j]
    BY <1>1, <1>2, Zenon DEF D
  <2>2. \A l : Reached(ir, td, j, l) => Reached(B, td, j, l)
    BY <1>2, <1>4, <1>6, Zenon DEF Reached, D
  <2>3. /\ Uses(ir[j], n)
        /\ ir[j].ir = "cond" => /\ Reached(ir, td, j, ir[j].t) /\ Reached(ir, td, j, ir[j].f)
                                /\ j > 1 /\ IsInsn(ir[j - 1])
    BY <2>1, Zenon DEF DoneItem
  <2>5. j > 1 => B[j - 1] = ir[j - 1]
    <3>1. j > 1 => j - 1 \in 1..D
      BY <1>2, SMT
    <3> QED BY <1>2, <3>1, Zenon
  <2>4. /\ Uses(B[j], n)
        /\ B[j].ir = "cond" => /\ Reached(B, td, j, B[j].t) /\ Reached(B, td, j, B[j].f)
                                /\ j > 1 /\ IsInsn(B[j - 1])
    BY <2>1, <2>2, <2>3, <2>5
  <2> QED BY <2>4, Zenon DEF DoneItem
<1>10. DoneItem(B, td, n, D + 1)
  <2>1. B[D + 1] = c
    BY <1>2, Zenon
  <2>2. Uses(c, n)
    BY <1>3, Zenon DEF Uses, Waiting
  <2>3. c.ir = "cond" => D + 1 > 1 /\ IsInsn(B[(D + 1) - 1])
    <3>1. SUFFICES ASSUME c.ir = "cond" PROVE D + 1 > 1 /\ IsInsn(B[(D + 1) - 1])
      OBVIOUS
    <3>2. Listing(ir) /\ ir # <<>> => Len(ir) >= 1
      BY BackIndex
    <3>3. D >= 1
      BY <1>1, <3>1, <3>2, Zenon DEF D
    <3>4. D + 1 > 1 /\ (D + 1) - 1 = D /\ D \in 1..D
      BY <1>2, <3>3, SMT
    <3>5. B[D] = ir[D] /\ IsInsn(ir[D])
      BY <1>2, <3>1, <3>4, Zenon DEF D
    <3> QED BY <3>4, <3>5
  <2>4. \A l : IsIn(td, l) /\ ~IsIn(ir, l) => Reached(B, td, D + 1, l)
    BY <1>6, Zenon DEF Reached, IsIn
  <2>5. \A l : IsIn(td, l) => ~IsIn(ir, l)
    BY <1>1, Zenon DEF TodoItem, IsIn
  <2>6. c.ir = "cond" => Reached(B, td, D + 1, c.t) /\ Reached(B, td, D + 1, c.f)
    BY <2>4, <2>5, Zenon DEF Waiting
  <2>7. /\ Uses(B[D + 1], n)
        /\ B[D + 1].ir = "cond" => /\ Reached(B, td, D + 1, B[D + 1].t) /\ Reached(B, td, D + 1, B[D + 1].f)
                                   /\ D + 1 > 1 /\ IsInsn(B[(D + 1) - 1])
    BY <2>1, <2>2, <2>3, <2>6
  <2> QED BY <2>7, Zenon DEF DoneItem
<1>11. \A j \in 1..Len(B) : DoneItem(B, td, n, j)
  BY <1>2, <1>9, <1>10, Zenon
<1>12. ASSUME NEW d \in 1..Len(td) PROVE TodoItem(B, td, n, d)
  <2>1. TodoItem(ir, td, n, d)
    BY <1>1, Zenon
  <2> QED BY <1>6, <2>1, Zenon DEF TodoItem
<1>13. Layout(B, td, n)
  BY <1>1, <1>2, <1>8, <1>11, <1>12, Zenon DEF Layout
<1> QED BY <1>2, <1>7, <1>13, Zenon DEF B

\* What is next is emitted.
LEMMA LayoutEmit ==
  ASSUME NEW ir, NEW td, NEW n, Layout(ir, td, n), td # <<>>, td[Len(td)].ir # "call"
  PROVE  /\ Layout(Append(ir, td[Len(td)]), Back(td), n)
         /\ \A l : Waiting(td, n, l) /\ td[Len(td)] # Label(l) => Waiting(Back(td), n, l)
<1> DEFINE D == Len(td)
           c == td[D]
           B == Back(td)
           C == Len(B)
           E == Len(ir)
           b == Append(ir, c)
<1>1. /\ n \in Nat /\ Listing(ir) /\ Listing(td) /\ Ends(ir, td)
      /\ \A j \in 1..E : DoneItem(ir, td, n, j)
      /\ \A d \in 1..D : TodoItem(ir, td, n, d)
  BY LayoutParts
<1>2. /\ Listing(B) /\ D \in Nat /\ D >= 1 /\ C = D - 1
      /\ \A k \in 1..C : B[k] = td[k] /\ k # D /\ k \in 1..D
      /\ \A k : k \in 1..D <=> k \in 1..C \/ k = D
  BY <1>1, BackIndex
<1>3. \A l : IsIn(td, l) <=> IsIn(B, l) \/ c = Label(l)
  BY <1>1, BackIsIn
<1>20. c.ir # "call"
  OBVIOUS
<1> HIDE DEF c
<1>4. /\ Listing(b) /\ E \in Nat /\ Len(b) = E + 1
      /\ \A k \in 1..E : b[k] = ir[k] /\ k # E + 1
      /\ b[E + 1] = c /\ b # <<>>
      /\ \A k : k \in 1..Len(b) <=> k \in 1..E \/ k = E + 1
  BY <1>1, PushIndex
<1>5. \A l : IsIn(b, l) <=> IsIn(ir, l) \/ c = Label(l)
  BY <1>1, PushIsIn
<1>6. Len(<<>>) = 0
  OBVIOUS
<1> HIDE DEF B, D, C, E, b
<1>7. D \in 1..D /\ c = td[D]
  BY <1>2, SMT DEF c
<1>8. TodoItem(ir, td, n, D)
  BY <1>1, <1>7, Zenon
<1>9. ToDo(c) /\ Uses(c, n)
  BY <1>7, <1>8, Zenon DEF TodoItem
<1>10. c.ir # "cond"
  <2>1. "insn" # "cond" /\ "label" # "cond" /\ "call" # "cond"
    OBVIOUS
  <2>2. (\E k : c = Plain(k)) \/ (\E l : c = Label(l)) \/ (\E e, t, f : c = CompileExpr(e, t, f))
    BY <1>9, Zenon DEF ToDo
  <2>3. (\E k : c = Plain(k)) => c.ir = "insn"
    BY ItemFields
  <2>4. (\E l : c = Label(l)) => c.ir = "label"
    BY ItemFields
  <2>5. (\E e, t, f : c = CompileExpr(e, t, f)) => c.ir = "call"
    BY ItemFields
  <2> QED BY <2>1, <2>2, <2>3, <2>4, <2>5, Zenon
<1>11. \A l : c = Label(l) => ~IsIn(ir, l) /\ \A k \in 1..D : td[k] = Label(l) => k = D
  BY <1>7, <1>8, Zenon DEF TodoItem, D
<1>12. Ends(b, B)
  <2>1. td # <<>> => td[1].ir = "insn"
    BY <1>1, Zenon DEF Ends
  <2>2. CASE D = 1
    <3>1. C = 0
      BY <1>2, <2>2, SMT
    <3>2. B = <<>>
      <4>1. PICK S : B \in Seq(S)
        BY <1>2, Zenon DEF Listing
      <4>2. Len(B) = 0
        BY <3>1 DEF C
      <4> QED BY <4>1, <4>2, SMT
    <3>3. c.ir = "insn"
      BY <1>7, <2>1, <2>2
    <3>4. b[Len(b)] = c
      BY <1>4
    <3>5. IsInsn(b[Len(b)])
      BY <3>3, <3>4 DEF IsInsn
    <3> QED BY <1>4, <3>2, <3>5, Zenon DEF Ends
  <2>3. CASE D # 1
    <3>1. 1 \in 1..C /\ C # 0
      BY <1>2, <2>3, SMT
    <3>2. B # <<>>
      BY <1>6, <3>1, Zenon DEF C
    <3>3. B[1].ir = "insn"
      <4>1. B[1] = td[1]
        BY <1>2, <3>1, Zenon
      <4> QED BY <2>1, <4>1
    <3> QED BY <3>2, <3>3, Zenon DEF Ends
  <2> QED BY <2>2, <2>3
<1>13. ASSUME NEW j \in 1..E PROVE DoneItem(b, B, n, j)
  <2>1. DoneItem(ir, td, n, j) /\ b[j] = ir[j]
    BY <1>1, <1>4, Zenon
  <2>6. E + 1 > j
    BY <1>4, SMT
  <2>2. ASSUME NEW l, Reached(ir, td, j, l) PROVE Reached(b, B, j, l)
    <3>1. IsIn(b, l) \/ IsIn(B, l)
      BY <1>3, <1>5, <2>2, Zenon DEF Reached
    <3>2. \A k \in 1..Len(b) : b[k] = Label(l) => k > j
      BY <1>4, <2>2, <2>6, Zenon DEF Reached, E
    <3> QED BY <3>1, <3>2, Zenon DEF Reached
  <2>3. /\ Uses(ir[j], n)
        /\ ir[j].ir = "cond" => /\ Reached(ir, td, j, ir[j].t) /\ Reached(ir, td, j, ir[j].f)
                                /\ j > 1 /\ IsInsn(ir[j - 1])
    BY <2>1, Zenon DEF DoneItem
  <2>5. j > 1 => b[j - 1] = ir[j - 1]
    <3>1. j > 1 => j - 1 \in 1..E
      BY <1>4, SMT
    <3> QED BY <1>4, <3>1, Zenon
  <2>4. /\ Uses(b[j], n)
        /\ b[j].ir = "cond" => /\ Reached(b, B, j, b[j].t) /\ Reached(b, B, j, b[j].f)
                                /\ j > 1 /\ IsInsn(b[j - 1])
    BY <2>1, <2>2, <2>3, <2>5
  <2> QED BY <2>4, Zenon DEF DoneItem
<1>14. DoneItem(b, B, n, E + 1)
  <2>1. b[E + 1] = c
    BY <1>4, Zenon
  <2>2. Uses(b[E + 1], n) /\ b[E + 1].ir # "cond"
    BY <1>9, <1>10, <2>1
  <2> QED BY <2>2, Zenon DEF DoneItem
<1>15. \A j \in 1..Len(b) : DoneItem(b, B, n, j)
  BY <1>4, <1>13, <1>14, Zenon
<1>16. ASSUME NEW d \in 1..C PROVE TodoItem(b, B, n, d)
  <2>1. TodoItem(ir, td, n, d) /\ B[d] = td[d] /\ d # D
    BY <1>1, <1>2, Zenon
  <2>2. \A k \in 1..(d - 1) : k \in 1..C
    BY <1>2, SMT
  <2>3. \A l : Lower(td, d, l) => Lower(B, d, l)
    BY <1>2, <2>2, Zenon DEF Lower
  <2>4. \A l : td[d] = Label(l) => ~IsIn(ir, l) /\ \A k \in 1..D : td[k] = Label(l) => k = d
    BY <2>1, Zenon DEF TodoItem, D
  <2>8. \A l : td[d] = Label(l) => c # Label(l)
    BY <1>7, <2>1, <2>4, Zenon
  <2>5. \A l : B[d] = Label(l) => ~IsIn(b, l) /\ \A k \in 1..C : B[k] = Label(l) => k = d
    BY <1>2, <1>5, <2>1, <2>4, <2>8, Zenon
  <2>6. /\ ToDo(td[d]) /\ Uses(td[d], n)
        /\ td[d].ir = "call" => Lower(td, d, td[d].t) /\ Lower(td, d, td[d].f)
    BY <2>1, Zenon DEF TodoItem
  <2>7. /\ ToDo(B[d]) /\ Uses(B[d], n)
        /\ B[d].ir = "call" => Lower(B, d, B[d].t) /\ Lower(B, d, B[d].f)
    BY <2>1, <2>3, <2>6
  <2> QED BY <2>5, <2>7, Zenon DEF TodoItem, C
<1>17. Layout(b, B, n)
  BY <1>1, <1>2, <1>4, <1>12, <1>15, <1>16, Zenon DEF Layout, C
<1>18. \A l : Waiting(td, n, l) /\ c # Label(l) => Waiting(B, n, l)
  BY <1>3, Zenon DEF Waiting
<1> QED BY <1>17, <1>18, Zenon DEF B, D, b, c

(***************************************************************************)
(* 7. One test.                                                            *)
(***************************************************************************)

(***************************************************************************)
(* What is loaded, and the bits of the flags.                              *)
(***************************************************************************)

LEMMA And1None == \A u, v \in Nat : v % 2 = 0 => And1(u, v) = 0
BY SMT DEF And1

LEMMA And2None == \A u, v \in Nat : v % 4 = 0 => And2(u, v) = 0
<1> SUFFICES ASSUME NEW u \in Nat, NEW v \in Nat, v % 4 = 0 PROVE And2(u, v) = 0
  OBVIOUS
<1>1. u \div 2 \in Nat /\ v \div 2 \in Nat /\ (v \div 2) % 2 = 0 /\ v % 2 = 0
  BY SMT
<1>2. And1(u \div 2, v \div 2) = 0 /\ And1(u, v) = 0
  BY <1>1, And1None
<1> QED BY <1>2, SMT DEF And2

LEMMA And4None == \A u, v \in Nat : v % 16 = 0 => And4(u, v) = 0
<1> SUFFICES ASSUME NEW u \in Nat, NEW v \in Nat, v % 16 = 0 PROVE And4(u, v) = 0
  OBVIOUS
<1> DEFINE s == u \div 4
           t == v \div 4
<1>1. s \in Nat /\ t \in Nat /\ t % 4 = 0 /\ v % 4 = 0
  BY SMT
<1>3. And4(u, v) = 4 * And2(s, t) + And2(u, v)
  BY SMT DEF And4
<1> HIDE DEF s, t
<1>2. And2(s, t) = 0 /\ And2(u, v) = 0
  BY <1>1, And2None
<1> QED BY <1>2, <1>3, SMT

LEMMA And8None == \A u, v \in Nat : v % 256 = 0 => And8(u, v) = 0
<1> SUFFICES ASSUME NEW u \in Nat, NEW v \in Nat, v % 256 = 0 PROVE And8(u, v) = 0
  OBVIOUS
<1> DEFINE s == u \div 16
           t == v \div 16
<1>1. s \in Nat /\ t \in Nat /\ t % 16 = 0 /\ v % 16 = 0
  BY SMT
<1>3. And8(u, v) = 16 * And4(s, t) + And4(u, v)
  BY SMT DEF And8
<1> HIDE DEF s, t
<1>2. And4(s, t) = 0 /\ And4(u, v) = 0
  BY <1>1, And4None
<1> QED BY <1>2, <1>3, SMT

LEMMA And16None == \A u, v \in Nat : v % 65536 = 0 => And16(u, v) = 0
<1> SUFFICES ASSUME NEW u \in Nat, NEW v \in Nat, v % 65536 = 0 PROVE And16(u, v) = 0
  OBVIOUS
<1> DEFINE s == u \div 256
           t == v \div 256
<1>1. s \in Nat /\ t \in Nat /\ t % 256 = 0 /\ v % 256 = 0
  BY SMT
<1>3. And16(u, v) = 256 * And8(s, t) + And8(u, v)
  BY SMT DEF And16
<1> HIDE DEF s, t
<1>2. And8(s, t) = 0 /\ And8(u, v) = 0
  BY <1>1, And8None
<1> QED BY <1>2, <1>3, SMT

\* A bit is looked for in the upper half of a word alone.
LEMMA UpperBits ==
  ASSUME NEW u \in Nat, NEW q \in {0, 2, 16, 18}, u \div 65536 = q
  PROVE  /\ BitAnd(u, 131072) = IF q \in {2, 18} THEN 131072 ELSE 0
         /\ BitAnd(u, 262144) = 0 /\ BitAnd(u, 524288) = 0
<1>1. /\ BitAnd(u, 131072) = 65536 * And16(q, 2) + And16(u, 131072)
      /\ BitAnd(u, 262144) = 65536 * And16(q, 4) + And16(u, 262144)
      /\ BitAnd(u, 524288) = 65536 * And16(q, 8) + And16(u, 524288)
  BY SMT DEF BitAnd
<1>2. And16(u, 131072) = 0 /\ And16(u, 262144) = 0 /\ And16(u, 524288) = 0
  BY And16None, SMT
<1>3. /\ And16(q, 2) = 256 * And8(0, 0) + And8(q, 2)
      /\ And16(q, 4) = 256 * And8(0, 0) + And8(q, 4)
      /\ And16(q, 8) = 256 * And8(0, 0) + And8(q, 8)
  BY SMT DEF And16
<1>4. And8(0, 0) = 0
  BY And8None, SMT
<1>5. /\ And8(q, 2) = 16 * And4(q \div 16, 0) + And4(q, 2)
      /\ And8(q, 4) = 16 * And4(q \div 16, 0) + And4(q, 4)
      /\ And8(q, 8) = 16 * And4(q \div 16, 0) + And4(q, 8)
  BY SMT DEF And8
<1>6. q \div 16 \in Nat
  BY SMT
<1>7. And4(q \div 16, 0) = 0
  BY <1>6, And4None, SMT
<1>8. And4(q, 2) = IF q \in {2, 18} THEN 2 ELSE 0
  BY SMT DEF And4, And2, And1
<1>9. And4(q, 4) = 0
  BY SMT DEF And4, And2, And1
<1>10. And4(q, 8) = 0
  BY SMT DEF And4, And2, And1
<1> QED BY <1>1, <1>2, <1>3, <1>4, <1>5, <1>7, <1>8, <1>9, <1>10, SMT

\* The flags do not overlap.
LEMMA FlagBits ==
  ASSUME NEW p \in Packet
  PROVE  /\ FlagsOf(p) \in Nat
         /\ BitAnd(FlagsOf(p), Flag.outbound) # 0 <=> p.outbound
         /\ BitAnd(FlagsOf(p), Flag.inbound) # 0 <=> p.outbound
         /\ BitAnd(FlagsOf(p), Flag.loopback) = 0
         /\ BitAnd(FlagsOf(p), Flag.impostor) = 0
<1>1. Flag.outbound = 131072 /\ Flag.inbound = 131072 /\ Flag.loopback = 262144 /\ Flag.impostor = 524288
      /\ Flag.ipv6 = 1048576
  BY SMT DEF Flag
<1>2. p.layer \in 0..15
  BY PacketFields, Zenon DEF U4
<1> DEFINE o == IF p.outbound THEN 131072 ELSE 0
           w == IF p.version = 6 THEN 1048576 ELSE 0
           u == FlagsOf(p)
           q == (IF p.outbound THEN 2 ELSE 0) + (IF p.version = 6 THEN 16 ELSE 0)
<1>3. u = o + w + p.layer
  BY <1>1 DEF FlagsOf
<1>4. u \in Nat /\ u \div 65536 = q
  <2>1. CASE p.outbound /\ p.version = 6
    BY <1>2, <1>3, <2>1, SMT
  <2>2. CASE p.outbound /\ p.version # 6
    BY <1>2, <1>3, <2>2, SMT
  <2>3. CASE ~p.outbound /\ p.version = 6
    BY <1>2, <1>3, <2>3, SMT
  <2>4. CASE ~p.outbound /\ p.version # 6
    BY <1>2, <1>3, <2>4, SMT
  <2> QED BY <2>1, <2>2, <2>3, <2>4
<1>5. q \in {0, 2, 16, 18} /\ (q \in {2, 18} <=> p.outbound)
  OBVIOUS
<1> HIDE DEF u, q
<1>6. /\ BitAnd(u, 131072) = IF q \in {2, 18} THEN 131072 ELSE 0
      /\ BitAnd(u, 262144) = 0 /\ BitAnd(u, 524288) = 0
  BY <1>4, <1>5, UpperBits
<1>7. BitAnd(u, 131072) # 0 <=> p.outbound
  BY <1>5, <1>6, SMT
<1> QED BY <1>1, <1>4, <1>6, <1>7 DEF u

\* The four bytes of a word, and the two of a port, put together again.
LEMMA WordOfBytes ==
  ASSUME NEW w \in U32
  PROVE  16777216 * (WordByte(w, 0) % (Word \div 16777216)) + 65536 * WordByte(w, 1)
           + 256 * WordByte(w, 2) + WordByte(w, 3) = w
<1>1. w \in Nat /\ w < Word
  BY WordIsNat
<1>2. Word \div 16777216 <= 256 /\ Word % 16777216 = 0 /\ Word \in Nat
  BY HeaderAssumption, WordAssumption, SMT
<1> DEFINE K == Word \div 16777216
           q3 == w \div 256
           q2 == w \div 65536
           q1 == w \div 16777216
<1>3. Word = 16777216 * K /\ K \in Nat
  BY <1>2, SMT
<1>4. /\ q1 \in Nat /\ q2 \in Nat /\ q3 \in Nat
      /\ w = 256 * q3 + (w % 256) /\ q3 = 256 * q2 + (q3 % 256) /\ q2 = 256 * q1 + (q2 % 256)
  BY <1>1, SMT
<1>5. q1 < K
  <2>1. 16777216 * q1 <= w
    BY <1>1, SMT
  <2> QED BY <1>1, <1>3, <1>4, <2>1, SMT
<1>6. WordByte(w, 0) = q1 % 256 /\ WordByte(w, 1) = q2 % 256 /\ WordByte(w, 2) = q3 % 256 /\ WordByte(w, 3) = w % 256
  BY SMT DEF WordByte
<1>7. K <= 256
  BY <1>2
<1> HIDE DEF K, q1, q2, q3
<1>8. q1 % 256 = q1 /\ q1 % K = q1
  BY <1>3, <1>4, <1>5, <1>7, SMT
<1>9. WordByte(w, 0) % K = q1
  BY <1>6, <1>8
<1> DEFINE r1 == w % 256
           r2 == q3 % 256
           r3 == q2 % 256
<1>10. r1 \in Nat /\ r2 \in Nat /\ r3 \in Nat
  BY <1>1, <1>4, SMT
<1>11. w = 256 * q3 + r1 /\ q3 = 256 * q2 + r2 /\ q2 = 256 * q1 + r3
  BY <1>4
<1>12. WordByte(w, 1) = r3 /\ WordByte(w, 2) = r2 /\ WordByte(w, 3) = r1
  BY <1>6
<1> HIDE DEF r1, r2, r3
<1>13. 16777216 * (WordByte(w, 0) % K) + 65536 * WordByte(w, 1) + 256 * WordByte(w, 2) + WordByte(w, 3) = w
  BY <1>1, <1>4, <1>9, <1>10, <1>11, <1>12, SMT
<1> QED BY <1>13 DEF K

LEMMA PortOfBytes ==
  ASSUME NEW v \in U16
  PROVE  256 * PortByte(v, 0) + PortByte(v, 1) = v /\ v \in Nat
<1>1. v \in Nat
  BY SMT DEF U16
<1> QED BY <1>1, SMT DEF PortByte

LEMMA PacketSize ==
  ASSUME NEW p \in Packets
  PROVE  /\ p \in Packet /\ p.bytes \in Nat /\ p.ihl \in 5..15 /\ p.version \in 0..15 /\ 4 * p.ihl \in 20..60
         /\ p.proto \in Nat /\ p.src \in Nat /\ p.dst \in Nat /\ p.sport \in Nat /\ p.dport \in Nat
         /\ p.ifIdx \in Nat /\ p.subIfIdx \in Nat
<1>1. p \in Packet
  BY WordAssumption, Zenon
<1>2. /\ p.version \in U4 /\ p.ihl \in U4 /\ p.proto \in U8
      /\ p.src \in U32 /\ p.dst \in U32 /\ p.sport \in U16 /\ p.dport \in U16
      /\ p.ifIdx \in U32 /\ p.subIfIdx \in U32 /\ p.bytes \in U32
  BY <1>1, PacketFields
<1>3. p.src \in Nat /\ p.dst \in Nat /\ p.ifIdx \in Nat /\ p.subIfIdx \in Nat /\ p.bytes \in Nat
  BY <1>2, WordIsNat
<1>4. p.sport \in Nat /\ p.dport \in Nat
  BY <1>2, SMT DEF U16
<1>5. p.proto \in Nat
  BY <1>2, SMT DEF U8
<1>6. p.ihl \in 0..15 /\ p.ihl >= 5 /\ p.version \in 0..15
  BY <1>2, HeaderAssumption, Zenon DEF U4
<1> QED BY <1>1, <1>3, <1>4, <1>5, <1>6, SMT

LEMMA FourBytesOfWord ==
  ASSUME NEW w \in U32
  PROVE  FourBytes(WordByte(w, 0), WordByte(w, 1), WordByte(w, 2), WordByte(w, 3)) = w
BY WordOfBytes, SMT DEF FourBytes

LEMMA WidthOf ==
  /\ \A p, off : LoadBytes(p, "b", off) = IF off + 1 > p.bytes THEN {} ELSE {ByteAt(p, off + 0)}
  /\ \A p, off : LoadBytes(p, "h", off) =
       IF off + 2 > p.bytes THEN {} ELSE {256 * ByteAt(p, off + 0) + ByteAt(p, off + 1)}
  /\ \A p, off : LoadBytes(p, "w", off) =
       IF off + 4 > p.bytes THEN {}
       ELSE {FourBytes(ByteAt(p, off + 0), ByteAt(p, off + 1), ByteAt(p, off + 2), ByteAt(p, off + 3))}
<1>1. DOMAIN Width = {"w", "h", "b"} /\ Width["w"] = 4 /\ Width["h"] = 2 /\ Width["b"] = 1
  BY DEF Width
<1> HIDE DEF Width
<1>3. ASSUME NEW p, NEW off
      PROVE  LoadBytes(p, "b", off) = IF off + 1 > p.bytes THEN {} ELSE {ByteAt(p, off + 0)}
  BY <1>1, SMT DEF LoadBytes
<1>4. ASSUME NEW p, NEW off
      PROVE  LoadBytes(p, "h", off) =
               IF off + 2 > p.bytes THEN {} ELSE {256 * ByteAt(p, off + 0) + ByteAt(p, off + 1)}
  BY <1>1, SMT DEF LoadBytes
<1>5. ASSUME NEW p, NEW off
      PROVE  LoadBytes(p, "w", off) =
               IF off + 4 > p.bytes THEN {}
               ELSE {FourBytes(ByteAt(p, off + 0), ByteAt(p, off + 1), ByteAt(p, off + 2), ByteAt(p, off + 3))}
  BY <1>1, SMT DEF LoadBytes, FourBytes
<1> QED BY <1>3, <1>4, <1>5, Zenon

LEMMA BytesAt ==
  ASSUME NEW p \in Packets
  PROVE  /\ ByteAt(p, 0) = 16 * p.version + p.ihl
         /\ ByteAt(p, 9) = p.proto
         /\ \A n \in 0..3 : ByteAt(p, 12 + n) = WordByte(p.src, n) /\ ByteAt(p, 16 + n) = WordByte(p.dst, n)
         /\ \A n \in 0..1 : /\ ByteAt(p, 4 * p.ihl + n) = PortByte(p.sport, n)
                            /\ ByteAt(p, (4 * p.ihl + 2) + n) = PortByte(p.dport, n)
<1>1. 4 * p.ihl \in 20..60
  BY PacketSize
<1> DEFINE l4 == 4 * p.ihl
<1>2. l4 \in 20..60
  BY <1>1
<1> HIDE DEF l4
<1>3. \A i : ByteAt(p, i) =
        CASE i = 0 -> 16 * p.version + p.ihl
        [] i = 9 -> p.proto
        [] i \in 12..15 -> WordByte(p.src, i - 12)
        [] i \in 16..19 -> WordByte(p.dst, i - 16)
        [] i \in l4..(l4 + 1) -> PortByte(p.sport, i - l4)
        [] i \in (l4 + 2)..(l4 + 3) -> PortByte(p.dport, i - l4 - 2)
        [] OTHER -> 0
  BY Zenon DEF ByteAt, l4
<1>4. ByteAt(p, 0) = 16 * p.version + p.ihl
  BY <1>2, <1>3, SMT
<1>5. ByteAt(p, 9) = p.proto
  BY <1>2, <1>3, SMT
<1>6. ASSUME NEW n \in 0..3 PROVE ByteAt(p, 12 + n) = WordByte(p.src, n)
  BY <1>2, <1>3, SMT
<1>7. ASSUME NEW n \in 0..3 PROVE ByteAt(p, 16 + n) = WordByte(p.dst, n)
  BY <1>2, <1>3, SMT
<1>8. ASSUME NEW n \in 0..1 PROVE ByteAt(p, l4 + n) = PortByte(p.sport, n)
  BY <1>2, <1>3, SMT
<1>9. ASSUME NEW n \in 0..1 PROVE ByteAt(p, (l4 + 2) + n) = PortByte(p.dport, n)
  BY <1>2, <1>3, SMT
<1> QED BY <1>4, <1>5, <1>6, <1>7, <1>8, <1>9 DEF l4

\* What load_bytes gives of a packet.
LEMMA LoadsBytes ==
  ASSUME NEW p \in Packets
  PROVE  /\ LoadBytes(p, "b", 0) = IF p.bytes < 1 THEN {} ELSE {16 * p.version + p.ihl}
         /\ LoadBytes(p, "b", 9) = IF p.bytes < 10 THEN {} ELSE {p.proto}
         /\ LoadBytes(p, "w", 12) = IF p.bytes < 16 THEN {} ELSE {p.src}
         /\ LoadBytes(p, "w", 16) = IF p.bytes < 20 THEN {} ELSE {p.dst}
         /\ LoadBytes(p, "h", 4 * p.ihl) = IF p.bytes < 4 * p.ihl + 2 THEN {} ELSE {p.sport}
         /\ LoadBytes(p, "h", 4 * p.ihl + 2) = IF p.bytes < 4 * p.ihl + 4 THEN {} ELSE {p.dport}
<1>1. p \in Packet /\ p.bytes \in Nat /\ 4 * p.ihl \in 20..60
  BY PacketSize
<1>2. p.src \in U32 /\ p.dst \in U32 /\ p.sport \in U16 /\ p.dport \in U16
  BY <1>1, PacketFields
<1>3. 0 \in 0..3 /\ 1 \in 0..3 /\ 2 \in 0..3 /\ 3 \in 0..3 /\ 0 \in 0..1 /\ 1 \in 0..1
  OBVIOUS
<1>4. /\ ByteAt(p, 12 + 0) = WordByte(p.src, 0) /\ ByteAt(p, 12 + 1) = WordByte(p.src, 1)
      /\ ByteAt(p, 12 + 2) = WordByte(p.src, 2) /\ ByteAt(p, 12 + 3) = WordByte(p.src, 3)
      /\ ByteAt(p, 16 + 0) = WordByte(p.dst, 0) /\ ByteAt(p, 16 + 1) = WordByte(p.dst, 1)
      /\ ByteAt(p, 16 + 2) = WordByte(p.dst, 2) /\ ByteAt(p, 16 + 3) = WordByte(p.dst, 3)
  BY <1>3, BytesAt, Zenon
<1> DEFINE l == 4 * p.ihl
<1>5. /\ ByteAt(p, l + 0) = PortByte(p.sport, 0) /\ ByteAt(p, l + 1) = PortByte(p.sport, 1)
      /\ ByteAt(p, (l + 2) + 0) = PortByte(p.dport, 0) /\ ByteAt(p, (l + 2) + 1) = PortByte(p.dport, 1)
  BY <1>3, BytesAt, Zenon
<1>6. LoadBytes(p, "b", 0) = IF p.bytes < 1 THEN {} ELSE {16 * p.version + p.ihl}
  <2>1. LoadBytes(p, "b", 0) = IF 0 + 1 > p.bytes THEN {} ELSE {ByteAt(p, 0 + 0)}
    BY WidthOf
  <2>2. ByteAt(p, 0 + 0) = ByteAt(p, 0) /\ (0 + 1 > p.bytes <=> p.bytes < 1)
    BY <1>1, SMT
  <2> QED BY <2>1, <2>2, BytesAt
<1>7. LoadBytes(p, "b", 9) = IF p.bytes < 10 THEN {} ELSE {p.proto}
  <2>1. LoadBytes(p, "b", 9) = IF 9 + 1 > p.bytes THEN {} ELSE {ByteAt(p, 9 + 0)}
    BY WidthOf
  <2>2. ByteAt(p, 9 + 0) = ByteAt(p, 9) /\ (9 + 1 > p.bytes <=> p.bytes < 10)
    BY <1>1, SMT
  <2> QED BY <2>1, <2>2, BytesAt
<1>8. LoadBytes(p, "w", 12) = IF p.bytes < 16 THEN {} ELSE {p.src}
  <2>1. LoadBytes(p, "w", 12) =
          IF 12 + 4 > p.bytes THEN {}
          ELSE {FourBytes(ByteAt(p, 12 + 0), ByteAt(p, 12 + 1), ByteAt(p, 12 + 2), ByteAt(p, 12 + 3))}
    BY WidthOf
  <2>2. 12 + 4 > p.bytes <=> p.bytes < 16
    BY <1>1, SMT
  <2>3. FourBytes(WordByte(p.src, 0), WordByte(p.src, 1), WordByte(p.src, 2), WordByte(p.src, 3)) = p.src
    BY <1>2, FourBytesOfWord
  <2>4. LoadBytes(p, "w", 12) =
          IF 12 + 4 > p.bytes THEN {}
          ELSE {FourBytes(WordByte(p.src, 0), WordByte(p.src, 1), WordByte(p.src, 2), WordByte(p.src, 3))}
    BY <1>4, <2>1
  <2> QED BY <2>2, <2>3, <2>4
<1>9. LoadBytes(p, "w", 16) = IF p.bytes < 20 THEN {} ELSE {p.dst}
  <2>1. LoadBytes(p, "w", 16) =
          IF 16 + 4 > p.bytes THEN {}
          ELSE {FourBytes(ByteAt(p, 16 + 0), ByteAt(p, 16 + 1), ByteAt(p, 16 + 2), ByteAt(p, 16 + 3))}
    BY WidthOf
  <2>2. 16 + 4 > p.bytes <=> p.bytes < 20
    BY <1>1, SMT
  <2>3. FourBytes(WordByte(p.dst, 0), WordByte(p.dst, 1), WordByte(p.dst, 2), WordByte(p.dst, 3)) = p.dst
    BY <1>2, FourBytesOfWord
  <2>4. LoadBytes(p, "w", 16) =
          IF 16 + 4 > p.bytes THEN {}
          ELSE {FourBytes(WordByte(p.dst, 0), WordByte(p.dst, 1), WordByte(p.dst, 2), WordByte(p.dst, 3))}
    BY <1>4, <2>1
  <2> QED BY <2>2, <2>3, <2>4
<1>10. LoadBytes(p, "h", l) = IF p.bytes < l + 2 THEN {} ELSE {p.sport}
  <2>1. l + 2 > p.bytes <=> p.bytes < l + 2
    BY <1>1, SMT
  <2>2. 256 * PortByte(p.sport, 0) + PortByte(p.sport, 1) = p.sport
    BY <1>2, PortOfBytes
  <2> HIDE DEF l
  <2>3. LoadBytes(p, "h", l) =
          IF l + 2 > p.bytes THEN {} ELSE {256 * ByteAt(p, l + 0) + ByteAt(p, l + 1)}
    BY WidthOf
  <2> QED BY <1>5, <2>1, <2>2, <2>3
<1>11. LoadBytes(p, "h", l + 2) = IF p.bytes < l + 4 THEN {} ELSE {p.dport}
  <2> DEFINE o == l + 2
  <2>1. o + 2 > p.bytes <=> p.bytes < l + 4
    BY <1>1, SMT
  <2>2. 256 * PortByte(p.dport, 0) + PortByte(p.dport, 1) = p.dport
    BY <1>2, PortOfBytes
  <2>3. ByteAt(p, o + 0) = PortByte(p.dport, 0) /\ ByteAt(p, o + 1) = PortByte(p.dport, 1)
    BY <1>5
  <2> HIDE DEF o
  <2>4. LoadBytes(p, "h", o) = IF o + 2 > p.bytes THEN {} ELSE {256 * ByteAt(p, o + 0) + ByteAt(p, o + 1)}
    BY WidthOf
  <2>5. LoadBytes(p, "h", o) = IF p.bytes < l + 4 THEN {} ELSE {p.dport}
    BY <2>1, <2>2, <2>3, <2>4
  <2> QED BY <2>5 DEF o
<1> QED BY <1>6, <1>7, <1>8, <1>9, <1>10, <1>11

\* What the loads of the tests give: a field, if the bytes are there.
LEMMA LoadsFields ==
  ASSUME NEW p
  PROVE  /\ AddrFlags >= AddrBase /\ AddrIfIdx >= AddrBase /\ AddrSubIfIdx >= AddrBase
         /\ \A k \in 0..100 : ~(k >= AddrBase)
         /\ AddressField(p, AddrFlags) = {FlagsOf(p)}
         /\ AddressField(p, AddrIfIdx) = {p.ifIdx}
         /\ AddressField(p, AddrSubIfIdx) = {p.subIfIdx}
<1>1. Word \in Nat /\ Word > 16777216
  BY WordSize
<1>2. /\ AddrBase = Word - 4096 /\ AddrFlags = Word - 4096 /\ AddrIfIdx = (Word - 4096) + 4
      /\ AddrSubIfIdx = (Word - 4096) + 8 /\ AddrProcessId = (Word - 4096) + 12
      /\ AddrLayer = (Word - 4096) + 16
  BY DEF AddrBase, AddrFlags, AddrIfIdx, AddrSubIfIdx, AddrProcessId, AddrLayer
<1>3. /\ AddrFlags >= AddrBase /\ AddrIfIdx >= AddrBase /\ AddrSubIfIdx >= AddrBase
      /\ \A k \in 0..100 : ~(k >= AddrBase)
      /\ AddrIfIdx # AddrFlags /\ AddrSubIfIdx # AddrFlags /\ AddrSubIfIdx # AddrIfIdx
      /\ AddrProcessId \notin {AddrFlags, AddrIfIdx, AddrSubIfIdx}
      /\ AddrLayer \notin {AddrFlags, AddrIfIdx, AddrSubIfIdx}
  BY <1>1, <1>2, SMT
<1>4. AddressField(p, AddrFlags) = {FlagsOf(p)}
  BY <1>3, SMT DEF AddressField
<1>5. AddressField(p, AddrIfIdx) = {p.ifIdx}
  BY <1>3, SMT DEF AddressField
<1>6. AddressField(p, AddrSubIfIdx) = {p.subIfIdx}
  BY <1>3, SMT DEF AddressField
<1> QED BY <1>3, <1>4, <1>5, <1>6, Zenon

(***************************************************************************)
(* One test: the load, and the jump behind it.                             *)
(***************************************************************************)

LEMMA OutcomeOf ==
  /\ \A p, size, k, o : /\ IsStep(Ld(size, "abs", k))
                        /\ Outcome(p, Ld(size, "abs", k), o) =
                             {<<v, o[2]>> : v \in IF k >= AddrBase THEN AddressField(p, k) ELSE LoadBytes(p, size, k)}
  /\ \A p, size, k, o : /\ IsStep(Ld(size, "ind", k))
                        /\ Outcome(p, Ld(size, "ind", k), o) =
                             {<<v, o[2]>> : v \in LoadBytes(p, size, (o[2] + k) % Word)}
  /\ \A p, k, o : /\ IsStep(Ldx("msh", k))
                  /\ Outcome(p, Ldx("msh", k), o) = {<<o[1], (v % 16) * 4>> : v \in LoadBytes(p, "b", k)}
  /\ \A p, k, o : /\ IsStep(Alu("rsh", "k", k))
                  /\ Outcome(p, Alu("rsh", "k", k), o) = {<<o[1] \div 2^(k % 32), o[2]>>}
<1>1. ASSUME NEW p, NEW size, NEW k, NEW o
      PROVE  /\ IsStep(Ld(size, "abs", k))
             /\ Outcome(p, Ld(size, "abs", k), o) =
                  {<<v, o[2]>> : v \in IF k >= AddrBase THEN AddressField(p, k) ELSE LoadBytes(p, size, k)}
  <2> DEFINE i == Ld(size, "abs", k)
  <2>1. i.class = "ld" /\ i.mode = "abs" /\ i.size = size /\ i.k = k
    BY DEF Ld, Blank
  <2> HIDE DEF i
  <2>2. IsStep(i)
    BY <2>1 DEF IsStep
  <2>3. Outcome(p, i, o) = {<<v, o[2]>> : v \in IF i.k >= AddrBase THEN AddressField(p, i.k) ELSE LoadBytes(p, i.size, i.k)}
    BY <2>1 DEF Outcome
  <2> QED BY <2>1, <2>2, <2>3 DEF i
<1>2. ASSUME NEW p, NEW size, NEW k, NEW o
      PROVE  /\ IsStep(Ld(size, "ind", k))
             /\ Outcome(p, Ld(size, "ind", k), o) = {<<v, o[2]>> : v \in LoadBytes(p, size, (o[2] + k) % Word)}
  <2> DEFINE i == Ld(size, "ind", k)
  <2>1. i.class = "ld" /\ i.mode = "ind" /\ i.size = size /\ i.k = k
    BY DEF Ld, Blank
  <2> HIDE DEF i
  <2>2. IsStep(i)
    BY <2>1 DEF IsStep
  <2>3. Outcome(p, i, o) = {<<v, o[2]>> : v \in LoadBytes(p, i.size, (o[2] + i.k) % Word)}
    BY <2>1 DEF Outcome
  <2> QED BY <2>1, <2>2, <2>3 DEF i
<1>3. ASSUME NEW p, NEW k, NEW o
      PROVE  /\ IsStep(Ldx("msh", k))
             /\ Outcome(p, Ldx("msh", k), o) = {<<o[1], (v % 16) * 4>> : v \in LoadBytes(p, "b", k)}
  <2> DEFINE i == Ldx("msh", k)
  <2>1. i.class = "ldx" /\ i.mode = "msh" /\ i.k = k
    BY DEF Ldx, Blank
  <2> HIDE DEF i
  <2>2. IsStep(i)
    BY <2>1 DEF IsStep
  <2>3. Outcome(p, i, o) = {<<o[1], (v % 16) * 4>> : v \in LoadBytes(p, "b", i.k)}
    BY <2>1 DEF Outcome
  <2> QED BY <2>1, <2>2, <2>3 DEF i
<1>4. ASSUME NEW p, NEW k, NEW o
      PROVE  /\ IsStep(Alu("rsh", "k", k))
             /\ Outcome(p, Alu("rsh", "k", k), o) = {<<o[1] \div 2^(k % 32), o[2]>>}
  <2> DEFINE i == Alu("rsh", "k", k)
  <2>1. i.class = "alu" /\ i.op = "rsh" /\ i.src = "k" /\ i.k = k
    BY DEF Alu, Blank
  <2> HIDE DEF i
  <2>2. IsStep(i)
    BY <2>1 DEF IsStep
  <2>3. Outcome(p, i, o) = {<<o[1] \div 2^(i.k % 32), o[2]>>}
    BY <2>1 DEF Outcome
  <2> QED BY <2>1, <2>2, <2>3 DEF i
<1> QED BY <1>1, <1>2, <1>3, <1>4, Zenon

LEMMA LoadLeads ==
  ASSUME NEW p, NEW L, NEW i, IsStep(i), NEW X, NEW need, NEW val,
         \A o \in Nat \X X : Loaded(p, i, o, OneOf(p, need, val))
  PROVE  /\ \A r : ~(p.bytes < need) => Leads(p, L, Plain(i), <<Nat \X X, r>>, <<{val} \X X, r>>)
         /\ p.bytes < need => Leads(p, L, Plain(i), <<Nat \X X, 0>>, <<{}, 0>>)
<1>1. ASSUME NEW r, ~(p.bytes < need)
      PROVE  LeadsOn(p, i, <<Nat \X X, r>>, <<{val} \X X, r>>)
  <2> SUFFICES ASSUME NEW o \in Nat \X X
               PROVE  /\ Outcome(p, i, o) # {}
                      /\ \A q \in Outcome(p, i, o) : q \in {val} \X X
    BY DEF LeadsOn
  <2>1. Outcome(p, i, o) = {<<v, o[2]>> : v \in {val}}
    BY <1>1 DEF Loaded, OneOf
  <2>2. <<val, o[2]>> \in Outcome(p, i, o) /\ \A q \in Outcome(p, i, o) : q = <<val, o[2]>>
    BY <2>1
  <2>3. o[2] \in X
    OBVIOUS
  <2>4. <<val, o[2]>> \in {val} \X X
    BY <2>3
  <2> QED BY <2>2, <2>4
<1>2. ASSUME p.bytes < need
      PROVE  LeadsOn(p, i, <<Nat \X X, 0>>, <<{}, 0>>)
  <2> SUFFICES ASSUME NEW o \in Nat \X X
               PROVE  Outcome(p, i, o) = {}
    BY DEF LeadsOn
  <2>1. Outcome(p, i, o) = {<<v, o[2]>> : v \in {}}
    BY <1>2 DEF Loaded, OneOf
  <2> QED BY <2>1
<1> QED BY <1>1, <1>2, Zenon DEF Leads

LEMMA GetsOne ==
  ASSUME NEW p, NEW i, IsStep(i), NEW X, NEW need, NEW val \in Nat,
         \A o \in Nat \X X : Loaded(p, i, o, OneOf(p, need, val))
  PROVE  Gets(p, <<Plain(i)>>, X, need, val)
<1>1. \A L, r : ~(p.bytes < need) => Leads(p, L, Plain(i), <<Nat \X X, r>>, <<{val} \X X, r>>)
  BY LoadLeads, Zenon
<1>2. \A L : p.bytes < need => Leads(p, L, Plain(i), <<Nat \X X, 0>>, <<{}, 0>>)
  BY LoadLeads, Zenon
<1> QED BY <1>1, <1>2, BehindOne, Zenon DEF Gets

LEMMA GetsAbs ==
  ASSUME NEW p, NEW size, NEW k, NEW X, NEW need, NEW val \in Nat,
         (IF k >= AddrBase THEN AddressField(p, k) ELSE LoadBytes(p, size, k)) = OneOf(p, need, val)
  PROVE  Gets(p, <<Plain(Ld(size, "abs", k))>>, X, need, val)
<1> DEFINE i == Ld(size, "abs", k)
           V == IF k >= AddrBase THEN AddressField(p, k) ELSE LoadBytes(p, size, k)
<1>5. IsStep(i)
  BY OutcomeOf
<1>6. ASSUME NEW o PROVE Outcome(p, i, o) = {<<v, o[2]>> : v \in V}
  BY OutcomeOf
<1>1. IsStep(i) /\ \A o : Outcome(p, i, o) = {<<v, o[2]>> : v \in V}
  BY <1>5, <1>6
<1>2. V = OneOf(p, need, val)
  OBVIOUS
<1> HIDE DEF i, V
<1>3. \A o : Loaded(p, i, o, OneOf(p, need, val))
  BY <1>1, <1>2, Zenon DEF Loaded
<1>4. Gets(p, <<Plain(i)>>, X, need, val)
  BY <1>1, <1>3, GetsOne, Zenon
<1> QED BY <1>4, Zenon DEF i

LEMMA NothingLeads ==
  ASSUME NEW p, NEW L, NEW i, IsStep(i)
  PROVE  Leads(p, L, Plain(i), <<{}, 0>>, <<{}, 0>>)
<1>1. LeadsOn(p, i, <<{}, 0>>, <<{}, 0>>)
  BY DEF LeadsOn
<1> QED BY <1>1, Zenon DEF Leads

LEMMA GetsVersion ==
  ASSUME NEW p \in Packets, NEW X
  PROVE  Gets(p, <<Plain(Ld("b", "abs", 0)), Plain(Alu("rsh", "k", 4))>>, X, 1, p.version)
<1> DEFINE i == Ld("b", "abs", 0)
           j == Alu("rsh", "k", 4)
           w == 16 * p.version + p.ihl
<1>1. p.version \in 0..15 /\ p.ihl \in 5..15 /\ p.version \in Nat /\ w \in Nat /\ w \div 16 = p.version
  <2>1. p.version \in 0..15 /\ p.ihl \in 5..15
    BY PacketSize
  <2> QED BY <2>1, SMT
<1>2. Gets(p, <<Plain(i)>>, X, 1, w)
  <2>1. ~(0 >= AddrBase)
    BY LoadsFields, SMT
  <2>2. LoadBytes(p, "b", 0) = OneOf(p, 1, w)
    BY LoadsBytes DEF OneOf
  <2>3. (IF 0 >= AddrBase THEN AddressField(p, 0) ELSE LoadBytes(p, "b", 0)) = OneOf(p, 1, w)
    BY <2>1, <2>2
  <2> HIDE DEF w
  <2> QED BY <1>1, <2>3, GetsAbs
<1>11. IsStep(i)
  BY OutcomeOf
<1>12. IsStep(j)
  BY OutcomeOf
<1>14. ASSUME NEW k, NEW o PROVE Outcome(p, Alu("rsh", "k", k), o) = {<<o[1] \div 2^(k % 32), o[2]>>}
  BY OutcomeOf
<1>13. ASSUME NEW o PROVE Outcome(p, j, o) = {<<o[1] \div 2^(4 % 32), o[2]>>}
  BY <1>14, Zenon
<1>3. IsStep(i) /\ IsStep(j) /\ \A o : Outcome(p, j, o) = {<<o[1] \div 2^(4 % 32), o[2]>>}
  BY <1>11, <1>12, <1>13
<1>4. 2^(4 % 32) = 16
  BY SMT
<1>5. \A L, r : Leads(p, L, Plain(j), <<{w} \X X, r>>, <<{p.version} \X X, r>>)
  <2> SUFFICES ASSUME NEW L, NEW r
               PROVE  LeadsOn(p, j, <<{w} \X X, r>>, <<{p.version} \X X, r>>)
    BY <1>3, Zenon DEF Leads
  <2> SUFFICES ASSUME NEW o \in {w} \X X
               PROVE  /\ Outcome(p, j, o) # {}
                      /\ \A q \in Outcome(p, j, o) : q \in {p.version} \X X
    BY DEF LeadsOn
  <2> HIDE DEF w, i, j
  <2>1. o[1] = w /\ o[2] \in X
    OBVIOUS
  <2>2. Outcome(p, j, o) = {<<p.version, o[2]>>}
    BY <1>1, <1>3, <1>4, <2>1
  <2>3. <<p.version, o[2]>> \in {p.version} \X X
    BY <2>1
  <2> QED BY <2>2, <2>3
<1>6. <<Plain(i), Plain(j)>> = Append(<<Plain(i)>>, Plain(j)) /\ <<Plain(i)>> \in Seq({Plain(i)})
  <2> HIDE DEF i, j
  <2> QED OBVIOUS
<1> HIDE DEF i, j, w
<1>7. ASSUME NEW L, NEW r, ~(p.bytes < 1)
      PROVE  Behind(p, L, Append(<<Plain(i)>>, Plain(j)), <<Nat \X X, r>>, <<{p.version} \X X, r>>)
  <2>1. Behind(p, L, <<Plain(i)>>, <<Nat \X X, r>>, <<{w} \X X, r>>)
    BY <1>2, <1>7, Zenon DEF Gets
  <2>2. Leads(p, L, Plain(j), <<{w} \X X, r>>, <<{p.version} \X X, r>>)
    BY <1>5, Zenon
  <2> QED BY <1>6, <2>1, <2>2, BehindPush
<1>8. ASSUME NEW L, p.bytes < 1
      PROVE  Behind(p, L, Append(<<Plain(i)>>, Plain(j)), <<Nat \X X, 0>>, <<{}, 0>>)
  <2>1. Behind(p, L, <<Plain(i)>>, <<Nat \X X, 0>>, <<{}, 0>>)
    BY <1>2, <1>8, Zenon DEF Gets
  <2>2. Leads(p, L, Plain(j), <<{}, 0>>, <<{}, 0>>)
    BY <1>3, NothingLeads
  <2> QED BY <1>6, <2>1, <2>2, BehindPush
<1>9. Gets(p, Append(<<Plain(i)>>, Plain(j)), X, 1, p.version)
  BY <1>1, <1>7, <1>8, Zenon DEF Gets
<1>10. Gets(p, <<Plain(i), Plain(j)>>, X, 1, p.version)
  BY <1>6, <1>9
<1> QED BY <1>10, Zenon DEF i, j

\* The ports are behind a header of any length.
LEMMA GetsPort ==
  ASSUME NEW p \in Packets
  PROVE  /\ Gets(p, <<Plain(Ld("h", "ind", 0))>>, {4 * p.ihl}, 4 * p.ihl + 2, p.sport)
         /\ Gets(p, <<Plain(Ld("h", "ind", 2))>>, {4 * p.ihl}, 4 * p.ihl + 4, p.dport)
<1> DEFINE l == 4 * p.ihl
<1>1. l \in 20..60 /\ p.sport \in Nat /\ p.dport \in Nat
  BY PacketSize
<1>2. (l + 0) % Word = l /\ (l + 2) % Word = l + 2
  BY <1>1, WordSize, SMT
<1>3. /\ LoadBytes(p, "h", l) = OneOf(p, l + 2, p.sport)
      /\ LoadBytes(p, "h", l + 2) = OneOf(p, l + 4, p.dport)
  BY LoadsBytes DEF OneOf
<1> HIDE DEF l
<1>4. ASSUME NEW k, NEW need, NEW val \in Nat, LoadBytes(p, "h", (l + k) % Word) = OneOf(p, need, val)
      PROVE  Gets(p, <<Plain(Ld("h", "ind", k))>>, {l}, need, val)
  <2> DEFINE i == Ld("h", "ind", k)
  <2>1. IsStep(i)
    BY OutcomeOf
  <2>2. ASSUME NEW o \in Nat \X {l} PROVE Loaded(p, i, o, OneOf(p, need, val))
    <3>1. o[2] = l
      OBVIOUS
    <3>2. Outcome(p, i, o) = {<<v, o[2]>> : v \in LoadBytes(p, "h", (o[2] + k) % Word)}
      BY OutcomeOf
    <3>3. LoadBytes(p, "h", (o[2] + k) % Word) = OneOf(p, need, val)
      BY <1>4, <3>1
    <3> HIDE DEF i
    <3> QED BY <3>2, <3>3, Zenon DEF Loaded
  <2> HIDE DEF i
  <2>3. Gets(p, <<Plain(i)>>, {l}, need, val)
    BY <2>1, <2>2, GetsOne, Zenon
  <2> QED BY <2>3, Zenon DEF i
<1>5. LoadBytes(p, "h", (l + 0) % Word) = OneOf(p, l + 2, p.sport)
  BY <1>2, <1>3
<1>6. LoadBytes(p, "h", (l + 2) % Word) = OneOf(p, l + 4, p.dport)
  BY <1>2, <1>3
<1>7. Gets(p, <<Plain(Ld("h", "ind", 0))>>, {l}, l + 2, p.sport)
  BY <1>1, <1>4, <1>5, Zenon
<1>8. Gets(p, <<Plain(Ld("h", "ind", 2))>>, {l}, l + 4, p.dport)
  BY <1>1, <1>4, <1>6, Zenon
<1> QED BY <1>7, <1>8, Zenon DEF l

\* Before a test of a port, the length of the header is put into x.
LEMMA PreludeLeads ==
  ASSUME NEW p \in Packets, NEW L, NEW r, p.bytes < 1 => r = 0
  PROVE  Behind(p, L, <<Plain(Ldx("msh", 0))>>, <<Everywhere, r>>, <<Nat \X {4 * p.ihl}, r>>)
<1> DEFINE i == Ldx("msh", 0)
           l == 4 * p.ihl
           w == 16 * p.version + p.ihl
<1>1. (w % 16) * 4 = l
  <2>1. p.version \in 0..15 /\ p.ihl \in 5..15
    BY PacketSize
  <2> QED BY <2>1, SMT
<1>2. IsStep(i) /\ \A o : Outcome(p, i, o) = {<<o[1], (v % 16) * 4>> : v \in LoadBytes(p, "b", 0)}
  BY OutcomeOf
<1>3. LoadBytes(p, "b", 0) = IF p.bytes < 1 THEN {} ELSE {w}
  BY LoadsBytes
<1> HIDE DEF i, l, w
<1>4. LeadsOn(p, i, <<Everywhere, r>>, <<Nat \X {l}, r>>)
  <2> SUFFICES ASSUME NEW o \in Nat \X Nat
               PROVE  /\ Outcome(p, i, o) = {} => r = 0
                      /\ \A q \in Outcome(p, i, o) : q \in Nat \X {l}
    BY DEF LeadsOn, Everywhere
  <2>1. CASE p.bytes < 1
    <3>1. LoadBytes(p, "b", 0) = {}
      BY <1>3, <2>1
    <3>2. Outcome(p, i, o) = {}
      BY <1>2, <3>1
    <3> QED BY <2>1, <3>2
  <2>2. CASE ~(p.bytes < 1)
    <3>1. LoadBytes(p, "b", 0) = {w}
      BY <1>3, <2>2
    <3>2. Outcome(p, i, o) = {<<o[1], (w % 16) * 4>>}
      BY <1>2, <3>1
    <3>3. o[1] \in Nat
      OBVIOUS
    <3> QED BY <1>1, <3>2, <3>3
  <2> QED BY <2>1, <2>2
<1>5. Leads(p, L, Plain(i), <<Everywhere, r>>, <<Nat \X {l}, r>>)
  BY <1>2, <1>4, Zenon DEF Leads
<1>6. Behind(p, L, <<Plain(i)>>, <<Everywhere, r>>, <<Nat \X {l}, r>>)
  BY <1>5, BehindOne
<1> QED BY <1>6, Zenon DEF i, l

\* The jump of a test, by what it compares.
LEMMA ConditionOf ==
  ASSUME NEW e, NEW t, NEW f
  PROVE  /\ e.op = "inbound" => Condition(e, t, f) = JmpCond("jset", Flag[e.op], f, t)
         /\ e.op \in {"outbound", "loopback", "impostor"} => Condition(e, t, f) = JmpCond("jset", Flag[e.op], t, f)
         /\ e.op \notin {"inbound", "outbound", "loopback", "impostor"} =>
              Condition(e, t, f) = JmpCond("jeq", Key(e), t, f)
<1>1. e.op = "inbound" => Condition(e, t, f) = JmpCond("jset", Flag[e.op], f, t)
  <2>1. Flag.inbound = Flag["inbound"]
    OBVIOUS
  <2> QED BY <2>1 DEF Condition
<1>2. e.op \in {"outbound", "loopback", "impostor"} => Condition(e, t, f) = JmpCond("jset", Flag[e.op], t, f)
  BY DEF Condition
<1>3. e.op \notin {"inbound", "outbound", "loopback", "impostor"} =>
              Condition(e, t, f) = JmpCond("jeq", Key(e), t, f)
  BY DEF Condition, Key
<1> QED BY <1>1, <1>2, <1>3

LEMMA JumpLeads ==
  ASSUME NEW p, NEW L, NEW op, op = "jeq" \/ op = "jset", NEW k, NEW t, NEW f, NEW G, NEW r, NEW h,
         Jumps(L, op, k, t, f, G, r)
  PROVE  Leads(p, L, JmpCond(op, k, t, f), <<G, r>>, h)
<1>1. <<G, r>>[1] = G /\ <<G, r>>[2] = r /\ op \in {"jeq", "jset"}
  OBVIOUS
<1> DEFINE g == <<G, r>>
<1>2. g[1] = G /\ g[2] = r
  OBVIOUS
<1> HIDE DEF g
<1>3. \A o \in g[1] : IF Holds(op, o[1], k) THEN JumpsTo(L, t, o, g[2]) ELSE JumpsTo(L, f, o, g[2])
  BY <1>2 DEF Jumps
<1>4. Leads(p, L, JmpCond(op, k, t, f), g, h)
  BY <1>1, <1>3, Zenon DEF Leads
<1> QED BY <1>4, Zenon DEF g

\* A jump decides as its test does.
LEMMA Decides ==
  ASSUME NEW p, NEW L, NEW e, NEW t, NEW f, NEW val, NEW X, NEW h, NEW A, NEW B, NEW y, NEW z,
         L[t] = <<A, y>>, L[f] = <<B, z>>, \A o \in {val} \X X : o \in A /\ o \in B
  PROVE  Leads(p, L, Condition(e, t, f), <<{val} \X X, To(Verdict(e, val), y, z)>>, h)
<1> DEFINE r == To(Verdict(e, val), y, z)
           G == {val} \X X
<1>1. \A o \in G : o[1] = val /\ o \in A /\ o \in B
  OBVIOUS
<1>2. \A o \in A : JumpsTo(L, t, o, y)
  BY DEF JumpsTo
<1>3. \A o \in B : JumpsTo(L, f, o, z)
  BY DEF JumpsTo
<1>4. To("yes", y, z) = y /\ To("no", y, z) = z
  BY DEF To
<1>5. Verdict(e, val) = "yes" => r = y
  BY <1>4
<1>6. Verdict(e, val) = "no" => r = z
  BY <1>4
<1>7. \A k : Holds("jset", val, k) <=> BitAnd(val, k) # 0
  BY DEF Holds
<1>8. \A k : Holds("jeq", val, k) <=> val = k
  BY DEF Holds
<1>9. "yes" # "no"
  OBVIOUS
<1> HIDE DEF r, G
<1>11. CASE e.op = "inbound"
  <2>1. Condition(e, t, f) = JmpCond("jset", Flag[e.op], f, t)
    BY <1>11, ConditionOf, Zenon
  <2>2. Verdict(e, val) = IF BitAnd(val, Flag[e.op]) # 0 THEN "no" ELSE "yes"
    BY <1>11, Zenon DEF Verdict, Set
  <2>3. Jumps(L, "jset", Flag[e.op], f, t, G, r)
    BY <1>1, <1>2, <1>3, <1>5, <1>6, <1>7, <2>2, <1>9, Zenon DEF Jumps
  <2>4. Leads(p, L, JmpCond("jset", Flag[e.op], f, t), <<G, r>>, h)
    BY <2>3, JumpLeads
  <2>5. Leads(p, L, Condition(e, t, f), <<G, r>>, h)
    BY <2>1, <2>4
  <2> QED BY <2>5, Zenon DEF G, r
<1>12. CASE e.op \in {"outbound", "loopback", "impostor"}
  <2>1. Condition(e, t, f) = JmpCond("jset", Flag[e.op], t, f)
    BY <1>12, ConditionOf, Zenon
  <2>2. Verdict(e, val) = IF BitAnd(val, Flag[e.op]) # 0 THEN "yes" ELSE "no"
    <3>1. e.op # "inbound"
      BY <1>12
    <3> QED BY <1>12, <3>1, Zenon DEF Verdict, Set
  <2>3. Jumps(L, "jset", Flag[e.op], t, f, G, r)
    BY <1>1, <1>2, <1>3, <1>5, <1>6, <1>7, <2>2, <1>9, Zenon DEF Jumps
  <2>4. Leads(p, L, JmpCond("jset", Flag[e.op], t, f), <<G, r>>, h)
    BY <2>3, JumpLeads
  <2>5. Leads(p, L, Condition(e, t, f), <<G, r>>, h)
    BY <2>1, <2>4
  <2> QED BY <2>5, Zenon DEF G, r
<1>13. CASE e.op \notin {"inbound", "outbound", "loopback", "impostor"}
  <2>1. Condition(e, t, f) = JmpCond("jeq", Key(e), t, f)
    BY <1>13, ConditionOf, Zenon
  <2>2. Verdict(e, val) = IF val = Key(e) THEN "yes" ELSE "no"
    BY <1>13, Zenon DEF Verdict
  <2>3. Jumps(L, "jeq", Key(e), t, f, G, r)
    BY <1>1, <1>2, <1>3, <1>5, <1>6, <1>8, <2>2, <1>9, Zenon DEF Jumps
  <2>4. Leads(p, L, JmpCond("jeq", Key(e), t, f), <<G, r>>, h)
    BY <2>3, JumpLeads
  <2>5. Leads(p, L, Condition(e, t, f), <<G, r>>, h)
    BY <2>1, <2>4
  <2> QED BY <2>5, Zenon DEF G, r
<1> QED BY <1>11, <1>12, <1>13

LEMMA NothingDecides ==
  ASSUME NEW p, NEW L, NEW e, NEW t, NEW f, NEW h
  PROVE  Leads(p, L, Condition(e, t, f), <<{}, 0>>, h)
<1>1. \A op, k, t1, f1 : Jumps(L, op, k, t1, f1, {}, 0)
  BY DEF Jumps
<1>2. CASE e.op = "inbound"
  <2>1. Leads(p, L, JmpCond("jset", Flag[e.op], f, t), <<{}, 0>>, h)
    BY <1>1, JumpLeads
  <2> QED BY <1>2, <2>1, ConditionOf
<1>3. CASE e.op \in {"outbound", "loopback", "impostor"}
  <2>1. Leads(p, L, JmpCond("jset", Flag[e.op], t, f), <<{}, 0>>, h)
    BY <1>1, JumpLeads
  <2> QED BY <1>3, <2>1, ConditionOf
<1>4. CASE e.op \notin {"inbound", "outbound", "loopback", "impostor"}
  <2>1. Leads(p, L, JmpCond("jeq", Key(e), t, f), <<{}, 0>>, h)
    BY <1>1, JumpLeads
  <2> QED BY <1>4, <2>1, ConditionOf
<1> QED BY <1>2, <1>3, <1>4

LEMMA ShortListing ==
  ASSUME NEW s, Short(s)
  PROVE  Listing(s)
<1>1. CASE \E i : s = <<Plain(i)>>
  <2> PICK i : s = <<Plain(i)>>
    BY <1>1
  <2> DEFINE c == Plain(i)
  <2>1. s = <<c>>
    OBVIOUS
  <2> HIDE DEF c
  <2>2. s \in Seq({c})
    BY <2>1
  <2> QED BY <2>2, Zenon DEF Listing
<1>2. CASE \E i, j : s = <<Plain(i), Plain(j)>>
  <2> PICK i, j : s = <<Plain(i), Plain(j)>>
    BY <1>2
  <2> DEFINE c == Plain(i)
             d == Plain(j)
  <2>1. s = <<c, d>>
    OBVIOUS
  <2> HIDE DEF c, d
  <2>2. s \in Seq({c, d})
    BY <2>1
  <2> QED BY <2>2, Zenon DEF Listing
<1> QED BY <1>1, <1>2, Zenon DEF Short

\* A load and the jump behind it.
LEMMA SideLeads ==
  ASSUME NEW p, NEW s, Short(s), NEW X, NEW need, NEW val, Gets(p, s, X, need, val),
         NEW L, NEW e, NEW t, NEW f, NEW h, NEW A, NEW B, NEW y, NEW z,
         L[t] = <<A, y>>, L[f] = <<B, z>>, \A o \in {val} \X X : o \in A /\ o \in B
  PROVE  Behind(p, L, Append(s, Condition(e, t, f)),
                <<Nat \X X, To(Result(p, need, Verdict(e, val)), y, z)>>, h)
<1>1. PICK S : s \in Seq(S)
  BY ShortListing, Zenon DEF Listing
<1>2. CASE p.bytes < need
  <2>1. To(Result(p, need, Verdict(e, val)), y, z) = 0
    BY <1>2 DEF Result, To
  <2>2. Behind(p, L, s, <<Nat \X X, 0>>, <<{}, 0>>)
    BY <1>2, Zenon DEF Gets
  <2>3. Leads(p, L, Condition(e, t, f), <<{}, 0>>, h)
    BY NothingDecides
  <2>4. Behind(p, L, Append(s, Condition(e, t, f)), <<Nat \X X, 0>>, h)
    BY <1>1, <2>2, <2>3, BehindPush
  <2> QED BY <2>1, <2>4
<1>3. CASE ~(p.bytes < need)
  <2> DEFINE r == To(Verdict(e, val), y, z)
  <2>1. To(Result(p, need, Verdict(e, val)), y, z) = r
    BY <1>3 DEF Result
  <2>3. Leads(p, L, Condition(e, t, f), <<{val} \X X, r>>, h)
    BY Decides
  <2> HIDE DEF r
  <2>2. Behind(p, L, s, <<Nat \X X, r>>, <<{val} \X X, r>>)
    BY <1>3, Zenon DEF Gets
  <2>4. Behind(p, L, Append(s, Condition(e, t, f)), <<Nat \X X, r>>, h)
    BY <1>1, <2>2, <2>3, BehindPush
  <2> QED BY <2>1, <2>4
<1> QED BY <1>2, <1>3

LEMMA LoadsOf ==
  ASSUME NEW e
  PROVE  /\ e.op \in {"tcp", "udp", "icmp"} => Loads(e) = <<<<Plain(Ld("b", "abs", 9))>>>>
         /\ e.op = "ip" => Loads(e) = <<<<Plain(Ld("b", "abs", 0)), Plain(Alu("rsh", "k", 4))>>>>
         /\ e.op = "host" => Loads(e) = OfDir(e, <<Plain(Ld("w", "abs", 12))>>, <<Plain(Ld("w", "abs", 16))>>)
         /\ e.op = "port" => Loads(e) = OfDir(e, <<Plain(Ld("h", "ind", 0))>>, <<Plain(Ld("h", "ind", 2))>>)
         /\ e.op = "ifindex" => Loads(e) = <<<<Plain(Ld("w", "abs", AddrIfIdx))>>>>
         /\ e.op = "sub_ifindex" => Loads(e) = <<<<Plain(Ld("w", "abs", AddrSubIfIdx))>>>>
         /\ e.op \in {"inbound", "outbound", "loopback", "impostor"} =>
              Loads(e) = <<<<Plain(Ld("w", "abs", AddrFlags))>>>>
<1>1. e.op \in {"tcp", "udp", "icmp"} => Loads(e) = <<<<Plain(Ld("b", "abs", 9))>>>>
  BY DEF Loads
<1>2. e.op = "ip" => Loads(e) = <<<<Plain(Ld("b", "abs", 0)), Plain(Alu("rsh", "k", 4))>>>>
  BY DEF Loads
<1>3. e.op = "host" => Loads(e) = OfDir(e, <<Plain(Ld("w", "abs", 12))>>, <<Plain(Ld("w", "abs", 16))>>)
  BY DEF Loads
<1>4. e.op = "port" => Loads(e) = OfDir(e, <<Plain(Ld("h", "ind", 0))>>, <<Plain(Ld("h", "ind", 2))>>)
  BY DEF Loads
<1>5. e.op = "ifindex" => Loads(e) = <<<<Plain(Ld("w", "abs", AddrIfIdx))>>>>
  BY DEF Loads
<1>6. e.op = "sub_ifindex" => Loads(e) = <<<<Plain(Ld("w", "abs", AddrSubIfIdx))>>>>
  BY DEF Loads
<1>7. e.op \in {"inbound", "outbound", "loopback", "impostor"} =>
              Loads(e) = <<<<Plain(Ld("w", "abs", AddrFlags))>>>>
  BY DEF Loads
<1> QED BY <1>1, <1>2, <1>3, <1>4, <1>5, <1>6, <1>7, Zenon

LEMMA OfDirCases ==
  ASSUME NEW e, NEW s, NEW d
  PROVE  /\ e.dir = "src" => OfDir(e, s, d) = <<s>>
         /\ e.dir = "dst" => OfDir(e, s, d) = <<d>>
         /\ e.dir \notin {"src", "dst"} => OfDir(e, s, d) = <<s, d>>
BY DEF OfDir

\* The tests, one by one.
LEMMA TestCases ==
  ASSUME NEW e, e.op \in Tests
  PROVE  e.op \in {"tcp", "udp", "icmp", "ip", "host", "port", "ifindex", "sub_ifindex",
                   "inbound", "outbound", "loopback", "impostor"}
BY DEF Tests, Simple, WithArgument

\* A test has one short load, or two of one instruction.
LEMMA LoadsShape ==
  ASSUME NEW e, e.op \in Tests
  PROVE  \/ Len(Loads(e)) = 1 /\ Short(Loads(e)[1])
         \/ Len(Loads(e)) = 2 /\ One(Loads(e)[1]) /\ One(Loads(e)[2])
<1>1. \A s : Len(<<s>>) = 1 /\ <<s>>[1] = s
  OBVIOUS
<1>2. \A s, d : Len(<<s, d>>) = 2 /\ <<s, d>>[1] = s /\ <<s, d>>[2] = d
  OBVIOUS
<1>3. \A i : Short(<<Plain(i)>>) /\ One(<<Plain(i)>>)
  BY Zenon DEF Short, One
<1>4. \A i, j : Short(<<Plain(i), Plain(j)>>)
  BY Zenon DEF Short
<1>5. \A s, d : Loads(e) = OfDir(e, s, d) /\ One(s) /\ One(d) =>
         \/ Len(Loads(e)) = 1 /\ Short(Loads(e)[1])
         \/ Len(Loads(e)) = 2 /\ One(Loads(e)[1]) /\ One(Loads(e)[2])
  <2> SUFFICES ASSUME NEW s, NEW d, Loads(e) = OfDir(e, s, d), One(s), One(d)
               PROVE  \/ Len(Loads(e)) = 1 /\ Short(Loads(e)[1])
                      \/ Len(Loads(e)) = 2 /\ One(Loads(e)[1]) /\ One(Loads(e)[2])
    OBVIOUS
  <2>1. Short(s) /\ Short(d)
    BY Zenon DEF One, Short
  <2>2. Loads(e) = <<s>> \/ Loads(e) = <<d>> \/ Loads(e) = <<s, d>>
    BY OfDirCases
  <2>3. CASE Loads(e) = <<s>>
    BY <1>1, <2>1, <2>3
  <2>4. CASE Loads(e) = <<d>>
    BY <1>1, <2>1, <2>4
  <2>5. CASE Loads(e) = <<s, d>>
    BY <1>2, <2>5
  <2> QED BY <2>2, <2>3, <2>4, <2>5
<1>6. \A s : Loads(e) = <<s>> /\ Short(s) => Len(Loads(e)) = 1 /\ Short(Loads(e)[1])
  BY <1>1
<1>7. CASE e.op \in {"tcp", "udp", "icmp"}
  BY <1>3, <1>6, <1>7, LoadsOf, Zenon
<1>8. CASE e.op = "ip"
  BY <1>4, <1>6, <1>8, LoadsOf, Zenon
<1>9. CASE e.op = "host"
  BY <1>3, <1>5, <1>9, LoadsOf, Zenon
<1>10. CASE e.op = "port"
  BY <1>3, <1>5, <1>10, LoadsOf, Zenon
<1>11. CASE e.op = "ifindex"
  BY <1>3, <1>6, <1>11, LoadsOf, Zenon
<1>12. CASE e.op = "sub_ifindex"
  BY <1>3, <1>6, <1>12, LoadsOf, Zenon
<1>13. CASE e.op \in {"inbound", "outbound", "loopback", "impostor"}
  BY <1>3, <1>6, <1>13, LoadsOf, Zenon
<1> QED BY <1>7, <1>8, <1>9, <1>10, <1>11, <1>12, <1>13, TestCases

LEMMA PreludeShape ==
  ASSUME NEW e
  PROVE  /\ Prelude(e) = <<>> \/ One(Prelude(e))
         /\ e.op = "port" => Prelude(e) = <<Plain(Ldx("msh", 0))>>
         /\ e.op # "port" => Prelude(e) = <<>>
BY Zenon DEF Prelude, One

LEMMA EntersPlainly ==
  ASSUME NEW p, NEW e, e.op # "port", NEW need
  PROVE  Enters(p, e, Nat, need)
<1>1. Prelude(e) = <<>>
  BY PreludeShape
<1>2. \A L, r : Behind(p, L, <<>>, <<Everywhere, r>>, <<Nat \X Nat, r>>)
  BY BehindNone DEF Everywhere
<1> QED BY <1>1, <1>2, Zenon DEF Enters

LEMMA EntersPort ==
  ASSUME NEW p \in Packets, NEW e, e.op = "port", NEW need \in Nat, need >= 1
  PROVE  Enters(p, e, {4 * p.ihl}, need)
<1> DEFINE l == 4 * p.ihl
<1>1. Prelude(e) = <<Plain(Ldx("msh", 0))>>
  BY PreludeShape
<1>2. p.bytes \in Nat /\ l \in 20..60
  BY PacketSize
<1>3. p.bytes < 1 => p.bytes < need
  BY <1>2, SMT
<1>4. \A L, r : (p.bytes < 1 => r = 0) =>
        Behind(p, L, <<Plain(Ldx("msh", 0))>>, <<Everywhere, r>>, <<Nat \X {l}, r>>)
  BY PreludeLeads, Zenon
<1>5. {l} \subseteq Nat
  BY <1>2
<1> HIDE DEF l
<1>6. \A L, r : (p.bytes < need => r = 0) => Behind(p, L, Prelude(e), <<Everywhere, r>>, <<Nat \X {l}, r>>)
  BY <1>1, <1>3, <1>4
<1>7. Enters(p, e, {l}, need)
  BY <1>5, <1>6, Zenon DEF Enters
<1> QED BY <1>7, Zenon DEF l

LEMMA GetsAll ==
  ASSUME NEW p \in Packets
  PROVE  /\ Gets(p, <<Plain(Ld("b", "abs", 9))>>, Nat, 10, p.proto)
         /\ Gets(p, <<Plain(Ld("w", "abs", 12))>>, Nat, 16, p.src)
         /\ Gets(p, <<Plain(Ld("w", "abs", 16))>>, Nat, 20, p.dst)
         /\ Gets(p, <<Plain(Ld("w", "abs", AddrIfIdx))>>, Nat, 0, p.ifIdx)
         /\ Gets(p, <<Plain(Ld("w", "abs", AddrSubIfIdx))>>, Nat, 0, p.subIfIdx)
         /\ Gets(p, <<Plain(Ld("w", "abs", AddrFlags))>>, Nat, 0, FlagsOf(p))
<1>1. /\ p.proto \in Nat /\ p.src \in Nat /\ p.dst \in Nat /\ p.ifIdx \in Nat /\ p.subIfIdx \in Nat
      /\ p.bytes \in Nat /\ FlagsOf(p) \in Nat
  BY PacketSize, FlagBits
<1>2. ~(p.bytes < 0)
  BY <1>1, SMT
<1>3. \A val : OneOf(p, 0, val) = {val}
  BY <1>2, Zenon DEF OneOf
<1>4. ~(9 >= AddrBase) /\ ~(12 >= AddrBase) /\ ~(16 >= AddrBase)
  BY LoadsFields, SMT
<1>5. /\ AddrFlags >= AddrBase /\ AddrIfIdx >= AddrBase /\ AddrSubIfIdx >= AddrBase
      /\ AddressField(p, AddrFlags) = {FlagsOf(p)}
      /\ AddressField(p, AddrIfIdx) = {p.ifIdx}
      /\ AddressField(p, AddrSubIfIdx) = {p.subIfIdx}
  BY LoadsFields
<1>6. /\ LoadBytes(p, "b", 9) = OneOf(p, 10, p.proto)
      /\ LoadBytes(p, "w", 12) = OneOf(p, 16, p.src)
      /\ LoadBytes(p, "w", 16) = OneOf(p, 20, p.dst)
  BY LoadsBytes DEF OneOf
<1>7. Gets(p, <<Plain(Ld("b", "abs", 9))>>, Nat, 10, p.proto)
  <2>1. (IF 9 >= AddrBase THEN AddressField(p, 9) ELSE LoadBytes(p, "b", 9)) = OneOf(p, 10, p.proto)
    BY <1>4, <1>6
  <2> QED BY <1>1, <2>1, GetsAbs
<1>8. Gets(p, <<Plain(Ld("w", "abs", 12))>>, Nat, 16, p.src)
  <2>1. (IF 12 >= AddrBase THEN AddressField(p, 12) ELSE LoadBytes(p, "w", 12)) = OneOf(p, 16, p.src)
    BY <1>4, <1>6
  <2> QED BY <1>1, <2>1, GetsAbs
<1>9. Gets(p, <<Plain(Ld("w", "abs", 16))>>, Nat, 20, p.dst)
  <2>1. (IF 16 >= AddrBase THEN AddressField(p, 16) ELSE LoadBytes(p, "w", 16)) = OneOf(p, 20, p.dst)
    BY <1>4, <1>6
  <2> QED BY <1>1, <2>1, GetsAbs
<1>10. Gets(p, <<Plain(Ld("w", "abs", AddrIfIdx))>>, Nat, 0, p.ifIdx)
  <2>1. (IF AddrIfIdx >= AddrBase THEN AddressField(p, AddrIfIdx) ELSE LoadBytes(p, "w", AddrIfIdx)) = OneOf(p, 0, p.ifIdx)
    BY <1>3, <1>5
  <2> QED BY <1>1, <2>1, GetsAbs
<1>11. Gets(p, <<Plain(Ld("w", "abs", AddrSubIfIdx))>>, Nat, 0, p.subIfIdx)
  <2>1. (IF AddrSubIfIdx >= AddrBase THEN AddressField(p, AddrSubIfIdx) ELSE LoadBytes(p, "w", AddrSubIfIdx)) = OneOf(p, 0, p.subIfIdx)
    BY <1>3, <1>5
  <2> QED BY <1>1, <2>1, GetsAbs
<1>12. Gets(p, <<Plain(Ld("w", "abs", AddrFlags))>>, Nat, 0, FlagsOf(p))
  <2>1. (IF AddrFlags >= AddrBase THEN AddressField(p, AddrFlags) ELSE LoadBytes(p, "w", AddrFlags)) = OneOf(p, 0, FlagsOf(p))
    BY <1>3, <1>5
  <2> QED BY <1>1, <2>1, GetsAbs
<1> QED BY <1>7, <1>8, <1>9, <1>10, <1>11, <1>12

LEMMA TestedIs ==
  ASSUME NEW p, NEW need, NEW e, NEW val
  PROVE  /\ e.op \notin {"inbound", "outbound", "loopback", "impostor"} =>
              Tested(p, need, val = Key(e)) = Result(p, need, Verdict(e, val))
         /\ e.op \in {"tcp", "udp", "icmp", "ip"} \/ Key(e) = e.val
<1>1. e.op \notin {"inbound", "outbound", "loopback", "impostor"} =>
              Tested(p, need, val = Key(e)) = Result(p, need, Verdict(e, val))
  <2> HIDE DEF Key
  <2> QED BY DEF Tested, Result, Verdict
<1>2. e.op \in {"tcp", "udp", "icmp", "ip"} \/ Key(e) = e.val
  BY DEF Key
<1> QED BY <1>1, <1>2

\* What the tests say, one by one.
LEMMA SaysOf ==
  ASSUME NEW p, NEW e
  PROVE  LET says == TestSays(p, e.op, e.dir, e.val)
         IN  /\ e.op \in {"tcp", "udp", "icmp"} => says = Tested(p, 10, p.proto = Key(e))
             /\ e.op = "ip" => says = Tested(p, 1, p.version = Key(e))
             /\ e.op = "ifindex" => says = Tested(p, 0, p.ifIdx = Key(e))
             /\ e.op = "sub_ifindex" => says = Tested(p, 0, p.subIfIdx = Key(e))
             /\ e.op = "outbound" => says = Tested(p, 0, p.outbound)
             /\ e.op = "inbound" => says = Tested(p, 0, ~p.outbound)
             /\ e.op \in {"loopback", "impostor"} => says = "no"
<1>1. e.op \in {"tcp", "udp", "icmp"} => TestSays(p, e.op, e.dir, e.val) = Tested(p, 10, p.proto = Key(e))
  BY DEF TestSays, Key
<1>2. e.op = "ip" => TestSays(p, e.op, e.dir, e.val) = Tested(p, 1, p.version = Key(e))
  BY DEF TestSays, Key
<1>3. e.op = "ifindex" => TestSays(p, e.op, e.dir, e.val) = Tested(p, 0, p.ifIdx = Key(e))
  BY DEF TestSays, Key
<1>4. e.op = "sub_ifindex" => TestSays(p, e.op, e.dir, e.val) = Tested(p, 0, p.subIfIdx = Key(e))
  BY DEF TestSays, Key
<1>5. e.op = "outbound" => TestSays(p, e.op, e.dir, e.val) = Tested(p, 0, p.outbound)
  BY DEF TestSays
<1>6. e.op = "inbound" => TestSays(p, e.op, e.dir, e.val) = Tested(p, 0, ~p.outbound)
  BY DEF TestSays
<1>7. e.op \in {"loopback", "impostor"} => TestSays(p, e.op, e.dir, e.val) = "no"
  BY DEF TestSays
<1> QED BY <1>1, <1>2, <1>3, <1>4, <1>5, <1>6, <1>7

\* A test with a direction, or with both.
LEMMA SidesSay ==
  ASSUME NEW p, NEW e, NEW src, NEW dst,
         \/ e.op = "host" /\ src = Tested(p, 16, p.src = e.val) /\ dst = Tested(p, 20, p.dst = e.val)
         \/ e.op = "port" /\ src = Tested(p, 4 * p.ihl + 2, p.sport = e.val)
                          /\ dst = Tested(p, 4 * p.ihl + 4, p.dport = e.val)
  PROVE  TestSays(p, e.op, e.dir, e.val) =
           IF e.dir = "src" THEN src ELSE IF e.dir = "dst" THEN dst ELSE Disj(src, dst)
<1>1. CASE e.op = "host"
  BY <1>1 DEF TestSays
<1>2. CASE e.op = "port"
  BY <1>2 DEF TestSays
<1> QED BY <1>1, <1>2

LEMMA SidesShape ==
  ASSUME NEW p, NEW e, NEW s, NEW d, Loads(e) = OfDir(e, s, d), NEW X, NEW n1, NEW v1, NEW n2, NEW v2,
         Enters(p, e, X, n1), Enters(p, e, X, n2), Gets(p, s, X, n1, v1), Gets(p, d, X, n2, v2),
         NEW src, src = Result(p, n1, Verdict(e, v1)), NEW dst, dst = Result(p, n2, Verdict(e, v2)),
         TestSays(p, e.op, e.dir, e.val) =
           IF e.dir = "src" THEN src ELSE IF e.dir = "dst" THEN dst ELSE Disj(src, dst)
  PROVE  /\ Len(Loads(e)) = 1 => OneLoad(p, e)
         /\ Len(Loads(e)) = 2 => TwoLoads(p, e)
<1>1. Len(<<s>>) = 1 /\ <<s>>[1] = s /\ Len(<<d>>) = 1 /\ <<d>>[1] = d
      /\ Len(<<s, d>>) = 2 /\ <<s, d>>[1] = s /\ <<s, d>>[2] = d
  OBVIOUS
<1>2. CASE e.dir = "src"
  <2>1. Loads(e) = <<s>>
    BY <1>2, OfDirCases
  <2>2. Gets(p, Loads(e)[1], X, n1, v1) /\ Len(Loads(e)) = 1
    BY <1>1, <2>1
  <2>3. TestSays(p, e.op, e.dir, e.val) = Result(p, n1, Verdict(e, v1))
    BY <1>2
  <2>4. OneLoad(p, e)
    BY <2>2, <2>3, Zenon DEF OneLoad
  <2> QED BY <2>2, <2>4
<1>3. CASE e.dir = "dst"
  <2>1. Loads(e) = <<d>>
    BY <1>3, OfDirCases
  <2>2. Gets(p, Loads(e)[1], X, n2, v2) /\ Len(Loads(e)) = 1
    BY <1>1, <2>1
  <2>3. TestSays(p, e.op, e.dir, e.val) = Result(p, n2, Verdict(e, v2))
    BY <1>3
  <2>4. OneLoad(p, e)
    BY <2>2, <2>3, Zenon DEF OneLoad
  <2> QED BY <2>2, <2>4
<1>4. CASE e.dir \notin {"src", "dst"}
  <2>1. Loads(e) = <<s, d>>
    BY <1>4, OfDirCases
  <2>2. Gets(p, Loads(e)[1], X, n1, v1) /\ Gets(p, Loads(e)[2], X, n2, v2) /\ Len(Loads(e)) = 2
    BY <1>1, <2>1
  <2>3. TestSays(p, e.op, e.dir, e.val) = Disj(Result(p, n1, Verdict(e, v1)), Result(p, n2, Verdict(e, v2)))
    BY <1>4
  <2>4. TwoLoads(p, e)
    BY <2>2, <2>3, Zenon DEF TwoLoads
  <2> QED BY <2>2, <2>4
<1> QED BY <1>2, <1>3, <1>4

LEMMA OneShape ==
  ASSUME NEW p, NEW e, NEW s, Loads(e) = <<s>>, NEW X, NEW need, NEW val,
         Enters(p, e, X, need), Gets(p, s, X, need, val),
         TestSays(p, e.op, e.dir, e.val) = Result(p, need, Verdict(e, val))
  PROVE  /\ Len(Loads(e)) = 1 => OneLoad(p, e)
         /\ Len(Loads(e)) = 2 => TwoLoads(p, e)
<1>1. Len(Loads(e)) = 1 /\ Loads(e)[1] = s
  BY SMT
<1>2. Gets(p, Loads(e)[1], X, need, val)
  BY <1>1
<1>3. OneLoad(p, e)
  BY <1>2, Zenon DEF OneLoad
<1> QED BY <1>1, <1>3

LEMMA FlagShape ==
  ASSUME NEW p \in Packets, NEW e, e.op \in {"inbound", "outbound", "loopback", "impostor"}
  PROVE  TestSays(p, e.op, e.dir, e.val) = Result(p, 0, Verdict(e, FlagsOf(p)))
<1>1. p \in Packet /\ p.bytes \in Nat
  BY PacketSize
<1>2. /\ BitAnd(FlagsOf(p), Flag.outbound) # 0 <=> p.outbound
      /\ BitAnd(FlagsOf(p), Flag.inbound) # 0 <=> p.outbound
      /\ BitAnd(FlagsOf(p), Flag.loopback) = 0
      /\ BitAnd(FlagsOf(p), Flag.impostor) = 0
  BY <1>1, FlagBits
<1>3. ~(p.bytes < 0)
  BY <1>1, SMT
<1>4. \A w : Result(p, 0, w) = w
  BY <1>3 DEF Result
<1>5. Tested(p, 0, p.outbound) = IF p.outbound THEN "yes" ELSE "no"
  BY <1>3 DEF Tested
<1>6. Tested(p, 0, ~p.outbound) = IF p.outbound THEN "no" ELSE "yes"
  BY <1>3 DEF Tested
<1> HIDE DEF Flag
<1>7. CASE e.op = "inbound"
  <2>1. Flag[e.op] = Flag.inbound
    BY <1>7
  <2>2. Set(e, FlagsOf(p)) <=> p.outbound
    BY <1>2, <2>1 DEF Set
  <2>3. Verdict(e, FlagsOf(p)) = IF p.outbound THEN "no" ELSE "yes"
    BY <1>7, <2>2, Zenon DEF Verdict
  <2>4. TestSays(p, e.op, e.dir, e.val) = Tested(p, 0, ~p.outbound)
    BY <1>7, SaysOf, Zenon
  <2> QED BY <1>4, <1>6, <2>3, <2>4
<1>8. CASE e.op = "outbound"
  <2>1. Flag[e.op] = Flag.outbound
    BY <1>8
  <2>2. Set(e, FlagsOf(p)) <=> p.outbound
    BY <1>2, <2>1 DEF Set
  <2>3. Verdict(e, FlagsOf(p)) = IF p.outbound THEN "yes" ELSE "no"
    BY <1>8, <2>2 DEF Verdict
  <2>4. TestSays(p, e.op, e.dir, e.val) = Tested(p, 0, p.outbound)
    BY <1>8, SaysOf, Zenon
  <2> QED BY <1>4, <1>5, <2>3, <2>4
<1>9. CASE e.op \in {"loopback", "impostor"}
  <2>1. Flag[e.op] = Flag.loopback \/ Flag[e.op] = Flag.impostor
    BY <1>9
  <2>2. ~Set(e, FlagsOf(p))
    BY <1>2, <2>1 DEF Set
  <2>3. Verdict(e, FlagsOf(p)) = "no"
    BY <1>9, <2>2 DEF Verdict
  <2>4. TestSays(p, e.op, e.dir, e.val) = "no"
    BY <1>9, SaysOf, Zenon
  <2> QED BY <1>4, <2>3, <2>4
<1> QED BY <1>7, <1>8, <1>9

\* Every test is of one of these shapes.
LEMMA TestShape ==
  ASSUME NEW p \in Packets, NEW e, e.op \in Tests
  PROVE  /\ Len(Loads(e)) = 1 => OneLoad(p, e)
         /\ Len(Loads(e)) = 2 => TwoLoads(p, e)
<1>1. CASE e.op \in {"tcp", "udp", "icmp"}
  <2>1. Loads(e) = <<<<Plain(Ld("b", "abs", 9))>>>>
    BY <1>1, LoadsOf, Zenon
  <2>2. Enters(p, e, Nat, 10)
    BY <1>1, EntersPlainly
  <2>3. TestSays(p, e.op, e.dir, e.val) = Result(p, 10, Verdict(e, p.proto))
    <3>1. e.op \notin {"inbound", "outbound", "loopback", "impostor"}
      BY <1>1
    <3>2. TestSays(p, e.op, e.dir, e.val) = Tested(p, 10, p.proto = Key(e))
      BY <1>1, SaysOf, Zenon
    <3> QED BY <3>1, <3>2, TestedIs
  <2> QED BY <2>1, <2>2, <2>3, GetsAll, OneShape
<1>2. CASE e.op = "ip"
  <2>1. Loads(e) = <<<<Plain(Ld("b", "abs", 0)), Plain(Alu("rsh", "k", 4))>>>>
    BY <1>2, LoadsOf, Zenon
  <2>2. Enters(p, e, Nat, 1)
    BY <1>2, EntersPlainly
  <2>3. TestSays(p, e.op, e.dir, e.val) = Result(p, 1, Verdict(e, p.version))
    <3>1. e.op \notin {"inbound", "outbound", "loopback", "impostor"}
      BY <1>2
    <3>2. TestSays(p, e.op, e.dir, e.val) = Tested(p, 1, p.version = Key(e))
      BY <1>2, SaysOf, Zenon
    <3> QED BY <3>1, <3>2, TestedIs
  <2> QED BY <2>1, <2>2, <2>3, GetsVersion, OneShape
<1>3. CASE e.op = "ifindex"
  <2>1. Loads(e) = <<<<Plain(Ld("w", "abs", AddrIfIdx))>>>>
    BY <1>3, LoadsOf, Zenon
  <2>2. Enters(p, e, Nat, 0)
    BY <1>3, EntersPlainly
  <2>3. TestSays(p, e.op, e.dir, e.val) = Result(p, 0, Verdict(e, p.ifIdx))
    <3>1. e.op \notin {"inbound", "outbound", "loopback", "impostor"}
      BY <1>3
    <3>2. TestSays(p, e.op, e.dir, e.val) = Tested(p, 0, p.ifIdx = Key(e))
      BY <1>3, SaysOf, Zenon
    <3> QED BY <3>1, <3>2, TestedIs
  <2> QED BY <2>1, <2>2, <2>3, GetsAll, OneShape
<1>4. CASE e.op = "sub_ifindex"
  <2>1. Loads(e) = <<<<Plain(Ld("w", "abs", AddrSubIfIdx))>>>>
    BY <1>4, LoadsOf, Zenon
  <2>2. Enters(p, e, Nat, 0)
    BY <1>4, EntersPlainly
  <2>3. TestSays(p, e.op, e.dir, e.val) = Result(p, 0, Verdict(e, p.subIfIdx))
    <3>1. e.op \notin {"inbound", "outbound", "loopback", "impostor"}
      BY <1>4
    <3>2. TestSays(p, e.op, e.dir, e.val) = Tested(p, 0, p.subIfIdx = Key(e))
      BY <1>4, SaysOf, Zenon
    <3> QED BY <3>1, <3>2, TestedIs
  <2> QED BY <2>1, <2>2, <2>3, GetsAll, OneShape
<1>5. CASE e.op \in {"inbound", "outbound", "loopback", "impostor"}
  <2>1. Loads(e) = <<<<Plain(Ld("w", "abs", AddrFlags))>>>>
    BY <1>5, LoadsOf, Zenon
  <2>2. Enters(p, e, Nat, 0)
    BY <1>5, EntersPlainly
  <2>3. TestSays(p, e.op, e.dir, e.val) = Result(p, 0, Verdict(e, FlagsOf(p)))
    BY <1>5, FlagShape
  <2> QED BY <2>1, <2>2, <2>3, GetsAll, OneShape
<1>6. CASE e.op = "host"
  <2> DEFINE s == <<Plain(Ld("w", "abs", 12))>>
             d == <<Plain(Ld("w", "abs", 16))>>
             src == Result(p, 16, Verdict(e, p.src))
             dst == Result(p, 20, Verdict(e, p.dst))
  <2>1. Loads(e) = OfDir(e, s, d)
    BY <1>6, LoadsOf, Zenon
  <2>2. Enters(p, e, Nat, 16) /\ Enters(p, e, Nat, 20)
    BY <1>6, EntersPlainly
  <2>3. Gets(p, s, Nat, 16, p.src) /\ Gets(p, d, Nat, 20, p.dst)
    BY GetsAll, Zenon
  <2>4. src = Tested(p, 16, p.src = e.val) /\ dst = Tested(p, 20, p.dst = e.val)
    <3>1. e.op \notin {"inbound", "outbound", "loopback", "impostor"} /\ e.op \notin {"tcp", "udp", "icmp", "ip"}
      BY <1>6
    <3>2. Key(e) = e.val
      BY <3>1, TestedIs
    <3>3. Tested(p, 16, p.src = Key(e)) = src
      BY <3>1, TestedIs
    <3>4. Tested(p, 20, p.dst = Key(e)) = dst
      BY <3>1, TestedIs
    <3> QED BY <3>2, <3>3, <3>4, Zenon
  <2>5. TestSays(p, e.op, e.dir, e.val) =
          IF e.dir = "src" THEN src ELSE IF e.dir = "dst" THEN dst ELSE Disj(src, dst)
    <3> HIDE DEF src, dst
    <3> QED BY <1>6, <2>4, SidesSay
  <2> HIDE DEF s, d
  <2> QED BY <2>1, <2>2, <2>3, <2>5, SidesShape
<1>7. CASE e.op = "port"
  <2> DEFINE l == 4 * p.ihl
             s == <<Plain(Ld("h", "ind", 0))>>
             d == <<Plain(Ld("h", "ind", 2))>>
             src == Result(p, l + 2, Verdict(e, p.sport))
             dst == Result(p, l + 4, Verdict(e, p.dport))
  <2>1. Loads(e) = OfDir(e, s, d)
    BY <1>7, LoadsOf, Zenon
  <2>2. Enters(p, e, {l}, l + 2) /\ Enters(p, e, {l}, l + 4)
    <3>1. l \in 20..60
      BY PacketSize
    <3> HIDE DEF l
    <3>2. l + 2 \in Nat /\ l + 2 >= 1 /\ l + 4 \in Nat /\ l + 4 >= 1
      BY <3>1, SMT
    <3>3. ASSUME NEW need \in Nat, need >= 1 PROVE Enters(p, e, {l}, need)
      BY <1>7, <3>3, EntersPort DEF l
    <3> QED BY <3>2, <3>3, Zenon
  <2>3. Gets(p, s, {l}, l + 2, p.sport) /\ Gets(p, d, {l}, l + 4, p.dport)
    BY GetsPort, Zenon
  <2>4. src = Tested(p, l + 2, p.sport = e.val) /\ dst = Tested(p, l + 4, p.dport = e.val)
    <3>1. e.op \notin {"inbound", "outbound", "loopback", "impostor"} /\ e.op \notin {"tcp", "udp", "icmp", "ip"}
      BY <1>7
    <3>2. Key(e) = e.val
      BY <3>1, TestedIs
    <3>3. Tested(p, l + 2, p.sport = Key(e)) = src
      BY <3>1, TestedIs
    <3>4. Tested(p, l + 4, p.dport = Key(e)) = dst
      BY <3>1, TestedIs
    <3> QED BY <3>2, <3>3, <3>4, Zenon
  <2>5. TestSays(p, e.op, e.dir, e.val) =
          IF e.dir = "src" THEN src ELSE IF e.dir = "dst" THEN dst ELSE Disj(src, dst)
    <3> HIDE DEF src, dst
    <3> QED BY <1>7, <2>4, SidesSay
  <2> HIDE DEF s, d, l
  <2> QED BY <2>1, <2>2, <2>3, <2>5, SidesShape
<1> QED BY <1>1, <1>2, <1>3, <1>4, <1>5, <1>6, <1>7, TestCases

(***************************************************************************)
(* 8. The code generator, for one packet.                                  *)
(***************************************************************************)

(***************************************************************************)
(* What is emitted says what the tree says: w is to be returned, and there *)
(* are at most z instructions.                                             *)
(***************************************************************************)

LEMMA SizeIsNat ==
  ASSUME NEW ir, Listing(ir)
  PROVE  Size(ir) \in Nat
<1>1. Len(ir) + 1 \in Nat
  BY SMT DEF Listing
<1> QED BY <1>1, BeforeSet DEF Size

LEMMA SizePush ==
  ASSUME NEW ir, Listing(ir), NEW c
  PROVE  Size(Append(ir, c)) = Size(ir) + (IF IsInsn(c) THEN 1 ELSE 0)
<1>1. PICK S : ir \in Seq(S)
  BY Zenon DEF Listing
<1>2. ir \in Seq(S \cup {c}) /\ ir \o <<c>> = Append(ir, c)
  BY <1>1, Pushed
<1>3. <<c>> \in Seq(S \cup {c})
  OBVIOUS
<1>4. Size(ir \o <<c>>) = Size(ir) + Size(<<c>>)
  BY <1>2, <1>3, SizeJoin
<1> QED BY <1>2, <1>4, SizeFew

\* A call that is next, and what is below it.
LEMMA CallMeans ==
  ASSUME NEW p, NEW L, NEW td, Listing(td), td # <<>>, NEW r, NEW n, Ahead(p, L, td, r, n),
         td[Len(td)].ir = "call"
  PROVE  CallSays(p, L, Back(td), td[Len(td)], r, n)
<1> DEFINE c == td[Len(td)]
<1>0. c.ir = "call"
  OBVIOUS
<1>1. \E r1, n1 : Ahead(p, L, Back(td), r1, n1) /\ Means(p, L, c, <<r1, n1>>, <<r, n>>)
  BY AheadPop DEF Listing
<1> HIDE DEF c
<1>2. PICK r1, n1 : Ahead(p, L, Back(td), r1, n1) /\ Means(p, L, c, <<r1, n1>>, <<r, n>>)
  BY <1>1, Zenon
<1>3. PICK r2, n2 :
        /\ <<r1, n1>> = <<r2, n2>> /\ n2 \in Nat
        /\ \/ \E k \in {0, U32Max} : c = Plain(Ret(k)) /\ <<r, n>> = <<k, n2 + 1>>
           \/ \E l \in Nat : c = Label(l) /\ L[l] = <<Everywhere, r2>> /\ <<r, n>> = <<r2, n2>>
           \/ \E e, t, f, v, k, y, z :
                /\ c = CompileExpr(e, t, f) /\ TreeSays(p, e, v) /\ TreeTests(e, k)
                /\ L[t] = <<Everywhere, y>> /\ L[f] = <<Everywhere, z>>
                /\ <<r, n>> = <<To(v, y, z), n2 + 5 * k>>
  BY <1>2, Zenon DEF Means
<1>4. "call" # "insn" /\ "call" # "label"
  OBVIOUS
<1>5. ~ \E k \in {0, U32Max} : c = Plain(Ret(k))
  <2> SUFFICES ASSUME NEW i, c = Plain(i) PROVE FALSE
    BY Zenon
  <2>1. c.ir = "insn"
    BY ItemFields
  <2> QED BY <1>0, <1>4, <2>1
<1>6. ~ \E l \in Nat : c = Label(l)
  <2> SUFFICES ASSUME NEW l, c = Label(l) PROVE FALSE
    BY Zenon
  <2>1. c.ir = "label"
    BY ItemFields
  <2> QED BY <1>0, <1>4, <2>1
<1>7. PICK e, t, f, v, k, y, z :
                /\ c = CompileExpr(e, t, f) /\ TreeSays(p, e, v) /\ TreeTests(e, k)
                /\ L[t] = <<Everywhere, y>> /\ L[f] = <<Everywhere, z>>
                /\ <<r, n>> = <<To(v, y, z), n2 + 5 * k>>
  BY <1>3, <1>5, <1>6, Zenon
<1>8. c.e = e /\ c.t = t /\ c.f = f
  BY <1>7, ItemFields
<1>9. n1 = n2 /\ r1 = r2 /\ n2 \in Nat
  BY <1>3
<1>10. r = To(v, y, z) /\ n = n1 + 5 * k
  BY <1>7, <1>9
<1>11. TreeSays(p, c.e, v) /\ TreeTests(c.e, k) /\ L[c.t] = <<Everywhere, y>> /\ L[c.f] = <<Everywhere, z>>
  BY <1>7, <1>8
<1>12. \E r3, n3, v3, k3, y3, z3 :
           /\ Ahead(p, L, Back(td), r3, n3) /\ n3 \in Nat
           /\ TreeSays(p, c.e, v3) /\ TreeTests(c.e, k3)
           /\ L[c.t] = <<Everywhere, y3>> /\ L[c.f] = <<Everywhere, z3>>
           /\ r = To(v3, y3, z3) /\ n = n3 + 5 * k3
  BY <1>2, <1>9, <1>10, <1>11, Zenon
<1> QED BY <1>12, Zenon DEF c, CallSays

\* What is next, if it is no call, is emitted.
LEMMA EmitCodes ==
  ASSUME NEW p, NEW w, NEW ir, NEW td, NEW z, Listing(ir), Listing(td), td # <<>>,
         td[Len(td)].ir # "call", Codes(p, w, ir, td, z), z \in Nat
  PROVE  Codes(p, w, Append(ir, td[Len(td)]), Back(td), z)
<1> DEFINE c == td[Len(td)]
<1>0. c.ir # "call"
  OBVIOUS
<1>1. PICK L, r, n : Coded(p, L, w, ir, td, r, n, z)
  BY Zenon DEF Codes
<1>2. Ahead(p, L, td, r, n) /\ Size(ir) + n <= z
      /\ (p \in Packets => Behind(p, L, ir, <<Everywhere, w>>, <<Everywhere, r>>))
  BY <1>1, Zenon DEF Coded
<1>3. \E r1, n1 : Ahead(p, L, Back(td), r1, n1) /\ Means(p, L, c, <<r1, n1>>, <<r, n>>)
  BY <1>2, AheadPop DEF Listing
<1> HIDE DEF c
<1>4. PICK r1, n1 : Ahead(p, L, Back(td), r1, n1) /\ Means(p, L, c, <<r1, n1>>, <<r, n>>)
  BY <1>3, Zenon
<1>5. PICK r2, n2 :
        /\ <<r1, n1>> = <<r2, n2>> /\ n2 \in Nat
        /\ \/ \E k \in {0, U32Max} : c = Plain(Ret(k)) /\ <<r, n>> = <<k, n2 + 1>>
           \/ \E l \in Nat : c = Label(l) /\ L[l] = <<Everywhere, r2>> /\ <<r, n>> = <<r2, n2>>
           \/ \E e, t, f, v, k, y, zz :
                /\ c = CompileExpr(e, t, f) /\ TreeSays(p, e, v) /\ TreeTests(e, k)
                /\ L[t] = <<Everywhere, y>> /\ L[f] = <<Everywhere, zz>>
                /\ <<r, n>> = <<To(v, y, zz), n2 + 5 * k>>
  BY <1>4, Zenon DEF Means
<1>6. r1 = r2 /\ n1 = n2 /\ n1 \in Nat
  BY <1>5
<1>7. ~ \E e, t, f : c = CompileExpr(e, t, f)
  <2> SUFFICES ASSUME NEW e, NEW t, NEW f, c = CompileExpr(e, t, f) PROVE FALSE
    BY Zenon
  <2>1. c.ir = "call"
    BY ItemFields
  <2> QED BY <1>0, <2>1
<1>8. PICK S : ir \in Seq(S)
  BY Zenon DEF Listing
<1>9. Size(ir) \in Nat /\ Size(Append(ir, c)) = Size(ir) + (IF IsInsn(c) THEN 1 ELSE 0)
  BY SizeIsNat, SizePush
<1>10. CASE \E k \in {0, U32Max} : c = Plain(Ret(k)) /\ <<r, n>> = <<k, n2 + 1>>
  <2>1. PICK k \in {0, U32Max} : c = Plain(Ret(k)) /\ <<r, n>> = <<k, n2 + 1>>
    BY <1>10
  <2>2. r = k /\ n = n1 + 1
    BY <1>6, <2>1
  <2>3. IsInsn(c)
    <3>1. c.ir = "insn"
      BY <2>1, ItemFields
    <3> QED BY <3>1 DEF IsInsn
  <2>4. Size(Append(ir, c)) + n1 <= z
    BY <1>2, <1>6, <1>9, <2>2, <2>3, SMT
  <2>5. <<Everywhere, k>>[2] = k
    OBVIOUS
  <2>6. Leads(p, L, c, <<Everywhere, k>>, <<Everywhere, r1>>)
    BY <2>1, <2>5, Zenon DEF Leads
  <2>7. p \in Packets => Behind(p, L, Append(ir, c), <<Everywhere, w>>, <<Everywhere, r1>>)
    BY <1>2, <1>8, <2>2, <2>6, BehindPush
  <2> QED BY <1>4, <2>4, <2>7, Zenon DEF Codes, Coded, c
<1>11. CASE \E l \in Nat : c = Label(l) /\ L[l] = <<Everywhere, r2>> /\ <<r, n>> = <<r2, n2>>
  <2>1. PICK l \in Nat : c = Label(l) /\ L[l] = <<Everywhere, r2>> /\ <<r, n>> = <<r2, n2>>
    BY <1>11
  <2>2. r = r1 /\ n = n1
    BY <1>6, <2>1
  <2>3. ~IsInsn(c)
    <3>1. c.ir = "label"
      BY <2>1, ItemFields
    <3> QED BY <3>1 DEF IsInsn
  <2>4. Size(Append(ir, c)) + n1 <= z
    BY <1>2, <1>6, <1>9, <2>2, <2>3, SMT
  <2>5. L[l] = <<Everywhere, r1>>
    BY <1>6, <2>1
  <2>6. Leads(p, L, c, <<Everywhere, r1>>, <<Everywhere, r1>>)
    BY <2>1, <2>5, Zenon DEF Leads
  <2>7. p \in Packets => Behind(p, L, Append(ir, c), <<Everywhere, w>>, <<Everywhere, r1>>)
    BY <1>2, <1>8, <2>2, <2>6, BehindPush
  <2> QED BY <1>4, <2>4, <2>7, Zenon DEF Codes, Coded, c
<1> QED BY <1>5, <1>7, <1>10, <1>11, Zenon

LEMMA Relabelled ==
  ASSUME NEW L, NEW nl \in Nat, NEW g
  PROVE  /\ Relabel(L, nl, g)[nl] = g /\ Agree(L, Relabel(L, nl, g), nl)
         /\ \A l \in 0..(nl - 1) : Relabel(L, nl, g)[l] = L[l]
<1>1. \A l \in 0..(nl - 1) : l \in Nat /\ l # nl
  BY SMT
<1>2. \A l \in Nat : Relabel(L, nl, g)[l] = IF l = nl THEN g ELSE L[l]
  BY DEF Relabel
<1>3. \A l \in 0..(nl - 1) : Relabel(L, nl, g)[l] = L[l]
  BY <1>1, <1>2
<1> QED BY <1>2, <1>3, Zenon DEF Agree

LEMMA LayoutSame ==
  ASSUME NEW ir, NEW td, NEW nl, Layout(ir, td, nl), NEW L, NEW M, Agree(L, M, nl), NEW p
  PROVE  /\ \A r, n : Ahead(p, L, td, r, n) => Ahead(p, M, td, r, n)
         /\ \A g, h : Behind(p, L, ir, g, h) => Behind(p, M, ir, g, h)
<1>1. \A j \in 1..Len(ir) : Uses(ir[j], nl)
  BY Zenon DEF Layout, DoneItem
<1>2. \A d \in 1..Len(td) : Uses(td[d], nl)
  BY Zenon DEF Layout, TodoItem
<1> QED BY <1>1, <1>2, AheadSame, BehindSame, Zenon

LEMMA OperandSays ==
  ASSUME NEW p, NEW e, NEW v, NEW k, TreeSays(p, e, v), TreeTests(e, k)
  PROVE  /\ e.op = "and" => \E y, u \in Values, i, j \in Nat :
              /\ TreeSays(p, e.l, y) /\ TreeSays(p, e.r, u) /\ TreeTests(e.l, i) /\ TreeTests(e.r, j)
              /\ v = Conj(y, u) /\ k = i + j
         /\ e.op = "or" => \E y, u \in Values, i, j \in Nat :
              /\ TreeSays(p, e.l, y) /\ TreeSays(p, e.r, u) /\ TreeTests(e.l, i) /\ TreeTests(e.r, j)
              /\ v = Disj(y, u) /\ k = i + j
         /\ e.op = "not" => \E u \in Values : TreeSays(p, e.l, u) /\ TreeTests(e.l, k) /\ v = Neg(u)
         /\ e.op \in Tests => v = TestSays(p, e.op, e.dir, e.val) /\ k = 1
<1>1. /\ v \in Values
      /\ \/ /\ e.op = "and"
            /\ \E l, r \in Values : TreeSays(p, e.l, l) /\ TreeSays(p, e.r, r) /\ v = Conj(l, r)
         \/ /\ e.op = "or"
            /\ \E l, r \in Values : TreeSays(p, e.l, l) /\ TreeSays(p, e.r, r) /\ v = Disj(l, r)
         \/ e.op = "not" /\ \E l \in Values : TreeSays(p, e.l, l) /\ v = Neg(l)
         \/ e.op \in Tests /\ v = TestSays(p, e.op, e.dir, e.val)
  BY TreeSaysValue DEF Tests
<1>2. /\ k \in Nat
      /\ \/ /\ e.op \in {"and", "or"}
            /\ \E l, r \in Nat : TreeTests(e.l, l) /\ TreeTests(e.r, r) /\ k = l + r
         \/ e.op = "not" /\ TreeTests(e.l, k)
         \/ e.op \in Tests /\ k = 1
  BY TreeTestsCount DEF Tests
<1>3. "and" \notin Tests /\ "or" \notin Tests /\ "not" \notin Tests /\ "and" # "or" /\ "and" # "not" /\ "or" # "not"
  BY DEF Tests, Simple, WithArgument
<1> DEFINE op == e.op
<1>4. e.op = op
  OBVIOUS
<1> HIDE DEF op
<1>5. op = "and" => (\E l, r \in Nat : TreeTests(e.l, l) /\ TreeTests(e.r, r) /\ k = l + r)
                    /\ \E l, r \in Values : TreeSays(p, e.l, l) /\ TreeSays(p, e.r, r) /\ v = Conj(l, r)
  BY <1>1, <1>2, <1>3, <1>4
<1>6. op = "or" => (\E l, r \in Nat : TreeTests(e.l, l) /\ TreeTests(e.r, r) /\ k = l + r)
                    /\ \E l, r \in Values : TreeSays(p, e.l, l) /\ TreeSays(p, e.r, r) /\ v = Disj(l, r)
  BY <1>1, <1>2, <1>3, <1>4
<1>7. op = "not" => TreeTests(e.l, k) /\ \E l \in Values : TreeSays(p, e.l, l) /\ v = Neg(l)
  BY <1>1, <1>2, <1>3, <1>4
<1>8. op \in Tests => v = TestSays(p, e.op, e.dir, e.val) /\ k = 1
  <2>1. op \in Tests => op # "and" /\ op # "or" /\ op # "not" /\ op \notin {"and", "or"}
    BY <1>3
  <2> QED BY <1>1, <1>2, <1>4, <2>1
<1> QED BY <1>4, <1>5, <1>6, <1>7, <1>8

LEMMA OperandsSaid ==
  ASSUME NEW p, NEW e, NEW v, NEW k, TreeSays(p, e, v), TreeTests(e, k), e.op \in {"and", "or"}
  PROVE  OperandsSay(p, e, v, k)
<1>1. CASE e.op = "and"
  <2>1. e.op # "or"
    BY <1>1
  <2>2. \E y, u \in Values, i, j \in Nat :
              /\ TreeSays(p, e.l, y) /\ TreeSays(p, e.r, u) /\ TreeTests(e.l, i) /\ TreeTests(e.r, j)
              /\ v = Conj(y, u) /\ k = i + j
    BY <1>1, OperandSays
  <2> QED BY <2>1, <2>2, Zenon DEF OperandsSay
<1>2. CASE e.op = "or"
  <2>1. e.op # "and"
    BY <1>2
  <2>2. \E y, u \in Values, i, j \in Nat :
              /\ TreeSays(p, e.l, y) /\ TreeSays(p, e.r, u) /\ TreeTests(e.l, i) /\ TreeTests(e.r, j)
              /\ v = Disj(y, u) /\ k = i + j
    BY <1>2, OperandSays
  <2> QED BY <2>1, <2>2, Zenon DEF OperandsSay
<1> QED BY <1>1, <1>2

\* compile_expr for "and" or "or".
LEMMA JunctionCodes ==
  ASSUME NEW p, NEW w, NEW ir, NEW td, NEW nl, NEW z, Layout(ir, td, nl), td # <<>>,
         NEW c, c = td[Len(td)], c.ir = "call", c.e.op \in {"and", "or"}, Codes(p, w, ir, td, z)
  PROVE  Codes(p, w, ir,
               Append(Append(Append(Back(td), CompileExpr(c.e.r, c.t, c.f)), Label(nl)),
                      IF c.e.op = "and" THEN CompileExpr(c.e.l, nl, c.f) ELSE CompileExpr(c.e.l, c.t, nl)), z)
<1>1. nl \in Nat /\ Listing(ir) /\ Listing(td)
  BY Zenon DEF Layout
<1>2. /\ Layout(ir, Back(td), nl)
      /\ Waiting(Back(td), nl, c.t) /\ Waiting(Back(td), nl, c.f)
  BY LayoutCall
<1>3. PICK L, r, n : Coded(p, L, w, ir, td, r, n, z)
  BY Zenon DEF Codes
<1>4. Ahead(p, L, td, r, n) /\ Size(ir) + n <= z
      /\ (p \in Packets => Behind(p, L, ir, <<Everywhere, w>>, <<Everywhere, r>>))
  BY <1>3, Zenon DEF Coded
<1>5. PICK r1, n1, v, k, y, u :
           /\ Ahead(p, L, Back(td), r1, n1) /\ n1 \in Nat
           /\ TreeSays(p, c.e, v) /\ TreeTests(c.e, k)
           /\ L[c.t] = <<Everywhere, y>> /\ L[c.f] = <<Everywhere, u>>
           /\ r = To(v, y, u) /\ n = n1 + 5 * k
  <2>1. td[Len(td)].ir = "call"
    OBVIOUS
  <2>2. CallSays(p, L, Back(td), td[Len(td)], r, n)
    BY <1>1, <1>4, <2>1, CallMeans
  <2>3. CallSays(p, L, Back(td), c, r, n)
    BY <2>2
  <2> QED BY <2>3, Zenon DEF CallSays
<1>6. PICK vl \in Values, vr \in Values, kl \in Nat, kr \in Nat :
        /\ TreeSays(p, c.e.l, vl) /\ TreeSays(p, c.e.r, vr) /\ TreeTests(c.e.l, kl) /\ TreeTests(c.e.r, kr)
        /\ c.e.op = "and" => v = Conj(vl, vr)
        /\ c.e.op = "or" => v = Disj(vl, vr)
        /\ k = kl + kr
  <2>1. OperandsSay(p, c.e, v, k)
    BY <1>5, OperandsSaid
  <2> QED BY <2>1, Zenon DEF OperandsSay
<1> DEFINE g == <<Everywhere, To(vr, y, u)>>
           M == Relabel(L, nl, g)
           t1 == Append(Back(td), CompileExpr(c.e.r, c.t, c.f))
           t2 == Append(t1, Label(nl))
<1>7. M[nl] = g /\ Agree(L, M, nl) /\ \A l \in 0..(nl - 1) : M[l] = L[l]
  <2> HIDE DEF g
  <2>1. M[nl] = g
    <3>1. nl \in Nat
      BY <1>1
    <3>2. Relabel(L, nl, g)[nl] = g
      BY <3>1, Zenon DEF Relabel
    <3> QED BY <3>2
  <2>2. Agree(L, M, nl)
    BY <1>1, Relabelled
  <2>3. ASSUME NEW l \in 0..(nl - 1) PROVE M[l] = L[l]
    BY <1>1, Relabelled
  <2> QED BY <2>1, <2>2, <2>3
<1> HIDE DEF M
<1>8. M[c.t] = <<Everywhere, y>> /\ M[c.f] = <<Everywhere, u>>
  BY <1>2, <1>5, <1>7 DEF Waiting
<1>9. Ahead(p, M, Back(td), r1, n1)
  BY <1>2, <1>5, <1>7, LayoutSame
<1>10. p \in Packets => Behind(p, M, ir, <<Everywhere, w>>, <<Everywhere, r>>)
  BY <1>2, <1>4, <1>7, LayoutSame
<1>11. Listing(Back(td))
  BY <1>2, Zenon DEF Layout
<1>12. Ahead(p, M, t1, To(vr, y, u), n1 + 5 * kr)
  BY <1>6, <1>8, <1>9, <1>11, AheadCall DEF Listing
<1>13. Listing(t1)
  BY <1>11, PushIndex
<1>14. Ahead(p, M, t2, To(vr, y, u), n1 + 5 * kr)
  <2> HIDE DEF t1
  <2>1. M[nl] = <<Everywhere, To(vr, y, u)>>
    BY <1>7
  <2> QED BY <1>1, <1>12, <1>13, <2>1, AheadLabel DEF Listing
<1>15. Listing(t2)
  <2> HIDE DEF t1
  <2> QED BY <1>13, PushIndex
<1>16. n = (n1 + 5 * kr) + 5 * kl
  BY <1>5, <1>6, SMT
<1> HIDE DEF t2
<1>17. CASE c.e.op = "and"
  <2>1. Ahead(p, M, Append(t2, CompileExpr(c.e.l, nl, c.f)), To(vl, To(vr, y, u), u), (n1 + 5 * kr) + 5 * kl)
    BY <1>6, <1>7, <1>8, <1>14, <1>15, AheadCall DEF Listing
  <2>2. To(vl, To(vr, y, u), u) = r
    BY <1>5, <1>6, <1>17, ToJunction
  <2>3. Ahead(p, M, Append(t2, CompileExpr(c.e.l, nl, c.f)), r, n)
    BY <1>16, <2>1, <2>2
  <2>4. Codes(p, w, ir, Append(t2, CompileExpr(c.e.l, nl, c.f)), z)
    BY <1>4, <1>10, <2>3, Zenon DEF Codes, Coded
  <2> QED BY <1>17, <2>4 DEF t2
<1>18. CASE c.e.op = "or"
  <2>1. Ahead(p, M, Append(t2, CompileExpr(c.e.l, c.t, nl)), To(vl, y, To(vr, y, u)), (n1 + 5 * kr) + 5 * kl)
    BY <1>6, <1>7, <1>8, <1>14, <1>15, AheadCall DEF Listing
  <2>2. To(vl, y, To(vr, y, u)) = r
    BY <1>5, <1>6, <1>18, ToJunction
  <2>3. Ahead(p, M, Append(t2, CompileExpr(c.e.l, c.t, nl)), r, n)
    BY <1>16, <2>1, <2>2
  <2>4. Codes(p, w, ir, Append(t2, CompileExpr(c.e.l, c.t, nl)), z)
    BY <1>4, <1>10, <2>3, Zenon DEF Codes, Coded
  <2> QED BY <1>18, <2>4 DEF t2
<1> QED BY <1>17, <1>18

\* compile_expr for "not".
LEMMA NegationCodes ==
  ASSUME NEW p, NEW w, NEW ir, NEW td, NEW z, Listing(td), td # <<>>,
         NEW c, c = td[Len(td)], c.ir = "call", c.e.op = "not", Codes(p, w, ir, td, z)
  PROVE  Codes(p, w, ir, Append(Back(td), CompileExpr(c.e.l, c.f, c.t)), z)
<1>3. PICK L, r, n : Coded(p, L, w, ir, td, r, n, z)
  BY Zenon DEF Codes
<1>4. Ahead(p, L, td, r, n) /\ Size(ir) + n <= z
      /\ (p \in Packets => Behind(p, L, ir, <<Everywhere, w>>, <<Everywhere, r>>))
  BY <1>3, Zenon DEF Coded
<1>5. PICK r1, n1, v, k, y, u :
           /\ Ahead(p, L, Back(td), r1, n1) /\ n1 \in Nat
           /\ TreeSays(p, c.e, v) /\ TreeTests(c.e, k)
           /\ L[c.t] = <<Everywhere, y>> /\ L[c.f] = <<Everywhere, u>>
           /\ r = To(v, y, u) /\ n = n1 + 5 * k
  <2>1. td[Len(td)].ir = "call"
    OBVIOUS
  <2>2. CallSays(p, L, Back(td), td[Len(td)], r, n)
    BY <1>4, <2>1, CallMeans
  <2>3. CallSays(p, L, Back(td), c, r, n)
    BY <2>2
  <2> QED BY <2>3, Zenon DEF CallSays
<1>6. PICK vl \in Values : TreeSays(p, c.e.l, vl) /\ TreeTests(c.e.l, k) /\ v = Neg(vl)
  BY <1>5, OperandSays
<1>7. Listing(Back(td))
  BY BackIndex
<1>8. Ahead(p, L, Append(Back(td), CompileExpr(c.e.l, c.f, c.t)), To(vl, u, y), n1 + 5 * k)
  BY <1>5, <1>6, <1>7, AheadCall DEF Listing
<1>9. To(vl, u, y) = r
  BY <1>5, <1>6, ToJunction
<1>10. Ahead(p, L, Append(Back(td), CompileExpr(c.e.l, c.f, c.t)), r, n)
  BY <1>5, <1>8, <1>9
<1> QED BY <1>4, <1>10, Zenon DEF Codes, Coded

LEMMA Together ==
  ASSUME NEW q, Listing(q), NEW s, Listing(s)
  PROVE  \E S : q \in Seq(S) /\ s \in Seq(S)
<1>1. PICK A : q \in Seq(A)
  BY Zenon DEF Listing
<1>2. PICK B : s \in Seq(B)
  BY Zenon DEF Listing
<1>3. q \in Seq(A \cup B) /\ s \in Seq(A \cup B)
  BY <1>1, <1>2, SMT
<1> QED BY <1>3, Zenon

\* Lists put together.
LEMMA ListingJoin ==
  ASSUME NEW q, Listing(q), NEW s, Listing(s)
  PROVE  /\ Listing(q \o s) /\ Size(q \o s) = Size(q) + Size(s) /\ Size(q) \in Nat /\ Size(s) \in Nat
         /\ \A c : JoinsOn(q, s, c)
         /\ s # <<>> => q \o s # <<>> /\ (q \o s)[Len(q \o s)] = s[Len(s)]
         /\ q \o <<>> = q
<1>1. PICK S : q \in Seq(S) /\ s \in Seq(S)
  BY Together
<1>2. q \o s \in Seq(S)
  BY <1>1
<1>3. Size(q \o s) = Size(q) + Size(s) /\ Size(q) \in Nat /\ Size(s) \in Nat
  BY <1>1, SizeJoin
<1>4. ASSUME NEW c PROVE JoinsOn(q, s, c)
  <2>1. q \in Seq(S \cup {c}) /\ s \in Seq(S \cup {c}) /\ c \in S \cup {c}
    BY <1>1, SMT
  <2> QED BY <2>1, SMT DEF JoinsOn
<1>5. s # <<>> => q \o s # <<>> /\ (q \o s)[Len(q \o s)] = s[Len(s)]
  BY <1>1, SMT
<1>6. q \o <<>> = q
  BY <1>1, SMT
<1>7. Listing(q \o s)
  BY <1>2, Zenon DEF Listing
<1> QED BY <1>3, <1>4, <1>5, <1>6, <1>7

LEMMA ListingFew ==
  /\ Listing(<<>>)
  /\ \A i : Listing(<<i>>)
  /\ \A i, j : Listing(<<i, j>>)
<1>1. Listing(<<>>)
  <2>1. <<>> \in Seq({})
    OBVIOUS
  <2> QED BY <2>1, Zenon DEF Listing
<1>2. ASSUME NEW i PROVE Listing(<<i>>)
  <2>1. <<i>> \in Seq({i})
    OBVIOUS
  <2> QED BY <2>1, Zenon DEF Listing
<1>3. ASSUME NEW i, NEW j PROVE Listing(<<i, j>>)
  <2>1. <<i, j>> \in Seq({i, j})
    OBVIOUS
  <2> QED BY <2>1, Zenon DEF Listing
<1> QED BY <1>1, <1>2, <1>3

LEMMA ListingBehind ==
  ASSUME NEW ir, Listing(ir), NEW s, Listing(s), NEW p, NEW L, NEW g, NEW h, NEW k,
         Behind(p, L, ir, g, h), Behind(p, L, s, h, k)
  PROVE  Behind(p, L, ir \o s, g, k)
<1>1. PICK S : ir \in Seq(S) /\ s \in Seq(S)
  BY Together
<1> QED BY <1>1, BehindJoin

\* The sides of a test are as long as its instructions.
LEMMA ShortSize ==
  /\ \A s : Short(s) => Size(s) \in Nat /\ Size(s) <= 2
  /\ \A s : One(s) => Size(s) = 1 /\ Short(s)
<1>1. ASSUME NEW i PROVE IsInsn(Plain(i))
  BY ItemFields DEF IsInsn
<1>2. ASSUME NEW i PROVE Size(<<Plain(i)>>) = 1
  BY <1>1, SizeFew
<1>3. ASSUME NEW i, NEW j PROVE Size(<<Plain(i), Plain(j)>>) = 2
  <2>1. IsInsn(Plain(i)) /\ IsInsn(Plain(j))
    BY <1>1
  <2>2. Size(<<Plain(i), Plain(j)>>) = 1 + 1
    BY <2>1, SizeFew
  <2> QED BY <2>2
<1>4. ASSUME NEW s, Short(s) PROVE Size(s) \in Nat /\ Size(s) <= 2
  <2>1. CASE \E i : s = <<Plain(i)>>
    BY <1>2, <2>1
  <2>2. CASE \E i, j : s = <<Plain(i), Plain(j)>>
    BY <1>3, <2>2
  <2> QED BY <1>4, <2>1, <2>2 DEF Short
<1>5. ASSUME NEW s, One(s) PROVE Size(s) = 1 /\ Short(s)
  <2>1. PICK i : s = <<Plain(i)>>
    BY <1>5, Zenon DEF One
  <2> QED BY <1>2, <2>1 DEF Short
<1> QED BY <1>4, <1>5

(***************************************************************************)
(* What compile_expr emits for a test: one jump, or two with a label       *)
(* between them.                                                           *)
(***************************************************************************)

LEMMA PushOne ==
  ASSUME NEW q, Listing(q), NEW c
  PROVE  /\ q \o <<c>> = Append(q, c)
         /\ \A d : q \o <<c, d>> = Append(Append(q, c), d)
<1>1. PICK S : q \in Seq(S)
  BY Zenon DEF Listing
<1>2. q \o <<c>> = Append(q, c)
  BY <1>1, Pushed
<1>3. ASSUME NEW d PROVE q \o <<c, d>> = Append(Append(q, c), d)
  BY <1>1, PushedTwo
<1> QED BY <1>2, <1>3

LEMMA StartIs ==
  ASSUME NEW ir, Listing(ir), NEW e
  PROVE  /\ Listing(Prelude(e)) /\ Listing(Start(ir, e))
         /\ Size(Start(ir, e)) \in Nat /\ Size(ir) \in Nat /\ Size(Start(ir, e)) <= Size(ir) + 1
<1>1. Prelude(e) = <<>> \/ One(Prelude(e))
  BY PreludeShape
<1>2. Listing(Prelude(e))
  BY <1>1, ListingFew, ShortListing, ShortSize
<1>3. Size(Prelude(e)) = 0 \/ Size(Prelude(e)) = 1
  BY <1>1, SizeFew, ShortSize
<1>4. Listing(Start(ir, e)) /\ Size(Start(ir, e)) = Size(ir) + Size(Prelude(e)) /\ Size(ir) \in Nat
  BY <1>2, ListingJoin DEF Start
<1> QED BY <1>2, <1>3, <1>4, SMT

LEMMA SideIs ==
  ASSUME NEW q, Listing(q), NEW s, Listing(s), NEW c
  PROVE  /\ SidesOn(q, s, c)
         /\ Listing(q \o Append(s, c)) /\ Listing(Append(s, c))
         /\ Size(q \o Append(s, c)) <= Size(q) + Size(s) + 1 /\ Size(q \o Append(s, c)) \in Nat
<1>1. Listing(q \o s) /\ q \o Append(s, c) = Append(q \o s, c)
      /\ Size(q \o s) = Size(q) + Size(s) /\ Size(q) \in Nat /\ Size(s) \in Nat
  <2>1. Listing(q \o s)
    BY ListingJoin
  <2>2. q \o Append(s, c) = Append(q \o s, c)
    <3>1. JoinsOn(q, s, c)
      BY ListingJoin
    <3> QED BY <3>1, Zenon DEF JoinsOn
  <2>3. Size(q \o s) = Size(q) + Size(s) /\ Size(q) \in Nat /\ Size(s) \in Nat
    BY ListingJoin
  <2> QED BY <2>1, <2>2, <2>3
<1>2. (q \o s) \o <<c>> = Append(q \o s, c)
  BY <1>1, PushOne
<1>3. Listing(Append(s, c)) /\ Listing(Append(q \o s, c))
  BY <1>1, PushIndex
<1>4. Size(Append(q \o s, c)) = Size(q \o s) + (IF IsInsn(c) THEN 1 ELSE 0)
  BY <1>1, SizePush
<1>5. Size(Append(q \o s, c)) <= Size(q) + Size(s) + 1 /\ Size(Append(q \o s, c)) \in Nat
  BY <1>1, <1>4, SMT
<1>6. Size(q \o Append(s, c)) <= Size(q) + Size(s) + 1 /\ Size(q \o Append(s, c)) \in Nat
  BY <1>1, <1>5
<1>7. SidesOn(q, s, c)
  BY <1>1, <1>2 DEF SidesOn
<1> QED BY <1>1, <1>3, <1>6, <1>7

LEMMA OneSideIs ==
  ASSUME NEW ir, Listing(ir), NEW e, Short(Loads(e)[1]), NEW t, NEW f
  PROVE  /\ OneSide(ir, e, t, f) = Start(ir, e) \o Append(Loads(e)[1], Condition(e, t, f))
         /\ Listing(Append(Loads(e)[1], Condition(e, t, f)))
         /\ Size(OneSide(ir, e, t, f)) \in Nat /\ Size(OneSide(ir, e, t, f)) <= Size(ir) + 5
<1>1. Listing(Start(ir, e)) /\ Size(Start(ir, e)) <= Size(ir) + 1 /\ Size(ir) \in Nat /\ Size(Start(ir, e)) \in Nat
  BY StartIs
<1>2. Listing(Loads(e)[1]) /\ Size(Loads(e)[1]) \in Nat /\ Size(Loads(e)[1]) <= 2
  BY ShortListing, ShortSize
<1> DEFINE q == Start(ir, e)
           s == Loads(e)[1]
           c == Condition(e, t, f)
<1>3. OneSide(ir, e, t, f) = (q \o s) \o <<c>>
  BY DEF OneSide
<1>4. Listing(q) /\ Listing(s)
  BY <1>1, <1>2
<1> HIDE DEF q, s, c
<1>5. (q \o s) \o <<c>> = q \o Append(s, c) /\ Listing(Append(s, c))
      /\ Size(q \o Append(s, c)) <= Size(q) + Size(s) + 1 /\ Size(q \o Append(s, c)) \in Nat
  <2>1. (q \o s) \o <<c>> = q \o Append(s, c)
    <3>1. SidesOn(q, s, c)
      BY <1>4, SideIs
    <3> QED BY <3>1, Zenon DEF SidesOn
  <2>2. Listing(Append(s, c))
    BY <1>4, SideIs
  <2>3. Size(q \o Append(s, c)) <= Size(q) + Size(s) + 1 /\ Size(q \o Append(s, c)) \in Nat
    BY <1>4, SideIs
  <2> QED BY <2>1, <2>2, <2>3
<1>6. Size(OneSide(ir, e, t, f)) <= Size(q) + Size(s) + 1 /\ Size(OneSide(ir, e, t, f)) \in Nat
  BY <1>3, <1>5
<1>7. Size(q) <= Size(ir) + 1 /\ Size(q) \in Nat /\ Size(s) \in Nat /\ Size(s) <= 2
  BY <1>1, <1>2 DEF q, s
<1>8. Size(OneSide(ir, e, t, f)) <= Size(ir) + 5
  BY <1>1, <1>6, <1>7, SMT
<1> QED BY <1>3, <1>5, <1>6, <1>8 DEF q, s, c

LEMMA TwoSidesIs ==
  ASSUME NEW ir, Listing(ir), NEW e, One(Loads(e)[1]), One(Loads(e)[2]), NEW t, NEW f, NEW nl
  PROVE  /\ FirstIs(ir, e, t, nl) /\ BothAre(ir, e, t, f, nl)
         /\ Listing(Append(Loads(e)[1], Condition(e, t, nl)))
         /\ Listing(Start(ir, e) \o Append(Loads(e)[1], Condition(e, t, nl)))
         /\ Listing(FirstSide(ir, e, t, nl))
         /\ Listing(Append(Loads(e)[2], Condition(e, t, f)))
         /\ Size(TwoSides(ir, e, t, f, nl)) \in Nat /\ Size(TwoSides(ir, e, t, f, nl)) <= Size(ir) + 5
<1>1. Listing(Start(ir, e)) /\ Size(Start(ir, e)) <= Size(ir) + 1 /\ Size(ir) \in Nat /\ Size(Start(ir, e)) \in Nat
  BY StartIs
<1>2. Listing(Loads(e)[1]) /\ Size(Loads(e)[1]) = 1 /\ Listing(Loads(e)[2]) /\ Size(Loads(e)[2]) = 1
  BY ShortListing, ShortSize
<1> DEFINE q == Start(ir, e)
           s == Loads(e)[1]
           u == Loads(e)[2]
           c == Condition(e, t, nl)
           d == Condition(e, t, f)
           l == Label(nl)
<1>3. FirstSide(ir, e, t, nl) = (q \o s) \o <<c, l>>
  BY DEF FirstSide
<1>4. TwoSides(ir, e, t, f, nl) = (FirstSide(ir, e, t, nl) \o u) \o <<d>>
  BY DEF TwoSides
<1>5. Listing(q) /\ Listing(s) /\ Listing(u)
      /\ Size(q) <= Size(ir) + 1 /\ Size(q) \in Nat /\ Size(s) = 1 /\ Size(u) = 1
  BY <1>1, <1>2
<1>6. ~IsInsn(l)
  BY ItemFields DEF IsInsn
<1> DEFINE g == FirstSide(ir, e, t, nl)
           w == TwoSides(ir, e, t, f, nl)
<1>7. g = (q \o s) \o <<c, l>> /\ w = (g \o u) \o <<d>>
  BY <1>3, <1>4
<1> HIDE DEF q, s, u, c, d, l, g, w
<1>8. (q \o s) \o <<c>> = q \o Append(s, c) /\ Listing(Append(s, c)) /\ Listing(q \o Append(s, c))
      /\ Size(q \o Append(s, c)) <= Size(q) + Size(s) + 1 /\ Size(q \o Append(s, c)) \in Nat
  <2>1. (q \o s) \o <<c>> = q \o Append(s, c)
    <3>1. SidesOn(q, s, c)
      BY <1>5, SideIs
    <3> QED BY <3>1, Zenon DEF SidesOn
  <2>2. Listing(Append(s, c)) /\ Listing(q \o Append(s, c))
    BY <1>5, SideIs
  <2>3. Size(q \o Append(s, c)) <= Size(q) + Size(s) + 1 /\ Size(q \o Append(s, c)) \in Nat
    BY <1>5, SideIs
  <2> QED BY <2>1, <2>2, <2>3
<1>9. Listing(q \o s)
  BY <1>5, ListingJoin
<1>10. g = Append(q \o Append(s, c), l)
  <2>1. (q \o s) \o <<c>> = Append(q \o s, c) /\ (q \o s) \o <<c, l>> = Append(Append(q \o s, c), l)
    BY <1>9, PushOne
  <2> QED BY <1>7, <1>8, <2>1
<1>11. Listing(g)
  BY <1>8, <1>10, PushIndex
<1>12. Size(g) = Size(q \o Append(s, c))
  <2>1. Size(Append(q \o Append(s, c), l)) = Size(q \o Append(s, c)) + (IF IsInsn(l) THEN 1 ELSE 0)
    BY <1>8, SizePush
  <2>2. Size(g) = Size(q \o Append(s, c)) + 0
    BY <1>6, <1>10, <2>1
  <2> QED BY <1>8, <2>2, SMT
<1>13. (g \o u) \o <<d>> = g \o Append(u, d) /\ Listing(Append(u, d))
      /\ Size(g \o Append(u, d)) <= Size(g) + Size(u) + 1 /\ Size(g \o Append(u, d)) \in Nat
  <2>1. (g \o u) \o <<d>> = g \o Append(u, d)
    <3>1. SidesOn(g, u, d)
      BY <1>5, <1>11, SideIs
    <3> QED BY <3>1, Zenon DEF SidesOn
  <2>2. Listing(Append(u, d))
    BY <1>5, <1>11, SideIs
  <2>3. Size(g \o Append(u, d)) <= Size(g) + Size(u) + 1 /\ Size(g \o Append(u, d)) \in Nat
    BY <1>5, <1>11, SideIs
  <2> QED BY <2>1, <2>2, <2>3
<1>14. Size(w) <= Size(g) + Size(u) + 1 /\ Size(w) \in Nat
  BY <1>7, <1>13
<1>15. Size(w) <= Size(ir) + 5
  BY <1>1, <1>5, <1>8, <1>12, <1>14, SMT
<1>16. FirstIs(ir, e, t, nl)
  BY <1>10 DEF q, s, c, l, g, FirstIs
<1>17. BothAre(ir, e, t, f, nl)
  BY <1>7, <1>13 DEF u, d, g, w, BothAre
<1> QED BY <1>8, <1>11, <1>13, <1>14, <1>15, <1>16, <1>17 DEF q, s, u, c, d, g, w

LEMMA ResultIsValue ==
  ASSUME NEW p, NEW need, NEW e, NEW y
  PROVE  Result(p, need, Verdict(e, y)) \in Values
<1>1. Verdict(e, y) \in Values
  BY DEF Verdict, Values
<1> QED BY <1>1 DEF Result, Values

LEMMA ResultShort ==
  ASSUME NEW p, NEW need, p.bytes < need, NEW w, NEW y, NEW z
  PROVE  To(Result(p, need, w), y, z) = 0
BY DEF Result, To

\* A test with one load, emitted.
LEMMA OneTest ==
  ASSUME NEW p, NEW e, OneLoad(p, e), Short(Loads(e)[1]), NEW ir, Listing(ir), NEW L, NEW w, NEW t, NEW f,
         NEW y, NEW z, L[t] = <<Everywhere, y>>, L[f] = <<Everywhere, z>>, NEW h,
         Behind(p, L, ir, <<Everywhere, w>>, <<Everywhere, To(TestSays(p, e.op, e.dir, e.val), y, z)>>)
  PROVE  Behind(p, L, OneSide(ir, e, t, f), <<Everywhere, w>>, h)
<1>1. PICK X, need, val : /\ Enters(p, e, X, need) /\ Gets(p, Loads(e)[1], X, need, val)
                    /\ TestSays(p, e.op, e.dir, e.val) = Result(p, need, Verdict(e, val))
  BY Zenon DEF OneLoad
<1> DEFINE r == To(Result(p, need, Verdict(e, val)), y, z)
           s == Append(Loads(e)[1], Condition(e, t, f))
<1>2. Behind(p, L, ir, <<Everywhere, w>>, <<Everywhere, r>>)
  BY <1>1
<1>3. p.bytes < need => r = 0
  BY ResultShort
<1>4. val \in Nat /\ X \subseteq Nat
  BY <1>1, Zenon DEF Gets, Enters
<1>5. \A o \in {val} \X X : o \in Everywhere
  BY <1>4 DEF Everywhere
<1>6. Behind(p, L, s, <<Nat \X X, r>>, h)
  BY <1>1, <1>5, SideLeads
<1> HIDE DEF r, s
<1>7. Behind(p, L, Prelude(e), <<Everywhere, r>>, <<Nat \X X, r>>)
  BY <1>1, <1>3, Zenon DEF Enters
<1>8. Listing(Prelude(e)) /\ Listing(Start(ir, e))
  BY StartIs
<1>9. Behind(p, L, Start(ir, e), <<Everywhere, w>>, <<Nat \X X, r>>)
  <2>1. Behind(p, L, ir \o Prelude(e), <<Everywhere, w>>, <<Nat \X X, r>>)
    BY <1>2, <1>7, <1>8, ListingBehind
  <2> QED BY <2>1, Zenon DEF Start
<1>10. OneSide(ir, e, t, f) = Start(ir, e) \o s /\ Listing(s)
  BY OneSideIs DEF s
<1>11. Behind(p, L, Start(ir, e) \o s, <<Everywhere, w>>, h)
  BY <1>6, <1>8, <1>9, <1>10, ListingBehind
<1> QED BY <1>10, <1>11

\* A test with two loads, emitted with a new label between them.
LEMMA TwoTests ==
  ASSUME NEW p, NEW e, One(Loads(e)[1]), One(Loads(e)[2]), NEW ir, Listing(ir), NEW L, NEW w,
         NEW t, NEW f, NEW nl \in Nat, NEW y, NEW z, L[t] = <<Everywhere, y>>, L[f] = <<Everywhere, z>>, NEW h,
         NEW X, NEW need, NEW val, NEW n2, NEW v2,
         Enters(p, e, X, need), Gets(p, Loads(e)[1], X, need, val), Gets(p, Loads(e)[2], X, n2, v2),
         L[nl] = <<Nat \X X, To(Result(p, n2, Verdict(e, v2)), y, z)>>,
         Behind(p, L, ir, <<Everywhere, w>>,
                <<Everywhere, To(Disj(Result(p, need, Verdict(e, val)), Result(p, n2, Verdict(e, v2))), y, z)>>)
  PROVE  Behind(p, L, TwoSides(ir, e, t, f, nl), <<Everywhere, w>>, h)
<1> DEFINE R1 == Result(p, need, Verdict(e, val))
           R2 == Result(p, n2, Verdict(e, v2))
           r2 == To(R2, y, z)
           r == To(R1, y, r2)
           s == Append(Loads(e)[1], Condition(e, t, nl))
           u == Append(Loads(e)[2], Condition(e, t, f))
           g == <<Nat \X X, r2>>
           q == Start(ir, e)
<1>1. R1 \in Values /\ R2 \in Values
  BY ResultIsValue
<1>2. To(Disj(R1, R2), y, z) = r
  <2> HIDE DEF R1, R2
  <2> QED BY <1>1, ToJunction
<1>3. Behind(p, L, ir, <<Everywhere, w>>, <<Everywhere, r>>)
  BY <1>2
<1>4. p.bytes < need => r = 0
  BY ResultShort
<1>5. val \in Nat /\ v2 \in Nat /\ X \subseteq Nat
  BY Zenon DEF Gets, Enters
<1>6. \A o \in {val} \X X : o \in Everywhere /\ o \in Nat \X X
  BY <1>5 DEF Everywhere
<1>7. \A o \in {v2} \X X : o \in Everywhere
  BY <1>5 DEF Everywhere
<1>8. Short(Loads(e)[1]) /\ Short(Loads(e)[2])
  BY ShortSize
<1>9. Behind(p, L, u, g, h)
  BY <1>7, <1>8, SideLeads
<1>10. L[nl] = <<Nat \X X, r2>>
  OBVIOUS
<1>11. Behind(p, L, s, <<Nat \X X, r>>, g)
  <2> HIDE DEF r2, g, R2
  <2> QED BY <1>6, <1>8, <1>10, SideLeads
<1>12. g = L[nl]
  OBVIOUS
<1> HIDE DEF R1, R2, r2, r, s, u, g, q
<1>13. Leads(p, L, Label(nl), g, g)
  BY <1>12, Zenon DEF Leads
<1>14. Behind(p, L, Prelude(e), <<Everywhere, r>>, <<Nat \X X, r>>)
  BY <1>4, Zenon DEF Enters
<1>15. Listing(Prelude(e)) /\ Listing(q)
  BY StartIs DEF q
<1>16. Behind(p, L, q, <<Everywhere, w>>, <<Nat \X X, r>>)
  <2>1. Behind(p, L, ir \o Prelude(e), <<Everywhere, w>>, <<Nat \X X, r>>)
    BY <1>3, <1>14, <1>15, ListingBehind
  <2> QED BY <2>1, Zenon DEF Start, q
<1>17. /\ FirstSide(ir, e, t, nl) = Append(q \o s, Label(nl)) /\ Listing(s) /\ Listing(q \o s)
       /\ TwoSides(ir, e, t, f, nl) = FirstSide(ir, e, t, nl) \o u /\ Listing(u) /\ Listing(FirstSide(ir, e, t, nl))
  <2>1. FirstIs(ir, e, t, nl) /\ BothAre(ir, e, t, f, nl)
    BY TwoSidesIs
  <2>3. Listing(s) /\ Listing(u)
    BY TwoSidesIs DEF s, u
  <2>4. Listing(q \o s)
    BY TwoSidesIs DEF q, s
  <2>5. Listing(FirstSide(ir, e, t, nl))
    BY TwoSidesIs
  <2>6. FirstSide(ir, e, t, nl) = Append(q \o s, Label(nl))
    BY <2>1, Zenon DEF q, s, FirstIs
  <2>7. TwoSides(ir, e, t, f, nl) = FirstSide(ir, e, t, nl) \o u
    BY <2>1, Zenon DEF u, BothAre
  <2> QED BY <2>3, <2>4, <2>5, <2>6, <2>7
<1>18. Behind(p, L, q \o s, <<Everywhere, w>>, g)
  BY <1>11, <1>15, <1>16, <1>17, ListingBehind
<1>19. Behind(p, L, FirstSide(ir, e, t, nl), <<Everywhere, w>>, g)
  <2>1. PICK S : q \o s \in Seq(S)
    BY <1>17, Zenon DEF Listing
  <2>2. Behind(p, L, Append(q \o s, Label(nl)), <<Everywhere, w>>, g)
    BY <1>13, <1>18, <2>1, BehindPush
  <2> QED BY <1>17, <2>2
<1>20. Behind(p, L, FirstSide(ir, e, t, nl) \o u, <<Everywhere, w>>, h)
  BY <1>9, <1>17, <1>19, ListingBehind
<1> QED BY <1>17, <1>20

LEMMA TestLeft ==
  ASSUME NEW p, NEW L, NEW td, Listing(td), td # <<>>, NEW r, NEW n, Ahead(p, L, td, r, n),
         NEW c, c = td[Len(td)], c.ir = "call", c.e.op \in Tests
  PROVE  TestLeaves(p, L, Back(td), c, r, n)
<1>1. PICK r1, n1, v, k, y, u :
           /\ Ahead(p, L, Back(td), r1, n1) /\ n1 \in Nat
           /\ TreeSays(p, c.e, v) /\ TreeTests(c.e, k)
           /\ L[c.t] = <<Everywhere, y>> /\ L[c.f] = <<Everywhere, u>>
           /\ r = To(v, y, u) /\ n = n1 + 5 * k
  <2>1. td[Len(td)].ir = "call"
    OBVIOUS
  <2>2. CallSays(p, L, Back(td), td[Len(td)], r, n)
    BY <2>1, CallMeans
  <2>3. CallSays(p, L, Back(td), c, r, n)
    BY <2>2
  <2> QED BY <2>3, Zenon DEF CallSays
<1>2. v = TestSays(p, c.e.op, c.e.dir, c.e.val) /\ k = 1
  BY <1>1, OperandSays
<1>3. n = n1 + 5 /\ r = To(TestSays(p, c.e.op, c.e.dir, c.e.val), y, u)
  BY <1>1, <1>2
<1> QED BY <1>1, <1>3, Zenon DEF TestLeaves

\* compile_expr for a test with one load.
LEMMA OneTestCodes ==
  ASSUME NEW p, NEW w, NEW ir, NEW td, NEW z \in Nat, Listing(ir), Listing(td), td # <<>>,
         NEW c, c = td[Len(td)], c.ir = "call", c.e.op \in Tests, Len(Loads(c.e)) = 1, Codes(p, w, ir, td, z)
  PROVE  Codes(p, w, OneSide(ir, c.e, c.t, c.f), Back(td), z)
<1>1. PICK L, r, n : Coded(p, L, w, ir, td, r, n, z)
  BY Zenon DEF Codes
<1>2. Ahead(p, L, td, r, n) /\ Size(ir) + n <= z
      /\ (p \in Packets => Behind(p, L, ir, <<Everywhere, w>>, <<Everywhere, r>>))
  BY <1>1, Zenon DEF Coded
<1>3. PICK n1, y, u :
     /\ \E r1 : Ahead(p, L, Back(td), r1, n1)
     /\ n1 \in Nat /\ n = n1 + 5
     /\ L[c.t] = <<Everywhere, y>> /\ L[c.f] = <<Everywhere, u>>
     /\ r = To(TestSays(p, c.e.op, c.e.dir, c.e.val), y, u)
  <2>1. TestLeaves(p, L, Back(td), c, r, n)
    BY <1>2, TestLeft
  <2> QED BY <2>1, Zenon DEF TestLeaves
<1>4. PICK r1 : Ahead(p, L, Back(td), r1, n1)
  BY <1>3
<1>5. Short(Loads(c.e)[1])
  <2>1. \/ Len(Loads(c.e)) = 1 /\ Short(Loads(c.e)[1])
        \/ Len(Loads(c.e)) = 2 /\ One(Loads(c.e)[1]) /\ One(Loads(c.e)[2])
    BY LoadsShape
  <2> QED BY <2>1
<1>6. Size(OneSide(ir, c.e, c.t, c.f)) \in Nat /\ Size(OneSide(ir, c.e, c.t, c.f)) <= Size(ir) + 5
  BY <1>5, OneSideIs
<1>7. Size(ir) \in Nat
  BY SizeIsNat
<1>8. Size(OneSide(ir, c.e, c.t, c.f)) + n1 <= z
  BY <1>2, <1>3, <1>6, <1>7, SMT
<1>9. p \in Packets => Behind(p, L, OneSide(ir, c.e, c.t, c.f), <<Everywhere, w>>, <<Everywhere, r1>>)
  <2> SUFFICES ASSUME p \in Packets PROVE Behind(p, L, OneSide(ir, c.e, c.t, c.f), <<Everywhere, w>>, <<Everywhere, r1>>)
    OBVIOUS
  <2>1. OneLoad(p, c.e)
    BY TestShape
  <2>2. Behind(p, L, ir, <<Everywhere, w>>, <<Everywhere, To(TestSays(p, c.e.op, c.e.dir, c.e.val), y, u)>>)
    BY <1>2, <1>3
  <2> QED BY <1>3, <1>5, <2>1, <2>2, OneTest
<1> QED BY <1>4, <1>8, <1>9, Zenon DEF Codes, Coded

\* compile_expr for a test with two loads.
LEMMA TwoTestsCodes ==
  ASSUME NEW p, NEW w, NEW ir, NEW td, NEW nl, NEW z \in Nat, Layout(ir, td, nl), td # <<>>,
         NEW c, c = td[Len(td)], c.ir = "call", c.e.op \in Tests, Len(Loads(c.e)) = 2, Codes(p, w, ir, td, z)
  PROVE  Codes(p, w, TwoSides(ir, c.e, c.t, c.f, nl), Back(td), z)
<1>0. nl \in Nat /\ Listing(ir) /\ Listing(td)
  BY LayoutParts
<1>1. PICK L, r, n : Coded(p, L, w, ir, td, r, n, z)
  BY Zenon DEF Codes
<1>2. Ahead(p, L, td, r, n) /\ Size(ir) + n <= z
      /\ (p \in Packets => Behind(p, L, ir, <<Everywhere, w>>, <<Everywhere, r>>))
  BY <1>1, Zenon DEF Coded
<1>3. PICK n1, y, u :
     /\ \E r1 : Ahead(p, L, Back(td), r1, n1)
     /\ n1 \in Nat /\ n = n1 + 5
     /\ L[c.t] = <<Everywhere, y>> /\ L[c.f] = <<Everywhere, u>>
     /\ r = To(TestSays(p, c.e.op, c.e.dir, c.e.val), y, u)
  <2>1. TestLeaves(p, L, Back(td), c, r, n)
    BY <1>0, <1>2, TestLeft
  <2> QED BY <2>1, Zenon DEF TestLeaves
<1>4. PICK r1 : Ahead(p, L, Back(td), r1, n1)
  BY <1>3
<1>5. One(Loads(c.e)[1]) /\ One(Loads(c.e)[2])
  <2>1. \/ Len(Loads(c.e)) = 1 /\ Short(Loads(c.e)[1])
        \/ Len(Loads(c.e)) = 2 /\ One(Loads(c.e)[1]) /\ One(Loads(c.e)[2])
    BY LoadsShape
  <2> QED BY <2>1
<1> DEFINE two == TwoSides(ir, c.e, c.t, c.f, nl)
<1>6. Size(two) \in Nat /\ Size(two) <= Size(ir) + 5
  BY <1>0, <1>5, TwoSidesIs
<1>7. Size(ir) \in Nat
  BY <1>0, SizeIsNat
<1> HIDE DEF two
<1>8. Size(two) + n1 <= z
  BY <1>2, <1>3, <1>6, <1>7, SMT
<1>9. CASE p \notin Packets
  <2>1. Coded(p, L, w, two, Back(td), r1, n1, z)
    BY <1>4, <1>8, <1>9, Zenon DEF Coded
  <2> QED BY <2>1, Zenon DEF Codes, two
<1>10. CASE p \in Packets
  <2>1. TwoLoads(p, c.e)
    BY <1>10, TestShape
  <2>2. PICK X, need, val, n2, v2 :
     /\ Enters(p, c.e, X, need) /\ Gets(p, Loads(c.e)[1], X, need, val) /\ Gets(p, Loads(c.e)[2], X, n2, v2)
     /\ TestSays(p, c.e.op, c.e.dir, c.e.val) = Disj(Result(p, need, Verdict(c.e, val)), Result(p, n2, Verdict(c.e, v2)))
    BY <2>1, Zenon DEF TwoLoads
  <2> DEFINE g == <<Nat \X X, To(Result(p, n2, Verdict(c.e, v2)), y, u)>>
             M == Relabel(L, nl, g)
  <2>3. M[nl] = g /\ Agree(L, M, nl)
    <3> HIDE DEF g
    <3>1. M[nl] = g
      <4>1. Relabel(L, nl, g)[nl] = g
        BY <1>0, Zenon DEF Relabel
      <4> QED BY <4>1
    <3>2. Agree(L, M, nl)
      BY <1>0, Relabelled
    <3> QED BY <3>1, <3>2
  <2> HIDE DEF M
  <2>4. /\ Layout(ir, Back(td), nl)
        /\ Waiting(Back(td), nl, c.t) /\ Waiting(Back(td), nl, c.f)
    BY LayoutCall
  <2>5. M[c.t] = <<Everywhere, y>> /\ M[c.f] = <<Everywhere, u>>
    <3>1. c.t \in 0..(nl - 1) /\ c.f \in 0..(nl - 1)
      BY <2>4, Zenon DEF Waiting
    <3>2. M[c.t] = L[c.t] /\ M[c.f] = L[c.f]
      BY <2>3, <3>1, Zenon DEF Agree
    <3> QED BY <1>3, <3>2
  <2>6. Ahead(p, M, Back(td), r1, n1)
    BY <1>4, <2>3, <2>4, LayoutSame
  <2>7. Behind(p, M, ir, <<Everywhere, w>>, <<Everywhere, r>>)
    BY <1>2, <1>10, <2>3, <2>4, LayoutSame
  <2>8. Behind(p, M, ir, <<Everywhere, w>>, <<Everywhere, To(Disj(Result(p, need, Verdict(c.e, val)), Result(p, n2, Verdict(c.e, v2))), y, u)>>)
    BY <1>3, <2>2, <2>7
  <2>9. M[nl] = <<Nat \X X, To(Result(p, n2, Verdict(c.e, v2)), y, u)>>
    BY <2>3
  <2>10. Behind(p, M, TwoSides(ir, c.e, c.t, c.f, nl), <<Everywhere, w>>, <<Everywhere, r1>>)
    BY <1>0, <1>5, <2>2, <2>5, <2>8, <2>9, TwoTests
  <2>11. Behind(p, M, two, <<Everywhere, w>>, <<Everywhere, r1>>)
    BY <2>10 DEF two
  <2>12. Coded(p, M, w, two, Back(td), r1, n1, z)
    BY <1>8, <2>6, <2>11, Zenon DEF Coded
  <2> QED BY <2>12, Zenon DEF Codes, two
<1> QED BY <1>9, <1>10

LEMMA BackPush ==
  ASSUME NEW q, Listing(q), NEW c
  PROVE  /\ Back(Append(q, c)) = q
         /\ Append(q, c)[Len(Append(q, c))] = c
<1>1. PICK S : q \in Seq(S)
  BY Zenon DEF Listing
<1> DEFINE R == S \cup {c}
<1>2. q \in Seq(R) /\ c \in R
  BY <1>1, SMT
<1> HIDE DEF R
<1>3. Back(Append(q, c)) = q
  BY <1>2, SMT DEF Back
<1>4. Append(q, c)[Len(Append(q, c))] = c
  BY <1>2, SMT
<1> QED BY <1>3, <1>4

LEMMA ConditionFields ==
  ASSUME NEW e, NEW t, NEW f
  PROVE  LET c == Condition(e, t, f)
         IN  c.ir = "cond" /\ ((c.t = t /\ c.f = f) \/ (c.t = f /\ c.f = t))
<1> DEFINE c == Condition(e, t, f)
<1>1. CASE e.op = "inbound"
  BY <1>1, ConditionOf, ItemFields
<1>2. CASE e.op \in {"outbound", "loopback", "impostor"}
  BY <1>2, ConditionOf, ItemFields
<1>3. CASE e.op \notin {"inbound", "outbound", "loopback", "impostor"}
  BY <1>3, ConditionOf, ItemFields
<1> QED BY <1>1, <1>2, <1>3

LEMMA PlainPushed ==
  ASSUME NEW ir, NEW td, NEW n, Layout(ir, td, n), NEW s, Short(s)
  PROVE  Layout(ir \o s, td, n) /\ ir \o s # <<>> /\ IsInsn((ir \o s)[Len(ir \o s)])
<1>1. \A i : Plain(i).ir \in {"insn", "cond"} /\ Plain(i).ir # "cond"
  BY ItemFields
<1>2. Listing(ir)
  BY LayoutParts
<1>3. ASSUME NEW i
      PROVE  LET q == Append(ir, Plain(i)) IN Layout(q, td, n) /\ q # <<>> /\ IsInsn(q[Len(q)]) /\ ir \o <<Plain(i)>> = q
  BY <1>1, <1>2, LayoutPush, PushOne
<1>4. ASSUME NEW i, NEW j
      PROVE  LET q == Append(Append(ir, Plain(i)), Plain(j))
             IN  Layout(q, td, n) /\ q # <<>> /\ IsInsn(q[Len(q)]) /\ ir \o <<Plain(i), Plain(j)>> = q
  <2> DEFINE k == Append(ir, Plain(i))
  <2>1. Layout(k, td, n)
    BY <1>3
  <2> HIDE DEF k
  <2>2. Layout(Append(k, Plain(j)), td, n) /\ Append(k, Plain(j)) # <<>>
        /\ IsInsn(Append(k, Plain(j))[Len(Append(k, Plain(j)))])
    BY <1>1, <2>1, LayoutPush
  <2>3. ir \o <<Plain(i), Plain(j)>> = Append(k, Plain(j))
    BY <1>2, PushOne DEF k
  <2> QED BY <2>2, <2>3 DEF k
<1>5. CASE \E i : s = <<Plain(i)>>
  <2>1. PICK i : s = <<Plain(i)>>
    BY <1>5
  <2> DEFINE q == Append(ir, Plain(i))
  <2>2. Layout(q, td, n) /\ q # <<>> /\ IsInsn(q[Len(q)]) /\ ir \o <<Plain(i)>> = q
    BY <1>3
  <2> HIDE DEF q
  <2>3. ir \o s = q
    BY <2>1, <2>2
  <2> QED BY <2>2, <2>3
<1>6. CASE \E i, j : s = <<Plain(i), Plain(j)>>
  <2>1. PICK i, j : s = <<Plain(i), Plain(j)>>
    BY <1>6
  <2> DEFINE q == Append(Append(ir, Plain(i)), Plain(j))
  <2>2. Layout(q, td, n) /\ q # <<>> /\ IsInsn(q[Len(q)]) /\ ir \o <<Plain(i), Plain(j)>> = q
    BY <1>4
  <2> HIDE DEF q
  <2>3. ir \o s = q
    BY <2>1, <2>2
  <2> QED BY <2>2, <2>3
<1> QED BY <1>5, <1>6 DEF Short

LEMMA StartLayout ==
  ASSUME NEW ir, NEW td, NEW n, Layout(ir, td, n), NEW e
  PROVE  Layout(Start(ir, e), td, n)
<1>1. CASE Prelude(e) = <<>>
  <2>1. Listing(ir) /\ Listing(<<>>)
    BY LayoutParts, ListingFew
  <2>2. ir \o <<>> = ir
    BY <2>1, ListingJoin
  <2>3. Start(ir, e) = ir
    BY <1>1, <2>2 DEF Start
  <2> QED BY <2>3
<1>2. CASE One(Prelude(e))
  <2>1. Short(Prelude(e))
    BY <1>2, ShortSize
  <2>2. Layout(ir \o Prelude(e), td, n)
    BY <2>1, PlainPushed
  <2> QED BY <2>2 DEF Start
<1> QED BY <1>1, <1>2, PreludeShape

\* A side of a test: its loads and the jump.
LEMMA SideLayout ==
  ASSUME NEW ir, NEW td, NEW n, Layout(ir, td, n), NEW s, Short(s), NEW e, NEW t, NEW f,
         Waiting(td, n, t), Waiting(td, n, f)
  PROVE  Layout(Append(ir \o s, Condition(e, t, f)), td, n)
<1> DEFINE q == ir \o s
           c == Condition(e, t, f)
<1>1. Layout(q, td, n) /\ q # <<>> /\ IsInsn(q[Len(q)])
  BY PlainPushed
<1>2. c.ir = "cond" /\ ((c.t = t /\ c.f = f) \/ (c.t = f /\ c.f = t))
  BY ConditionFields
<1> HIDE DEF q, c
<1>3. c.ir \in {"insn", "cond"} /\ Waiting(td, n, c.t) /\ Waiting(td, n, c.f)
  BY <1>2
<1>4. Layout(Append(q, c), td, n)
  BY <1>1, <1>3, LayoutPush
<1> QED BY <1>4 DEF q, c

LEMMA OneTestLayout ==
  ASSUME NEW ir, NEW td, NEW n, Layout(ir, td, n), td # <<>>, NEW c, c = td[Len(td)], c.ir = "call",
         Short(Loads(c.e)[1])
  PROVE  Layout(OneSide(ir, c.e, c.t, c.f), Back(td), n)
<1>1. Layout(ir, Back(td), n) /\ Waiting(Back(td), n, c.t) /\ Waiting(Back(td), n, c.f)
  BY LayoutCall
<1> DEFINE q == Start(ir, c.e)
           s == Loads(c.e)[1]
<1>2. Layout(q, Back(td), n)
  BY <1>1, StartLayout
<1>3. Listing(q) /\ Listing(s) /\ Short(s)
  BY <1>2, LayoutParts, ShortListing
<1>4. OneSide(ir, c.e, c.t, c.f) = (q \o s) \o <<Condition(c.e, c.t, c.f)>>
  BY DEF OneSide
<1> HIDE DEF q, s
<1>5. Layout(Append(q \o s, Condition(c.e, c.t, c.f)), Back(td), n)
  BY <1>1, <1>2, <1>3, SideLayout
<1>6. Listing(q \o s)
  BY <1>3, ListingJoin
<1>7. (q \o s) \o <<Condition(c.e, c.t, c.f)>> = Append(q \o s, Condition(c.e, c.t, c.f))
  BY <1>6, PushOne
<1> QED BY <1>4, <1>5, <1>7

LEMMA WaitingNonEmpty ==
  ASSUME NEW td, NEW n, NEW l, Waiting(td, n, l)
  PROVE  td # <<>>
<1>1. PICK k \in 1..Len(td) : td[k] = Label(l)
  BY DEF Waiting, IsIn
<1> QED BY <1>1

LEMMA TwoTestsLayout ==
  ASSUME NEW ir, NEW td, NEW n, Layout(ir, td, n), td # <<>>, NEW c, c = td[Len(td)], c.ir = "call",
         One(Loads(c.e)[1]), One(Loads(c.e)[2])
  PROVE  Layout(TwoSides(ir, c.e, c.t, c.f, n), Back(td), n + 1)
<1> DEFINE bt == Back(td)
           lt == Append(bt, Label(n))
           q == Start(ir, c.e)
           s == Loads(c.e)[1]
           u == Loads(c.e)[2]
           first == FirstSide(ir, c.e, c.t, n)
<1>1. Layout(ir, bt, n) /\ Waiting(bt, n, c.t) /\ Waiting(bt, n, c.f)
  BY LayoutCall
<1>2. Listing(s) /\ Short(s) /\ Listing(u) /\ Short(u)
  BY ShortListing, ShortSize
<1>3. first = (q \o s) \o <<Condition(c.e, c.t, n), Label(n)>>
  BY DEF FirstSide
<1>4. TwoSides(ir, c.e, c.t, c.f, n) = (first \o u) \o <<Condition(c.e, c.t, c.f)>>
  BY DEF TwoSides
<1> HIDE DEF bt
<1>5. Listing(bt) /\ bt # <<>>
  BY <1>1, WaitingNonEmpty, LayoutParts
<1>6. Layout(ir, lt, n + 1) /\ lt # <<>> /\ Waiting(lt, n + 1, n)
      /\ Waiting(lt, n + 1, c.t) /\ c.t # n /\ Waiting(lt, n + 1, c.f) /\ c.f # n
  BY <1>1, <1>5, LayoutNewLabel
<1>7. Layout(q, lt, n + 1)
  BY <1>6, StartLayout
<1>8. Listing(q)
  BY <1>7, LayoutParts
<1> HIDE DEF q, s, u
<1> DEFINE k == Append(q \o s, Condition(c.e, c.t, n))
<1>9. Layout(k, lt, n + 1)
  BY <1>2, <1>6, <1>7, SideLayout
<1>10. Back(lt) = bt /\ lt[Len(lt)] = Label(n)
  BY <1>5, BackPush
<1> HIDE DEF lt, k
<1>11. Label(n).ir # "call"
  BY ItemFields
<1>12. Layout(Append(k, Label(n)), bt, n + 1)
  <2>1. lt[Len(lt)].ir # "call"
    BY <1>10, <1>11
  <2>2. Layout(Append(k, lt[Len(lt)]), Back(lt), n + 1)
    BY <1>6, <1>9, <2>1, LayoutEmit
  <2> QED BY <1>10, <2>2
<1>13. ASSUME NEW l, Waiting(lt, n + 1, l), l # n PROVE Waiting(bt, n + 1, l)
  <2>1. Label(n) # Label(l)
    BY <1>13, Kinds
  <2>2. lt[Len(lt)].ir # "call" /\ lt[Len(lt)] # Label(l)
    BY <1>10, <1>11, <2>1
  <2>3. Waiting(Back(lt), n + 1, l)
    BY <1>6, <1>9, <1>13, <2>2, LayoutEmit
  <2> QED BY <1>10, <2>3
<1>14. Waiting(bt, n + 1, c.t) /\ Waiting(bt, n + 1, c.f)
  BY <1>6, <1>13
<1>15. first = Append(k, Label(n))
  <2>1. Listing(q \o s)
    BY <1>2, <1>8, ListingJoin
  <2> QED BY <1>3, <2>1, PushOne DEF k
<1> HIDE DEF first
<1>16. Layout(first, bt, n + 1)
  BY <1>12, <1>15
<1>17. Layout(Append(first \o u, Condition(c.e, c.t, c.f)), bt, n + 1)
  BY <1>2, <1>14, <1>16, SideLayout
<1>18. (first \o u) \o <<Condition(c.e, c.t, c.f)>> = Append(first \o u, Condition(c.e, c.t, c.f))
  <2>1. Listing(first)
    BY <1>16, LayoutParts
  <2>2. Listing(first \o u)
    BY <1>2, <2>1, ListingJoin
  <2> QED BY <2>2, PushOne
<1>19. Layout(TwoSides(ir, c.e, c.t, c.f, n), bt, n + 1)
  BY <1>4, <1>17, <1>18
<1> QED BY <1>19 DEF bt

LEMMA JunctionLayout ==
  ASSUME NEW ir, NEW td, NEW n, Layout(ir, td, n), td # <<>>, NEW c, c = td[Len(td)], c.ir = "call", NEW e, NEW g
  PROVE  LET t2 == Append(Append(Back(td), CompileExpr(e, c.t, c.f)), Label(n))
         IN  /\ Layout(ir, Append(t2, CompileExpr(g, n, c.f)), n + 1)
             /\ Layout(ir, Append(t2, CompileExpr(g, c.t, n)), n + 1)
<1> DEFINE bt == Back(td)
           t1 == Append(bt, CompileExpr(e, c.t, c.f))
           t2 == Append(t1, Label(n))
<1>1. Layout(ir, bt, n) /\ Waiting(bt, n, c.t) /\ Waiting(bt, n, c.f)
  BY LayoutCall
<1> HIDE DEF bt
<1>2. bt # <<>>
  BY <1>1, WaitingNonEmpty
<1>3. Layout(ir, t1, n) /\ t1 # <<>> /\ Waiting(t1, n, c.t) /\ Waiting(t1, n, c.f)
  BY <1>1, <1>2, LayoutPushCall
<1> HIDE DEF t1
<1>4. Layout(ir, t2, n + 1) /\ t2 # <<>> /\ Waiting(t2, n + 1, n)
      /\ Waiting(t2, n + 1, c.t) /\ Waiting(t2, n + 1, c.f)
  BY <1>3, LayoutNewLabel
<1> HIDE DEF t2
<1>5. Layout(ir, Append(t2, CompileExpr(g, n, c.f)), n + 1) /\ Layout(ir, Append(t2, CompileExpr(g, c.t, n)), n + 1)
  BY <1>4, LayoutPushCall
<1> QED BY <1>5 DEF t2, t1, bt

LEMMA NegationLayout ==
  ASSUME NEW ir, NEW td, NEW n, Layout(ir, td, n), td # <<>>, NEW c, c = td[Len(td)], c.ir = "call", NEW e
  PROVE  Layout(ir, Append(Back(td), CompileExpr(e, c.f, c.t)), n)
<1> DEFINE bt == Back(td)
<1>1. Layout(ir, bt, n) /\ Waiting(bt, n, c.t) /\ Waiting(bt, n, c.f)
  BY LayoutCall
<1> HIDE DEF bt
<1>2. bt # <<>>
  BY <1>1, WaitingNonEmpty
<1>3. Layout(ir, Append(bt, CompileExpr(e, c.f, c.t)), n)
  BY <1>1, <1>2, LayoutPushCall
<1> QED BY <1>3 DEF bt

\* Sequences with the same items are equal.
LEMMA SameSeq ==
  ASSUME NEW S, NEW s \in Seq(S), NEW q \in Seq(S), Len(s) = Len(q), \A i \in 1..Len(s) : s[i] = q[i]
  PROVE  s = q
  OBVIOUS

LEMMA Tuple2 ==
  ASSUME NEW c1, NEW c2
  PROVE  Append(<<c1>>, c2) = <<c1, c2>>
<1> DEFINE S == {c1, c2}
           s == Append(<<c1>>, c2)
           q == <<c1, c2>>
<1>1. c1 \in S /\ c2 \in S
  OBVIOUS
<1> HIDE DEF S
<1>2. s \in Seq(S) /\ Len(s) = 2 /\ s[1] = c1 /\ s[2] = c2
  BY <1>1
<1>3. q \in Seq(S) /\ Len(q) = 2 /\ q[1] = c1 /\ q[2] = c2
  BY <1>1
<1> HIDE DEF s, q
<1>4. Len(s) = Len(q) /\ \A i \in 1..Len(s) : s[i] = q[i]
  BY <1>2, <1>3
<1>5. s = q
  BY <1>2, <1>3, <1>4, SameSeq
<1> QED BY <1>5 DEF s, q

LEMMA Tuple3 ==
  ASSUME NEW c1, NEW c2, NEW c3
  PROVE  Append(<<c1, c2>>, c3) = <<c1, c2, c3>>
<1> DEFINE S == {c1, c2, c3}
           s == Append(<<c1, c2>>, c3)
           q == <<c1, c2, c3>>
<1>1. c1 \in S /\ c2 \in S /\ c3 \in S
  OBVIOUS
<1> HIDE DEF S
<1>2. s \in Seq(S) /\ Len(s) = 3 /\ s[1] = c1 /\ s[2] = c2 /\ s[3] = c3
  BY <1>1
<1>3. q \in Seq(S) /\ Len(q) = 3 /\ q[1] = c1 /\ q[2] = c2 /\ q[3] = c3
  BY <1>1
<1> HIDE DEF s, q
<1>4. Len(s) = Len(q) /\ \A i \in 1..Len(s) : s[i] = q[i]
  BY <1>2, <1>3
<1>5. s = q
  BY <1>2, <1>3, <1>4, SameSeq
<1> QED BY <1>5 DEF s, q

LEMMA Tuple4 ==
  ASSUME NEW c1, NEW c2, NEW c3, NEW c4
  PROVE  Append(<<c1, c2, c3>>, c4) = <<c1, c2, c3, c4>>
<1> DEFINE S == {c1, c2, c3, c4}
           s == Append(<<c1, c2, c3>>, c4)
           q == <<c1, c2, c3, c4>>
<1>1. c1 \in S /\ c2 \in S /\ c3 \in S /\ c4 \in S
  OBVIOUS
<1> HIDE DEF S
<1>2. s \in Seq(S) /\ Len(s) = 4 /\ s[1] = c1 /\ s[2] = c2 /\ s[3] = c3 /\ s[4] = c4
  BY <1>1
<1>3. q \in Seq(S) /\ Len(q) = 4 /\ q[1] = c1 /\ q[2] = c2 /\ q[3] = c3 /\ q[4] = c4
  BY <1>1
<1> HIDE DEF s, q
<1>4. Len(s) = Len(q) /\ \A i \in 1..Len(s) : s[i] = q[i]
  BY <1>2, <1>3
<1>5. s = q
  BY <1>2, <1>3, <1>4, SameSeq
<1> QED BY <1>5 DEF s, q

LEMMA Tuple5 ==
  ASSUME NEW c1, NEW c2, NEW c3, NEW c4, NEW c5
  PROVE  Append(<<c1, c2, c3, c4>>, c5) = <<c1, c2, c3, c4, c5>>
<1> DEFINE S == {c1, c2, c3, c4, c5}
           s == Append(<<c1, c2, c3, c4>>, c5)
           q == <<c1, c2, c3, c4, c5>>
<1>1. c1 \in S /\ c2 \in S /\ c3 \in S /\ c4 \in S /\ c5 \in S
  OBVIOUS
<1> HIDE DEF S
<1>2. s \in Seq(S) /\ Len(s) = 5 /\ s[1] = c1 /\ s[2] = c2 /\ s[3] = c3 /\ s[4] = c4 /\ s[5] = c5
  BY <1>1
<1>3. q \in Seq(S) /\ Len(q) = 5 /\ q[1] = c1 /\ q[2] = c2 /\ q[3] = c3 /\ q[4] = c4 /\ q[5] = c5
  BY <1>1
<1> HIDE DEF s, q
<1>4. Len(s) = Len(q) /\ \A i \in 1..Len(s) : s[i] = q[i]
  BY <1>2, <1>3
<1>5. s = q
  BY <1>2, <1>3, <1>4, SameSeq
<1> QED BY <1>5 DEF s, q

\* To begin with, the tree says what is to be returned.
LEMMA FirstCodes ==
  ASSUME NEW p, NEW e, NEW v, NEW k, TreeSays(p, e, v), TreeTests(e, k), NEW A \in Nat, k <= A
  PROVE  Codes(p, To(v, U32Max, 0), <<>>, FirstToDo(e), 5 * A + 2)
<1> DEFINE L == [l \in Nat |-> IF l = 0 THEN <<Everywhere, U32Max>> ELSE <<Everywhere, 0>>]
           c1 == Plain(Ret(0))
           c3 == Plain(Ret(U32Max))
           c5 == CompileExpr(e, 0, 1)
           w == To(v, U32Max, 0)
<1>1. L[0] = <<Everywhere, U32Max>> /\ L[1] = <<Everywhere, 0>>
  OBVIOUS
<1>2. 0 \in {0, U32Max} /\ U32Max \in {0, U32Max}
  OBVIOUS
<1> HIDE DEF L, w
<1>3. Ahead(p, L, <<>>, 0, 0)
  BY AheadNone
<1>4. <<>> \in Seq({})
  OBVIOUS
<1>5. Ahead(p, L, Append(<<>>, c1), 0, 0 + 1)
  <2> HIDE DEF U32Max
  <2>1. 0 \in {0, U32Max}
    OBVIOUS
  <2> QED BY <1>3, <1>4, <2>1, AheadRet
<1>6. Ahead(p, L, <<c1>>, 0, 1)
  <2> HIDE DEF c1
  <2>1. Append(<<>>, c1) = <<c1>> /\ 0 + 1 = 1
    OBVIOUS
  <2> QED BY <1>5, <2>1
<1> HIDE DEF c1, c3
<1>7. Ahead(p, L, Append(<<c1>>, Label(1)), 0, 1)
  <2>1. <<c1>> \in Seq({c1})
    OBVIOUS
  <2>2. 1 \in Nat
    OBVIOUS
  <2> QED BY <1>1, <1>6, <2>1, <2>2, AheadLabel
<1> DEFINE c2 == Label(1)
           c4 == Label(0)
<1>8. Ahead(p, L, <<c1, c2>>, 0, 1)
  <2>1. Append(<<c1>>, c2) = <<c1, c2>>
    BY Tuple2, Zenon
  <2> QED BY <1>7, <2>1
<1>9. Ahead(p, L, <<c1, c2, c3>>, U32Max, 2)
  <2> HIDE DEF c2
  <2>1. <<c1, c2>> \in Seq({c1, c2})
    OBVIOUS
  <2>2. Ahead(p, L, Append(<<c1, c2>>, Plain(Ret(U32Max))), U32Max, 1 + 1)
    BY <1>2, <1>8, <2>1, AheadRet
  <2>3. Append(<<c1, c2>>, c3) = <<c1, c2, c3>>
    BY Tuple3, Zenon
  <2>4. 1 + 1 = 2
    OBVIOUS
  <2> QED BY <2>2, <2>3, <2>4 DEF c3
<1>10. Ahead(p, L, <<c1, c2, c3, c4>>, U32Max, 2)
  <2>1. Ahead(p, L, Append(<<c1, c2, c3>>, Label(0)), U32Max, 2)
    <3> HIDE DEF c2
    <3>1. <<c1, c2, c3>> \in Seq({c1, c2, c3}) /\ 0 \in Nat
      OBVIOUS
    <3> QED BY <1>1, <1>9, <3>1, AheadLabel
  <2>2. Append(<<c1, c2, c3>>, c4) = <<c1, c2, c3, c4>>
    BY Tuple4, Zenon
  <2> QED BY <2>1, <2>2
<1> HIDE DEF c2, c4
<1>11. Ahead(p, L, Append(<<c1, c2, c3, c4>>, CompileExpr(e, 0, 1)), To(v, U32Max, 0), 2 + 5 * k) /\ k \in Nat
  <2>1. <<c1, c2, c3, c4>> \in Seq({c1, c2, c3, c4})
    OBVIOUS
  <2> QED BY <1>1, <1>10, <2>1, AheadCall
<1>12. FirstToDo(e) = Append(<<c1, c2, c3, c4>>, CompileExpr(e, 0, 1))
  <2>1. Append(<<c1, c2, c3, c4>>, c5) = <<c1, c2, c3, c4, c5>>
    BY Tuple5, Zenon
  <2>2. FirstToDo(e) = <<c1, c2, c3, c4, c5>>
    BY Zenon DEF FirstToDo, c1, c2, c3, c4
  <2> QED BY <2>1, <2>2
<1>13. Ahead(p, L, FirstToDo(e), w, 2 + 5 * k)
  BY <1>11, <1>12 DEF w
<1>14. Size(<<>>) + (2 + 5 * k) <= 5 * A + 2
  <2>1. Size(<<>>) = 0
    BY SizeFew
  <2> QED BY <1>11, <2>1
<1>15. Behind(p, L, <<>>, <<Everywhere, w>>, <<Everywhere, w>>)
  BY BehindNone
<1>16. Codes(p, w, <<>>, FirstToDo(e), 5 * A + 2)
  BY <1>13, <1>14, <1>15, Zenon DEF Codes, Coded
<1> QED BY <1>16 DEF w

\* To begin with, the labels true and false are behind the call.
LEMMA FirstLayout ==
  ASSUME NEW e
  PROVE  Layout(<<>>, FirstToDo(e), 2) /\ FirstToDo(e) # <<>>
<1> DEFINE c1 == Plain(Ret(0))
           c2 == Label(1)
           c3 == Plain(Ret(U32Max))
           c4 == Label(0)
           c5 == CompileExpr(e, 0, 1)
           td == FirstToDo(e)
<1>1. c1.ir = "insn" /\ c3.ir = "insn" /\ c2.ir = "label" /\ c2.l = 1 /\ c4.ir = "label" /\ c4.l = 0
      /\ c5.ir = "call" /\ c5.t = 0 /\ c5.f = 1
  BY ItemFields
<1>2. ToDo(c1) /\ ToDo(c2) /\ ToDo(c3) /\ ToDo(c4) /\ ToDo(c5)
  BY Zenon DEF ToDo
<1>3. \A l : c1 # Label(l) /\ c3 # Label(l) /\ c5 # Label(l) /\ (c2 = Label(l) => l = 1) /\ (c4 = Label(l) => l = 0)
  BY Kinds
<1>4. c2 = Label(1) /\ c4 = Label(0)
  OBVIOUS
<1>5. td = <<c1, c2, c3, c4, c5>>
  BY Zenon DEF FirstToDo
<1> HIDE DEF c1, c2, c3, c4, c5, td
<1>6. td[1] = c1 /\ td[2] = c2 /\ td[3] = c3 /\ td[4] = c4 /\ td[5] = c5 /\ Len(td) = 5
      /\ td \in Seq({c1, c2, c3, c4, c5}) /\ td # <<>>
  BY <1>5, SMT
<1>7. 1..Len(td) = {1, 2, 3, 4, 5}
  BY <1>6, SMT
<1>8. Listing(td) /\ Listing(<<>>)
  BY <1>6, ListingFew, Zenon DEF Listing
<1>9. Ends(<<>>, td)
  BY <1>1, <1>6 DEF Ends
<1>10. \A l : ~IsIn(<<>>, l)
  BY DEF IsIn
<1>11. 0..(2 - 1) = {0, 1}
  BY SMT
<1>12. \A d \in 1..Len(td) : ToDo(td[d])
  BY <1>2, <1>6, <1>7, Zenon
<1>13. \A d \in 1..Len(td) : Uses(td[d], 2)
  <2>1. Uses(c1, 2) /\ Uses(c2, 2) /\ Uses(c3, 2) /\ Uses(c4, 2) /\ Uses(c5, 2)
    BY <1>1, <1>11 DEF Uses
  <2> QED BY <1>6, <1>7, <2>1, Zenon
<1>14. \A d \in 1..Len(td) : td[d].ir = "call" => Lower(td, d, td[d].t) /\ Lower(td, d, td[d].f)
  <2>1. \A d \in 1..Len(td) : td[d].ir = "call" => d = 5
    BY <1>1, <1>6, <1>7
  <2>2. 2 \in 1..(5 - 1) /\ 4 \in 1..(5 - 1)
    BY SMT
  <2>3. td[4] = Label(0) /\ td[2] = Label(1)
    BY <1>4, <1>6
  <2>4. Lower(td, 5, 0) /\ Lower(td, 5, 1)
    BY <2>2, <2>3, Zenon DEF Lower
  <2>5. td[5].t = 0 /\ td[5].f = 1
    BY <1>1, <1>6
  <2> QED BY <2>1, <2>4, <2>5
<1>15. \A d \in 1..Len(td) : \A l : td[d] = Label(l) => \A k \in 1..Len(td) : td[k] = Label(l) => k = d
  <2> SUFFICES ASSUME NEW d \in {1, 2, 3, 4, 5}, NEW l, td[d] = Label(l), NEW k \in {1, 2, 3, 4, 5}, td[k] = Label(l)
               PROVE  k = d
    BY <1>7
  <2>1. (d = 2 /\ l = 1) \/ (d = 4 /\ l = 0)
    BY <1>3, <1>6
  <2>2. (k = 2 /\ l = 1) \/ (k = 4 /\ l = 0)
    BY <1>3, <1>6
  <2> QED BY <2>1, <2>2
<1>16. \A d \in 1..Len(td) : TodoItem(<<>>, td, 2, d)
  BY <1>10, <1>12, <1>13, <1>14, <1>15, Zenon DEF TodoItem
<1>17. \A j \in 1..Len(<<>>) : DoneItem(<<>>, td, 2, j)
  OBVIOUS
<1>18. 2 \in Nat
  OBVIOUS
<1>19. Layout(<<>>, td, 2)
  BY <1>8, <1>9, <1>16, <1>17, <1>18, Zenon DEF Layout
<1> QED BY <1>6, <1>19 DEF td

(***************************************************************************)
(* 9. The program.                                                         *)
(***************************************************************************)

(***************************************************************************)
(* resolve_insns: every label is behind the jumps to it.                   *)
(***************************************************************************)

\* The label that is looked up is there, and behind the jump.
LEMMA GoalIsBehind ==
  ASSUME NEW ir, NEW n, Layout(ir, <<>>, n), NEW j \in 1..Len(ir), ir[j].ir = "cond", NEW l, l = ir[j].t \/ l = ir[j].f
  PROVE  Goal(ir, j, l)
<1>1. DoneItem(ir, <<>>, n, j)
  BY LayoutParts
<1>2. Reached(ir, <<>>, j, l)
  BY <1>1 DEF DoneItem
<1>3. ~IsIn(<<>>, l)
  BY DEF IsIn
<1>4. IsIn(ir, l) /\ \A k \in 1..Len(ir) : ir[k] = Label(l) => k > j
  BY <1>2, <1>3, Zenon DEF Reached
<1>5. \E k \in 1..Len(ir) : ir[k] = Label(l)
  BY <1>4, Zenon DEF IsIn
<1>6. TargetOf(ir, l) \in 1..Len(ir) /\ ir[TargetOf(ir, l)] = Label(l)
  BY <1>5, Zenon DEF TargetOf
<1> QED BY <1>4, <1>6, Zenon DEF Goal

\* A distance is that of two places, and cannot be negative.
LEMMA DistanceIs ==
  ASSUME NEW ir, NEW n, Layout(ir, <<>>, n), NEW j \in 1..Len(ir), ir[j].ir = "cond", NEW l, l = ir[j].t \/ l = ir[j].f
  PROVE  /\ Goal(ir, j, l)
         /\ Distance(ir, j, l) = Before(ir, TargetOf(ir, l)) - Before(ir, j) - 1
         /\ Before(ir, TargetOf(ir, l)) \in Nat /\ Before(ir, j) \in Nat
         /\ Distance(ir, j, l) >= 0 /\ Distance(ir, j, l) + 3 <= Size(ir)
         /\ Before(ir, TargetOf(ir, l)) < Size(ir) /\ Size(ir) \in Nat
<1> DEFINE q == TargetOf(ir, l)
<1>1. Goal(ir, j, l)
  BY GoalIsBehind
<1>2. q \in 1..Len(ir) /\ ir[q] = Label(l) /\ q > j
  BY <1>1 DEF Goal
<1>3. Distance(ir, j, l) = Before(ir, q) - Before(ir, j) - 1
  BY DEF Distance, LabelOffset, TargetOf
<1>4. DoneItem(ir, <<>>, n, j) /\ Listing(ir) /\ Ends(ir, <<>>)
  BY LayoutParts
<1>5. j > 1 /\ IsInsn(ir[j - 1])
  BY <1>4 DEF DoneItem
<1>6. IsInsn(ir[Len(ir)])
  BY <1>4 DEF Ends
<1>7. Len(ir) \in Nat
  BY <1>4, SMT DEF Listing
<1>8. IsInsn(ir[j])
  BY DEF IsInsn
<1>9. q # Len(ir)
  <2>1. ~IsInsn(ir[q])
    BY <1>2, ItemFields DEF IsInsn
  <2> QED BY <1>6, <2>1
<1> HIDE DEF q
<1>10. q \in Nat /\ j \in Nat /\ Len(ir) + 1 \in Nat /\ j - 1 \in Nat /\ 1 <= j - 1 /\ j - 1 < j /\ 1 <= j /\ j < q
       /\ q <= Len(ir) /\ 1 <= Len(ir) /\ Len(ir) < Len(ir) + 1
  BY <1>2, <1>5, <1>7, SMT
<1>11. Before(ir, j - 1) + 1 <= Before(ir, j)
  BY <1>5, <1>10, BeforeStrict
<1>12. Before(ir, j) + 1 <= Before(ir, q)
  BY <1>8, <1>10, BeforeStrict
<1>13. Before(ir, q) <= Before(ir, Len(ir))
  BY <1>7, <1>10, BeforeMonotone
<1>14. Before(ir, Len(ir)) + 1 <= Size(ir)
  BY <1>6, <1>7, <1>10, BeforeStrict DEF Size
<1>15. Before(ir, q) \in Nat /\ Before(ir, j) \in Nat /\ Before(ir, j - 1) \in Nat /\ Before(ir, Len(ir)) \in Nat
       /\ Size(ir) \in Nat
  BY <1>7, <1>10, BeforeSet DEF Size
<1>16. Distance(ir, j, l) >= 0 /\ Distance(ir, j, l) + 3 <= Size(ir) /\ Before(ir, q) < Size(ir)
  BY <1>3, <1>11, <1>12, <1>13, <1>14, <1>15, SMT
<1> QED BY <1>1, <1>3, <1>15, <1>16 DEF q

\* A jump that does not fit jumps over almost everything.
LEMMA TooLong ==
  ASSUME NEW ir, NEW n, Layout(ir, <<>>, n), ~Resolvable(ir)
  PROVE  Size(ir) - 3 > MaxJump
<1>1. PICK j \in 1..Len(ir) : ir[j].ir = "cond" /\ ~(InRange(Distance(ir, j, ir[j].t)) /\ InRange(Distance(ir, j, ir[j].f)))
  BY DEF Resolvable
<1>2. PICK l : (l = ir[j].t \/ l = ir[j].f) /\ ~InRange(Distance(ir, j, l))
  BY <1>1
<1> DEFINE d == Distance(ir, j, l)
<1>3. /\ d = Before(ir, TargetOf(ir, l)) - Before(ir, j) - 1
      /\ Before(ir, TargetOf(ir, l)) \in Nat /\ Before(ir, j) \in Nat
      /\ d >= 0 /\ d + 3 <= Size(ir)
  BY <1>1, <1>2, DistanceIs
<1>4. ~(d \in 0..MaxJump)
  BY <1>2 DEF InRange
<1> HIDE DEF d
<1>5. d \in Int /\ MaxJump \in Int
  BY <1>3, JumpAssumption, SMT
<1>6. d > MaxJump
  BY <1>3, <1>4, <1>5, SMT
<1>7. Size(ir) \in Nat
  BY LayoutParts, SizeIsNat
<1> QED BY <1>3, <1>5, <1>6, <1>7, SMT

\* When nothing is left to emit, the list alone returns w.
LEMMA CodesAtEnd ==
  ASSUME NEW p, NEW w, NEW ir, NEW z \in Nat, Codes(p, w, ir, <<>>, z), Listing(ir)
  PROVE  /\ Size(ir) \in Nat /\ Size(ir) <= z
         /\ p \in Packets => \E L : Behind(p, L, ir, <<Everywhere, w>>, <<Everywhere, 0>>)
<1>1. PICK L, r, n : Coded(p, L, w, ir, <<>>, r, n, z)
  BY Zenon DEF Codes
<1>2. Ahead(p, L, <<>>, r, n) /\ Size(ir) + n <= z
      /\ (p \in Packets => Behind(p, L, ir, <<Everywhere, w>>, <<Everywhere, r>>))
  BY <1>1, Zenon DEF Coded
<1>3. PICK G : Waits(p, L, <<>>, G, r, n)
  BY <1>2, Zenon DEF Ahead
<1>4. G[0] = <<0, 0>> /\ G[Len(<<>>)] = <<r, n>>
  BY <1>3, Zenon DEF Waits
<1>5. Len(<<>>) = 0
  OBVIOUS
<1>6. r = 0 /\ n = 0
  BY <1>4, <1>5
<1>7. Size(ir) \in Nat
  BY SizeIsNat
<1>8. Size(ir) <= z
  BY <1>2, <1>6, <1>7, SMT
<1>9. p \in Packets => Behind(p, L, ir, <<Everywhere, w>>, <<Everywhere, 0>>)
  BY <1>2, <1>6
<1> QED BY <1>7, <1>8, <1>9, Zenon

(***************************************************************************)
(* The program: the n-th instruction is the n-th of the list that is no    *)
(* label.                                                                  *)
(***************************************************************************)

\* The instructions of the program, by their places in the list.
LEMMA ProgramIs ==
  ASSUME NEW ir, Listing(ir)
  PROVE  /\ Len(ResolveInsns(ir)) = Size(ir) /\ Size(ir) \in Nat
         /\ \A j \in 1..Len(ir) : IsInsn(ir[j]) =>
              /\ Before(ir, j) \in Nat /\ Before(ir, j) < Size(ir)
              /\ ResolveInsns(ir)[Before(ir, j) + 1] = Final(ir, j)
<1> DEFINE N == Size(ir)
           F == [n \in 1..N |-> Final(ir, CHOOSE j \in 1..Len(ir) : IsInsn(ir[j]) /\ Before(ir, j) = n - 1)]
<1>1. N \in Nat
  BY SizeIsNat
<1>2. ResolveInsns(ir) = F
  BY DEF ResolveInsns, Size
<1>3. Len(ir) \in Nat
  BY SMT DEF Listing
<1> HIDE DEF N
<1>4. Len(F) = N
  BY <1>1, SMT
<1>5. ASSUME NEW j \in 1..Len(ir), IsInsn(ir[j])
      PROVE  Before(ir, j) \in Nat /\ Before(ir, j) < N /\ F[Before(ir, j) + 1] = Final(ir, j)
  <2>1. j \in Nat /\ Len(ir) + 1 \in Nat /\ 1 <= j /\ j < Len(ir) + 1
    BY <1>3, SMT
  <2>2. Before(ir, j) + 1 <= N
    BY <1>5, <2>1, BeforeStrict DEF N, Size
  <2>3. Before(ir, j) \in Nat
    BY <2>1, BeforeSet
  <2> DEFINE b == Before(ir, j)
             ok(k) == IsInsn(ir[k]) /\ Before(ir, k) = (b + 1) - 1
             c == CHOOSE k \in 1..Len(ir) : ok(k)
  <2>4. ok(j)
    <3>1. Before(ir, j) = (b + 1) - 1
      BY <2>3, SMT
    <3> QED BY <1>5, <3>1
  <2>5. c \in 1..Len(ir) /\ ok(c)
    <3> HIDE DEF ok
    <3> QED BY <2>4, Zenon
  <2>6. Before(ir, c) = Before(ir, j)
    BY <2>4, <2>5
  <2>7. IsInsn(ir[c])
    BY <2>5
  <2> HIDE DEF c
  <2>8. c = j
    BY <1>5, <2>5, <2>6, <2>7, BeforeInjective
  <2>9. b + 1 \in 1..N
    BY <2>2, <2>3, <1>1, SMT
  <2>10. F[b + 1] = Final(ir, c)
    <3> HIDE DEF b
    <3> QED BY <2>9 DEF c
  <2>11. F[b + 1] = Final(ir, j)
    BY <2>8, <2>10
  <2>12. b < N
    BY <2>2, <2>3, <1>1, SMT
  <2> QED BY <2>3, <2>11, <2>12
<1> HIDE DEF F
<1>6. Len(ResolveInsns(ir)) = N
  BY <1>2, <1>4
<1> QED BY <1>1, <1>2, <1>5, <1>6 DEF N

(***************************************************************************)
(* A program under way: it is before the (j+1)-th of the list, and w is to *)
(* be returned.                                                            *)
(***************************************************************************)

LEMMA LabelLeads ==
  ASSUME NEW p, NEW L, NEW i, NEW g, NEW h, Leads(p, L, i, g, h), i.ir = "label"
  PROVE  \E l \in Nat : i = Label(l) /\ L[l] = g /\ h = g
<1>1. \A k : i # Plain(k)
  BY ItemFields
<1>2. \A op, k, t, f : i # JmpCond(op, k, t, f)
  BY ItemFields
<1> QED BY <1>1, <1>2, Zenon DEF Leads

\* A label is passed.
LEMMA StandsPast ==
  ASSUME NEW p, NEW L, NEW ir, NEW G, NEW w, NEW j, NEW k, NEW o, Standing(p, L, ir, G, w, j, k, o),
         Listing(ir), j < Len(ir), ~IsInsn(ir[j + 1])
  PROVE  Standing(p, L, ir, G, w, j + 1, k, o)
<1>1. /\ Follows(p, L, ir, G, <<Everywhere, w>>, <<Everywhere, 0>>)
      /\ j \in 0..Len(ir) /\ k = Before(ir, j + 1) /\ o \in G[j][1] /\ G[j][2] = w
  BY Zenon DEF Standing
<1>2. Len(ir) \in Nat
  BY SMT DEF Listing
<1>3. j + 1 \in 1..Len(ir) /\ j + 1 \in 0..Len(ir) /\ (j + 1) - 1 = j /\ j + 1 \in Nat /\ j + 1 >= 1
  BY <1>1, <1>2, SMT
<1>4. Leads(p, L, ir[j + 1], G[(j + 1) - 1], G[j + 1])
  BY <1>1, <1>3, Zenon DEF Follows
<1>5. G[j + 1] = G[j]
  <2>1. ir[j + 1].ir = "label"
    BY DEF IsInsn
  <2>2. \E l \in Nat : ir[j + 1] = Label(l) /\ L[l] = G[(j + 1) - 1] /\ G[j + 1] = G[(j + 1) - 1]
    BY <1>4, <2>1, LabelLeads
  <2> QED BY <1>3, <2>2
<1>6. Before(ir, (j + 1) + 1) = k
  <2>1. Before(ir, (j + 1) + 1) = Before(ir, j + 1) + (IF IsInsn(ir[j + 1]) THEN 1 ELSE 0)
    BY <1>3, BeforeStep
  <2>2. Before(ir, j + 1) \in Nat
    BY <1>3, BeforeSet
  <2> QED BY <1>1, <2>1, <2>2
<1> QED BY <1>1, <1>3, <1>5, <1>6 DEF Standing

\* Labels are passed until there is an instruction or the end.
LEMMA Skips ==
  ASSUME NEW p, NEW L, NEW ir, NEW G, NEW w, NEW k, NEW o, Listing(ir),
         NEW j, Standing(p, L, ir, G, w, j, k, o)
  PROVE  Stops(p, L, ir, G, w, k, o)
<1> DEFINE S == {d \in Nat : \A i \in 0..Len(ir) : Len(ir) - i = d /\ Standing(p, L, ir, G, w, i, k, o)
                                                  => Stops(p, L, ir, G, w, k, o)}
<1>1. Len(ir) \in Nat
  BY SMT DEF Listing
<1>2. 0 \in S
  <2> SUFFICES ASSUME NEW i \in 0..Len(ir), Len(ir) - i = 0, Standing(p, L, ir, G, w, i, k, o)
               PROVE  Stops(p, L, ir, G, w, k, o)
    OBVIOUS
  <2>1. ~(i < Len(ir))
    BY <1>1
  <2> QED BY <2>1, Zenon DEF Stops
<1>3. ASSUME NEW d \in Nat, d \in S PROVE d + 1 \in S
  <2> SUFFICES ASSUME NEW i \in 0..Len(ir), Len(ir) - i = d + 1, Standing(p, L, ir, G, w, i, k, o)
               PROVE  Stops(p, L, ir, G, w, k, o)
    OBVIOUS
  <2>1. CASE IsInsn(ir[i + 1])
    BY <2>1, Zenon DEF Stops
  <2>2. CASE ~IsInsn(ir[i + 1])
    <3>1. i < Len(ir) /\ i + 1 \in 0..Len(ir) /\ Len(ir) - (i + 1) = d
      BY <1>1, SMT
    <3>2. Standing(p, L, ir, G, w, i + 1, k, o)
      BY <2>2, <3>1, StandsPast
    <3>3. \A e \in 0..Len(ir) : Len(ir) - e = d /\ Standing(p, L, ir, G, w, e, k, o) => Stops(p, L, ir, G, w, k, o)
      BY <1>3
    <3> QED BY <3>1, <3>2, <3>3
  <2> QED BY <2>1, <2>2
<1>4. Nat \subseteq S
  <2> HIDE DEF S
  <2> QED BY <1>2, <1>3, SetInduction
<1>5. j \in 0..Len(ir)
  BY Zenon DEF Standing
<1>6. Len(ir) - j \in Nat
  BY <1>1, <1>5, SMT
<1>7. Len(ir) - j \in S
  BY <1>4, <1>6
<1> QED BY <1>5, <1>7

LEMMA PlainRuns ==
  ASSUME NEW p, NEW L, NEW ir, NEW G, NEW w, NEW j, NEW k, NEW o, Standing(p, L, ir, G, w, j, k, o),
         Listing(ir), j < Len(ir), NEW i, ir[j + 1] = Plain(i), IsStep(i),
         LeadsOn(p, i, G[j], G[j + 1])
  PROVE  /\ Outcome(p, i, o) = {} => w = 0
         /\ \A q \in Outcome(p, i, o) : RunsAt(p, ir, w, k + 1, q)
<1>1. /\ Follows(p, L, ir, G, <<Everywhere, w>>, <<Everywhere, 0>>)
      /\ j \in 0..Len(ir) /\ k = Before(ir, j + 1) /\ o \in G[j][1] /\ G[j][2] = w
  BY Zenon DEF Standing
<1>2. Len(ir) \in Nat
  BY SMT DEF Listing
<1>3. j + 1 \in 0..Len(ir) /\ j + 1 \in Nat /\ j + 1 >= 1
  BY <1>1, <1>2, SMT
<1>4. Before(ir, (j + 1) + 1) = k + 1
  <2>1. Before(ir, (j + 1) + 1) = Before(ir, j + 1) + (IF IsInsn(ir[j + 1]) THEN 1 ELSE 0)
    BY <1>3, BeforeStep
  <2>2. IsInsn(ir[j + 1])
    BY ItemFields DEF IsInsn
  <2> QED BY <1>1, <2>1, <2>2
<1>5. Outcome(p, i, o) = {} => G[j][2] = 0
  BY <1>1, Zenon DEF LeadsOn
<1>6. ASSUME NEW q \in Outcome(p, i, o) PROVE RunsAt(p, ir, w, k + 1, q)
  <2>1. q \in G[j + 1][1] /\ G[j + 1][2] = G[j][2]
    BY <1>1, Zenon DEF LeadsOn
  <2>2. Standing(p, L, ir, G, w, j + 1, k + 1, q)
    BY <1>1, <1>3, <1>4, <2>1 DEF Standing
  <2> QED BY <2>2, Zenon DEF RunsAt
<1> QED BY <1>1, <1>5, <1>6

LEMMA JumpRuns ==
  ASSUME NEW p, NEW L, NEW ir, NEW G, NEW w, NEW j, NEW k, NEW o, Standing(p, L, ir, G, w, j, k, o),
         NEW n, Layout(ir, <<>>, n), j < Len(ir), ir[j + 1].ir = "cond",
         NEW l, l = ir[j + 1].t \/ l = ir[j + 1].f, JumpsTo(L, l, o, w)
  PROVE  k + 1 + Distance(ir, j + 1, l) \in 0..(Size(ir) - 1) /\ RunsAt(p, ir, w, k + 1 + Distance(ir, j + 1, l), o)
<1>1. /\ Follows(p, L, ir, G, <<Everywhere, w>>, <<Everywhere, 0>>)
      /\ j \in 0..Len(ir) /\ k = Before(ir, j + 1) /\ o \in G[j][1] /\ G[j][2] = w
  BY Zenon DEF Standing
<1>2. Listing(ir)
  BY LayoutParts
<1>3. Len(ir) \in Nat
  BY <1>2, SMT DEF Listing
<1>4. j + 1 \in 1..Len(ir)
  BY <1>1, <1>3, SMT
<1> DEFINE q == TargetOf(ir, l)
           d == Distance(ir, j + 1, l)
<1>5. /\ Goal(ir, j + 1, l)
      /\ d = Before(ir, q) - Before(ir, j + 1) - 1
      /\ Before(ir, q) \in Nat /\ Before(ir, j + 1) \in Nat
      /\ Before(ir, q) < Size(ir) /\ Size(ir) \in Nat
  BY <1>4, DistanceIs
<1>6. q \in 1..Len(ir) /\ ir[q] = Label(l)
  BY <1>5, Zenon DEF Goal
<1> HIDE DEF q, d
<1>7. k + 1 + d = Before(ir, q)
  BY <1>1, <1>5, SMT
<1>8. k + 1 + d \in 0..(Size(ir) - 1)
  BY <1>5, <1>7, SMT
<1>9. q - 1 \in 0..Len(ir) /\ (q - 1) + 1 = q
  BY <1>3, <1>6, SMT
<1>10. Leads(p, L, ir[q], G[q - 1], G[q])
  BY <1>1, <1>6, Zenon DEF Follows
<1>11. L[l] = G[q - 1]
  <2>1. ir[q].ir = "label"
    BY <1>6, ItemFields
  <2>2. PICK i \in Nat : ir[q] = Label(i) /\ L[i] = G[q - 1]
    BY <1>10, <2>1, LabelLeads
  <2>3. i = l
    BY <1>6, <2>2, Kinds
  <2> QED BY <2>2, <2>3
<1>12. o \in G[q - 1][1] /\ G[q - 1][2] = w
  <2>1. o \in L[l][1] /\ w = L[l][2]
    BY Zenon DEF JumpsTo
  <2> QED BY <1>11, <2>1
<1>13. k + 1 + d = Before(ir, (q - 1) + 1)
  BY <1>7, <1>9
<1>14. Standing(p, L, ir, G, w, q - 1, k + 1 + d, o)
  BY <1>1, <1>9, <1>12, <1>13, Zenon DEF Standing
<1>15. RunsAt(p, ir, w, k + 1 + d, o)
  BY <1>14, Zenon DEF RunsAt
<1> QED BY <1>8, <1>15 DEF d

LEMMA InsnRuns ==
  ASSUME NEW p, NEW L, NEW ir, NEW G, NEW w, NEW j, NEW k, NEW o, Standing(p, L, ir, G, w, j, k, o),
         NEW n, Layout(ir, <<>>, n), j < Len(ir), IsInsn(ir[j + 1])
  PROVE  RunsOn(p, ir, w, Final(ir, j + 1), k, o, Size(ir))
<1>1. /\ Follows(p, L, ir, G, <<Everywhere, w>>, <<Everywhere, 0>>)
      /\ j \in 0..Len(ir) /\ o \in G[j][1] /\ G[j][2] = w
  BY Zenon DEF Standing
<1>2. Listing(ir)
  BY LayoutParts
<1>3. j + 1 \in 1..Len(ir) /\ (j + 1) - 1 = j
  <2>1. Len(ir) \in Nat
    BY <1>2, SMT DEF Listing
  <2> QED BY <1>1, <2>1, SMT
<1> DEFINE c == ir[j + 1]
<1>4. Leads(p, L, c, G[(j + 1) - 1], G[j + 1])
  BY <1>1, <1>3, Zenon DEF Follows
<1>5. Leads(p, L, c, G[j], G[j + 1])
  BY <1>3, <1>4
<1>6. c.ir # "label"
  BY DEF IsInsn
<1>7. c.ir = "insn" => Final(ir, j + 1) = c.insn
  BY DEF Final
<1>8. c.ir # "insn" => Final(ir, j + 1) = Jmp(c.op, c.k, Distance(ir, j + 1, c.t), Distance(ir, j + 1, c.f))
  BY DEF Final
<1>9. c = ir[j + 1]
  OBVIOUS
<1> HIDE DEF c
<1>10. ~ \E l \in Nat : c = Label(l)
  BY <1>6, ItemFields
<1>11. CASE \E v \in {0, U32Max} : c = Plain(Ret(v)) /\ G[j][2] = v
  <2>1. PICK v \in {0, U32Max} : c = Plain(Ret(v)) /\ G[j][2] = v
    BY <1>11
  <2>2. c.ir = "insn" /\ c.insn = Ret(v)
    BY <2>1, ItemFields
  <2>3. Final(ir, j + 1) = Ret(v) /\ w = v
    BY <1>1, <1>7, <2>1, <2>2
  <2> QED BY <2>3, Zenon DEF RunsOn
<1>12. CASE \E i : c = Plain(i) /\ IsStep(i) /\ LeadsOn(p, i, G[j], G[j + 1])
  <2>1. PICK i : c = Plain(i) /\ IsStep(i) /\ LeadsOn(p, i, G[j], G[j + 1])
    BY <1>12
  <2>2. c.ir = "insn" /\ c.insn = i
    BY <2>1, ItemFields
  <2>3. Final(ir, j + 1) = i
    BY <1>7, <2>2
  <2>4. ir[j + 1] = Plain(i)
    BY <1>9, <2>1
  <2>5. Outcome(p, i, o) = {} => w = 0
    BY <1>2, <2>1, <2>4, PlainRuns
  <2>6. \A q \in Outcome(p, i, o) : RunsAt(p, ir, w, k + 1, q)
    BY <1>2, <2>1, <2>4, PlainRuns
  <2>7. RunsOn(p, ir, w, i, k, o, Size(ir))
    BY <2>1, <2>5, <2>6, Zenon DEF RunsOn
  <2> QED BY <2>3, <2>7
<1>13. CASE \E op, v, t, f :
       /\ c = JmpCond(op, v, t, f) /\ op \in {"jeq", "jset"}
       /\ \A e \in G[j][1] : IF Holds(op, e[1], v) THEN JumpsTo(L, t, e, G[j][2]) ELSE JumpsTo(L, f, e, G[j][2])
  <2>1. PICK op, v, t, f :
       /\ c = JmpCond(op, v, t, f) /\ op \in {"jeq", "jset"}
       /\ \A e \in G[j][1] : IF Holds(op, e[1], v) THEN JumpsTo(L, t, e, G[j][2]) ELSE JumpsTo(L, f, e, G[j][2])
    BY <1>13
  <2>2. c.ir = "cond" /\ c.op = op /\ c.k = v /\ c.t = t /\ c.f = f
    BY <2>1, ItemFields
  <2> DEFINE d1 == Distance(ir, j + 1, t)
             d2 == Distance(ir, j + 1, f)
  <2>3. Final(ir, j + 1) = Jmp(op, v, d1, d2)
    BY <1>8, <2>2
  <2>4. ir[j + 1].ir = "cond" /\ ir[j + 1].t = t /\ ir[j + 1].f = f
    BY <1>9, <2>2
  <2>5. IF Holds(op, o[1], v) THEN JumpsTo(L, t, o, w) ELSE JumpsTo(L, f, o, w)
    BY <1>1, <2>1
  <2>6. JumpsTo(L, t, o, w) => k + 1 + d1 \in 0..(Size(ir) - 1) /\ RunsAt(p, ir, w, k + 1 + d1, o)
    BY <2>4, JumpRuns
  <2>7. JumpsTo(L, f, o, w) => k + 1 + d2 \in 0..(Size(ir) - 1) /\ RunsAt(p, ir, w, k + 1 + d2, o)
    BY <2>4, JumpRuns
  <2> HIDE DEF d1, d2
  <2>8. \E d : /\ d = (IF Holds(op, o[1], v) THEN d1 ELSE d2) /\ k + 1 + d \in 0..(Size(ir) - 1)
               /\ RunsAt(p, ir, w, k + 1 + d, o)
    BY <2>5, <2>6, <2>7, Zenon
  <2>9. RunsOn(p, ir, w, Jmp(op, v, d1, d2), k, o, Size(ir))
    BY <2>1, <2>8, Zenon DEF RunsOn
  <2> QED BY <2>3, <2>9
<1> QED BY <1>5, <1>10, <1>11, <1>12, <1>13, Zenon DEF Leads

\* A program that stands before the k-th instruction meets it.
LEMMA Meets ==
  ASSUME NEW p, NEW ir, NEW w, NEW k, NEW o, RunsAt(p, ir, w, k, o), NEW n, Layout(ir, <<>>, n)
  PROVE  \/ k = Size(ir) /\ w = 0
         \/ /\ k \in Nat /\ k < Size(ir) /\ Size(ir) \in Nat
            /\ RunsOn(p, ir, w, ResolveInsns(ir)[k + 1], k, o, Size(ir))
<1>1. Listing(ir)
  BY LayoutParts
<1>2. Len(ir) \in Nat
  BY <1>1, SMT DEF Listing
<1>3. PICK L, G, i : Standing(p, L, ir, G, w, i, k, o)
  BY Zenon DEF RunsAt
<1>4. PICK j \in 0..Len(ir) : Standing(p, L, ir, G, w, j, k, o) /\ (j < Len(ir) => IsInsn(ir[j + 1]))
  <2>1. Stops(p, L, ir, G, w, k, o)
    BY <1>1, <1>3, Skips
  <2> QED BY <2>1, Zenon DEF Stops
<1>5. /\ Follows(p, L, ir, G, <<Everywhere, w>>, <<Everywhere, 0>>)
      /\ k = Before(ir, j + 1) /\ o \in G[j][1] /\ G[j][2] = w
  BY <1>4, Zenon DEF Standing
<1>6. CASE j = Len(ir)
  <2>1. G[Len(ir)] = <<Everywhere, 0>>
    BY <1>5, Zenon DEF Follows
  <2>2. w = 0
    BY <1>5, <1>6, <2>1
  <2>3. k = Size(ir)
    BY <1>5, <1>6 DEF Size
  <2> QED BY <2>2, <2>3
<1>7. CASE j < Len(ir)
  <2>1. RunsOn(p, ir, w, Final(ir, j + 1), k, o, Size(ir))
    BY <1>4, <1>7, InsnRuns
  <2>2. j + 1 \in 1..Len(ir) /\ IsInsn(ir[j + 1])
    BY <1>2, <1>4, <1>7, SMT
  <2>3. Before(ir, j + 1) \in Nat /\ Before(ir, j + 1) < Size(ir) /\ ResolveInsns(ir)[Before(ir, j + 1) + 1] = Final(ir, j + 1)
        /\ Size(ir) \in Nat
    BY <1>1, <2>2, ProgramIs
  <2>4. k \in Nat /\ k < Size(ir) /\ ResolveInsns(ir)[k + 1] = Final(ir, j + 1)
    BY <1>5, <2>3
  <2> QED BY <2>1, <2>3, <2>4
<1>8. j = Len(ir) \/ j < Len(ir)
  BY <1>2, <1>4, SMT
<1> QED BY <1>6, <1>7, <1>8

(***************************************************************************)
(* One step of the interpreter.                                            *)
(***************************************************************************)

LEMMA RetFields == \A v : Ret(v).class = "ret" /\ Ret(v).src = "k" /\ Ret(v).k = v
BY DEF Ret, Blank

LEMMA JmpFields ==
  \A op, v, d1, d2 :
    /\ Jmp(op, v, d1, d2).class = "jmp" /\ Jmp(op, v, d1, d2).src = "k" /\ Jmp(op, v, d1, d2).k = v
    /\ Jmp(op, v, d1, d2).op = op /\ Jmp(op, v, d1, d2).jt = d1 /\ Jmp(op, v, d1, d2).jf = d2
BY DEF Jmp, Blank

LEMMA LdOutcome ==
  ASSUME NEW i, i.class = "ld", i.mode \in {"abs", "ind"}, LdValue(i) # {}, NEW v \in LdValue(i)
  PROVE  <<v, x>> \in Outcome(pkt, i, <<a, x>>)
<1>0. <<a, x>>[2] = x
  OBVIOUS
<1>1. CASE i.mode = "abs"
  <2>1. LdValue(i) = IF i.k >= AddrBase THEN AddressField(pkt, i.k) ELSE LoadBytes(pkt, i.size, i.k)
    BY <1>1 DEF LdValue, LoadAbs
  <2>2. Outcome(pkt, i, <<a, x>>) =
          {<<u, <<a, x>>[2]>> : u \in IF i.k >= AddrBase THEN AddressField(pkt, i.k) ELSE LoadBytes(pkt, i.size, i.k)}
    BY <1>1, Zenon DEF Outcome
  <2> QED BY <1>0, <2>1, <2>2
<1>2. CASE i.mode = "ind"
  <2>1. LdValue(i) = LoadBytes(pkt, i.size, (x + i.k) % Word)
    BY <1>2 DEF LdValue, LoadInd
  <2>2. Outcome(pkt, i, <<a, x>>) = {<<u, <<a, x>>[2]>> : u \in LoadBytes(pkt, i.size, (<<a, x>>[2] + i.k) % Word)}
    BY <1>2, Zenon DEF Outcome
  <2> QED BY <1>0, <2>1, <2>2
<1> QED BY <1>1, <1>2

LEMMA LdEmpty ==
  ASSUME NEW i, i.class = "ld", i.mode \in {"abs", "ind"}, LdValue(i) = {}
  PROVE  Outcome(pkt, i, <<a, x>>) = {}
<1>0. <<a, x>>[2] = x
  OBVIOUS
<1>1. CASE i.mode = "abs"
  <2>1. LdValue(i) = IF i.k >= AddrBase THEN AddressField(pkt, i.k) ELSE LoadBytes(pkt, i.size, i.k)
    BY <1>1 DEF LdValue, LoadAbs
  <2>2. Outcome(pkt, i, <<a, x>>) =
          {<<u, <<a, x>>[2]>> : u \in IF i.k >= AddrBase THEN AddressField(pkt, i.k) ELSE LoadBytes(pkt, i.size, i.k)}
    BY <1>1, Zenon DEF Outcome
  <2> QED BY <1>0, <2>1, <2>2
<1>2. CASE i.mode = "ind"
  <2>1. LdValue(i) = LoadBytes(pkt, i.size, (x + i.k) % Word)
    BY <1>2 DEF LdValue, LoadInd
  <2>2. Outcome(pkt, i, <<a, x>>) = {<<u, <<a, x>>[2]>> : u \in LoadBytes(pkt, i.size, (<<a, x>>[2] + i.k) % Word)}
    BY <1>2, Zenon DEF Outcome
  <2> QED BY <1>0, <2>1, <2>2
<1> QED BY <1>1, <1>2

LEMMA LdxOutcome ==
  ASSUME NEW i, i.class = "ldx", i.mode = "msh"
  PROVE  /\ LdxValue(i) = {} => Outcome(pkt, i, <<a, x>>) = {}
         /\ \A v \in LdxValue(i) : <<a, v>> \in Outcome(pkt, i, <<a, x>>)
<1>0. <<a, x>>[1] = a
  OBVIOUS
<1>1. LdxValue(i) = {(v % 16) * 4 : v \in LoadBytes(pkt, "b", i.k)}
  BY DEF LdxValue
<1>2. Outcome(pkt, i, <<a, x>>) = {<<<<a, x>>[1], (v % 16) * 4>> : v \in LoadBytes(pkt, "b", i.k)}
  BY Zenon DEF Outcome
<1> QED BY <1>0, <1>1, <1>2

LEMMA AluOutcome ==
  ASSUME NEW i, i.class = "alu", i.op = "rsh", i.src = "k"
  PROVE  \E u : AluValue(i.op, Source(i)) = {u} /\ <<u, x>> \in Outcome(pkt, i, <<a, x>>)
<1>0. <<a, x>>[1] = a /\ <<a, x>>[2] = x
  OBVIOUS
<1>1. Source(i) = i.k
  BY DEF Source
<1>2. AluValue(i.op, Source(i)) = {a \div 2^(i.k % 32)}
  BY <1>1, Zenon DEF AluValue
<1>3. Outcome(pkt, i, <<a, x>>) = {<<<<a, x>>[1] \div 2^(i.k % 32), <<a, x>>[2]>>}
  BY Zenon DEF Outcome
<1> QED BY <1>0, <1>2, <1>3

LEMMA JumpOffsets ==
  ASSUME NEW i, NEW op \in {"jeq", "jset"}, NEW v, NEW d1, NEW d2, i = Jmp(op, v, d1, d2)
  PROVE  JumpOffset(i, Source(i)) = {IF Holds(op, a, v) THEN d1 ELSE d2}
<1>1. i.op = op /\ i.src = "k" /\ i.k = v /\ i.jt = d1 /\ i.jf = d2
  BY JmpFields
<1>2. Source(i) = v
  BY <1>1 DEF Source
<1>3. CASE op = "jeq"
  <2>1. JumpOffset(i, Source(i)) = {IF a = v THEN d1 ELSE d2}
    BY <1>1, <1>2, <1>3, Zenon DEF JumpOffset
  <2> QED BY <1>3, <2>1 DEF Holds
<1>4. CASE op = "jset"
  <2>1. JumpOffset(i, Source(i)) = {IF BitAnd(a, v) # 0 THEN d1 ELSE d2}
    BY <1>1, <1>2, <1>4, Zenon DEF JumpOffset
  <2> QED BY <1>4, <2>1 DEF Holds
<1> QED BY <1>3, <1>4

LEMMA StepKinds ==
  ASSUME NEW i, IsStep(i)
  PROVE  /\ i.class \in {"ld", "ldx", "alu"}
         /\ i.class = "ld" => i.mode \in {"abs", "ind"}
         /\ i.class = "ldx" => i.mode = "msh"
         /\ i.class = "alu" => i.op = "rsh" /\ i.src = "k"
BY DEF IsStep

\* A load or a shift.
LEMMA PlainStep ==
  ASSUME NEW w, result = NoResult, IsStep(Insn), Run, pc < Len(program), pc \in Nat, Len(program) \in Nat,
         Outcome(pkt, Insn, <<a, x>>) = {} => w = 0,
         \A q \in Outcome(pkt, Insn, <<a, x>>) : RunsAt(pkt, insns, w, pc + 1, q)
  PROVE  Ran(w)
<1>0. /\ Insn.class \in {"ld", "ldx", "alu"}
      /\ Insn.class = "ld" => Insn.mode \in {"abs", "ind"}
      /\ Insn.class = "ldx" => Insn.mode = "msh"
      /\ Insn.class = "alu" => Insn.op = "rsh" /\ Insn.src = "k"
  BY StepKinds
<1>1. \A class : Running(class) => Insn.class = class
  BY DEF Running, Insn
<1>2. ~RunsOff
  BY DEF RunsOff
<1>3. ASSUME StepLd PROVE Ran(w)
  <2>1. Insn.class = "ld" /\ Insn.mode \in {"abs", "ind"}
    BY <1>0, <1>1, <1>3, Zenon DEF StepLd
  <2>2. CASE LdValue(Insn) = {} /\ Returns(0)
    <3>1. Outcome(pkt, Insn, <<a, x>>) = {}
      BY <2>1, <2>2, LdEmpty
    <3> QED BY <2>2, <3>1 DEF Ran, Returns
  <2>3. CASE \E v \in LdValue(Insn) : a' = v /\ pc' = pc + 1 /\ UNCHANGED <<x, m>> /\ Stay
    <3>1. PICK v \in LdValue(Insn) : a' = v /\ pc' = pc + 1 /\ x' = x /\ Stay
      BY <2>3
    <3>2. <<v, x>> \in Outcome(pkt, Insn, <<a, x>>)
      <4>1. LdValue(Insn) # {}
        BY <3>1
      <4> HIDE DEF Insn
      <4> QED BY <2>1, <3>1, <4>1, LdOutcome
    <3>3. RunsAt(pkt, insns, w, pc + 1, <<v, x>>)
      BY <3>2
    <3>4. RunsAt(pkt, insns, w, pc', <<a', x'>>)
      BY <3>1, <3>3
    <3> QED BY <3>1, <3>4 DEF Ran, Stay
  <2> QED BY <1>3, <2>2, <2>3 DEF StepLd
<1>4. ASSUME StepLdx PROVE Ran(w)
  <2>1. Insn.class = "ldx" /\ Insn.mode = "msh"
    BY <1>0, <1>1, <1>4, Zenon DEF StepLdx
  <2>2. CASE LdxValue(Insn) = {} /\ Returns(0)
    <3>1. Outcome(pkt, Insn, <<a, x>>) = {}
      BY <2>1, <2>2, LdxOutcome
    <3> QED BY <2>2, <3>1 DEF Ran, Returns
  <2>3. CASE \E v \in LdxValue(Insn) : x' = v /\ pc' = pc + 1 /\ UNCHANGED <<a, m>> /\ Stay
    <3>1. PICK v \in LdxValue(Insn) : x' = v /\ pc' = pc + 1 /\ a' = a /\ Stay
      BY <2>3
    <3>2. <<a, v>> \in Outcome(pkt, Insn, <<a, x>>)
      BY <2>1, <3>1, LdxOutcome
    <3>3. RunsAt(pkt, insns, w, pc + 1, <<a, v>>)
      BY <3>2
    <3>4. RunsAt(pkt, insns, w, pc', <<a', x'>>)
      BY <3>1, <3>3
    <3> QED BY <3>1, <3>4 DEF Ran, Stay
  <2> QED BY <1>4, <2>2, <2>3 DEF StepLdx
<1>5. ASSUME StepAlu PROVE Ran(w)
  <2>1. Insn.class = "alu" /\ Insn.op = "rsh" /\ Insn.src = "k"
    BY <1>0, <1>1, <1>5, Zenon DEF StepAlu
  <2>2. PICK u : AluValue(Insn.op, Source(Insn)) = {u} /\ <<u, x>> \in Outcome(pkt, Insn, <<a, x>>)
    BY <2>1, AluOutcome
  <2>3. a' = u /\ pc' = pc + 1 /\ x' = x /\ Stay
    BY <1>5, <2>2 DEF StepAlu
  <2>4. RunsAt(pkt, insns, w, pc + 1, <<u, x>>)
    BY <2>2
  <2>5. RunsAt(pkt, insns, w, pc', <<a', x'>>)
    BY <2>3, <2>4
  <2> QED BY <2>3, <2>5 DEF Ran, Stay
<1>6. ~StepSt /\ ~StepJmp /\ ~StepRet /\ ~StepMisc
  BY <1>0, <1>1 DEF StepSt, StepJmp, StepRet, StepMisc
<1> QED BY <1>2, <1>3, <1>4, <1>5, <1>6 DEF Run

\* A return.
LEMMA ReturnStep ==
  ASSUME NEW w, Insn = Ret(w), Run, pc < Len(program), pc \in Nat, Len(program) \in Nat
  PROVE  Ran(w)
<1>0. Insn.class = "ret" /\ Insn.src = "k" /\ Insn.k = w
  BY RetFields
<1>1. \A class : Running(class) => Insn.class = class
  BY DEF Running, Insn
<1>2. ~RunsOff
  BY DEF RunsOff
<1>3. ~StepSt /\ ~StepJmp /\ ~StepMisc /\ ~StepLd /\ ~StepLdx /\ ~StepAlu
  BY <1>0, <1>1 DEF StepSt, StepJmp, StepMisc, StepLd, StepLdx, StepAlu
<1>4. StepRet
  BY <1>2, <1>3 DEF Run
<1>5. Source(Insn) = w
  BY <1>0 DEF Source
<1> QED BY <1>4, <1>5 DEF StepRet, Returns, Ran

\* A jump.
LEMMA JumpStep ==
  ASSUME NEW w, result = NoResult, Run, pc < Len(program), pc \in Nat, Len(program) \in Nat,
         NEW op \in {"jeq", "jset"}, NEW v, NEW d1, NEW d2, Insn = Jmp(op, v, d1, d2),
         NEW d, d = (IF Holds(op, a, v) THEN d1 ELSE d2), pc + 1 + d \in 0..(Len(program) - 1),
         RunsAt(pkt, insns, w, pc + 1 + d, <<a, x>>)
  PROVE  Ran(w)
<1>0. Insn.class = "jmp"
  BY JmpFields
<1>1. \A class : Running(class) => Insn.class = class
  BY DEF Running, Insn
<1>2. ~RunsOff
  BY DEF RunsOff
<1>3. ~StepSt /\ ~StepRet /\ ~StepMisc /\ ~StepLd /\ ~StepLdx /\ ~StepAlu
  BY <1>0, <1>1 DEF StepSt, StepRet, StepMisc, StepLd, StepLdx, StepAlu
<1>4. StepJmp
  BY <1>2, <1>3 DEF Run
<1>5. JumpOffset(Insn, Source(Insn)) = {d}
  BY JumpOffsets
<1>6. {Target(off) : off \in JumpOffset(Insn, Source(Insn))} \cap 0..(Len(program) - 1) = {pc + 1 + d}
  BY <1>5 DEF Target
<1>7. pc' = pc + 1 + d /\ a' = a /\ x' = x /\ Stay
  BY <1>4, <1>6 DEF StepJmp
<1>8. RunsAt(pkt, insns, w, pc', <<a', x'>>)
  BY <1>7
<1> QED BY <1>7, <1>8 DEF Ran, Stay

\* A step of the interpreter: w is returned, or is still to be returned.
LEMMA RunStep ==
  ASSUME NEW w, NEW n, Layout(insns, <<>>, n), program = ResolveInsns(insns), result = NoResult,
         RunsAt(pkt, insns, w, pc, <<a, x>>), Run
  PROVE  Ran(w)
<1>1. Listing(insns) /\ Ends(insns, <<>>)
  BY LayoutParts
<1>2. Len(program) = Size(insns) /\ Size(insns) \in Nat
  BY <1>1, ProgramIs
<1>3. CASE pc = Size(insns) /\ w = 0
  <2>1. program # <<>>
    <3>1. Len(insns) \in Nat /\ insns # <<>> /\ IsInsn(insns[Len(insns)])
      BY <1>1, SMT DEF Listing, Ends
    <3>2. Len(insns) >= 1
      BY <1>1, SMT DEF Listing, Ends
    <3>3. Len(insns) \in 1..Len(insns)
      BY <3>1, <3>2
    <3>4. Before(insns, Len(insns)) \in Nat /\ Before(insns, Len(insns)) < Size(insns)
      BY <1>1, <3>1, <3>3, ProgramIs
    <3>5. Len(program) > 0
      BY <1>2, <3>4
    <3> QED BY <3>5
  <2>2. \A class : ~Running(class)
    BY <1>2, <1>3 DEF Running
  <2>3. ~StepSt /\ ~StepJmp /\ ~StepRet /\ ~StepMisc /\ ~StepLd /\ ~StepLdx /\ ~StepAlu
    BY <2>2 DEF StepSt, StepJmp, StepRet, StepMisc, StepLd, StepLdx, StepAlu
  <2>4. RunsOff
    BY <2>3 DEF Run
  <2> QED BY <1>3, <2>1, <2>4 DEF RunsOff, Returns, Ran
<1>4. CASE /\ pc \in Nat /\ pc < Size(insns) /\ Size(insns) \in Nat
           /\ RunsOn(pkt, insns, w, ResolveInsns(insns)[pc + 1], pc, <<a, x>>, Size(insns))
  <2>1. ResolveInsns(insns)[pc + 1] = Insn
    BY DEF Insn
  <2>2. RunsOn(pkt, insns, w, Insn, pc, <<a, x>>, Len(program))
    BY <1>2, <1>4, <2>1
  <2>3. pc < Len(program) /\ pc \in Nat /\ Len(program) \in Nat
    BY <1>2, <1>4
  <2>4. <<a, x>>[1] = a
    OBVIOUS
  <2>5. CASE \E v \in {0, U32Max} : Insn = Ret(v) /\ w = v
    BY <2>3, <2>5, ReturnStep
  <2>6. CASE /\ IsStep(Insn)
             /\ Outcome(pkt, Insn, <<a, x>>) = {} => w = 0
             /\ \A q \in Outcome(pkt, Insn, <<a, x>>) : RunsAt(pkt, insns, w, pc + 1, q)
    BY <2>3, <2>6, PlainStep
  <2>7. CASE \E op, v, d1, d2 :
       /\ Insn = Jmp(op, v, d1, d2) /\ op \in {"jeq", "jset"}
       /\ \E d : /\ d = (IF Holds(op, <<a, x>>[1], v) THEN d1 ELSE d2) /\ pc + 1 + d \in 0..(Len(program) - 1)
                 /\ RunsAt(pkt, insns, w, pc + 1 + d, <<a, x>>)
    <3>1. PICK op, v, d1, d2 :
       /\ Insn = Jmp(op, v, d1, d2) /\ op \in {"jeq", "jset"}
       /\ \E d : /\ d = (IF Holds(op, <<a, x>>[1], v) THEN d1 ELSE d2) /\ pc + 1 + d \in 0..(Len(program) - 1)
                 /\ RunsAt(pkt, insns, w, pc + 1 + d, <<a, x>>)
      BY <2>7
    <3>2. PICK d : /\ d = (IF Holds(op, <<a, x>>[1], v) THEN d1 ELSE d2) /\ pc + 1 + d \in 0..(Len(program) - 1)
                   /\ RunsAt(pkt, insns, w, pc + 1 + d, <<a, x>>)
      BY <3>1
    <3>3. d = (IF Holds(op, a, v) THEN d1 ELSE d2)
      BY <2>4, <3>2
    <3> QED BY <2>3, <3>1, <3>2, <3>3, JumpStep
  <2> QED BY <2>2, <2>5, <2>6, <2>7, Zenon DEF RunsOn
<1> QED BY <1>3, <1>4, Meets

(***************************************************************************)
(* 10. The invariant of FilterSpec.                                        *)
(***************************************************************************)

(***************************************************************************)
(* The parser, step by step.                                               *)
(***************************************************************************)

LEMMA StackListing ==
  ASSUME NEW cs, Stack(cs)
  PROVE  Listing(cs)
BY Zenon DEF Stack, Listing

LEMMA NotsPush ==
  ASSUME NEW cs, Listing(cs), Nots(cs), NEW c, c.fn = "not" => c.node = NoTree
  PROVE  Nots(Append(cs, c))
BY PushIndex DEF Nots

LEMMA NotsPop ==
  ASSUME NEW cs, Listing(cs), cs # <<>>, Nots(cs)
  PROVE  Nots(Back(cs)) /\ (cs[Len(cs)].fn = "not" => cs[Len(cs)].node = NoTree)
<1>1. Nots(Back(cs))
  BY BackIndex DEF Nots
<1>2. Len(cs) \in 1..Len(cs)
  BY BackIndex
<1> QED BY <1>1, <1>2 DEF Nots

LEMMA CallFields ==
  \A fn, node : Call(fn, node).fn = fn /\ Call(fn, node).node = node
BY DEF Call

LEMMA NotsExpr ==
  ASSUME NEW cs, Listing(cs), Nots(cs)
  PROVE  Nots(cs \o ParseExpr)
<1> DEFINE c == Call("expr", NoTree)
           d == Call("term", NoTree)
<1>1. cs \o <<c, d>> = Append(Append(cs, c), d)
  BY PushOne
<1>2. c.fn # "not" /\ d.fn # "not"
  BY CallFields
<1> HIDE DEF c, d
<1>3. Nots(Append(cs, c)) /\ Listing(Append(cs, c))
  BY <1>2, NotsPush, PushIndex
<1>4. Nots(Append(Append(cs, c), d))
  BY <1>2, <1>3, NotsPush
<1> QED BY <1>1, <1>4 DEF ParseExpr, c, d

LEMMA ReadIsTree ==
  ASSUME NEW s, NEW i, NEW cs, NEW e, NEW p, HasRead(s, i, cs, e, p)
  PROVE  e # NoTree
<1>1. \E v : TreeSays(p, e, v)
  BY Zenon DEF HasRead
<1> QED BY <1>1, TreeIsTree

LEMMA HasReadMidway ==
  ASSUME NEW s, NEW i, NEW cs, NEW e, NEW p, HasRead(s, i, cs, e, p)
  PROVE  Midway(s, i, cs, e, p)
<1>1. e # NoTree
  BY ReadIsTree
<1> QED BY <1>1, Zenon DEF Midway

LEMMA PendingMidway ==
  ASSUME NEW s, NEW i, NEW cs, NEW p, Pending(s, i, cs, p)
  PROVE  Midway(s, i, cs, NoTree, p)
BY Zenon DEF Midway

LEMMA ParsingParts ==
  ASSUME NEW s, NEW i, NEW cs, NEW e, Parsing(s, i, cs, e)
  PROVE  /\ s \in Seq(Token) /\ i \in Pos(s) /\ Stack(cs) /\ Nots(cs) /\ Listing(cs)
         /\ e = NoTree => \A p : Pending(s, i, cs, p)
         /\ e # NoTree => \A p : HasRead(s, i, cs, e, p)
<1>1. s \in Seq(Token) /\ i \in Pos(s) /\ Stack(cs) /\ Nots(cs) /\ \A p : Midway(s, i, cs, e, p)
  BY Zenon DEF Parsing
<1>2. Listing(cs)
  BY <1>1, StackListing
<1>3. e = NoTree => \A p : Pending(s, i, cs, p)
  BY <1>1, Zenon DEF Midway
<1>4. e # NoTree => \A p : HasRead(s, i, cs, e, p)
  BY <1>1, Zenon DEF Midway
<1> QED BY <1>1, <1>2, <1>3, <1>4

LEMMA ParsingStart ==
  ASSUME NEW s \in Seq(Token)
  PROVE  Parsing(s, 1, ParseExpr, NoTree)
<1>1. Stack(ParseExpr) /\ \A p : Midway(s, 1, ParseExpr, NoTree, p)
  BY StartsPending, PendingMidway
<1>2. 1 \in Pos(s)
  BY SMT DEF Pos
<1>3. Nots(ParseExpr)
  <2>1. ParseExpr[1].fn = "expr" /\ ParseExpr[2].fn = "term" /\ Len(ParseExpr) = 2
    BY DEF ParseExpr, Call
  <2> QED BY <2>1 DEF Nots
<1> QED BY <1>1, <1>2, <1>3, Zenon DEF Parsing

LEMMA ParsingNot ==
  ASSUME NEW s, NEW i, NEW cs, Parsing(s, i, cs, NoTree), At(s, i) = "not"
  PROVE  Parsing(s, i + 1, Append(cs, Call("not", NoTree)), NoTree)
<1>1. s \in Seq(Token) /\ i \in Pos(s) /\ Stack(cs) /\ Nots(cs) /\ Listing(cs)
  BY ParsingParts
<1>2. ASSUME NEW p PROVE Midway(s, i + 1, Append(cs, Call("not", NoTree)), NoTree, p)
  <2>1. Pending(s, i, cs, p)
    BY ParsingParts
  <2>2. Pending(s, i + 1, Append(cs, Call("not", NoTree)), p)
    BY <1>1, <2>1, MeetsNot
  <2> QED BY <2>2, PendingMidway
<1>3. i + 1 \in Pos(s)
  BY <1>1, LaterPos
<1>4. Stack(Append(cs, Call("not", NoTree)))
  <2>1. Call("not", NoTree).fn = "not"
    BY CallFields
  <2> QED BY <1>1, <2>1, StackPush
<1>5. Nots(Append(cs, Call("not", NoTree)))
  BY <1>1, CallFields, NotsPush
<1> QED BY <1>1, <1>2, <1>3, <1>4, <1>5, Zenon DEF Parsing

LEMMA ParsingParen ==
  ASSUME NEW s, NEW i, NEW cs, Parsing(s, i, cs, NoTree), At(s, i) = "("
  PROVE  Parsing(s, i + 1, Append(cs, Call("(", NoTree)) \o ParseExpr, NoTree)
<1> DEFINE n == Append(cs, Call("(", NoTree))
<1>1. s \in Seq(Token) /\ i \in Pos(s) /\ Stack(cs) /\ Nots(cs) /\ Listing(cs)
  BY ParsingParts
<1>2. ASSUME NEW p PROVE Midway(s, i + 1, n \o ParseExpr, NoTree, p)
  <2>1. Pending(s, i, cs, p)
    BY ParsingParts
  <2>2. Pending(s, i + 1, n \o ParseExpr, p)
    BY <1>1, <2>1, MeetsParen
  <2> QED BY <2>2, PendingMidway
<1>3. i + 1 \in Pos(s)
  BY <1>1, LaterPos
<1>4. Call("(", NoTree).fn = "("
  BY CallFields
<1>5. Stack(n) /\ Nots(n) /\ Listing(n) /\ n[Len(n)].fn = "("
  <2>1. Stack(n)
    BY <1>1, <1>4, StackPush
  <2>2. Nots(n)
    BY <1>1, <1>4, NotsPush
  <2>3. n[Len(n)] = Call("(", NoTree)
    BY <1>1, BackPush
  <2> QED BY <1>4, <2>1, <2>2, <2>3, StackListing
<1> HIDE DEF n
<1>6. Stack(n \o ParseExpr) /\ Nots(n \o ParseExpr)
  BY <1>5, StackExpr, NotsExpr
<1>7. Parsing(s, i + 1, n \o ParseExpr, NoTree)
  BY <1>1, <1>2, <1>3, <1>6, Zenon DEF Parsing
<1> QED BY <1>7 DEF n

LEMMA ParsingTest ==
  ASSUME NEW s, NEW i, NEW cs, Parsing(s, i, cs, NoTree),
         At(s, i) \notin {"not", "("}, NEW to, NEW name, NEW dir, NEW val,
         name = At(s, NameAt(s, i)),
         \/ IsSimple(s, i) /\ to = NameAt(s, i) + 1 /\ dir = "either" /\ val = 0
         \/ /\ HasArgument(s, i) /\ to = NameAt(s, i) + 2
            /\ dir = Direction(s, i) /\ val = s[NameAt(s, i) + 1].v
  PROVE  Parsing(s, to, cs, Primitive(name, dir, val))
<1>1. s \in Seq(Token) /\ i \in Pos(s) /\ Stack(cs) /\ Nots(cs)
  BY ParsingParts
<1>2. ASSUME NEW p PROVE HasRead(s, to, cs, Primitive(name, dir, val), p) /\ to \in Pos(s)
  <2>1. Pending(s, i, cs, p)
    BY ParsingParts
  <2> QED BY <1>1, <2>1, MeetsTest
<1>3. \A p : Midway(s, to, cs, Primitive(name, dir, val), p)
  BY <1>2, HasReadMidway
<1>4. to \in Pos(s)
  BY <1>2
<1> QED BY <1>1, <1>3, <1>4, Zenon DEF Parsing

LEMMA ParsingFails ==
  ASSUME NEW s, NEW i, NEW cs, Parsing(s, i, cs, NoTree), At(s, i) \notin {"not", "("}, ~IsSimple(s, i), ~HasArgument(s, i), NEW p
  PROVE  FilterSays(s, p) = {}
<1>1. s \in Seq(Token) /\ i \in Pos(s) /\ Pending(s, i, cs, p)
  BY ParsingParts
<1> QED BY <1>1, MeetsNothing

LEMMA NotsTop ==
  ASSUME NEW cs, Listing(cs), cs # <<>>, Nots(cs), NEW c, c.fn = "not" => c.node = NoTree
  PROVE  Nots(Append(Back(cs), c))
BY NotsPop, NotsPush, BackIndex

LEMMA ParsingRead ==
  ASSUME NEW s, NEW i, NEW cs, NEW e, e # NoTree, Parsing(s, i, cs, e), cs # <<>>
  PROVE  /\ s \in Seq(Token) /\ i \in Pos(s) /\ Stack(cs) /\ Listing(cs) /\ Nots(cs)
         /\ \A p : HasRead(s, i, cs, e, p)
         /\ Stack(Back(cs)) /\ Nots(Back(cs)) /\ Listing(Back(cs))
<1>1. s \in Seq(Token) /\ i \in Pos(s) /\ Stack(cs) /\ Listing(cs) /\ Nots(cs)
  BY ParsingParts
<1>2. \A p : HasRead(s, i, cs, e, p)
  BY ParsingParts
<1>3. Stack(Back(cs)) /\ Nots(Back(cs)) /\ Listing(Back(cs))
  BY <1>1, StackPop, NotsPop, StackListing DEF Back
<1> QED BY <1>1, <1>2, <1>3

LEMMA ParsingHas ==
  ASSUME NEW s \in Seq(Token), NEW i \in Pos(s), NEW cs, Stack(cs), Nots(cs), NEW e, \A p : HasRead(s, i, cs, e, p)
  PROVE  Parsing(s, i, cs, e)
<1>1. \A p : Midway(s, i, cs, e, p)
  BY HasReadMidway
<1> QED BY <1>1, Zenon DEF Parsing

LEMMA ParsingWaits ==
  ASSUME NEW s \in Seq(Token), NEW i \in Pos(s), NEW cs, Stack(cs), Nots(cs), \A p : Pending(s, i, cs, p)
  PROVE  Parsing(s, i, cs, NoTree)
<1>1. \A p : Midway(s, i, cs, NoTree, p)
  BY PendingMidway
<1> QED BY <1>1, Zenon DEF Parsing

\* A tree is returned to "not".
LEMMA ParsingNegated ==
  ASSUME NEW s, NEW i, NEW cs, NEW e, e # NoTree, Parsing(s, i, cs, e), cs # <<>>, cs[Len(cs)].fn = "not"
  PROVE  Parsing(s, i, Back(cs), Negation(e))
<1>1. s \in Seq(Token) /\ i \in Pos(s) /\ Stack(cs) /\ Listing(cs) /\ Nots(cs) /\ Stack(Back(cs)) /\ Nots(Back(cs))
  BY ParsingRead
<1>2. cs[Len(cs)].node = NoTree
  BY <1>1, NotsPop
<1>3. ASSUME NEW p PROVE HasRead(s, i, Back(cs), Negation(e), p)
  <2>1. HasRead(s, i, cs, e, p)
    BY ParsingRead
  <2> QED BY <1>1, <1>2, <2>1, GivesNot
<1> QED BY <1>1, <1>3, ParsingHas

\* A tree is returned to a parenthesis.
LEMMA ParsingClosed ==
  ASSUME NEW s, NEW i, NEW cs, NEW e, e # NoTree, Parsing(s, i, cs, e), cs # <<>>, cs[Len(cs)].fn = "("
  PROVE  /\ At(s, i) = ")" => Parsing(s, i + 1, Back(cs), e)
         /\ At(s, i) # ")" => \A p : FilterSays(s, p) = {}
<1>1. s \in Seq(Token) /\ i \in Pos(s) /\ Stack(cs) /\ Stack(Back(cs)) /\ Nots(Back(cs))
  BY ParsingRead
<1>2. \A p : IF At(s, i) = ")" THEN HasRead(s, i + 1, Back(cs), e, p) ELSE FilterSays(s, p) = {}
  <2> TAKE p
  <2>1. HasRead(s, i, cs, e, p)
    BY ParsingRead
  <2> QED BY <1>1, <2>1, GivesParen
<1>3. CASE At(s, i) = ")"
  <2>1. i + 1 \in Pos(s)
    BY <1>1, <1>3, LaterPos
  <2>2. \A p : HasRead(s, i + 1, Back(cs), e, p)
    BY <1>2, <1>3
  <2> QED BY <1>1, <1>3, <2>1, <2>2, ParsingHas
<1>4. CASE At(s, i) # ")"
  BY <1>2, <1>4
<1> QED BY <1>3, <1>4

\* A factor is returned to a term.
LEMMA ParsingFactor ==
  ASSUME NEW s, NEW i, NEW cs, NEW e, e # NoTree, Parsing(s, i, cs, e), cs # <<>>, cs[Len(cs)].fn = "term",
         NEW W, W = WithOf("and", cs[Len(cs)].node, e)
  PROVE  /\ At(s, i) \in {"or", ")", "end"} => Parsing(s, i, Back(cs), W)
         /\ \A j : At(s, i) \notin {"or", ")", "end"} /\ j = (IF At(s, i) = "and" THEN i + 1 ELSE i) =>
              Parsing(s, j, Append(Back(cs), Call("term", W)), NoTree)
<1>1. s \in Seq(Token) /\ i \in Pos(s) /\ Stack(cs) /\ Listing(cs) /\ Nots(cs) /\ Stack(Back(cs)) /\ Nots(Back(cs))
  BY ParsingRead
<1>2. ASSUME At(s, i) \in {"or", ")", "end"}
      PROVE  Parsing(s, i, Back(cs), W)
  <2>1. ASSUME NEW p PROVE HasRead(s, i, Back(cs), W, p)
    <3>1. HasRead(s, i, cs, e, p)
      BY ParsingRead
    <3> QED BY <1>1, <1>2, <3>1, GivesTerm
  <2> QED BY <1>1, <2>1, ParsingHas
<1>3. ASSUME NEW j, At(s, i) \notin {"or", ")", "end"}, j = (IF At(s, i) = "and" THEN i + 1 ELSE i)
      PROVE  Parsing(s, j, Append(Back(cs), Call("term", W)), NoTree)
  <2> DEFINE n == Append(Back(cs), Call("term", W))
  <2>1. ASSUME NEW p PROVE j \in Pos(s) /\ Pending(s, j, n, p)
    <3>1. HasRead(s, i, cs, e, p)
      BY ParsingRead
    <3> QED BY <1>1, <1>3, <3>1, GivesTerm
  <2>2. Call("term", W).fn = "term"
    BY CallFields
  <2>3. Back(cs) # <<>> /\ Back(cs)[Len(Back(cs))].fn = "expr"
    BY <1>1, StackPop DEF Back
  <2>4. Stack(n)
    BY <1>1, <2>2, <2>3, StackPush
  <2>5. Nots(n)
    BY <1>1, <2>2, NotsTop
  <2> HIDE DEF n
  <2>6. Parsing(s, j, n, NoTree)
    BY <1>1, <2>1, <2>4, <2>5, ParsingWaits
  <2> QED BY <2>6 DEF n
<1> QED BY <1>2, <1>3

\* A term is returned to an expression.
LEMMA ParsingTerm ==
  ASSUME NEW s, NEW i, NEW cs, NEW e, e # NoTree, Parsing(s, i, cs, e), cs # <<>>, cs[Len(cs)].fn = "expr",
         NEW W, W = WithOf("or", cs[Len(cs)].node, e)
  PROVE  /\ At(s, i) # "or" => Parsing(s, i, Back(cs), W)
         /\ At(s, i) = "or" => Parsing(s, i + 1, Back(cs) \o <<Call("expr", W), Call("term", NoTree)>>, NoTree)
<1>1. s \in Seq(Token) /\ i \in Pos(s) /\ Stack(cs) /\ Listing(cs) /\ Nots(cs) /\ Stack(Back(cs)) /\ Nots(Back(cs))
      /\ Listing(Back(cs))
  BY ParsingRead
<1>2. ASSUME At(s, i) # "or"
      PROVE  Parsing(s, i, Back(cs), W)
  <2>1. ASSUME NEW p PROVE HasRead(s, i, Back(cs), W, p)
    <3>1. HasRead(s, i, cs, e, p)
      BY ParsingRead
    <3> QED BY <1>1, <1>2, <3>1, GivesExpr
  <2> QED BY <1>1, <2>1, ParsingHas
<1>3. ASSUME At(s, i) = "or"
      PROVE  Parsing(s, i + 1, Back(cs) \o <<Call("expr", W), Call("term", NoTree)>>, NoTree)
  <2> DEFINE c == Call("expr", W)
             d == Call("term", NoTree)
             n == Append(Back(cs), c)
  <2>1. ASSUME NEW p PROVE i + 1 \in Pos(s) /\ Pending(s, i + 1, Append(n, d), p)
    <3>1. HasRead(s, i, cs, e, p)
      BY ParsingRead
    <3> QED BY <1>1, <1>3, <3>1, GivesExpr
  <2>2. c.fn = "expr" /\ d.fn = "term" /\ d.node = NoTree
    BY CallFields
  <2>3. Back(cs) = <<>> \/ Back(cs)[Len(Back(cs))].fn = "("
    BY <1>1, StackPop DEF Back
  <2>a. Back(cs) \o <<c, d>> = Append(n, d)
    BY <1>1, PushOne
  <2> HIDE DEF c, d
  <2>4. Stack(n) /\ Nots(n) /\ Listing(n) /\ n # <<>> /\ n[Len(n)] = c
    <3>1. Stack(n)
      BY <1>1, <2>2, <2>3, StackPush
    <3>2. Nots(n)
      BY <1>1, <2>2, NotsTop
    <3>3. Listing(n) /\ n # <<>>
      BY <1>1, PushIndex
    <3>4. n[Len(n)] = c
      BY <1>1, BackPush
    <3> QED BY <3>1, <3>2, <3>3, <3>4
  <2> HIDE DEF n
  <2>5. Stack(Append(n, d))
    BY <2>2, <2>4, StackPush
  <2>6. Nots(Append(n, d))
    BY <2>2, <2>4, NotsPush
  <2>7. Parsing(s, i + 1, Append(n, d), NoTree)
    BY <1>1, <2>1, <2>5, <2>6, ParsingWaits
  <2>8. Parsing(s, i + 1, Back(cs) \o <<c, d>>, NoTree)
    BY <2>7, <2>a
  <2> QED BY <2>8 DEF c, d
<1> QED BY <1>2, <1>3

(***************************************************************************)
(* The code generator, step by step.                                       *)
(***************************************************************************)

LEMMA AllIsNat ==
  ASSUME NEW s \in Seq(Token)
  PROVE  All(s) \in Nat /\ 5 * All(s) + 2 \in Nat
<1>1. Len(s) \in Nat
  OBVIOUS
<1>2. IsFiniteSet(1..Len(s))
  BY <1>1, FS_Interval
<1>3. IsFiniteSet(Names(s))
  BY <1>2, FS_Subset, Zenon DEF Names
<1>4. All(s) \in Nat
  BY <1>3, FS_CardinalityType, Zenon DEF All
<1> QED BY <1>4, SMT

LEMMA CodeKept ==
  ASSUME NEW s \in Seq(Token), NEW p, NEW ir, NEW td, NEW jr, NEW ud, CodeSays(s, p, ir, td),
         \A w : \A z \in Nat : Codes(p, w, ir, td, z) => Codes(p, w, jr, ud, z)
  PROVE  CodeSays(s, p, jr, ud)
<1> DEFINE z == 5 * All(s) + 2
<1>1. z \in Nat
  BY AllIsNat
<1> HIDE DEF z
<1>2. PICK v \in Values : FilterSays(s, p) = {v} /\ Codes(p, To(v, U32Max, 0), ir, td, z)
  BY Zenon DEF CodeSays, z
<1>3. Codes(p, To(v, U32Max, 0), jr, ud, z)
  BY <1>1, <1>2
<1> QED BY <1>2, <1>3, Zenon DEF CodeSays, z

LEMMA EmissionParts ==
  ASSUME NEW s, NEW ir, NEW td, NEW n, Emission(s, ir, td, n)
  PROVE  /\ s \in Seq(Token) /\ Layout(ir, td, n) /\ LastRet(ir, td) /\ Listing(ir) /\ Listing(td)
         /\ \A p : CodeSays(s, p, ir, td)
BY Zenon DEF Emission, Layout

LEMMA LastPush ==
  ASSUME NEW q, Listing(q), q # <<>>, NEW ir, NEW c, LastRet(ir, q)
  PROVE  LastRet(ir, Append(q, c))
<1>1. 1 \in 1..Len(q)
  <2>1. Len(q) \in Nat /\ Len(q) >= 1
    BY BackIndex
  <2> QED BY <2>1, SMT
<1>2. Append(q, c)[1] = q[1] /\ Append(q, c) # <<>>
  BY <1>1, PushIndex
<1> QED BY <1>2 DEF LastRet

LEMMA LastPop ==
  ASSUME NEW q, Listing(q), q # <<>>, NEW ir, NEW jr, LastRet(ir, q)
  PROVE  /\ Back(q) # <<>> => LastRet(jr, Back(q))
         /\ Back(q) = <<>> => q[Len(q)] = Plain(Ret(0))
         /\ q[Len(q)].ir = "call" => Back(q) # <<>>
<1>1. q[1] = Plain(Ret(0))
  BY DEF LastRet
<1>2. Back(q) = <<>> => Len(q) = 1
  <2>1. Len(q) \in Nat /\ Len(Back(q)) = Len(q) - 1
    BY BackIndex
  <2>2. Back(q) = <<>> => Len(Back(q)) = 0
    OBVIOUS
  <2> QED BY <2>1, <2>2, SMT
<1>3. ASSUME Back(q) # <<>>
      PROVE  LastRet(jr, Back(q))
  <2>1. Listing(Back(q))
    BY BackIndex
  <2>2. Len(Back(q)) \in Nat /\ Len(Back(q)) >= 1
    BY <1>3, <2>1, BackIndex
  <2>3. 1 \in 1..Len(Back(q))
    BY <2>2, SMT
  <2>4. Back(q)[1] = q[1]
    BY <2>3, BackIndex
  <2> QED BY <1>1, <1>3, <2>4 DEF LastRet
<1>4. Plain(Ret(0)).ir = "insn"
  BY ItemFields
<1> QED BY <1>1, <1>2, <1>3, <1>4

\* The parser is done: the text is refused, or is now said by its tree.
LEMMA EmissionStart ==
  ASSUME NEW s, NEW i, NEW e, e # NoTree, Parsing(s, i, <<>>, e)
  PROVE  /\ i <= Len(s) => \A p : FilterSays(s, p) = {}
         /\ i > Len(s) => Emission(s, <<>>, FirstToDo(e), 2)
<1>1. s \in Seq(Token) /\ i \in Pos(s) /\ \A p : HasRead(s, i, <<>>, e, p)
  BY ParsingParts
<1>2. ASSUME NEW p
      PROVE  /\ i <= Len(s) => FilterSays(s, p) = {}
             /\ i > Len(s) => CodeSays(s, p, <<>>, FirstToDo(e))
  <2>1. HasRead(s, i, <<>>, e, p)
    BY <1>1
  <2>2. i <= Len(s) => FilterSays(s, p) = {}
    BY <1>1, <2>1, GivesEnd
  <2>3. ASSUME i > Len(s)
        PROVE  CodeSays(s, p, <<>>, FirstToDo(e))
    <3>1. \E v, c : TreeSays(p, e, v) /\ TreeTests(e, c) /\ c <= All(s) /\ FilterSays(s, p) = {v}
      BY <1>1, <2>1, <2>3, GivesEnd
    <3>2. PICK v, c : TreeSays(p, e, v) /\ TreeTests(e, c) /\ c <= All(s) /\ FilterSays(s, p) = {v}
      BY <3>1
    <3>3. v \in Values
      BY <3>2, TreeSaysValue
    <3>4. Codes(p, To(v, U32Max, 0), <<>>, FirstToDo(e), 5 * All(s) + 2)
      BY <1>1, <3>2, AllIsNat, FirstCodes
    <3> QED BY <3>2, <3>3, <3>4, Zenon DEF CodeSays
  <2> QED BY <2>2, <2>3
<1>3. Layout(<<>>, FirstToDo(e), 2) /\ FirstToDo(e) # <<>>
  BY FirstLayout
<1>4. LastRet(<<>>, FirstToDo(e))
  <2>1. FirstToDo(e)[1] = Plain(Ret(0))
    BY DEF FirstToDo
  <2> QED BY <1>3, <2>1 DEF LastRet
<1>5. i > Len(s) => Emission(s, <<>>, FirstToDo(e), 2)
  BY <1>1, <1>2, <1>3, <1>4, Zenon DEF Emission
<1> QED BY <1>2, <1>5

\* An item is emitted.
LEMMA EmissionEmits ==
  ASSUME NEW s, NEW ir, NEW td, NEW n, Emission(s, ir, td, n), td # <<>>, td[Len(td)].ir # "call"
  PROVE  Emission(s, Append(ir, td[Len(td)]), Back(td), n)
<1> DEFINE jr == Append(ir, td[Len(td)])
<1>1. s \in Seq(Token) /\ Layout(ir, td, n) /\ LastRet(ir, td) /\ Listing(ir) /\ Listing(td)
  BY EmissionParts
<1>2. ASSUME NEW p PROVE CodeSays(s, p, jr, Back(td))
  <2>1. CodeSays(s, p, ir, td)
    BY EmissionParts
  <2>2. ASSUME NEW w, NEW z \in Nat, Codes(p, w, ir, td, z) PROVE Codes(p, w, jr, Back(td), z)
    BY <1>1, <2>2, EmitCodes
  <2> QED BY <1>1, <2>1, <2>2, CodeKept
<1>3. Layout(jr, Back(td), n)
  BY <1>1, LayoutEmit
<1>4. LastRet(jr, Back(td))
  <2>1. CASE Back(td) # <<>>
    BY <1>1, <2>1, LastPop
  <2>2. CASE Back(td) = <<>>
    <3>1. td[Len(td)] = Plain(Ret(0))
      BY <1>1, <2>2, LastPop
    <3>2. jr[Len(ir) + 1] = td[Len(td)] /\ Len(jr) = Len(ir) + 1 /\ jr # <<>>
      BY <1>1, PushIndex
    <3> QED BY <2>2, <3>1, <3>2 DEF LastRet
  <2> QED BY <2>1, <2>2
<1> HIDE DEF jr
<1>5. Emission(s, jr, Back(td), n)
  BY <1>1, <1>2, <1>3, <1>4, Zenon DEF Emission
<1> QED BY <1>5 DEF jr

LEMMA EmissionJunction ==
  ASSUME NEW s, NEW ir, NEW td, NEW n, Emission(s, ir, td, n), td # <<>>,
         NEW c, c = td[Len(td)], c.ir = "call", c.e.op \in {"and", "or"}
  PROVE  Emission(s, ir,
           Back(td) \o <<CompileExpr(c.e.r, c.t, c.f), Label(n),
                         IF c.e.op = "and" THEN CompileExpr(c.e.l, n, c.f) ELSE CompileExpr(c.e.l, c.t, n)>>, n + 1)
<1> DEFINE q == Back(td)
           c1 == CompileExpr(c.e.r, c.t, c.f)
           c2 == Label(n)
           c3 == IF c.e.op = "and" THEN CompileExpr(c.e.l, n, c.f) ELSE CompileExpr(c.e.l, c.t, n)
           u1 == Append(q, c1)
           u2 == Append(u1, c2)
           u3 == Append(u2, c3)
<1>1. s \in Seq(Token) /\ Layout(ir, td, n) /\ LastRet(ir, td) /\ Listing(ir) /\ Listing(td)
  BY EmissionParts
<1>2. ASSUME NEW p PROVE CodeSays(s, p, ir, u3)
  <2>1. CodeSays(s, p, ir, td)
    BY EmissionParts
  <2>2. ASSUME NEW w, NEW z \in Nat, Codes(p, w, ir, td, z) PROVE Codes(p, w, ir, u3, z)
    BY <1>1, <2>2, JunctionCodes
  <2> QED BY <1>1, <2>1, <2>2, CodeKept
<1>3. Layout(ir, u3, n + 1)
  <2>1. /\ Layout(ir, Append(u2, CompileExpr(c.e.l, n, c.f)), n + 1)
        /\ Layout(ir, Append(u2, CompileExpr(c.e.l, c.t, n)), n + 1)
    BY <1>1, JunctionLayout
  <2> QED BY <2>1, Zenon
<1>4. Listing(q) /\ q # <<>> /\ LastRet(ir, q)
  BY <1>1, BackIndex, LastPop
<1> HIDE DEF q, c1, c2, c3
<1>5. Listing(u1) /\ u1 # <<>> /\ LastRet(ir, u1)
  BY <1>4, LastPush, PushIndex
<1> HIDE DEF u1
<1>6. Listing(u2) /\ u2 # <<>> /\ LastRet(ir, u2)
  BY <1>5, LastPush, PushIndex
<1> HIDE DEF u2
<1>7. LastRet(ir, u3)
  BY <1>6, LastPush
<1> HIDE DEF u3
<1>8. Emission(s, ir, u3, n + 1)
  BY <1>1, <1>2, <1>3, <1>7, Zenon DEF Emission
<1>9. q \o <<c1, c2, c3>> = u3
  BY <1>4, PushedThree DEF Listing, u3, u2, u1
<1>10. Emission(s, ir, q \o <<c1, c2, c3>>, n + 1)
  BY <1>8, <1>9
<1> QED BY <1>10 DEF q, c1, c2, c3

LEMMA EmissionNegation ==
  ASSUME NEW s, NEW ir, NEW td, NEW n, Emission(s, ir, td, n), td # <<>>,
         NEW c, c = td[Len(td)], c.ir = "call", c.e.op = "not"
  PROVE  Emission(s, ir, Back(td) \o <<CompileExpr(c.e.l, c.f, c.t)>>, n)
<1> DEFINE q == Back(td)
           d == CompileExpr(c.e.l, c.f, c.t)
           u == Append(q, d)
<1>1. s \in Seq(Token) /\ Layout(ir, td, n) /\ LastRet(ir, td) /\ Listing(ir) /\ Listing(td)
  BY EmissionParts
<1>2. ASSUME NEW p PROVE CodeSays(s, p, ir, u)
  <2>1. CodeSays(s, p, ir, td)
    BY EmissionParts
  <2>2. ASSUME NEW w, NEW z \in Nat, Codes(p, w, ir, td, z) PROVE Codes(p, w, ir, u, z)
    BY <1>1, <2>2, NegationCodes
  <2> QED BY <1>1, <2>1, <2>2, CodeKept
<1>3. Layout(ir, u, n)
  BY <1>1, NegationLayout
<1>4. Listing(q) /\ q # <<>> /\ LastRet(ir, q)
  BY <1>1, BackIndex, LastPop
<1> HIDE DEF q, d
<1>5. LastRet(ir, u)
  BY <1>4, LastPush
<1>6. q \o <<d>> = u
  BY <1>4, PushOne
<1> HIDE DEF u
<1>7. Emission(s, ir, u, n)
  BY <1>1, <1>2, <1>3, <1>5, Zenon DEF Emission
<1>8. Emission(s, ir, q \o <<d>>, n)
  BY <1>6, <1>7
<1> QED BY <1>8 DEF q, d

LEMMA EmissionTest ==
  ASSUME NEW s, NEW ir, NEW td, NEW n, Emission(s, ir, td, n), td # <<>>,
         NEW c, c = td[Len(td)], c.ir = "call", c.e.op \in Tests
  PROVE  /\ Len(Loads(c.e)) = 1 => Emission(s, OneSide(ir, c.e, c.t, c.f), Back(td), n)
         /\ Len(Loads(c.e)) = 2 => Emission(s, TwoSides(ir, c.e, c.t, c.f, n), Back(td), n + 1)
<1>1. s \in Seq(Token) /\ Layout(ir, td, n) /\ LastRet(ir, td) /\ Listing(ir) /\ Listing(td)
  BY EmissionParts
<1>2. Back(td) # <<>>
  BY <1>1, LastPop
<1>3. ASSUME NEW jr PROVE LastRet(jr, Back(td))
  BY <1>1, <1>2, LastPop
<1>4. \/ Len(Loads(c.e)) = 1 /\ Short(Loads(c.e)[1])
      \/ Len(Loads(c.e)) = 2 /\ One(Loads(c.e)[1]) /\ One(Loads(c.e)[2])
  BY LoadsShape
<1>5. ASSUME Len(Loads(c.e)) = 1
      PROVE  Emission(s, OneSide(ir, c.e, c.t, c.f), Back(td), n)
  <2> DEFINE jr == OneSide(ir, c.e, c.t, c.f)
  <2>1. ASSUME NEW p PROVE CodeSays(s, p, jr, Back(td))
    <3>1. CodeSays(s, p, ir, td)
      BY EmissionParts
    <3>2. ASSUME NEW w, NEW z \in Nat, Codes(p, w, ir, td, z) PROVE Codes(p, w, jr, Back(td), z)
      BY <1>1, <1>5, <3>2, OneTestCodes
    <3> QED BY <1>1, <3>1, <3>2, CodeKept
  <2>2. Layout(jr, Back(td), n)
    <3>1. Short(Loads(c.e)[1])
      BY <1>4, <1>5
    <3> QED BY <1>1, <3>1, OneTestLayout
  <2> HIDE DEF jr
  <2>3. Emission(s, jr, Back(td), n)
    BY <1>1, <1>3, <2>1, <2>2, Zenon DEF Emission
  <2> QED BY <2>3 DEF jr
<1>6. ASSUME Len(Loads(c.e)) = 2
      PROVE  Emission(s, TwoSides(ir, c.e, c.t, c.f, n), Back(td), n + 1)
  <2> DEFINE jr == TwoSides(ir, c.e, c.t, c.f, n)
  <2>1. ASSUME NEW p PROVE CodeSays(s, p, jr, Back(td))
    <3>1. CodeSays(s, p, ir, td)
      BY EmissionParts
    <3>2. ASSUME NEW w, NEW z \in Nat, Codes(p, w, ir, td, z) PROVE Codes(p, w, jr, Back(td), z)
      BY <1>1, <1>6, <3>2, TwoTestsCodes
    <3> QED BY <1>1, <3>1, <3>2, CodeKept
  <2>2. Layout(jr, Back(td), n + 1)
    <3>1. One(Loads(c.e)[1]) /\ One(Loads(c.e)[2])
      BY <1>4, <1>6
    <3> QED BY <1>1, <3>1, TwoTestsLayout
  <2> HIDE DEF jr
  <2>3. Emission(s, jr, Back(td), n + 1)
    BY <1>1, <1>3, <2>1, <2>2, Zenon DEF Emission
  <2> QED BY <2>3 DEF jr
<1> QED BY <1>5, <1>6

(***************************************************************************)
(* The invariant of the compiler and of the run of its program.            *)
(***************************************************************************)

\* A callout starts the program at its first instruction.
LEMMA StartsRunning ==
  ASSUME NEW p \in Packets, NEW w, NEW ir, NEW n, Layout(ir, <<>>, n), NEW z \in Nat, Codes(p, w, ir, <<>>, z)
  PROVE  RunsAt(p, ir, w, 0, <<0, 0>>)
<1>1. Listing(ir)
  BY LayoutParts
<1>2. PICK L : Behind(p, L, ir, <<Everywhere, w>>, <<Everywhere, 0>>)
  BY <1>1, CodesAtEnd
<1>3. PICK G : Follows(p, L, ir, G, <<Everywhere, w>>, <<Everywhere, 0>>)
  BY <1>2, Zenon DEF Behind
<1>4. G[0] = <<Everywhere, w>>
  BY <1>3, Zenon DEF Follows
<1>5. <<0, 0>> \in G[0][1] /\ G[0][2] = w
  BY <1>4 DEF Everywhere
<1>6. 0 \in 0..Len(ir) /\ 0 + 1 = 1
  BY <1>1, SMT DEF Listing
<1>7. Before(ir, 0 + 1) = 0
  BY <1>6, BeforeFirst
<1>8. Standing(p, L, ir, G, w, 0, 0, <<0, 0>>)
  BY <1>3, <1>5, <1>6, <1>7, Zenon DEF Standing
<1> QED BY <1>8, Zenon DEF RunsAt

\* Steps of the parser that go on.
LEMMA ParseMoves ==
  ASSUME CompilerInv, stage = "parse", Parses, Parsing(text, pos', calls', ret')
  PROVE  CompilerInv'
<1>1. /\ stage' = "parse" /\ text' = text /\ insns' = insns /\ program' = program /\ pkt' = pkt
      /\ pc' = pc /\ a' = a /\ x' = x /\ result' = result
  BY DEF Parses, compiler, machineVars, machine
<1>2. StageOK'
  BY <1>1 DEF CompilerInv, StageOK
<1> QED BY <1>1, <1>2, Zenon DEF CompilerInv

\* Steps of the code generator that go on.
LEMMA EmitMoves ==
  ASSUME CompilerInv, Emits, Emission(text, insns', todo', next_label')
  PROVE  CompilerInv'
<1>1. /\ stage = "emit" /\ stage' = "emit" /\ text' = text /\ program' = program /\ pkt' = pkt
      /\ pc' = pc /\ a' = a /\ x' = x /\ result' = result
  BY DEF Emits, machineVars, machine
<1>2. StageOK'
  BY <1>1 DEF CompilerInv, StageOK
<1> QED BY <1>1, <1>2, Zenon DEF CompilerInv

\* A refusal with a cause.
LEMMA Refuses ==
  ASSUME CompilerInv, stage \in {"parse", "emit"}, Refuse, Excused(text)
  PROVE  CompilerInv'
<1>1. /\ stage' = "done" /\ text' = text /\ program' = <<Refused>> /\ pkt' = pkt
      /\ pc' = pc /\ a' = a /\ x' = x /\ result' = result
  BY DEF Refuse, machine
<1>2. StageOK' /\ pkt' = NoPacket
  BY <1>1 DEF CompilerInv, StageOK
<1>3. Compiled'
  BY <1>1, <1>2, Zenon DEF Compiled
<1> QED BY <1>1, <1>2, <1>3, Zenon DEF CompilerInv

LEMMA StepFactor ==
  ASSUME CompilerInv, ParseFactor
  PROVE  CompilerInv'
<1>1. stage = "parse" /\ ret = NoTree
  BY DEF ParseFactor
<1>2. Parsing(text, pos, calls, NoTree)
  BY <1>1 DEF CompilerInv
<1>3. CASE At(text, pos) = "not" /\ Goes(pos + 1, Append(calls, Call("not", NoTree)))
  <2>1. Parses /\ pos' = pos + 1 /\ calls' = Append(calls, Call("not", NoTree)) /\ ret' = NoTree
    BY <1>3 DEF Goes
  <2>2. Parsing(text, pos + 1, Append(calls, Call("not", NoTree)), NoTree)
    BY <1>2, <1>3, ParsingNot
  <2> QED BY <1>1, <2>1, <2>2, ParseMoves
<1>4. CASE At(text, pos) = "(" /\ Goes(pos + 1, Append(calls, Call("(", NoTree)) \o ParseExpr)
  <2>1. Parses /\ pos' = pos + 1 /\ calls' = Append(calls, Call("(", NoTree)) \o ParseExpr /\ ret' = NoTree
    BY <1>4 DEF Goes
  <2>2. Parsing(text, pos + 1, Append(calls, Call("(", NoTree)) \o ParseExpr, NoTree)
    BY <1>2, <1>4, ParsingParen
  <2> QED BY <1>1, <2>1, <2>2, ParseMoves
<1>5. ASSUME At(text, pos) \notin {"not", "("}, NEW to, NEW name, NEW dir, NEW val, name = At(text, NameAt(text, pos)),
             \/ IsSimple(text, pos) /\ to = NameAt(text, pos) + 1 /\ dir = "either" /\ val = 0
             \/ /\ HasArgument(text, pos) /\ to = NameAt(text, pos) + 2
                /\ dir = Direction(text, pos) /\ val = text[NameAt(text, pos) + 1].v,
             pos' = to, ret' = Primitive(name, dir, val), calls' = calls, Parses
      PROVE  CompilerInv'
  <2>1. Parsing(text, to, calls, Primitive(name, dir, val))
    BY <1>2, <1>5, ParsingTest
  <2> QED BY <1>1, <1>5, <2>1, ParseMoves
<1>6. CASE At(text, pos) \notin {"not", "("} /\ ~IsSimple(text, pos) /\ ~HasArgument(text, pos) /\ Refuse
  <2>1. \A p : FilterSays(text, p) = {}
    BY <1>2, <1>6, ParsingFails
  <2>2. Excused(text)
    BY <1>2, <2>1, ParsingParts DEF Excused
  <2> QED BY <1>1, <1>6, <2>2, Refuses
<1> QED BY <1>3, <1>4, <1>5, <1>6, Zenon DEF ParseFactor

LEMMA StepReturn ==
  ASSUME CompilerInv, ReturnToNot \/ ReturnToParen \/ ReturnToTerm \/ ReturnToExpr
  PROVE  CompilerInv'
<1>1. /\ stage = "parse" /\ ret # NoTree /\ calls # <<>> /\ Top = calls[Len(calls)] /\ Below = Back(calls)
  BY DEF ReturnToNot, ReturnToParen, ReturnToTerm, ReturnToExpr, ReturnsTo, Top, Below, Back
<1>2. Parsing(text, pos, calls, ret)
  BY <1>1 DEF CompilerInv
<1>3. CASE ReturnToNot
  <2>1. calls[Len(calls)].fn = "not" /\ Parses /\ pos' = pos /\ calls' = Back(calls) /\ ret' = Negation(ret)
    BY <1>1, <1>3 DEF ReturnToNot, ReturnsTo, Returned
  <2>2. Parsing(text, pos, Back(calls), Negation(ret))
    BY <1>1, <1>2, <2>1, ParsingNegated
  <2> QED BY <1>1, <2>1, <2>2, ParseMoves
<1>4. CASE ReturnToParen
  <2>1. calls[Len(calls)].fn = "("
    BY <1>1, <1>4 DEF ReturnToParen, ReturnsTo
  <2>2. CASE At(text, pos) = ")" /\ Returned(ret, pos + 1)
    <3>1. Parses /\ pos' = pos + 1 /\ calls' = Back(calls) /\ ret' = ret
      BY <1>1, <2>2 DEF Returned
    <3>2. Parsing(text, pos + 1, Back(calls), ret)
      BY <1>1, <1>2, <2>1, <2>2, ParsingClosed
    <3> QED BY <1>1, <3>1, <3>2, ParseMoves
  <2>3. CASE At(text, pos) # ")" /\ Refuse
    <3>1. \A p : FilterSays(text, p) = {}
      BY <1>1, <1>2, <2>1, <2>3, ParsingClosed
    <3>2. Excused(text)
      BY <1>2, <3>1, ParsingParts DEF Excused
    <3> QED BY <1>1, <2>3, <3>2, Refuses
  <2> QED BY <1>4, <2>2, <2>3 DEF ReturnToParen
<1>5. CASE ReturnToTerm
  <2> DEFINE W == With("and", ret)
  <2>1. calls[Len(calls)].fn = "term" /\ W = WithOf("and", calls[Len(calls)].node, ret)
    BY <1>1, <1>5 DEF ReturnToTerm, ReturnsTo, With, WithOf
  <2> HIDE DEF W
  <2>2. CASE At(text, pos) \in {"or", ")", "end"} /\ Returned(W, pos)
    <3>1. Parses /\ pos' = pos /\ calls' = Back(calls) /\ ret' = W
      BY <1>1, <2>2 DEF Returned
    <3>2. Parsing(text, pos, Back(calls), W)
      BY <1>1, <1>2, <2>1, <2>2, ParsingFactor
    <3> QED BY <1>1, <3>1, <3>2, ParseMoves
  <2>3. ASSUME At(text, pos) \notin {"or", ")", "end"},
               Goes(IF At(text, pos) = "and" THEN pos + 1 ELSE pos, Append(Below, Call("term", W)))
        PROVE  CompilerInv'
    <3> DEFINE j == IF At(text, pos) = "and" THEN pos + 1 ELSE pos
    <3>1. Parses /\ pos' = j /\ calls' = Append(Back(calls), Call("term", W)) /\ ret' = NoTree
      BY <1>1, <2>3 DEF Goes
    <3>2. Parsing(text, j, Append(Back(calls), Call("term", W)), NoTree)
      BY <1>1, <1>2, <2>1, <2>3, ParsingFactor
    <3> QED BY <1>1, <3>1, <3>2, ParseMoves
  <2> QED BY <1>5, <2>2, <2>3, Zenon DEF ReturnToTerm, W
<1>6. CASE ReturnToExpr
  <2> DEFINE W == With("or", ret)
  <2>1. calls[Len(calls)].fn = "expr" /\ W = WithOf("or", calls[Len(calls)].node, ret)
    BY <1>1, <1>6 DEF ReturnToExpr, ReturnsTo, With, WithOf
  <2> HIDE DEF W
  <2>2. CASE At(text, pos) # "or" /\ Returned(W, pos)
    <3>1. Parses /\ pos' = pos /\ calls' = Back(calls) /\ ret' = W
      BY <1>1, <2>2 DEF Returned
    <3>2. Parsing(text, pos, Back(calls), W)
      BY <1>1, <1>2, <2>1, <2>2, ParsingTerm
    <3> QED BY <1>1, <3>1, <3>2, ParseMoves
  <2>3. ASSUME At(text, pos) = "or", Goes(pos + 1, Below \o <<Call("expr", W), Call("term", NoTree)>>)
        PROVE  CompilerInv'
    <3>1. Parses /\ pos' = pos + 1 /\ calls' = Back(calls) \o <<Call("expr", W), Call("term", NoTree)>> /\ ret' = NoTree
      BY <1>1, <2>3 DEF Goes
    <3>2. Parsing(text, pos + 1, Back(calls) \o <<Call("expr", W), Call("term", NoTree)>>, NoTree)
      BY <1>1, <1>2, <2>1, <2>3, ParsingTerm
    <3> QED BY <1>1, <3>1, <3>2, ParseMoves
  <2> QED BY <1>6, <2>2, <2>3, Zenon DEF ReturnToExpr, W
<1> QED BY <1>3, <1>4, <1>5, <1>6

LEMMA StepParsed ==
  ASSUME CompilerInv, Parsed
  PROVE  CompilerInv'
<1>1. stage = "parse" /\ ret # NoTree /\ calls = <<>>
  BY DEF Parsed
<1>2. Parsing(text, pos, <<>>, ret) /\ insns = <<>>
  BY <1>1 DEF CompilerInv, StageOK
<1>3. CASE pos <= Len(text) /\ Refuse
  <2>1. \A p : FilterSays(text, p) = {}
    BY <1>1, <1>2, <1>3, EmissionStart
  <2>2. Excused(text)
    BY <1>2, <2>1, ParsingParts DEF Excused
  <2> QED BY <1>1, <1>3, <2>2, Refuses
<1>4. ASSUME pos > Len(text), stage' = "emit", next_label' = 2, todo' = FirstToDo(ret),
             UNCHANGED <<text, parser, insns, machineVars>>
      PROVE  CompilerInv'
  <2>1. /\ text' = text /\ program' = program /\ pkt' = pkt /\ insns' = <<>>
        /\ pc' = pc /\ a' = a /\ x' = x /\ result' = result
    BY <1>2, <1>4 DEF machineVars, machine
  <2>2. Emission(text, <<>>, FirstToDo(ret), 2)
    BY <1>1, <1>2, <1>4, EmissionStart
  <2>3. Emission(text', insns', todo', next_label')
    BY <1>4, <2>1, <2>2
  <2>4. StageOK'
    BY <1>1, <1>4, <2>1 DEF CompilerInv, StageOK
  <2> QED BY <1>4, <2>3, <2>4, Zenon DEF CompilerInv
<1> QED BY <1>3, <1>4, Zenon DEF Parsed, FirstToDo

LEMMA EmitsParts ==
  ASSUME CompilerInv, Emits
  PROVE  /\ Emission(text, insns, todo, next_label) /\ todo # <<>> /\ Now = todo[Len(todo)]
         /\ Listing(Back(todo)) /\ Back(todo) \o <<>> = Back(todo)
<1>1. Emission(text, insns, todo, next_label) /\ todo # <<>> /\ Now = todo[Len(todo)]
  BY DEF CompilerInv, Emits, Now
<1>2. Listing(todo)
  BY <1>1, EmissionParts
<1>3. Listing(Back(todo))
  BY <1>1, <1>2, BackIndex
<1>4. Listing(<<>>)
  BY DEF Listing
<1>5. Back(todo) \o <<>> = Back(todo)
  BY <1>3, <1>4, ListingJoin
<1> QED BY <1>1, <1>3, <1>5

LEMMA StepEmit ==
  ASSUME CompilerInv, Emit
  PROVE  CompilerInv'
<1>1. Emits /\ Now.ir # "call" /\ insns' = Append(insns, Now) /\ Emitting(<<>>) /\ next_label' = next_label
  BY DEF Emit
<1>2. Emission(text, insns, todo, next_label) /\ todo # <<>> /\ Now = todo[Len(todo)] /\ Back(todo) \o <<>> = Back(todo)
  BY <1>1, EmitsParts
<1>3. todo' = Back(todo)
  BY <1>1, <1>2 DEF Emitting, Back
<1>4. Emission(text, Append(insns, todo[Len(todo)]), Back(todo), next_label)
  BY <1>1, <1>2, EmissionEmits
<1>5. Emission(text, insns', todo', next_label')
  BY <1>1, <1>2, <1>3, <1>4
<1> QED BY <1>1, <1>5, EmitMoves

LEMMA StepJunction ==
  ASSUME CompilerInv, CompileJunction
  PROVE  CompilerInv'
<1>1. Emits /\ Now.ir = "call" /\ Now.e.op \in {"and", "or"} /\ next_label' = next_label + 1 /\ insns' = insns
  BY DEF CompileJunction, Calls
<1>2. Emission(text, insns, todo, next_label) /\ todo # <<>> /\ Now = todo[Len(todo)]
  BY <1>1, EmitsParts
<1>3. Emission(text, insns,
        Back(todo) \o <<CompileExpr(Now.e.r, Now.t, Now.f), Label(next_label),
                        IF Now.e.op = "and" THEN CompileExpr(Now.e.l, next_label, Now.f)
                                            ELSE CompileExpr(Now.e.l, Now.t, next_label)>>, next_label + 1)
  BY <1>1, <1>2, EmissionJunction
<1>4. todo' = Back(todo) \o <<CompileExpr(Now.e.r, Now.t, Now.f), Label(next_label),
                        IF Now.e.op = "and" THEN CompileExpr(Now.e.l, next_label, Now.f)
                                            ELSE CompileExpr(Now.e.l, Now.t, next_label)>>
  BY DEF CompileJunction, Emitting, Back
<1>5. Emission(text, insns', todo', next_label')
  BY <1>1, <1>3, <1>4
<1> QED BY <1>1, <1>5, EmitMoves

LEMMA StepNegation ==
  ASSUME CompilerInv, CompileNegation
  PROVE  CompilerInv'
<1>1. Emits /\ Now.ir = "call" /\ Now.e.op = "not" /\ next_label' = next_label /\ insns' = insns
  BY DEF CompileNegation, Calls
<1>2. Emission(text, insns, todo, next_label) /\ todo # <<>> /\ Now = todo[Len(todo)]
  BY <1>1, EmitsParts
<1>3. Emission(text, insns, Back(todo) \o <<CompileExpr(Now.e.l, Now.f, Now.t)>>, next_label)
  BY <1>1, <1>2, EmissionNegation
<1>4. todo' = Back(todo) \o <<CompileExpr(Now.e.l, Now.f, Now.t)>>
  BY DEF CompileNegation, Emitting, Back
<1>5. Emission(text, insns', todo', next_label')
  BY <1>1, <1>3, <1>4
<1> QED BY <1>1, <1>5, EmitMoves

LEMMA StepTest ==
  ASSUME CompilerInv, CompileTest
  PROVE  CompilerInv'
<1>1. Emits /\ Now.ir = "call" /\ Now.e.op \in Tests /\ Emitting(<<>>)
  BY DEF CompileTest, Calls, Tests
<1>2. Emission(text, insns, todo, next_label) /\ todo # <<>> /\ Now = todo[Len(todo)] /\ Back(todo) \o <<>> = Back(todo)
  BY <1>1, EmitsParts
<1>3. todo' = Back(todo)
  BY <1>1, <1>2 DEF Emitting, Back
<1>4. ASSUME Len(Loads(Now.e)) = 1, next_label' = next_label,
             insns' = insns \o Prelude(Now.e) \o Loads(Now.e)[1] \o <<Condition(Now.e, Now.t, Now.f)>>
      PROVE  CompilerInv'
  <2>1. insns' = OneSide(insns, Now.e, Now.t, Now.f)
    BY <1>4, Zenon DEF OneSide, Start
  <2>2. Emission(text, OneSide(insns, Now.e, Now.t, Now.f), Back(todo), next_label)
    BY <1>1, <1>2, <1>4, EmissionTest
  <2>3. Emission(text, insns', todo', next_label')
    BY <1>3, <1>4, <2>1, <2>2
  <2> QED BY <1>1, <2>3, EmitMoves
<1>5. ASSUME Len(Loads(Now.e)) = 2, next_label' = next_label + 1,
             insns' = insns \o Prelude(Now.e) \o Loads(Now.e)[1] \o <<Condition(Now.e, Now.t, next_label), Label(next_label)>>
                            \o Loads(Now.e)[2] \o <<Condition(Now.e, Now.t, Now.f)>>
      PROVE  CompilerInv'
  <2>1. insns' = TwoSides(insns, Now.e, Now.t, Now.f, next_label)
    BY <1>5, Zenon DEF TwoSides, FirstSide, Start
  <2>2. Emission(text, TwoSides(insns, Now.e, Now.t, Now.f, next_label), Back(todo), next_label + 1)
    BY <1>1, <1>2, <1>5, EmissionTest
  <2>3. Emission(text, insns', todo', next_label')
    BY <1>3, <1>5, <2>1, <2>2
  <2> QED BY <1>1, <2>3, EmitMoves
<1> QED BY <1>4, <1>5, Zenon DEF CompileTest

\* What is resolved is a program of the compiler and not the mark of a refusal; what
\* cannot be resolved has too many tests.
LEMMA EmissionResolved ==
  ASSUME NEW s, NEW ir, NEW n, Emission(s, ir, <<>>, n)
  PROVE  /\ ResolveInsns(ir) # <<Refused>>
         /\ ~Resolvable(ir) => Excused(s)
<1>1. s \in Seq(Token) /\ Layout(ir, <<>>, n) /\ LastRet(ir, <<>>) /\ Listing(ir) /\ \A p : CodeSays(s, p, ir, <<>>)
  BY EmissionParts
<1>2. ResolveInsns(ir) # <<Refused>>
  <2>1. SUFFICES ASSUME ResolveInsns(ir) = <<Refused>> PROVE FALSE
    OBVIOUS
  <2>2. ir # <<>> /\ ir[Len(ir)] = Plain(Ret(0))
    BY <1>1 DEF LastRet
  <2>3. Len(ir) \in 1..Len(ir)
    BY <1>1, <2>2, BackIndex
  <2>4. IsInsn(ir[Len(ir)]) /\ Final(ir, Len(ir)) = Ret(0)
    <3>1. Plain(Ret(0)).ir = "insn" /\ Plain(Ret(0)).insn = Ret(0)
      BY ItemFields
    <3> QED BY <2>2, <3>1 DEF IsInsn, Final
  <2>5. /\ Before(ir, Len(ir)) \in Nat /\ Before(ir, Len(ir)) < Size(ir) /\ Len(ResolveInsns(ir)) = Size(ir)
        /\ ResolveInsns(ir)[Before(ir, Len(ir)) + 1] = Ret(0)
    BY <1>1, <2>3, <2>4, ProgramIs
  <2>6. Size(ir) = 1
    <3>1. Len(<<Refused>>) = 1
      OBVIOUS
    <3> QED BY <2>1, <2>5, <3>1
  <2>7. Before(ir, Len(ir)) + 1 = 1
    BY <2>5, <2>6, SMT
  <2>8. Ret(0) = Refused
    <3>1. <<Refused>>[1] = Refused
      OBVIOUS
    <3> QED BY <2>1, <2>5, <2>7, <3>1
  <2>9. Ret(0).class = "ret" /\ Refused.class = "refused"
    BY DEF Ret, Refused, Blank
  <2> QED BY <2>8, <2>9
<1>3. ASSUME ~Resolvable(ir)
      PROVE  Excused(s)
  <2> DEFINE z == 5 * All(s) + 2
  <2>1. Size(ir) - 3 > MaxJump
    BY <1>1, <1>3, TooLong
  <2>2. \E p, w : Codes(p, w, ir, <<>>, z)
    <3>1. CodeSays(s, NoPacket, ir, <<>>)
      BY <1>1
    <3> QED BY <3>1, Zenon DEF CodeSays
  <2>3. All(s) \in Nat /\ z \in Nat
    BY <1>1, AllIsNat
  <2> HIDE DEF z
  <2>4. Size(ir) \in Nat /\ Size(ir) <= z
    BY <1>1, <2>2, <2>3, CodesAtEnd
  <2>5. 5 * All(s) - 1 > MaxJump
    <3>1. z = 5 * All(s) + 2
      BY DEF z
    <3>2. MaxJump \in Int
      BY JumpAssumption
    <3> QED BY <2>1, <2>3, <2>4, <3>1, <3>2, SMT
  <2> QED BY <1>1, <2>5 DEF Excused
<1> QED BY <1>2, <1>3

LEMMA StepFinish ==
  ASSUME CompilerInv, Finish
  PROVE  CompilerInv'
<1>1. stage = "emit" /\ todo = <<>>
  BY DEF Finish
<1>2. Emission(text, insns, <<>>, next_label)
  BY <1>1 DEF CompilerInv
<1>3. CASE ~Resolvable(insns) /\ Refuse
  <2>1. Excused(text)
    BY <1>2, <1>3, EmissionResolved
  <2> QED BY <1>1, <1>3, <2>1, Refuses
<1>4. ASSUME Resolvable(insns), stage' = "done", program' = ResolveInsns(insns),
             UNCHANGED <<text, parser, compiler, pkt, machine, result>>
      PROVE  CompilerInv'
  <2>1. /\ text' = text /\ pkt' = pkt /\ insns' = insns /\ next_label' = next_label
        /\ pc' = pc /\ a' = a /\ x' = x /\ result' = result
    BY <1>4 DEF compiler, machine
  <2>2. ResolveInsns(insns) # <<Refused>>
    BY <1>2, EmissionResolved
  <2>3. StageOK' /\ pkt' = NoPacket
    BY <1>1, <1>4, <2>1 DEF CompilerInv, StageOK
  <2>4. Emission(text', insns', <<>>, next_label') /\ program' = ResolveInsns(insns')
    BY <1>2, <1>4, <2>1
  <2>5. Compiled'
    BY <1>4, <2>2, <2>3, <2>4, Zenon DEF Compiled
  <2> QED BY <1>4, <2>3, <2>5, Zenon DEF CompilerInv
<1> QED BY <1>3, <1>4, Zenon DEF Finish

LEMMA StepStart ==
  ASSUME CompilerInv, Idle, NEW s \in Texts, StartCompile(s)
  PROVE  CompilerInv'
<1>1. stage = "none" /\ pkt = NoPacket
  BY DEF Idle
<1>2. text' = s /\ UNCHANGED <<pos, ret, compiler, pkt, machine, result>>
  BY DEF StartCompile
<1>3. /\ insns' = <<>> /\ pos' = 1 /\ ret' = NoTree /\ pkt' = NoPacket /\ program = <<>>
      /\ pc' = 0 /\ a' = 0 /\ x' = 0 /\ result' = NoResult
  BY <1>1, <1>2 DEF compiler, machine, CompilerInv, StageOK
<1>4. s \in Seq(Token)
  BY TextAssumption
<1>5. CASE MatchesAll(s) /\ stage' = "done"
  <2>1. StageOK'
    BY <1>3, <1>5 DEF StageOK
  <2>2. MatchesAll(text')
    BY <1>2, <1>5
  <2> QED BY <1>5, <2>1, <2>2, Zenon DEF CompilerInv
<1>6. CASE stage' = "parse" /\ calls' = ParseExpr /\ program' = program
  <2>1. StageOK'
    BY <1>3, <1>6 DEF StageOK
  <2>2. Parsing(s, 1, ParseExpr, NoTree)
    BY <1>4, ParsingStart
  <2>3. Parsing(text', pos', calls', ret')
    BY <1>2, <1>3, <1>6, <2>2
  <2> QED BY <1>6, <2>1, <2>3, Zenon DEF CompilerInv
<1> QED BY <1>5, <1>6 DEF StartCompile

LEMMA StepLoad ==
  ASSUME CompilerInv, Idle, NEW p, LoadProgram(p), stage' = "done", Outside
  PROVE  CompilerInv'
<1>1. stage = "none" /\ text = <<>>
  BY DEF Idle, CompilerInv, StageOK
<1>2. text' = <<>> /\ UNCHANGED <<pkt, pc, a, x, result>>
  BY <1>1 DEF Outside, LoadProgram, machine
<1>3. StageOK'
  BY <1>2 DEF CompilerInv, StageOK
<1>4. MatchesAll(text')
  BY <1>2 DEF MatchesAll
<1> QED BY <1>3, <1>4, Zenon DEF CompilerInv

LEMMA StepFilter ==
  ASSUME CompilerInv, stage \in {"none", "done"}, program # <<Refused>>, NEW p \in Packets, Filter(p),
         stage' = stage, Outside
  PROVE  CompilerInv'
<1>1. /\ pkt = NoPacket /\ pkt' = p
      /\ UNCHANGED <<text, pos, ret, insns, next_label, program, pc, a, x, result>>
  BY DEF Filter, Outside, parser, compiler, machine
<1>2. result = NoResult /\ pc = 0 /\ a = 0 /\ x = 0
  BY <1>1 DEF CompilerInv, StageOK
<1>3. StageOK'
  BY <1>1, <1>2 DEF CompilerInv, StageOK
<1>4. ASSUME stage = "done", ~MatchesAll(text)
      PROVE  Compiled'
  <2>1. program = ResolveInsns(insns) /\ Emission(text, insns, <<>>, next_label)
    BY <1>4 DEF CompilerInv, Compiled
  <2>2. text \in Seq(Token) /\ Layout(insns, <<>>, next_label) /\ CodeSays(text, p, insns, <<>>)
    BY <2>1, EmissionParts
  <2> DEFINE z == 5 * All(text) + 2
  <2>3. z \in Nat
    BY <2>2, AllIsNat
  <2>4. PICK v \in Values : FilterSays(text, p) = {v} /\ Codes(p, To(v, U32Max, 0), insns, <<>>, z)
    BY <2>2, Zenon DEF CodeSays
  <2> HIDE DEF z
  <2>5. RunsAt(p, insns, To(v, U32Max, 0), 0, <<0, 0>>)
    BY <2>2, <2>3, <2>4, StartsRunning
  <2>6. RunsAt(p, insns, To(v, U32Max, 0), pc', <<a', x'>>)
    BY <1>1, <1>2, <2>5
  <2>7. FilterSays(text', pkt') = {v} /\ RunsAt(pkt', insns', To(v, U32Max, 0), pc', <<a', x'>>)
        /\ result' = NoResult /\ pkt' \in Packets
    BY <1>1, <1>2, <2>4, <2>6
  <2>8. Answers'
    BY <2>7, Zenon DEF Answers
  <2>9. program' # <<Refused>> /\ program' = ResolveInsns(insns') /\ Emission(text', insns', <<>>, next_label')
    BY <1>1, <2>1
  <2> QED BY <2>8, <2>9, Zenon DEF Compiled
<1>5. stage' = "done" /\ ~MatchesAll(text') => Compiled'
  BY <1>1, <1>4
<1>6. stage' # "parse" /\ stage' # "emit"
  OBVIOUS
<1> QED BY <1>3, <1>5, <1>6, Zenon DEF CompilerInv

\* Every step of the interpreter is one of a running program, and leaves it as it is.
LEMMA RunFrame ==
  ASSUME Run
  PROVE  pkt # NoPacket /\ result = NoResult /\ program' = program /\ pkt' = pkt
<1>1. ASSUME NEW class, Running(class) PROVE pkt # NoPacket /\ result = NoResult
  BY <1>1 DEF Running
<1>2. ASSUME NEW v, Returns(v) PROVE program' = program /\ pkt' = pkt
  BY <1>2 DEF Returns
<1>3. ASSUME Stay PROVE program' = program /\ pkt' = pkt
  BY <1>3 DEF Stay
<1>4. CASE StepLd
  BY <1>1, <1>2, <1>3, <1>4, Zenon DEF StepLd
<1>5. CASE StepLdx
  BY <1>1, <1>2, <1>3, <1>5, Zenon DEF StepLdx
<1>6. CASE StepSt
  BY <1>1, <1>2, <1>3, <1>6, Zenon DEF StepSt
<1>7. CASE StepAlu
  BY <1>1, <1>2, <1>3, <1>7, Zenon DEF StepAlu
<1>8. CASE StepJmp
  BY <1>1, <1>2, <1>3, <1>8, Zenon DEF StepJmp
<1>9. CASE StepRet
  BY <1>1, <1>2, <1>3, <1>9, Zenon DEF StepRet
<1>10. CASE StepMisc
  BY <1>1, <1>2, <1>3, <1>10, Zenon DEF StepMisc
<1>11. CASE RunsOff
  BY <1>2, <1>11, Zenon DEF RunsOff
<1> QED BY <1>4, <1>5, <1>6, <1>7, <1>8, <1>9, <1>10, <1>11 DEF Run

LEMMA StepRun ==
  ASSUME CompilerInv, Run, stage' = stage, Outside
  PROVE  CompilerInv'
<1>1. pkt # NoPacket /\ result = NoResult /\ program' = program /\ pkt' = pkt
  BY RunFrame
<1>2. UNCHANGED <<text, pos, ret, insns, next_label>>
  BY DEF Outside, parser, compiler
<1>3. stage \in {"none", "done"} /\ StageOK'
  BY <1>1, <1>2 DEF CompilerInv, StageOK
<1>4. ASSUME stage = "done", ~MatchesAll(text)
      PROVE  Compiled'
  <2>1. program # <<Refused>> /\ program = ResolveInsns(insns) /\ Emission(text, insns, <<>>, next_label) /\ Answers
    BY <1>1, <1>4 DEF CompilerInv, Compiled
  <2>2. Layout(insns, <<>>, next_label)
    BY <2>1, EmissionParts
  <2>3. PICK v \in Values : /\ FilterSays(text, pkt) = {v}
                            /\ IF result = NoResult THEN RunsAt(pkt, insns, To(v, U32Max, 0), pc, <<a, x>>)
                                                    ELSE result = To(v, U32Max, 0)
    BY <2>1, Zenon DEF Answers
  <2> DEFINE w == To(v, U32Max, 0)
  <2>4. RunsAt(pkt, insns, w, pc, <<a, x>>)
    BY <1>1, <2>3
  <2>5. w # NoResult
    <3>1. U32Max \in Nat
      BY WordSize
    <3>2. w = U32Max \/ w = 0
      BY DEF To
    <3> QED BY <3>1, <3>2 DEF NoResult
  <2> HIDE DEF w
  <2>6. Ran(w)
    BY <1>1, <2>1, <2>2, <2>4, RunStep
  <2>7. result' = w \/ (result' = NoResult /\ RunsAt(pkt, insns, w, pc', <<a', x'>>))
    BY <2>6, Zenon DEF Ran
  <2>8. IF result' = NoResult THEN RunsAt(pkt', insns', w, pc', <<a', x'>>) ELSE result' = w
    BY <1>1, <1>2, <2>5, <2>7
  <2>9. FilterSays(text', pkt') = {v} /\ pkt' \in Packets
    BY <1>1, <1>2, <2>1, <2>3 DEF Answers
  <2>10. Answers'
    BY <2>8, <2>9, Zenon DEF Answers, w
  <2>11. program' # <<Refused>> /\ program' = ResolveInsns(insns') /\ Emission(text', insns', <<>>, next_label')
    BY <1>1, <1>2, <2>1
  <2> QED BY <2>10, <2>11, Zenon DEF Compiled
<1>5. stage' = "done" /\ ~MatchesAll(text') => Compiled'
  BY <1>2, <1>4
<1>6. stage' # "parse" /\ stage' # "emit"
  BY <1>3
<1> QED BY <1>3, <1>5, <1>6, Zenon DEF CompilerInv

LEMMA StepStutters ==
  ASSUME CompilerInv, UNCHANGED filterVars
  PROVE  CompilerInv'
<1>1. /\ UNCHANGED <<text, stage, pos, calls, ret, insns, next_label, todo>>
      /\ UNCHANGED <<program, pkt, pc, a, x, result>>
  BY DEF filterVars, parser, compiler, machineVars, machine
<1>2. StageOK'
  BY <1>1 DEF CompilerInv, StageOK
<1>3. stage = "done" /\ ~MatchesAll(text) => Compiled'
  <2>1. stage = "done" /\ ~MatchesAll(text) => Compiled
    BY DEF CompilerInv
  <2>2. Answers => Answers'
    BY <1>1 DEF Answers
  <2>3. Compiled => Compiled'
    BY <1>1, <2>2 DEF Compiled
  <2> QED BY <2>1, <2>3
<1>4. /\ stage' = "parse" => Parsing(text', pos', calls', ret')
      /\ stage' = "emit" => Emission(text', insns', todo', next_label')
      /\ stage' = "done" /\ ~MatchesAll(text') => Compiled'
  BY <1>1, <1>3 DEF CompilerInv
<1> QED BY <1>2, <1>4, Zenon DEF CompilerInv

LEMMA CompilerInit == FilterInit => CompilerInv
BY DEF FilterInit, MachineInit, CompilerInv, StageOK

\* The invariant is inductive.
LEMMA CompilerStep == CompilerInv /\ [FilterNext]_filterVars => CompilerInv'
<1> SUFFICES ASSUME CompilerInv, [FilterNext]_filterVars
             PROVE  CompilerInv'
  OBVIOUS
<1>1. CASE Idle /\ \E s \in Texts : StartCompile(s)
  BY <1>1, StepStart
<1>2. CASE Compile
  BY <1>2, StepFactor, StepReturn, StepParsed, StepEmit, StepJunction, StepNegation, StepTest, StepFinish, Zenon
     DEF Compile
<1>3. CASE Idle /\ (\E p \in Programs : LoadProgram(p)) /\ stage' = "done" /\ Outside
  BY <1>3, StepLoad
<1>4. CASE /\ stage \in {"none", "done"} /\ program # <<Refused>>
           /\ (\E p \in Packets : Filter(p)) /\ UNCHANGED stage /\ Outside
  BY <1>4, StepFilter
<1>5. CASE Run /\ UNCHANGED stage /\ Outside
  BY <1>5, StepRun
<1>6. CASE UNCHANGED filterVars
  BY <1>6, StepStutters
<1> QED BY <1>1, <1>2, <1>3, <1>4, <1>5, <1>6, Zenon DEF FilterNext

LEMMA CompilerAlways == FilterSpec => []CompilerInv
<1>1. FilterInit => CompilerInv
  BY CompilerInit
<1>2. CompilerInv /\ [FilterNext]_filterVars => CompilerInv'
  BY CompilerStep
<1> QED BY <1>1, <1>2, PTL DEF FilterSpec

\* "true" has no part in what the parser and the code generator do.
LEMMA CompileFrame ==
  ASSUME Compile
  PROVE  stage \in {"parse", "emit"} /\ text' = text
         /\ (stage' \in {"parse", "emit"} \/ stage' = "done")
<1>1. ASSUME Refuse PROVE text' = text /\ stage' = "done"
  BY <1>1 DEF Refuse
<1>2. ASSUME Parses PROVE text' = text /\ stage' = "parse"
  BY <1>2 DEF Parses
<1>3. ASSUME Emits PROVE text' = text /\ stage = "emit" /\ stage' = "emit"
  BY <1>3 DEF Emits
<1>4. CASE ParseFactor
  BY <1>1, <1>2, <1>4 DEF ParseFactor, Goes
<1>5. CASE ReturnToNot \/ ReturnToParen \/ ReturnToTerm \/ ReturnToExpr
  BY <1>1, <1>2, <1>5 DEF ReturnToNot, ReturnToParen, ReturnToTerm, ReturnToExpr, ReturnsTo, Returned, Goes
<1>6. CASE Parsed
  BY <1>1, <1>6 DEF Parsed
<1>7. CASE Emit \/ CompileJunction \/ CompileNegation \/ CompileTest
  BY <1>3, <1>7 DEF Emit, CompileJunction, CompileNegation, CompileTest, Calls
<1>8. CASE Finish
  BY <1>1, <1>8 DEF Finish
<1> QED BY <1>4, <1>5, <1>6, <1>7, <1>8 DEF Compile

\* A program of one return is run in one step.
LEMMA OneReturn ==
  ASSUME Run, program = <<Ret(U32Max)>>, pc = 0
  PROVE  result' = U32Max /\ pc' = 0 /\ program' = program
<1>1. Len(program) = 1 /\ Insn = Ret(U32Max)
  BY DEF Insn
<1>2. Insn.class = "ret" /\ Insn.src = "k" /\ Insn.k = U32Max
  BY <1>1 DEF Ret, Blank
<1>3. StepRet
  BY <1>1, <1>2 DEF Run, StepLd, StepLdx, StepSt, StepAlu, StepJmp, StepMisc, RunsOff, Running, Insn
<1> QED BY <1>2, <1>3 DEF StepRet, Returns, Source, machine

LEMMA UnconditionalStep ==
  ASSUME CompilerInv, Unconditional, [FilterNext]_filterVars
  PROVE  Unconditional'
<1>1. CASE Idle /\ \E s \in Texts : StartCompile(s)
  <2>1. pc = 0 /\ result = NoResult
    BY <1>1 DEF Idle, CompilerInv, StageOK
  <2> QED BY <1>1, <2>1 DEF StartCompile, Unconditional, machine
<1>2. CASE Compile
  BY <1>2, CompileFrame DEF Unconditional
<1>3. CASE Idle /\ (\E p \in Programs : LoadProgram(p)) /\ stage' = "done" /\ Outside
  <2>1. text = <<>> /\ text' = text
    BY <1>3 DEF Idle, CompilerInv, StageOK, Outside
  <2> QED BY <1>3, <2>1 DEF Unconditional
<1>4. CASE /\ stage \in {"none", "done"} /\ program # <<Refused>>
           /\ (\E p \in Packets : Filter(p)) /\ UNCHANGED stage /\ Outside
  BY <1>4 DEF Unconditional, Filter, Outside, machine
<1>5. CASE Run /\ UNCHANGED stage /\ Outside
  <2>1. text' = text /\ stage' = stage
    BY <1>5 DEF Outside
  <2>2. ASSUME stage = "done", text # <<>>, MatchesAll(text)
        PROVE  program' = <<Ret(U32Max)>> /\ pc' = 0 /\ result' \in {NoResult, U32Max}
    BY <1>5, <2>2, OneReturn DEF Unconditional
  <2> QED BY <2>1, <2>2 DEF Unconditional
<1>6. CASE UNCHANGED filterVars
  BY <1>6 DEF Unconditional, filterVars, machineVars, machine
<1> QED BY <1>1, <1>2, <1>3, <1>4, <1>5, <1>6, Zenon DEF FilterNext

LEMMA UnconditionalAlways == FilterSpec => []Unconditional
<1>1. FilterInit => Unconditional
  BY DEF FilterInit, Unconditional
<1>2. CompilerInv /\ Unconditional /\ [FilterNext]_filterVars => Unconditional'
  BY UnconditionalStep
<1> QED BY <1>1, <1>2, CompilerAlways, PTL DEF FilterSpec

\* The invariants and what is checked.
LEMMA InvAnswers == CompilerInv /\ Unconditional => MatchesWhatFilterSays
<1> SUFFICES ASSUME CompilerInv, Unconditional, text # <<>>, result # NoResult
             PROVE  IF result # 0 THEN TextSays(text, pkt) = {"yes"}
                                  ELSE TextSays(text, pkt) \in {{"no"}, {"short"}}
  BY DEF MatchesWhatFilterSays
<1>1. pkt # NoPacket /\ stage = "done"
  BY DEF CompilerInv, StageOK
<1>2. U32Max # 0
  BY WordSize
<1>3. CASE MatchesAll(text)
  BY <1>1, <1>2, <1>3 DEF Unconditional, TextSays
<1>4. CASE ~MatchesAll(text)
  <2>1. Answers
    BY <1>1, <1>4 DEF CompilerInv, Compiled
  <2>2. PICK v \in Values : FilterSays(text, pkt) = {v} /\ result = To(v, U32Max, 0)
    BY <2>1 DEF Answers
  <2>3. v \in {"yes", "no", "short"}
    BY <2>2 DEF Values
  <2>4. (v = "yes" /\ result = U32Max) \/ (v \in {"no", "short"} /\ result = 0)
    BY <2>2, <2>3 DEF To
  <2> QED BY <1>2, <1>4, <2>2, <2>4 DEF TextSays
<1> QED BY <1>3, <1>4

LEMMA InvRefuses == CompilerInv /\ Unconditional => RefusedForCause
<1> DEFINE p == CHOOSE q \in Packets : TRUE
<1> SUFFICES ASSUME CompilerInv, Unconditional, text # <<>>, program = <<Refused>>
             PROVE  TextSays(text, p) = {} \/ 5 * Cardinality(Names(text)) - 1 > MaxJump
  BY DEF RefusedForCause
<1> HIDE DEF p
<1>1. stage = "done"
  <2>1. program # <<>>
    OBVIOUS
  <2> QED BY <2>1 DEF CompilerInv, StageOK
<1>2. ~MatchesAll(text)
  <2>1. Refused.class = "refused" /\ Ret(U32Max).class = "ret"
    BY DEF Refused, Ret, Blank
  <2>2. <<Refused>> # <<Ret(U32Max)>>
    BY <2>1
  <2> QED BY <1>1, <2>2 DEF Unconditional
<1>3. Excused(text)
  BY <1>1, <1>2 DEF CompilerInv, Compiled
<1> QED BY <1>2, <1>3 DEF Excused, All, TextSays

\* bpf_compiler.rs:175-546, bpf.rs:104-269: whatever the texts, the packets and the
\* longest jump, a program that compile_bpf makes returns non-zero for a packet if and
\* only if the text says yes of it, and all readings of such a text say the same.
THEOREM FilterIsRight == FilterSpec => []MatchesWhatFilterSays
BY CompilerAlways, UnconditionalAlways, InvAnswers, PTL

\* bpf_compiler.rs:498-500, 522-528: compile_bpf fails only on a text without a reading
\* or with so many tests that a jump over them might not fit.
THEOREM RefusalIsRight == FilterSpec => []RefusedForCause
BY CompilerAlways, UnconditionalAlways, InvRefuses, PTL

(***************************************************************************)
(* 11. What the compiler makes is a program: trees are made of trees,      *)
(* items of words, the program of instructions fit for the interpreter.    *)
(***************************************************************************)

\* A sequence over a set is one over a greater set.
LEMMA SeqMore ==
  ASSUME NEW A, NEW B, A \subseteq B, NEW q \in Seq(A)
  PROVE  q \in Seq(B)
OBVIOUS

\* The last item, the rest, one more.
LEMMA SeqOps ==
  ASSUME NEW A, NEW q \in Seq(A)
  PROVE  /\ q # <<>> => q[Len(q)] \in A /\ Back(q) \in Seq(A)
         /\ \A c \in A : Append(q, c) \in Seq(A) /\ q \o <<c>> \in Seq(A)
         /\ \A c, d \in A : q \o <<c, d>> \in Seq(A)
         /\ \A c, d, e \in A : q \o <<c, d, e>> \in Seq(A)
         /\ \A s \in Seq(A) : q \o s \in Seq(A)
<1>1. q # <<>> => q[Len(q)] \in A /\ Back(q) \in Seq(A)
  BY SMT DEF Back
<1>2. \A s \in Seq(A) : q \o s \in Seq(A)
  BY SMT
<1>3. \A c, d, e \in A : <<c>> \in Seq(A) /\ <<c, d>> \in Seq(A) /\ <<c, d, e>> \in Seq(A)
  BY SMT
<1>4. \A c \in A : Append(q, c) \in Seq(A)
  BY SMT
<1> QED BY <1>1, <1>2, <1>3, <1>4, Zenon

\* A tree that is made of trees of T may join them.
LEMMA ForestGrows ==
  ASSUME NEW T, Forest(T), NEW e,
         \/ e.op \in {"and", "or"} /\ e.l \in T /\ e.r \in T
         \/ e.op = "not" /\ e.l \in T
         \/ e.op \in Tests /\ e.val \in U32
  PROVE  Forest(T \cup {e})
BY Zenon DEF Forest

\* The interpreter is safe with what the compiler can make.
LEMMA EncodedFits ==
  ASSUME NEW q \in Seq(Encoded)
  PROVE  Fits(q)
<1>1. \A i \in Encoded : Sound(i)
  BY SMT DEF Encoded, Sound
<1> QED BY <1>1, Zenon DEF Fits

\* What the constructors of instructions make.
LEMMA InsnsEncoded ==
  /\ \A size \in {"w", "h", "b"} : \A mode \in {"abs", "ind"} : \A k \in U32 : Ld(size, mode, k) \in Encoded
  /\ Ldx("msh", 0) \in Encoded /\ Alu("rsh", "k", 4) \in Encoded
  /\ \A op \in {"jeq", "jset"} : \A k \in U32 : \A t, f \in U8 : Jmp(op, k, t, f) \in Encoded
  /\ \A k \in U32 : Ret(k) \in Encoded
  /\ Refused \in Encoded
<1>1. 0 \in U8 /\ 0 \in U32 /\ 4 \in U32
  BY ZeroIsWord, WordSize, SMT DEF U8, U32
<1>2. \A size \in {"w", "h", "b"} : \A mode \in {"abs", "ind"} : \A k \in U32 : Ld(size, mode, k) \in Encoded
  BY <1>1, Zenon DEF Ld, Blank, Encoded
<1>3. Ldx("msh", 0) \in Encoded /\ Alu("rsh", "k", 4) \in Encoded
  BY <1>1, Zenon DEF Ldx, Alu, Blank, Encoded
<1>4. \A op \in {"jeq", "jset"} : \A k \in U32 : \A t, f \in U8 : Jmp(op, k, t, f) \in Encoded
  BY <1>1, Zenon DEF Jmp, Blank, Encoded
<1>5. \A k \in U32 : Ret(k) \in Encoded
  BY <1>1, Zenon DEF Ret, Blank, Encoded
<1>6. Refused \in Encoded
  BY <1>1, SMT DEF Refused, Blank, Encoded
<1> QED BY <1>2, <1>3, <1>4, <1>5, <1>6

\* What the constructors of items make.
LEMMA ItemsWritten ==
  /\ \A i \in Encoded : Plain(i) \in Written
  /\ \A l \in Nat : Label(l) \in Written
  /\ \A op \in {"jeq", "jset"} : \A k \in U32 : \A t, f \in Nat : JmpCond(op, k, t, f) \in Written
  /\ \A T : Written \subseteq Unwritten(T)
  /\ \A T : \A e \in T : \A t, f \in Nat : CompileExpr(e, t, f) \in Unwritten(T)
<1>1. \A i \in Encoded : Plain(i) \in Written
  BY SMT DEF Plain, Written
<1>2. \A l \in Nat : Label(l) \in Written
  BY SMT DEF Label, Written
<1>3. \A op \in {"jeq", "jset"} : \A k \in U32 : \A t, f \in Nat : JmpCond(op, k, t, f) \in Written
  BY SMT DEF JmpCond, Written
<1>4. \A T : Written \subseteq Unwritten(T)
  BY Zenon DEF Unwritten
<1>5. \A T : \A e \in T : \A t, f \in Nat : CompileExpr(e, t, f) \in Unwritten(T)
  BY SMT DEF CompileExpr, Unwritten
<1> QED BY <1>1, <1>2, <1>3, <1>4, <1>5

\* The constants of bpf_compiler.rs are words.
LEMMA SmallWords ==
  /\ {0, 1, 2, 4, 6, 9, 12, 16, 17} \subseteq U32
  /\ {AddrFlags, AddrIfIdx, AddrSubIfIdx, U32Max} \subseteq U32
  /\ \A n \in {"inbound", "outbound", "loopback", "impostor"} : Flag[n] \in U32
<1>1. {0, 1, 2, 4, 6, 9, 12, 16, 17} \subseteq U32
  BY WordSize, SMT DEF U32
<1>2. {AddrFlags, AddrIfIdx, AddrSubIfIdx, U32Max} \subseteq U32
  BY WordSize, SMT DEF U32, AddrFlags, AddrIfIdx, AddrSubIfIdx, AddrBase
<1>3. Flag["outbound"] = 131072 /\ Flag["inbound"] = 131072 /\ Flag["loopback"] = 262144 /\ Flag["impostor"] = 524288
  BY SMT DEF Flag
<1>4. {131072, 262144, 524288} \subseteq U32
  BY WordSize, SMT DEF U32
<1>5. \A n \in {"inbound", "outbound", "loopback", "impostor"} : Flag[n] \in U32
  <2>1. \A F : F["outbound"] \in U32 /\ F["inbound"] \in U32 /\ F["loopback"] \in U32 /\ F["impostor"] \in U32
               => \A n \in {"inbound", "outbound", "loopback", "impostor"} : F[n] \in U32
    BY Zenon
  <2>2. Flag["outbound"] \in U32 /\ Flag["inbound"] \in U32 /\ Flag["loopback"] \in U32 /\ Flag["impostor"] \in U32
    BY <1>3, <1>4
  <2> QED BY <2>1, <2>2
<1> QED BY <1>1, <1>2, <1>5, Zenon

\* The load of the header length.
LEMMA PreludeWritten ==
  ASSUME NEW e
  PROVE  Prelude(e) \in Seq(Written)
<1>1. Plain(Ldx("msh", 0)) \in Written
  BY InsnsEncoded, ItemsWritten, Zenon
<1>2. <<>> \in Seq(Written) /\ \A c \in Written : <<c>> \in Seq(Written)
  BY SMT
<1> QED BY <1>1, <1>2, PreludeShape, Zenon

\* The loads of a test.
LEMMA LoadsWritten ==
  ASSUME NEW e, e.op \in Tests
  PROVE  \A d \in 1..Len(Loads(e)) : Loads(e)[d] \in Seq(Written)
<1> DEFINE W == Seq(Written)
<1>1. Loads(e) \in Seq(W)
  <2>1. \A c \in Written : <<c>> \in W
    BY SMT
  <2>2. \A c, d \in Written : <<c, d>> \in W
    BY SMT
  <2> HIDE DEF W
  <2>3. \A s \in W : <<s>> \in Seq(W)
    BY SMT
  <2>4. \A s, d \in W : <<s, d>> \in Seq(W)
    BY SMT
  <2>5. \A s, d \in W : OfDir(e, s, d) \in Seq(W)
    <3> SUFFICES ASSUME NEW s \in W, NEW d \in W PROVE OfDir(e, s, d) \in Seq(W)
      OBVIOUS
    <3>1. OfDir(e, s, d) = <<s>> \/ OfDir(e, s, d) = <<d>> \/ OfDir(e, s, d) = <<s, d>>
      BY OfDirCases
    <3>2. <<s>> \in Seq(W) /\ <<d>> \in Seq(W) /\ <<s, d>> \in Seq(W)
      BY <2>3, <2>4
    <3> QED BY <3>1, <3>2, Zenon
  <2>6. \A size \in {"w", "h", "b"} : \A mode \in {"abs", "ind"} : \A k \in U32 : Plain(Ld(size, mode, k)) \in Written
    BY InsnsEncoded, ItemsWritten, Zenon
  <2>7. Plain(Alu("rsh", "k", 4)) \in Written
    BY InsnsEncoded, ItemsWritten, Zenon
  <2>8. 0 \in U32 /\ 2 \in U32 /\ 9 \in U32 /\ 12 \in U32 /\ 16 \in U32 /\ AddrFlags \in U32 /\ AddrIfIdx \in U32
        /\ AddrSubIfIdx \in U32
    BY SmallWords, Zenon
  <2>9. CASE e.op \in {"tcp", "udp", "icmp"}
    BY <2>1, <2>3, <2>6, <2>8, <2>9, LoadsOf, Zenon
  <2>10. CASE e.op = "ip"
    BY <2>2, <2>3, <2>6, <2>7, <2>8, <2>10, LoadsOf, Zenon
  <2>11. CASE e.op = "host"
    <3>1. <<Plain(Ld("w", "abs", 12))>> \in W /\ <<Plain(Ld("w", "abs", 16))>> \in W
      BY <2>1, <2>6, <2>8, Zenon
    <3> QED BY <2>5, <2>11, <3>1, LoadsOf, Zenon
  <2>12. CASE e.op = "port"
    BY <2>1, <2>5, <2>6, <2>8, <2>12, LoadsOf, Zenon
  <2>13. CASE e.op = "ifindex"
    BY <2>1, <2>3, <2>6, <2>8, <2>13, LoadsOf, Zenon
  <2>14. CASE e.op = "sub_ifindex"
    BY <2>1, <2>3, <2>6, <2>8, <2>14, LoadsOf, Zenon
  <2>15. CASE e.op \in {"inbound", "outbound", "loopback", "impostor"}
    BY <2>1, <2>3, <2>6, <2>8, <2>15, LoadsOf, Zenon
  <2> QED BY <2>9, <2>10, <2>11, <2>12, <2>13, <2>14, <2>15, TestCases
<1> HIDE DEF W
<1>2. \A d \in 1..Len(Loads(e)) : Loads(e)[d] \in W
  BY <1>1, SMT
<1> QED BY <1>2 DEF W

\* The jump of a test.
LEMMA ConditionWritten ==
  ASSUME NEW e, e.op \in Tests, e.val \in U32, NEW t \in Nat, NEW f \in Nat
  PROVE  Condition(e, t, f) \in Written
<1>1. Key(e) \in U32
  BY SmallWords, SMT DEF Key
<1>2. CASE e.op = "inbound"
  <2>1. Flag[e.op] \in U32 /\ Condition(e, t, f) = JmpCond("jset", Flag[e.op], f, t)
    BY <1>2, ConditionOf, SmallWords
  <2> QED BY <2>1, ItemsWritten
<1>3. CASE e.op \in {"outbound", "loopback", "impostor"}
  <2>1. Flag[e.op] \in U32 /\ Condition(e, t, f) = JmpCond("jset", Flag[e.op], t, f)
    BY <1>3, ConditionOf, SmallWords
  <2> QED BY <2>1, ItemsWritten
<1>4. CASE e.op \notin {"inbound", "outbound", "loopback", "impostor"}
  <2>1. Condition(e, t, f) = JmpCond("jeq", Key(e), t, f)
    BY <1>4, ConditionOf
  <2> QED BY <1>1, <2>1, ItemsWritten
<1> QED BY <1>2, <1>3, <1>4

\* A test with one field, or with two.
LEMMA TestWritten ==
  ASSUME NEW ir \in Seq(Written), NEW e, e.op \in Tests, e.val \in U32, NEW t \in Nat, NEW f \in Nat, NEW n \in Nat
  PROVE  /\ Len(Loads(e)) = 1 => OneSide(ir, e, t, f) \in Seq(Written)
         /\ Len(Loads(e)) = 2 => TwoSides(ir, e, t, f, n) \in Seq(Written)
<1>1. Start(ir, e) \in Seq(Written)
  BY PreludeWritten, SeqOps, Zenon DEF Start
<1>2. Condition(e, t, f) \in Written /\ Condition(e, t, n) \in Written /\ Label(n) \in Written
  BY ConditionWritten, ItemsWritten, Zenon
<1>5. 1 \in 1..1 /\ 1 \in 1..2 /\ 2 \in 1..2
  OBVIOUS
<1>3. ASSUME Len(Loads(e)) = 1 PROVE OneSide(ir, e, t, f) \in Seq(Written)
  <2>1. Loads(e)[1] \in Seq(Written)
    BY <1>3, <1>5, LoadsWritten
  <2>2. Start(ir, e) \o Loads(e)[1] \in Seq(Written)
    BY <1>1, <2>1, SeqOps, Zenon
  <2> QED BY <1>2, <2>2, SeqOps, Zenon DEF OneSide
<1>4. ASSUME Len(Loads(e)) = 2 PROVE TwoSides(ir, e, t, f, n) \in Seq(Written)
  <2>1. Loads(e)[1] \in Seq(Written) /\ Loads(e)[2] \in Seq(Written)
    BY <1>4, <1>5, LoadsWritten
  <2>2. Start(ir, e) \o Loads(e)[1] \in Seq(Written)
    BY <1>1, <2>1, SeqOps, Zenon
  <2>3. FirstSide(ir, e, t, n) \in Seq(Written)
    BY <1>2, <2>2, SeqOps, Zenon DEF FirstSide
  <2>4. FirstSide(ir, e, t, n) \o Loads(e)[2] \in Seq(Written)
    BY <2>1, <2>3, SeqOps, Zenon
  <2> QED BY <1>2, <2>4, SeqOps, Zenon DEF TwoSides
<1> QED BY <1>3, <1>4

\* Every number below the size is the place of an instruction.
LEMMA NoGaps ==
  ASSUME NEW ir, Listing(ir), NEW n \in Nat, n < Size(ir)
  PROVE  \E j \in 1..Len(ir) : IsInsn(ir[j]) /\ Before(ir, j) = n
<1> DEFINE S == {j \in Nat : j <= Len(ir) => Before(ir, j + 1) <= n}
<1> SUFFICES ASSUME \A j \in 1..Len(ir) : ~(IsInsn(ir[j]) /\ Before(ir, j) = n)
             PROVE  FALSE
  OBVIOUS
<1>1. Len(ir) \in Nat
  BY SMT DEF Listing
<1>2. 0 \in S
  BY BeforeFirst, SMT
<1>3. ASSUME NEW j \in Nat, j \in S
      PROVE  j + 1 \in S
  <2> SUFFICES ASSUME j + 1 <= Len(ir)
               PROVE  Before(ir, (j + 1) + 1) <= n
    OBVIOUS
  <2>1. Before(ir, j + 1) <= n
    BY <1>1, <1>3, SMT
  <2>2. j + 1 \in Nat /\ j + 1 >= 1 /\ j + 1 \in 1..Len(ir)
    BY <1>1, SMT
  <2>3. Before(ir, j + 1) \in Nat
    BY <2>2, BeforeSet
  <2>4. Before(ir, (j + 1) + 1) = Before(ir, j + 1) + (IF IsInsn(ir[j + 1]) THEN 1 ELSE 0)
    BY <2>2, BeforeStep
  <2>5. ~(IsInsn(ir[j + 1]) /\ Before(ir, j + 1) = n)
    BY <2>2
  <2> QED BY <2>1, <2>3, <2>4, <2>5, SMT
<1>4. Nat \subseteq S
  <2> HIDE DEF S
  <2> QED BY <1>2, <1>3, SetInduction
<1>5. Before(ir, Len(ir) + 1) <= n
  BY <1>1, <1>4, SMT
<1>6. Size(ir) \in Nat
  BY SizeIsNat
<1> QED BY <1>5, <1>6, SMT DEF Size

\* A jump that is resolved has its distances in eight bits each.
LEMMA FinalEncoded ==
  ASSUME NEW ir \in Seq(Written), Resolvable(ir), NEW j \in 1..Len(ir), IsInsn(ir[j])
  PROVE  Final(ir, j) \in Encoded
<1>1. ir[j] \in Written
  OBVIOUS
<1>2. CASE ir[j] \in [ir : {"insn"}, insn : Encoded]
  BY <1>2, SMT DEF Final
<1>3. CASE ir[j] \in [ir : {"label"}, l : Nat]
  BY <1>3, SMT DEF IsInsn
<1>4. CASE ir[j] \in [ir : {"cond"}, op : {"jeq", "jset"}, k : U32, t : Nat, f : Nat]
  <2>1. ir[j].ir = "cond" /\ ir[j].op \in {"jeq", "jset"} /\ ir[j].k \in U32
    BY <1>4, SMT
  <2>2. InRange(Distance(ir, j, ir[j].t)) /\ InRange(Distance(ir, j, ir[j].f))
    BY <2>1 DEF Resolvable
  <2>3. \A d : InRange(d) => d \in U8
    BY JumpAssumption, SMT DEF InRange, U8
  <2>4. Distance(ir, j, ir[j].t) \in U8 /\ Distance(ir, j, ir[j].f) \in U8
    BY <2>2, <2>3
  <2>5. Final(ir, j) = Jmp(ir[j].op, ir[j].k, Distance(ir, j, ir[j].t), Distance(ir, j, ir[j].f))
    BY <2>1 DEF Final
  <2> QED BY <2>1, <2>4, <2>5, InsnsEncoded
<1> QED BY <1>1, <1>2, <1>3, <1>4, Zenon DEF Written

\* What resolve_insns returns is a program for the interpreter.
LEMMA ResolvedFits ==
  ASSUME NEW ir \in Seq(Written), Resolvable(ir)
  PROVE  Fits(ResolveInsns(ir))
<1> DEFINE N == Size(ir)
           c(n) == CHOOSE j \in 1..Len(ir) : IsInsn(ir[j]) /\ Before(ir, j) = n - 1
           F == [n \in 1..N |-> Final(ir, c(n))]
<1>1. ResolveInsns(ir) = F
  BY DEF ResolveInsns, Size
<1>2. Listing(ir)
  BY Zenon DEF Listing
<1>3. N \in Nat
  BY <1>2, SizeIsNat
<1>4. ASSUME NEW n \in 1..N PROVE Final(ir, c(n)) \in Encoded
  <2>1. n - 1 \in Nat /\ n - 1 < N
    BY <1>3, SMT
  <2>2. \E j \in 1..Len(ir) : IsInsn(ir[j]) /\ Before(ir, j) = n - 1
    BY <1>2, <2>1, NoGaps
  <2>3. c(n) \in 1..Len(ir) /\ IsInsn(ir[c(n)])
    BY <2>2, Zenon
  <2> HIDE DEF c
  <2> QED BY <2>3, FinalEncoded
<1> HIDE DEF N, c
<1>5. F \in [1..N -> Encoded]
  BY <1>4, Zenon
<1>6. F \in Seq(Encoded)
  BY <1>3, <1>5, SMT
<1> QED BY <1>1, <1>6, EncodedFits

\* Steps of the compiler leave the interpreter alone.
LEMMA InvSame ==
  ASSUME Inv, UNCHANGED machineVars
  PROVE  Inv'
BY Zenon DEF machineVars, machine, Inv, MachineTypeOK

\* What the calls of the parser are.
LEMMA FramesOf ==
  ASSUME NEW T
  PROVE  /\ \A fn \in {"expr", "term", "not", "("} : \A e \in T \cup {NoTree} : Call(fn, e) \in Frames(T)
         /\ \A c \in Frames(T) : c.node \in T \cup {NoTree}
         /\ ParseExpr \in Seq(Frames(T))
         /\ \A R : T \subseteq R => Frames(T) \subseteq Frames(R)
<1>1. \A fn \in {"expr", "term", "not", "("} : \A e \in T \cup {NoTree} : Call(fn, e) \in Frames(T)
  BY SMT DEF Call, Frames
<1>2. \A c \in Frames(T) : c.node \in T \cup {NoTree}
  BY SMT DEF Frames
<1>3. ParseExpr \in Seq(Frames(T))
  <2>1. Call("expr", NoTree) \in Frames(T) /\ Call("term", NoTree) \in Frames(T)
    BY <1>1
  <2>2. \A c, d \in Frames(T) : <<c, d>> \in Seq(Frames(T))
    BY SMT
  <2> QED BY <2>1, <2>2, Zenon DEF ParseExpr
<1>4. \A R : T \subseteq R => Frames(T) \subseteq Frames(R)
  BY SMT DEF Frames
<1> QED BY <1>1, <1>2, <1>3, <1>4

\* A tree that has been put together of parts that are there.
LEMMA GrownBy ==
  ASSUME NEW T, Forest(T), NEW cs \in Seq(Frames(T)), NEW e,
         \/ e \in T
         \/ e.op \in {"and", "or"} /\ e.l \in T /\ e.r \in T
         \/ e.op = "not" /\ e.l \in T
         \/ e.op \in Tests /\ e.val \in U32
  PROVE  \E R : Forest(R) /\ e \in R /\ cs \in Seq(Frames(R))
<1> DEFINE R == T \cup {e}
<1>1. Forest(R)
  <2>1. CASE e \in T
    <3>1. R = T
      BY <2>1
    <3> QED BY <3>1
  <2>2. CASE e \notin T
    BY <2>2, ForestGrows
  <2> QED BY <2>1, <2>2
<1>2. e \in R /\ T \subseteq R
  OBVIOUS
<1> HIDE DEF R
<1>3. cs \in Seq(Frames(R))
  BY <1>2, FramesOf, SeqMore, Zenon
<1> QED BY <1>1, <1>2, <1>3

\* The number in a test is a word, as it is in the text.
LEMMA ArgumentIsWord ==
  ASSUME NEW s \in Seq(Token), NEW i \in Pos(s), HasArgument(s, i)
  PROVE  s[NameAt(s, i) + 1].v \in U32 /\ At(s, NameAt(s, i)) \in Tests
<1> DEFINE k == NameAt(s, i) + 1
           name == At(s, NameAt(s, i))
<1>1. i \in Nat /\ 1 <= i
  BY SMT DEF Pos
<1>2. k \in Nat /\ 1 <= k
  BY <1>1, SMT DEF NameAt
<1>3. IsArgument(s, k, name)
  BY DEF HasArgument
<1> HIDE DEF k, name
<1>4. At(s, k) \in {"address", "number"} /\ name \in WithArgument
  BY <1>3 DEF IsArgument, WithArgument
<1>5. k <= Len(s)
  BY <1>4 DEF At
<1>6. s[k] \in Token
  <2>1. k \in 1..Len(s)
    BY <1>2, <1>5, SMT
  <2> QED BY <2>1
<1>7. s[k].v \in U32
  BY <1>6, SMT DEF Token
<1> QED BY <1>4, <1>7 DEF k, name, Tests

\* The parser goes on with trees.
LEMMA ParseShape ==
  ASSUME Inv, Parses, Grown(calls', ret')
  PROVE  ShapeInv'
<1>1. stage' = "parse" /\ UNCHANGED machineVars
  BY DEF Parses
<1> QED BY <1>1, InvSame, Zenon DEF ShapeInv

\* A refusal leaves nothing to be known.
LEMMA RefuseShape ==
  ASSUME Inv, pkt = NoPacket, Refuse
  PROVE  ShapeInv'
<1>1. stage' = "done" /\ program' = <<Refused>> /\ UNCHANGED <<pkt, machine, result>>
  BY DEF Refuse
<1>2. Fits(<<Refused>>)
  <2>1. <<Refused>> \in Seq(Encoded)
    BY InsnsEncoded
  <2> QED BY <2>1, EncodedFits
<1>3. Inv'
  BY <1>1, <1>2, NewProgramInv
<1> QED BY <1>1, <1>3, Zenon DEF ShapeInv

\* One call of parse_factor.
LEMMA FactorShape ==
  ASSUME CompilerInv, ShapeInv, ParseFactor
  PROVE  ShapeInv'
<1>1. stage = "parse" /\ ret = NoTree /\ Inv /\ pkt = NoPacket
  BY DEF ParseFactor, ShapeInv, CompilerInv, StageOK
<1>2. text \in Seq(Token) /\ pos \in Pos(text)
  BY <1>1, ParsingParts DEF CompilerInv
<1>3. PICK T : Forest(T) /\ calls \in Seq(Frames(T))
  BY <1>1, Zenon DEF ShapeInv, Grown
<1>4. \A fn \in {"not", "("} : Append(calls, Call(fn, NoTree)) \in Seq(Frames(T))
  BY <1>3, FramesOf, SeqOps
<1>5. CASE Goes(pos + 1, Append(calls, Call("not", NoTree)))
  <2>1. Grown(calls', ret') /\ Parses
    BY <1>3, <1>4, <1>5, Zenon DEF Goes, Grown
  <2> QED BY <1>1, <2>1, ParseShape
<1>6. CASE Goes(pos + 1, Append(calls, Call("(", NoTree)) \o ParseExpr)
  <2>1. Append(calls, Call("(", NoTree)) \o ParseExpr \in Seq(Frames(T))
    BY <1>4, FramesOf, SeqOps
  <2>2. Grown(calls', ret') /\ Parses
    BY <1>3, <1>6, <2>1, Zenon DEF Goes, Grown
  <2> QED BY <1>1, <2>2, ParseShape
<1>7. ASSUME NEW name, NEW dir, NEW val, name = At(text, NameAt(text, pos)),
             (IsSimple(text, pos) /\ val = 0) \/ (HasArgument(text, pos) /\ val = text[NameAt(text, pos) + 1].v),
             ret' = Primitive(name, dir, val), calls' = calls, Parses
      PROVE  ShapeInv'
  <2>1. name \in Tests /\ val \in U32
    BY <1>2, <1>7, ArgumentIsWord, ZeroIsWord DEF IsSimple, Tests
  <2>2. Primitive(name, dir, val).op \in Tests /\ Primitive(name, dir, val).val \in U32
    BY <2>1 DEF Primitive
  <2>3. \E R : Forest(R) /\ ret' \in R /\ calls' \in Seq(Frames(R))
    BY <1>3, <1>7, <2>2, GrownBy
  <2>4. Grown(calls', ret')
    BY <2>3, Zenon DEF Grown
  <2> QED BY <1>1, <1>7, <2>4, ParseShape
<1>8. CASE Refuse
  BY <1>1, <1>8, RefuseShape
<1> QED BY <1>5, <1>6, <1>7, <1>8, Zenon DEF ParseFactor

\* One return.
LEMMA ReturnShape ==
  ASSUME CompilerInv, ShapeInv, ReturnToNot \/ ReturnToParen \/ ReturnToTerm \/ ReturnToExpr
  PROVE  ShapeInv'
<1>1. /\ stage = "parse" /\ ret # NoTree /\ calls # <<>> /\ Top = calls[Len(calls)] /\ Below = Back(calls)
      /\ Inv /\ pkt = NoPacket
  BY DEF ReturnToNot, ReturnToParen, ReturnToTerm, ReturnToExpr, ReturnsTo, Top, Below, Back, ShapeInv, CompilerInv, StageOK
<1>2. PICK T : Forest(T) /\ calls \in Seq(Frames(T)) /\ ret \in T
  BY <1>1, Zenon DEF ShapeInv, Grown
<1>3. Below \in Seq(Frames(T)) /\ Top.node \in T \cup {NoTree}
  BY <1>1, <1>2, FramesOf, SeqOps
<1>4. ASSUME NEW e, e \in T \/ (e.op \in {"and", "or"} /\ e.l \in T /\ e.r \in T) \/ (e.op = "not" /\ e.l \in T),
             \/ calls' = Below /\ ret' = e
             \/ \E fn \in {"expr", "term"} : calls' = Append(Below, Call(fn, e)) /\ ret' = NoTree
             \/ calls' = Below \o <<Call("expr", e), Call("term", NoTree)>> /\ ret' = NoTree
      PROVE  Grown(calls', ret')
  <2>1. PICK R : Forest(R) /\ e \in R /\ Below \in Seq(Frames(R))
    BY <1>2, <1>3, <1>4, GrownBy
  <2>2. \A fn \in {"expr", "term"} : Call(fn, e) \in Frames(R) /\ Call(fn, NoTree) \in Frames(R)
    BY <2>1, FramesOf
  <2>3. calls' \in Seq(Frames(R)) /\ ret' \in R \cup {NoTree}
    BY <1>4, <2>1, <2>2, SeqOps
  <2> QED BY <2>1, <2>3, Zenon DEF Grown
<1>5. ASSUME NEW op \in {"and", "or"}, NEW e, e = With(op, ret)
      PROVE  e \in T \/ (e.op \in {"and", "or"} /\ e.l \in T /\ e.r \in T)
  BY <1>2, <1>3, <1>5 DEF With, Both
<1>6. CASE ReturnToNot
  <2>1. Negation(ret).op = "not" /\ Negation(ret).l = ret
    BY DEF Negation
  <2>2. calls' = Below /\ ret' = Negation(ret) /\ Parses
    BY <1>6 DEF ReturnToNot, Returned
  <2> QED BY <1>1, <1>2, <1>4, <2>1, <2>2, ParseShape
<1>7. CASE ReturnToParen
  <2>1. CASE Returned(ret, pos + 1)
    BY <1>1, <1>2, <1>4, <2>1, ParseShape DEF Returned
  <2>2. CASE Refuse
    BY <1>1, <2>2, RefuseShape
  <2> QED BY <1>7, <2>1, <2>2 DEF ReturnToParen
<1>8. CASE ReturnToTerm
  <2> DEFINE W == With("and", ret)
  <2>1. \/ calls' = Below /\ ret' = W /\ Parses
        \/ calls' = Append(Below, Call("term", W)) /\ ret' = NoTree /\ Parses
    BY <1>8, Zenon DEF ReturnToTerm, Returned, Goes
  <2>2. W \in T \/ (W.op \in {"and", "or"} /\ W.l \in T /\ W.r \in T)
    BY <1>5
  <2> HIDE DEF W
  <2> QED BY <1>1, <1>4, <2>1, <2>2, ParseShape
<1>9. CASE ReturnToExpr
  <2> DEFINE W == With("or", ret)
  <2>1. \/ calls' = Below /\ ret' = W /\ Parses
        \/ calls' = Below \o <<Call("expr", W), Call("term", NoTree)>> /\ ret' = NoTree /\ Parses
    BY <1>9, Zenon DEF ReturnToExpr, Returned, Goes
  <2>2. W \in T \/ (W.op \in {"and", "or"} /\ W.l \in T /\ W.r \in T)
    BY <1>5
  <2> HIDE DEF W
  <2> QED BY <1>1, <1>4, <2>1, <2>2, ParseShape
<1> QED BY <1>6, <1>7, <1>8, <1>9

\* The code generator goes on with items.
LEMMA EmitShape ==
  ASSUME Inv, Emits, Coming(insns', todo')
  PROVE  ShapeInv'
<1>1. stage = "emit" /\ stage' = "emit" /\ UNCHANGED machineVars
  BY DEF Emits
<1> QED BY <1>1, InvSame, Zenon DEF ShapeInv

\* The items emitted, the one next and the rest.
LEMMA ComingItems ==
  ASSUME NEW T, NEW td \in Seq(Unwritten(T)), td # <<>>
  PROVE  /\ Back(td) \in Seq(Unwritten(T))
         /\ td[Len(td)].ir # "call" => td[Len(td)] \in Written
         /\ td[Len(td)].ir = "call" => td[Len(td)].e \in T /\ td[Len(td)].t \in Nat /\ td[Len(td)].f \in Nat
<1> DEFINE c == td[Len(td)]
<1>1. Back(td) \in Seq(Unwritten(T)) /\ c \in Unwritten(T)
  BY SeqOps
<1> HIDE DEF c
<1>2. \A i \in Written : i.ir # "call"
  BY SMT DEF Written
<1>3. \A i \in [ir : {"call"}, e : T, t : Nat, f : Nat] : i.ir = "call" /\ i.e \in T /\ i.t \in Nat /\ i.f \in Nat
  BY SMT
<1>4. c.ir # "call" => c \in Written
  BY <1>1, <1>3, Zenon DEF Unwritten
<1>5. c.ir = "call" => c.e \in T /\ c.t \in Nat /\ c.f \in Nat
  BY <1>1, <1>2, <1>3, Zenon DEF Unwritten
<1> QED BY <1>1, <1>4, <1>5 DEF c

\* From the parser to the code generator.
LEMMA ParsedShape ==
  ASSUME CompilerInv, ShapeInv, Parsed
  PROVE  ShapeInv'
<1>1. stage = "parse" /\ ret # NoTree /\ insns = <<>> /\ Inv /\ pkt = NoPacket
  BY DEF Parsed, ShapeInv, CompilerInv, StageOK
<1>2. CASE Refuse
  BY <1>1, <1>2, RefuseShape
<1>3. ASSUME stage' = "emit", todo' = FirstToDo(ret), UNCHANGED <<text, parser, insns, machineVars>>
      PROVE  ShapeInv'
  <2>1. PICK T : Forest(T) /\ ret \in T
    BY <1>1, Zenon DEF ShapeInv, Grown
  <2> DEFINE U == Unwritten(T)
  <2>2. Plain(Ret(0)) \in U /\ Plain(Ret(U32Max)) \in U /\ Label(0) \in U /\ Label(1) \in U /\ CompileExpr(ret, 0, 1) \in U
    <3>1. Ret(0) \in Encoded /\ Ret(U32Max) \in Encoded
      BY SmallWords, InsnsEncoded
    <3> QED BY <2>1, <3>1, ItemsWritten
  <2> HIDE DEF U
  <2>3. todo' \in Seq(U)
    BY <1>3, <2>2, SMT DEF FirstToDo
  <2>4. insns' \in Seq(Written)
    BY <1>1, <1>3
  <2>5. Coming(insns', todo')
    BY <2>1, <2>3, <2>4, Zenon DEF Coming, U
  <2>6. Inv'
    BY <1>1, <1>3, InvSame
  <2> QED BY <1>3, <2>5, <2>6, Zenon DEF ShapeInv
<1> QED BY <1>2, <1>3, Zenon DEF Parsed, FirstToDo

\* One item is emitted.
LEMMA EmittingShape ==
  ASSUME CompilerInv, ShapeInv, Emit \/ CompileJunction \/ CompileNegation \/ CompileTest
  PROVE  ShapeInv'
<1>1. Emits /\ stage = "emit" /\ Inv
  BY DEF Emit, CompileJunction, CompileNegation, CompileTest, Calls, Emits, ShapeInv
<1>2. todo # <<>> /\ Now = todo[Len(todo)] /\ next_label \in Nat /\ Back(todo) \o <<>> = Back(todo)
  <2>1. Emission(text, insns, todo, next_label)
    BY <1>1 DEF CompilerInv
  <2> QED BY <1>1, <2>1, EmissionParts, LayoutParts, EmitsParts
<1>3. PICK T : Forest(T) /\ insns \in Seq(Written) /\ todo \in Seq(Unwritten(T))
  BY <1>1, Zenon DEF ShapeInv, Coming
<1>4. /\ Back(todo) \in Seq(Unwritten(T)) /\ (Now.ir # "call" => Now \in Written)
      /\ Now.ir = "call" => Now.e \in T /\ Now.t \in Nat /\ Now.f \in Nat
  BY <1>2, <1>3, ComingItems
<1>5. CASE Emit
  <2>1. Now.ir # "call" /\ insns' = Append(insns, Now) /\ todo' = Back(todo)
    BY <1>2, <1>5 DEF Emit, Emitting, Back
  <2>2. insns' \in Seq(Written)
    BY <1>3, <1>4, <2>1, SeqOps
  <2>3. Coming(insns', todo')
    BY <1>3, <1>4, <2>1, <2>2, Zenon DEF Coming
  <2> QED BY <1>1, <2>3, EmitShape
<1>6. CASE CompileJunction
  <2> DEFINE c == CompileExpr(Now.e.r, Now.t, Now.f)
             d == IF Now.e.op = "and" THEN CompileExpr(Now.e.l, next_label, Now.f)
                                      ELSE CompileExpr(Now.e.l, Now.t, next_label)
  <2>1. /\ Now.ir = "call" /\ Now.e.op \in {"and", "or"} /\ insns' = insns
        /\ todo' = Back(todo) \o <<c, Label(next_label), d>>
    BY <1>6 DEF CompileJunction, Calls, Emitting, Back
  <2>2. Now.e \in T /\ Now.t \in Nat /\ Now.f \in Nat /\ "and" \notin Tests /\ "or" \notin Tests
    BY <1>4, <2>1 DEF Tests, Simple, WithArgument
  <2>3. Now.e.l \in T /\ Now.e.r \in T
    BY <1>3, <2>1, <2>2 DEF Forest
  <2>4. c \in Unwritten(T) /\ d \in Unwritten(T) /\ Label(next_label) \in Unwritten(T)
    BY <1>2, <2>2, <2>3, ItemsWritten
  <2> HIDE DEF c, d
  <2>5. todo' \in Seq(Unwritten(T))
    BY <1>4, <2>1, <2>4, SeqOps
  <2>6. Coming(insns', todo')
    BY <1>3, <2>1, <2>5, Zenon DEF Coming
  <2> QED BY <1>1, <2>6, EmitShape
<1>7. CASE CompileNegation
  <2>1. Now.ir = "call" /\ Now.e.op = "not" /\ insns' = insns /\ todo' = Back(todo) \o <<CompileExpr(Now.e.l, Now.f, Now.t)>>
    BY <1>7 DEF CompileNegation, Calls, Emitting, Back
  <2>2. Now.e \in T /\ Now.t \in Nat /\ Now.f \in Nat /\ "not" \notin Tests
    BY <1>4, <2>1 DEF Tests, Simple, WithArgument
  <2>3. Now.e.l \in T
    BY <1>3, <2>1, <2>2 DEF Forest
  <2>4. CompileExpr(Now.e.l, Now.f, Now.t) \in Unwritten(T)
    BY <2>2, <2>3, ItemsWritten
  <2>5. todo' \in Seq(Unwritten(T))
    BY <1>4, <2>1, <2>4, SeqOps
  <2>6. Coming(insns', todo')
    BY <1>3, <2>1, <2>5, Zenon DEF Coming
  <2> QED BY <1>1, <2>6, EmitShape
<1>8. CASE CompileTest
  <2>1. Now.ir = "call" /\ Now.e.op \in Tests /\ todo' = Back(todo)
    BY <1>2, <1>8 DEF CompileTest, Calls, Tests, Emitting, Back
  <2>2. Now.e \in T /\ Now.t \in Nat /\ Now.f \in Nat /\ "and" \notin Tests /\ "or" \notin Tests /\ "not" \notin Tests
    BY <1>4, <2>1 DEF Tests, Simple, WithArgument
  <2>3. Now.e.val \in U32
    BY <1>3, <2>1, <2>2 DEF Forest
  <2>4. \/ Len(Loads(Now.e)) = 1 /\ insns' = OneSide(insns, Now.e, Now.t, Now.f)
        \/ Len(Loads(Now.e)) = 2 /\ insns' = TwoSides(insns, Now.e, Now.t, Now.f, next_label)
    BY <1>8, Zenon DEF CompileTest, OneSide, TwoSides, FirstSide, Start
  <2>5. insns' \in Seq(Written)
    BY <1>2, <1>3, <2>1, <2>2, <2>3, <2>4, TestWritten
  <2>6. Coming(insns', todo')
    BY <1>3, <1>4, <2>1, <2>5, Zenon DEF Coming
  <2> QED BY <1>1, <2>6, EmitShape
<1> QED BY <1>5, <1>6, <1>7, <1>8

\* resolve_insns, or a refusal; the program is loaded.
LEMMA FinishShape ==
  ASSUME CompilerInv, ShapeInv, Finish
  PROVE  ShapeInv'
<1>1. stage = "emit" /\ Inv /\ pkt = NoPacket
  BY DEF Finish, ShapeInv, CompilerInv, StageOK
<1>2. CASE Refuse
  BY <1>1, <1>2, RefuseShape
<1>3. ASSUME Resolvable(insns), stage' = "done", program' = ResolveInsns(insns), UNCHANGED <<pkt, machine, result>>
      PROVE  ShapeInv'
  <2>1. insns \in Seq(Written)
    BY <1>1, Zenon DEF ShapeInv, Coming
  <2>2. Fits(program')
    BY <1>3, <2>1, ResolvedFits
  <2>3. Inv'
    BY <1>1, <1>3, <2>2, NewProgramInv
  <2> QED BY <1>3, <2>3, Zenon DEF ShapeInv
<1> QED BY <1>2, <1>3, Zenon DEF Finish

\* compile_bpf begins, or a callout does.
LEMMA StartShape ==
  ASSUME CompilerInv, ShapeInv, Idle, NEW s \in Texts, StartCompile(s)
  PROVE  ShapeInv'
<1>1. Inv /\ pkt = NoPacket /\ ret = NoTree /\ ret' = ret /\ UNCHANGED <<pkt, machine, result>>
  BY DEF Idle, StartCompile, ShapeInv, CompilerInv, StageOK
<1>2. CASE stage' = "done" /\ program' = <<Ret(U32Max)>>
  <2>1. <<Ret(U32Max)>> \in Seq(Encoded)
    BY SmallWords, InsnsEncoded
  <2>2. Inv'
    BY <1>1, <1>2, <2>1, EncodedFits, NewProgramInv
  <2> QED BY <1>2, <2>2, Zenon DEF ShapeInv
<1>3. CASE stage' = "parse" /\ calls' = ParseExpr /\ program' = program
  <2>1. Inv'
    BY <1>1, <1>3, InvSame DEF machineVars
  <2>2. Forest({}) /\ ParseExpr \in Seq(Frames({}))
    BY FramesOf DEF Forest
  <2>3. Grown(calls', ret')
    BY <1>1, <1>3, <2>2, Zenon DEF Grown
  <2> QED BY <1>3, <2>1, <2>3, Zenon DEF ShapeInv
<1> QED BY <1>2, <1>3 DEF StartCompile

\* A step of the interpreter.
LEMMA RunningShape ==
  ASSUME ShapeInv, CompilerInv, Run, stage' = stage
  PROVE  ShapeInv' /\ (pc' > pc \/ result' # NoResult)
<1>1. pkt # NoPacket
  BY RunFrame
<1>2. stage' # "parse" /\ stage' # "emit"
  BY <1>1 DEF CompilerInv, StageOK
<1>3. Forward
  BY RunForward DEF ShapeInv
<1> QED BY <1>2, <1>3, Zenon DEF ShapeInv, Forward

\* The invariant is inductive.
LEMMA ShapeStep ==
  ASSUME CompilerInv, ShapeInv, [FilterNext]_filterVars
  PROVE  ShapeInv'
<1>0. Inv
  BY DEF ShapeInv
<1>1. CASE Idle /\ \E s \in Texts : StartCompile(s)
  BY <1>1, StartShape
<1>2. CASE Compile
  BY <1>2, FactorShape, ReturnShape, ParsedShape, EmittingShape, FinishShape, Zenon DEF Compile
<1>3. CASE Idle /\ (\E p \in Programs : LoadProgram(p)) /\ stage' = "done" /\ Outside
  <2>1. Inv'
    BY <1>0, <1>3, LoadInv
  <2> QED BY <1>3, <2>1, Zenon DEF ShapeInv
<1>4. CASE /\ stage \in {"none", "done"} /\ program # <<Refused>>
           /\ (\E p \in Packets : Filter(p)) /\ UNCHANGED stage /\ Outside
  <2>1. Inv'
    BY <1>0, <1>4, FilterInv
  <2>2. stage' # "parse" /\ stage' # "emit"
    BY <1>4
  <2> QED BY <2>1, <2>2, Zenon DEF ShapeInv
<1>5. CASE Run /\ UNCHANGED stage /\ Outside
  BY <1>5, RunningShape
<1>6. CASE UNCHANGED filterVars
  <2>1. UNCHANGED machineVars /\ UNCHANGED <<stage, calls, ret, insns, todo>>
    BY <1>6 DEF filterVars, parser, compiler
  <2>2. Inv'
    BY <1>0, <2>1, InvSame
  <2>3. (stage' = "parse" => Grown(calls', ret')) /\ (stage' = "emit" => Coming(insns', todo'))
    BY <2>1 DEF ShapeInv
  <2> QED BY <2>2, <2>3, Zenon DEF ShapeInv
<1> QED BY <1>1, <1>2, <1>3, <1>4, <1>5, <1>6, Zenon DEF FilterNext

\* It holds.
LEMMA ShapeAlways == FilterSpec => []ShapeInv
<1>1. FilterInit => ShapeInv
  BY InitInv DEF FilterInit, ShapeInv
<1>2. CompilerInv /\ ShapeInv /\ [FilterNext]_filterVars => ShapeInv'
  BY ShapeStep
<1> QED BY <1>1, <1>2, CompilerAlways, PTL DEF FilterSpec

\* bpf_compiler.rs:457-546, bpf.rs:102-260: the programs that compile_bpf makes, whatever
\* the text, are left at their end at the latest, reach no cell beyond the sixteen and
\* compute nothing wider than a word.
THEOREM FilterTypeCorrect == FilterSpec => []MachineTypeOK
<1>1. ShapeInv => MachineTypeOK
  BY DEF ShapeInv, Inv
<1> QED BY <1>1, ShapeAlways, PTL

\* bpf_compiler.rs:457-546, bpf.rs:112-258: every step of a compiled program on a packet
\* goes forward in it or returns, so that a text keeps a callout for no more steps than
\* its program has instructions.
THEOREM FilterNeverGoesBack == FilterSpec => RunsForward
<1> DEFINE Step == pkt # NoPacket => pc' > pc \/ result' # NoResult
<1>1. CompilerInv /\ ShapeInv /\ [FilterNext]_filterVars => [Step]_machineVars
  <2> SUFFICES ASSUME CompilerInv, ShapeInv, FilterNext, pkt # NoPacket, ~UNCHANGED machineVars
               PROVE  pc' > pc \/ result' # NoResult
    BY DEF filterVars
  <2>1. stage \notin {"parse", "emit"}
    BY DEF CompilerInv, StageOK
  <2>2. ~Idle /\ ~Compile /\ ~\E p \in Packets : Filter(p)
    BY <2>1 DEF Idle, Compile, ParseFactor, ReturnToNot, ReturnToParen, ReturnToTerm, ReturnToExpr, ReturnsTo, Parsed,
         Emit, CompileJunction, CompileNegation, CompileTest, Calls, Emits, Finish, Filter
  <2> QED BY <2>2, RunningShape, Zenon DEF FilterNext
<1> QED BY <1>1, CompilerAlways, ShapeAlways, PTL DEF FilterSpec, RunsForward
=============================================================================
