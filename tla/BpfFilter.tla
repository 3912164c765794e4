------------------------------ MODULE BpfFilter ------------------------------
(***************************************************************************)
(* Packet filters: the client's compiler from filter text to BPF           *)
(* (dll/src/bpf_compiler.rs), and the programs it makes in the driver's    *)
(* interpreter, module BpfMachine.  A text is the sequence of its tokens.  *)
(* The compiler is recursive: the calls under way are a sequence, the      *)
(* newest last, and one call or one return of it is one action.            *)
(***************************************************************************)
EXTENDS BpfMachine, FiniteSets

CONSTANTS
  Texts,     \* the filters compiled
  MaxJump    \* the longest conditional jump, 255

ASSUME JumpAssumption == MaxJump \in 0..255

VARIABLES
  text,   \* the filter, <<>> if the program did not come from the compiler
  stage,  \* of compile_bpf: "none", "parse", "emit" or "done"
  pos, calls, ret,         \* Parser; what the last call returned, NoTree before it does
  insns, next_label, todo  \* Compiler; what is still to be emitted, the next last

parser == <<pos, calls, ret>>
compiler == <<insns, next_label, todo>>
filterVars == <<text, stage, parser, compiler, machineVars>>

-----------------------------------------------------------------------------
(* Tokens.  A name or a number the grammar has no word for is an            *)
(* Token::Ident: an address, a number, the word "true", or none of these.   *)
Simple == {"tcp", "udp", "icmp", "ip", "outbound", "inbound", "loopback", "impostor"}
WithArgument == {"host", "port", "ifindex", "sub_ifindex"}
Token ==
  [t : Simple \cup WithArgument \cup {"and", "or", "not", "(", ")", "src", "dst", "address", "number", "true", "other"},
   v : U32]

ASSUME TextAssumption == Texts \subseteq Seq(Token)

(* External: the first byte says of a header that it is five words long or  *)
(* longer, as IPv4's does, so that the ports are behind the addresses.  The *)
(* compiler does not ask for the version: of an IPv6 packet whose first     *)
(* byte says less, "port" takes two bytes out of the header.                *)
ASSUME HeaderAssumption == Word \div 2^24 <= 2^8 /\ \A p \in Packets : p.ihl >= 5

At(s, i) == IF i <= Len(s) THEN s[i].t ELSE "end"

(* The words that the tests "host", "port" and "ifindex" ask for. *)
IsArgument(s, i, name) ==
  CASE name = "host" -> At(s, i) = "address"
    [] name = "port" -> At(s, i) = "number" /\ s[i].v \in U16
    [] name \in {"ifindex", "sub_ifindex"} -> At(s, i) = "number"
    [] OTHER -> FALSE

(* A test at position i: its direction, its name behind that, its argument. *)
Direction(s, i) == IF At(s, i) \in {"src", "dst"} THEN At(s, i) ELSE "either"
NameAt(s, i) == IF Direction(s, i) = "either" THEN i ELSE i + 1
IsSimple(s, i) == At(s, NameAt(s, i)) \in Simple
HasArgument(s, i) == IsArgument(s, NameAt(s, i) + 1, At(s, NameAt(s, i)))

-----------------------------------------------------------------------------
(* The parser, by recursive descent. *)

NoTree == [op |-> "none"]
Both(op, l, r) == [op |-> op, l |-> l, r |-> r]
Negation(e) == [op |-> "not", l |-> e]
Primitive(name, dir, val) == [op |-> name, dir |-> dir, val |-> val]

(* A call of a parser function, and the tree it has put together (`node`).  *)
Call(fn, node) == [fn |-> fn, node |-> node]
Top == calls[Len(calls)]
Below == SubSeq(calls, 1, Len(calls) - 1)
ParseExpr == <<Call("expr", NoTree), Call("term", NoTree)>>  \* calls parse_term first

With(op, e) == IF Top.node = NoTree THEN e ELSE Both(op, Top.node, e)

(* What the client has in place of a program if compile_bpf fails. *)
Refused == [Blank EXCEPT !.class = "refused"]
Refuse ==
  /\ stage' = "done" /\ program' = <<Refused>>
  /\ UNCHANGED <<text, parser, compiler, pkt, machine, result>>

Parses == stage' = "parse" /\ UNCHANGED <<text, compiler, machineVars>>
Goes(to, newCalls) == pos' = to /\ calls' = newCalls /\ ret' = NoTree /\ Parses
Returned(e, to) == pos' = to /\ calls' = Below /\ ret' = e /\ Parses

(* The call of parse_factor, up to its own calls or its return. *)
ParseFactor ==
  /\ stage = "parse" /\ ret = NoTree
  /\ LET is(word) == At(text, pos) = word
         yields(e, to) == pos' = to /\ ret' = e /\ UNCHANGED calls /\ Parses
         name == At(text, NameAt(text, pos))
     IN  \/ is("not") /\ Goes(pos + 1, Append(calls, Call("not", NoTree)))
         \/ is("(") /\ Goes(pos + 1, Append(calls, Call("(", NoTree)) \o ParseExpr)
         \/ /\ ~is("not") /\ ~is("(")
            /\ \/ IsSimple(text, pos) /\ yields(Primitive(name, "either", 0), NameAt(text, pos) + 1)
               \/ /\ HasArgument(text, pos)
                  /\ yields(Primitive(name, Direction(text, pos), text[NameAt(text, pos) + 1].v), NameAt(text, pos) + 2)
               \/ ~IsSimple(text, pos) /\ ~HasArgument(text, pos) /\ Refuse

ReturnsTo(fn) == stage = "parse" /\ ret # NoTree /\ calls # <<>> /\ Top.fn = fn

ReturnToNot == ReturnsTo("not") /\ Returned(Negation(ret), pos)

ReturnToParen ==
  /\ ReturnsTo("(")
  /\ \/ At(text, pos) = ")" /\ Returned(ret, pos + 1)
     \/ At(text, pos) # ")" /\ Refuse

(* A factor that follows another without an operator is meant with "and".  *)
ReturnToTerm ==
  /\ ReturnsTo("term")
  /\ \/ At(text, pos) \in {"or", ")", "end"} /\ Returned(With("and", ret), pos)
     \/ /\ At(text, pos) \notin {"or", ")", "end"}
        /\ Goes(IF At(text, pos) = "and" THEN pos + 1 ELSE pos, Append(Below, Call("term", With("and", ret))))

ReturnToExpr ==
  /\ ReturnsTo("expr")
  /\ \/ At(text, pos) # "or" /\ Returned(With("or", ret), pos)
     \/ /\ At(text, pos) = "or"
        /\ Goes(pos + 1, Below \o <<Call("expr", With("or", ret)), Call("term", NoTree)>>)

-----------------------------------------------------------------------------
(* The code generator: instructions, jumps to two labels, labels, and calls *)
(* of compile_expr that are still to be made.                               *)

Plain(i) == [ir |-> "insn", insn |-> i]
JmpCond(op, k, t, f) == [ir |-> "cond", op |-> op, k |-> k, t |-> t, f |-> f]
Label(l) == [ir |-> "label", l |-> l]
CompileExpr(e, t, f) == [ir |-> "call", e |-> e, t |-> t, f |-> f]

Prelude(e) == IF e.op = "port" THEN <<Plain(Ldx("msh", 0))>> ELSE <<>>

(* The one load of a test, or the two of a test with no direction. *)
OfDir(e, src, dst) == CASE e.dir = "src" -> <<src>> [] e.dir = "dst" -> <<dst>> [] OTHER -> <<src, dst>>
Loads(e) ==
  CASE e.op \in {"tcp", "udp", "icmp"} -> <<<<Plain(Ld("b", "abs", 9))>>>>
    [] e.op = "ip" -> <<<<Plain(Ld("b", "abs", 0)), Plain(Alu("rsh", "k", 4))>>>>
    [] e.op = "host" -> OfDir(e, <<Plain(Ld("w", "abs", 12))>>, <<Plain(Ld("w", "abs", 16))>>)
    [] e.op = "port" -> OfDir(e, <<Plain(Ld("h", "ind", 0))>>, <<Plain(Ld("h", "ind", 2))>>)
    [] e.op = "ifindex" -> <<<<Plain(Ld("w", "abs", AddrIfIdx))>>>>
    [] e.op = "sub_ifindex" -> <<<<Plain(Ld("w", "abs", AddrSubIfIdx))>>>>
    [] OTHER -> <<<<Plain(Ld("w", "abs", AddrFlags))>>>>

Condition(e, t, f) ==
  CASE e.op = "tcp" -> JmpCond("jeq", 6, t, f)
    [] e.op = "udp" -> JmpCond("jeq", 17, t, f)
    [] e.op = "icmp" -> JmpCond("jeq", 1, t, f)
    [] e.op = "ip" -> JmpCond("jeq", 4, t, f)
    [] e.op = "inbound" -> JmpCond("jset", Flag.inbound, f, t)
    [] e.op \in {"outbound", "loopback", "impostor"} -> JmpCond("jset", Flag[e.op], t, f)
    [] OTHER -> JmpCond("jeq", e.val, t, f)

(* What is left to emit after the last of todo, if that is replaced by s.   *)
Emitting(s) == todo' = SubSeq(todo, 1, Len(todo) - 1) \o s
Emits == stage = "emit" /\ todo # <<>> /\ UNCHANGED <<text, stage, parser, machineVars>>
Now == todo[Len(todo)]
Calls(ops) == Emits /\ Now.ir = "call" /\ Now.e.op \in ops

(* The parser is done: compile_bpf goes on, labels 0 and 1 are true and     *)
(* false.                                                                   *)
Parsed ==
  /\ stage = "parse" /\ ret # NoTree /\ calls = <<>>
  /\ \/ pos <= Len(text) /\ Refuse
     \/ /\ pos > Len(text)
        /\ stage' = "emit" /\ next_label' = 2
        /\ todo' = <<Plain(Ret(0)), Label(1), Plain(Ret(U32Max)), Label(0), CompileExpr(ret, 0, 1)>>
        /\ UNCHANGED <<text, parser, insns, machineVars>>

Emit ==
  /\ Emits /\ Now.ir # "call"
  /\ insns' = Append(insns, Now) /\ Emitting(<<>>) /\ UNCHANGED next_label

CompileJunction ==
  /\ Calls({"and", "or"})
  /\ next_label' = next_label + 1 /\ UNCHANGED insns
  /\ Emitting(<<CompileExpr(Now.e.r, Now.t, Now.f), Label(next_label),
                IF Now.e.op = "and" THEN CompileExpr(Now.e.l, next_label, Now.f)
                                    ELSE CompileExpr(Now.e.l, Now.t, next_label)>>)

CompileNegation ==
  /\ Calls({"not"})
  /\ Emitting(<<CompileExpr(Now.e.l, Now.f, Now.t)>>) /\ UNCHANGED <<insns, next_label>>

CompileTest ==
  /\ Calls(Simple \cup WithArgument)
  /\ LET e == Now.e
         loads == Loads(e)
     IN  \/ /\ Len(loads) = 1 /\ UNCHANGED next_label
            /\ insns' = insns \o Prelude(e) \o loads[1] \o <<Condition(e, Now.t, Now.f)>>
         \/ /\ Len(loads) = 2 /\ next_label' = next_label + 1
            /\ insns' = insns \o Prelude(e) \o loads[1] \o <<Condition(e, Now.t, next_label), Label(next_label)>>
                              \o loads[2] \o <<Condition(e, Now.t, Now.f)>>
  /\ Emitting(<<>>)

-----------------------------------------------------------------------------
(* resolve_insns *)

IsInsn(i) == i.ir # "label"

(* real_insn_idx at the j-th of ir *)
Before(ir, j) == Cardinality({k \in 1..(j - 1) : IsInsn(ir[k])})
LabelOffset(ir, l) == Before(ir, CHOOSE j \in 1..Len(ir) : ir[j] = Label(l))
(* Variant: relative to the jump itself. *)
DistanceFromJump(ir, j, l) == LabelOffset(ir, l) - Before(ir, j)
Distance(ir, j, l) == LabelOffset(ir, l) - Before(ir, j) - 1

(* Variant: the next instruction is out of reach. *)
InRangeStrict(d) == d \in 1..MaxJump
InRange(d) == d \in 0..MaxJump

Resolvable(ir) ==
  \A j \in 1..Len(ir) :
    ir[j].ir = "cond" => InRange(Distance(ir, j, ir[j].t)) /\ InRange(Distance(ir, j, ir[j].f))

Final(ir, j) ==
  IF ir[j].ir = "insn" THEN ir[j].insn
  ELSE Jmp(ir[j].op, ir[j].k, Distance(ir, j, ir[j].t), Distance(ir, j, ir[j].f))

ResolveInsns(ir) ==
  [n \in 1..Before(ir, Len(ir) + 1) |->
     Final(ir, CHOOSE j \in 1..Len(ir) : IsInsn(ir[j]) /\ Before(ir, j) = n - 1)]

Finish ==
  /\ stage = "emit" /\ todo = <<>>
  /\ \/ ~Resolvable(insns) /\ Refuse
     \/ /\ Resolvable(insns)
        /\ stage' = "done" /\ program' = ResolveInsns(insns)
        /\ UNCHANGED <<text, parser, compiler, pkt, machine, result>>

-----------------------------------------------------------------------------
Idle == stage = "none" /\ pkt = NoPacket

FilterInit ==
  /\ MachineInit /\ text = <<>> /\ stage = "none"
  /\ pos = 1 /\ calls = <<>> /\ ret = NoTree
  /\ insns = <<>> /\ next_label = 0 /\ todo = <<>>

(* The empty text, and the word "true" if it stands alone: for the grammar  *)
(* that word is a name like any other.                                      *)
MatchesAll(s) == s = <<>> \/ (Len(s) = 1 /\ At(s, 1) = "true")

(* compile_bpf is called, before the device is opened. *)
StartCompile(s) ==
  /\ text' = s
  /\ \/ /\ MatchesAll(s) /\ stage' = "done" /\ program' = <<Ret(U32Max)>> /\ UNCHANGED calls
     \/ ~MatchesAll(s) /\ stage' = "parse" /\ calls' = ParseExpr /\ UNCHANGED program
  /\ UNCHANGED <<pos, ret, compiler, pkt, machine, result>>

Compile ==
  \/ ParseFactor \/ ReturnToNot \/ ReturnToParen \/ ReturnToTerm \/ ReturnToExpr
  \/ Parsed \/ Emit \/ CompileJunction \/ CompileNegation \/ CompileTest \/ Finish

Outside == UNCHANGED <<text, parser, compiler>>

FilterNext ==
  \/ Idle /\ \E s \in Texts : StartCompile(s)
  \/ Compile
  \/ Idle /\ (\E p \in Programs : LoadProgram(p)) /\ stage' = "done" /\ Outside
  \/ /\ stage \in {"none", "done"} /\ program # <<Refused>>
     /\ (\E p \in Packets : Filter(p)) /\ UNCHANGED stage /\ Outside
  \/ Run /\ UNCHANGED stage /\ Outside

FilterSpec == FilterInit /\ [][FilterNext]_filterVars /\ WF_machineVars(Run)
-----------------------------------------------------------------------------
(* What a filter says of a packet, by its grammar: every way to read the    *)
(* text counts.  "short": the first test to be made needs bytes that are    *)
(* not there, which ends the filter.                                        *)

Values == {"yes", "no", "short"}
Conj(l, r) == IF l = "yes" THEN r ELSE l
Disj(l, r) == IF l = "no" THEN r ELSE l
Neg(v) == CASE v = "yes" -> "no" [] v = "no" -> "yes" [] OTHER -> v
Tested(p, need, holds) == IF p.bytes < need THEN "short" ELSE IF holds THEN "yes" ELSE "no"

TestSays(p, name, dir, v) ==
  LET ofDir(src, dst) == CASE dir = "src" -> src [] dir = "dst" -> dst [] OTHER -> Disj(src, dst)
  IN  CASE name = "tcp" -> Tested(p, 10, p.proto = 6)
        [] name = "udp" -> Tested(p, 10, p.proto = 17)
        [] name = "icmp" -> Tested(p, 10, p.proto = 1)
        [] name = "ip" -> Tested(p, 1, p.version = 4)
        [] name = "host" -> ofDir(Tested(p, 16, p.src = v), Tested(p, 20, p.dst = v))
        [] name = "port" -> ofDir(Tested(p, 4 * p.ihl + 2, p.sport = v),
                                  Tested(p, 4 * p.ihl + 4, p.dport = v))
        [] name = "outbound" -> Tested(p, 0, p.outbound)
        [] name = "inbound" -> Tested(p, 0, ~p.outbound)
        [] name = "ifindex" -> Tested(p, 0, p.ifIdx = v)
        [] name = "sub_ifindex" -> Tested(p, 0, p.subIfIdx = v)
        [] OTHER -> "no"

(* Readings of the text from position i on, each with the position behind   *)
(* it and what it says: as a factor, as factors and'ed and as terms or'ed.  *)
(* `later` has the readings from the positions behind i.                    *)
FactorsAt(s, p, later, i) ==
  CASE At(s, i) = "not" -> {<<r[1], Neg(r[2])>> : r \in later[i + 1].factors}
    [] At(s, i) = "(" -> {<<r[1] + 1, r[2]>> : r \in {q \in later[i + 1].exprs : At(s, q[1]) = ")"}}
    [] OTHER ->
         LET name == At(s, NameAt(s, i))
         IN  IF IsSimple(s, i) THEN {<<NameAt(s, i) + 1, TestSays(p, name, "either", 0)>>}
             ELSE IF HasArgument(s, i)
             THEN {<<NameAt(s, i) + 2, TestSays(p, name, Direction(s, i), s[NameAt(s, i) + 1].v)>>}
             ELSE {}

MoreFactors(s, later, r) ==
  {r} \cup {<<q[1], Conj(r[2], q[2])>> :
              q \in later[r[1]].terms \cup IF At(s, r[1]) = "and" THEN later[r[1] + 1].terms ELSE {}}

MoreTerms(s, later, r) ==
  {r} \cup {<<q[1], Disj(r[2], q[2])>> : q \in IF At(s, r[1]) = "or" THEN later[r[1] + 1].exprs ELSE {}}

ReadingsAt(s, p, later, i) ==
  LET factors == FactorsAt(s, p, later, i)
      terms == UNION {MoreFactors(s, later, r) : r \in factors}
  IN  [factors |-> factors, terms |-> terms, exprs |-> UNION {MoreTerms(s, later, r) : r \in terms}]

Readings(s, p) ==
  LET from[n \in 0..Len(s)] ==
        IF n = 0 THEN [i \in 1..(Len(s) + 1) |-> [factors |-> {}, terms |-> {}, exprs |-> {}]]
        ELSE LET later == from[n - 1]
                 i == Len(s) + 1 - n
             IN  [later EXCEPT ![i] = ReadingsAt(s, p, later, i)]
  IN  from[Len(s)]

FilterSays(s, p) == {r[2] : r \in {q \in Readings(s, p)[1].exprs : q[1] = Len(s) + 1}}
TextSays(s, p) == IF MatchesAll(s) THEN {"yes"} ELSE FilterSays(s, p)

(* bpf_compiler.rs:4-12, bpf.rs:104-269: a packet matches a filter if and   *)
(* only if the filter's text says yes of it: "not" binds closest, then      *)
(* "and", written or not, then "or", and tests are made from left to right  *)
(* until the answer is known.  The text "true" says yes of every packet.    *)
MatchesWhatFilterSays ==
  text # <<>> /\ result # NoResult =>
    IF result # 0 THEN TextSays(text, pkt) = {"yes"}
    ELSE TextSays(text, pkt) \in {{"no"}, {"short"}}

Names(s) == {i \in 1..Len(s) : s[i].t \in Simple \cup WithArgument}

(* bpf_compiler.rs:498-500, 522-528: a text is refused only if the grammar  *)
(* has no reading for it, or if it has so many tests that a jump over them  *)
(* (of at most five instructions each) might be too long.                   *)
RefusedForCause ==
  text # <<>> /\ program = <<Refused>> =>
    \/ TextSays(text, CHOOSE p \in Packets : TRUE) = {}
    \/ 5 * Cardinality(Names(text)) - 1 > MaxJump

(* bpf.rs:115-267: every program, compiled or not, returns.                 *)
Halts == pkt # NoPacket ~> result # NoResult
=============================================================================
