---------------------------- MODULE BpfFilterInv -----------------------------
(***************************************************************************)
(* The invariants of the filter compiler and of the interpreter, and the   *)
(* words they are said in: s is a text, p a packet, ir the list insns, td  *)
(* what is still to be emitted, cs the calls of the parser. That they are  *)
(* invariants, and what follows, is proved in BpfFilter_proofs.            *)
(***************************************************************************)
EXTENDS BpfFilter, FiniteSets

(***************************************************************************)
(* The arithmetic of the interpreter.                                      *)
(***************************************************************************)

\* Words of 16 bits.
Half == 65536

(***************************************************************************)
(* What an instruction computes is a word, and jumps lead forward.         *)
(***************************************************************************)

(* What the interpreter needs of an instruction, and of a program.         *)
Sound(i) == i.k \in U32 /\ i.jt \in U8 /\ i.jf \in U8
Fits(q) == \E S : q \in Seq(S) /\ \A i \in S : Sound(i)

(* The machine between two actions: MachineTypeOK, a program of             *)
(* instructions, and a machine that is at rest until a packet is filtered.  *)
Inv ==
  /\ MachineTypeOK
  /\ Fits(program)
  /\ pkt = NoPacket => pc = 0 /\ result = NoResult

(***************************************************************************)
(* The invariant.                                                          *)
(***************************************************************************)

\* What a step of the interpreter does: it keeps the invariant, and it goes
\* forward or returns.
Forward == Inv' /\ (pc' > pc \/ result' # NoResult)

(***************************************************************************)
(* Induction and recursion.                                                *)
(***************************************************************************)

\* g goes on from v0 by F, n times.
Iteration(F, v0, n, g) == g[0] = v0 /\ \A i \in 1..n : g[i] = F[<<i, g[i - 1]>>]

(***************************************************************************)
(* The readings of a text, as a table that explains itself.                *)
(***************************************************************************)
Pos(s) == 1..(Len(s) + 1)
Reads(s) == Pos(s) \X Values
Nothing == [factors |-> {}, terms |-> {}, exprs |-> {}]
Row(s) == [factors : SUBSET Reads(s), terms : SUBSET Reads(s), exprs : SUBSET Reads(s)]
Table(s) == [Pos(s) -> Row(s)]

\* What Readings does for one more position, from the end.
FromBody(s, p, from) ==
  [n \in 0..Len(s) |->
        IF n = 0 THEN [i \in 1..(Len(s) + 1) |-> [factors |-> {}, terms |-> {}, exprs |-> {}]]
        ELSE LET later == from[n - 1]
                 i == Len(s) + 1 - n
             IN  [later EXCEPT ![i] = ReadingsAt(s, p, later, i)]]

\* Every reading in the table T ends behind where it begins.
Onward(s, T) ==
  \A i \in Pos(s) : \A r \in T[i].factors \cup T[i].terms \cup T[i].exprs : r[1] > i

(***************************************************************************)
(* What a tree says of a packet.                                           *)
(***************************************************************************)

\* Why e says v, if the pairs in D are right.
Because(D, p, e, v) ==
  \/ e.op = "and" /\ \E l, r \in Values : <<e.l, l>> \in D /\ <<e.r, r>> \in D /\ v = Conj(l, r)
  \/ e.op = "or" /\ \E l, r \in Values : <<e.l, l>> \in D /\ <<e.r, r>> \in D /\ v = Disj(l, r)
  \/ e.op = "not" /\ \E l \in Values : <<e.l, l>> \in D /\ v = Neg(l)
  \/ e.op \in Simple \cup WithArgument /\ v = TestSays(p, e.op, e.dir, e.val)
Sayings(D, p) == \A d \in D : \E e, v : d = <<e, v>> /\ v \in Values /\ Because(D, p, e, v)

\* The tree e says v of p.
TreeSays(p, e, v) == \E D : Sayings(D, p) /\ <<e, v>> \in D

(***************************************************************************)
(* How many tests a tree has.                                              *)
(***************************************************************************)
Adds(D, e, c) ==
  \/ e.op \in {"and", "or"} /\ \E l, r \in Nat : <<e.l, l>> \in D /\ <<e.r, r>> \in D /\ c = l + r
  \/ e.op = "not" /\ <<e.l, c>> \in D
  \/ e.op \in Simple \cup WithArgument /\ c = 1
Counts(D) == \A d \in D : \E e, c : d = <<e, c>> /\ c \in Nat /\ Adds(D, e, c)

\* e has c tests.
TreeTests(e, c) == \E D : Counts(D) /\ <<e, c>> \in D

(***************************************************************************)
(* What the calls under way will make of a reading of the rest.            *)
(***************************************************************************)

\* What is left to say at the end, and what each call makes of k.
AtEnd(s) == [r \in Reads(s) |-> IF r[1] = Len(s) + 1 THEN {r[2]} ELSE {}]
AfterNot(s, k) == [r \in Reads(s) |-> k[<<r[1], Neg(r[2])>>]]
AfterParen(s, k) == [r \in Reads(s) |-> IF At(s, r[1]) = ")" THEN k[<<r[1] + 1, r[2]>>] ELSE {}]
AfterTerm(s, p, u, k) ==
  [r \in Reads(s) |-> UNION {k[q] : q \in MoreFactors(s, Readings(s, p), <<r[1], Conj(u, r[2])>>)}]
AfterExpr(s, p, u, k) ==
  [r \in Reads(s) |-> UNION {k[q] : q \in MoreTerms(s, Readings(s, p), <<r[1], Disj(u, r[2])>>)}]
After(s, p, fn, u, k) ==
  CASE fn = "not" -> AfterNot(s, k)
    [] fn = "(" -> AfterParen(s, k)
    [] fn = "term" -> AfterTerm(s, p, u, k)
    [] OTHER -> AfterExpr(s, p, u, k)

\* What a call has put together.
Unit(fn) == IF fn = "term" THEN "yes" ELSE "no"
NodeSays(p, c, u) == u \in Values /\ (IF c.node = NoTree THEN u = Unit(c.fn) ELSE TreeSays(p, c.node, u))
NodeTests(c, n) == n \in Nat /\ (IF c.node = NoTree THEN n = 0 ELSE TreeTests(c.node, n))

\* The call c makes g of h, what is below makes of a tree.
Hands(s, p, c, g, h) ==
  \E k, n, u, e : /\ g = <<k, n>> /\ n \in Nat /\ NodeSays(p, c, u) /\ NodeTests(c, e)
                  /\ h = <<After(s, p, c.fn, u, k), n + e>>

\* The calls cs make k of a reading, and have put n tests together.
Cont(s, p, cs, k, n) ==
  \E G : /\ G[0] = <<AtEnd(s), 0>> /\ G[Len(cs)] = <<k, n>>
         /\ \A d \in 1..Len(cs) : Hands(s, p, cs[d], G[d - 1], G[d])

(***************************************************************************)
(* Readings and what is made of them.                                      *)
(***************************************************************************)

\* All that K says of the readings R; of those behind one that says w.
Says(K, R) == UNION {K[r] : r \in R}
SaysConj(K, w, R) == UNION {K[<<q[1], Conj(w, q[2])>>] : q \in R}
SaysDisj(K, w, R) == UNION {K[<<q[1], Disj(w, q[2])>>] : q \in R}

(***************************************************************************)
(* The calls under way.                                                    *)
(***************************************************************************)

\* parse_term is called by parse_expr, and that by compile_bpf or for a parenthesis.
Nested(cs) ==
  \A d \in 1..Len(cs) :
    /\ cs[d].fn \in {"expr", "term", "(", "not"}
    /\ cs[d].fn = "term" => d - 1 \in 1..Len(cs) /\ cs[d - 1].fn = "expr"
    /\ cs[d].fn = "expr" => d = 1 \/ (d - 1 \in 1..Len(cs) /\ cs[d - 1].fn = "(")
Stack(cs) == (\E S : cs \in Seq(S)) /\ Nested(cs)

(***************************************************************************)
(* The tests that are left.                                                *)
(***************************************************************************)
All(s) == Cardinality(Names(s))
LeftNames(s, i) == {k \in Names(s) : k >= i}
Left(s, i) == Cardinality(LeftNames(s, i))

(***************************************************************************)
(* One step of the parser, for one packet.  s is the text, i the position, *)
(* cs the calls under way, e what the last of them returned.               *)
(***************************************************************************)

\* A factor is to be read at i: what the text says is what the calls make of the
\* factors there, and the tests put together and those left are not more than all.
Pending(s, i, cs, p) ==
  \E k, n : /\ Cont(s, p, cs, k, n) /\ n + Left(s, i) <= All(s)
            /\ FilterSays(s, p) = Says(k, Readings(s, p)[i].factors)

\* e has been read up to i: what the text says is what the calls make of that
\* one reading.
HasRead(s, i, cs, e, p) ==
  \E k, n, v, c : /\ Cont(s, p, cs, k, n) /\ TreeSays(p, e, v) /\ TreeTests(e, c)
                  /\ n + c + Left(s, i) <= All(s)
                  /\ FilterSays(s, p) = k[<<i, v>>]
Back(cs) == SubSeq(cs, 1, Len(cs) - 1)
WithOf(op, node, e) == IF node = NoTree THEN e ELSE Both(op, node, e)

\* e is returned to the call on top.
Returning(s, p, i, cs, e) ==
  \E k, n, u, b, v, c :
           /\ Cont(s, p, Back(cs), k, n) /\ n \in Nat
           /\ NodeSays(p, cs[Len(cs)], u) /\ NodeTests(cs[Len(cs)], b)
           /\ TreeSays(p, e, v) /\ TreeTests(e, c) /\ v \in Values /\ c \in Nat
           /\ n + b + c + Left(s, i) <= All(s)
           /\ FilterSays(s, p) = After(s, p, cs[Len(cs)].fn, u, k)[<<i, v>>]

(***************************************************************************)
(* What the code does with one packet.  A point of the code is a pair: the *)
(* values that a and x may have there, and what will be returned.  L has   *)
(* the point of every label.                                               *)
(***************************************************************************)
Everywhere == Nat \X Nat

\* What a load or a shift makes of the values o of a and x: no value, or one.
Outcome(p, i, o) ==
  CASE i.class = "ld" /\ i.mode = "abs" ->
         {<<v, o[2]>> : v \in IF i.k >= AddrBase THEN AddressField(p, i.k) ELSE LoadBytes(p, i.size, i.k)}
    [] i.class = "ld" /\ i.mode = "ind" -> {<<v, o[2]>> : v \in LoadBytes(p, i.size, (o[2] + i.k) % Word)}
    [] i.class = "ldx" -> {<<o[1], (v % 16) * 4>> : v \in LoadBytes(p, "b", i.k)}
    [] OTHER -> {<<o[1] \div 2^(i.k % 32), o[2]>>}
IsStep(i) ==
  \/ i.class = "ld" /\ i.mode \in {"abs", "ind"}
  \/ i.class = "ldx" /\ i.mode = "msh"
  \/ i.class = "alu" /\ i.op = "rsh" /\ i.src = "k"
Holds(op, y, k) == IF op = "jeq" THEN y = k ELSE BitAnd(y, k) # 0
LeadsOn(p, i, g, h) ==
  \A o \in g[1] : /\ Outcome(p, i, o) = {} => g[2] = 0
                  /\ \A q \in Outcome(p, i, o) : q \in h[1] /\ h[2] = g[2]
JumpsTo(L, l, o, r) == o \in L[l][1] /\ r = L[l][2]

\* Behind the item i is the point h, if before it is g.
Leads(p, L, i, g, h) ==
  \/ \E l \in Nat : i = Label(l) /\ L[l] = g /\ h = g
  \/ \E k \in {0, U32Max} : i = Plain(Ret(k)) /\ g[2] = k
  \/ \E n : i = Plain(n) /\ IsStep(n) /\ LeadsOn(p, n, g, h)
  \/ \E op, k, t, f :
       /\ i = JmpCond(op, k, t, f) /\ op \in {"jeq", "jset"}
       /\ \A o \in g[1] : IF Holds(op, o[1], k) THEN JumpsTo(L, t, o, g[2]) ELSE JumpsTo(L, f, o, g[2])

\* G has a point before each item of ir: g before the first, h behind the last.
Follows(p, L, ir, G, g, h) ==
  G[0] = g /\ G[Len(ir)] = h /\ \A j \in 1..Len(ir) : Leads(p, L, ir[j], G[j - 1], G[j])
Behind(p, L, ir, g, h) == \E G : Follows(p, L, ir, G, g, h)

(***************************************************************************)
(* Labels in use are below n.                                              *)
(***************************************************************************)
Uses(i, n) ==
  /\ i.ir = "label" => i.l \in 0..(n - 1)
  /\ i.ir \in {"cond", "call"} => i.t \in 0..(n - 1) /\ i.f \in 0..(n - 1)
Agree(L, M, n) == \A l \in 0..(n - 1) : M[l] = L[l]

(***************************************************************************)
(* What is still to be emitted, from the end.                              *)
(***************************************************************************)
To(v, t, f) == CASE v = "yes" -> t [] v = "no" -> f [] OTHER -> 0

\* What an item still to be emitted means: of a call, that the code for its tree goes
\* to one label for "yes" and to the other for "no".
Means(p, L, i, g, h) ==
  \E r, n : /\ g = <<r, n>> /\ n \in Nat
            /\ \/ \E k \in {0, U32Max} : i = Plain(Ret(k)) /\ h = <<k, n + 1>>
               \/ \E l \in Nat : i = Label(l) /\ L[l] = <<Everywhere, r>> /\ h = <<r, n>>
               \/ \E e, t, f, v, c, y, z :
                    /\ i = CompileExpr(e, t, f) /\ TreeSays(p, e, v) /\ TreeTests(e, c)
                    /\ L[t] = <<Everywhere, y>> /\ L[f] = <<Everywhere, z>>
                    /\ h = <<To(v, y, z), n + 5 * c>>
Waits(p, L, td, G, r, n) ==
  G[0] = <<0, 0>> /\ G[Len(td)] = <<r, n>> /\ \A d \in 1..Len(td) : Means(p, L, td[d], G[d - 1], G[d])

\* What is still to be emitted leads from r, with at most n instructions.
Ahead(p, L, td, r, n) == n \in Nat /\ \E G : Waits(p, L, td, G, r, n)

(***************************************************************************)
(* How many instructions are before an item.                               *)
(***************************************************************************)
InsnsTo(ir, j) == {k \in 1..(j - 1) : IsInsn(ir[k])}
Size(ir) == Before(ir, Len(ir) + 1)

(***************************************************************************)
(* Where the labels are.                                                   *)
(***************************************************************************)

\* A sequence, of whatever items.
Listing(q) == \E S : q \in Seq(S)
IsIn(q, l) == \E k \in 1..Len(q) : q[k] = Label(l)
ToDo(i) == (\E k : i = Plain(k)) \/ (\E l : i = Label(l)) \/ (\E e, t, f : i = CompileExpr(e, t, f))

\* A label that is used at j is behind j or still to be emitted.
Reached(ir, td, j, l) == (IsIn(ir, l) \/ IsIn(td, l)) /\ \A k \in 1..Len(ir) : ir[k] = Label(l) => k > j

\* l is emitted after the d-th of td.
Lower(td, d, l) == \E k \in 1..(d - 1) : td[k] = Label(l)

\* An emitted jump goes forward, and is behind an instruction.
DoneItem(ir, td, n, j) ==
  /\ Uses(ir[j], n)
  /\ ir[j].ir = "cond" => /\ Reached(ir, td, j, ir[j].t) /\ Reached(ir, td, j, ir[j].f)
                          /\ j > 1 /\ IsInsn(ir[j - 1])

\* What is still to be emitted: labels are new, and calls use labels behind them.
TodoItem(ir, td, n, d) ==
  /\ ToDo(td[d]) /\ Uses(td[d], n)
  /\ td[d].ir = "call" => Lower(td, d, td[d].t) /\ Lower(td, d, td[d].f)
  /\ \A l : td[d] = Label(l) => ~IsIn(ir, l) /\ \A k \in 1..Len(td) : td[k] = Label(l) => k = d

\* The last instruction is one and no jump.
Ends(ir, td) == IF td = <<>> THEN ir # <<>> /\ IsInsn(ir[Len(ir)]) ELSE td[1].ir = "insn"

\* Where the labels of the list ir and of what is still to be emitted, td, are;
\* n is the next new label.
Layout(ir, td, n) ==
  /\ n \in Nat /\ Listing(ir) /\ Listing(td) /\ Ends(ir, td)
  /\ \A j \in 1..Len(ir) : DoneItem(ir, td, n, j)
  /\ \A d \in 1..Len(td) : TodoItem(ir, td, n, d)
Waiting(td, n, l) == l \in 0..(n - 1) /\ IsIn(td, l)

(***************************************************************************)
(* What is loaded, and the bits of the flags.                              *)
(***************************************************************************)
FourBytes(b, c, d, e) == 16777216 * (b % (Word \div 16777216)) + 65536 * c + 256 * d + e

(***************************************************************************)
(* One test: the load, and the jump behind it.                             *)
(***************************************************************************)

\* The values that a load gives.
Loaded(p, i, o, V) == Outcome(p, i, o) = {<<v, o[2]>> : v \in V}
OneOf(p, need, val) == IF p.bytes < need THEN {} ELSE {val}

\* The loads s make the field val of X, if the packet has `need` bytes.
Gets(p, s, X, need, val) ==
  /\ val \in Nat
  /\ \A L, r : ~(p.bytes < need) => Behind(p, L, s, <<Nat \X X, r>>, <<{val} \X X, r>>)
  /\ \A L : p.bytes < need => Behind(p, L, s, <<Nat \X X, 0>>, <<{}, 0>>)
Key(e) ==
  CASE e.op = "tcp" -> 6 [] e.op = "udp" -> 17 [] e.op = "icmp" -> 1 [] e.op = "ip" -> 4 [] OTHER -> e.val
Set(e, y) == BitAnd(y, Flag[e.op]) # 0
Verdict(e, y) ==
  IF e.op = "inbound" THEN (IF Set(e, y) THEN "no" ELSE "yes")
  ELSE IF e.op \in {"outbound", "loopback", "impostor"} THEN (IF Set(e, y) THEN "yes" ELSE "no")
  ELSE IF y = Key(e) THEN "yes" ELSE "no"
Result(p, need, w) == IF p.bytes < need THEN "short" ELSE w
Tests == Simple \cup WithArgument
Jumps(L, op, k, t, f, G, r) ==
  \A o \in G : IF Holds(op, o[1], k) THEN JumpsTo(L, t, o, r) ELSE JumpsTo(L, f, o, r)
Short(s) == (\E i : s = <<Plain(i)>>) \/ \E i, j : s = <<Plain(i), Plain(j)>>
One(s) == \E i : s = <<Plain(i)>>
Enters(p, e, X, need) ==
  /\ X \subseteq Nat
  /\ \A L, r : (p.bytes < need => r = 0) => Behind(p, L, Prelude(e), <<Everywhere, r>>, <<Nat \X X, r>>)

\* A test with one load, and what it says.
OneLoad(p, e) ==
  \E X, need, val : /\ Enters(p, e, X, need) /\ Gets(p, Loads(e)[1], X, need, val)
                    /\ TestSays(p, e.op, e.dir, e.val) = Result(p, need, Verdict(e, val))

\* A test with two loads, and what it says.
TwoLoads(p, e) ==
  \E X, need, val, n2, v2 :
     /\ Enters(p, e, X, need) /\ Gets(p, Loads(e)[1], X, need, val) /\ Gets(p, Loads(e)[2], X, n2, v2)
     /\ TestSays(p, e.op, e.dir, e.val) = Disj(Result(p, need, Verdict(e, val)), Result(p, n2, Verdict(e, v2)))

(***************************************************************************)
(* What is emitted says what the tree says: w is to be returned, and there *)
(* are at most z instructions.                                             *)
(***************************************************************************)

\* The list ir and what is still to be emitted, td, return w, by the points L of the
\* labels, with at most z instructions.
Coded(p, L, w, ir, td, r, n, z) ==
  /\ Ahead(p, L, td, r, n) /\ Size(ir) + n <= z
  /\ p \in Packets => Behind(p, L, ir, <<Everywhere, w>>, <<Everywhere, r>>)
Codes(p, w, ir, td, z) == \E L, r, n : Coded(p, L, w, ir, td, r, n, z)
CallSays(p, L, bt, c, r, n) ==
  \E r1, n1, v, k, y, u :
           /\ Ahead(p, L, bt, r1, n1) /\ n1 \in Nat
           /\ TreeSays(p, c.e, v) /\ TreeTests(c.e, k)
           /\ L[c.t] = <<Everywhere, y>> /\ L[c.f] = <<Everywhere, u>>
           /\ r = To(v, y, u) /\ n = n1 + 5 * k

\* The new label nl is at g.
Relabel(L, nl, g) == [l \in Nat |-> IF l = nl THEN g ELSE L[l]]

\* What the operands say, and how many tests they have.
OperandsSay(p, e, v, k) ==
  \E y, u \in Values, i, j \in Nat :
     /\ TreeSays(p, e.l, y) /\ TreeSays(p, e.r, u) /\ TreeTests(e.l, i) /\ TreeTests(e.r, j)
     /\ e.op = "and" => v = Conj(y, u)
     /\ e.op = "or" => v = Disj(y, u)
     /\ k = i + j
JoinsOn(q, s, c) == q \o Append(s, c) = Append(q \o s, c)

(***************************************************************************)
(* What compile_expr emits for a test: one jump, or two with a label       *)
(* between them.                                                           *)
(***************************************************************************)
Start(ir, e) == ir \o Prelude(e)
OneSide(ir, e, t, f) == (Start(ir, e) \o Loads(e)[1]) \o <<Condition(e, t, f)>>
FirstSide(ir, e, t, nl) == (Start(ir, e) \o Loads(e)[1]) \o <<Condition(e, t, nl), Label(nl)>>
TwoSides(ir, e, t, f, nl) == (FirstSide(ir, e, t, nl) \o Loads(e)[2]) \o <<Condition(e, t, f)>>
SidesOn(q, s, c) == (q \o s) \o <<c>> = q \o Append(s, c)
FirstIs(ir, e, t, nl) ==
  FirstSide(ir, e, t, nl) = Append(Start(ir, e) \o Append(Loads(e)[1], Condition(e, t, nl)), Label(nl))
BothAre(ir, e, t, f, nl) ==
  TwoSides(ir, e, t, f, nl) = FirstSide(ir, e, t, nl) \o Append(Loads(e)[2], Condition(e, t, f))

\* What a call of compile_expr for a test leaves to be done.
TestLeaves(p, L, bt, c, r, n) ==
  \E n1, y, u :
     /\ \E r1 : Ahead(p, L, bt, r1, n1)
     /\ n1 \in Nat /\ n = n1 + 5
     /\ L[c.t] = <<Everywhere, y>> /\ L[c.f] = <<Everywhere, u>>
     /\ r = To(TestSays(p, c.e.op, c.e.dir, c.e.val), y, u)

\* What compile_bpf has to emit when the parser is done.
FirstToDo(e) == <<Plain(Ret(0)), Label(1), Plain(Ret(U32Max)), Label(0), CompileExpr(e, 0, 1)>>

(***************************************************************************)
(* resolve_insns: every label is behind the jumps to it.                   *)
(***************************************************************************)

\* The label that a jump at the j-th of ir finds.
TargetOf(ir, l) == CHOOSE j \in 1..Len(ir) : ir[j] = Label(l)
Goal(ir, j, l) == TargetOf(ir, l) \in 1..Len(ir) /\ ir[TargetOf(ir, l)] = Label(l) /\ TargetOf(ir, l) > j

(***************************************************************************)
(* A program under way: it is before the (j+1)-th of the list, and w is to *)
(* be returned.                                                            *)
(***************************************************************************)
Standing(p, L, ir, G, w, j, k, o) ==
  /\ Follows(p, L, ir, G, <<Everywhere, w>>, <<Everywhere, 0>>)
  /\ j \in 0..Len(ir) /\ k = Before(ir, j + 1) /\ o \in G[j][1] /\ G[j][2] = w
RunsAt(p, ir, w, k, o) == \E L, G, j : Standing(p, L, ir, G, w, j, k, o)

\* Labels are passed.
Stops(p, L, ir, G, w, k, o) ==
  \E i \in 0..Len(ir) : Standing(p, L, ir, G, w, i, k, o) /\ (i < Len(ir) => IsInsn(ir[i + 1]))

\* What the instruction i, the k-th, does to a program that stands before it and is
\* to return w.
RunsOn(p, ir, w, i, k, o, N) ==
  \/ \E v \in {0, U32Max} : i = Ret(v) /\ w = v
  \/ /\ IsStep(i)
     /\ Outcome(p, i, o) = {} => w = 0
     /\ \A q \in Outcome(p, i, o) : RunsAt(p, ir, w, k + 1, q)
  \/ \E op, v, d1, d2 :
       /\ i = Jmp(op, v, d1, d2) /\ op \in {"jeq", "jset"}
       /\ \E d : /\ d = (IF Holds(op, o[1], v) THEN d1 ELSE d2) /\ k + 1 + d \in 0..(N - 1)
                 /\ RunsAt(p, ir, w, k + 1 + d, o)

(***************************************************************************)
(* One step of the interpreter.                                            *)
(***************************************************************************)
Ran(w) ==
  /\ program' = program /\ pkt' = pkt
  /\ \/ result' = w
     \/ result' = NoResult /\ RunsAt(pkt, insns, w, pc', <<a', x'>>)

(***************************************************************************)
(* The parser, step by step.                                               *)
(***************************************************************************)

\* A "not" has nothing put together.
Nots(cs) == \A d \in 1..Len(cs) : cs[d].fn = "not" => cs[d].node = NoTree
Midway(s, i, cs, e, p) == IF e = NoTree THEN Pending(s, i, cs, p) ELSE HasRead(s, i, cs, e, p)

\* The parser is under way: for every packet, what the text says is what the calls
\* make of what has been or of what is to be read.
Parsing(s, i, cs, e) ==
  /\ s \in Seq(Token) /\ i \in Pos(s) /\ Stack(cs) /\ Nots(cs)
  /\ \A p : Midway(s, i, cs, e, p)

(***************************************************************************)
(* The code generator, step by step.                                       *)
(***************************************************************************)

\* The last instruction returns 0.
LastRet(ir, td) == IF td = <<>> THEN ir # <<>> /\ ir[Len(ir)] = Plain(Ret(0)) ELSE td[1] = Plain(Ret(0))

\* The text says one thing of p, and the code will say the same.
CodeSays(s, p, ir, td) ==
  \E v \in Values : FilterSays(s, p) = {v} /\ Codes(p, To(v, U32Max, 0), ir, td, 5 * All(s) + 2)

\* The code generator is under way.
Emission(s, ir, td, n) ==
  s \in Seq(Token) /\ Layout(ir, td, n) /\ LastRet(ir, td) /\ \A p : CodeSays(s, p, ir, td)

(***************************************************************************)
(* The invariant of the compiler and of the run of its program.            *)
(***************************************************************************)

\* A text that may be refused.
Excused(s) == s \in Seq(Token) /\ ((\A p : FilterSays(s, p) = {}) \/ 5 * All(s) - 1 > MaxJump)

\* A program under way is about to return what the text says, or has.
Answers ==
  /\ pkt \in Packets
  /\ \E v \in Values : /\ FilterSays(text, pkt) = {v}
                       /\ IF result = NoResult THEN RunsAt(pkt, insns, To(v, U32Max, 0), pc, <<a, x>>)
                                               ELSE result = To(v, U32Max, 0)

\* What came of a text.
Compiled ==
  \/ program = <<Refused>> /\ pkt = NoPacket /\ Excused(text)
  \/ /\ program # <<Refused>> /\ program = ResolveInsns(insns) /\ Emission(text, insns, <<>>, next_label)
     /\ pkt # NoPacket => Answers
StageOK ==
  /\ stage \in {"none", "parse", "emit", "done"}
  /\ stage = "none" => text = <<>> /\ pos = 1 /\ ret = NoTree
  /\ stage \in {"none", "parse"} => insns = <<>>
  /\ stage # "done" => program = <<>>
  /\ stage \in {"parse", "emit"} => pkt = NoPacket
  /\ pkt = NoPacket => result = NoResult /\ pc = 0 /\ a = 0 /\ x = 0

\* The inductive invariant of FilterSpec.
CompilerInv ==
  /\ StageOK
  /\ stage = "parse" => Parsing(text, pos, calls, ret)
  /\ stage = "emit" => Emission(text, insns, todo, next_label)
  /\ stage = "done" /\ ~MatchesAll(text) => Compiled

\* The text "true" is no matter of the parser; its program accepts every packet.
Unconditional ==
  /\ stage \in {"parse", "emit"} => ~MatchesAll(text)
  /\ stage = "done" /\ text # <<>> /\ MatchesAll(text) =>
       program = <<Ret(U32Max)>> /\ pc = 0 /\ result \in {NoResult, U32Max}

(***************************************************************************)
(* What the compiler makes is a program: trees are made of trees,          *)
(* items of words, the program of instructions fit for the interpreter.    *)
(***************************************************************************)

\* T is a set of trees, with their parts.
Forest(T) ==
  \A e \in T : \/ e.op \in {"and", "or"} /\ e.l \in T /\ e.r \in T
               \/ e.op = "not" /\ e.l \in T
               \/ e.op \in Tests /\ e.val \in U32

\* The calls of the parser that hold trees of T.
Frames(T) == [fn : {"expr", "term", "not", "("}, node : T \cup {NoTree}]

\* The instructions that bpf_compiler.rs can make.
Encoded ==
  [class : {"ld", "ldx", "alu", "jmp", "ret", "refused"}, size : {"w", "h", "b"}, mode : {"imm", "abs", "ind", "msh"},
   op : {"add", "rsh", "jeq", "jset"}, src : {"k"}, k : U32, jt : U8, jf : U8]

\* The items of the list insns.
Written ==
  [ir : {"insn"}, insn : Encoded] \cup [ir : {"label"}, l : Nat] \cup
  [ir : {"cond"}, op : {"jeq", "jset"}, k : U32, t : Nat, f : Nat]

\* The items still to be emitted, of trees of T.
Unwritten(T) == Written \cup [ir : {"call"}, e : T, t : Nat, f : Nat]

\* The calls and what is returned hold trees.
Grown(cs, e) == \E T : Forest(T) /\ cs \in Seq(Frames(T)) /\ e \in T \cup {NoTree}

\* The list and what is still to come hold items.
Coming(ir, td) == \E T : Forest(T) /\ ir \in Seq(Written) /\ td \in Seq(Unwritten(T))

\* With Inv of the interpreter this is inductive, given CompilerInv.
ShapeInv == Inv /\ (stage = "parse" => Grown(calls, ret)) /\ (stage = "emit" => Coming(insns, todo))
=============================================================================
