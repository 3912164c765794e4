-------------------------- MODULE FileRules_proofs --------------------------
(***************************************************************************)
(* Proofs about FileRules: for any rules, any pattern and any name, the    *)
(* loop of minifilter_pre_op suspends the operations its rules ask for,    *)
(* and the wildcard loop decides what its pattern stands for.              *)
(***************************************************************************)
EXTENDS FileRules, WellFoundedInduction, SequenceTheorems, TLAPS

(***************************************************************************)
(* What a pattern stands for, without recursion: T is read by P if there   *)
(* are positions, one after each unit of P, where what that unit stands    *)
(* for ends in T.                                                          *)
(***************************************************************************)

Reads(P, T, i, a, b) ==
  IF P[i] = Star THEN a <= b ELSE b = a + 1 /\ P[i] \in {OneUnit, T[b]}

\* The ways to read a beginning of T by the first m units of P.
Walks(P, T, m) ==
  {e \in [0..m -> 0..Len(T)] :
     e[0] = 0 /\ \A i \in 1..m : Reads(P, T, i, e[i - 1], e[i])}

\* Where they end.
Ends(P, T, m) == {n \in 0..Len(T) : \E e \in Walks(P, T, m) : e[m] = n}

\* The ways to read the whole of T.
Full(P, T) == {e \in Walks(P, T, Len(P)) : e[Len(P)] = Len(T)}

(* Induction over the naturals, on a set of naturals.                       *)
LEMMA SetInduction ==
  ASSUME NEW S, 0 \in S, \A n \in Nat : n \in S => n + 1 \in S
  PROVE  Nat \subseteq S
<1> DEFINE U == {n \in Nat : n \notin S}
<1>1. SUFFICES ASSUME U # {} PROVE FALSE
  OBVIOUS
<1>2. PICK x \in U : \A y \in U : ~ (<<y, x>> \in OpToRel(<, Nat))
  <2>1. IsWellFoundedOn(OpToRel(<, Nat), Nat)
    BY NatLessThanWellFounded
  <2>2. U \subseteq Nat
    OBVIOUS
  <2> HIDE DEF U
  <2> QED BY <1>1, <2>1, <2>2, WFMin, Zenon
<1>3. x # 0 /\ x \in Nat /\ x \notin S
  OBVIOUS
<1>4. x - 1 \in Nat /\ <<x - 1, x>> \in Nat \X Nat /\ x - 1 < x
  BY <1>3
<1>5. x - 1 \notin U
  <2>1. <<x - 1, x>> \in OpToRel(<, Nat)
    BY <1>4 DEF OpToRel
  <2> QED BY <1>2, <2>1
<1>6. x - 1 \in S
  BY <1>4, <1>5
<1> QED BY <1>3, <1>4, <1>6

(* One unit more of the pattern.                                            *)
LEMMA WalkOn ==
  ASSUME NEW P \in Seq(Nat), NEW T \in Seq(Nat), NEW m \in Nat,
         NEW a \in Ends(P, T, m), NEW b \in 0..Len(T), Reads(P, T, m + 1, a, b)
  PROVE  b \in Ends(P, T, m + 1)
<1>1. PICK e \in Walks(P, T, m) : e[m] = a
  BY DEF Ends
<1> DEFINE g == [i \in 0..(m + 1) |-> IF i <= m THEN e[i] ELSE b]
<1>2. g \in [0..(m + 1) -> 0..Len(T)] /\ g[0] = 0 /\ g[m + 1] = b
  BY <1>1 DEF Walks
<1>3. ASSUME NEW i \in 1..(m + 1) PROVE Reads(P, T, i, g[i - 1], g[i])
  <2>1. CASE i <= m
    <3>1. i \in 1..m /\ i \in 0..(m + 1) /\ i - 1 \in 0..(m + 1) /\ i - 1 <= m
      BY <2>1
    <3>2. g[i - 1] = e[i - 1] /\ g[i] = e[i]
      BY <2>1, <3>1
    <3> HIDE DEF g
    <3> QED BY <1>1, <3>1, <3>2 DEF Walks
  <2>2. CASE i = m + 1
    <3>1. g[i - 1] = a /\ g[i] = b
      BY <1>1, <2>2
    <3> HIDE DEF g
    <3> QED BY <2>2, <3>1
  <2> QED BY <2>1, <2>2
<1> HIDE DEF g
<1>4. g \in Walks(P, T, m + 1)
  BY <1>2, <1>3 DEF Walks
<1> QED BY <1>2, <1>4 DEF Ends

(* One unit less.                                                           *)
LEMMA WalkBack ==
  ASSUME NEW P \in Seq(Nat), NEW T \in Seq(Nat), NEW m \in Nat, NEW b \in Ends(P, T, m + 1)
  PROVE  \E a \in Ends(P, T, m) : Reads(P, T, m + 1, a, b)
<1>1. PICK g \in Walks(P, T, m + 1) : g[m + 1] = b
  BY DEF Ends
<1> DEFINE e == [i \in 0..m |-> g[i]]
<1>2. m + 1 \in 1..(m + 1) /\ (m + 1) - 1 = m
  OBVIOUS
<1>3. Reads(P, T, m + 1, g[m], b)
  BY <1>1, <1>2 DEF Walks
<1>4. e \in [0..m -> 0..Len(T)] /\ e[0] = 0 /\ e[m] = g[m]
  BY <1>1 DEF Walks
<1>5. ASSUME NEW i \in 1..m PROVE Reads(P, T, i, e[i - 1], e[i])
  <2>1. e[i - 1] = g[i - 1] /\ e[i] = g[i] /\ i \in 1..(m + 1)
    OBVIOUS
  <2> HIDE DEF e
  <2> QED BY <1>1, <2>1 DEF Walks
<1> HIDE DEF e
<1>6. e \in Walks(P, T, m)
  BY <1>4, <1>5 DEF Walks
<1>7. g[m] \in 0..Len(T)
  BY <1>1 DEF Walks
<1> QED BY <1>3, <1>4, <1>6, <1>7 DEF Ends

LEMMA WalkStarts ==
  ASSUME NEW P \in Seq(Nat), NEW T \in Seq(Nat)
  PROVE  Ends(P, T, 0) = {0}
<1> DEFINE e == [i \in 0..0 |-> 0]
<1>1. e \in [0..0 -> 0..Len(T)] /\ e[0] = 0
  OBVIOUS
<1> HIDE DEF e
<1>2. e \in Walks(P, T, 0)
  BY <1>1 DEF Walks
<1>3. 0 \in Ends(P, T, 0)
  BY <1>1, <1>2 DEF Ends
<1>4. \A n \in Ends(P, T, 0) : n = 0
  BY DEF Ends, Walks
<1> QED BY <1>3, <1>4

(* The ends of the definition, one after the other.                         *)
NextEnds(P, T, m, K) ==
  IF P[m] = Star
  THEN {n \in 0..Len(T) : \E k \in K : k <= n}
  ELSE {n \in 1..Len(T) : P[m] \in {OneUnit, T[n]} /\ n - 1 \in K}

EndsBody(P, T, f) ==
  [m \in 0..Len(P) |->
     IF m = 0 THEN {0}
     ELSE IF P[m] = Star
     THEN {n \in 0..Len(T) : \E k \in f[m - 1] : k <= n}
     ELSE {n \in 1..Len(T) : P[m] \in {OneUnit, T[n]} /\ n - 1 \in f[m - 1]}]

LEMMA EndsBodyAt ==
  ASSUME NEW P \in Seq(Nat), NEW T \in Seq(Nat), NEW f, NEW m \in 1..Len(P)
  PROVE  EndsBody(P, T, f)[m] = NextEnds(P, T, m, f[m - 1])
<1>1. m \in 0..Len(P) /\ m # 0
  OBVIOUS
<1> QED BY <1>1, Zenon DEF EndsBody, NextEnds

LEMMA EndsOn ==
  ASSUME NEW P \in Seq(Nat), NEW T \in Seq(Nat), NEW m \in 1..Len(P)
  PROVE  Ends(P, T, m) = NextEnds(P, T, m, Ends(P, T, m - 1))
<1>1. m - 1 \in Nat /\ (m - 1) + 1 = m
  OBVIOUS
<1>2. \A n \in Ends(P, T, m) : n \in 0..Len(T) /\ \E k \in Ends(P, T, m - 1) : Reads(P, T, m, k, n)
  <2>1. Ends(P, T, m) \subseteq 0..Len(T)
    BY DEF Ends
  <2> QED BY <1>1, <2>1, WalkBack
<1>3. \A n \in 0..Len(T) : \A k \in Ends(P, T, m - 1) : Reads(P, T, m, k, n) => n \in Ends(P, T, m)
  BY <1>1, WalkOn
<1>4. Ends(P, T, m - 1) \subseteq 0..Len(T)
  BY DEF Ends
<1>5. CASE P[m] = Star
  BY <1>2, <1>3, <1>4, <1>5 DEF Reads, NextEnds
<1>6. CASE P[m] # Star
  <2>1. ASSUME NEW n \in Ends(P, T, m)
        PROVE  n \in 1..Len(T) /\ P[m] \in {OneUnit, T[n]} /\ n - 1 \in Ends(P, T, m - 1)
    <3>1. PICK k \in Ends(P, T, m - 1) : Reads(P, T, m, k, n)
      BY <1>2
    <3>2. n = k + 1 /\ P[m] \in {OneUnit, T[n]}
      BY <1>6, <3>1 DEF Reads
    <3>3. k \in 0..Len(T) /\ n \in 0..Len(T)
      BY <1>2, <1>4
    <3>4. n - 1 = k /\ n \in 1..Len(T)
      <4>1. k \in Nat /\ n \in Nat /\ Len(T) \in Nat /\ n <= Len(T)
        BY <3>3
      <4>2. n = k + 1
        BY <3>2
      <4>3. n - 1 = k
        BY <4>1, <4>2
      <4>4. 1 <= n
        BY <4>1, <4>2
      <4> QED BY <4>1, <4>3, <4>4
    <3> QED BY <3>1, <3>2, <3>4
  <2>2. ASSUME NEW n \in 1..Len(T), P[m] \in {OneUnit, T[n]}, n - 1 \in Ends(P, T, m - 1)
        PROVE  n \in Ends(P, T, m)
    BY <1>3, <1>6, <2>2 DEF Reads
  <2> QED BY <1>6, <2>1, <2>2 DEF NextEnds
<1> QED BY <1>5, <1>6

(* A pattern stands for the strings that it reads.                          *)
LEMMA StandsForWhatItReads ==
  ASSUME NEW P \in Seq(Nat), NEW T \in Seq(Nat)
  PROVE  Stands(P, T) <=> Full(P, T) # {}
<1> DEFINE E == [m \in 0..Len(P) |-> Ends(P, T, m)]
           f == CHOOSE g : g = EndsBody(P, T, g)
<1>0. Len(P) \in Nat
  OBVIOUS
<1>1. E = EndsBody(P, T, E)
  <2>1. \A m \in 1..Len(P) : m - 1 \in 0..Len(P) /\ E[m - 1] = Ends(P, T, m - 1)
    OBVIOUS
  <2>2. ASSUME NEW m \in 0..Len(P) PROVE Ends(P, T, m) = EndsBody(P, T, E)[m]
    <3>1. CASE m = 0
      BY <3>1, WalkStarts DEF EndsBody
    <3>2. CASE m \in 1..Len(P)
      <4>1. E[m - 1] = Ends(P, T, m - 1)
        BY <2>1, <3>2
      <4> HIDE DEF E
      <4> QED BY <3>2, <4>1, EndsOn, EndsBodyAt
    <3> QED BY <3>1, <3>2
  <2>3. E = [m \in 0..Len(P) |-> EndsBody(P, T, E)[m]]
    BY <2>2
  <2> HIDE DEF E
  <2> QED BY <2>3 DEF EndsBody
<1>2. f = EndsBody(P, T, f)
  BY <1>1
<1> DEFINE S == {m \in Nat : m <= Len(P) => f[m] = Ends(P, T, m)}
<1> HIDE DEF E, f
<1>3. 0 \in S
  BY <1>0, <1>2, WalkStarts DEF EndsBody
<1>4. ASSUME NEW m \in Nat, m \in S PROVE m + 1 \in S
  <2>1. CASE m + 1 <= Len(P)
    <3>1. m + 1 \in 1..Len(P) /\ (m + 1) - 1 = m /\ f[m] = Ends(P, T, m)
      BY <1>4, <2>1
    <3>2. f[m + 1] = EndsBody(P, T, f)[m + 1]
      BY <1>2
    <3>3. PICK k \in 1..Len(P) : k = m + 1 /\ k - 1 = m
      BY <3>1
    <3>4. f[k - 1] = Ends(P, T, k - 1) /\ f[k] = EndsBody(P, T, f)[k]
      BY <3>1, <3>2, <3>3
    <3>5. f[k] = Ends(P, T, k)
      BY <3>4, EndsOn, EndsBodyAt
    <3> QED BY <3>3, <3>5
  <2> QED BY <2>1
<1>5. f[Len(P)] = Ends(P, T, Len(P))
  <2> HIDE DEF S
  <2>1. Nat \subseteq S
    BY <1>3, <1>4, SetInduction
  <2> USE DEF S
  <2> QED BY <1>0, <2>1
<1>6. Stands(P, T) <=> Len(T) \in f[Len(P)]
  BY DEF Stands, f, EndsBody
<1> QED BY <1>5, <1>6 DEF Ends, Full

(***************************************************************************)
(* The wildcard loop, over any pattern P and string T.  p and t are its    *)
(* places in them, s the last star it has passed and k what that star has  *)
(* taken.                                                                  *)
(***************************************************************************)

GlobBounds(P, T, p, t, s, k) ==
  /\ p \in 0..Len(P) /\ t \in 0..Len(T)
  /\ s \in {None} \cup 0..(p - 1) /\ k \in 0..t

\* The pattern so far reads the string so far.
Sound(P, T, p, t, s, k) ==
  /\ t \in Ends(P, T, p)
  /\ s # None => P[s + 1] = Star /\ \E j \in Ends(P, T, s) : j <= k

\* Every way to read the whole string that there was is still there: it passes
\* through p and t, or, if the last star can take k units or more, it is as far
\* from t behind p as it is from k behind that star.
Complete(P, T, p, t, s, k) ==
  IF s = None
  THEN \A e \in Full(P, T) : e[p] = t
  ELSE /\ \A e \in Full(P, T) : e[p] - t = e[s + 1] - k
       /\ Full(P, T) # {} => \E e \in Full(P, T) : e[s + 1] >= k

NoStarIn(T) == \A n \in DOMAIN T : T[n] # Star

GlobState(P, T, p, t, s, k) ==
  /\ GlobBounds(P, T, p, t, s, k)
  /\ Sound(P, T, p, t, s, k)
  /\ NoStarIn(T) => Complete(P, T, p, t, s, k)

Same(P, T, p, t) == p < Len(P) /\ (P[p + 1] = T[t + 1] \/ P[p + 1] = OneUnit)
StarAt(P, p) == p < Len(P) /\ P[p + 1] = Star

LEMMA FullFacts ==
  ASSUME NEW P \in Seq(Nat), NEW T \in Seq(Nat), NEW e \in Full(P, T)
  PROVE  /\ e[0] = 0 /\ e[Len(P)] = Len(T)
         /\ \A p \in 0..Len(P) : e[p] \in 0..Len(T)
         /\ \A p \in 0..Len(P) : p < Len(P) => Reads(P, T, p + 1, e[p], e[p + 1])
<1>1. e \in [0..Len(P) -> 0..Len(T)] /\ e[0] = 0 /\ e[Len(P)] = Len(T)
  BY DEF Full, Walks
<1>2. \A i \in 1..Len(P) : Reads(P, T, i, e[i - 1], e[i])
  BY DEF Full, Walks
<1>3. ASSUME NEW p \in 0..Len(P), p < Len(P) PROVE Reads(P, T, p + 1, e[p], e[p + 1])
  <2>1. p + 1 \in 1..Len(P) /\ (p + 1) - 1 = p
    BY <1>3
  <2> QED BY <1>2, <2>1
<1> QED BY <1>1, <1>3

LEMMA GlobStarts ==
  ASSUME NEW P \in Seq(Nat), NEW T \in Seq(Nat)
  PROVE  GlobState(P, T, 0, 0, None, 0)
<1>1. GlobBounds(P, T, 0, 0, None, 0)
  BY DEF GlobBounds
<1>2. Sound(P, T, 0, 0, None, 0)
  BY WalkStarts DEF Sound
<1>3. Complete(P, T, 0, 0, None, 0)
  BY FullFacts DEF Complete
<1> QED BY <1>1, <1>2, <1>3 DEF GlobState

LEMMA GlobTakes ==
  ASSUME NEW P \in Seq(Nat), NEW T \in Seq(Nat), NEW p, NEW t, NEW s, NEW k,
         GlobState(P, T, p, t, s, k), t < Len(T), Same(P, T, p, t)
  PROVE  GlobState(P, T, p + 1, t + 1, s, k)
<1>1. p \in 0..Len(P) /\ p < Len(P) /\ t \in 0..Len(T) /\ k \in 0..t
  BY DEF GlobState, GlobBounds, Same
<1>2. s = None \/ s \in 0..(p - 1)
  BY DEF GlobState, GlobBounds
<1>3. GlobBounds(P, T, p + 1, t + 1, s, k)
  BY <1>1, <1>2 DEF GlobBounds
<1>4. Sound(P, T, p + 1, t + 1, s, k)
  <2>1. t + 1 \in 0..Len(T) /\ Reads(P, T, p + 1, t, t + 1)
    <3>1. P[p + 1] \in {OneUnit, T[t + 1]}
      BY DEF Same
    <3>2. t <= t + 1 /\ t + 1 \in 0..Len(T)
      BY <1>1
    <3> QED BY <3>1, <3>2 DEF Reads
  <2>2. t \in Ends(P, T, p) /\ p \in Nat
    BY <1>1 DEF GlobState, Sound
  <2>3. t + 1 \in Ends(P, T, p + 1)
    BY <2>1, <2>2, WalkOn
  <2> QED BY <2>3 DEF GlobState, Sound
<1>5. ASSUME NoStarIn(T) PROVE Complete(P, T, p + 1, t + 1, s, k)
  <2>1. P[p + 1] # Star
    <3>1. t + 1 \in DOMAIN T
      BY <1>1
    <3> QED BY <1>5, <3>1 DEF Same, NoStarIn, Star, OneUnit
  <2>2. ASSUME NEW e \in Full(P, T) PROVE e[p] \in Int /\ e[p + 1] = e[p] + 1
    <3>1. e[p] \in 0..Len(T) /\ Reads(P, T, p + 1, e[p], e[p + 1])
      BY <1>1, FullFacts
    <3> QED BY <2>1, <3>1 DEF Reads
  <2>3. Complete(P, T, p, t, s, k)
    BY <1>5 DEF GlobState
  <2>4. CASE s = None
    BY <2>2, <2>3, <2>4 DEF Complete
  <2>5. CASE s # None
    <3>1. \A e \in Full(P, T) : e[s + 1] \in Int
      <4>1. s + 1 \in 0..Len(P)
        BY <1>1, <1>2, <2>5
      <4> QED BY <4>1, FullFacts
    <3>2. \A e \in Full(P, T) : e[p] - t = e[s + 1] - k
      BY <2>3, <2>5 DEF Complete
    <3>3. ASSUME NEW e \in Full(P, T) PROVE e[p + 1] - (t + 1) = e[s + 1] - k
      <4> DEFINE a == e[p]
                 b == e[p + 1]
                 c == e[s + 1]
      <4>1. a \in Int /\ c \in Int /\ b = a + 1
        BY <2>2, <3>1
      <4>2. a - t = c - k
        BY <3>2
      <4>3. t \in Int /\ k \in Int
        BY <1>1
      <4> HIDE DEF a, b, c
      <4>4. b - (t + 1) = c - k
        BY <4>1, <4>2, <4>3
      <4> QED BY <4>4 DEF b, c
    <3> QED BY <2>3, <2>5, <3>3 DEF Complete
  <2> QED BY <2>4, <2>5
<1> QED BY <1>3, <1>4, <1>5 DEF GlobState

\* The strings that are still read, and where the next unit finds them.
LEMMA SomeReadingAhead ==
  ASSUME NEW P \in Seq(Nat), NEW T \in Seq(Nat), NEW p, NEW t, NEW s, NEW k,
         GlobState(P, T, p, t, s, k), NoStarIn(T), Full(P, T) # {}
  PROVE  \E e \in Full(P, T) : e[p] >= t
<1>1. p \in 0..Len(P) /\ t \in 0..Len(T) /\ k \in 0..t /\ (s = None \/ s \in 0..(p - 1))
  BY DEF GlobState, GlobBounds
<1>2. Complete(P, T, p, t, s, k)
  BY DEF GlobState
<1>3. CASE s = None
  BY <1>1, <1>2, <1>3 DEF Complete
<1>4. CASE s # None
  <2>1. PICK e \in Full(P, T) : e[s + 1] >= k /\ e[p] - t = e[s + 1] - k
    BY <1>2, <1>4 DEF Complete
  <2>2. s + 1 \in 0..Len(P)
    BY <1>1, <1>4
  <2>3. e[p] \in Int /\ e[s + 1] \in Int
    BY <1>1, <2>2, FullFacts
  <2> QED BY <1>1, <2>1, <2>3
<1> QED BY <1>3, <1>4

LEMMA GlobTakesStar ==
  ASSUME NEW P \in Seq(Nat), NEW T \in Seq(Nat), NEW p, NEW t, NEW s, NEW k,
         GlobState(P, T, p, t, s, k), StarAt(P, p)
  PROVE  GlobState(P, T, p + 1, t, p, t)
<1>1. p \in 0..Len(P) /\ p < Len(P) /\ t \in 0..Len(T) /\ P[p + 1] = Star /\ p # None
  BY DEF GlobState, GlobBounds, StarAt, None
<1>2. GlobBounds(P, T, p + 1, t, p, t)
  BY <1>1 DEF GlobBounds
<1>3. Sound(P, T, p + 1, t, p, t)
  <2>1. t \in Ends(P, T, p) /\ p \in Nat /\ Reads(P, T, p + 1, t, t) /\ t <= t
    BY <1>1 DEF GlobState, Sound, Reads
  <2>2. t \in Ends(P, T, p + 1)
    BY <1>1, <2>1, WalkOn
  <2> QED BY <1>1, <2>1, <2>2 DEF Sound
<1>4. ASSUME NoStarIn(T) PROVE Complete(P, T, p + 1, t, p, t)
  <2>1. ASSUME Full(P, T) # {} PROVE \E e \in Full(P, T) : e[p + 1] >= t
    <3>1. PICK e \in Full(P, T) : e[p] >= t
      BY <1>4, <2>1, SomeReadingAhead
    <3>2. e[p] \in Int /\ e[p + 1] \in Int /\ Reads(P, T, p + 1, e[p], e[p + 1])
      <4>1. p + 1 \in 0..Len(P)
        BY <1>1
      <4> QED BY <1>1, <4>1, FullFacts
    <3>3. e[p] <= e[p + 1]
      BY <1>1, <3>2 DEF Reads
    <3> QED BY <1>1, <3>1, <3>2, <3>3
  <2> QED BY <1>1, <2>1 DEF Complete
<1> QED BY <1>2, <1>3, <1>4 DEF GlobState

\* Where the units differ, a reading of the whole string is not at p and t.
LEMMA NoReadingHere ==
  ASSUME NEW P \in Seq(Nat), NEW T \in Seq(Nat), NEW p \in 0..Len(P), NEW t \in 0..Len(T),
         t < Len(T), ~Same(P, T, p, t), ~StarAt(P, p), NEW e \in Full(P, T)
  PROVE  e[p] # t
<1> SUFFICES ASSUME e[p] = t PROVE FALSE
  OBVIOUS
<1>1. CASE p = Len(P)
  BY <1>1, FullFacts
<1>2. CASE p < Len(P)
  <2>1. Reads(P, T, p + 1, t, e[p + 1])
    BY <1>2, FullFacts
  <2>2. P[p + 1] # Star
    BY <1>2 DEF StarAt
  <2>3. P[p + 1] \in {OneUnit, T[t + 1]}
    BY <2>1, <2>2 DEF Reads
  <2> QED BY <1>2, <2>3 DEF Same
<1> QED BY <1>1, <1>2

LEMMA GlobGoesBack ==
  ASSUME NEW P \in Seq(Nat), NEW T \in Seq(Nat), NEW p, NEW t, NEW s, NEW k,
         GlobState(P, T, p, t, s, k), t < Len(T), ~Same(P, T, p, t), ~StarAt(P, p), s # None
  PROVE  GlobState(P, T, s + 1, k + 1, s, k + 1)
<1>1. p \in 0..Len(P) /\ t \in 0..Len(T) /\ k \in 0..t /\ s \in 0..(p - 1)
  BY DEF GlobState, GlobBounds
<1>2. GlobBounds(P, T, s + 1, k + 1, s, k + 1)
  BY <1>1 DEF GlobBounds
<1>3. Sound(P, T, s + 1, k + 1, s, k + 1)
  <2>1. PICK j \in Ends(P, T, s) : j <= k
    BY DEF GlobState, Sound
  <2>2. P[s + 1] = Star
    BY DEF GlobState, Sound
  <2>3. j \in 0..Len(T) /\ k + 1 \in 0..Len(T) /\ s \in Nat
    BY <1>1, <2>1 DEF Ends
  <2>4. j <= k + 1
    BY <1>1, <2>1, <2>3
  <2>5. k + 1 \in Ends(P, T, s + 1)
    BY <2>1, <2>2, <2>3, <2>4, WalkOn DEF Reads
  <2> QED BY <2>1, <2>2, <2>4, <2>5 DEF Sound
<1>4. ASSUME NoStarIn(T) PROVE Complete(P, T, s + 1, k + 1, s, k + 1)
  <2>1. Complete(P, T, p, t, s, k)
    BY <1>4 DEF GlobState
  <2>2. ASSUME Full(P, T) # {} PROVE \E e \in Full(P, T) : e[s + 1] >= k + 1
    <3>1. PICK e \in Full(P, T) : e[s + 1] >= k /\ e[p] - t = e[s + 1] - k
      BY <2>1, <2>2 DEF Complete
    <3>2. e[p] # t
      BY <1>1, NoReadingHere
    <3>3. e[p] \in Int /\ e[s + 1] \in Int
      <4>1. s + 1 \in 0..Len(P)
        BY <1>1
      <4> QED BY <1>1, <4>1, FullFacts
    <3>4. e[s + 1] >= k + 1
      <4> DEFINE a == e[p]
                 c == e[s + 1]
      <4>1. a \in Int /\ c \in Int
        BY <3>3
      <4>2. c >= k /\ a - t = c - k /\ a # t
        BY <3>1, <3>2
      <4>3. t \in Int /\ k \in Int
        BY <1>1
      <4> HIDE DEF a, c
      <4>4. c >= k + 1
        BY <4>1, <4>2, <4>3
      <4> QED BY <4>4 DEF c
    <3> QED BY <3>4
  <2> QED BY <2>2 DEF Complete
<1> QED BY <1>2, <1>3, <1>4 DEF GlobState

\* With no star to go back to, the pattern does not stand for the string.
LEMMA GlobFails ==
  ASSUME NEW P \in Seq(Nat), NEW T \in Seq(Nat), NEW p, NEW t, NEW s, NEW k,
         GlobState(P, T, p, t, s, k), t < Len(T), ~Same(P, T, p, t), ~StarAt(P, p), s = None,
         NoStarIn(T)
  PROVE  ~Stands(P, T)
<1>1. p \in 0..Len(P) /\ t \in 0..Len(T)
  BY DEF GlobState, GlobBounds
<1>2. \A e \in Full(P, T) : e[p] = t
  BY DEF GlobState, Complete
<1>3. Full(P, T) = {}
  BY <1>1, <1>2, NoReadingHere
<1> QED BY <1>3, StandsForWhatItReads

\* At the end of the string only stars may be left.
LEMMA StarsAreLeft ==
  ASSUME NEW P \in Seq(Nat), NEW T \in Seq(Nat), NEW p \in 0..Len(P),
         NEW e \in Full(P, T), e[p] = Len(T)
  PROVE  \A n \in (p + 1)..Len(P) : P[n] = Star
<1> DEFINE S == {d \in Nat : p + d <= Len(P) => e[p + d] = Len(T)}
<1>1. 0 \in S
  OBVIOUS
<1>2. ASSUME NEW d \in Nat, d \in S PROVE d + 1 \in S
  <2>1. CASE p + d + 1 <= Len(P)
    <3>1. PICK q \in 0..Len(P) : q = p + d /\ q < Len(P) /\ q + 1 = p + (d + 1)
      BY <2>1
    <3>2. e[q] = Len(T)
      BY <1>2, <3>1
    <3>3. e[q + 1] \in 0..Len(T) /\ Reads(P, T, q + 1, e[q], e[q + 1])
      <4>1. q + 1 \in 0..Len(P)
        BY <3>1
      <4> QED BY <3>1, <4>1, FullFacts
    <3>4. e[q + 1] = Len(T)
      BY <3>2, <3>3 DEF Reads
    <3> QED BY <3>1, <3>4
  <2> QED BY <2>1
<1>3. Nat \subseteq S
  <2> HIDE DEF S
  <2> QED BY <1>1, <1>2, SetInduction
<1>4. ASSUME NEW n \in (p + 1)..Len(P) PROVE P[n] = Star
  <2>1. n - 1 - p \in S /\ n - p \in S
    <3>1. n - 1 - p \in Nat /\ n - p \in Nat
      OBVIOUS
    <3> HIDE DEF S
    <3> QED BY <1>3, <3>1
  <2>2. e[n - 1] = Len(T) /\ e[n] = Len(T)
    <3>1. p + (n - 1 - p) = n - 1 /\ p + (n - p) = n /\ n - 1 <= Len(P) /\ n <= Len(P)
      OBVIOUS
    <3> QED BY <2>1, <3>1
  <2>3. Reads(P, T, (n - 1) + 1, e[n - 1], e[(n - 1) + 1])
    <3>1. n - 1 \in 0..Len(P) /\ n - 1 < Len(P)
      OBVIOUS
    <3> HIDE DEF S
    <3> QED BY <3>1, FullFacts
  <2>4. (n - 1) + 1 = n
    OBVIOUS
  <2> HIDE DEF S
  <2> QED BY <2>2, <2>3, <2>4 DEF Reads
<1> QED BY <1>4

LEMMA GlobEnds ==
  ASSUME NEW P \in Seq(Nat), NEW T \in Seq(Nat), NEW p, NEW t, NEW s, NEW k,
         GlobState(P, T, p, t, s, k), ~(t < Len(T))
  PROVE  /\ (\A n \in (p + 1)..Len(P) : P[n] = Star) => Stands(P, T)
         /\ NoStarIn(T) /\ Stands(P, T) => \A n \in (p + 1)..Len(P) : P[n] = Star
<1>1. p \in 0..Len(P) /\ t \in 0..Len(T) /\ t = Len(T)
  BY DEF GlobState, GlobBounds
<1>2. ASSUME \A n \in (p + 1)..Len(P) : P[n] = Star PROVE Stands(P, T)
  <2> DEFINE S == {d \in Nat : p + d <= Len(P) => Len(T) \in Ends(P, T, p + d)}
  <2>1. 0 \in S
    BY <1>1 DEF GlobState, Sound
  <2>2. ASSUME NEW d \in Nat, d \in S PROVE d + 1 \in S
    <3>1. CASE p + d + 1 <= Len(P)
      <4>1. PICK q \in Nat : q = p + d /\ q + 1 = p + (d + 1) /\ q + 1 \in (p + 1)..Len(P)
        BY <1>1, <3>1
      <4>2. Len(T) \in Ends(P, T, q)
        BY <2>2, <3>1, <4>1
      <4>3. Len(T) \in 0..Len(T) /\ Reads(P, T, q + 1, Len(T), Len(T))
        BY <1>2, <4>1 DEF Reads
      <4>4. Len(T) \in Ends(P, T, q + 1)
        BY <4>2, <4>3, WalkOn
      <4> QED BY <4>1, <4>4
    <3> QED BY <1>1, <3>1
  <2>3. Nat \subseteq S
    <3> HIDE DEF S
    <3> QED BY <2>1, <2>2, SetInduction
  <2>4. Len(T) \in Ends(P, T, Len(P))
    <3>1. Len(P) - p \in S
      <4>1. Len(P) - p \in Nat
        BY <1>1
      <4> HIDE DEF S
      <4> QED BY <2>3, <4>1
    <3>2. p + (Len(P) - p) = Len(P) /\ Len(P) <= Len(P)
      BY <1>1
    <3> QED BY <3>1, <3>2
  <2> HIDE DEF S
  <2>5. Full(P, T) # {}
    BY <2>4 DEF Ends, Full
  <2> QED BY <2>5, StandsForWhatItReads
<1>3. ASSUME NoStarIn(T), Stands(P, T) PROVE \A n \in (p + 1)..Len(P) : P[n] = Star
  <2>1. Full(P, T) # {}
    BY <1>3, StandsForWhatItReads
  <2>2. PICK e \in Full(P, T) : e[p] >= t
    BY <1>3, <2>1, SomeReadingAhead
  <2>3. e[p] = Len(T)
    <3>1. e[p] \in 0..Len(T)
      BY <1>1, FullFacts
    <3> QED BY <1>1, <2>2, <3>1
  <2> QED BY <1>1, <2>3, StarsAreLeft
<1> QED BY <1>2, <1>3

(***************************************************************************)
(* The inductive invariant of the search.                                  *)
(***************************************************************************)

RawRule == [mask : SUBSET Nat, type : Nat, path : Seq(Nat), path_len : Nat, pid : Nat,
            exclude : BOOLEAN]

\* What the count of a configuration says is in its arrays.
ConfigInv ==
  /\ config \in [rule_count : Nat, rules : [1..MaxRules -> RawRule]]
  /\ \A n \in 1..MaxRules :
       LesserOf(config.rules[n].path_len, MaxPath) <= Len(config.rules[n].path)
  /\ asked = {FilterOf(config.rules[n]) : n \in 1..RuleCount}
  /\ started \in BOOLEAN

\* The operation as the rules see it, its name cut to the buffer.
Seen == [op EXCEPT !.name = Path]

Exempt == op.paging \/ op.pid = ExemptPid \/ op.name = <<>>
Meant(n) == Means(FilterOf(config.rules[n]), Seen)

\* Suspended or found so far, a rule means the operation; passed by, it does not.
SearchInv ==
  /\ op \in Operations \cup {NoOp}
  /\ outcome \in {"none", "suspended", "passed"}
  /\ rule_i \in 1..(RuleCount + 1)
  /\ ~started => op = NoOp
  /\ op = NoOp => rule_i = 1 /\ outcome = "none" /\ p_idx = None
  /\ Looking => ~Exempt /\ (NoStarIn(op.name) => \A n \in 1..(rule_i - 1) : ~Meant(n))
  /\ outcome = "suspended" => ~Exempt /\ \E n \in 1..RuleCount : Meant(n)
  /\ outcome = "passed" => Exempt \/ (NoStarIn(op.name) => \A n \in 1..RuleCount : ~Meant(n))

\* In the wildcard loop of a rule that applies to the operation.
GlobInv ==
  p_idx = None \/
    /\ Looking /\ rule_i \in 1..RuleCount
    /\ ~Skips(config.rules[rule_i]) /\ config.rules[rule_i].type = Wildcard
    /\ GlobState(Fold(Pattern), Fold(Path), p_idx, t_idx, star_idx, match_idx)

RuleInv == ConfigInv /\ SearchInv /\ GlobInv

(***************************************************************************)
(* Sequences of units and what the comparisons say of them.                *)
(***************************************************************************)

LEMMA SameElements ==
  ASSUME NEW s \in Seq(Nat), NEW t \in Seq(Nat), Len(s) = Len(t)
  PROVE  s = t <=> \A n \in 1..Len(t) : s[n] = t[n]
  BY SeqEqual

LEMMA FoldFacts ==
  ASSUME NEW s \in Seq(Nat)
  PROVE  /\ Fold(s) \in Seq(Nat) /\ Len(Fold(s)) = Len(s) /\ DOMAIN Fold(s) = DOMAIN s
         /\ \A n \in DOMAIN s : Fold(s)[n] = Lower(s[n])
         /\ \A n \in DOMAIN s : Fold(s)[n] = Star <=> s[n] = Star
         /\ \A n \in DOMAIN s : Fold(s)[n] = OneUnit <=> s[n] = OneUnit
<1>0. DOMAIN s = 1..Len(s) /\ \A n \in DOMAIN s : s[n] \in Nat
  OBVIOUS
<1>1. \A c \in Nat : Lower(c) \in Nat /\ (Lower(c) = 42 <=> c = 42) /\ (Lower(c) = 63 <=> c = 63)
  BY DEF Lower
<1>2. Fold(s) = [n \in 1..Len(s) |-> Lower(s[n])]
  BY DEF Fold
<1>3. Fold(s) \in Seq(Nat) /\ Len(Fold(s)) = Len(s) /\ DOMAIN Fold(s) = DOMAIN s
  <2>1. \A n \in 1..Len(s) : Lower(s[n]) \in Nat
    BY <1>0, <1>1
  <2> QED BY <1>2, <2>1
<1>4. \A n \in DOMAIN s : Lower(s[n]) = Star <=> s[n] = Star
  BY <1>0, <1>1 DEF Star
<1>5. \A n \in DOMAIN s : Lower(s[n]) = OneUnit <=> s[n] = OneUnit
  BY <1>0, <1>1 DEF OneUnit
<1>6. \A n \in DOMAIN s : Fold(s)[n] = Lower(s[n])
  BY <1>2
<1> QED BY <1>3, <1>4, <1>5, <1>6

\* The first n units, if there are that many.
LEMMA Beginning ==
  ASSUME NEW s \in Seq(Nat), NEW n \in 0..Len(s)
  PROVE  /\ SubSeq(s, 1, n) \in Seq(Nat) /\ Len(SubSeq(s, 1, n)) = n
         /\ \A i \in 1..n : SubSeq(s, 1, n)[i] = s[i]
         /\ n = Len(s) => SubSeq(s, 1, n) = s
  BY SubSeqProperties

LEMMA ExactIsEqual ==
  ASSUME NEW s \in Seq(Nat), NEW t \in Seq(Nat)
  PROVE  (Len(s) = Len(t) /\ SameUnits(s, t)) <=> Fold(s) = Fold(t)
<1>1. ASSUME Len(s) = Len(t), SameUnits(s, t) PROVE Fold(s) = Fold(t)
  BY <1>1 DEF SameUnits, Fold
<1>2. ASSUME Fold(s) = Fold(t) PROVE Len(s) = Len(t) /\ SameUnits(s, t)
  <2>1. Len(s) = Len(t)
    BY <1>2, FoldFacts
  <2>2. DOMAIN s = DOMAIN t
    BY <2>1
  <2>3. \A n \in DOMAIN t : Lower(s[n]) = Lower(t[n])
    BY <1>2, <2>2, FoldFacts
  <2> QED BY <2>1, <2>3 DEF SameUnits
<1> QED BY <1>1, <1>2

LEMMA PrefixIsPrefix ==
  ASSUME NEW s \in Seq(Nat), NEW t \in Seq(Nat)
  PROVE  (Len(s) >= Len(t) /\ SameUnits(s, t)) <=> IsPrefix(Fold(t), Fold(s))
<1> DEFINE F == Fold(s)
           G == Fold(t)
<1>1. F \in Seq(Nat) /\ G \in Seq(Nat) /\ Len(F) = Len(s) /\ Len(G) = Len(t)
  BY FoldFacts
<1>0. DOMAIN s = 1..Len(s) /\ DOMAIN t = 1..Len(t)
  OBVIOUS
<1>2. \A n \in 1..Len(t) : G[n] = Lower(t[n])
  BY <1>0, FoldFacts
<1>3. \A n \in 1..Len(s) : F[n] = Lower(s[n])
  BY <1>0, FoldFacts
<1>4. SameUnits(s, t) <=> \A n \in 1..Len(t) : Lower(s[n]) = Lower(t[n])
  BY <1>0 DEF SameUnits
<1>5. IsPrefix(G, F) <=> Len(t) <= Len(s) /\ SubSeq(G, 1, Len(t)) = SubSeq(F, 1, Len(t))
  BY <1>1 DEF IsPrefix
<1> HIDE DEF F, G
<1>6. ASSUME Len(t) <= Len(s)
      PROVE  SubSeq(G, 1, Len(t)) = SubSeq(F, 1, Len(t)) <=> \A n \in 1..Len(t) : G[n] = F[n]
  <2> DEFINE b == SubSeq(F, 1, Len(t))
  <2>0. Len(t) \in 0..Len(G) /\ Len(t) \in 0..Len(F)
    BY <1>1, <1>6
  <2>1. b \in Seq(Nat) /\ Len(b) = Len(t) /\ \A n \in 1..Len(t) : b[n] = F[n]
    BY <1>1, <2>0, Beginning
  <2>2. SubSeq(G, 1, Len(t)) = G
    BY <1>1, <2>0, Beginning
  <2> HIDE DEF b
  <2>3. G = b <=> \A n \in 1..Len(t) : G[n] = b[n]
    BY <1>1, <2>1, SameElements
  <2> QED BY <2>1, <2>2, <2>3 DEF b
<1> QED BY <1>1, <1>2, <1>3, <1>4, <1>5, <1>6 DEF F, G

LEMMA SuffixIsSuffix ==
  ASSUME NEW s \in Seq(Nat), NEW t \in Seq(Nat)
  PROVE  (Len(s) - Len(t) >= 0 /\ SameUnits([n \in DOMAIN t |-> s[Len(s) - Len(t) + n]], t))
           <=> IsSuffix(Fold(t), Fold(s))
<1> DEFINE F == Fold(s)
           G == Fold(t)
           u == [n \in DOMAIN t |-> s[Len(s) - Len(t) + n]]
<1>1. F \in Seq(Nat) /\ G \in Seq(Nat) /\ Len(F) = Len(s) /\ Len(G) = Len(t)
  BY FoldFacts
<1>0. DOMAIN s = 1..Len(s) /\ DOMAIN t = 1..Len(t)
  OBVIOUS
<1>2. /\ \A n \in 1..Len(t) : G[n] = Lower(t[n])
      /\ \A n \in 1..Len(s) : F[n] = Lower(s[n])
  BY <1>0, FoldFacts
<1>3. SameUnits(u, t) <=> \A n \in 1..Len(t) : Lower(s[Len(s) - Len(t) + n]) = Lower(t[n])
  BY <1>0 DEF SameUnits
<1>4. /\ Reverse(F) = [i \in 1..Len(s) |-> F[(Len(s) - i) + 1]]
      /\ Reverse(G) = [i \in 1..Len(t) |-> G[(Len(t) - i) + 1]]
  BY <1>1 DEF Reverse
<1> DEFINE RF == Reverse(F)
           RG == Reverse(G)
<1> HIDE DEF F, G, u
<1>5. RF \in Seq(Nat) /\ RG \in Seq(Nat) /\ Len(RF) = Len(s) /\ Len(RG) = Len(t)
  <2>1. \A i \in 1..Len(s) : (Len(s) - i) + 1 \in 1..Len(s)
    OBVIOUS
  <2>2. \A i \in 1..Len(t) : (Len(t) - i) + 1 \in 1..Len(t)
    OBVIOUS
  <2>3. \A i \in 1..Len(s) : F[(Len(s) - i) + 1] \in Nat
    BY <1>1, <2>1, ElementOfSeq
  <2>4. \A i \in 1..Len(t) : G[(Len(t) - i) + 1] \in Nat
    BY <1>1, <2>2, ElementOfSeq
  <2>5. RF \in Seq(Nat) /\ Len(RF) = Len(s)
    BY <1>4, <2>3
  <2>6. RG \in Seq(Nat) /\ Len(RG) = Len(t)
    BY <1>4, <2>4
  <2> QED BY <2>5, <2>6
<1> HIDE DEF RF, RG
<1>6. IsSuffix(G, F) <=> Len(t) <= Len(s) /\ SubSeq(RG, 1, Len(t)) = SubSeq(RF, 1, Len(t))
  BY <1>5 DEF IsSuffix, IsPrefix, RF, RG
<1>7. ASSUME Len(t) <= Len(s)
      PROVE  SubSeq(RG, 1, Len(t)) = SubSeq(RF, 1, Len(t)) <=> \A n \in 1..Len(t) : RG[n] = RF[n]
  <2> DEFINE b == SubSeq(RF, 1, Len(t))
  <2>0. Len(t) \in 0..Len(RG) /\ Len(t) \in 0..Len(RF)
    BY <1>5, <1>7
  <2>1. b \in Seq(Nat) /\ Len(b) = Len(t) /\ \A n \in 1..Len(t) : b[n] = RF[n]
    BY <1>5, <2>0, Beginning
  <2>2. SubSeq(RG, 1, Len(t)) = RG
    BY <1>5, <2>0, Beginning
  <2> HIDE DEF b
  <2>3. RG = b <=> \A n \in 1..Len(t) : RG[n] = b[n]
    BY <1>5, <2>1, SameElements
  <2> QED BY <2>1, <2>2, <2>3 DEF b
<1>8. ASSUME Len(t) <= Len(s)
      PROVE  (\A n \in 1..Len(t) : RG[n] = RF[n]) <=>
             (\A n \in 1..Len(t) : G[n] = F[Len(s) - Len(t) + n])
  <2>1. \A n \in 1..Len(t) : RG[n] = G[(Len(t) - n) + 1] /\ RF[n] = F[(Len(s) - n) + 1]
    BY <1>4, <1>8 DEF RF, RG
  <2>2. ASSUME \A n \in 1..Len(t) : RG[n] = RF[n], NEW n \in 1..Len(t)
        PROVE  G[n] = F[Len(s) - Len(t) + n]
    <3>0. (Len(t) - n) + 1 \in 1..Len(t)
      OBVIOUS
    <3>1. PICK i \in 1..Len(t) : i = (Len(t) - n) + 1
      BY <3>0
    <3>2. (Len(t) - i) + 1 = n /\ (Len(s) - i) + 1 = Len(s) - Len(t) + n
      BY <3>1
    <3> QED BY <2>1, <2>2, <3>2
  <2>3. ASSUME \A n \in 1..Len(t) : G[n] = F[Len(s) - Len(t) + n], NEW i \in 1..Len(t)
        PROVE  RG[i] = RF[i]
    <3>0. (Len(t) - i) + 1 \in 1..Len(t)
      OBVIOUS
    <3>1. PICK n \in 1..Len(t) : n = (Len(t) - i) + 1
      BY <3>0
    <3>2. (Len(s) - i) + 1 = Len(s) - Len(t) + n
      BY <3>1
    <3> QED BY <2>1, <2>3, <3>1, <3>2
  <2> QED BY <2>2, <2>3
<1>9. ASSUME Len(t) <= Len(s)
      PROVE  SameUnits(u, t) <=> \A n \in 1..Len(t) : G[n] = F[Len(s) - Len(t) + n]
  <2>1. \A n \in 1..Len(t) : Len(s) - Len(t) + n \in 1..Len(s)
    BY <1>9
  <2> QED BY <1>2, <1>3, <2>1
<1>10. Len(s) - Len(t) >= 0 <=> Len(t) <= Len(s)
  OBVIOUS
<1> QED BY <1>6, <1>7, <1>8, <1>9, <1>10 DEF F, G, u

(***************************************************************************)
(* What a rule means, seen from the loop.                                  *)
(***************************************************************************)

LEMMA RuleFacts ==
  ASSUME ConfigInv
  PROVE  /\ RuleCount \in 0..MaxRules
         /\ \A n \in 1..RuleCount :
              /\ n \in 1..MaxRules /\ config.rules[n] \in RawRule
              /\ FilterOf(config.rules[n]).path \in Seq(Nat)
              /\ Len(FilterOf(config.rules[n]).path) <= MaxPath
<1>1. RuleCount \in 0..MaxRules
  BY RulesAssumption DEF ConfigInv, RuleCount, LesserOf
<1>2. ASSUME NEW n \in 1..RuleCount
      PROVE  /\ n \in 1..MaxRules /\ config.rules[n] \in RawRule
             /\ FilterOf(config.rules[n]).path \in Seq(Nat)
             /\ Len(FilterOf(config.rules[n]).path) <= MaxPath
  <2>1. n \in 1..MaxRules /\ config.rules[n] \in RawRule
    BY <1>1, RulesAssumption DEF ConfigInv
  <2>2. PICK r \in RawRule : r = config.rules[n]
    BY <2>1
  <2>3. r.path \in Seq(Nat) /\ LesserOf(r.path_len, MaxPath) <= Len(r.path)
    BY <2>1, <2>2 DEF ConfigInv, RawRule
  <2>4. LesserOf(r.path_len, MaxPath) \in 0..Len(r.path) /\ LesserOf(r.path_len, MaxPath) <= MaxPath
    BY <2>2, <2>3, RulesAssumption DEF LesserOf, RawRule
  <2>5. FilterOf(r).path = SubSeq(r.path, 1, LesserOf(r.path_len, MaxPath))
    BY DEF FilterOf
  <2>6. FilterOf(r).path \in Seq(Nat) /\ Len(FilterOf(r).path) <= MaxPath
    BY <2>3, <2>4, <2>5, Beginning
  <2> QED BY <2>1, <2>2, <2>6
<1> QED BY <1>1, <1>2

LEMMA PathFacts ==
  ASSUME op \in Operations
  PROVE  /\ op \in [mask : SUBSET Nat, pid : Nat, paging : BOOLEAN, name : Seq(Nat)]
         /\ Len(op.name) <= MaxName => Path = op.name
         /\ Path \in Seq(Nat)
         /\ NoStarIn(op.name) => NoStarIn(Fold(Path))
<1>1. op \in [mask : SUBSET Nat, pid : Nat, paging : BOOLEAN, name : Seq(Nat)]
  BY RulesAssumption
<1>2. PICK name \in Seq(Nat) : name = op.name
  BY <1>1
<1>3. LesserOf(Len(name), MaxName) \in 0..Len(name)
  BY RulesAssumption DEF LesserOf
<1>4. Path = SubSeq(name, 1, LesserOf(Len(name), MaxName))
  BY <1>2 DEF Path
<1>5. /\ Path \in Seq(Nat) /\ Len(Path) = LesserOf(Len(name), MaxName)
      /\ \A i \in 1..Len(Path) : Path[i] = name[i]
      /\ Len(Path) = Len(name) => Path = name
  BY <1>3, <1>4, Beginning
<1>6. Len(name) <= MaxName => Path = name
  BY <1>5, RulesAssumption DEF LesserOf
<1>7. ASSUME NoStarIn(name) PROVE NoStarIn(Fold(Path))
  <2>1. DOMAIN Fold(Path) = 1..Len(Path) /\ 1..Len(Path) \subseteq DOMAIN name
    BY <1>3, <1>5, FoldFacts
  <2>2. \A n \in 1..Len(Path) : Path[n] # Star
    BY <1>5, <1>7, <2>1 DEF NoStarIn
  <2>3. \A n \in DOMAIN Path : Fold(Path)[n] = Star <=> Path[n] = Star
    BY <1>5, FoldFacts
  <2>4. DOMAIN Path = 1..Len(Path)
    BY <1>5
  <2> QED BY <2>1, <2>2, <2>3, <2>4 DEF NoStarIn
<1> QED BY <1>1, <1>2, <1>5, <1>6, <1>7

\* A rule says nothing of operations that it skips.
LEMMA SkippedIsNotMeant ==
  ASSUME ConfigInv, op \in Operations, NEW n \in 1..RuleCount
  PROVE  /\ Skips(config.rules[n]) => ~Meant(n)
         /\ ~Skips(config.rules[n]) =>
              (Meant(n) <=>
                 LET pat == Fold(FilterOf(config.rules[n]).path)
                     str == Fold(Path)
                 IN  \/ config.rules[n].type = Exact /\ str = pat
                     \/ config.rules[n].type = Prefix /\ IsPrefix(pat, str)
                     \/ config.rules[n].type = Suffix /\ IsSuffix(pat, str)
                     \/ config.rules[n].type = Wildcard /\ Stands(pat, str))
<1>1. PICK r \in RawRule : r = config.rules[n]
  BY RuleFacts
<1>2. PICK f : f = FilterOf(r)
  OBVIOUS
<1>3. f.mask = r.mask /\ f.type = r.type /\ f.pid = r.pid /\ f.exclude = r.exclude
  BY <1>2 DEF FilterOf
<1>4. op \in [mask : SUBSET Nat, pid : Nat, paging : BOOLEAN, name : Seq(Nat)]
  BY PathFacts
<1>5. Seen.mask = op.mask /\ Seen.pid = op.pid /\ Seen.name = Path
  BY <1>4 DEF Seen
<1>6. r.exclude \in BOOLEAN
  BY DEF RawRule
<1>7. Skips(r) <=> ~(/\ f.mask \cap Seen.mask # {}
                     /\ f.pid # 0 => IF f.exclude THEN Seen.pid # f.pid ELSE Seen.pid = f.pid)
  BY <1>3, <1>5, <1>6 DEF Skips
<1>8. Meant(n) <=> Means(f, Seen)
  BY <1>1, <1>2 DEF Meant
<1> HIDE DEF Seen
<1>9. Means(f, Seen) <=>
        /\ ~Skips(r)
        /\ LET pat == Fold(f.path)
               str == Fold(Seen.name)
           IN  \/ f.type = Exact /\ str = pat
               \/ f.type = Prefix /\ IsPrefix(pat, str)
               \/ f.type = Suffix /\ IsSuffix(pat, str)
               \/ f.type = Wildcard /\ Stands(pat, str)
  BY <1>7 DEF Means
<1> QED BY <1>1, <1>2, <1>3, <1>5, <1>8, <1>9

LEMMA ComparedIsMeant ==
  ASSUME ConfigInv, op \in Operations, rule_i \in 1..RuleCount,
         ~Skips(config.rules[rule_i]), config.rules[rule_i].type # Wildcard
  PROVE  Compare(config.rules[rule_i].type) <=> Meant(rule_i)
<1>1. Pattern = FilterOf(config.rules[rule_i]).path
  BY DEF Pattern, FilterOf
<1>2. Pattern \in Seq(Nat) /\ Path \in Seq(Nat)
  BY <1>1, RuleFacts, PathFacts
<1>3. MatchesExact <=> Fold(Path) = Fold(Pattern)
  BY <1>2, ExactIsEqual DEF MatchesExact
<1>4. MatchesPrefix <=> IsPrefix(Fold(Pattern), Fold(Path))
  BY <1>2, PrefixIsPrefix DEF MatchesPrefix
<1>5. MatchesSuffix <=> IsSuffix(Fold(Pattern), Fold(Path))
  BY <1>2, SuffixIsSuffix DEF MatchesSuffix
<1>6. PICK type : type = config.rules[rule_i].type
  OBVIOUS
<1>7. Meant(rule_i) <=>
        \/ type = Exact /\ Fold(Path) = Fold(Pattern)
        \/ type = Prefix /\ IsPrefix(Fold(Pattern), Fold(Path))
        \/ type = Suffix /\ IsSuffix(Fold(Pattern), Fold(Path))
  BY <1>1, <1>6, SkippedIsNotMeant
<1>8. Compare(type) <=> \/ type = Exact /\ MatchesExact
                        \/ type = Prefix /\ MatchesPrefix
                        \/ type = Suffix /\ MatchesSuffix
  BY DEF Compare, Exact, Prefix, Suffix, MatchesExact, MatchesPrefix, MatchesSuffix
<1> QED BY <1>3, <1>4, <1>5, <1>6, <1>7, <1>8

LEMMA WildcardIsMeant ==
  ASSUME ConfigInv, op \in Operations, rule_i \in 1..RuleCount,
         ~Skips(config.rules[rule_i]), config.rules[rule_i].type = Wildcard
  PROVE  /\ Pattern \in Seq(Nat) /\ Path \in Seq(Nat)
         /\ Meant(rule_i) <=> Stands(Fold(Pattern), Fold(Path))
<1>1. Pattern = FilterOf(config.rules[rule_i]).path
  BY DEF Pattern, FilterOf
<1>2. Pattern \in Seq(Nat) /\ Path \in Seq(Nat)
  BY <1>1, RuleFacts, PathFacts
<1>3. Meant(rule_i) <=> Stands(Fold(Pattern), Fold(Path))
  BY <1>1, SkippedIsNotMeant DEF Exact, Prefix, Suffix, Wildcard
<1> QED BY <1>2, <1>3

(***************************************************************************)
(* The invariant holds initially and is preserved.                         *)
(***************************************************************************)

LEMMA InitRules == ASSUME Init PROVE RuleInv
<1>1. NoRule \in RawRule /\ LesserOf(NoRule.path_len, MaxPath) <= Len(NoRule.path)
  BY RulesAssumption DEF NoRule, RawRule, Exact, LesserOf
<1>2. config.rule_count = 0 /\ config.rules = [n \in 1..MaxRules |-> NoRule] /\ config = NewConfig
  BY DEF Init, NewConfig
<1>3. config \in [rule_count : Nat, rules : [1..MaxRules -> RawRule]]
  BY <1>1, <1>2 DEF NewConfig
<1>4. RuleCount = 0
  BY <1>2, RulesAssumption DEF RuleCount, LesserOf
<1>5. ConfigInv
  <2>1. asked = {FilterOf(config.rules[n]) : n \in 1..RuleCount}
    BY <1>4 DEF Init
  <2> QED BY <1>1, <1>2, <1>3, <2>1 DEF ConfigInv, Init
<1>6. SearchInv
  BY <1>4 DEF Init, SearchInv, Looking
<1>7. GlobInv
  BY DEF Init, GlobInv
<1> QED BY <1>5, <1>6, <1>7 DEF RuleInv

\* While no operation is looked at, the rules may be anything.
LEMMA ConfigChanges ==
  ASSUME RuleInv, op = NoOp, ConfigInv', UNCHANGED <<op, rule_i, glob, outcome>>,
         RuleCount' \in Nat
  PROVE  RuleInv'
<1>1. rule_i = 1 /\ outcome = "none" /\ p_idx = None
  BY DEF RuleInv, SearchInv
<1>2. SearchInv'
  <2>1. op' = NoOp /\ rule_i' = 1 /\ outcome' = "none" /\ p_idx' = None /\ ~Looking'
    BY <1>1 DEF Looking, glob
  <2>2. outcome' # "suspended" /\ outcome' # "passed"
    BY <2>1
  <2>3. rule_i' \in 1..(RuleCount' + 1)
    <3>1. \A c \in Nat : 1 \in 1..(c + 1)
      OBVIOUS
    <3> QED BY <2>1, <3>1
  <2> QED BY <2>1, <2>2, <2>3 DEF SearchInv
<1>3. GlobInv'
  BY <1>1 DEF GlobInv, glob
<1> QED BY <1>2, <1>3 DEF RuleInv

LEMMA CountKnown == ASSUME ConfigInv' PROVE RuleCount' \in Nat
  BY RulesAssumption DEF ConfigInv, RuleCount, LesserOf

LEMMA AddKeeps ==
  ASSUME RuleInv, ~started, NEW f \in Filters \cup Together, AddFilter(f)
  PROVE  RuleInv'
<1>1. f \in [mask : SUBSET Nat, type : Nat, path : Seq(Nat), pid : Nat, exclude : BOOLEAN]
  BY RulesAssumption
<1>2. Resolve(f.path) \in Seq(Nat)
  <2>1. PICK path \in Seq(Nat) : path = f.path
    BY <1>1
  <2>2. CASE /\ Len(path) >= 2 /\ path[2] = Colon
             /\ SubSeq(path, 1, 2) \in DOMAIN Devices
    <3>1. Devices[SubSeq(path, 1, 2)] \in Seq(Nat)
      BY <2>2, RulesAssumption
    <3>2. SubSeq(path, 3, Len(path)) \in Seq(Nat)
      <4>1. \A i \in 3..Len(path) : path[i] \in Nat
        OBVIOUS
      <4>2. Len(path) \in Int /\ 3 \in Int
        OBVIOUS
      <4> QED BY <4>1, <4>2, SubSeqProperties
    <3>3. Devices[SubSeq(path, 1, 2)] \o SubSeq(path, 3, Len(path)) \in Seq(Nat)
      BY <3>1, <3>2
    <3> QED BY <2>1, <2>2, <3>3 DEF Resolve
  <2>3. CASE ~ (/\ Len(path) >= 2 /\ path[2] = Colon
                /\ SubSeq(path, 1, 2) \in DOMAIN Devices)
    BY <2>1, <2>3 DEF Resolve
  <2> QED BY <2>2, <2>3
<1>3. PICK path \in Seq(Nat) : path = Resolve(f.path)
  BY <1>2
<1>4. PICK r : r = Rule(f)
  OBVIOUS
<1>5. /\ r \in RawRule /\ r.path = path /\ r.path_len = Len(path)
      /\ r.mask = f.mask /\ r.type = f.type /\ r.pid = f.pid /\ r.exclude = f.exclude
  BY <1>1, <1>3, <1>4 DEF Rule, RawRule
<1>6. Len(path) \in Nat /\ Len(path) <= MaxPath /\ LesserOf(r.path_len, MaxPath) = Len(path)
  BY <1>3, <1>5, RulesAssumption DEF AddFilter, Fits, LesserOf
<1>7. FilterOf(r) = Native(f)
  <2>1. SubSeq(path, 1, Len(path)) = path
    BY <1>6, Beginning
  <2>2. FilterOf(r) = [mask |-> f.mask, type |-> f.type, path |-> path, pid |-> f.pid,
                       exclude |-> f.exclude]
    BY <1>5, <1>6, <2>1 DEF FilterOf
  <2>3. Native(f) = [mask |-> f.mask, type |-> f.type, path |-> path, pid |-> f.pid,
                     exclude |-> f.exclude]
    BY <1>1, <1>3 DEF Native
  <2> QED BY <2>2, <2>3
<1>8. PICK c \in Nat : c = config.rule_count
  BY DEF RuleInv, ConfigInv
<1>9. c < MaxRules /\ RuleCount = c /\ c + 1 \in 1..MaxRules
  BY <1>8, RulesAssumption DEF AddFilter, Fits, RuleCount, LesserOf
<1>10. PICK R \in [1..MaxRules -> RawRule] : R = config.rules
  BY DEF RuleInv, ConfigInv
<1>11. config' = [rule_count |-> c + 1, rules |-> [R EXCEPT ![c + 1] = r]]
  BY <1>4, <1>8, <1>10 DEF AddFilter
<1>12. /\ config'.rule_count = c + 1 /\ config'.rules = [R EXCEPT ![c + 1] = r]
       /\ config'.rules[c + 1] = r /\ \A n \in 1..MaxRules : n # c + 1 => config'.rules[n] = R[n]
  BY <1>9, <1>10, <1>11
<1>13. config' \in [rule_count : Nat, rules : [1..MaxRules -> RawRule]]
  BY <1>5, <1>9, <1>11
<1>14. RuleCount' = c + 1
  BY <1>9, <1>12, RulesAssumption DEF RuleCount, LesserOf
<1>15. \A n \in 1..MaxRules :
         LesserOf(config'.rules[n].path_len, MaxPath) <= Len(config'.rules[n].path)
  BY <1>5, <1>6, <1>10, <1>12 DEF RuleInv, ConfigInv
<1>16. asked' = {FilterOf(config'.rules[n]) : n \in 1..(c + 1)}
  <2>1. asked = {FilterOf(R[n]) : n \in 1..c} /\ asked' = asked \cup {FilterOf(r)}
    BY <1>7, <1>9, <1>10 DEF AddFilter, RuleInv, ConfigInv
  <2>2. ASSUME NEW n \in 1..c
        PROVE  n \in 1..MaxRules /\ n # c + 1 /\ config'.rules[n] = R[n]
    <3>1. n \in 1..MaxRules /\ n # c + 1
      BY <1>9, RulesAssumption
    <3> QED BY <1>12, <3>1
  <2>3. \A n \in 1..(c + 1) : n \in 1..c \/ n = c + 1
    OBVIOUS
  <2>4. 1..c \subseteq 1..(c + 1) /\ c + 1 \in 1..(c + 1)
    OBVIOUS
  <2> QED BY <1>12, <2>1, <2>2, <2>3, <2>4
<1>17. ConfigInv'
  BY <1>13, <1>14, <1>15, <1>16 DEF ConfigInv, RuleInv, AddFilter
<1>18. op = NoOp
  BY DEF RuleInv, SearchInv
<1> QED BY <1>14, <1>17, <1>18, ConfigChanges DEF AddFilter

LEMMA OtherConfigsKeep ==
  ASSUME RuleInv, ~started,
         \/ \E f : AddFilterFails(f)
         \/ OpenFile
         \/ \E c \in RawConfigs : OpenRaw(c)
  PROVE  RuleInv'
<1>0. op = NoOp
  BY DEF RuleInv, SearchInv
<1>1. CASE \E f : AddFilterFails(f)
  <2>1. NoRule \in RawRule /\ LesserOf(NoRule.path_len, MaxPath) <= Len(NoRule.path)
    BY RulesAssumption DEF NoRule, RawRule, Exact, LesserOf
  <2>2. config' = NewConfig /\ asked' = {} /\ UNCHANGED <<started, op, rule_i, glob, outcome>>
    BY <1>1 DEF AddFilterFails
  <2>3. config' \in [rule_count : Nat, rules : [1..MaxRules -> RawRule]]
    BY <2>1, <2>2 DEF NewConfig
  <2>4. RuleCount' = 0
    BY <2>2, RulesAssumption DEF RuleCount, LesserOf, NewConfig
  <2>5. \A n \in 1..MaxRules : config'.rules[n] = NoRule
    BY <2>2 DEF NewConfig
  <2>6. asked' = {FilterOf(config'.rules[n]) : n \in 1..RuleCount'}
    BY <2>2, <2>4
  <2>7. ConfigInv'
    BY <2>1, <2>2, <2>3, <2>5, <2>6 DEF ConfigInv, RuleInv
  <2> QED BY <1>0, <2>2, <2>4, <2>7, ConfigChanges
<1>2. CASE OpenFile
  <2>1. ConfigInv'
    BY <1>2 DEF OpenFile, ConfigInv, RuleInv, RuleCount
  <2> QED BY <1>0, <1>2, <2>1, CountKnown, ConfigChanges DEF OpenFile
<1>3. ASSUME NEW c \in RawConfigs, OpenRaw(c) PROVE RuleInv'
  <2>1. c \in [rule_count : Nat, rules : [1..MaxRules -> RawRule]]
    BY RulesAssumption DEF RawRule
  <2>2. config' = c /\ started' = TRUE
    BY <1>3 DEF OpenRaw
  <2>3. RuleCount' = LesserOf(c.rule_count, MaxRules)
    BY <2>2 DEF RuleCount
  <2>4. asked' = {FilterOf(config'.rules[n]) : n \in 1..RuleCount'}
    BY <1>3, <2>2, <2>3 DEF OpenRaw
  <2>5. \A n \in 1..MaxRules : LesserOf(c.rules[n].path_len, MaxPath) <= Len(c.rules[n].path)
    <3>1. ASSUME NEW n \in 1..MaxRules
          PROVE  LesserOf(c.rules[n].path_len, MaxPath) <= Len(c.rules[n].path)
      <4>1. PICK r \in RawRule : r = c.rules[n]
        BY <2>1
      <4>2. Len(r.path) = MaxPath /\ r.path_len \in Nat
        BY <4>1, RulesAssumption DEF RawRule
      <4>3. \A m \in Nat : LesserOf(m, MaxPath) <= MaxPath
        BY RulesAssumption DEF LesserOf
      <4> QED BY <4>1, <4>2, <4>3
    <3> QED BY <3>1
  <2>6. ConfigInv'
    BY <2>1, <2>2, <2>4, <2>5 DEF ConfigInv
  <2> QED BY <1>0, <1>3, <2>6, CountKnown, ConfigChanges DEF OpenRaw
<1> QED BY <1>1, <1>2, <1>3

\* While the rules and the operation stay, so does what they mean.
LEMMA NothingElseChanges ==
  ASSUME RuleInv, UNCHANGED <<config, asked, started, op>>
  PROVE  /\ ConfigInv' /\ RuleCount' = RuleCount
         /\ Path' = Path /\ Exempt' = Exempt
         /\ \A n : Meant(n)' = Meant(n)
<1>1. RuleCount' = RuleCount
  BY DEF RuleCount
<1>2. ConfigInv'
  BY <1>1 DEF RuleInv, ConfigInv
<1>3. Path' = Path /\ Exempt' = Exempt
  BY DEF Path, Exempt
<1>4. Seen' = Seen
  BY <1>3 DEF Seen
<1>5. \A n : Meant(n)' = Meant(n)
  BY <1>4 DEF Meant
<1> QED BY <1>1, <1>2, <1>3, <1>5

\* The rule looked at does not mean the operation: on to the next one.
LEMMA PassingKeeps ==
  ASSUME RuleInv, Looking, rule_i \in 1..RuleCount, NextRule, p_idx' = None,
         UNCHANGED <<config, asked, started, op>>, NoStarIn(op.name) => ~Meant(rule_i)
  PROVE  RuleInv'
<1>1. /\ ConfigInv' /\ RuleCount' = RuleCount /\ Exempt' = Exempt
      /\ \A n : Meant(n)' = Meant(n)
  BY NothingElseChanges
<1>2. RuleCount \in Nat
  BY RuleFacts DEF RuleInv
<1>3. rule_i' = rule_i + 1 /\ outcome' = outcome /\ outcome = "none" /\ op # NoOp /\ Looking'
  BY DEF NextRule, Looking
<1>4. rule_i' \in 1..(RuleCount' + 1)
  BY <1>1, <1>2, <1>3
<1>5. ASSUME NoStarIn(op.name), NEW n \in 1..(rule_i' - 1) PROVE ~Meant(n)
  <2>1. n = rule_i \/ n \in 1..(rule_i - 1)
    BY <1>3
  <2> QED BY <1>5, <2>1 DEF RuleInv, SearchInv
<1>6. ~Exempt' /\ (NoStarIn(op'.name) => \A n \in 1..(rule_i' - 1) : ~Meant(n)')
  BY <1>1, <1>5 DEF RuleInv, SearchInv
<1>7. SearchInv'
  BY <1>3, <1>4, <1>6 DEF RuleInv, SearchInv, Looking
<1> QED BY <1>1, <1>7 DEF RuleInv, GlobInv

LEMMA SuspendingKeeps ==
  ASSUME RuleInv, Looking, rule_i \in 1..RuleCount, Suspends, p_idx' = None,
         UNCHANGED <<config, asked, started, op>>, Meant(rule_i)
  PROVE  RuleInv'
<1>1. /\ ConfigInv' /\ RuleCount' = RuleCount /\ Exempt' = Exempt
      /\ \A n : Meant(n)' = Meant(n)
  BY NothingElseChanges
<1>2. rule_i' = rule_i /\ outcome' = "suspended" /\ op # NoOp
  BY DEF Suspends, Looking
<1>3. ~Exempt' /\ \E n \in 1..RuleCount' : Meant(n)'
  BY <1>1 DEF RuleInv, SearchInv
<1>4. SearchInv'
  BY <1>1, <1>2, <1>3 DEF RuleInv, SearchInv, Looking
<1> QED BY <1>1, <1>4 DEF RuleInv, GlobInv

\* A turn of the wildcard loop.
LEMMA TurningKeeps ==
  ASSUME RuleInv, Looking, rule_i \in 1..RuleCount,
         ~Skips(config.rules[rule_i]), config.rules[rule_i].type = Wildcard,
         UNCHANGED <<config, asked, started, op, rule_i, outcome>>,
         GlobState(Fold(Pattern), Fold(Path), p_idx', t_idx', star_idx', match_idx')
  PROVE  RuleInv'
<1>1. /\ ConfigInv' /\ RuleCount' = RuleCount /\ Exempt' = Exempt /\ Path' = Path
      /\ \A n : Meant(n)' = Meant(n)
  BY NothingElseChanges
<1>2. Looking' /\ op # NoOp /\ outcome = "none"
  BY DEF Looking
<1>3. SearchInv'
  BY <1>1, <1>2 DEF RuleInv, SearchInv, Looking
<1>4. Pattern' = Pattern /\ (Skips(config.rules[rule_i]))' = Skips(config.rules[rule_i])
  BY DEF Pattern, Skips
<1>5. GlobInv'
  BY <1>1, <1>2, <1>4 DEF GlobInv
<1> QED BY <1>1, <1>3, <1>5 DEF RuleInv

LEMMA PreOpKeeps ==
  ASSUME RuleInv, NEW o \in Operations, PreOp(o)
  PROVE  RuleInv'
<1>1. ConfigInv' /\ RuleCount' = RuleCount
  BY DEF PreOp, RuleInv, ConfigInv, RuleCount
<1>2. rule_i = 1 /\ outcome = "none" /\ p_idx = None /\ op' = o /\ o # NoOp /\ p_idx' = None
  BY RulesAssumption DEF PreOp, RuleInv, SearchInv, glob
<1>3. RuleCount \in Nat
  BY RuleFacts DEF RuleInv
<1>4. CASE o.paging \/ o.pid = ExemptPid \/ o.name = <<>>
  <2>1. outcome' = "passed" /\ rule_i' = 1 /\ Exempt'
    BY <1>2, <1>4 DEF PreOp, Exempt
  <2>2. SearchInv'
    BY <1>1, <1>2, <1>3, <2>1 DEF PreOp, SearchInv, Looking
  <2> QED BY <1>1, <1>2, <2>2 DEF RuleInv, GlobInv
<1>5. CASE ~(o.paging \/ o.pid = ExemptPid \/ o.name = <<>>)
  <2>1. outcome' = "none" /\ rule_i' = 1 /\ ~Exempt'
    BY <1>2, <1>5 DEF PreOp, Exempt
  <2>2. \A n : n \notin 1..(rule_i' - 1)
    BY <2>1
  <2>3. SearchInv'
    BY <1>1, <1>2, <1>3, <2>1, <2>2 DEF PreOp, SearchInv, Looking
  <2> QED BY <1>1, <1>2, <2>3 DEF RuleInv, GlobInv
<1> QED BY <1>4, <1>5

LEMMA TryRuleKeeps ==
  ASSUME RuleInv, TryRule
  PROVE  RuleInv'
<1>1. Looking /\ rule_i \in 1..RuleCount /\ p_idx = None /\ UNCHANGED <<config, asked, started, op>>
  <2>1. RuleCount \in Nat /\ rule_i \in 1..(RuleCount + 1)
    BY RuleFacts DEF RuleInv, SearchInv
  <2> QED BY <2>1 DEF TryRule, AtRule
<1>2. op \in Operations /\ ConfigInv
  BY <1>1 DEF RuleInv, SearchInv, Looking
<1>3. PICK r : r = config.rules[rule_i]
  OBVIOUS
<1>4. CASE Skips(r)
  <2>1. NextRule /\ p_idx' = None
    BY <1>1, <1>3, <1>4 DEF TryRule, glob
  <2>2. ~Meant(rule_i)
    BY <1>1, <1>2, <1>3, <1>4, SkippedIsNotMeant
  <2> QED BY <1>1, <2>1, <2>2, PassingKeeps
<1>5. CASE ~Skips(r) /\ r.type = Wildcard
  <2>1. /\ p_idx' = 0 /\ t_idx' = 0 /\ star_idx' = None /\ match_idx' = 0
        /\ UNCHANGED <<rule_i, outcome>>
    BY <1>3, <1>5 DEF TryRule
  <2>2. Pattern \in Seq(Nat) /\ Path \in Seq(Nat)
    BY <1>1, <1>2, <1>3, <1>5, WildcardIsMeant
  <2>3. Fold(Pattern) \in Seq(Nat) /\ Fold(Path) \in Seq(Nat)
    BY <2>2, FoldFacts
  <2>4. GlobState(Fold(Pattern), Fold(Path), 0, 0, None, 0)
    BY <2>3, GlobStarts
  <2>5. GlobState(Fold(Pattern), Fold(Path), p_idx', t_idx', star_idx', match_idx')
    BY <2>1, <2>4
  <2> QED BY <1>1, <1>3, <1>5, <2>1, <2>5, TurningKeeps
<1>6. CASE ~Skips(r) /\ r.type # Wildcard
  <2>1. /\ IF Compare(r.type) THEN Suspends ELSE NextRule
        /\ p_idx' = None
    BY <1>1, <1>3, <1>6 DEF TryRule, glob
  <2>2. Compare(r.type) <=> Meant(rule_i)
    BY <1>1, <1>2, <1>3, <1>6, ComparedIsMeant
  <2> QED BY <1>1, <2>1, <2>2, PassingKeeps, SuspendingKeeps
<1> QED BY <1>4, <1>5, <1>6

LEMMA NoRuleLeftKeeps ==
  ASSUME RuleInv, NoRuleLeft
  PROVE  RuleInv'
<1>1. /\ Looking /\ rule_i > RuleCount /\ outcome' = "passed"
      /\ UNCHANGED <<config, asked, started, op, rule_i, glob>>
  BY DEF NoRuleLeft
<1>2. /\ ConfigInv' /\ RuleCount' = RuleCount /\ Exempt' = Exempt
      /\ \A n : Meant(n)' = Meant(n)
  BY <1>1, NothingElseChanges
<1>3. rule_i - 1 = RuleCount /\ rule_i \in Nat
  <2>1. RuleCount \in Nat /\ rule_i \in 1..(RuleCount + 1)
    BY RuleFacts DEF RuleInv, SearchInv
  <2> QED BY <1>1, <2>1
<1>4. p_idx = None
  <2>1. ~(rule_i \in 1..RuleCount)
    BY <1>1, <1>3
  <2> QED BY <2>1 DEF RuleInv, GlobInv
<1>5. NoStarIn(op.name) => \A n \in 1..RuleCount : ~Meant(n)
  BY <1>1, <1>3 DEF RuleInv, SearchInv
<1>6. SearchInv'
  BY <1>1, <1>2, <1>5 DEF RuleInv, SearchInv, Looking
<1> QED BY <1>1, <1>2, <1>4, <1>6 DEF RuleInv, GlobInv, glob

\* In the wildcard loop, said of the folded pattern and path.
InLoop(P, T) ==
  /\ P = Fold(Pattern) /\ T = Fold(Path) /\ P \in Seq(Nat) /\ T \in Seq(Nat)
  /\ GlobState(P, T, p_idx, t_idx, star_idx, match_idx)
  /\ More <=> t_idx < Len(T)
  /\ More => (SameUnit <=> Same(P, T, p_idx, t_idx))
  /\ AtStar <=> StarAt(P, p_idx)
  /\ (\A n \in (p_idx + 1)..Len(Pattern) : Pattern[n] = Star) <=>
       \A n \in (p_idx + 1)..Len(P) : P[n] = Star
  /\ Looking /\ rule_i \in 1..RuleCount /\ op \in Operations /\ ConfigInv
  /\ ~Skips(config.rules[rule_i]) /\ config.rules[rule_i].type = Wildcard
  /\ Meant(rule_i) <=> Stands(P, T)
  /\ NoStarIn(op.name) => NoStarIn(T)

LEMMA LoopFacts ==
  ASSUME RuleInv, InGlob
  PROVE  \E P, T : InLoop(P, T)
<1> DEFINE P == Fold(Pattern)
           T == Fold(Path)
<1>1. /\ Looking /\ rule_i \in 1..RuleCount
      /\ ~Skips(config.rules[rule_i]) /\ config.rules[rule_i].type = Wildcard
      /\ GlobState(P, T, p_idx, t_idx, star_idx, match_idx)
  BY DEF RuleInv, GlobInv, InGlob
<1>2. op \in Operations /\ ConfigInv
  BY <1>1 DEF RuleInv, SearchInv, Looking
<1>3. Pattern \in Seq(Nat) /\ Path \in Seq(Nat) /\ (Meant(rule_i) <=> Stands(P, T))
  BY <1>1, <1>2, WildcardIsMeant
<1>4. NoStarIn(op.name) => NoStarIn(T)
  BY <1>2, PathFacts
<1>5. /\ P \in Seq(Nat) /\ Len(P) = Len(Pattern)
      /\ \A n \in 1..Len(Pattern) :
           /\ P[n] = Lower(Pattern[n])
           /\ P[n] = Star <=> Pattern[n] = Star
           /\ P[n] = OneUnit <=> Pattern[n] = OneUnit
  <2>1. DOMAIN Pattern = 1..Len(Pattern)
    BY <1>3
  <2> QED BY <1>3, <2>1, FoldFacts
<1>6. T \in Seq(Nat) /\ Len(T) = Len(Path) /\ \A n \in 1..Len(Path) : T[n] = Lower(Path[n])
  <2>1. DOMAIN Path = 1..Len(Path)
    BY <1>3
  <2> QED BY <1>3, <2>1, FoldFacts
<1> HIDE DEF P, T
<1>7. p_idx \in 0..Len(P) /\ t_idx \in 0..Len(T)
  BY <1>1 DEF GlobState, GlobBounds
<1>8. More <=> t_idx < Len(T)
  BY <1>6 DEF More
<1>9. p_idx < Len(Pattern) => p_idx + 1 \in 1..Len(Pattern)
  BY <1>5, <1>7
<1>10. t_idx < Len(Path) => t_idx + 1 \in 1..Len(Path)
  BY <1>6, <1>7
<1>11. More => (SameUnit <=> Same(P, T, p_idx, t_idx))
  BY <1>5, <1>6, <1>9, <1>10 DEF More, SameUnit, InPattern, Same
<1>12. AtStar <=> StarAt(P, p_idx)
  BY <1>5, <1>9 DEF AtStar, InPattern, StarAt
<1>13. (\A n \in (p_idx + 1)..Len(Pattern) : Pattern[n] = Star) <=>
         \A n \in (p_idx + 1)..Len(P) : P[n] = Star
  <2>1. \A n \in (p_idx + 1)..Len(P) : n \in 1..Len(Pattern)
    BY <1>5, <1>7
  <2> QED BY <1>5, <2>1
<1>14. InLoop(P, T)
  BY <1>1, <1>2, <1>3, <1>4, <1>5, <1>6, <1>8, <1>11, <1>12, <1>13 DEF InLoop, P, T
<1> QED BY <1>14

LEMMA TakeKeeps ==
  ASSUME RuleInv, Take
  PROVE  RuleInv'
<1>1. /\ InGlob /\ More /\ SameUnit /\ p_idx' = p_idx + 1 /\ t_idx' = t_idx + 1
      /\ UNCHANGED <<config, asked, started, op, rule_i, star_idx, match_idx, outcome>>
  BY DEF Take
<1>2. PICK P, T : InLoop(P, T)
  BY <1>1, LoopFacts
<1>3. GlobState(P, T, p_idx + 1, t_idx + 1, star_idx, match_idx)
  BY <1>1, <1>2, GlobTakes DEF InLoop
<1>4. GlobState(Fold(Pattern), Fold(Path), p_idx', t_idx', star_idx', match_idx')
  BY <1>1, <1>2, <1>3 DEF InLoop
<1> QED BY <1>1, <1>2, <1>4, TurningKeeps DEF InLoop

LEMMA TakeStarKeeps ==
  ASSUME RuleInv, TakeStar
  PROVE  RuleInv'
<1>1. /\ InGlob /\ AtStar /\ p_idx' = p_idx + 1 /\ star_idx' = p_idx /\ match_idx' = t_idx
      /\ UNCHANGED <<config, asked, started, op, rule_i, t_idx, outcome>>
  BY DEF TakeStar
<1>2. PICK P, T : InLoop(P, T)
  BY <1>1, LoopFacts
<1>3. GlobState(P, T, p_idx + 1, t_idx, p_idx, t_idx)
  BY <1>1, <1>2, GlobTakesStar DEF InLoop
<1>4. GlobState(Fold(Pattern), Fold(Path), p_idx', t_idx', star_idx', match_idx')
  BY <1>1, <1>2, <1>3 DEF InLoop
<1> QED BY <1>1, <1>2, <1>4, TurningKeeps DEF InLoop

LEMMA BackKeeps ==
  ASSUME RuleInv, Back
  PROVE  RuleInv'
<1>1. /\ InGlob /\ More /\ ~SameUnit /\ ~AtStar /\ star_idx # None
      /\ p_idx' = star_idx + 1 /\ match_idx' = match_idx + 1 /\ t_idx' = match_idx + 1
      /\ UNCHANGED <<config, asked, started, op, rule_i, star_idx, outcome>>
  BY DEF Back
<1>2. PICK P, T : InLoop(P, T)
  BY <1>1, LoopFacts
<1>3. GlobState(P, T, star_idx + 1, match_idx + 1, star_idx, match_idx + 1)
  BY <1>1, <1>2, GlobGoesBack DEF InLoop
<1>4. GlobState(Fold(Pattern), Fold(Path), p_idx', t_idx', star_idx', match_idx')
  BY <1>1, <1>2, <1>3 DEF InLoop
<1> QED BY <1>1, <1>2, <1>4, TurningKeeps DEF InLoop

LEMMA MismatchKeeps ==
  ASSUME RuleInv, Mismatch
  PROVE  RuleInv'
<1>1. /\ InGlob /\ More /\ ~SameUnit /\ ~AtStar /\ star_idx = None
      /\ NextRule /\ p_idx' = None /\ UNCHANGED <<config, asked, started, op>>
  BY DEF Mismatch, LeaveGlob
<1>2. PICK P, T : InLoop(P, T)
  BY <1>1, LoopFacts
<1>3. NoStarIn(T) => ~Stands(P, T)
  BY <1>1, <1>2, GlobFails DEF InLoop
<1> QED BY <1>1, <1>2, <1>3, PassingKeeps DEF InLoop

LEMMA PathEndsKeeps ==
  ASSUME RuleInv, PathEnds
  PROVE  RuleInv'
<1>1. /\ InGlob /\ ~More /\ p_idx' = None /\ UNCHANGED <<config, asked, started, op>>
      /\ IF \A n \in (p_idx + 1)..Len(Pattern) : Pattern[n] = Star THEN Suspends ELSE NextRule
  BY DEF PathEnds, LeaveGlob
<1>2. PICK P, T : InLoop(P, T)
  BY <1>1, LoopFacts
<1> DEFINE Rest == \A n \in (p_idx + 1)..Len(P) : P[n] = Star
<1>3. (Rest => Stands(P, T)) /\ (NoStarIn(T) /\ Stands(P, T) => Rest)
  BY <1>1, <1>2, GlobEnds DEF InLoop
<1>4. IF Rest THEN Suspends ELSE NextRule
  BY <1>1, <1>2 DEF InLoop
<1> HIDE DEF Rest
<1> QED BY <1>1, <1>2, <1>3, <1>4, PassingKeeps, SuspendingKeeps DEF InLoop

LEMMA ReturnKeeps ==
  ASSUME RuleInv, Return
  PROVE  RuleInv'
<1>1. /\ outcome # "none" /\ op' = NoOp /\ rule_i' = 1 /\ outcome' = "none"
      /\ UNCHANGED <<config, asked, started, glob>>
  BY DEF Return
<1>2. p_idx = None
  BY <1>1 DEF RuleInv, GlobInv, Looking
<1>3. ConfigInv' /\ RuleCount' = RuleCount
  BY <1>1 DEF RuleInv, ConfigInv, RuleCount
<1>4. RuleCount \in Nat
  BY RuleFacts DEF RuleInv
<1>5. SearchInv'
  BY <1>1, <1>2, <1>3, <1>4 DEF SearchInv, Looking, glob
<1> QED BY <1>1, <1>2, <1>3, <1>5 DEF RuleInv, GlobInv, glob

LEMMA NextRules ==
  ASSUME RuleInv, [Next]_vars
  PROVE  RuleInv'
<1>1. CASE ~started /\ \E f \in Filters \cup Together : AddFilter(f) \/ AddFilterFails(f)
  BY <1>1, AddKeeps, OtherConfigsKeep
<1>2. CASE ~started /\ (OpenFile \/ \E c \in RawConfigs : OpenRaw(c))
  BY <1>2, OtherConfigsKeep
<1>3. CASE \E o \in Operations : PreOp(o)
  BY <1>3, PreOpKeeps
<1>4. CASE Match
  BY <1>4, TryRuleKeeps, NoRuleLeftKeeps, TakeKeeps, TakeStarKeeps, BackKeeps, MismatchKeeps,
     PathEndsKeeps DEF Match
<1>5. CASE Return
  BY <1>5, ReturnKeeps
<1>6. CASE UNCHANGED vars
  <2>1. /\ UNCHANGED <<config, asked, started, op, rule_i, outcome>>
        /\ UNCHANGED <<p_idx, t_idx, star_idx, match_idx>>
    BY <1>6 DEF vars, glob
  <2>2. /\ ConfigInv' /\ RuleCount' = RuleCount /\ Exempt' = Exempt /\ Path' = Path
        /\ \A n : Meant(n)' = Meant(n)
    BY <2>1, NothingElseChanges
  <2>3. SearchInv'
    BY <2>1, <2>2 DEF RuleInv, SearchInv, Looking
  <2>4. Pattern' = Pattern /\ (Skips(config.rules[rule_i]))' = Skips(config.rules[rule_i])
    BY <2>1 DEF Pattern, Skips
  <2>5. GlobInv'
    BY <2>1, <2>2, <2>4 DEF RuleInv, GlobInv, Looking
  <2> QED BY <2>2, <2>3, <2>5 DEF RuleInv
<1> QED BY <1>1, <1>2, <1>3, <1>4, <1>5, <1>6 DEF Next

(* minifilter.rs:138-172, 262-287: the indices of the search and of the     *)
(* wildcard loop stay inside the rules, the pattern and the name, whatever  *)
(* the counts of a configuration say.                                       *)
THEOREM TypeCorrect == Spec => []TypeOK
<1>1. Init => RuleInv
  BY InitRules
<1>2. RuleInv /\ [Next]_vars => RuleInv'
  BY NextRules
<1>3. RuleInv => TypeOK
  <2> SUFFICES ASSUME RuleInv PROVE TypeOK
    OBVIOUS
  <2>1. config.rule_count \in Nat /\ DOMAIN config.rules = 1..MaxRules
    BY DEF RuleInv, ConfigInv
  <2>2. ASSUME InGlob
        PROVE  /\ p_idx \in 0..Len(Pattern) /\ t_idx \in 0..Len(Path)
               /\ star_idx \in {None} \cup 0..(p_idx - 1) /\ match_idx \in 0..t_idx
    <3>1. PICK P, T : InLoop(P, T)
      BY <2>2, LoopFacts
    <3>2. Pattern \in Seq(Nat) /\ Path \in Seq(Nat)
      BY <3>1, WildcardIsMeant DEF InLoop
    <3>3. Len(P) = Len(Pattern) /\ Len(T) = Len(Path)
      BY <3>1, <3>2, FoldFacts DEF InLoop
    <3> QED BY <3>1, <3>3 DEF InLoop, GlobState, GlobBounds
  <2> QED BY <2>1, <2>2 DEF RuleInv, ConfigInv, SearchInv, TypeOK
<1> QED BY <1>1, <1>2, <1>3, PTL DEF Spec

(* types.rs:265-273, minifilter.rs:136-172, 262-320: for any filters, any   *)
(* configuration and any operation whose name fits the buffer, it is only   *)
(* suspended if a filter that was asked for means it, and always if its     *)
(* name has no star.                                                        *)
THEOREM RulesDecide == Spec => []SuspendedIfAsked
<1>1. Init => RuleInv
  BY InitRules
<1>2. RuleInv /\ [Next]_vars => RuleInv'
  BY NextRules
<1>3. RuleInv => SuspendedIfAsked
  <2> SUFFICES ASSUME RuleInv, outcome # "none", Len(op.name) <= MaxName
               PROVE  /\ outcome = "suspended" => ~Exempt /\ \E f \in asked : Means(f, op)
                      /\ ~Exempt /\ (\E f \in asked : Means(f, op)) /\ NoStarIn(op.name)
                           => outcome = "suspended"
    BY DEF SuspendedIfAsked, Exempt, NoStarIn
  <2>1. op \in Operations
    BY DEF RuleInv, SearchInv
  <2>2. Seen = op
    <3>1. Path = op.name /\ op \in [mask : SUBSET Nat, pid : Nat, paging : BOOLEAN, name : Seq(Nat)]
      BY <2>1, PathFacts
    <3> QED BY <3>1 DEF Seen
  <2>3. asked = {FilterOf(config.rules[n]) : n \in 1..RuleCount}
    BY DEF RuleInv, ConfigInv
  <2>4. (\E f \in asked : Means(f, op)) <=> \E n \in 1..RuleCount : Meant(n)
    BY <2>2, <2>3 DEF Meant
  <2>5. outcome = "suspended" \/ outcome = "passed"
    BY DEF RuleInv, SearchInv
  <2> QED BY <2>4, <2>5 DEF RuleInv, SearchInv
<1> QED BY <1>1, <1>2, <1>3, PTL DEF Spec
=============================================================================
